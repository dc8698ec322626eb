---------------------------- MODULE StreamIOProofs ----------------------------
(***************************************************************************)
(* Proofs about StreamIO, for a message, buffers and operations of any     *)
(* size.  Byte i of the message is the number i, so that the inductive     *)
(* invariant IInv can say of each byte in the reader's buffer and on its   *)
(* way that it is in its place.                                            *)
(***************************************************************************)
EXTENDS StreamIO, SequenceTheorems, TLAPS

\* How many bytes the reader has been given.
Got == total_bytes_read + IF rPc = "complete" THEN rDone ELSE 0

\* An operation works where the one before it has stopped.
CountInv ==
  /\ wPc = "pending" => wOffset = total_bytes_written
  /\ rPc = "pending" => rOffset = total_bytes_read
  /\ Sent <= Length
  /\ wPc = "done" => total_bytes_written = Length
  /\ IF reader = "exact" THEN Got <= buf_size ELSE Len(buf) = Got

\* The bytes received are the first ones of the message, those on their way
\* the next ones, and there are no others.
BytesInv ==
  /\ \A i \in 1 .. Got : buf[i] = i
  /\ IF broken THEN Got <= Sent /\ pipe = <<>>
     ELSE /\ Got + Len(pipe) = Sent
          /\ \A i \in 1 .. Len(pipe) : pipe[i] = Got + i

\* What a reader that is done has found in its buffer.
MessageInv ==
  rPc = "done" =>
    IF reader = "exact" THEN total_bytes_read = buf_size /\ message = buf
    ELSE Delim \in 1 .. total_bytes_read /\ message = SubSeq(buf, 1, Delim - 1)

IInv ==
  /\ TypeOK
  /\ CountInv
  /\ BytesInv
  /\ MessageInv
-----------------------------------------------------------------------------
(* The operators of the model *)

\* What CountInv and BytesInv say of the totals together.
LEMMA Counts ==
  ASSUME IInv
  PROVE  /\ Sent \in 0 .. Length /\ Got \in 0 .. Length /\ Got <= Sent
         /\ total_bytes_read \in Nat /\ rDone \in Nat /\ rOffset \in Nat
         /\ Len(pipe) \in Nat /\ Len(buf) \in Nat /\ buf_size \in Nat
         /\ rPc # "complete" => Got = total_bytes_read
         /\ rPc = "complete" => Got = total_bytes_read + rDone
         /\ rPc = "pending" => rOffset = Got
<1>1. /\ total_bytes_read \in Nat /\ rDone \in Nat /\ rOffset \in Nat
      /\ total_bytes_written \in Nat /\ wDone \in Nat /\ buf_size \in Nat
  BY LengthAssumption, ReadersAssumption DEF IInv, TypeOK
<1>2. Len(pipe) \in Nat /\ Len(buf) \in Nat
  BY LenProperties DEF IInv, TypeOK
<1>3. Got \in Nat /\ Sent \in Nat
  BY <1>1 DEF Got, Sent
<1>4. Sent <= Length
  BY DEF IInv, CountInv
<1>5. Got <= Sent
  <2>1. IF broken THEN Got <= Sent ELSE Got + Len(pipe) = Sent
    BY DEF IInv, BytesInv
  <2> QED
    BY <1>2, <1>3, <2>1
<1>6. rPc = "pending" => rOffset = total_bytes_read
  BY DEF IInv, CountInv
<1> QED
  BY <1>1, <1>2, <1>3, <1>4, <1>5, <1>6, LengthAssumption DEF Got

\* One sequence behind another.
LEMMA JoinProperties ==
  ASSUME NEW S, NEW p \in Seq(S), NEW q \in Seq(S)
  PROVE  /\ p \o q \in Seq(S) /\ Len(p \o q) = Len(p) + Len(q)
         /\ \A i \in 1 .. Len(p) : (p \o q)[i] = p[i]
         /\ \A i \in 1 .. Len(q) : (p \o q)[Len(p) + i] = q[i]
<1> DEFINE joined == p \o q
<1>1. /\ joined \in Seq(S) /\ Len(joined) = Len(p) + Len(q)
      /\ \A i \in 1 .. Len(p) + Len(q) :
           joined[i] = IF i <= Len(p) THEN p[i] ELSE q[i - Len(p)]
  BY ConcatProperties
<1>2. Len(p) \in Nat /\ Len(q) \in Nat
  BY LenProperties
<1> HIDE DEF joined
<1>3. ASSUME NEW i \in 1 .. Len(p) PROVE joined[i] = p[i]
  BY <1>1, <1>2
<1>4. ASSUME NEW i \in 1 .. Len(q) PROVE joined[Len(p) + i] = q[i]
  <2>1. /\ Len(p) + i \in 1 .. Len(p) + Len(q) /\ ~(Len(p) + i <= Len(p))
        /\ (Len(p) + i) - Len(p) = i
    BY <1>2
  <2> QED
    BY <1>1, <2>1
<1> QED
  BY <1>1, <1>3, <1>4 DEF joined

LEMMA PrefixProperties ==
  ASSUME NEW n \in 0 .. Length
  PROVE  /\ Prefix(n) \in Seq(Bytes) /\ Len(Prefix(n)) = n
         /\ \A i \in 1 .. n : Prefix(n)[i] = i
<1>1. \A i \in 1 .. n : Contents[i] \in Bytes /\ Contents[i] = i
  <2>1. n \in Nat /\ n <= Length
    BY LengthAssumption
  <2> QED
    BY <2>1, LengthAssumption DEF Contents, Bytes
<1>2. /\ SubSeq(Contents, 1, n) \in Seq(Bytes)
      /\ Len(SubSeq(Contents, 1, n)) = IF 1 <= n THEN n - 1 + 1 ELSE 0
      /\ \A i \in 1 .. n - 1 + 1 : SubSeq(Contents, 1, n)[i] = Contents[1 + i - 1]
  BY <1>1, SubSeqProperties
<1> QED
  BY <1>1, <1>2, LengthAssumption DEF Prefix

\* What one operation writes.
LEMMA SliceProperties ==
  ASSUME NEW k \in Nat, NEW n \in Nat, k + n <= Length
  PROVE  LET slice == SubSeq(Contents, k + 1, k + n)
         IN  /\ slice \in Seq(Bytes) /\ Len(slice) = n
             /\ \A i \in 1 .. n : slice[i] = k + i
<1> DEFINE slice == SubSeq(Contents, k + 1, k + n)
<1>1. \A i \in k + 1 .. k + n : Contents[i] \in Bytes /\ Contents[i] = i
  BY LengthAssumption DEF Contents, Bytes
<1>2. /\ slice \in Seq(Bytes)
      /\ Len(slice) = IF k + 1 <= k + n THEN k + n - (k + 1) + 1 ELSE 0
      /\ \A i \in 1 .. k + n - (k + 1) + 1 : slice[i] = Contents[k + 1 + i - 1]
  BY <1>1, SubSeqProperties
<1> HIDE DEF slice
<1>3. slice \in Seq(Bytes) /\ Len(slice) = n
  BY <1>2
<1>4. \A i \in 1 .. n : slice[i] = k + i
  BY <1>1, <1>2
<1> QED
  BY <1>3, <1>4 DEF slice

\* Taking n bytes from the front of what is on its way.
LEMMA SplitProperties ==
  ASSUME NEW S, NEW q \in Seq(S), NEW n \in 0 .. Len(q)
  PROVE  LET front == SubSeq(q, 1, n)
             rest == SubSeq(q, n + 1, Len(q))
         IN  /\ front \in Seq(S) /\ Len(front) = n
             /\ \A i \in 1 .. n : front[i] = q[i]
             /\ rest \in Seq(S) /\ Len(rest) = Len(q) - n
             /\ \A i \in 1 .. Len(q) - n : rest[i] = q[n + i]
<1> DEFINE front == SubSeq(q, 1, n)
           rest == SubSeq(q, n + 1, Len(q))
<1>1. Len(q) \in Nat /\ \A i \in 1 .. Len(q) : q[i] \in S
  BY LenProperties, ElementOfSeq
<1>2. /\ front \in Seq(S)
      /\ Len(front) = IF 1 <= n THEN n - 1 + 1 ELSE 0
      /\ \A i \in 1 .. n - 1 + 1 : front[i] = q[1 + i - 1]
  BY <1>1, SubSeqProperties
<1>3. /\ rest \in Seq(S)
      /\ Len(rest) = IF n + 1 <= Len(q) THEN Len(q) - (n + 1) + 1 ELSE 0
      /\ \A i \in 1 .. Len(q) - (n + 1) + 1 : rest[i] = q[n + 1 + i - 1]
  BY <1>1, SubSeqProperties
<1> HIDE DEF front, rest
<1>4. /\ Len(front) = n /\ \A i \in 1 .. n : front[i] = q[i]
      /\ Len(rest) = Len(q) - n /\ \A i \in 1 .. Len(q) - n : rest[i] = q[n + i]
  BY <1>1, <1>2, <1>3
<1> QED
  BY <1>2, <1>3, <1>4 DEF front, rest

\* The buffer after a read operation has put n bytes behind the others.
LEMMA FilledProperties ==
  ASSUME IInv, rPc = "pending", NEW bytes \in Seq(Bytes),
         reader = "exact" => Len(bytes) <= buf_size - rOffset
  PROVE  LET full == Filled(bytes)
         IN  /\ full \in Seq(Bytes \cup {Junk})
             /\ Len(full) = IF reader = "exact" THEN buf_size
                            ELSE Got + Len(bytes)
             /\ \A i \in 1 .. Got : full[i] = buf[i]
             /\ \A i \in 1 .. Len(bytes) : full[Got + i] = bytes[i]
<1> USE LengthAssumption, ReadersAssumption
<1> DEFINE full == Filled(bytes)
<1>1. Got \in Nat /\ rOffset = Got /\ buf_size \in Nat /\ Len(bytes) \in Nat
  BY Counts, LenProperties
<1>2. bytes \in Seq(Bytes \cup {Junk}) /\ buf \in Seq(Bytes \cup {Junk})
  BY SeqMonotonic DEF IInv, TypeOK
<1>3. CASE reader = "delim"
  <2>1. full = buf \o bytes /\ Len(buf) = Got
    BY <1>3 DEF IInv, CountInv, Filled
  <2>2. /\ buf \o bytes \in Seq(Bytes \cup {Junk})
        /\ Len(buf \o bytes) = Len(buf) + Len(bytes)
        /\ \A i \in 1 .. Len(buf) : (buf \o bytes)[i] = buf[i]
        /\ \A i \in 1 .. Len(bytes) : (buf \o bytes)[Len(buf) + i] = bytes[i]
    BY <1>2, JoinProperties
  <2> HIDE DEF full
  <2> QED
    BY <1>1, <1>3, <2>1, <2>2 DEF full
<1>4. CASE reader = "exact"
  <2>1. full = [i \in 1 .. buf_size |->
                  IF i \in Got + 1 .. Got + Len(bytes)
                  THEN bytes[i - Got] ELSE buf[i]]
    BY <1>1, <1>4 DEF Filled
  <2>2. Len(buf) = buf_size /\ Got + Len(bytes) <= buf_size
    BY <1>1, <1>4 DEF IInv, TypeOK
  <2>3. \A i \in 1 .. buf_size : buf[i] \in Bytes \cup {Junk}
    BY <1>2, <2>2, ElementOfSeq
  <2>4. \A i \in 1 .. Len(bytes) : bytes[i] \in Bytes
    BY ElementOfSeq
  <2>5. full \in [1 .. buf_size -> Bytes \cup {Junk}]
    BY <1>1, <2>1, <2>3, <2>4
  <2> HIDE DEF full
  <2>6. full \in Seq(Bytes \cup {Junk}) /\ Len(full) = buf_size
    BY <1>1, <2>5
  <2> QED
    BY <1>1, <1>4, <2>1, <2>2, <2>6 DEF full
<1> QED
  BY <1>3, <1>4 DEF IInv, TypeOK

\* The first delimiter in a buffer of bytes in their places is at Delim.
LEMMA DelimProperties ==
  ASSUME IInv, reader = "delim", Has(buf, Delim)
  PROVE  Delim \in 1 .. Got /\ BeforeDelim(buf) = SubSeq(buf, 1, Delim - 1)
<1>1. Len(buf) = Got /\ Got \in Nat /\ \A i \in 1 .. Got : buf[i] = i
  BY DEF IInv, TypeOK, CountInv, BytesInv, Got
<1>2. Delim \in 1 .. Got /\ buf[Delim] = Delim
  BY <1>1 DEF Has
<1> DEFINE First(i) == buf[i] = Delim /\ \A j \in 1 .. i - 1 : buf[j] # Delim
           at == CHOOSE i \in 1 .. Len(buf) : First(i)
<1>3. First(Delim) /\ \A i \in 1 .. Len(buf) : First(i) => i = Delim
  BY <1>1, <1>2
<1>4. at = Delim
  <2> HIDE DEF First
  <2> QED
    BY <1>1, <1>2, <1>3
<1> QED
  BY <1>2, <1>4 DEF BeforeDelim

-----------------------------------------------------------------------------
(* Every action preserves IInv: one lemma per action, and in it one step for *)
(* each conjunct the action can disturb and one for all the others.        *)

LEMMA InitiateWriteStep ==
  ASSUME IInv, InitiateWrite
  PROVE  IInv'
<1> USE LengthAssumption DEF IInv, InitiateWrite, what, readerVars
<1>1. TypeOK'
  BY DEF TypeOK, Pcs
<1>2. CountInv' /\ BytesInv' /\ MessageInv'
  BY DEF CountInv, BytesInv, MessageInv, Sent, Got
<1> QED
  BY <1>1, <1>2

\* The bytes go behind those that are on their way.
LEMMA WriteSomeStep ==
  ASSUME IInv, NEW n \in Bytes, WriteSome(n)
  PROVE  IInv'
<1> DEFINE slice == SubSeq(Contents, wOffset + 1, wOffset + n)
<1>1. /\ n \in Nat /\ wOffset \in Nat /\ wOffset + n <= Length
      /\ wOffset = Sent /\ Sent' = wOffset + n
  <2>1. n \in Nat /\ {total_bytes_written, wOffset} \subseteq Nat
    BY LengthAssumption DEF IInv, TypeOK, Bytes
  <2>2. wOffset = total_bytes_written
    BY DEF IInv, CountInv, WriteSome
  <2>3. Sent = wOffset /\ Sent' = wOffset + n
    BY <2>1, <2>2 DEF Sent, WriteSome
  <2>4. wOffset + n <= Length
    BY <2>1, LengthAssumption DEF WriteSome
  <2> QED
    BY <2>1, <2>3, <2>4
<1>2. /\ slice \in Seq(Bytes) /\ Len(slice) = n
      /\ \A i \in 1 .. n : slice[i] = wOffset + i
  BY <1>1, SliceProperties
<1>3. pipe' = pipe \o slice /\ pipe \in Seq(Bytes)
  BY DEF WriteSome, IInv, TypeOK
<1> HIDE DEF slice
<1>4. Len(pipe) \in Nat /\ Got \in Nat /\ Got' = Got
  BY Counts DEF Got, WriteSome, readerVars
<1>5. /\ pipe' \in Seq(Bytes) /\ Len(pipe') = Len(pipe) + n
      /\ \A i \in 1 .. Len(pipe) : pipe'[i] = pipe[i]
      /\ \A i \in 1 .. n : pipe'[Len(pipe) + i] = slice[i]
  <2> DEFINE joined == pipe \o slice
  <2>1. /\ joined \in Seq(Bytes) /\ Len(joined) = Len(pipe) + Len(slice)
        /\ \A i \in 1 .. Len(pipe) : joined[i] = pipe[i]
        /\ \A i \in 1 .. Len(slice) : joined[Len(pipe) + i] = slice[i]
    <3>1. pipe \in Seq(Bytes) /\ slice \in Seq(Bytes)
      BY <1>2, <1>3
    <3> QED
      BY <3>1, JoinProperties
  <2>2. pipe' = joined
    BY <1>3
  <2> HIDE DEF joined
  <2> QED
    BY <1>2, <2>1, <2>2
<1>6. TypeOK'
  <2>1. Len(pipe') <= Capacity
    BY <1>1, <1>4, <1>5, CapacityAssumption DEF IInv, TypeOK, WriteSome
  <2>2. n \in 0 .. Length
    BY LengthAssumption DEF Bytes
  <2> QED
    BY <1>5, <2>1, <2>2
       DEF IInv, TypeOK, Pcs, WriteSome, what, readerVars
<1>7. CountInv'
  BY <1>1, <1>4 DEF IInv, CountInv, WriteSome, what, readerVars
<1>8. BytesInv'
  <2>1. /\ ~broken /\ UNCHANGED <<broken, buf>> /\ Got + Len(pipe) = wOffset
        /\ \A i \in 1 .. Got : buf[i] = i
        /\ \A i \in 1 .. Len(pipe) : pipe[i] = Got + i
    BY <1>1 DEF IInv, BytesInv, WriteSome, readerVars
  <2>2. Got' + Len(pipe') = Sent'
    <3> DEFINE len == Len(pipe)
               got == Got
    <3>1. Got' = got /\ Len(pipe') = len + n /\ got + len = wOffset
      BY <1>4, <1>5, <2>1
    <3>2. got \in Nat /\ len \in Nat /\ n \in Nat /\ Sent' = wOffset + n
      BY <1>1, <1>4
    <3> HIDE DEF len, got
    <3> QED
      BY <3>1, <3>2
  <2>3. ASSUME NEW i \in 1 .. Len(pipe')
        PROVE  pipe'[i] = Got' + i
    <3>1. CASE i <= Len(pipe)
      BY <1>4, <1>5, <2>1, <3>1
    <3>2. CASE i > Len(pipe)
      <4>1. i - Len(pipe) \in 1 .. n /\ i = Len(pipe) + (i - Len(pipe))
        BY <1>1, <1>4, <1>5, <3>2
      <4>2. pipe'[i] = wOffset + (i - Len(pipe))
        BY <1>2, <1>5, <4>1
      <4> DEFINE len == Len(pipe)
                 got == Got
      <4>3. Got' = got /\ got + len = wOffset /\ pipe'[i] = wOffset + (i - len)
        BY <1>4, <2>1, <4>2
      <4>4. got \in Nat /\ len \in Nat /\ i \in Int
        BY <1>1, <1>4, <1>5
      <4> HIDE DEF len, got
      <4> QED
        BY <4>3, <4>4
    <3> QED
      BY <1>4, <3>1, <3>2
  <2> QED
    BY <1>4, <2>1, <2>2, <2>3 DEF BytesInv
<1>9. MessageInv'
  BY DEF IInv, MessageInv, WriteSome, what, readerVars
<1> QED
  BY <1>6, <1>7, <1>8, <1>9 DEF IInv

LEMMA WrittenStep ==
  ASSUME IInv, Written
  PROVE  IInv'
<1> USE LengthAssumption DEF IInv, Written, what, readerVars
<1>1. /\ Sent' = Sent /\ Got' = Got /\ total_bytes_written' = Sent
      /\ Sent \in 0 .. Length
  BY DEF Sent, Got, TypeOK, CountInv
<1>2. TypeOK'
  BY <1>1 DEF TypeOK, Pcs, Ended
<1>3. CountInv' /\ BytesInv' /\ MessageInv'
  BY <1>1 DEF CountInv, BytesInv, MessageInv
<1> QED
  BY <1>2, <1>3

LEMMA WriteFailsStep ==
  ASSUME IInv, WriteFails
  PROVE  IInv'
<1> USE DEF IInv, WriteFails, what, readerVars
<1>1. TypeOK'
  BY DEF TypeOK, Pcs, Ended
<1>2. CountInv' /\ BytesInv' /\ MessageInv'
  BY DEF CountInv, BytesInv, MessageInv, Sent, Got
<1> QED
  BY <1>1, <1>2

LEMMA InitiateReadStep ==
  ASSUME IInv, InitiateRead
  PROVE  IInv'
<1> USE DEF IInv, InitiateRead, what, writerVars
<1>1. TypeOK'
  BY DEF TypeOK, Pcs
<1>2. CountInv' /\ BytesInv' /\ MessageInv'
  BY DEF CountInv, BytesInv, MessageInv, Sent, Got
<1> QED
  BY <1>1, <1>2

\* The bytes leave the front of those on their way for the end of the buffer.
LEMMA ReadSomeStep ==
  ASSUME IInv, NEW n \in Bytes, ReadSome(n)
  PROVE  IInv'
<1> DEFINE bytes == SubSeq(pipe, 1, n)
<1>1. /\ n \in Nat /\ Got \in Nat /\ Got = total_bytes_read /\ Got' = Got + n
      /\ Sent' = Sent /\ rOffset = Got /\ rPc = "pending"
      /\ buf_size \in Nat /\ (reader = "exact" => n <= buf_size - rOffset)
  <2>1. n \in Nat /\ rPc = "pending"
    BY LengthAssumption DEF Bytes, ReadSome
  <2>2. /\ Got \in Nat /\ Got = total_bytes_read /\ rOffset = Got
        /\ buf_size \in Nat
    BY <2>1, Counts
  <2>3. Got' = Got + n /\ Sent' = Sent
    BY <2>1, <2>2 DEF Got, Sent, ReadSome, writerVars
  <2> QED
    BY <2>1, <2>2, <2>3 DEF ReadSome
<1>2. pipe \in Seq(Bytes) /\ Len(pipe) \in Nat /\ n \in 0 .. Len(pipe)
  BY <1>1, LenProperties DEF IInv, TypeOK, ReadSome
<1>3. /\ buf' = Filled(bytes) /\ pipe' = SubSeq(pipe, n + 1, Len(pipe))
      /\ ~broken /\ UNCHANGED <<broken, writerVars, what>>
  BY DEF ReadSome
<1>4. /\ bytes \in Seq(Bytes) /\ Len(bytes) = n
      /\ \A i \in 1 .. n : bytes[i] = pipe[i]
      /\ pipe' \in Seq(Bytes) /\ Len(pipe') = Len(pipe) - n
      /\ \A i \in 1 .. Len(pipe) - n : pipe'[i] = pipe[n + i]
  BY <1>2, <1>3, SplitProperties
<1> HIDE DEF bytes
<1>5. /\ buf' \in Seq(Bytes \cup {Junk})
      /\ Len(buf') = IF reader = "exact" THEN buf_size ELSE Got + n
      /\ \A i \in 1 .. Got : buf'[i] = buf[i]
      /\ \A i \in 1 .. n : buf'[Got + i] = bytes[i]
  <2>1. reader = "exact" => Len(bytes) <= buf_size - rOffset
    BY <1>1, <1>4
  <2> DEFINE full == Filled(bytes)
  <2>2. /\ full \in Seq(Bytes \cup {Junk})
        /\ Len(full) = IF reader = "exact" THEN buf_size ELSE Got + Len(bytes)
        /\ \A i \in 1 .. Got : full[i] = buf[i]
        /\ \A i \in 1 .. Len(bytes) : full[Got + i] = bytes[i]
    BY <1>1, <1>4, <2>1, FilledProperties, Zenon
  <2>3. buf' = full
    BY <1>3
  <2> HIDE DEF full
  <2> QED
    BY <1>4, <2>2, <2>3
<1>6. TypeOK'
  <2>1. Len(pipe') <= Capacity
    <3>1. Len(pipe) <= Capacity /\ Capacity \in Nat
      BY CapacityAssumption DEF IInv, TypeOK
    <3> QED
      BY <1>1, <1>2, <1>4, <3>1
  <2>2. n \in 0 .. Length
    BY LengthAssumption DEF Bytes
  <2> QED
    BY <1>3, <1>4, <1>5, <2>1, <2>2
       DEF IInv, TypeOK, Pcs, ReadSome, writerVars, what
<1>7. CountInv'
  BY <1>1, <1>3, <1>5 DEF IInv, CountInv, ReadSome, writerVars, what
<1>8. BytesInv'
  <2>1. /\ Got + Len(pipe) = Sent
        /\ \A i \in 1 .. Got : buf[i] = i
        /\ \A i \in 1 .. Len(pipe) : pipe[i] = Got + i
    BY <1>3 DEF IInv, BytesInv
  <2>2. \A i \in 1 .. Got' : buf'[i] = i
    <3> SUFFICES ASSUME NEW i \in 1 .. Got + n PROVE buf'[i] = i
      BY <1>1
    <3>1. CASE i <= Got
      <4>1. i \in 1 .. Got
        BY <1>1, <3>1
      <4> QED
        BY <1>5, <2>1, <4>1
    <3>2. CASE i > Got
      <4>1. i - Got \in 1 .. n /\ i = Got + (i - Got)
        BY <1>1, <3>2
      <4>2. buf'[i] = bytes[i - Got] /\ bytes[i - Got] = pipe[i - Got]
        BY <1>4, <1>5, <4>1
      <4> QED
        BY <1>1, <1>2, <2>1, <4>1, <4>2
    <3> QED
      BY <1>1, <3>1, <3>2
  <2>3. Got' + Len(pipe') = Sent'
    BY <1>1, <1>2, <1>4, <2>1
  <2>4. \A i \in 1 .. Len(pipe') : pipe'[i] = Got' + i
    BY <1>1, <1>2, <1>4, <2>1
  <2> QED
    BY <1>3, <2>2, <2>3, <2>4 DEF BytesInv
<1>9. MessageInv'
  BY DEF MessageInv, ReadSome
<1> QED
  BY <1>6, <1>7, <1>8, <1>9 DEF IInv

\* The reader is done when the array is full or the delimiter is there.
LEMMA ReadStep ==
  ASSUME IInv, Read
  PROVE  IInv'
<1>1. Sent' = Sent /\ Got' = Got /\ total_bytes_read' = Got /\ Got \in Nat
  <2>1. total_bytes_read + rDone = Got /\ Got \in Nat /\ rPc = "complete"
    BY Counts DEF Read
  <2> QED
    BY <2>1 DEF Read, Sent, Got, writerVars
<1>2. Got \in 0 .. Length /\ buf \in Seq(Bytes \cup {Junk})
  BY Counts DEF IInv, TypeOK
<1> USE LengthAssumption DEF IInv, Read, what, writerVars
<1>3. CountInv' /\ BytesInv'
  BY <1>1 DEF CountInv, BytesInv
<1>4. MessageInv' /\ message' \in Seq(Bytes \cup {Junk})
  <2>1. CASE reader = "exact"
    BY <1>1, <1>2, <2>1 DEF MessageInv, TypeOK, Got
  <2>2. CASE reader = "delim" /\ Has(buf, Delim)
    <3>1. Delim \in 1 .. Got /\ message' = SubSeq(buf, 1, Delim - 1)
      BY <2>2, DelimProperties
    <3>2. Len(buf) = Got /\ Delim - 1 \in 0 .. Len(buf)
      BY <1>1, <2>2, <3>1 DEF CountInv
    <3>3. message' \in Seq(Bytes \cup {Junk})
      BY <1>2, <3>1, <3>2, SplitProperties
    <3> QED
      BY <1>1, <2>2, <3>1, <3>3 DEF MessageInv
  <2>3. CASE reader = "delim" /\ ~Has(buf, Delim)
    BY <2>3 DEF MessageInv, TypeOK
  <2> QED
    BY <2>1, <2>2, <2>3, ReadersAssumption DEF TypeOK
<1>5. TypeOK'
  BY <1>1, <1>2, <1>4 DEF TypeOK, CountInv, Pcs, Ended
<1> QED
  BY <1>3, <1>4, <1>5

LEMMA ReadFailsStep ==
  ASSUME IInv, ReadFails
  PROVE  IInv'
<1> USE DEF IInv, ReadFails, what, writerVars
<1>1. TypeOK'
  BY DEF TypeOK, Pcs, Ended
<1>2. CountInv' /\ BytesInv' /\ MessageInv'
  BY DEF CountInv, BytesInv, MessageInv, Sent, Got
<1> QED
  BY <1>1, <1>2

LEMMA ResetStep ==
  ASSUME IInv, Reset
  PROVE  IInv'
<1> USE CapacityAssumption DEF IInv, Reset, what, writerVars, readerVars
<1>1. TypeOK'
  BY EmptySeq DEF TypeOK
<1>2. BytesInv'
  BY LenProperties DEF TypeOK, BytesInv, Sent, Got
<1>3. CountInv' /\ MessageInv'
  BY DEF CountInv, MessageInv, Sent, Got
<1> QED
  BY <1>1, <1>2, <1>3

LEMMA StutterStep ==
  ASSUME IInv, UNCHANGED vars
  PROVE  IInv'
BY DEF IInv, TypeOK, CountInv, BytesInv, MessageInv, Sent, Got, vars, what,
       writerVars, readerVars

LEMMA InitEstablishes == Init => IInv
<1> SUFFICES ASSUME Init PROVE IInv
  OBVIOUS
<1> USE LengthAssumption, CapacityAssumption DEF Init
<1>1. /\ <<>> \in Seq(Bytes) /\ <<>> \in Seq(Bytes \cup {Junk})
      /\ Len(<<>>) = 0
  BY EmptySeq
<1>2. buf_size \in Nat
  OBVIOUS
<1>3. buf \in Seq(Bytes \cup {Junk})
  <2>1. [i \in 1 .. buf_size |-> Junk] \in Seq(Bytes \cup {Junk})
    BY <1>2
  <2> QED
    BY <1>1, <2>1
<1>4. reader = "exact" => Len(buf) = buf_size
  BY <1>2
<1>5. TypeOK
  <2>1. pipe \in Seq(Bytes) /\ Len(pipe) <= Capacity
    BY <1>1
  <2>2. {total_bytes_written, wOffset, wDone} \subseteq 0 .. Length
    OBVIOUS
  <2>3. {total_bytes_read, rOffset, rDone} \subseteq 0 .. Length
    OBVIOUS
  <2>4. message \in Seq(Bytes \cup {Junk})
    BY <1>1
  <2>5. wPc \in Pcs /\ rPc \in Pcs /\ broken \in BOOLEAN
    BY DEF Pcs
  <2>6. reader = "exact" => total_bytes_read <= buf_size
    BY <1>2
  <2> QED
    BY <1>3, <1>4, <2>1, <2>2, <2>3, <2>4, <2>5, <2>6 DEF TypeOK
<1>6. CountInv /\ BytesInv /\ MessageInv
  BY <1>1, <1>2, ReadersAssumption DEF CountInv, BytesInv, MessageInv, Sent, Got
<1> QED
  BY <1>5, <1>6 DEF IInv

LEMMA NextPreserves ==
  ASSUME IInv, [Next]_vars
  PROVE  IInv'
<1>1. CASE UNCHANGED vars
  BY <1>1, StutterStep
<1>2. CASE WriterStep
  BY <1>2, InitiateWriteStep, WriteSomeStep, WrittenStep, WriteFailsStep
     DEF WriterStep
<1>3. CASE ReaderStep
  BY <1>3, InitiateReadStep, ReadSomeStep, ReadStep, ReadFailsStep
     DEF ReaderStep
<1>4. CASE Reset
  BY <1>4, ResetStep
<1> QED
  BY <1>1, <1>2, <1>3, <1>4 DEF Next

\* The invariant holds in every reachable state.
THEOREM Invariance == Spec => []IInv
<1> QED
  BY InitEstablishes, NextPreserves, PTL DEF Spec

-----------------------------------------------------------------------------
(* The properties *)

\* Every variable keeps its type: no total and no offset leaves the message,
\* and no operation the buffer.
THEOREM TypeCorrectness == Spec => []TypeOK
<1>1. IInv => TypeOK
  BY DEF IInv
<1> QED
  BY <1>1, Invariance, PTL

\* What the reader has received is the message so far.
LEMMA ReceivedIsPrefix == IInv => Got \in 0 .. Length /\ Received = Prefix(Got)
<1> SUFFICES ASSUME IInv PROVE Got \in 0 .. Length /\ Received = Prefix(Got)
  OBVIOUS
<1> USE LengthAssumption DEF IInv
<1>1. Got \in 0 .. Length
  BY Counts
<1>2. /\ Prefix(Got) \in Seq(Bytes \cup {Junk}) /\ Len(Prefix(Got)) = Got
      /\ \A i \in 1 .. Got : Prefix(Got)[i] = i
  BY <1>1, PrefixProperties, SeqMonotonic
<1>3. /\ Received \in Seq(Bytes \cup {Junk}) /\ Len(Received) = Got
      /\ \A i \in 1 .. Got : Received[i] = buf[i]
  <2>1. CASE reader = "delim"
    BY <2>1 DEF TypeOK, CountInv, Received
  <2>2. CASE reader = "exact"
    <3>1. Received = SubSeq(buf, 1, Got) /\ Got \in 0 .. Len(buf)
      BY <1>1, <2>2 DEF TypeOK, CountInv, Received, Got
    <3> QED
      BY <3>1, SplitProperties DEF TypeOK
  <2> QED
    BY <2>1, <2>2, ReadersAssumption DEF TypeOK
<1> QED
  BY <1>1, <1>2, <1>3, SeqEqual DEF BytesInv

\* However the operations divide the message, no byte is lost, repeated or
\* moved between the writer's buffer and the reader's.
THEOREM NothingLost == Spec => []StreamIntact
<1>1. IInv => StreamIntact
  <2> SUFFICES ASSUME IInv PROVE StreamIntact
    OBVIOUS
  <2> USE LengthAssumption DEF IInv
  <2>1. Got \in 0 .. Length /\ Received = Prefix(Got)
    BY ReceivedIsPrefix
  <2>2. CASE broken
    BY <2>1, <2>2 DEF StreamIntact, BytesInv, CountInv, Sent, TypeOK
  <2>3. CASE ~broken
    <3>1. /\ Got + Len(pipe) = Sent /\ Sent \in 0 .. Length
          /\ \A i \in 1 .. Len(pipe) : pipe[i] = Got + i
      BY <2>3 DEF BytesInv, CountInv, Sent, TypeOK
    <3>2. /\ Received \in Seq(Bytes) /\ Len(Received) = Got
          /\ \A i \in 1 .. Got : Received[i] = i
      BY <2>1, PrefixProperties
    <3>3. /\ Received \o pipe \in Seq(Bytes)
          /\ Len(Received \o pipe) = Len(Received) + Len(pipe)
          /\ \A i \in 1 .. Len(Received) + Len(pipe) :
               (Received \o pipe)[i] =
                 IF i <= Len(Received) THEN Received[i]
                 ELSE pipe[i - Len(Received)]
      BY <3>2, ConcatProperties DEF TypeOK
    <3>4. /\ Prefix(Sent) \in Seq(Bytes) /\ Len(Prefix(Sent)) = Sent
          /\ \A i \in 1 .. Sent : Prefix(Sent)[i] = i
      BY <3>1, PrefixProperties
    <3>5. Len(pipe) \in Nat
      BY LenProperties DEF TypeOK
    <3>6. \A i \in 1 .. Len(Received \o pipe) :
            (Received \o pipe)[i] = Prefix(Sent)[i]
      BY <2>1, <3>1, <3>2, <3>3, <3>4, <3>5
    <3>7. Received \o pipe = Prefix(Sent)
      BY <3>1, <3>2, <3>3, <3>4, <3>6, SeqEqual
    <3> QED
      BY <2>3, <3>7 DEF StreamIntact
  <2> QED
    BY <2>2, <2>3
<1> QED
  BY <1>1, Invariance, PTL

\* What has been received is never taken back nor written over by a later read.
Keeps == Got <= Got' /\ \A i \in 1 .. Got : buf'[i] = buf[i]
NeverTakenBack == [][Keeps]_vars

\* Every operation reads behind what is in the buffer already, counting the bytes
\* of one that has completed and has not been accounted for.
THEOREM ReadsBehind == Spec => NeverTakenBack
<1>1. IInv /\ IInv' /\ [Next]_vars => [Keeps]_vars
  <2> SUFFICES ASSUME IInv, IInv', Next PROVE Keeps \/ UNCHANGED vars
    OBVIOUS
  <2>1. {total_bytes_read, rDone, total_bytes_read', rDone'} \subseteq Nat
    BY LengthAssumption DEF IInv, TypeOK
  <2>2. Got <= Got'
    <3>1. CASE InitiateRead \/ Read \/ ReadFails
      BY <2>1, <3>1 DEF InitiateRead, Read, ReadFails, Got
    <3>2. CASE \E n \in Bytes : ReadSome(n)
      BY <2>1, <3>2 DEF ReadSome, Got
    <3>3. CASE WriterStep \/ Reset \/ UNCHANGED vars
      <4>1. UNCHANGED <<rPc, total_bytes_read, rDone>>
        BY <3>3
           DEF WriterStep, InitiateWrite, WriteSome, Written, WriteFails, Reset,
               readerVars, vars
      <4> QED
        BY <2>1, <4>1 DEF Got
    <3> QED
      BY <3>1, <3>2, <3>3 DEF Next, ReaderStep
  <2>3. Got \in Nat /\ Got' \in Nat
    BY <2>1 DEF Got
  <2>4. (\A i \in 1 .. Got : buf[i] = i) /\ (\A i \in 1 .. Got' : buf'[i] = i)
    BY DEF IInv, BytesInv
  <2> QED
    BY <2>2, <2>3, <2>4 DEF Keeps
<1> QED
  BY <1>1, Invariance, PTL DEF Spec, NeverTakenBack

\* Neither end takes a part of the message for the whole.
THEOREM WholeOrNothing == Spec => []WholeTransfer
<1>1. IInv => WholeTransfer
  <2> SUFFICES ASSUME IInv PROVE WholeTransfer
    OBVIOUS
  <2> USE LengthAssumption DEF IInv
  <2>1. wPc = "done" => Sent = Length
    BY DEF CountInv, Sent, TypeOK
  <2>2. Got \in 0 .. Length /\ Received = Prefix(Got)
    BY ReceivedIsPrefix
  <2>3. ASSUME rPc = "done", reader = "exact"
        PROVE  buf_size <= Length /\ message = Prefix(buf_size)
    <3>1. Got = buf_size /\ message = buf /\ Len(buf) = buf_size
      BY <2>3 DEF MessageInv, TypeOK, Got
    <3>2. Received = buf
      BY <2>3, <3>1, SubSeqFull DEF TypeOK, Received, Got
    <3> QED
      BY <2>2, <3>1, <3>2
  <2>4. ASSUME rPc = "done", reader = "delim"
        PROVE  Delim - 1 <= Length /\ message = Prefix(Delim - 1)
    <3>1. /\ Delim \in 1 .. Got /\ message = SubSeq(buf, 1, Delim - 1)
          /\ buf = Prefix(Got) /\ Len(buf) = Got
      <4>1. Got = total_bytes_read /\ Received = buf /\ Len(buf) = Got
        BY <2>4, Counts DEF CountInv, Received
      <4> QED
        BY <2>2, <2>4, <4>1 DEF MessageInv
    <3>2. /\ message \in Seq(Bytes \cup {Junk}) /\ Len(message) = Delim - 1
          /\ \A i \in 1 .. Delim - 1 : message[i] = buf[i]
      BY <2>2, <3>1, SplitProperties DEF TypeOK
    <3>3. Delim - 1 \in 0 .. Length
      BY <2>2, <3>1
    <3>4. /\ Prefix(Delim - 1) \in Seq(Bytes \cup {Junk})
          /\ Len(Prefix(Delim - 1)) = Delim - 1
          /\ \A i \in 1 .. Delim - 1 : Prefix(Delim - 1)[i] = i
      BY <3>3, PrefixProperties, SeqMonotonic
    <3>5. \A i \in 1 .. Len(message) : message[i] = Prefix(Delim - 1)[i]
      BY <2>2, <3>1, <3>2, <3>4 DEF BytesInv
    <3> QED
      BY <3>2, <3>3, <3>4, <3>5, SeqEqual
  <2> QED
    BY <2>1, <2>3, <2>4, ReadersAssumption DEF WholeTransfer, TypeOK
<1> QED
  BY <1>1, Invariance, PTL
=============================================================================
