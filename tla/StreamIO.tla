------------------------------ MODULE StreamIO ------------------------------
(***************************************************************************)
(* Writing a whole message to a TCP socket and reading one from it: the    *)
(* loops over write_some and read_some of ch02/04 and 05, the chains of    *)
(* asynchronous operations of ch02/06 and 08, and the composed operations  *)
(* of ch02/07 and 09.  In all of them an operation transfers as many bytes *)
(* as it can, at least one; its result is added to a total; and if the     *)
(* total is short, the next operation is started for the rest.  The blocking*)
(* and the asynchronous programs differ only in who makes the second step: *)
(* the code after the call, or the callback.                               *)
(*                                                                         *)
(* Byte i of the message is the number i, so that a byte that is lost,     *)
(* repeated or out of place is seen.                                       *)
(***************************************************************************)
EXTENDS Naturals, Sequences

CONSTANTS
  Length,       \* of the message in Session::buf
  Sizes,        \* the values of MESSAGE_SIZE, what an exact reader waits for
  Delim,        \* the position of the first '|' in the message, 0 if none
  Newline,      \* the position of the first '\n' in the message, 0 if none
  Capacity,     \* what fits in the socket buffers
  Readers       \* the kinds of reader: "exact", "delim"

ASSUME LengthAssumption == Length \in Nat \ {0} /\ Sizes \subseteq Nat \ {0}
ASSUME MarkAssumption == {Delim, Newline} \subseteq 0 .. Length
ASSUME CapacityAssumption == Capacity \in Nat \ {0}
ASSUME ReadersAssumption == Readers \subseteq {"exact", "delim"}

VARIABLES
  wPc,                  \* what the writer does next
  total_bytes_written,
  wOffset,              \* where in the buffer the operation under way begins
  wDone,                \* the result of the operation that has completed
  pipe,                 \* the bytes on their way
  broken,               \* the connection has been reset
  reader,               \* which of the readers it is; it never changes
  buf_size,             \* the MESSAGE_SIZE of an exact reader
  rPc, total_bytes_read, rOffset, rDone,
  buf,                  \* the reader's buffer
  message               \* what the reader returns

writerVars == <<wPc, total_bytes_written, wOffset, wDone>>
readerVars == <<rPc, total_bytes_read, rOffset, rDone, buf, message>>
what == <<reader, buf_size>>        \* which program it is
vars == <<writerVars, pipe, broken, what, readerVars>>

Junk == 0                         \* what is in an array before it is filled
Bytes == 1 .. Length
Contents == [i \in Bytes |-> i]   \* of Session::buf

\* "initiate" an operation, wait while it is "pending", account for it when
\* it is "complete"; then the message is "done", or an operation has "failed".
Ended == {"done", "failed"}
Pcs == {"initiate", "pending", "complete"} \cup Ended

TypeOK ==
  /\ wPc \in Pcs /\ rPc \in Pcs
  /\ {total_bytes_written, wOffset, wDone} \subseteq 0 .. Length
  /\ pipe \in Seq(Bytes) /\ Len(pipe) <= Capacity
  /\ broken \in BOOLEAN
  /\ reader \in Readers /\ buf_size \in Sizes
  /\ {total_bytes_read, rOffset, rDone} \subseteq 0 .. Length
  /\ reader = "exact" => total_bytes_read <= buf_size /\ Len(buf) = buf_size
  /\ buf \in Seq(Bytes \cup {Junk})
  /\ message \in Seq(Bytes \cup {Junk})

Init ==
  /\ wPc = "initiate" /\ rPc = "initiate"
  /\ total_bytes_written = 0 /\ wOffset = 0 /\ wDone = 0
  /\ pipe = <<>>
  /\ broken = FALSE
  /\ reader \in Readers /\ buf_size \in Sizes
  /\ total_bytes_read = 0 /\ rOffset = 0 /\ rDone = 0
  /\ buf = IF reader = "exact" THEN [i \in 1 .. buf_size |-> Junk] ELSE <<>>
  /\ message = <<>>

-----------------------------------------------------------------------------
(* The writer *)

\* Mutant: the buffer is not shifted by what has been written.
InitiateWriteUnshifted ==
  /\ wPc = "initiate"
  /\ wOffset' = 0
  /\ wPc' = "pending"
  /\ UNCHANGED <<total_bytes_written, wDone, pipe, broken, what, readerVars>>

InitiateWrite ==
  /\ wPc = "initiate"
  /\ wOffset' = total_bytes_written
  /\ wPc' = "pending"
  /\ UNCHANGED <<total_bytes_written, wDone, pipe, broken, what, readerVars>>

\* write_some takes n bytes, any n that fit.
WriteSome(n) ==
  /\ wPc = "pending" /\ ~broken
  /\ n <= Length - wOffset
  /\ n <= Capacity - Len(pipe)
  /\ pipe' = pipe \o SubSeq(Contents, wOffset + 1, wOffset + n)
  /\ wDone' = n
  /\ wPc' = "complete"
  /\ UNCHANGED <<total_bytes_written, wOffset, broken, what, readerVars>>

\* Mutant: one write_some is taken for the whole message.
WrittenOnce ==
  /\ wPc = "complete"
  /\ total_bytes_written' = total_bytes_written + wDone
  /\ wPc' = "done"
  /\ UNCHANGED <<wOffset, wDone, pipe, broken, what, readerVars>>

\* Mutant: the total is not compared with the length of the message.
WrittenUntested ==
  /\ wPc = "complete"
  /\ total_bytes_written' = total_bytes_written + wDone
  /\ wPc' = "initiate"
  /\ UNCHANGED <<wOffset, wDone, pipe, broken, what, readerVars>>

\* The loop's test, or the callback without an error.
Written ==
  /\ wPc = "complete"
  /\ total_bytes_written' = total_bytes_written + wDone
  /\ wPc' = IF total_bytes_written' = Length THEN "done" ELSE "initiate"
  /\ UNCHANGED <<wOffset, wDone, pipe, broken, what, readerVars>>

\* The connection is reset, or the reader's program has ended: an exception,
\* or the callback's error branch.  The program ends.
WriteFails ==
  /\ wPc = "pending"
  /\ broken \/ rPc \in Ended
  /\ wPc' = "failed"
  /\ UNCHANGED <<total_bytes_written, wOffset, wDone, pipe, broken, what,
                 readerVars>>

-----------------------------------------------------------------------------
(* The reader *)

\* Mutant: the buffer is not shifted by what has been read.
InitiateReadUnshifted ==
  /\ rPc = "initiate"
  /\ rOffset' = 0
  /\ rPc' = "pending"
  /\ UNCHANGED <<writerVars, pipe, broken, what, total_bytes_read, rDone,
                 buf, message>>

InitiateRead ==
  /\ rPc = "initiate"
  /\ rOffset' = total_bytes_read
  /\ rPc' = "pending"
  /\ UNCHANGED <<writerVars, pipe, broken, what, total_bytes_read, rDone,
                 buf, message>>

\* The buffer after the bytes have been put at rOffset: an array keeps its
\* size, a streambuf grows.
Filled(bytes) ==
  IF reader = "delim" THEN buf \o bytes
  ELSE [i \in 1 .. buf_size |->
          IF i \in rOffset + 1 .. rOffset + Len(bytes)
          THEN bytes[i - rOffset] ELSE buf[i]]

\* read_some returns with n of the bytes that are there.
ReadSome(n) ==
  /\ rPc = "pending" /\ ~broken
  /\ n <= Len(pipe)
  /\ reader = "exact" => n <= buf_size - rOffset
  /\ buf' = Filled(SubSeq(pipe, 1, n))
  /\ pipe' = SubSeq(pipe, n + 1, Len(pipe))
  /\ rDone' = n
  /\ rPc' = "complete"
  /\ UNCHANGED <<writerVars, broken, what, total_bytes_read, rOffset, message>>

Has(bytes, byte) == \E i \in 1 .. Len(bytes) : bytes[i] = byte

\* What std::getline extracts from the streambuf up to the first delimiter,
\* which it takes away.
BeforeDelim(bytes) ==
  LET at == CHOOSE i \in 1 .. Len(bytes) :
              bytes[i] = Delim /\ \A j \in 1 .. i - 1 : bytes[j] # Delim
  IN SubSeq(bytes, 1, at - 1)

\* The loop's test, or the callback without an error: the message is there
\* when the array is full, or the delimiter has been seen.
Read ==
  LET total == total_bytes_read + rDone
      whole == IF reader = "exact" THEN total = buf_size ELSE Has(buf, Delim)
  IN
  /\ rPc = "complete"
  /\ total_bytes_read' = total
  /\ rPc' = IF whole THEN "done" ELSE "initiate"
  /\ message' = IF ~whole THEN message
                ELSE IF reader = "exact" THEN buf ELSE BeforeDelim(buf)
  /\ UNCHANGED <<writerVars, pipe, broken, what, rOffset, rDone, buf>>

\* Mutant: the end of the stream is taken for the end of the message.
ReadFailsShort ==
  /\ rPc = "pending"
  /\ broken \/ (wPc \in Ended /\ pipe = <<>>)
  /\ rPc' = "done"
  /\ message' = buf
  /\ UNCHANGED <<writerVars, pipe, broken, what, total_bytes_read, rOffset,
                 rDone, buf>>

\* The connection is reset, or the stream ends short of the message.
ReadFails ==
  /\ rPc = "pending"
  /\ broken \/ (wPc \in Ended /\ pipe = <<>>)
  /\ rPc' = "failed"
  /\ UNCHANGED <<writerVars, pipe, broken, what, total_bytes_read, rOffset,
                 rDone, buf, message>>

-----------------------------------------------------------------------------

\* The connection is lost with what is on its way.
Reset ==
  /\ ~broken
  /\ broken' = TRUE
  /\ pipe' = <<>>
  /\ UNCHANGED <<writerVars, what, readerVars>>

WriterStep ==
  InitiateWrite \/ Written \/ WriteFails \/ \E n \in Bytes : WriteSome(n)

ReaderStep ==
  InitiateRead \/ Read \/ ReadFails \/ \E n \in Bytes : ReadSome(n)

Next ==
  \/ WriterStep
  \/ ReaderStep
  \/ Reset
  \/ {wPc, rPc} \subseteq Ended /\ UNCHANGED vars

Spec == Init /\ [][Next]_vars

\* The programs go on, and TCP transfers what it can.
FairSpec == Spec /\ WF_vars(WriterStep) /\ WF_vars(ReaderStep)

-----------------------------------------------------------------------------
(* Safety *)

Prefix(n) == SubSeq(Contents, 1, n)

\* What the reader has been given, counting an operation that has completed
\* and has not been accounted for.
Received ==
  IF reader = "delim" THEN buf
  ELSE SubSeq(buf, 1, total_bytes_read + IF rPc = "complete" THEN rDone ELSE 0)

Sent == total_bytes_written + IF wPc = "complete" THEN wDone ELSE 0

\* However the operations divide the message, what has been received and what
\* is on its way is what has been sent: no byte is lost, repeated or moved.
StreamIntact ==
  IF broken THEN \E n \in 0 .. Sent : Received = Prefix(n)
  ELSE Received \o pipe = Prefix(Sent)

\* Neither end takes a part of the message for the whole: the writer is done
\* when all of it has been sent, and what a reader returns is what it has been
\* asked for, buf_size bytes, or all before the delimiter and nothing that
\* came behind it.
WholeTransfer ==
  /\ wPc = "done" => Sent = Length
  /\ rPc = "done" =>
       LET asked == IF reader = "exact" THEN buf_size ELSE Delim - 1
       IN  asked <= Length /\ message = Prefix(asked)

-----------------------------------------------------------------------------
(* Liveness, under FairSpec *)

\* If the message holds what the reader waits for and the connection is not
\* lost, he gets it, even if it does not fit in the socket buffers.
Delivered ==
  (IF reader = "exact" THEN buf_size <= Length ELSE Delim # 0) =>
    <>(rPc = "done" \/ broken)

\* Neither program waits for ever: both end, with the message or an error.
BothEnd == <>[]({wPc, rPc} \subseteq Ended)

(***************************************************************************)
(* ch02/05_Reading_from_TCP_socket_sync.cpp:47 - readFromSocketDelim reads *)
(* "until '\n' symbol is encountered", and :50 extracts only the symbols   *)
(* before it.                                                              *)
(***************************************************************************)
LineRead ==
  reader = "delim" /\ rPc = "done" /\ Newline # 0 =>
    message = Prefix(Newline - 1)
=============================================================================
