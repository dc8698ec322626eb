-------------------------- MODULE SyncClientsProofs --------------------------
(***************************************************************************)
(* Proofs about SyncClients, for both programs and any number of calls.    *)
(* The inductive invariant IInv counts the answers against the calls, and  *)
(* says which messages can be on their way: as long as no datagram has been*)
(* duplicated or sent by a stranger, one at most, of the call under way.   *)
(***************************************************************************)
EXTENDS SyncClients, SequenceTheorems, TLAPS

\* Every datagram is one the client or the server has sent, and once.
Genuine == noise \cap {"duplicated", "stray"} = {}

\* The call under way has not returned; the object is destroyed when it has,
\* or has thrown.
CallInv ==
  /\ pc \in {"construct", "connect", "send", "receive"} =>
       ~failed /\ Len(answers) = call - 1
  /\ pc = "connect" => kind = "tcp"
  /\ pc = "close" => Len(answers) = IF failed THEN call - 1 ELSE call

\* Nothing is left of a call when the next one begins.
QueueInv ==
  Genuine =>
    /\ \A i \in DOMAIN toServer : toServer[i] = call
    /\ \A i \in DOMAIN toClient : toClient[i] = call
    /\ Len(toServer) + Len(toClient) <=
         IF pc \in {"construct", "connect", "send"} THEN 0 ELSE 1

IInv ==
  /\ TypeOK
  /\ CallInv
  /\ QueueInv
  /\ OwnAnswer
  /\ ErrorsReported
-----------------------------------------------------------------------------
(* Sequences *)

\* One element less, and no new one.
LEMMA RemoveAtProperties ==
  ASSUME NEW S, NEW q \in Seq(S), NEW i \in DOMAIN q
  PROVE  /\ RemoveAt(q, i) \in Seq(S) /\ Len(RemoveAt(q, i)) = Len(q) - 1
         /\ \A j \in DOMAIN RemoveAt(q, i) :
              \E k \in DOMAIN q : RemoveAt(q, i)[j] = q[k]
<1> DEFINE front == SubSeq(q, 1, i - 1)
           back == SubSeq(q, i + 1, Len(q))
<1>1. Len(q) \in Nat /\ i \in 1 .. Len(q) /\ DOMAIN q = 1 .. Len(q)
  BY LenProperties
<1>2. \A j \in 1 .. Len(q) : q[j] \in S
  BY ElementOfSeq
<1>3. /\ front \in Seq(S)
      /\ Len(front) = IF 1 <= i - 1 THEN i - 1 - 1 + 1 ELSE 0
      /\ \A j \in 1 .. i - 1 - 1 + 1 : front[j] = q[1 + j - 1]
  BY <1>1, <1>2, SubSeqProperties
<1>4. /\ back \in Seq(S)
      /\ Len(back) = IF i + 1 <= Len(q) THEN Len(q) - (i + 1) + 1 ELSE 0
      /\ \A j \in 1 .. Len(q) - (i + 1) + 1 : back[j] = q[i + 1 + j - 1]
  BY <1>1, <1>2, SubSeqProperties
<1>5. RemoveAt(q, i) = front \o back
  BY DEF RemoveAt
<1> HIDE DEF front, back
<1> DEFINE len == Len(q)
<1>6. len \in Nat /\ i \in 1 .. len
  BY <1>1
<1>7. 1 .. i - 1 - 1 + 1 = 1 .. i - 1 /\ 1 .. len - (i + 1) + 1 = 1 .. len - i
  <2> HIDE DEF len
  <2>1. i - 1 - 1 + 1 = i - 1 /\ len - (i + 1) + 1 = len - i
    BY <1>6
  <2> QED
    BY <2>1
<1>8. Len(front) = i - 1
  BY <1>6, <1>3
<1>9. Len(back) = len - i
  <2>1. Len(back) = IF i + 1 <= len THEN len - (i + 1) + 1 ELSE 0
    BY <1>4
  <2> HIDE DEF len
  <2> QED
    BY <1>6, <2>1
<1>10. ASSUME NEW j \in 1 .. i - 1 PROVE front[j] = q[j]
  <2>1. 1 + j - 1 = j
    BY <1>6
  <2> QED
    BY <1>7, <1>3, <2>1
<1>11. ASSUME NEW j \in 1 .. len - i PROVE back[j] = q[i + j]
  <2>1. i + 1 + j - 1 = i + j
    BY <1>6
  <2>2. back[j] = q[i + 1 + j - 1]
    BY <1>7, <1>4
  <2> QED
    BY <2>1, <2>2
<1>12. /\ Len(front) = i - 1 /\ Len(back) = Len(q) - i
       /\ \A j \in 1 .. i - 1 : front[j] = q[j]
       /\ \A j \in 1 .. Len(q) - i : back[j] = q[i + j]
  BY <1>8, <1>9, <1>10, <1>11
<1> DEFINE joined == front \o back
<1>13. /\ joined \in Seq(S) /\ Len(joined) = Len(front) + Len(back)
       /\ \A j \in 1 .. Len(front) + Len(back) :
            joined[j] = IF j <= Len(front) THEN front[j] ELSE back[j - Len(front)]
  BY <1>3, <1>4, ConcatProperties
<1> HIDE DEF joined
<1>14. Len(joined) = Len(q) - 1 /\ DOMAIN joined = 1 .. Len(joined)
  BY <1>1, <1>12, <1>13, LenProperties
<1>15. ASSUME NEW j \in DOMAIN joined
      PROVE  \E k \in DOMAIN q : joined[j] = q[k]
  <2>1. CASE j <= i - 1
    BY <1>1, <1>12, <1>13, <1>14, <2>1
  <2>2. CASE j > i - 1
    <3> DEFINE k == j - (i - 1)
    <3>1. j \in 1 .. len - 1
      BY <1>14
    <3>2. k \in 1 .. len - i /\ i + k \in 1 .. len
      <4> HIDE DEF len
      <4> QED
        BY <1>6, <2>2, <3>1
    <3>3. joined[j] = back[k]
      <4>1. Len(front) + Len(back) = Len(joined) /\ j \in 1 .. Len(joined)
        BY <1>13, <1>14
      <4>2. j \in 1 .. Len(front) + Len(back)
        BY <4>1
      <4>3. ~(j <= Len(front)) /\ j - Len(front) = k
        BY <1>6, <1>8, <2>2, <3>1
      <4> QED
        BY <1>13, <4>2, <4>3
    <3> HIDE DEF k
    <3>4. back[k] = q[i + k]
      BY <1>11, <3>2, Zenon
    <3> QED
      BY <1>1, <3>2, <3>3, <3>4
  <2> QED
    BY <1>1, <1>14, <2>1, <2>2
<1> QED
  BY <1>5, <1>13, <1>14, <1>15 DEF joined

LEMMA AppendedProperties ==
  ASSUME NEW S, NEW q \in Seq(S), NEW e \in S
  PROVE  /\ Append(q, e) \in Seq(S) /\ Len(Append(q, e)) = Len(q) + 1
         /\ \A j \in DOMAIN q : Append(q, e)[j] = q[j]
         /\ \A j \in DOMAIN Append(q, e) :
              Append(q, e)[j] = e \/ j \in DOMAIN q
<1> DEFINE longer == Append(q, e)
<1>1. /\ longer \in Seq(S) /\ Len(longer) = Len(q) + 1
      /\ \A j \in 1 .. Len(q) : longer[j] = q[j]
      /\ longer[Len(q) + 1] = e
  BY AppendProperties
<1> HIDE DEF longer
<1>2. /\ DOMAIN q = 1 .. Len(q) /\ Len(q) \in Nat
      /\ DOMAIN longer = 1 .. Len(longer)
  BY <1>1, LenProperties
<1> QED
  BY <1>1, <1>2 DEF longer

\* The lengths and the elements of the sequences of the model.
LEMMA SequencesTyped ==
  ASSUME TypeOK
  PROVE  /\ Len(toServer) \in Nat /\ Len(toClient) \in Nat
         /\ Len(answers) \in Nat /\ DOMAIN answers = 1 .. Len(answers)
         /\ DOMAIN toServer = 1 .. Len(toServer)
         /\ DOMAIN toClient = 1 .. Len(toClient)
         /\ \A i \in DOMAIN toServer : toServer[i] \in 1 .. MaxCalls
         /\ \A i \in DOMAIN toClient : toClient[i] \in 0 .. MaxCalls
         /\ call \in Nat /\ MaxCalls \in Nat
BY CallsAssumption, LenProperties, ElementOfSeq DEF TypeOK

-----------------------------------------------------------------------------
(* Every action preserves IInv: one lemma per action, and in it one step for *)
(* each conjunct the action can disturb and one for all the others.        *)

LEMMA ConstructStep ==
  ASSUME IInv, pc \notin Over, Construct
  PROVE  IInv'
<1> USE KindsAssumption DEF IInv, Construct, channel, Over
<1>1. TypeOK'
  BY DEF TypeOK
<1>2. CallInv' /\ QueueInv' /\ OwnAnswer' /\ ErrorsReported'
  BY DEF TypeOK, CallInv, QueueInv, Genuine, OwnAnswer, ErrorsReported
<1> QED
  BY <1>1, <1>2

LEMMA ConstructFailsStep ==
  ASSUME IInv, pc \notin Over, ConstructFails
  PROVE  IInv'
<1> USE DEF IInv, ConstructFails, channel, Over
<1>1. TypeOK'
  BY DEF TypeOK
<1>2. CallInv' /\ ErrorsReported'
  BY SequencesTyped DEF CallInv, ErrorsReported
<1>3. QueueInv' /\ OwnAnswer'
  BY SequencesTyped DEF QueueInv, Genuine, OwnAnswer
<1> QED
  BY <1>1, <1>2, <1>3

LEMMA ConnectStep ==
  ASSUME IInv, pc \notin Over, Connect
  PROVE  IInv'
<1> USE DEF IInv, Connect, channel, Over
<1>1. TypeOK'
  BY DEF TypeOK, CallInv
<1>2. CallInv' /\ QueueInv' /\ OwnAnswer' /\ ErrorsReported'
  BY DEF TypeOK, CallInv, QueueInv, Genuine, OwnAnswer, ErrorsReported
<1> QED
  BY <1>1, <1>2

\* The request is alone: nothing of an earlier call is on its way.
LEMMA SendRequestStep ==
  ASSUME IInv, pc \notin Over, SendRequest
  PROVE  IInv'
<1> USE DEF IInv, SendRequest, Over
<1>1. /\ toServer' \in Seq(1 .. MaxCalls) /\ Len(toServer') = Len(toServer) + 1
      /\ \A j \in DOMAIN toServer : toServer'[j] = toServer[j]
      /\ \A j \in DOMAIN toServer' : toServer'[j] = call \/ j \in DOMAIN toServer
  BY AppendedProperties DEF TypeOK
<1>2. TypeOK'
  BY <1>1 DEF TypeOK
<1>3. QueueInv'
  BY <1>1, SequencesTyped DEF QueueInv, Genuine
<1>4. CallInv' /\ OwnAnswer' /\ ErrorsReported'
  BY DEF TypeOK, CallInv, OwnAnswer, ErrorsReported
<1> QED
  BY <1>2, <1>3, <1>4

\* The message received is the answer to this call, and was the only one.
LEMMA ReceiveResponseStep ==
  ASSUME IInv, pc \notin Over, NEW i \in DOMAIN toClient, ReceiveResponse(i)
  PROVE  IInv'
<1> USE DEF IInv, ReceiveResponse, Over
<1>1. /\ toClient' \in Seq(0 .. MaxCalls) /\ Len(toClient') = Len(toClient) - 1
      /\ \A j \in DOMAIN toClient' :
           \E k \in DOMAIN toClient : toClient'[j] = toClient[k]
  BY RemoveAtProperties DEF TypeOK
<1>2. /\ answers' \in Seq(0 .. MaxCalls) /\ Len(answers') = Len(answers) + 1
      /\ \A j \in DOMAIN answers : answers'[j] = answers[j]
      /\ answers'[Len(answers) + 1] = toClient[i]
      /\ DOMAIN answers' = 1 .. Len(answers')
  BY SequencesTyped, AppendProperties, LenProperties DEF TypeOK
<1>3. ~failed /\ Len(answers) = call - 1
  BY DEF CallInv
<1>4. TypeOK'
  <2>1. call' \in 1 .. MaxCalls /\ Len(answers') <= call'
    BY <1>2, <1>3, SequencesTyped DEF TypeOK
  <2>2. pc' \in {"send", "close"}
    OBVIOUS
  <2> QED
    BY <1>1, <1>2, <2>1, <2>2 DEF TypeOK
<1>5. CallInv' /\ ErrorsReported'
  BY <1>2, <1>3, SequencesTyped DEF CallInv, ErrorsReported
<1>6. QueueInv'
  <2> SUFFICES ASSUME Genuine
               PROVE  /\ Len(toServer') = 0 /\ Len(toClient') = 0
                      /\ DOMAIN toServer' = {} /\ DOMAIN toClient' = {}
    BY DEF QueueInv, Genuine
  <2>1. Len(toServer) = 0 /\ Len(toClient) = 1
    BY SequencesTyped DEF QueueInv
  <2> QED
    BY <1>1, <2>1, SequencesTyped, LenProperties
<1>7. OwnAnswer'
  <2> SUFFICES ASSUME Genuine, NEW j \in DOMAIN answers'
               PROVE  answers'[j] = j
    BY DEF OwnAnswer, Genuine
  <2>1. CASE j \in DOMAIN answers
    BY <1>2, <2>1 DEF OwnAnswer, Genuine
  <2>2. CASE j \notin DOMAIN answers
    <3>1. j = Len(answers) + 1
      BY <1>2, <2>2, SequencesTyped
    <3>2. toClient[i] = call
      BY DEF QueueInv
    <3> QED
      BY <1>2, <1>3, <3>1, <3>2, SequencesTyped
  <2> QED
    BY <2>1, <2>2
<1> QED
  BY <1>4, <1>5, <1>6, <1>7

\* A call throws: it has no answer and will have none.
LEMMA ThrowStep ==
  ASSUME IInv, pc \notin Over, ConnectFails \/ DatagramFails \/ ConnectionFails
  PROVE  IInv'
<1> USE DEF IInv, ConnectFails, DatagramFails, ConnectionFails, Throw, channel,
            Over
<1>1. TypeOK'
  BY DEF TypeOK
<1>2. CallInv'
  BY DEF CallInv
<1>3. QueueInv'
  BY SequencesTyped DEF QueueInv, Genuine
<1>4. OwnAnswer' /\ ErrorsReported'
  BY DEF OwnAnswer, ErrorsReported
<1> QED
  BY <1>1, <1>2, <1>3, <1>4

\* main returns 0 with all answers, or reports an error and lacks one.
LEMMA CloseStep ==
  ASSUME IInv, pc \notin Over, Close
  PROVE  IInv'
<1> USE DEF IInv, Close, channel, Over
<1>1. TypeOK'
  BY DEF TypeOK
<1>2. CallInv' /\ QueueInv' /\ OwnAnswer'
  BY DEF CallInv, QueueInv, Genuine, OwnAnswer
<1>3. ErrorsReported'
  BY SequencesTyped DEF CallInv, ErrorsReported
<1> QED
  BY <1>1, <1>2, <1>3

\* A message becomes its answer.
LEMMA ServeStep ==
  ASSUME IInv, pc \notin Over, NEW i \in DOMAIN toServer, Serve(i)
  PROVE  IInv'
<1> USE DEF IInv, Serve, Over
<1>1. /\ toServer' \in Seq(1 .. MaxCalls) /\ Len(toServer') = Len(toServer) - 1
      /\ \A j \in DOMAIN toServer' :
           \E k \in DOMAIN toServer : toServer'[j] = toServer[k]
  BY RemoveAtProperties DEF TypeOK
<1>2. toServer[i] \in 0 .. MaxCalls
  BY SequencesTyped
<1>3. /\ toClient' \in Seq(0 .. MaxCalls) /\ Len(toClient') = Len(toClient) + 1
      /\ \A j \in DOMAIN toClient : toClient'[j] = toClient[j]
      /\ \A j \in DOMAIN toClient' :
           toClient'[j] = toServer[i] \/ j \in DOMAIN toClient
  BY <1>2, AppendedProperties DEF TypeOK
<1>4. TypeOK'
  BY <1>1, <1>3 DEF TypeOK
<1>5. QueueInv'
  BY <1>1, <1>3, SequencesTyped DEF QueueInv, Genuine
<1>6. CallInv' /\ OwnAnswer' /\ ErrorsReported'
  BY DEF CallInv, OwnAnswer, ErrorsReported
<1> QED
  BY <1>4, <1>5, <1>6

LEMMA ServerClosesStep ==
  ASSUME IInv, pc \notin Over, ServerCloses
  PROVE  IInv'
<1> USE DEF IInv, ServerCloses, channel, Over
<1>1. TypeOK'
  BY DEF TypeOK
<1>2. CallInv' /\ QueueInv' /\ OwnAnswer' /\ ErrorsReported'
  BY DEF CallInv, QueueInv, Genuine, OwnAnswer, ErrorsReported
<1> QED
  BY <1>1, <1>2

LEMMA ConnectionResetStep ==
  ASSUME IInv, pc \notin Over, ConnectionReset
  PROVE  IInv'
<1> USE DEF IInv, ConnectionReset, Over
<1>1. TypeOK'
  BY EmptySeq DEF TypeOK
<1>2. QueueInv'
  BY EmptySeq DEF QueueInv
<1>3. CallInv' /\ OwnAnswer' /\ ErrorsReported'
  BY DEF CallInv, OwnAnswer, ErrorsReported
<1> QED
  BY <1>1, <1>2, <1>3

LEMMA LoseStep ==
  ASSUME IInv, pc \notin Over, kind = "udp", Lose,
         UNCHANGED <<kind, pc, call, answers, failed, link>>
  PROVE  IInv'
<1> USE DEF IInv, Lose, Over
<1> DEFINE OneLess ==
             /\ toServer' \in Seq(1 .. MaxCalls) /\ toClient' \in Seq(0 .. MaxCalls)
             /\ Len(toServer') + Len(toClient') = Len(toServer) + Len(toClient) - 1
             /\ \A j \in DOMAIN toServer' :
                  \E k \in DOMAIN toServer : toServer'[j] = toServer[k]
             /\ \A j \in DOMAIN toClient' :
                  \E k \in DOMAIN toClient : toClient'[j] = toClient[k]
<1>1. OneLess
  <2>1. ASSUME NEW i \in DOMAIN toServer, toServer' = RemoveAt(toServer, i),
               UNCHANGED toClient
        PROVE  OneLess
    <3>1. /\ toServer' \in Seq(1 .. MaxCalls) /\ Len(toServer') = Len(toServer) - 1
          /\ \A j \in DOMAIN toServer' :
               \E k \in DOMAIN toServer : toServer'[j] = toServer[k]
      BY <2>1, RemoveAtProperties DEF TypeOK
    <3>2. toClient' \in Seq(0 .. MaxCalls) /\ Len(toClient') = Len(toClient)
      BY <2>1 DEF TypeOK
    <3> QED
      BY <2>1, <3>1, <3>2, SequencesTyped
  <2>2. ASSUME NEW i \in DOMAIN toClient, toClient' = RemoveAt(toClient, i),
               UNCHANGED toServer
        PROVE  OneLess
    <3>1. /\ toClient' \in Seq(0 .. MaxCalls) /\ Len(toClient') = Len(toClient) - 1
          /\ \A j \in DOMAIN toClient' :
               \E k \in DOMAIN toClient : toClient'[j] = toClient[k]
      BY <2>2, RemoveAtProperties DEF TypeOK
    <3>2. toServer' \in Seq(1 .. MaxCalls) /\ Len(toServer') = Len(toServer)
      BY <2>2 DEF TypeOK
    <3> QED
      BY <2>2, <3>1, <3>2, SequencesTyped
  <2> HIDE DEF OneLess
  <2> QED
    BY <2>1, <2>2
<1>2. TypeOK'
  BY <1>1 DEF TypeOK
<1>3. QueueInv'
  BY <1>1, SequencesTyped DEF QueueInv, Genuine
<1>4. CallInv' /\ OwnAnswer' /\ ErrorsReported'
  BY DEF CallInv, OwnAnswer, ErrorsReported
<1> QED
  BY <1>2, <1>3, <1>4

\* From here on nothing is promised about the answers.
LEMMA NoiseStep ==
  ASSUME IInv, pc \notin Over, kind = "udp", Duplicate \/ Stray,
         UNCHANGED <<kind, pc, call, answers, failed, link>>
  PROVE  IInv'
<1> USE DEF IInv, Over
<1>1. ~Genuine' /\ noise' \subseteq {"lost", "duplicated", "stray"}
  BY DEF Genuine, Duplicate, Stray, TypeOK
<1>2. toServer' \in Seq(1 .. MaxCalls) /\ toClient' \in Seq(0 .. MaxCalls)
  <2>1. CASE Stray
    BY <2>1, AppendedProperties, SequencesTyped DEF Stray, Stranger, TypeOK
  <2>2. CASE Duplicate
    <3>1. CASE \E i \in DOMAIN toServer :
                 toServer' = Append(toServer, toServer[i]) /\ UNCHANGED toClient
      BY <3>1, AppendedProperties, SequencesTyped DEF TypeOK
    <3>2. CASE \E i \in DOMAIN toClient :
                 toClient' = Append(toClient, toClient[i]) /\ UNCHANGED toServer
      BY <3>2, AppendedProperties, SequencesTyped DEF TypeOK
    <3> QED
      BY <2>2, <3>1, <3>2 DEF Duplicate
  <2> QED
    BY <2>1, <2>2
<1>3. TypeOK'
  BY <1>1, <1>2 DEF TypeOK
<1>4. QueueInv' /\ OwnAnswer'
  BY <1>1 DEF QueueInv, OwnAnswer, Genuine
<1>5. CallInv' /\ ErrorsReported'
  BY DEF CallInv, ErrorsReported
<1> QED
  BY <1>3, <1>4, <1>5

LEMMA StutterStep ==
  ASSUME IInv, UNCHANGED vars
  PROVE  IInv'
BY DEF IInv, TypeOK, CallInv, QueueInv, Genuine, OwnAnswer, ErrorsReported,
       vars, channel

LEMMA InitEstablishes == Init => IInv
<1> SUFFICES ASSUME Init PROVE IInv
  OBVIOUS
<1> USE CallsAssumption DEF Init
<1>1. TypeOK
  <2>1. /\ toServer \in Seq(1 .. MaxCalls) /\ toClient \in Seq(0 .. MaxCalls)
        /\ answers \in Seq(0 .. MaxCalls) /\ Len(answers) = 0
    BY EmptySeq
  <2>2. call \in 1 .. MaxCalls /\ Len(answers) <= call
    BY <2>1
  <2> QED
    BY <2>1, <2>2 DEF TypeOK
<1>2. CallInv /\ QueueInv
  BY EmptySeq DEF CallInv, QueueInv
<1>3. OwnAnswer /\ ErrorsReported
  BY EmptySeq DEF OwnAnswer, ErrorsReported
<1> QED
  BY <1>1, <1>2, <1>3 DEF IInv

LEMMA NextPreserves ==
  ASSUME IInv, [Next]_vars
  PROVE  IInv'
<1>1. CASE UNCHANGED vars
  BY <1>1, StutterStep
<1>2. CASE pc \notin Over /\ Program
  BY <1>2, ConstructStep, ConnectStep, SendRequestStep, ReceiveResponseStep,
     ThrowStep, CloseStep
     DEF Program, Deliverable
<1>3. CASE pc \notin Over /\ (ConstructFails \/ ConnectFails \/ DatagramFails)
  BY <1>3, ConstructFailsStep, ThrowStep
<1>4. CASE pc \notin Over /\ (Server \/ ServerCloses \/ ConnectionReset)
  BY <1>4, ServeStep, ServerClosesStep, ConnectionResetStep
     DEF Server, Deliverable
<1>5. CASE pc \notin Over /\ Network
  BY <1>5, LoseStep, NoiseStep DEF Network
<1> QED
  BY <1>1, <1>2, <1>3, <1>4, <1>5 DEF Next

\* The invariant holds in every reachable state.
THEOREM Invariance == Spec => []IInv
<1> QED
  BY InitEstablishes, NextPreserves, PTL DEF Spec

-----------------------------------------------------------------------------
(* The properties *)

\* Every variable keeps its type; in particular no call has two answers.
THEOREM TypeCorrectness == Spec => []TypeOK
<1>1. IInv => TypeOK
  BY DEF IInv
<1> QED
  BY <1>1, Invariance, PTL

\* Call i returns the response to request i, however many calls are made and
\* however many datagrams are lost, as long as each one is genuine.
THEOREM AnswersMatch == Spec => []OwnAnswer
<1>1. IInv => OwnAnswer
  BY DEF IInv
<1> QED
  BY <1>1, Invariance, PTL

\* The exit code is 0 only if every call has returned, and an error only if one
\* has not; if it is neither, the destructor has terminated the TCP client.
THEOREM ExitCodeTruthful == Spec => []ErrorsReported
<1>1. IInv => ErrorsReported
  BY DEF IInv
<1> QED
  BY <1>1, Invariance, PTL
=============================================================================
