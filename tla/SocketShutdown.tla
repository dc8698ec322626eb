---------------------------- MODULE SocketShutdown ----------------------------
(***************************************************************************)
(* ch02/11_Socket_shutdown_client.cpp and ch02/12_Socket_shutdown_server.cpp*)
(* Neither message says where it ends: the requester shuts its side of the *)
(* connection down after the request and reads until the end of the stream,*)
(* and the responder answers in the same way when it has read until the    *)
(* end.  Both compete with the other programs of LocalPort, and with death:*)
(* the operating system ends the stream of a killed program as well.       *)
(***************************************************************************)
EXTENDS LocalPort

CONSTANTS
  RequestSize, ResponseSize,  \* bytes of the two messages
  Capacity                    \* bytes that fit on the way in one direction

Talkers == {"requester", "responder"}

ASSUME SizeAssumption == {RequestSize, ResponseSize, Capacity} \subseteq Nat \ {0}

Size == [p \in Talkers |-> IF p = "requester" THEN RequestSize ELSE ResponseSize]

VARIABLES
  sent,      \* bytes p has written
  got,       \* bytes p has read
  shut,      \* the talkers that have shut down sending
  took       \* the talkers that have handled a message as received

talkVars == <<sent, got, shut, took>>
vars == <<pc, portVars, cancelVars, talkVars>>

TypeOK ==
  /\ LocalPortTypeOK
  /\ sent \in [Talkers -> Nat] /\ got \in [Talkers -> Nat]
  /\ \A p \in Talkers : sent[p] <= Size[p]
  /\ got["requester"] <= ResponseSize /\ got["responder"] <= RequestSize
  /\ shut \subseteq Talkers /\ took \subseteq Talkers

Init ==
  /\ LocalPortInit
  /\ sent = [p \in Talkers |-> 0] /\ got = [p \in Talkers |-> 0]
  /\ shut = {} /\ took = {}

\* The program at the other end of the connection of p.
Partner(p) ==
  IF p \in Servers THEN peer[p]
  ELSE IF Accepted(p) THEN CHOOSE s \in Servers : peer[s] = p ELSE "nobody"

BytesTo(p) == IF Partner(p) \in Talkers THEN sent[Partner(p)] ELSE 0
BytesTaken(p) == IF Partner(p) \in Talkers THEN got[Partner(p)] ELSE 0
Gone(p) == p \in Programs /\ pc[p] \in Ended
Reset(p) == {p, Partner(p)} \cap broken # {}

\* The stream to p ends: its partner has shut it down, or closed the socket.
EndOfStream(p) == Partner(p) \in shut \/ (Gone(Partner(p)) /\ ~Reset(p))

-----------------------------------------------------------------------------

\* Mutant: the message is a string literal, and its terminating zero is sent.
WriteTerminated(p, n) ==
  /\ pc[p] = "write"
  /\ sent[p] + n <= Size[p] + 1 /\ sent[p] + n - BytesTaken(p) <= Capacity
  /\ sent' = [sent EXCEPT ![p] = @ + n]
  /\ Goto(p, IF sent'[p] > Size[p] THEN "shutdown" ELSE "write")
  /\ UNCHANGED <<portVars, cancelVars, got, shut, took>>

\* asio::write: n more bytes are taken.
Write(p, n) ==
  /\ pc[p] = "write"
  /\ sent[p] + n <= Size[p] /\ sent[p] + n - BytesTaken(p) <= Capacity
  /\ sent' = [sent EXCEPT ![p] = @ + n]
  /\ Goto(p, IF sent'[p] = Size[p] THEN "shutdown" ELSE "write")
  /\ UNCHANGED <<portVars, cancelVars, got, shut, took>>

\* Mutant: the client does not shut down.
ShutdownMissing(p) ==
  /\ pc[p] = "shutdown"
  /\ Goto(p, IF p = "requester" THEN "read" ELSE "return")
  /\ UNCHANGED <<portVars, cancelVars, talkVars>>

Shutdown(p) ==
  /\ pc[p] = "shutdown"
  /\ shut' = shut \cup {p}
  /\ Goto(p, IF p = "requester" THEN "read" ELSE "return")
  /\ UNCHANGED <<portVars, cancelVars, sent, got, took>>

\* asio::read: n of the bytes that are there.
Read(p, n) ==
  /\ pc[p] = "read"
  /\ got[p] + n <= BytesTo(p)
  /\ got' = [got EXCEPT ![p] = @ + n]
  /\ UNCHANGED <<pc, portVars, cancelVars, sent, shut, took>>

\* Mutant: whatever ends the read is taken for the end of the message.
ReadEndsAnyhow(p) ==
  /\ pc[p] = "read"
  /\ (EndOfStream(p) /\ got[p] = BytesTo(p)) \/ Reset(p)
  /\ took' = took \cup {p}
  /\ Goto(p, IF p = "requester" THEN "return" ELSE "write")
  /\ UNCHANGED <<portVars, cancelVars, sent, got, shut>>

\* ec is eof, which comes after the last byte: the message is handled.
ReadEnds(p) ==
  /\ pc[p] = "read"
  /\ EndOfStream(p) /\ got[p] = BytesTo(p)
  /\ took' = took \cup {p}
  /\ Goto(p, IF p = "requester" THEN "return" ELSE "write")
  /\ UNCHANGED <<portVars, cancelVars, sent, got, shut>>

\* The connection has been reset, or nobody is there to read.
Throw(p) ==
  /\ \/ pc[p] \in {"write", "shutdown", "read"} /\ Reset(p)
     \/ pc[p] \in {"write", "shutdown"} /\ Gone(Partner(p))
  /\ End(p, "error")
  /\ UNCHANGED <<cancelVars, talkVars>>

Kill(p) ==
  /\ pc[p] \notin Ended
  /\ End(p, "killed")
  /\ UNCHANGED <<cancelVars, talkVars>>

ConnectionLost(c) ==
  /\ Connected(c) /\ c \notin broken
  /\ ~(Gone(c) /\ Gone(Partner(c)))
  /\ broken' = broken \cup {c}
  /\ UNCHANGED <<pc, port, backlog, peer, cancelVars, talkVars>>

-----------------------------------------------------------------------------

Talk(p) ==
  \/ \E n \in 1 .. Size[p] : Write(p, n)
  \/ Shutdown(p)
  \/ \E q \in Talkers \ {p} : \E n \in 1 .. Size[q] : Read(p, n)
  \/ ReadEnds(p)
  \/ Throw(p)

Quiet(A) == A /\ UNCHANGED talkVars

Next ==
  \/ \E s \in Servers : Quiet(ServerSetUp(s))
  \/ \E c \in Clients : Quiet(ClientSetUp(c))
  \/ Quiet(CancellerMain)
  \/ Quiet(CancellerWorker)
  \/ Quiet(SetUpMishap)
  \/ \E p \in Talkers : Talk(p) \/ Kill(p)
  \/ \E c \in Clients : ConnectionLost(c)
  \/ /\ \A p \in Programs : pc[p] \in Ended \cup {"accept"}
     /\ UNCHANGED vars

Spec == Init /\ [][Next]_vars

(***************************************************************************)
(* Programs go on where they can.  Nothing makes a connect operation of the*)
(* canceller complete, or a call fail that need not.                       *)
(***************************************************************************)
Fairness ==
  /\ \A s \in Servers : WF_vars(Quiet(ServerSetUp(s)))
  /\ \A c \in Clients : WF_vars(Quiet(ClientSetUp(c)))
  /\ WF_vars(Quiet(CancellerMain)) /\ WF_vars(Quiet(CancellerWorker))
  /\ \A p \in Talkers : WF_vars(Talk(p))

FairSpec == Spec /\ Fairness

-----------------------------------------------------------------------------
(* Safety *)

\* How far the message of p is, which q reads.
Progress(p, q) ==
  IF q \in took /\ Partner(q) = p
  THEN IF got[q] = Size[p] THEN "taken" ELSE "cut"
  ELSE IF sent[p] = 0 THEN "none"
       ELSE IF sent[p] = Size[p] THEN "whole" ELSE "part"

\* A talker has been killed, or has been connected to another program.
Faulty ==
  \E p \in Talkers : pc[p] = "killed" \/ Partner(p) \notin Talkers \cup {"nobody"}

\* The two programs exchange one request and one response.
E == INSTANCE Exchange WITH
  request <- Progress("requester", "responder"),
  response <- IF Partner("responder") \notin {"requester", "nobody"} THEN "none"
              ELSE Progress("responder", "requester"),
  faulty <- Faulty

\* The end of the stream is the end of the message, in both directions, as
\* long as no program is killed or in the place of another; and a response
\* is not begun before the request has been taken.
ExchangeKept == E!Spec

\* The canceller's main returns 0 when the callback has been called, once; it
\* has been told of success only if there has been a connection, of failure
\* only if there was none or it is lost, and of cancellation only after cancel(),
\* though there may be a connection then.
CallbackTruthful ==
  /\ Len(told) <= 1
  /\ AtCanceller("ok") => Len(told) = 1
  /\ told = <<"success">> => Connected("canceller")
  /\ told = <<"failed">> /\ Connected("canceller") => "canceller" \in broken
  /\ told = <<"aborted">> => pc["canceller"] \in {"join"} \cup Ended

-----------------------------------------------------------------------------
(* Liveness, under FairSpec *)

\* No two programs wait for each other: every client ends, that which has
\* started a connect that nobody completes as well, and every server that has
\* accepted a client.
NobodyHangs ==
  /\ \A c \in Clients : <>(pc[c] \in Ended)
  /\ \A s \in Servers : peer[s] # "nobody" ~> pc[s] \in Ended

\* If no connection is lost and nobody is killed, a requester whom the
\* responder has accepted is given the whole response, and both return 0.
RequesterAnswered ==
  peer["responder"] = "requester" ~>
    \/ /\ got["requester"] = ResponseSize
       /\ pc["requester"] = "ok" /\ pc["responder"] = "ok"
    \/ "requester" \in broken \/ Faulty
=============================================================================
