------------------------- MODULE SocketShutdownProofs -------------------------
(***************************************************************************)
(* Proofs about SocketShutdown and the programs of LocalPort, for any set  *)
(* of programs, messages and buffers of any size.  The inductive invariant *)
(* IInv says which client is connected where, what the canceller's callback*)
(* can have been told, how far the two talkers are in their exchange, and  *)
(* why one of them can have gone without finishing it.                     *)
(***************************************************************************)
EXTENDS SocketShutdown, TLAPS

\* The calls each program makes.
PcInv ==
  /\ pc["canceller"] \in Ended \cup {"connect", "spawn", "sleep", "join"}
  /\ pc["requester"] \in
       Ended \cup {"connect", "write", "shutdown", "read", "return"}
  /\ pc["responder"] \in
       Ended \cup {"bind", "listen", "accept", "read", "write", "shutdown",
                   "return"}

\* Client c has been through its connect call.
Tried(c) ==
  IF c = "canceller" THEN op \notin {"none", "pending"}
  ELSE pc[c] \notin {"absent", "resolve", "connect"}

\* No client is in the backlog twice.
Distinct ==
  \A i, j \in 1 .. Len(backlog) : backlog[i] = backlog[j] => i = j

\* A client is connected once, and accepted by one server.
PeerInv ==
  /\ \A s \in Servers :
       pc[s] \in {"absent", "bind", "listen", "accept"} => peer[s] = "nobody"
  /\ \A c \in Clients : Connected(c) => Tried(c)
  /\ \A c \in Clients : Queued(c) => ~Accepted(c)
  /\ Distinct
  /\ \A s, t \in Servers : peer[s] = peer[t] => s = t \/ peer[s] = "nobody"

\* How the canceller's threads and its operation follow each other.
WorkerInv ==
  /\ AtCanceller("absent") \/ AtCanceller("connect") => op = "none"
  /\ AtCanceller("spawn") => op \in {"pending", "established", "failed"}
  /\ AtCanceller("sleep") => op \notin {"none", "destroyed"}
  /\ AtCanceller("join") => op \in Outcomes \cup {"reported"}
  /\ worker # "none" <=>
       AtCanceller("sleep") \/ AtCanceller("join") \/ AtCanceller("ok")
  /\ worker = "returned" => op = "reported"
  /\ AtCanceller("ok") => worker = "returned"
  /\ IF op = "reported" THEN \E o \in Outcomes : told = <<o>> ELSE told = <<>>

\* o is what the callback has been told, or will be.
Outcome(o) == op = o \/ told = <<o>>

OutcomeInv ==
  /\ op = "established" \/ Outcome("success") => Connected("canceller")
  /\ Outcome("failed") /\ Connected("canceller") => "canceller" \in broken
  /\ Outcome("aborted") => AtCanceller("join") \/ AtCanceller("ok")

\* A talker shuts down when it has written everything.
ShutInv ==
  /\ \A p \in Talkers :
       /\ p \in shut =>
            sent[p] = Size[p] /\ pc[p] \in {"read", "return"} \cup Ended
       /\ pc[p] = "shutdown" => sent[p] = Size[p]
       /\ pc[p] \in {"return", "ok"} => p \in shut
  /\ pc["requester"] = "read" => "requester" \in shut
  /\ "responder" \in shut => pc["responder"] # "read"

\* A message is taken from the partner, when that has shut down or is gone.
TookInv ==
  /\ "requester" \in took =>
       pc["requester"] \in {"return"} \cup Ended /\ Accepted("requester")
  /\ "responder" \in took =>
       /\ pc["responder"] \in {"write", "shutdown", "return"} \cup Ended
       /\ peer["responder"] # "nobody"
  /\ pc["responder"] \in {"write", "shutdown", "return"} => "responder" \in took
  /\ "responder" \notin took => sent["responder"] = 0
  /\ pc["responder"] = "read" => peer["responder"] # "nobody"
  /\ peer["responder"] = "requester" =>
       /\ "requester" \in took => "responder" \in shut \/ Gone("responder")
       /\ "responder" \in took => "requester" \in shut \/ Gone("requester")

\* A talker ends with an error because the connection is reset, or because its
\* partner is gone.
CauseInv ==
  /\ pc["requester"] = "error" /\ Queued("requester") => "requester" \in broken
  /\ peer["responder"] = "requester" =>
       /\ pc["requester"] = "error" => "requester" \in broken \/ Gone("responder")
       /\ pc["responder"] = "error" => "requester" \in broken \/ Gone("requester")

IInv ==
  /\ TypeOK
  /\ PcInv
  /\ PeerInv
  /\ WorkerInv
  /\ OutcomeInv
  /\ ShutInv
  /\ TookInv
  /\ CauseInv

-----------------------------------------------------------------------------
(* What the operators of LocalPort do to the connections. *)

\* A program that ends resets the backlog if it has the port; everybody who
\* was connected still is, or has been reset.
LEMMA EndConnections ==
  ASSUME TypeOK, NEW p \in Programs, NEW how \in {"ok", "error", "killed"},
         End(p, how), op' \in {op, "destroyed"}, UNCHANGED <<worker, told>>
  PROVE  /\ LocalPortTypeOK'
         /\ pc' = [pc EXCEPT ![p] = how] /\ peer' = peer
         /\ broken \subseteq broken' /\ (Distinct => Distinct')
         /\ \A c \in Clients : Queued(c)' => Queued(c)
         /\ \A c \in Clients : Connected(c)' <=> Connected(c)
<1>1. pc' = [pc EXCEPT ![p] = how] /\ peer' = peer
  BY DEF End, Goto
<1>2. LocalPortTypeOK'
  <2> USE DEF TypeOK, LocalPortTypeOK
  <2>1. pc' \in [Programs -> Ended \cup
                   {"bind", "listen", "accept", "resolve", "connect", "spawn",
                    "sleep", "join", "write", "shutdown", "read", "return"}]
    BY <1>1 DEF Ended
  <2>2. port' \in {"free"} \cup {s \in Servers : pc'[s] \notin Ended}
    BY <1>1 DEF End
  <2>3. backlog' \in Seq(Clients)
    <3>1. backlog' \in {backlog, <<>>}
      BY DEF End
    <3>2. backlog \in Seq(Clients) /\ <<>> \in Seq(Clients)
      OBVIOUS
    <3> QED
      BY <3>1, <3>2, Zenon
  <2>5. broken' \subseteq Clients
    BY DEF End
  <2> QED
    BY <1>1, <2>1, <2>2, <2>3, <2>5
<1>3. broken \subseteq broken' /\ (Distinct => Distinct')
  BY DEF End, Distinct
<1>4. \A c \in Clients : Queued(c)' => Queued(c)
  BY DEF End, Queued
<1>5. \A c \in Clients : Accepted(c)' <=> Accepted(c)
  BY <1>1 DEF Accepted
<1>6. \A c \in Clients : Queued(c) => Queued(c)' \/ c \in broken'
  BY DEF End, Queued
<1>7. \A c \in Clients : c \in broken' => c \in broken \/ Queued(c)
  BY DEF End
<1> QED
  BY <1>1, <1>2, <1>3, <1>4, <1>5, <1>6, <1>7 DEF Connected

\* A client that connects goes to the end of the backlog.
LEMMA AppendConnections ==
  ASSUME TypeOK, NEW c \in Clients,
         backlog' = Append(backlog, c), peer' = peer, broken' = broken
  PROVE  /\ backlog' \in Seq(Clients)
         /\ \A d \in Clients : Queued(d)' <=> Queued(d) \/ d = c
         /\ \A d \in Clients : Connected(d)' <=> Connected(d) \/ d = c
         /\ Distinct /\ ~Queued(c) => Distinct'
<1> USE DEF TypeOK, LocalPortTypeOK
<1>2. \A i \in 1 .. Len(backlog') :
        backlog'[i] = IF i = Len(backlog) + 1 THEN c ELSE backlog[i]
  OBVIOUS
<1>3. \A d \in Clients : Queued(d)' <=> Queued(d) \/ d = c
  BY <1>2 DEF Queued
<1>4. Distinct /\ ~Queued(c) => Distinct'
  BY DEF Distinct, Queued
<1> QED
  BY <1>3, <1>4 DEF Connected, Accepted

\* accept() takes the first client of the backlog.
LEMMA AcceptConnections ==
  ASSUME TypeOK, PeerInv, NEW s \in Servers, Accept(s)
  PROVE  /\ Head(backlog) \in Clients /\ Queued(Head(backlog))
         /\ backlog' \in Seq(Clients)
         /\ peer[s] = "nobody" /\ peer' = [peer EXCEPT ![s] = Head(backlog)]
         /\ \A d \in Clients : Queued(d)' <=> Queued(d) /\ d # Head(backlog)
         /\ \A d \in Clients : Accepted(d)' <=> Accepted(d) \/ d = Head(backlog)
         /\ \A d \in Clients : Connected(d)' <=> Connected(d)
         /\ Distinct'
<1> USE DEF TypeOK, LocalPortTypeOK, Accept
<1>3. Head(backlog) \in Clients /\ Queued(Head(backlog))
  BY DEF Queued
<1>4. \A d \in Clients : Queued(d)' <=> Queued(d) /\ d # Head(backlog)
  <2>1. ASSUME NEW d \in Clients, Queued(d)'
        PROVE  Queued(d) /\ d # Head(backlog)
    BY <2>1 DEF Queued, PeerInv, Distinct
  <2>2. ASSUME NEW d \in Clients, Queued(d), d # Head(backlog)
        PROVE  Queued(d)'
    <3>1. PICK i \in 1 .. Len(backlog) : backlog[i] = d
      BY <2>2 DEF Queued
    <3>2. i - 1 \in 1 .. Len(backlog') /\ backlog'[i - 1] = d
      BY <2>2, <3>1
    <3> QED
      BY <3>2 DEF Queued
  <2> QED
    BY <2>1, <2>2
<1>5. peer[s] = "nobody" /\ peer' = [peer EXCEPT ![s] = Head(backlog)]
  BY DEF PeerInv
<1>6. \A d \in Clients : Accepted(d)' <=> Accepted(d) \/ d = Head(backlog)
  BY <1>5 DEF Accepted, Clients
<1>7. \A d \in Clients : Connected(d)' <=> Connected(d)
  BY <1>3, <1>4, <1>6 DEF Connected
<1>8. Distinct'
  BY DEF PeerInv, Distinct
<1> QED
  BY <1>3, <1>4, <1>5, <1>6, <1>7, <1>8

\* The partner of a client is the server that has accepted it.
LEMMA ClientPartner ==
  PeerInv =>
    \A c \in Clients :
      /\ Partner(c) \in Servers \cup {"nobody"}
      /\ Partner(c) # "nobody" <=> Accepted(c)
      /\ \A s \in Servers : Partner(c) = s <=> peer[s] = c
<1> SUFFICES ASSUME PeerInv, NEW c \in Clients
             PROVE  /\ Partner(c) \in Servers \cup {"nobody"}
                    /\ Partner(c) # "nobody" <=> Accepted(c)
                    /\ \A s \in Servers : Partner(c) = s <=> peer[s] = c
  OBVIOUS
<1>1. c \notin Servers /\ c # "nobody" /\ "nobody" \notin Servers
  BY DEF Clients, Servers
<1>2. CASE Accepted(c)
  <2> DEFINE t == CHOOSE s \in Servers : peer[s] = c
  <2>1. t \in Servers /\ peer[t] = c
    BY <1>2 DEF Accepted
  <2>2. Partner(c) = t
    BY <1>1, <1>2 DEF Partner
  <2> QED
    BY <1>1, <1>2, <2>1, <2>2 DEF PeerInv
<1>3. CASE ~Accepted(c)
  BY <1>1, <1>3 DEF Partner, Accepted
<1> QED
  BY <1>2, <1>3

LEMMA BindStep ==
  ASSUME IInv, NEW s \in Servers, Bind(s), UNCHANGED talkVars
  PROVE  IInv'
<1> USE SizeAssumption
       DEF IInv, Bind, Goto, AtCanceller, portVars, cancelVars, talkVars
<1>1. TypeOK'
  <2>1. CASE port = "free"
    BY <2>1 DEF TypeOK, LocalPortTypeOK, Programs, Ended
  <2>2. CASE port # "free"
    BY <2>2, EndConnections DEF TypeOK, Programs
  <2> QED
    BY <2>1, <2>2
<1>2. PcInv'
  BY DEF TypeOK, LocalPortTypeOK, Programs, Servers, Clients, PcInv, Ended,
         End
<1>3. PeerInv'
  BY DEF TypeOK, LocalPortTypeOK, Programs, Servers, Clients, PeerInv, Tried,
         Distinct, Connected, Queued, Accepted, WorkerInv, End
<1>4. WorkerInv' /\ OutcomeInv'
  BY DEF TypeOK, LocalPortTypeOK, Programs, Clients, PcInv, WorkerInv, End,
         Queued, OutcomeInv, Outcome, Connected, Accepted
<1>5. ShutInv' /\ TookInv' /\ CauseInv'
  BY DEF TypeOK, LocalPortTypeOK, Programs, Servers, Clients, ShutInv,
         TookInv, Talkers, Ended, End, Queued, PeerInv, Gone, Accepted,
         CauseInv
<1> QED
  BY <1>1, <1>2, <1>3, <1>4, <1>5

LEMMA ListenStep ==
  ASSUME IInv, NEW s \in Servers, Listen(s), UNCHANGED talkVars
  PROVE  IInv'
<1> USE SizeAssumption
       DEF IInv, Listen, Goto, AtCanceller, portVars, cancelVars, talkVars
<1>1. TypeOK'
  BY DEF TypeOK, LocalPortTypeOK, Programs, Ended
<1>2. PcInv'
  BY DEF PcInv, Ended
<1>3. PeerInv'
  BY DEF PeerInv, Tried, Distinct, Connected, Queued, Accepted
<1>4. WorkerInv' /\ OutcomeInv'
  BY DEF WorkerInv, OutcomeInv, Outcome, Connected, Queued, Accepted
<1>5. ShutInv' /\ TookInv' /\ CauseInv'
  BY DEF ShutInv, TookInv, Ended, Gone, Accepted, CauseInv, Queued
<1> QED
  BY <1>1, <1>2, <1>3, <1>4, <1>5

LEMMA AcceptStep ==
  ASSUME IInv, NEW s \in Servers, Accept(s), UNCHANGED talkVars
  PROVE  IInv'
<1> USE SizeAssumption
       DEF IInv, Accept, Goto, AtCanceller, portVars, cancelVars, talkVars
<1>1. /\ Head(backlog) \in Clients /\ Queued(Head(backlog))
      /\ backlog' \in Seq(Clients)
      /\ peer[s] = "nobody" /\ peer' = [peer EXCEPT ![s] = Head(backlog)]
      /\ \A d \in Clients : Queued(d)' <=> Queued(d) /\ d # Head(backlog)
      /\ \A d \in Clients : Accepted(d)' <=> Accepted(d) \/ d = Head(backlog)
      /\ \A d \in Clients : Connected(d)' <=> Connected(d)
      /\ Distinct'
  BY AcceptConnections
<1>2. TypeOK'
  BY DEF TypeOK, LocalPortTypeOK, Programs, Ended
<1>3. PcInv'
  BY DEF PcInv, Ended
<1>4. PeerInv'
  <2> USE <1>1 DEF TypeOK, LocalPortTypeOK, PeerInv
  <2>1. \A t \in Servers :
          pc'[t] \in {"absent", "bind", "listen", "accept"} => peer'[t] = "nobody"
    BY DEF Programs
  <2>2. \A d \in Clients : Connected(d)' => Tried(d)'
    BY DEF Tried
  <2>4. \A t, u \in Servers :
          peer'[t] = peer'[u] => t = u \/ peer'[t] = "nobody"
    BY DEF Accepted
  <2> QED
    BY <2>1, <2>2, <2>4
<1>5. WorkerInv' /\ OutcomeInv'
  BY <1>1 DEF Clients, WorkerInv, OutcomeInv, Outcome
<1>6. ShutInv' /\ TookInv' /\ CauseInv'
  BY <1>1
     DEF TypeOK, LocalPortTypeOK, Clients, PcInv, ShutInv, TookInv, Talkers,
         Ended, PeerInv, Gone, CauseInv
<1> QED
  BY <1>2, <1>3, <1>4, <1>5, <1>6

LEMMA SetUpFailsStep ==
  ASSUME IInv, NEW s \in Servers, SetUpFails(s), UNCHANGED talkVars
  PROVE  IInv'
<1> USE SizeAssumption
       DEF IInv, SetUpFails, Goto, AtCanceller, portVars, cancelVars, talkVars
<1>1. /\ LocalPortTypeOK'
      /\ pc' = [pc EXCEPT ![s] = "error"] /\ peer' = peer
      /\ broken \subseteq broken' /\ (Distinct => Distinct')
      /\ \A d \in Clients : Queued(d)' => Queued(d)
      /\ \A d \in Clients : Connected(d)' <=> Connected(d)
  BY EndConnections DEF Programs
<1>2. TypeOK'
  BY <1>1 DEF TypeOK
<1>3. PcInv'
  BY <1>1 DEF PcInv, Ended
<1>4. PeerInv'
  BY <1>1 DEF PeerInv, Tried, Accepted
<1>5. WorkerInv' /\ OutcomeInv'
  BY <1>1 DEF Clients, WorkerInv, OutcomeInv, Outcome
<1>6. ShutInv' /\ TookInv' /\ CauseInv'
  BY <1>1
     DEF Clients, PcInv, ShutInv, TookInv, Ended, PeerInv, Gone, Accepted,
         CauseInv
<1> QED
  BY <1>2, <1>3, <1>4, <1>5, <1>6

LEMMA ReturnStep ==
  ASSUME IInv, NEW p \in Programs, Return(p), UNCHANGED talkVars
  PROVE  IInv'
<1> USE SizeAssumption
       DEF IInv, Return, Goto, AtCanceller, portVars, cancelVars, talkVars
<1>1. /\ LocalPortTypeOK'
      /\ pc' = [pc EXCEPT ![p] = "ok"] /\ peer' = peer
      /\ broken \subseteq broken' /\ (Distinct => Distinct')
      /\ \A d \in Clients : Queued(d)' => Queued(d)
      /\ \A d \in Clients : Connected(d)' <=> Connected(d)
  BY EndConnections
<1>2. TypeOK'
  BY <1>1 DEF TypeOK
<1>3. PcInv'
  BY <1>1 DEF PcInv, Ended
<1>4. PeerInv'
  BY <1>1 DEF PeerInv, Tried, Accepted
<1>5. WorkerInv' /\ OutcomeInv'
  BY <1>1 DEF Clients, PcInv, WorkerInv, Ended, OutcomeInv, Outcome
<1>6. ShutInv' /\ TookInv' /\ CauseInv'
  BY <1>1 DEF Clients, ShutInv, TookInv, Ended, Gone, Accepted, CauseInv
<1> QED
  BY <1>2, <1>3, <1>4, <1>5, <1>6

LEMMA ResolveStep ==
  ASSUME IInv, Resolve, UNCHANGED talkVars
  PROVE  IInv'
<1> USE SizeAssumption
       DEF IInv, Resolve, Goto, AtCanceller, portVars, cancelVars, talkVars
<1>1. TypeOK'
  BY DEF TypeOK, LocalPortTypeOK, Programs, Ended
<1>2. PcInv'
  BY DEF PcInv
<1>3. PeerInv'
  BY DEF PeerInv, Tried, Distinct, Connected, Queued, Accepted
<1>4. WorkerInv' /\ OutcomeInv'
  BY DEF WorkerInv, OutcomeInv, Outcome, Connected, Queued, Accepted
<1>5. ShutInv' /\ TookInv' /\ CauseInv'
  BY DEF ShutInv, TookInv, Ended, Gone, Accepted, CauseInv, Queued
<1> QED
  BY <1>1, <1>2, <1>3, <1>4, <1>5

LEMMA ConnectStep ==
  ASSUME IInv, NEW c \in Clients, Connect(c), UNCHANGED talkVars
  PROVE  IInv'
<1> USE SizeAssumption
       DEF IInv, Connect, Goto, AtCanceller, portVars, cancelVars, talkVars
<1>1. /\ backlog' \in Seq(Clients)
      /\ \A d \in Clients : Queued(d)' <=> Queued(d) \/ d = c
      /\ \A d \in Clients : Connected(d)' <=> Connected(d) \/ d = c
      /\ Distinct /\ ~Queued(c) => Distinct'
  BY AppendConnections
<1>2. TypeOK'
  BY DEF TypeOK, LocalPortTypeOK, Programs, Ended
<1>3. PcInv'
  BY DEF PcInv
<1>4. PeerInv'
  <2>1. ~Queued(c) /\ ~Accepted(c)
    BY DEF PeerInv, Tried, Connected
  <2>2. \A d \in Clients : Connected(d)' => Tried(d)'
    BY <1>1 DEF TypeOK, LocalPortTypeOK, PeerInv, Tried, Programs
  <2> QED
    BY <1>1, <2>1, <2>2 DEF PeerInv, Accepted
<1>5. WorkerInv' /\ OutcomeInv'
  BY <1>1 DEF Clients, WorkerInv, OutcomeInv, Outcome
<1>6. ShutInv' /\ TookInv' /\ CauseInv'
  BY <1>1
     DEF Clients, ShutInv, TookInv, Talkers, Ended, Gone, Accepted, CauseInv
<1> QED
  BY <1>2, <1>3, <1>4, <1>5, <1>6

LEMMA ConnectFailsStep ==
  ASSUME IInv, NEW c \in Clients, ConnectFails(c), UNCHANGED talkVars
  PROVE  IInv'
<1> USE SizeAssumption
       DEF IInv, ConnectFails, Goto, AtCanceller, portVars, cancelVars, talkVars
<1>1. /\ LocalPortTypeOK'
      /\ pc' = [pc EXCEPT ![c] = "error"] /\ peer' = peer
      /\ broken \subseteq broken' /\ (Distinct => Distinct')
      /\ \A d \in Clients : Queued(d)' => Queued(d)
      /\ \A d \in Clients : Connected(d)' <=> Connected(d)
  BY EndConnections DEF Programs
<1>2. TypeOK'
  BY <1>1 DEF TypeOK
<1>3. PcInv'
  BY <1>1 DEF PcInv, Ended
<1>4. PeerInv'
  BY <1>1 DEF PeerInv, Tried, Accepted
<1>5. WorkerInv' /\ OutcomeInv'
  BY <1>1 DEF Clients, WorkerInv, OutcomeInv, Outcome
<1>6. CauseInv'
  <2>1. ~Queued(c) /\ ~Accepted(c)
    BY DEF PeerInv, Tried, Connected, PcInv, WorkerInv, Ended
  <2> QED
    BY <1>1, <2>1 DEF CauseInv, Accepted, Gone, Servers, Clients
<1>7. ShutInv' /\ TookInv'
  BY <1>1 DEF ShutInv, TookInv, Ended, Gone, Accepted
<1> QED
  BY <1>2, <1>3, <1>4, <1>5, <1>6, <1>7

LEMMA AsyncConnectStep ==
  ASSUME IInv, AsyncConnect, UNCHANGED talkVars
  PROVE  IInv'
<1> USE SizeAssumption
       DEF IInv, AsyncConnect, Goto, AtCanceller, portVars, cancelVars, talkVars
<1>1. TypeOK'
  BY DEF TypeOK, LocalPortTypeOK, Programs, Ended, UnderWay
<1>2. PcInv'
  BY DEF PcInv
<1>3. PeerInv'
  BY DEF PeerInv, Tried, Distinct, Connected, Queued, Accepted, WorkerInv
<1>4. WorkerInv' /\ OutcomeInv'
  BY DEF TypeOK, LocalPortTypeOK, Programs, Clients, WorkerInv, OutcomeInv,
         Outcome
<1>5. ShutInv' /\ TookInv' /\ CauseInv'
  BY DEF ShutInv, TookInv, Ended, Gone, Accepted, CauseInv, Queued
<1> QED
  BY <1>1, <1>2, <1>3, <1>4, <1>5

LEMMA SpawnWorkerStep ==
  ASSUME IInv, SpawnWorker, UNCHANGED talkVars
  PROVE  IInv'
<1> USE SizeAssumption
       DEF IInv, SpawnWorker, Goto, AtCanceller, portVars, cancelVars, talkVars
<1>1. TypeOK'
  BY DEF TypeOK, LocalPortTypeOK, Programs, Ended
<1>2. PcInv'
  BY DEF PcInv
<1>3. PeerInv'
  BY DEF PeerInv, Tried, Distinct, Connected, Queued, Accepted
<1>4. WorkerInv' /\ OutcomeInv'
  BY DEF TypeOK, LocalPortTypeOK, Programs, Clients, WorkerInv, OutcomeInv,
         Outcome, Connected, Queued, Accepted
<1>5. ShutInv' /\ TookInv' /\ CauseInv'
  BY DEF ShutInv, TookInv, Ended, Gone, Accepted, CauseInv, Queued
<1> QED
  BY <1>1, <1>2, <1>3, <1>4, <1>5

LEMMA SpawnFailsStep ==
  ASSUME IInv, SpawnFails, UNCHANGED talkVars
  PROVE  IInv'
<1> USE SizeAssumption
       DEF IInv, SpawnFails, Goto, AtCanceller, portVars, cancelVars, talkVars
<1>1. /\ LocalPortTypeOK'
      /\ pc' = [pc EXCEPT !["canceller"] = "error"] /\ peer' = peer
      /\ broken \subseteq broken' /\ (Distinct => Distinct')
      /\ \A d \in Clients : Queued(d)' => Queued(d)
      /\ \A d \in Clients : Connected(d)' <=> Connected(d)
  BY EndConnections DEF Programs, Clients, Talkers
<1>2. TypeOK'
  BY <1>1 DEF TypeOK
<1>3. PcInv'
  BY <1>1 DEF PcInv, Ended
<1>4. PeerInv'
  BY <1>1 DEF PeerInv, Tried, Accepted
<1>5. WorkerInv' /\ OutcomeInv'
  BY <1>1
     DEF LocalPortTypeOK, WorkerInv, Outcomes, PeerInv, Tried, OutcomeInv,
         Outcome
<1>6. ShutInv' /\ TookInv' /\ CauseInv'
  BY <1>1 DEF Clients, ShutInv, TookInv, Ended, Gone, Accepted, CauseInv
<1> QED
  BY <1>2, <1>3, <1>4, <1>5, <1>6

LEMMA CancelStep ==
  ASSUME IInv, Cancel, UNCHANGED talkVars
  PROVE  IInv'
<1> USE SizeAssumption
       DEF IInv, Cancel, Goto, AtCanceller, portVars, cancelVars, talkVars
<1>1. TypeOK'
  BY DEF TypeOK, LocalPortTypeOK, Programs, Ended, Outcomes
<1>2. PcInv'
  BY DEF PcInv
<1>3. PeerInv'
  BY DEF PeerInv, Tried, Distinct, Connected, Queued, Accepted
<1>4. WorkerInv' /\ OutcomeInv'
  BY DEF TypeOK, LocalPortTypeOK, Programs, Clients, WorkerInv, Outcomes,
         UnderWay, OutcomeInv, Outcome, Connected, Queued, Accepted
<1>5. ShutInv' /\ TookInv' /\ CauseInv'
  BY DEF ShutInv, TookInv, Ended, Gone, Accepted, CauseInv, Queued
<1> QED
  BY <1>1, <1>2, <1>3, <1>4, <1>5

LEMMA JoinStep ==
  ASSUME IInv, Join, UNCHANGED talkVars
  PROVE  IInv'
<1> USE SizeAssumption
       DEF IInv, Join, Goto, AtCanceller, portVars, cancelVars, talkVars
<1>1. /\ LocalPortTypeOK'
      /\ pc' = [pc EXCEPT !["canceller"] = "ok"] /\ peer' = peer
      /\ broken \subseteq broken' /\ (Distinct => Distinct')
      /\ \A d \in Clients : Queued(d)' => Queued(d)
      /\ \A d \in Clients : Connected(d)' <=> Connected(d)
  BY EndConnections DEF Programs, Clients, Talkers
<1>2. TypeOK'
  BY <1>1 DEF TypeOK
<1>3. PcInv'
  BY <1>1 DEF PcInv, Ended
<1>4. PeerInv'
  BY <1>1 DEF PeerInv, Tried, Accepted
<1>5. WorkerInv' /\ OutcomeInv'
  BY <1>1 DEF Clients, WorkerInv, OutcomeInv, Outcome
<1>6. ShutInv' /\ TookInv' /\ CauseInv'
  BY <1>1 DEF Clients, ShutInv, TookInv, Talkers, Gone, Accepted, CauseInv
<1> QED
  BY <1>2, <1>3, <1>4, <1>5, <1>6

LEMMA CallbackStep ==
  ASSUME IInv, Callback, UNCHANGED talkVars
  PROVE  IInv'
<1> USE SizeAssumption
       DEF IInv, Callback, Goto, AtCanceller, portVars, cancelVars, talkVars
<1>1. TypeOK'
  BY DEF TypeOK, LocalPortTypeOK
<1>2. PcInv'
  BY DEF PcInv
<1>3. PeerInv'
  BY DEF PeerInv, Tried, Distinct, Connected, Queued, Accepted
<1>4. WorkerInv'
  <2>1. told' = <<op>>
    <3>1. told = <<>>
      BY DEF WorkerInv, Outcomes
    <3> QED
      BY <3>1
  <2> QED
    BY <2>1 DEF WorkerInv
<1>5. OutcomeInv'
  <2>1. told' = <<op>>
    <3>1. told = <<>>
      BY DEF WorkerInv, Outcomes
    <3> QED
      BY <3>1
  <2>2. \A o \in Outcomes : Outcome(o)' => Outcome(o)
    BY <2>1 DEF Outcome, Outcomes
  <2> QED
    BY <2>2 DEF OutcomeInv, Outcomes, Connected, Queued, Accepted
<1>6. ShutInv' /\ TookInv' /\ CauseInv'
  BY DEF ShutInv, TookInv, Gone, Accepted, CauseInv, Queued
<1> QED
  BY <1>1, <1>2, <1>3, <1>4, <1>5, <1>6

LEMMA RunReturnsStep ==
  ASSUME IInv, RunReturns, UNCHANGED talkVars
  PROVE  IInv'
<1> USE SizeAssumption
       DEF IInv, RunReturns, Goto, AtCanceller, portVars, cancelVars, talkVars
<1>1. TypeOK'
  BY DEF TypeOK, LocalPortTypeOK
<1>2. PcInv'
  BY DEF PcInv
<1>3. PeerInv'
  BY DEF PeerInv, Tried, Distinct, Connected, Queued, Accepted
<1>4. WorkerInv' /\ OutcomeInv'
  BY DEF WorkerInv, OutcomeInv, Outcome, Connected, Queued, Accepted
<1>5. ShutInv' /\ TookInv' /\ CauseInv'
  BY DEF ShutInv, TookInv, Gone, Accepted, CauseInv, Queued
<1> QED
  BY <1>1, <1>2, <1>3, <1>4, <1>5

LEMMA OpConnectsStep ==
  ASSUME IInv, OpConnects, UNCHANGED talkVars
  PROVE  IInv'
<1> USE SizeAssumption
       DEF IInv, OpConnects, Goto, AtCanceller, portVars, cancelVars, talkVars
<1>1. /\ backlog' \in Seq(Clients)
      /\ \A d \in Clients : Queued(d)' <=> Queued(d) \/ d = "canceller"
      /\ \A d \in Clients : Connected(d)' <=> Connected(d) \/ d = "canceller"
      /\ Distinct /\ ~Queued("canceller") => Distinct'
  BY AppendConnections DEF Clients
<1>2. TypeOK'
  BY DEF TypeOK, LocalPortTypeOK, Clients, UnderWay
<1>3. PcInv'
  BY DEF PcInv
<1>4. PeerInv'
  <2>1. ~Queued("canceller") /\ ~Accepted("canceller")
    BY DEF PeerInv, Tried, Connected, Clients
  <2>2. \A d \in Clients : Connected(d)' => Tried(d)'
    BY <1>1 DEF PeerInv, Tried
  <2> QED
    BY <1>1, <2>1, <2>2 DEF PeerInv, Accepted
<1>5. WorkerInv' /\ OutcomeInv'
  BY <1>1 DEF WorkerInv, Outcomes, OutcomeInv, Outcome
<1>6. ShutInv' /\ TookInv' /\ CauseInv'
  BY <1>1 DEF Clients, ShutInv, TookInv, Gone, Accepted, CauseInv
<1> QED
  BY <1>2, <1>3, <1>4, <1>5, <1>6

LEMMA OpCompletesStep ==
  ASSUME IInv, OpCompletes, UNCHANGED talkVars
  PROVE  IInv'
<1> USE SizeAssumption
       DEF IInv, OpCompletes, Goto, AtCanceller, portVars, cancelVars, talkVars
<1>1. TypeOK'
  BY DEF TypeOK, LocalPortTypeOK, Outcomes
<1>2. PcInv'
  BY DEF PcInv
<1>3. PeerInv'
  BY DEF PeerInv, Tried, Distinct, Connected, Queued, Accepted
<1>4. WorkerInv' /\ OutcomeInv'
  BY DEF WorkerInv, Outcomes, OutcomeInv, Outcome, Connected, Queued, Accepted
<1>5. ShutInv' /\ TookInv' /\ CauseInv'
  BY DEF ShutInv, TookInv, Gone, Accepted, CauseInv, Queued
<1> QED
  BY <1>1, <1>2, <1>3, <1>4, <1>5

LEMMA OpFailsStep ==
  ASSUME IInv, OpFails, UNCHANGED talkVars
  PROVE  IInv'
<1> USE SizeAssumption
       DEF IInv, OpFails, Goto, AtCanceller, portVars, cancelVars, talkVars
<1>1. TypeOK'
  BY DEF TypeOK, LocalPortTypeOK, Outcomes
<1>2. PcInv'
  BY DEF PcInv
<1>3. PeerInv'
  BY DEF PeerInv, Tried, Distinct, Connected, Queued, Accepted
<1>4. WorkerInv' /\ OutcomeInv'
  BY DEF Clients, WorkerInv, Outcomes, PeerInv, Tried, OutcomeInv, Outcome,
         Connected, Queued, Accepted
<1>5. ShutInv' /\ TookInv' /\ CauseInv'
  BY DEF ShutInv, TookInv, Gone, Accepted, CauseInv, Queued
<1> QED
  BY <1>1, <1>2, <1>3, <1>4, <1>5

LEMMA WriteStep ==
  ASSUME IInv, NEW p \in Talkers, NEW n \in Nat \ {0}, Write(p, n)
  PROVE  IInv'
<1> USE SizeAssumption
       DEF IInv, Write, Goto, AtCanceller, portVars, cancelVars, talkVars
<1>1. TypeOK'
  <2>3. port' \in {"free"} \cup {s \in Servers : pc'[s] \notin Ended}
    BY DEF TypeOK, LocalPortTypeOK, Ended
  <2>4. LocalPortTypeOK'
    BY <2>3 DEF TypeOK, LocalPortTypeOK
  <2> QED
    BY <2>4 DEF TypeOK
<1>2. PcInv'
  BY DEF PcInv, Talkers
<1>3. PeerInv'
  BY DEF PeerInv, Tried, Distinct, Connected, Queued, Accepted
<1>4. WorkerInv' /\ OutcomeInv'
  BY DEF WorkerInv, OutcomeInv, Outcome, Connected, Queued, Accepted
<1>5. ShutInv' /\ TookInv' /\ CauseInv'
  BY DEF ShutInv, TookInv, Ended, Gone, Accepted, CauseInv, Queued
<1> QED
  BY <1>1, <1>2, <1>3, <1>4, <1>5

LEMMA ShutdownStep ==
  ASSUME IInv, NEW p \in Talkers, Shutdown(p)
  PROVE  IInv'
<1> USE SizeAssumption
       DEF IInv, Shutdown, Goto, AtCanceller, portVars, cancelVars, talkVars
<1>1. TypeOK'
  BY DEF TypeOK, LocalPortTypeOK, Programs, Ended
<1>2. PcInv'
  BY DEF PcInv, Talkers
<1>3. PeerInv'
  BY DEF PeerInv, Tried, Distinct, Connected, Queued, Accepted
<1>4. WorkerInv' /\ OutcomeInv'
  BY DEF WorkerInv, OutcomeInv, Outcome, Connected, Queued, Accepted
<1>5. ShutInv' /\ TookInv' /\ CauseInv'
  BY DEF TypeOK, LocalPortTypeOK, Programs, Servers, Clients, ShutInv,
         TookInv, Talkers, Ended, Gone, Accepted, CauseInv, Queued
<1> QED
  BY <1>1, <1>2, <1>3, <1>4, <1>5

LEMMA ReadStep ==
  ASSUME IInv, NEW p \in Talkers, NEW n \in Nat, Read(p, n)
  PROVE  IInv'
<1> USE SizeAssumption
       DEF IInv, Read, Goto, AtCanceller, portVars, cancelVars, talkVars
<1>1. TypeOK'
  <2>2. CASE p = "requester"
    <3>1. BytesTo(p) <= ResponseSize
      BY <2>2, ClientPartner DEF TypeOK, BytesTo, Clients, Servers, Size
    <3> QED
      BY <2>2, <3>1 DEF TypeOK, LocalPortTypeOK, Talkers, BytesTo
  <2>3. CASE p = "responder"
    <3>1. BytesTo(p) <= RequestSize
      BY <2>3
         DEF TypeOK, LocalPortTypeOK, BytesTo, Partner, Clients, Talkers,
             Servers, Size
    <3> QED
      BY <2>3, <3>1 DEF TypeOK, LocalPortTypeOK, Talkers, BytesTo
  <2> QED
    BY <2>2, <2>3 DEF Talkers
<1>2. PcInv'
  BY DEF PcInv
<1>3. PeerInv'
  BY DEF PeerInv, Tried, Distinct, Connected, Queued, Accepted
<1>4. WorkerInv' /\ OutcomeInv'
  BY DEF WorkerInv, OutcomeInv, Outcome, Connected, Queued, Accepted
<1>5. ShutInv' /\ TookInv' /\ CauseInv'
  BY DEF ShutInv, TookInv, Gone, CauseInv, Accepted, Queued
<1> QED
  BY <1>1, <1>2, <1>3, <1>4, <1>5

LEMMA ReadEndsStep ==
  ASSUME IInv, NEW p \in Talkers, ReadEnds(p)
  PROVE  IInv'
<1> USE SizeAssumption
       DEF IInv, ReadEnds, Goto, AtCanceller, portVars, cancelVars, talkVars
<1>1. TypeOK'
  BY DEF TypeOK, LocalPortTypeOK, Programs, Ended
<1>2. PcInv'
  BY DEF PcInv, Talkers
<1>3. PeerInv'
  BY DEF PeerInv, Tried, Distinct, Connected, Queued, Accepted
<1>4. WorkerInv' /\ OutcomeInv'
  BY DEF WorkerInv, OutcomeInv, Outcome, Connected, Queued, Accepted
<1>5. TookInv'
  <2> USE DEF TypeOK, LocalPortTypeOK, Programs, Servers, Clients, Ended, Talkers
  <2>1. CASE p = "requester"
    <3>1. Partner(p) \in Servers /\ peer[Partner(p)] = p
      BY <2>1, ClientPartner DEF EndOfStream, Gone
    <3>2. Partner(p) \in shut \/ Gone(Partner(p))
      BY DEF EndOfStream
    <3> QED
      BY <3>1, <3>2 DEF PeerInv, TookInv, Gone, Accepted
  <2>2. CASE p = "responder"
    <3>1. Partner(p) = peer[p] /\ (Partner(p) \in shut \/ Gone(Partner(p)))
      BY <2>2 DEF Partner, EndOfStream
    <3> QED
      BY <2>2, <3>1 DEF TookInv, Gone, Accepted
  <2> QED
    BY <2>1, <2>2
<1>6. ShutInv' /\ CauseInv'
  BY DEF ShutInv, Talkers, Ended, Gone, CauseInv, Queued
<1> QED
  BY <1>1, <1>2, <1>3, <1>4, <1>5, <1>6

LEMMA ThrowStep ==
  ASSUME IInv, NEW p \in Talkers, Throw(p)
  PROVE  IInv'
<1> USE SizeAssumption
       DEF IInv, Throw, Goto, AtCanceller, portVars, cancelVars, talkVars
<1>1. /\ LocalPortTypeOK'
      /\ pc' = [pc EXCEPT ![p] = "error"] /\ peer' = peer
      /\ broken \subseteq broken' /\ (Distinct => Distinct')
      /\ \A d \in Clients : Queued(d)' => Queued(d)
      /\ \A d \in Clients : Connected(d)' <=> Connected(d)
  BY EndConnections DEF Programs, Clients, Talkers, Servers
<1>2. TypeOK'
  BY <1>1 DEF TypeOK
<1>3. PcInv'
  BY <1>1 DEF PcInv, Ended
<1>4. PeerInv'
  BY <1>1 DEF PeerInv, Tried, Accepted
<1>5. WorkerInv' /\ OutcomeInv'
  BY <1>1 DEF Clients, WorkerInv, OutcomeInv, Outcome
<1>6. CauseInv'
  <2> USE DEF TypeOK, LocalPortTypeOK, Programs, Servers, Clients, Ended, Talkers
  <2>1. CASE p = "requester"
    <3>1. Partner(p) \in Servers \cup {"nobody"}
      BY <2>1, ClientPartner
    <3>2. p \in broken \/ Gone(Partner(p))
      BY <3>1 DEF Reset
    <3>3. Gone(Partner(p)) => ~Queued(p) /\ (peer["responder"] = p => Gone("responder"))
      BY <2>1, ClientPartner DEF Gone, PeerInv
    <3> QED
      BY <1>1, <2>1, <3>2, <3>3 DEF CauseInv, Gone
  <2>2. CASE p = "responder"
    <3>1. Partner(p) = peer[p]
      BY <2>2 DEF Partner
    <3>2. peer[p] = "requester" => "requester" \in broken \/ Gone("requester")
      BY <3>1 DEF Reset
    <3> QED
      BY <1>1, <2>2, <3>2 DEF CauseInv, Gone
  <2> QED
    BY <2>1, <2>2
<1>7. ShutInv' /\ TookInv'
  BY <1>1 DEF ShutInv, TookInv, Ended, Gone, Accepted
<1> QED
  BY <1>2, <1>3, <1>4, <1>5, <1>6, <1>7

LEMMA KillStep ==
  ASSUME IInv, NEW p \in Talkers, Kill(p)
  PROVE  IInv'
<1> USE SizeAssumption
       DEF IInv, Kill, Goto, AtCanceller, portVars, cancelVars, talkVars
<1>1. /\ LocalPortTypeOK'
      /\ pc' = [pc EXCEPT ![p] = "killed"] /\ peer' = peer
      /\ broken \subseteq broken' /\ (Distinct => Distinct')
      /\ \A d \in Clients : Queued(d)' => Queued(d)
      /\ \A d \in Clients : Connected(d)' <=> Connected(d)
  BY EndConnections DEF Programs, Clients, Talkers, Servers
<1>2. TypeOK'
  BY <1>1 DEF TypeOK
<1>3. PcInv'
  BY <1>1 DEF PcInv, Ended
<1>4. PeerInv'
  BY <1>1 DEF PeerInv, Tried, Accepted
<1>5. WorkerInv' /\ OutcomeInv'
  BY <1>1 DEF Clients, WorkerInv, Talkers, OutcomeInv, Outcome
<1>6. ShutInv' /\ TookInv' /\ CauseInv'
  BY <1>1 DEF Clients, ShutInv, TookInv, Ended, Gone, Accepted, CauseInv
<1> QED
  BY <1>2, <1>3, <1>4, <1>5, <1>6

LEMMA ConnectionLostStep ==
  ASSUME IInv, NEW c \in Clients, ConnectionLost(c)
  PROVE  IInv'
<1> USE SizeAssumption
       DEF IInv, ConnectionLost, Goto, AtCanceller, portVars, cancelVars, talkVars
<1>1. TypeOK'
  BY DEF TypeOK, LocalPortTypeOK
<1>2. PcInv'
  BY DEF PcInv
<1>3. PeerInv'
  BY DEF PeerInv, Tried, Distinct, Connected, Queued, Accepted
<1>4. WorkerInv' /\ OutcomeInv'
  BY DEF WorkerInv, OutcomeInv, Outcome, Connected, Queued, Accepted
<1>5. ShutInv' /\ TookInv' /\ CauseInv'
  BY DEF ShutInv, TookInv, Gone, CauseInv, Accepted, Queued
<1> QED
  BY <1>1, <1>2, <1>3, <1>4, <1>5

LEMMA StutterStep ==
  ASSUME IInv, UNCHANGED vars
  PROVE  IInv'
<1> USE DEF IInv, vars, portVars, cancelVars, talkVars
<1>1. TypeOK' /\ PcInv'
  BY DEF TypeOK, LocalPortTypeOK, PcInv
<1>2. PeerInv' /\ WorkerInv' /\ OutcomeInv'
  BY DEF PeerInv, Tried, Distinct, Connected, Queued, Accepted, WorkerInv,
         AtCanceller, OutcomeInv, Outcome
<1>3. ShutInv' /\ TookInv' /\ CauseInv'
  BY DEF ShutInv, TookInv, CauseInv, Queued, Accepted, Gone
<1> QED
  BY <1>1, <1>2, <1>3

LEMMA InitEstablishes == Init => IInv
<1> SUFFICES ASSUME Init PROVE IInv
  OBVIOUS
<1> PICK cast \in Casts :
      pc = [p \in Programs |-> IF p \notin cast THEN "absent"
                               ELSE IF p \in Servers THEN "bind"
                               ELSE IF p = "resolver" THEN "resolve" ELSE "connect"]
  BY DEF Init, LocalPortInit
<1> USE SizeAssumption DEF Init, LocalPortInit
<1>1. TypeOK
  BY DEF TypeOK, LocalPortTypeOK, Talkers, Size, Ended
<1>2. PcInv
  BY DEF PcInv, Programs, Servers, Clients, Ended
<1>3. \A c \in Clients : ~Queued(c) /\ ~Accepted(c) /\ ~Connected(c)
  BY DEF Queued, Accepted, Connected, Clients
<1>4. PeerInv
  BY <1>3 DEF PeerInv, Distinct
<1>5. WorkerInv /\ OutcomeInv
  BY DEF WorkerInv, OutcomeInv, Outcome, AtCanceller, Programs, Clients
<1>6. ShutInv /\ TookInv /\ CauseInv
  BY DEF ShutInv, TookInv, CauseInv, Programs, Servers, Clients, Talkers
<1> QED
  BY <1>1, <1>2, <1>4, <1>5, <1>6 DEF IInv

LEMMA NextPreserves ==
  ASSUME IInv, [Next]_vars
  PROVE  IInv'
<1>1. CASE UNCHANGED vars
  BY <1>1, StutterStep
<1>2. ASSUME NEW s \in Servers, Quiet(ServerSetUp(s))
      PROVE  IInv'
  BY <1>2, BindStep, ListenStep, AcceptStep, ReturnStep
     DEF Quiet, ServerSetUp, Programs
<1>3. ASSUME NEW c \in Clients, Quiet(ClientSetUp(c))
      PROVE  IInv'
  BY <1>3, ConnectStep, ConnectFailsStep, ResolveStep, ReturnStep
     DEF Quiet, ClientSetUp, Programs
<1>4. CASE Quiet(CancellerMain) \/ Quiet(CancellerWorker)
  BY <1>4, AsyncConnectStep, SpawnWorkerStep, CancelStep, JoinStep,
     OpCompletesStep, CallbackStep, RunReturnsStep
     DEF Quiet, CancellerMain, CancellerWorker
<1>5. CASE Quiet(SetUpMishap)
  BY <1>5, SetUpFailsStep, ConnectFailsStep, SpawnFailsStep, OpConnectsStep,
     OpFailsStep
     DEF Quiet, SetUpMishap, Clients
<1>6. ASSUME NEW p \in Talkers, Talk(p) \/ Kill(p)
      PROVE  IInv'
  BY <1>6, WriteStep, ShutdownStep, ReadStep, ReadEndsStep, ThrowStep,
     KillStep
     DEF Talk
<1>7. ASSUME NEW c \in Clients, ConnectionLost(c)
      PROVE  IInv'
  BY <1>7, ConnectionLostStep
<1> QED
  BY <1>1, <1>2, <1>3, <1>4, <1>5, <1>6, <1>7 DEF Next

\* The invariant holds in every reachable state.
THEOREM Invariance == Spec => []IInv
<1> QED
  BY InitEstablishes, NextPreserves, PTL DEF Spec

-----------------------------------------------------------------------------
(* The properties *)

\* Every variable keeps its type; in particular nobody holds the port that has
\* ended, and nobody reads more than his partner can have written.
THEOREM TypeCorrectness == Spec => []TypeOK
<1>1. IInv => TypeOK
  BY DEF IInv
<1> QED
  BY <1>1, Invariance, PTL

\* The callback of the cancelled connect is called once before main returns 0,
\* and with the truth, wherever cancel() meets the operation.
THEOREM CallbackOnce == Spec => []CallbackTruthful
<1>1. IInv => CallbackTruthful
  <2> SUFFICES ASSUME IInv PROVE CallbackTruthful
    OBVIOUS
  <2>1. Len(told) <= 1 /\ (AtCanceller("ok") => Len(told) = 1)
    <3>1. IF op = "reported" THEN Len(told) = 1 ELSE Len(told) = 0
      BY DEF IInv, WorkerInv
    <3>2. AtCanceller("ok") => op = "reported"
      BY DEF IInv, WorkerInv
    <3>3. Len(told) = 1 \/ Len(told) = 0
      BY <3>1
    <3> QED
      BY <3>1, <3>2, <3>3
  <2>2. told = <<"success">> => Connected("canceller")
    BY DEF IInv, OutcomeInv, Outcome
  <2>3. told = <<"failed">> /\ Connected("canceller") => "canceller" \in broken
    BY DEF IInv, OutcomeInv, Outcome
  <2>4. told = <<"aborted">> => pc["canceller"] \in {"join"} \cup Ended
    BY DEF IInv, OutcomeInv, Outcome, AtCanceller, Ended
  <2> QED
    BY <2>1, <2>2, <2>3, <2>4 DEF CallbackTruthful
<1> QED
  BY <1>1, Invariance, PTL

\* p can neither read nor write: the stream to it is empty and has not ended, or
\* there is no room for what it has to say.
Blocked(p) ==
  \/ pc[p] = "read" /\ got[p] = BytesTo(p) /\ ~EndOfStream(p)
  \/ pc[p] = "write" /\ sent[p] - BytesTaken(p) >= Capacity

\* The two talkers, once connected, never wait for each other: the requester reads
\* only after it has shut down, and the responder writes only after that.
NoMutualWait ==
  peer["responder"] = "requester" =>
    ~(Blocked("requester") /\ Blocked("responder"))

\* Whatever the sizes of the messages and of the buffers, the half-close keeps
\* the client of ch02/11 and the server of ch02/12 from a mutual wait.
THEOREM NobodyWaitsForTheOther == Spec => []NoMutualWait
<1>1. IInv => NoMutualWait
  <2> SUFFICES ASSUME IInv, peer["responder"] = "requester",
                      Blocked("requester"), Blocked("responder")
               PROVE  FALSE
    BY DEF NoMutualWait
  <2>1. Partner("requester") = "responder" /\ Partner("responder") = "requester"
    BY ClientPartner DEF IInv, Partner, Clients, Servers
  <2>2. /\ BytesTo("requester") = sent["responder"]
        /\ BytesTo("responder") = sent["requester"]
        /\ BytesTaken("requester") = got["responder"]
        /\ BytesTaken("responder") = got["requester"]
    BY <2>1 DEF BytesTo, BytesTaken, Talkers
  <2>3. /\ Capacity \in Nat \ {0}
        /\ \A p \in Talkers : sent[p] \in Nat /\ got[p] \in Nat
    BY SizeAssumption DEF IInv, TypeOK
  <2>4. CASE pc["responder"] = "read"
    <3>1. pc["requester"] # "read"
      BY <2>1, <2>4 DEF IInv, ShutInv, Blocked, EndOfStream
    <3>2. got["responder"] = sent["requester"]
      BY <2>2, <2>4 DEF Blocked
    <3>3. sent["requester"] - got["responder"] >= Capacity
      BY <2>2, <3>1 DEF Blocked
    <3> QED
      BY <2>3, <3>2, <3>3 DEF Talkers
  <2>5. CASE pc["responder"] = "write"
    <3>1. "requester" \in shut \/ Gone("requester")
      BY <2>5 DEF IInv, TookInv
    <3>2. pc["requester"] = "read"
      BY <3>1 DEF IInv, ShutInv, Talkers, Gone, Blocked, Ended
    <3>3. got["requester"] = sent["responder"]
      BY <2>2, <3>2 DEF Blocked
    <3>4. sent["responder"] - got["requester"] >= Capacity
      BY <2>2, <2>5 DEF Blocked
    <3> QED
      BY <2>3, <3>3, <3>4 DEF Talkers
  <2> QED
    BY <2>4, <2>5 DEF Blocked
<1> QED
  BY <1>1, Invariance, PTL

-----------------------------------------------------------------------------
(* The refinement: what the two talkers see is Exchange. *)

\* Only the responder's peer matters for the variables of Exchange: this is
\* what they are in terms of it.
Request ==
  IF "responder" \in took /\ peer["responder"] = "requester"
  THEN IF got["responder"] = RequestSize THEN "taken" ELSE "cut"
  ELSE IF sent["requester"] = 0 THEN "none"
       ELSE IF sent["requester"] = RequestSize THEN "whole" ELSE "part"

Response ==
  IF peer["responder"] \notin {"requester", "nobody"} THEN "none"
  ELSE IF "requester" \in took /\ peer["responder"] = "requester"
       THEN IF got["requester"] = ResponseSize THEN "taken" ELSE "cut"
       ELSE IF sent["responder"] = 0 THEN "none"
            ELSE IF sent["responder"] = ResponseSize THEN "whole" ELSE "part"

Killed == \E p \in Talkers : pc[p] = "killed"

Misled ==
  \/ peer["responder"] \notin {"requester", "nobody"}
  \/ \E s \in Servers \ {"responder"} : peer[s] = "requester"

View == INSTANCE Exchange WITH
  request <- Request, response <- Response, faulty <- Killed \/ Misled

Views ==
  /\ Progress("requester", "responder") = Request
  /\ (IF Partner("responder") \notin {"requester", "nobody"} THEN "none"
      ELSE Progress("responder", "requester")) = Response
  /\ Faulty = (Killed \/ Misled)

LEMMA SameView == IInv => Views
<1> SUFFICES ASSUME IInv PROVE Views
  OBVIOUS
<1>1. Partner("responder") = peer["responder"]
  BY DEF Partner, Servers
<1>2. /\ Partner("requester") \in Servers \cup {"nobody"}
      /\ \A s \in Servers : Partner("requester") = s <=> peer[s] = "requester"
  BY ClientPartner DEF IInv, Clients
<1>3. Progress("requester", "responder") = Request
  BY <1>1 DEF Progress, Request, Size, Talkers
<1>4. (IF Partner("responder") \notin {"requester", "nobody"} THEN "none"
       ELSE Progress("responder", "requester")) = Response
  BY <1>1, <1>2 DEF Progress, Response, Size, Talkers, Servers
<1>5. Faulty = (Killed \/ Misled)
  <2>1. (\E p \in Talkers : Partner(p) \notin Talkers \cup {"nobody"}) <=> Misled
    BY <1>1, <1>2
       DEF Misled, Talkers, Servers, IInv, TypeOK, LocalPortTypeOK, Clients
  <2> QED
    BY <2>1 DEF Faulty, Killed
<1> QED
  BY <1>3, <1>4, <1>5 DEF Views

\* A step that is none of the exchange.
LEMMA Invisible ==
  ASSUME UNCHANGED <<sent, got, took, peer>>,
         \A p \in Talkers : pc'[p] = "killed" <=> pc[p] = "killed"
  PROVE  UNCHANGED <<Request, Response, Killed \/ Misled>>
BY DEF Request, Response, Killed, Misled

\* When a server accepts the wrong client, the exchange is at fault from then
\* on; when it accepts the right one nothing has been received yet.
LEMMA AcceptImplements ==
  ASSUME IInv, NEW s \in Servers, Accept(s), UNCHANGED talkVars
  PROVE  View!Fault \/ UNCHANGED <<Request, Response, Killed \/ Misled>>
<1> USE DEF IInv, talkVars
<1>1. /\ Head(backlog) \in Clients /\ ~Accepted(Head(backlog))
      /\ peer[s] = "nobody" /\ peer' = [peer EXCEPT ![s] = Head(backlog)]
  BY AcceptConnections DEF PeerInv
<1>2. Killed' = Killed
  BY DEF Killed, Accept, Goto
<1>4. CASE s = "responder"
  <2>1. "responder" \notin took /\ sent["responder"] = 0
    BY <1>1, <1>4 DEF TookInv
  <2>2. Head(backlog) = "requester" => "requester" \notin took
    BY <1>1 DEF TookInv
  <2>3. peer'["responder"] = Head(backlog)
    BY <1>1, <1>4 DEF TypeOK, LocalPortTypeOK
  <2>4. UNCHANGED <<Request, Response>>
    BY <1>1, <2>1, <2>2 DEF Request, Response
  <2>5. CASE Head(backlog) = "requester"
    <3>1. Misled' <=> Misled
      BY <1>1, <1>4, <2>5 DEF Misled
    <3> QED
      BY <1>2, <2>4, <3>1
  <2>6. CASE Head(backlog) # "requester"
    <3>1. Misled'
      BY <1>1, <2>3, <2>6 DEF Misled, Clients
    <3> QED
      BY <2>4, <3>1 DEF View!Fault
  <2> QED
    BY <2>5, <2>6
<1>5. CASE s # "responder"
  <2>1. peer'["responder"] = peer["responder"]
    BY <1>1, <1>5
  <2>2. UNCHANGED <<Request, Response>>
    BY <2>1 DEF Request, Response
  <2>3. CASE Head(backlog) = "requester"
    <3>1. Misled'
      BY <1>1, <1>5, <2>3 DEF Misled, TypeOK, LocalPortTypeOK
    <3> QED
      BY <2>2, <3>1 DEF View!Fault
  <2>4. CASE Head(backlog) # "requester"
    <3>1. Misled' <=> Misled
      BY <1>1, <2>1, <2>4 DEF Misled
    <3> QED
      BY <1>2, <2>2, <3>1
  <2> QED
    BY <2>3, <2>4
<1> QED
  BY <1>4, <1>5

\* The requester has not been taken for finished, nor the responder been
\* answered, as long as they write.
LEMMA WriteImplements ==
  ASSUME IInv, NEW p \in Talkers, NEW n \in Nat \ {0}, Write(p, n)
  PROVE  \/ View!SendRequest \/ View!SendResponse
         \/ UNCHANGED <<Request, Response, Killed \/ Misled>>
<1> USE SizeAssumption DEF IInv, Write, Goto, portVars, Talkers
<1>1. /\ sent[p] \in Nat /\ sent[p] < Size[p]
      /\ sent'[p] \in Nat /\ sent'[p] > 0
      /\ \A q \in Talkers \ {p} : sent'[q] = sent[q]
  <2>1. Size[p] \in Nat /\ sent[p] \in Nat
    BY DEF Size, TypeOK
  <2> QED
    BY <2>1 DEF TypeOK
<1>2. UNCHANGED (Killed \/ Misled)
  BY DEF Killed, Misled
<1>3. CASE p = "requester"
  <2>1. ~("responder" \in took /\ peer["responder"] = "requester")
    BY <1>3 DEF TookInv, ShutInv, Gone, Ended
  <2>2. Request \in {"none", "part"} /\ Request' \in {"part", "whole"}
    BY <1>1, <1>3, <2>1 DEF Request, Size
  <2>3. Response' = Response
    BY <1>3 DEF Response
  <2> QED
    BY <1>2, <2>2, <2>3 DEF View!SendRequest, View!Unfinished
<1>4. CASE p = "responder"
  <2>1. "responder" \in took /\ peer["responder"] # "nobody"
    BY <1>4 DEF TookInv
  <2>2. Request' = Request
    BY <1>4 DEF Request
  <2>3. CASE peer["responder"] = "requester"
    <3>1. "requester" \notin took
      BY <2>3 DEF TookInv, ShutInv, Gone, Ended
    <3>2. Request \in {"taken", "cut"}
      BY <2>1, <2>3 DEF Request
    <3>3. Response \in {"none", "part"} /\ Response' \in {"part", "whole"}
      BY <1>1, <1>4, <2>3, <3>1 DEF Response, Size
    <3> QED
      BY <1>2, <2>2, <3>2, <3>3
         DEF View!SendResponse, View!Received, View!Unfinished
  <2>4. CASE peer["responder"] # "requester"
    <3>1. Response' = Response
      BY <2>1, <2>4 DEF Response
    <3> QED
      BY <1>2, <2>2, <3>1
  <2> QED
    BY <2>3, <2>4
<1> QED
  BY <1>3, <1>4

\* A talker that reads has not taken the message.
LEMMA ReadImplements ==
  ASSUME IInv, NEW p \in Talkers, NEW n \in Nat, Read(p, n)
  PROVE  UNCHANGED <<Request, Response, Killed \/ Misled>>
<1> USE DEF IInv, Read, portVars, Talkers
<1>1. p \notin took /\ \A q \in Talkers \ {p} : got'[q] = got[q]
  BY DEF TookInv, Ended
<1>2. UNCHANGED <<Request, Response>>
  BY <1>1 DEF Request, Response
<1> QED
  BY <1>2 DEF Killed, Misled

\* The end of the stream comes after the whole message, unless the partner has
\* been killed.
LEMMA ReadEndsImplements ==
  ASSUME IInv, NEW p \in Talkers, ReadEnds(p)
  PROVE  \/ View!TakeRequest \/ View!TakeResponse
         \/ UNCHANGED <<Request, Response, Killed \/ Misled>>
<1> USE SizeAssumption DEF IInv, ReadEnds, Goto, portVars, Talkers
<1>1. p \notin took
  BY DEF TookInv, Ended
<1>2. UNCHANGED (Killed \/ Misled)
  BY DEF Killed, Misled
<1>3. ASSUME NEW q \in Talkers, q \in shut \/ (Gone(q) /\ "requester" \notin broken),
             q # p, peer["responder"] = "requester", ~Killed
      PROVE  sent[q] = Size[q]
  <2>1. pc[q] \in {"ok", "killed", "error", "absent"} => q \in shut
    BY <1>3
       DEF ShutInv, Killed, CauseInv, Gone, Ended, PeerInv, Tried, Connected,
           Accepted, Servers, Clients
  <2> QED
    BY <1>3, <2>1 DEF ShutInv, Gone, Ended
<1>4. CASE p = "responder"
  <2>1. Partner(p) = peer[p] /\ Response' = Response
    BY <1>4 DEF Partner, Servers, Response
  <2>2. CASE peer[p] = "requester"
    <3>2. /\ "requester" \in shut \/ (Gone("requester") /\ "requester" \notin broken)
          /\ got[p] = sent["requester"]
      BY <2>1, <2>2 DEF EndOfStream, Reset, BytesTo
    <3>4. sent["requester"] = RequestSize => Request = "whole" /\ Request' = "taken"
      BY <1>1, <1>4, <2>2, <3>2 DEF Request
    <3>5. ~Killed => sent["requester"] = RequestSize
      BY <1>3, <1>4, <2>2, <3>2 DEF Size
    <3>6. sent["requester"] # RequestSize =>
            Request \in {"none", "part"} /\ Request' = "cut"
      BY <1>1, <1>4, <2>2, <3>2 DEF Request
    <3> QED
      BY <1>2, <2>1, <3>4, <3>5, <3>6 DEF View!TakeRequest, View!Unfinished
  <2>3. CASE peer[p] # "requester"
    <3>1. Request' = Request
      BY <2>3 DEF Request
    <3> QED
      BY <1>2, <2>1, <3>1
  <2> QED
    BY <2>2, <2>3
<1>5. CASE p = "requester"
  <2>1. Request' = Request
    BY <1>5 DEF Request
  <2>2. CASE peer["responder"] = "requester"
    <3>1. Partner(p) = "responder"
      BY <1>5, <2>2, ClientPartner DEF Clients, Servers
    <3>3. /\ "responder" \in shut \/ (Gone("responder") /\ "requester" \notin broken)
          /\ got[p] = sent["responder"]
      BY <1>5, <3>1 DEF EndOfStream, Reset, BytesTo
    <3>4. sent["responder"] = ResponseSize =>
            Response = "whole" /\ Response' = "taken"
      BY <1>1, <1>5, <2>2, <3>3 DEF Response
    <3>5. ~Killed => sent["responder"] = ResponseSize
      BY <1>3, <1>5, <2>2, <3>3 DEF Size
    <3>6. sent["responder"] # ResponseSize =>
            Response \in {"none", "part"} /\ Response' = "cut"
      BY <1>1, <1>5, <2>2, <3>3 DEF Response
    <3> QED
      BY <1>2, <2>1, <3>4, <3>5, <3>6 DEF View!TakeResponse, View!Unfinished
  <2>3. CASE peer["responder"] # "requester"
    <3>1. Response' = Response
      BY <2>3 DEF Response
    <3> QED
      BY <1>2, <2>1, <3>1
  <2> QED
    BY <2>2, <2>3
<1> QED
  BY <1>4, <1>5

LEMMA KillImplements ==
  ASSUME IInv, NEW p \in Talkers, Kill(p)
  PROVE  View!Fault
<1>1. Killed'
  BY DEF IInv, TypeOK, LocalPortTypeOK, Kill, End, Goto, Killed, Talkers,
         Programs, Servers, Clients
<1>2. UNCHANGED <<Request, Response>>
  BY DEF Kill, End, talkVars, Request, Response
<1> QED
  BY <1>1, <1>2 DEF View!Fault

\* The set-up, the canceller, and what a talker does besides: nobody is killed
\* and nobody accepted.
LEMMA SetUpImplements ==
  ASSUME IInv,
         \/ \E s \in Servers :
              Quiet(Bind(s) \/ Listen(s) \/ Return(s) \/ SetUpFails(s))
         \/ \E c \in Clients : Quiet(ClientSetUp(c) \/ ConnectFails(c))
         \/ Quiet(CancellerMain \/ CancellerWorker)
         \/ Quiet(SpawnFails \/ OpConnects \/ OpFails)
         \/ \E p \in Talkers : Shutdown(p) \/ Throw(p)
         \/ \E c \in Clients : ConnectionLost(c)
  PROVE  UNCHANGED <<Request, Response, Killed \/ Misled>>
<1>1. UNCHANGED <<sent, got, took, peer>>
  BY DEF Quiet, ClientSetUp, CancellerMain, CancellerWorker, Bind, Listen,
         Return, SetUpFails, Resolve, Connect, ConnectFails, AsyncConnect,
         SpawnWorker, SpawnFails, Cancel, Join, Callback, RunReturns,
         OpConnects, OpCompletes, OpFails, Shutdown, Throw, ConnectionLost,
         End, talkVars, portVars
<1>2. \A p \in Talkers : pc'[p] = "killed" <=> pc[p] = "killed"
  BY DEF Quiet, ClientSetUp, CancellerMain, CancellerWorker, Bind, Listen,
         Return, SetUpFails, Resolve, Connect, ConnectFails, AsyncConnect,
         SpawnWorker, SpawnFails, Cancel, Join, Callback, RunReturns,
         OpConnects, OpCompletes, OpFails, Shutdown, Throw, ConnectionLost,
         End, Goto, IInv, TypeOK, LocalPortTypeOK, Talkers, Programs, Servers,
         Clients
<1> QED
  BY <1>1, <1>2, Invisible

LEMMA StepImplements ==
  ASSUME IInv, [Next]_vars
  PROVE  [E!Next]_<<Progress("requester", "responder"),
                    IF Partner("responder") \notin {"requester", "nobody"}
                    THEN "none" ELSE Progress("responder", "requester"), Faulty>>
<1>1. View!Next \/ UNCHANGED <<Request, Response, Killed \/ Misled>>
  <2>1. CASE UNCHANGED vars
    BY <2>1, Invisible DEF vars, talkVars, portVars
  <2>2. ASSUME NEW s \in Servers, Quiet(Accept(s))
        PROVE  View!Next \/ UNCHANGED <<Request, Response, Killed \/ Misled>>
    BY <2>2, AcceptImplements DEF Quiet, View!Next
  <2>3. ASSUME NEW p \in Talkers, Talk(p) \/ Kill(p), ~Shutdown(p), ~Throw(p)
        PROVE  View!Next \/ UNCHANGED <<Request, Response, Killed \/ Misled>>
    BY <2>3, WriteImplements, ReadImplements, ReadEndsImplements,
       KillImplements
       DEF Talk, View!Next
  <2>4. CASE \/ \E s \in Servers :
                  Quiet(Bind(s) \/ Listen(s) \/ Return(s) \/ SetUpFails(s))
             \/ \E c \in Clients : Quiet(ClientSetUp(c) \/ ConnectFails(c))
             \/ Quiet(CancellerMain \/ CancellerWorker)
             \/ Quiet(SpawnFails \/ OpConnects \/ OpFails)
             \/ \E p \in Talkers : Shutdown(p) \/ Throw(p)
             \/ \E c \in Clients : ConnectionLost(c)
    BY <2>4, SetUpImplements
  <2> QED
    BY <2>1, <2>2, <2>3, <2>4
       DEF Next, Quiet, ServerSetUp, SetUpMishap, Clients
<1>2. IInv'
  BY NextPreserves
<1>3. Views /\ Views'
  BY <1>2, SameView, PTL
<1> QED
  BY <1>1, <1>3
     DEF View!Next, View!SendRequest, View!TakeRequest, View!SendResponse,
         View!TakeResponse, View!Fault, View!Unfinished, View!Received,
         E!Next, E!SendRequest, E!TakeRequest, E!SendResponse, E!TakeResponse,
         E!Fault, E!Unfinished, E!Received, Views

LEMMA InitImplements == Init => E!Init
<1> SUFFICES ASSUME Init PROVE E!Init
  OBVIOUS
<1>1. Request = "none" /\ Response = "none" /\ (Killed \/ Misled) = FALSE
  BY DEF Init, LocalPortInit, Request, Response, Killed, Misled, Talkers,
         Programs, Servers, Clients
<1> QED
  BY <1>1, InitEstablishes, SameView DEF E!Init, Views

\* The end of the stream is the end of the message, in both directions, whoever
\* shares the port and whatever is lost, unless a talker is killed or connected
\* to another program.
THEOREM Refinement == Spec => ExchangeKept
<1> QED
  BY Invariance, InitImplements, StepImplements, PTL
     DEF Spec, ExchangeKept, E!Spec

=============================================================================
