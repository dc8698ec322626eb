------------------------------ MODULE LocalPort ------------------------------
(***************************************************************************)
(* The programs of chapters 1 and 2 that meet at port 3333 of one host.    *)
(* Each of them opens a socket, makes a few calls, and ends with 0 or with *)
(* the code of the error that was thrown.                                  *)
(*   binder     ch01/08: binds an acceptor and does not listen             *)
(*   acceptor   ch01/12: accepts one client                                *)
(*   responder  ch02/12: accepts one client and answers its request        *)
(*   connector  ch01/10: connects                                          *)
(*   resolver   ch01/11: resolves a name, connects to one of its endpoints *)
(*   canceller  ch02/10: connects asynchronously, and cancels that         *)
(*   requester  ch02/11: connects, sends a request, waits for the response *)
(* What the last of each kind do once they are connected is the subject of *)
(* SocketShutdown, which extends this module.                              *)
(***************************************************************************)
EXTENDS Naturals, Sequences

Servers == {"binder", "acceptor", "responder"}
Clients == {"connector", "resolver", "canceller", "requester"}
Programs == Servers \cup Clients

CONSTANT Casts     \* sets of programs that are run together

ASSUME CastsAssumption == Casts \subseteq SUBSET Programs

VARIABLES
  pc,        \* what the main thread of each program does next
  port,      \* the server that has the port, or "free"
  backlog,   \* the clients that are connected and not accepted, in order
  peer,      \* peer[s]: the client that server s has accepted, or "nobody"
  broken,    \* the clients whose connection has been reset
  op,        \* the connect operation of the canceller, and its outcome
  worker,    \* the canceller's worker_thread
  told       \* the codes its callback has been called with

portVars == <<port, backlog, peer, broken>>
cancelVars == <<op, worker, told>>

Ended == {"ok", "error", "killed", "absent"}    \* or never begun
Outcomes == {"success", "failed", "aborted"}

\* The operating system may have a connection before the operation, which
\* completes in ios.run(), has: then it is "established".
UnderWay == {"pending", "established"}

LocalPortTypeOK ==
  /\ pc \in [Programs -> Ended \cup
               {"bind", "listen", "accept", "resolve", "connect", "spawn", "sleep",
                "join", "write", "shutdown", "read", "return"}]
  /\ port \in {"free"} \cup {s \in Servers : pc[s] \notin Ended}
  /\ backlog \in Seq(Clients)
  /\ peer \in [Servers -> Clients \cup {"nobody"}]
  /\ broken \subseteq Clients
  /\ op \in Outcomes \cup UnderWay \cup {"none", "reported", "destroyed"}
  /\ worker \in {"none", "running", "returned"}
  /\ told \in Seq(Outcomes)

LocalPortInit ==
  /\ \E cast \in Casts :
       pc = [p \in Programs |-> IF p \notin cast THEN "absent"
                                ELSE IF p \in Servers THEN "bind"
                                ELSE IF p = "resolver" THEN "resolve" ELSE "connect"]
  /\ port = "free"
  /\ backlog = <<>>
  /\ peer = [s \in Servers |-> "nobody"]
  /\ broken = {}
  /\ op = "none" /\ worker = "none" /\ told = <<>>

Queued(c) == \E i \in 1 .. Len(backlog) : backlog[i] = c
Accepted(c) == \E s \in Servers : peer[s] = c
Connected(c) == Queued(c) \/ Accepted(c) \/ c \in broken

\* The acceptor of s is in listening mode.
Listening == port # "free" /\ port # "binder" /\ pc[port] # "listen"

Goto(p, label) == pc' = [pc EXCEPT ![p] = label]

\* The program ends and its sockets are closed: if it has the port, whoever
\* has not been accepted is reset.
End(p, how) ==
  /\ Goto(p, how)
  /\ IF port = p
     THEN /\ port' = "free"
          /\ backlog' = <<>>
          /\ broken' = broken \cup {c \in Clients : Queued(c)}
     ELSE UNCHANGED <<port, backlog, broken>>
  /\ UNCHANGED peer

-----------------------------------------------------------------------------
(* The servers *)

Bind(s) ==
  /\ pc[s] = "bind"
  /\ IF port = "free"
     THEN /\ port' = s
          /\ Goto(s, IF s = "binder" THEN "return" ELSE "listen")
          /\ UNCHANGED <<backlog, peer, broken>>
     ELSE End(s, "error")
  /\ UNCHANGED cancelVars

Listen(s) ==
  /\ pc[s] = "listen"
  /\ Goto(s, "accept")
  /\ UNCHANGED <<portVars, cancelVars>>

Accept(s) ==
  /\ pc[s] = "accept"
  /\ backlog # <<>>
  /\ peer' = [peer EXCEPT ![s] = Head(backlog)]
  /\ backlog' = Tail(backlog)
  /\ Goto(s, IF s = "responder" THEN "read" ELSE "return")
  /\ UNCHANGED <<port, broken, cancelVars>>

\* A call of the set-up throws, or reports an error that is tested, for any
\* other reason.
SetUpFails(s) ==
  /\ pc[s] \in {"bind", "listen", "accept"}
  /\ End(s, "error")
  /\ UNCHANGED cancelVars

-----------------------------------------------------------------------------
(* The clients *)

Resolve ==
  /\ pc["resolver"] = "resolve"
  /\ Goto("resolver", "connect")
  /\ UNCHANGED <<portVars, cancelVars>>

\* Connected by the operating system; the server need not have accepted.
Connect(c) ==
  /\ c # "canceller" /\ pc[c] = "connect"
  /\ Listening
  /\ backlog' = Append(backlog, c)
  /\ Goto(c, IF c = "requester" THEN "write" ELSE "return")
  /\ UNCHANGED <<port, peer, broken, cancelVars>>

\* The name is not known, no endpoint can be reached, or no socket be had.
ConnectFails(c) ==
  /\ pc[c] \in {"resolve", "connect"}
  /\ End(c, "error")
  /\ UNCHANGED cancelVars

Return(p) ==
  /\ pc[p] = "return"
  /\ End(p, "ok")
  /\ UNCHANGED cancelVars

-----------------------------------------------------------------------------
(* The canceller: its main thread, its worker thread and its operation *)

AtCanceller(label) == pc["canceller"] = label

AsyncConnect ==
  /\ AtCanceller("connect")
  /\ Goto("canceller", "spawn")
  /\ op' = "pending"
  /\ UNCHANGED <<portVars, worker, told>>

SpawnWorker ==
  /\ AtCanceller("spawn")
  /\ Goto("canceller", "sleep")
  /\ worker' = "running"
  /\ UNCHANGED <<portVars, op, told>>

\* The std::thread cannot be made: ios is destroyed with the operation.
SpawnFails ==
  /\ AtCanceller("spawn")
  /\ End("canceller", "error")
  /\ op' = "destroyed"
  /\ UNCHANGED <<worker, told>>

\* Mutant: the operation is not cancelled.
CancelMissing ==
  /\ AtCanceller("sleep")
  /\ Goto("canceller", "join")
  /\ UNCHANGED <<portVars, cancelVars>>

\* After the sleep: there may be nothing left to cancel; or there may be a
\* connection already.
Cancel ==
  /\ AtCanceller("sleep")
  /\ Goto("canceller", "join")
  /\ op' = IF op \in UnderWay THEN "aborted" ELSE op
  /\ UNCHANGED <<portVars, worker, told>>

\* Mutant: main does not wait for the worker.
JoinDetaches ==
  /\ AtCanceller("join")
  /\ End("canceller", "ok")
  /\ UNCHANGED cancelVars

Join ==
  /\ AtCanceller("join")
  /\ worker = "returned"
  /\ End("canceller", "ok")
  /\ UNCHANGED cancelVars

\* The worker is in ios.run(), which calls the callback ...
Callback ==
  /\ worker = "running" /\ op \in Outcomes
  /\ told' = Append(told, op)
  /\ op' = "reported"
  /\ UNCHANGED <<pc, portVars, worker>>

\* ... and returns when no operation is left.
RunReturns ==
  /\ worker = "running" /\ op = "reported"
  /\ worker' = "returned"
  /\ UNCHANGED <<pc, portVars, op, told>>

OpConnects ==
  /\ op = "pending" /\ Listening
  /\ op' = "established"
  /\ backlog' = Append(backlog, "canceller")
  /\ UNCHANGED <<pc, port, peer, broken, worker, told>>

OpCompletes ==
  /\ worker = "running" /\ op = "established"
  /\ op' = "success" \/ (op' = "failed" /\ "canceller" \in broken)
  /\ UNCHANGED <<pc, portVars, worker, told>>

OpFails ==
  /\ op = "pending"
  /\ op' = "failed"
  /\ UNCHANGED <<pc, portVars, worker, told>>

-----------------------------------------------------------------------------

ServerSetUp(s) == Bind(s) \/ Listen(s) \/ Accept(s) \/ Return(s)
ClientSetUp(c) ==
  \/ Connect(c)
  \/ c # "canceller" /\ ConnectFails(c)
  \/ c = "resolver" /\ Resolve
  \/ Return(c)
CancellerMain == AsyncConnect \/ SpawnWorker \/ Cancel \/ Join
CancellerWorker == OpCompletes \/ Callback \/ RunReturns

\* What may happen at any time and need not.
SetUpMishap ==
  \/ \E s \in Servers : SetUpFails(s)
  \/ AtCanceller("connect") /\ ConnectFails("canceller")
  \/ SpawnFails
  \/ OpConnects
  \/ OpFails
=============================================================================
