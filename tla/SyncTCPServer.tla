---------------------------- MODULE SyncTCPServer ----------------------------
(***************************************************************************)
(* The synchronous servers, ch04/01_Sync_iterative_tcp_server.cpp and      *)
(* ch04/02_Sync_parallel_tcp_server.cpp.  One thread executes Server::Run: *)
(* it accepts a client and either handles it itself (iterative) or detaches*)
(* a thread that does (parallel).  Every call blocks, and the only way to  *)
(* end the loop is the flag m_stop, which is looked at between two calls.  *)
(***************************************************************************)
EXTENDS Naturals

CONSTANTS
  Conns,        \* the connections that clients make
  None,         \* no connection
  Kinds         \* which of the two programs to look at

ASSUME ConnsAssumption == None \notin Conns
ASSUME KindsAssumption == Kinds \subseteq {"iterative", "parallel"}

VARIABLES
  kind,         \* the program; it never changes
  mainPc,       \* what the main thread does next
  m_stop,       \* the flag of the Server
  runPc,        \* what the thread in Server::Run does next
  runConn,      \* the connection it has accepted
  m_acceptor,   \* the listening socket
  client,       \* client[c]: "away", "waiting", "accepted" or "closed"
  handler,      \* handler[c]: what HandleClient does next for c
  response,     \* response[c]: "none", "prepared" or "sent"
  late          \* how many clients have been accepted after m_stop was set

runVars == <<runPc, runConn, m_acceptor>>
serverVars == <<mainPc, m_stop, runVars, late>>
connVars == <<client, handler, response>>
vars == <<kind, serverVars, connVars>>

MainPcs == {"start", "serve", "join", "stopped", "destroyed", "ended",
            "terminated"}
RunPcs == {"none", "open", "check", "accept", "dispatch", "handling", "detached",
           "done"}
HandlerPcs == {"none", "read", "process", "write", "cleanup", "done"}

\* Acceptor::Accept has a socket from accept() until it returns: after
\* HandleClient, or after the thread that executes HandleClient has begun.
Holding == {"dispatch", "handling", "detached"}

TypeOK ==
  /\ kind \in {"iterative", "parallel"}
  /\ mainPc \in MainPcs
  /\ m_stop \in BOOLEAN
  /\ runPc \in RunPcs
  /\ runConn \in IF runPc \in Holding THEN Conns ELSE {None}
  /\ m_acceptor \in {"none", "open", "closed"}
  /\ client \in [Conns -> {"away", "waiting", "accepted", "closed"}]
  /\ handler \in [Conns -> HandlerPcs]
  /\ response \in [Conns -> {"none", "prepared", "sent"}]
  /\ late \in Nat

Init ==
  /\ kind \in Kinds
  /\ mainPc = "start"
  /\ m_stop = FALSE
  /\ runPc = "none"
  /\ runConn = None
  /\ m_acceptor = "none"
  /\ client = [c \in Conns |-> "away"]
  /\ handler = [c \in Conns |-> "none"]
  /\ response = [c \in Conns |-> "none"]
  /\ late = 0

-----------------------------------------------------------------------------
(* The main thread *)

Start ==
  /\ mainPc = "start"
  /\ mainPc' = "serve"
  /\ runPc' = "open"
  /\ UNCHANGED <<kind, m_stop, runConn, m_acceptor, late, connVars>>

\* No thread can be made: the exception is reported, and there is no server.
StartFails ==
  /\ mainPc = "start"
  /\ mainPc' = "ended"
  /\ UNCHANGED <<kind, m_stop, runVars, late, connVars>>

\* Server::Stop: the flag, and join().
Stop ==
  /\ mainPc = "serve"
  /\ m_stop' = TRUE
  /\ mainPc' = "join"
  /\ UNCHANGED <<kind, runVars, late, connVars>>

\* Mutant: Stop() does not wait for the thread.
JoinDetaches ==
  /\ mainPc = "join"
  /\ mainPc' = "stopped"
  /\ UNCHANGED <<kind, m_stop, runVars, late, connVars>>

Join ==
  /\ mainPc = "join"
  /\ runPc = "done"
  /\ mainPc' = "stopped"
  /\ UNCHANGED <<kind, m_stop, runVars, late, connVars>>

\* ~Server destroys m_ios; detached threads are where they are, and run until
\* main returns.
Destroy ==
  /\ mainPc = "stopped"
  /\ mainPc' = "destroyed"
  /\ UNCHANGED <<kind, m_stop, runVars, late, connVars>>

Return0 ==
  /\ mainPc = "destroyed"
  /\ mainPc' = "ended"
  /\ UNCHANGED <<kind, m_stop, runVars, late, connVars>>

-----------------------------------------------------------------------------
(* Server::Run *)

\* The Acceptor is made: bind and listen.
OpenAcceptor ==
  /\ runPc = "open"
  /\ m_acceptor' = "open"
  /\ runPc' = "check"
  /\ UNCHANGED <<kind, mainPc, m_stop, runConn, late, connVars>>

\* The port is taken, accept fails, or no thread can be made: nothing catches
\* the exception in this thread, and the program is terminated.
RunThrows ==
  /\ \/ runPc \in {"open", "accept"}
     \/ runPc = "dispatch" /\ kind = "parallel"
  /\ mainPc' = "terminated"
  /\ UNCHANGED <<kind, m_stop, runVars, late, connVars>>

\* Mutant: the loop does not look at m_stop.
CheckNothing ==
  /\ runPc = "check"
  /\ runPc' = "accept"
  /\ UNCHANGED <<kind, mainPc, m_stop, runConn, m_acceptor, late, connVars>>

\* while (!m_stop.load())
CheckStop ==
  /\ runPc = "check"
  /\ runPc' = IF m_stop THEN "done" ELSE "accept"
  /\ m_acceptor' = IF m_stop THEN "closed" ELSE m_acceptor
  /\ UNCHANGED <<kind, mainPc, m_stop, runConn, late, connVars>>

\* m_acceptor.accept returns with a client.
Accept(c) ==
  /\ runPc = "accept"
  /\ client[c] = "waiting"
  /\ client' = [client EXCEPT ![c] = "accepted"]
  /\ runConn' = c
  /\ runPc' = "dispatch"
  /\ late' = IF m_stop THEN late + 1 ELSE late
  /\ UNCHANGED <<kind, mainPc, m_stop, m_acceptor, handler, response>>

\* Mutant: the parallel server joins the thread instead of detaching it.
DispatchJoins ==
  /\ runPc = "dispatch"
  /\ handler' = [handler EXCEPT ![runConn] = "read"]
  /\ runPc' = "handling"
  /\ UNCHANGED <<kind, mainPc, m_stop, runConn, m_acceptor, late, client,
                 response>>

\* Mutant: the iterative server detaches a thread.
DispatchDetaches ==
  /\ runPc = "dispatch"
  /\ handler' = [handler EXCEPT ![runConn] = "read"]
  /\ runPc' = "detached"
  /\ UNCHANGED <<kind, mainPc, m_stop, runConn, m_acceptor, late, client,
                 response>>

\* HandleClient begins: called by this thread, which then waits for it, or by
\* a new thread, which is detached.
Dispatch ==
  /\ runPc = "dispatch"
  /\ handler' = [handler EXCEPT ![runConn] = "read"]
  /\ runPc' = IF kind = "iterative" THEN "handling" ELSE "detached"
  /\ UNCHANGED <<kind, mainPc, m_stop, runConn, m_acceptor, late, client,
                 response>>

\* Mutant: the socket of the client that has been served is kept.
ReturnKeepsConn ==
  /\ runPc = "detached" \/ (runPc = "handling" /\ handler[runConn] = "done")
  /\ runPc' = "check"
  /\ UNCHANGED <<kind, mainPc, m_stop, runConn, m_acceptor, late, connVars>>

\* Accept returns, when HandleClient has in the iterative server, and at any
\* time in the parallel one.  Its socket goes out of scope, and is closed
\* unless the detached thread shares it.
Return ==
  /\ runPc = "detached" \/ (runPc = "handling" /\ handler[runConn] = "done")
  /\ runPc' = "check"
  /\ runConn' = None
  /\ client' = IF handler[runConn] = "done"
               THEN [client EXCEPT ![runConn] = "closed"] ELSE client
  /\ UNCHANGED <<kind, mainPc, m_stop, m_acceptor, late, handler, response>>

-----------------------------------------------------------------------------
(* Service::HandleClient for connection c *)

HandlerGoto(c, pc) ==
  /\ handler' = [handler EXCEPT ![c] = pc]
  /\ UNCHANGED <<kind, serverVars>>

\* Mutant: the exception leaves HandleClient before the clean-up.
ReadRequestEscapes(c) ==
  /\ handler[c] = "read"
  /\ \E next \in {"process", "done"} : HandlerGoto(c, next)
  /\ UNCHANGED <<client, response>>

\* read_until returns with the request, or throws when the client hangs up;
\* so may write.  The exception is caught and logged.
ReadRequest(c) ==
  /\ handler[c] = "read"
  /\ \E next \in {"process", "cleanup"} : HandlerGoto(c, next)
  /\ UNCHANGED <<client, response>>

\* Mutant: the response is sent before the request is processed.
ProcessRequestSkipped(c) ==
  /\ handler[c] = "process"
  /\ HandlerGoto(c, "write")
  /\ UNCHANGED <<client, response>>

ProcessRequest(c) ==
  /\ handler[c] = "process"
  /\ HandlerGoto(c, "write")
  /\ response' = [response EXCEPT ![c] = "prepared"]
  /\ UNCHANGED client

WriteResponse(c) ==
  /\ handler[c] = "write"
  /\ HandlerGoto(c, "cleanup")
  /\ \E r \in {"sent", response[c]} : response' = [response EXCEPT ![c] = r]
  /\ UNCHANGED client

\* Mutant: the socket is not closed.
CleanUpLeaks(c) ==
  /\ handler[c] = "cleanup"
  /\ HandlerGoto(c, "done")
  /\ UNCHANGED <<client, response>>

\* HandleClient returns (and the parallel server's Service is deleted): the
\* socket of the thread is closed unless Accept, not yet left, has it as well.
CleanUp(c) ==
  /\ handler[c] = "cleanup"
  /\ HandlerGoto(c, "done")
  /\ client' = IF runConn = c THEN client ELSE [client EXCEPT ![c] = "closed"]
  /\ UNCHANGED response

\* A client connects while the server listens.
Arrive(c) ==
  /\ client[c] = "away"
  /\ m_acceptor = "open"
  /\ client' = [client EXCEPT ![c] = "waiting"]
  /\ UNCHANGED <<kind, serverVars, handler, response>>

-----------------------------------------------------------------------------

MainContinues == Start \/ StartFails \/ Join \/ Destroy \/ Return0

RunStep ==
  \/ OpenAcceptor
  \/ CheckStop
  \/ \E c \in Conns : Accept(c)
  \/ Dispatch
  \/ Return

HandlerContinues(c) == ProcessRequest(c) \/ WriteResponse(c) \/ CleanUp(c)

\* The process is gone, and its detached threads with it.
Ended == mainPc \in {"ended", "terminated"}

Next ==
  \/ /\ ~Ended
     /\ \/ MainContinues
        \/ Stop
        \/ RunStep
        \/ RunThrows
        \/ \E c \in Conns : Arrive(c) \/ ReadRequest(c) \/ HandlerContinues(c)
  \/ Ended /\ UNCHANGED vars

Spec == Init /\ [][Next]_vars

(***************************************************************************)
(* Threads that can go on do.  Nothing makes a client connect or send its  *)
(* request, or main stop the server.                                       *)
(***************************************************************************)
Fairness ==
  /\ WF_vars(~Ended /\ MainContinues)
  /\ WF_vars(~Ended /\ RunStep)
  /\ \A c \in Conns : WF_vars(~Ended /\ HandlerContinues(c))

FairSpec == Spec /\ Fairness

-----------------------------------------------------------------------------
(* Safety *)

(***************************************************************************)
(* src/Readme.org:896 - the iterative server does not start serving the    *)
(* next client before it completes serving the one it is serving; and none *)
(* is being served when Stop() has returned and ~Server destroys the       *)
(* io_service that every socket refers to.  Of the parallel server neither *)
(* is true: a detached thread may still be reading.                        *)
(***************************************************************************)
Serial ==
  kind = "iterative" =>
    \A c \in Conns : client[c] = "accepted" =>
      /\ \A d \in Conns : client[d] = "accepted" => c = d
      /\ mainPc \notin {"stopped", "destroyed", "ended"}

\* m_stop is looked at before every accept: only the accept that Run is
\* already waiting in, or on its way to, can take a client after Stop() has
\* set it.
StopTakesEffect == late <= 1

\* Every accepted connection is in the hands of Accept, of HandleClient, or of
\* both, the last of which will close it; it is in theirs alone, and it is not
\* closed before, nor handled twice.
SocketOwned ==
  \A c \in Conns :
    /\ client[c] = "accepted" <=>
         \/ runConn = c
         \/ handler[c] \in HandlerPcs \ {"none", "done"}
    /\ runConn = c => (runPc = "dispatch" <=> handler[c] = "none")

Phase ==
  [c \in Conns |->
     IF client[c] # "accepted" THEN client[c]
     ELSE CASE response[c] = "none" -> "open"
            [] response[c] = "prepared" -> "processed"
            [] response[c] = "sent" -> "answered"]

Service == INSTANCE TCPService WITH phase <- Phase

\* Both servers accept, serve and close each connection in this order and
\* once, the response after the request and its processing.
ServiceContract == Service!Spec

-----------------------------------------------------------------------------
(* Liveness, under FairSpec *)

ClientsSend == \A c \in Conns : WF_vars(~Ended /\ ReadRequest(c))

(***************************************************************************)
(* src/Readme.org:945 - a single client that connects and does not send is *)
(* enough to block the single-threaded server.  It does not block the      *)
(* parallel one: a client that sends or hangs up is served there, and his  *)
(* socket closed, whatever the others do.  In the iterative server all     *)
(* have to.  A server may be stopped or terminated.                        *)
(***************************************************************************)
ClientServed ==
  \A c \in Conns :
    /\ WF_vars(~Ended /\ ReadRequest(c))
    /\ kind = "parallel" \/ ClientsSend
    =>
    (client[c] = "waiting" ~> client[c] = "closed" \/ m_stop \/ Ended)

\* Stop() returns when another client connects and sends its request, which
\* is then served, the last one.
StopReturnsAfterClient ==
  ClientsSend =>
    (mainPc = "join" /\ (\E c \in Conns : client[c] = "waiting") ~> Ended)

(***************************************************************************)
(* src/Readme.org:962, :982 - the loop runs "until the server is stopped": *)
(* once Stop() has been called the loop ends and Stop() returns.           *)
(***************************************************************************)
StopReturns == mainPc = "join" ~> Ended
=============================================================================
