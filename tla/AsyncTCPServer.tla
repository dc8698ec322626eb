--------------------------- MODULE AsyncTCPServer ---------------------------
(***************************************************************************)
(* The asynchronous server of ch04/03_Async_parallel_tcp_server.cpp.  An   *)
(* Acceptor keeps one accept operation under way; each connection gets a   *)
(* Service object on the heap, which reads the request, processes it,      *)
(* writes the response and deletes itself.  All handlers run in a pool of  *)
(* threads that call io_service::run(); the main thread starts the server  *)
(* and stops it.                                                           *)
(*                                                                         *)
(* A step is the code between two points at which another thread can       *)
(* interfere: starting an asynchronous operation, whose handler may run in *)
(* another thread at once, or touching m_isStopped or the io_service.      *)
(***************************************************************************)
EXTENDS Naturals

CONSTANTS
  Threads,      \* the thread pool
  Conns,        \* the connections that clients make
  None,         \* no connection
  MaxErrors     \* how often an accept operation fails

ASSUME PoolAssumption == Threads # {}     \* the assertion in Server::Start
ASSUME ConnsAssumption == None \notin Conns
ASSUME BoundAssumption == MaxErrors \in Nat

VARIABLES
  mainPc,       \* what the main thread does next
  m_isStopped,  \* the Acceptor's flag
  iosStopped,   \* m_ios.stop() has been called
  m_acceptor,   \* the listening socket
  accept,       \* the accept operation, see OpStates
  acceptSock,   \* the connection it has taken
  acceptErrors, \* how often accepting has failed
  sock,         \* sock[t]: the connection whose socket onAccept, in pool
                \* thread t, shares with the Service it has made
  client,       \* client[c]: "away", "waiting" in the backlog, "accepted"
                \* by the operating system, or "closed" by the server
  service,      \* service[c]: the Service object of connection c
  m_response,   \* m_response[c]: ProcessRequest has prepared the response
  sent,         \* sent[c]: the response has been sent
  op,           \* op[c]: the asynchronous operation on m_sock
  opState,      \* opState[c]: how far it is
  thPc,         \* what a pool thread does next
  thConn        \* the connection it works on

mainVars == <<mainPc, m_isStopped, iosStopped>>
acceptVars == <<m_acceptor, accept, acceptSock, acceptErrors, sock>>
connVars == <<client, service, m_response, sent>>
opVars == <<op, opState>>
thVars == <<thPc, thConn>>

vars == <<mainVars, acceptVars, connVars, opVars, thVars>>

MainPcs == {"start", "spawn", "serve", "stop", "join", "stopped",
            "ended", "terminated"}

\* The server exists.
Alive == mainPc \notin {"ended", "terminated"}

ThPcs == {"none", "run", "startHandling", "recheck", "initAccept", "return",
          "processRequest", "startWrite", "finish", "exited"}

\* "pending": the operating system has the operation; then its handler is in
\* the queue, with or without an error code.
Ready == {"ok", "error"}
OpStates == {"none", "pending"} \cup Ready

TypeOK ==
  /\ mainPc \in MainPcs
  /\ m_isStopped \in BOOLEAN
  /\ iosStopped \in BOOLEAN
  /\ m_acceptor \in {"none", "open", "closed"}
  /\ accept \in OpStates
  /\ acceptSock \in Conns \cup {None}
  /\ acceptErrors \in 0 .. MaxErrors
  /\ sock \in [Threads -> Conns \cup {None}]
  /\ client \in [Conns -> {"away", "waiting", "accepted", "closed"}]
  /\ service \in [Conns -> {"none", "alive", "deleted"}]
  /\ m_response \in [Conns -> BOOLEAN]
  /\ sent \in [Conns -> BOOLEAN]
  /\ op \in [Conns -> {"none", "read", "write"}]
  /\ opState \in [Conns -> OpStates]
  /\ thPc \in [Threads -> ThPcs]
  /\ thConn \in [Threads -> Conns \cup {None}]

Init ==
  /\ mainPc = "start"
  /\ m_isStopped = FALSE
  /\ iosStopped = FALSE
  /\ m_acceptor = "none"
  /\ accept = "none"
  /\ acceptSock = None
  /\ acceptErrors = 0
  /\ sock = [t \in Threads |-> None]
  /\ client = [c \in Conns |-> "away"]
  /\ service = [c \in Conns |-> "none"]
  /\ m_response = [c \in Conns |-> FALSE]
  /\ sent = [c \in Conns |-> FALSE]
  /\ op = [c \in Conns |-> "none"]
  /\ opState = [c \in Conns |-> "none"]
  /\ thPc = [t \in Threads |-> "none"]
  /\ thConn = [t \in Threads |-> None]

-----------------------------------------------------------------------------
(* Helpers *)

Goto(t, pc) == thPc' = [thPc EXCEPT ![t] = pc] /\ UNCHANGED thConn

\* Thread t takes a handler from the queue; once the io_service is stopped it
\* takes no more.
Take(t, c, pc) ==
  /\ thPc[t] = "run"
  /\ ~iosStopped
  /\ thPc' = [thPc EXCEPT ![t] = pc]
  /\ thConn' = [thConn EXCEPT ![t] = c]

\* Thread t is done with its connection and goes on at pc.
Leave(t, pc) ==
  /\ thPc' = [thPc EXCEPT ![t] = pc]
  /\ thConn' = [thConn EXCEPT ![t] = None]

StartOp(c, kind) ==
  /\ op' = [op EXCEPT ![c] = kind]
  /\ opState' = [opState EXCEPT ![c] = "pending"]

EndOp(c) ==
  /\ op' = [op EXCEPT ![c] = "none"]
  /\ opState' = [opState EXCEPT ![c] = "none"]

\* A socket is closed with the last shared_ptr to it.  Beside m_sock of the
\* Service there are the parameter of onAccept and the capture of the handler
\* that calls it, both until onAccept has returned.
Shared(c) == \E t \in Threads : sock[t] = c

-----------------------------------------------------------------------------
(* The main thread *)

\* Server::Start up to the thread pool: bind, listen, the first InitAccept.
Start ==
  /\ mainPc = "start"
  /\ m_acceptor' = "open"
  /\ accept' = "pending"
  /\ mainPc' = "spawn"
  /\ UNCHANGED <<m_isStopped, iosStopped, acceptSock, acceptErrors, sock,
                 connVars, opVars, thVars>>

\* The port is taken: the exception is reported, and there is no server.
StartFails ==
  /\ mainPc = "start"
  /\ mainPc' = "ended"
  /\ UNCHANGED <<m_isStopped, iosStopped, acceptVars, connVars, opVars, thVars>>

\* The loop that fills the thread pool; the threads run at once.
Spawn ==
  /\ mainPc = "spawn"
  /\ \E t \in Threads : thPc[t] = "none" /\ Goto(t, "run")
  /\ mainPc' = IF \A u \in Threads : thPc'[u] # "none" THEN "serve" ELSE "spawn"
  /\ UNCHANGED <<m_isStopped, iosStopped, acceptVars, connVars, opVars>>

\* Server::Stop: acc->Stop(), m_ios.stop(), and join().
AcceptorStop ==
  /\ mainPc = "serve"
  /\ m_isStopped' = TRUE
  /\ mainPc' = "stop"
  /\ UNCHANGED <<iosStopped, acceptVars, connVars, opVars, thVars>>

\* Mutant: m_ios.stop() is forgotten.
IosStopMissing ==
  /\ mainPc = "stop"
  /\ mainPc' = "join"
  /\ UNCHANGED <<m_isStopped, iosStopped, acceptVars, connVars, opVars, thVars>>

IosStop ==
  /\ mainPc = "stop"
  /\ iosStopped' = TRUE
  /\ mainPc' = "join"
  /\ UNCHANGED <<m_isStopped, acceptVars, connVars, opVars, thVars>>

Join ==
  /\ mainPc = "join"
  /\ \A t \in Threads : thPc[t] = "exited"
  /\ mainPc' = "stopped"
  /\ UNCHANGED <<m_isStopped, iosStopped, acceptVars, connVars, opVars, thVars>>

(***************************************************************************)
(* The server is destroyed: the acceptor is closed, and every handler that *)
(* was pending or queued is destroyed without being called.  A queued      *)
(* accept handler owns its socket, which is closed with it; the read and   *)
(* write handlers only hold a raw pointer to their Service.                *)
(***************************************************************************)
Destruction ==
  /\ m_acceptor' = "closed"
  /\ accept' = "none"
  /\ acceptSock' = None
  /\ client' = [c \in Conns |-> IF c = acceptSock THEN "closed" ELSE client[c]]
  /\ op' = [c \in Conns |-> "none"]
  /\ opState' = [c \in Conns |-> "none"]
  /\ mainPc' = "ended"
  /\ UNCHANGED <<m_isStopped, iosStopped, acceptErrors, sock, service,
                 m_response, sent, thVars>>

Destroy == mainPc = "stopped" /\ Destruction

\* Mutant: the exception is reported and the server is kept.
SpawnFailsKept ==
  /\ mainPc = "spawn"
  /\ mainPc' = "ended"
  /\ UNCHANGED <<m_isStopped, iosStopped, acceptVars, connVars, opVars, thVars>>

\* A thread cannot be made: the exception leaves Start, and the server is
\* destroyed.  If it has joinable threads, that terminates the program.
SpawnFails ==
  /\ mainPc = "spawn"
  /\ IF \A t \in Threads : thPc[t] = "none" THEN Destruction
     ELSE /\ mainPc' = "terminated"
          /\ UNCHANGED <<m_isStopped, iosStopped, acceptVars, connVars, opVars,
                         thVars>>

-----------------------------------------------------------------------------
(* The Acceptor, in pool thread t *)

\* onAccept without an error: a Service is made for the connection.
OnAccept(t) ==
  /\ accept = "ok"
  /\ Take(t, acceptSock, "startHandling")
  /\ service' = [service EXCEPT ![acceptSock] = "alive"]
  /\ sock' = [sock EXCEPT ![t] = acceptSock]
  /\ accept' = "none"
  /\ acceptSock' = None
  /\ UNCHANGED <<mainVars, m_acceptor, acceptErrors, client, m_response, sent,
                 opVars>>

\* Mutant: onAccept returns after it has started the Service.
StartHandlingReturns(t) ==
  /\ thPc[t] = "startHandling"
  /\ StartOp(thConn[t], "read")
  /\ Leave(t, "return")
  /\ UNCHANGED <<mainVars, acceptVars, connVars>>

\* Service::StartHandling.  From here on the Service is in the hands of
\* whichever thread runs the read handler.
StartHandling(t) ==
  /\ thPc[t] = "startHandling"
  /\ StartOp(thConn[t], "read")
  /\ Leave(t, "recheck")
  /\ UNCHANGED <<mainVars, acceptVars, connVars>>

\* Mutant: an error of the accept operation is thrown.
OnAcceptErrorThrows(t) ==
  /\ accept = "error"
  /\ Take(t, None, "terminated")
  /\ accept' = "none"
  /\ UNCHANGED <<mainVars, m_acceptor, acceptSock, acceptErrors, sock,
                 connVars, opVars>>

\* Mutant: onAccept returns on an error.
OnAcceptErrorReturns(t) ==
  /\ accept = "error"
  /\ Take(t, None, "run")
  /\ accept' = "none"
  /\ UNCHANGED <<mainVars, m_acceptor, acceptSock, acceptErrors, sock,
                 connVars, opVars>>

\* onAccept with an error, which is logged.
OnAcceptError(t) ==
  /\ accept = "error"
  /\ Take(t, None, "recheck")
  /\ accept' = "none"
  /\ UNCHANGED <<mainVars, m_acceptor, acceptSock, acceptErrors, sock,
                 connVars, opVars>>

\* The end of onAccept: m_isStopped is read; the answer may be out of date
\* when InitAccept is called.
AcceptNext(t) ==
  /\ thPc[t] = "recheck"
  /\ ~m_isStopped
  /\ Goto(t, "initAccept")
  /\ UNCHANGED <<mainVars, acceptVars, connVars, opVars>>

CloseAcceptor(t) ==
  /\ thPc[t] = "recheck"
  /\ m_isStopped
  /\ m_acceptor' = "closed"
  /\ Goto(t, "return")
  /\ UNCHANGED <<mainVars, accept, acceptSock, acceptErrors, sock, connVars,
                 opVars>>

InitAccept(t) ==
  /\ thPc[t] = "initAccept"
  /\ accept' = "pending"
  /\ Goto(t, "return")
  /\ UNCHANGED <<mainVars, m_acceptor, acceptSock, acceptErrors, sock,
                 connVars, opVars>>

\* onAccept is left, and its hold on the socket released: the Service may have
\* deleted itself by now.  The next accept may be in another thread's hands.
ReturnFromAccept(t) ==
  /\ thPc[t] = "return"
  /\ client' = [c \in Conns |-> IF c = sock[t] /\ service[c] = "deleted"
                                THEN "closed" ELSE client[c]]
  /\ sock' = [sock EXCEPT ![t] = None]
  /\ Goto(t, "run")
  /\ UNCHANGED <<mainVars, m_acceptor, accept, acceptSock, acceptErrors,
                 service, m_response, sent, opVars>>

-----------------------------------------------------------------------------
(* The Service of a connection, in pool thread t *)

\* Mutant: the response is written before the request is processed.
OnRequestUnprocessed(t, c) ==
  /\ op[c] = "read" /\ opState[c] = "ok"
  /\ Take(t, c, "startWrite")
  /\ EndOp(c)
  /\ UNCHANGED <<mainVars, acceptVars, connVars>>

\* onRequestReceived
OnRequest(t, c) ==
  /\ op[c] = "read" /\ opState[c] = "ok"
  /\ Take(t, c, "processRequest")
  /\ EndOp(c)
  /\ UNCHANGED <<mainVars, acceptVars, connVars>>

\* Mutant: onRequestReceived returns on an error without onFinish.
OnErrorReturns(t, c) ==
  /\ opState[c] = "error"
  /\ Take(t, None, "run")
  /\ EndOp(c)
  /\ UNCHANGED <<mainVars, acceptVars, connVars>>

\* onRequestReceived and onResponseSent with an error go on to onFinish, and
\* so does onResponseSent without one.
OnError(t, c) ==
  /\ opState[c] = "error"
  /\ Take(t, c, "finish")
  /\ EndOp(c)
  /\ UNCHANGED <<mainVars, acceptVars, connVars>>

OnResponseSent(t, c) ==
  /\ op[c] = "write" /\ opState[c] = "ok"
  /\ Take(t, c, "finish")
  /\ EndOp(c)
  /\ UNCHANGED <<mainVars, acceptVars, connVars>>

ProcessRequest(t) ==
  /\ thPc[t] = "processRequest"
  /\ m_response' = [m_response EXCEPT ![thConn[t]] = TRUE]
  /\ Goto(t, "startWrite")
  /\ UNCHANGED <<mainVars, acceptVars, client, service, sent, opVars>>

AsyncWrite(t) ==
  /\ thPc[t] = "startWrite"
  /\ StartOp(thConn[t], "write")
  /\ Leave(t, "run")
  /\ UNCHANGED <<mainVars, acceptVars, connVars>>

\* Mutant: onRequestReceived lacks the return after onFinish.
OnFinishGoesOn(t) ==
  /\ thPc[t] = "finish"
  /\ service' = [service EXCEPT ![thConn[t]] = "deleted"]
  /\ client' = IF Shared(thConn[t]) THEN client
               ELSE [client EXCEPT ![thConn[t]] = "closed"]
  /\ IF m_response[thConn[t]] THEN Leave(t, "run")
                              ELSE Goto(t, "processRequest")
  /\ UNCHANGED <<mainVars, acceptVars, m_response, sent, opVars>>

\* Mutant: the thread leaves the pool with the client it has served.
OnFinishExits(t) ==
  /\ thPc[t] = "finish"
  /\ service' = [service EXCEPT ![thConn[t]] = "deleted"]
  /\ client' = IF Shared(thConn[t]) THEN client
               ELSE [client EXCEPT ![thConn[t]] = "closed"]
  /\ Leave(t, "exited")
  /\ UNCHANGED <<mainVars, acceptVars, m_response, sent, opVars>>

\* onFinish: delete this, which closes the socket unless onAccept, in another
\* thread, has not been left yet.
OnFinish(t) ==
  /\ thPc[t] = "finish"
  /\ service' = [service EXCEPT ![thConn[t]] = "deleted"]
  /\ client' = IF Shared(thConn[t]) THEN client
               ELSE [client EXCEPT ![thConn[t]] = "closed"]
  /\ Leave(t, "run")
  /\ UNCHANGED <<mainVars, acceptVars, m_response, sent, opVars>>

-----------------------------------------------------------------------------
(* io_service::run() and the operating system *)

Exit(t) ==
  /\ thPc[t] = "run"
  /\ iosStopped
  /\ Goto(t, "exited")
  /\ UNCHANGED <<mainVars, acceptVars, connVars, opVars>>

\* A client connects while the server listens.
Arrive(c) ==
  /\ client[c] = "away"
  /\ m_acceptor = "open"
  /\ client' = [client EXCEPT ![c] = "waiting"]
  /\ UNCHANGED <<mainVars, acceptVars, service, m_response, sent, opVars,
                 thVars>>

\* An operation is tried at once when it is started, and later by the reactor
\* that the pool threads run: nothing completes when they have been joined.
Reactor == mainPc # "stopped"

AcceptCompletes(c) ==
  /\ accept = "pending" /\ m_acceptor = "open"
  /\ Reactor
  /\ client[c] = "waiting"
  /\ client' = [client EXCEPT ![c] = "accepted"]
  /\ accept' = "ok"
  /\ acceptSock' = c
  /\ UNCHANGED <<mainVars, m_acceptor, acceptErrors, sock, service, m_response,
                 sent, opVars, thVars>>

AcceptFails ==
  /\ accept = "pending"
  /\ Reactor
  /\ acceptErrors < MaxErrors
  /\ accept' = "error"
  /\ acceptErrors' = acceptErrors + 1
  /\ UNCHANGED <<mainVars, m_acceptor, acceptSock, sock, connVars, opVars,
                 thVars>>

\* The request has been received or the response sent, or the connection
\* has failed.
Complete(c, ec) ==
  /\ opState[c] = "pending"
  /\ Reactor
  /\ opState' = [opState EXCEPT ![c] = ec]
  /\ sent' = [sent EXCEPT ![c] = op[c] = "write" /\ ec = "ok"]
  /\ UNCHANGED <<mainVars, acceptVars, client, service, m_response, op, thVars>>

-----------------------------------------------------------------------------

MainContinues == Start \/ StartFails \/ Spawn \/ IosStop \/ Join \/ Destroy

DispatchAccept(t) == OnAccept(t) \/ OnAcceptError(t)

Dispatch(t, c) == OnRequest(t, c) \/ OnError(t, c) \/ OnResponseSent(t, c)

HandlerStep(t) ==
  \/ StartHandling(t)
  \/ AcceptNext(t)
  \/ CloseAcceptor(t)
  \/ InitAccept(t)
  \/ ReturnFromAccept(t)
  \/ ProcessRequest(t)
  \/ AsyncWrite(t)
  \/ OnFinish(t)
  \/ Exit(t)

Network ==
  \/ \E c \in Conns :
       \/ Arrive(c)
       \/ AcceptCompletes(c)
       \/ \E ec \in Ready : Complete(c, ec)
  \/ AcceptFails

Finished == ~Alive /\ UNCHANGED vars

Next ==
  \/ /\ Alive
     /\ \/ MainContinues
        \/ SpawnFails
        \/ AcceptorStop
        \/ \E t \in Threads :
             \/ DispatchAccept(t)
             \/ HandlerStep(t)
             \/ \E c \in Conns : Dispatch(t, c)
        \/ Network
  \/ Finished

Spec == Init /\ [][Next]_vars

(***************************************************************************)
(* Threads that can go on do, the queue of the io_service is served, and   *)
(* the operating system accepts who waits and sends what is written (or    *)
(* fails to).  Nothing makes a client send its request, nor main stop the  *)
(* server.                                                                 *)
(***************************************************************************)
Fairness ==
  /\ WF_vars(Alive /\ MainContinues)
  /\ \A t \in Threads : WF_vars(Alive /\ HandlerStep(t))
  /\ WF_vars(Alive /\ \E t \in Threads : DispatchAccept(t))
  /\ WF_vars(Alive /\ \E c \in Conns : AcceptCompletes(c))
  /\ \A c \in Conns :
       /\ WF_vars(Alive /\ \E t \in Threads : Dispatch(t, c))
       /\ WF_vars(Alive /\ op[c] = "write" /\ \E ec \in Ready : Complete(c, ec))

FairSpec == Spec /\ Fairness

-----------------------------------------------------------------------------
(* Safety *)

(***************************************************************************)
(* Nothing uses a Service, its buffers or its socket after "delete this",  *)
(* although the handlers hold raw pointers: an operation is under way on,  *)
(* or a thread works for, a Service that is alive only, and a thread that  *)
(* may delete it is the only user it has.                                  *)
(***************************************************************************)
ServiceAlive ==
  \A c \in Conns :
    /\ op[c] # "none" => service[c] = "alive"
    /\ \A t \in Threads : thConn[t] = c =>
         /\ service[c] = "alive"
         /\ op[c] = "none"
         /\ \A u \in Threads : thConn[u] = c => u = t

\* Thread t executes onAccept and has yet to start the next accept operation or
\* to close the acceptor.
InOnAccept(t) == thPc[t] \in {"startHandling", "recheck", "initAccept"}

(***************************************************************************)
(* The server never stops accepting by accident, and never accepts twice   *)
(* at a time with the one acceptor: either one accept operation is under   *)
(* way or queued, or one thread is in onAccept and will start the next, or *)
(* the acceptor has been stopped and closed.  It is closed without having  *)
(* been stopped only when the server is gone, and a server that is gone    *)
(* does not listen.                                                        *)
(***************************************************************************)
AcceptChain ==
  /\ \A t \in Threads : InOnAccept(t) =>
       /\ accept = "none"
       /\ \A u \in Threads : InOnAccept(u) => u = t
  /\ m_acceptor = "open" /\ accept = "none" => \E t \in Threads : InOnAccept(t)
  /\ m_acceptor = "closed" => m_isStopped \/ mainPc = "ended"
  /\ m_acceptor = "open" => mainPc # "ended"

(***************************************************************************)
(* As long as the server exists, an accepted socket has an owner who will  *)
(* close it: the queued accept handler, an operation of its Service, a     *)
(* thread that works for the Service, or one that has not left the onAccept*)
(* that made it, even if the Service is gone; and none of these is left    *)
(* with a socket that has been closed.                                     *)
(***************************************************************************)
SocketOwned ==
  mainPc # "ended" =>
    \A c \in Conns :
      client[c] = "accepted" <=>
        \/ accept = "ok" /\ acceptSock = c
        \/ op[c] # "none"
        \/ \E t \in Threads : thConn[t] = c \/ sock[t] = c

-----------------------------------------------------------------------------
(* The server implements TCPService. *)

Phase ==
  [c \in Conns |-> IF client[c] # "accepted" THEN client[c]
                   ELSE IF sent[c] THEN "answered"
                   ELSE IF m_response[c] THEN "processed" ELSE "open"]

Service == INSTANCE TCPService WITH phase <- Phase

\* Each connection is accepted, served and closed in this order and once.
ServiceContract == Service!Spec

-----------------------------------------------------------------------------
(* Liveness, under FairSpec *)

ClientsSend ==
  \A c \in Conns : WF_vars(Alive /\ \E ec \in Ready : Complete(c, ec))

\* If clients send their requests or hang up, everyone who connects is served
\* and his socket closed, unless the server is stopped or could not be
\* started; one thread is enough.
ClientServed ==
  ClientsSend =>
    \A c \in Conns :
      client[c] = "waiting" ~>
        client[c] = "closed" \/ iosStopped \/ ~Alive

\* Stop() returns whatever the clients do, even if they never send anything.
StopReturns == mainPc = "stop" ~> mainPc = "ended"

(***************************************************************************)
(* src/Readme.org:754 - a socket should be returned to the operating       *)
(* system after it has been used, otherwise a resource leak occurs: when   *)
(* the server is gone, no accepted socket is left.                         *)
(***************************************************************************)
SocketsReturned == mainPc = "ended" => \A c \in Conns : client[c] # "accepted"
=============================================================================
