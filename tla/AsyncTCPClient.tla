--------------------------- MODULE AsyncTCPClient ---------------------------
(***************************************************************************)
(* The asynchronous TCP client of ch03/04_Async_tcp_client_mt.cpp (and of  *)
(* ch03/03_Async_tcp_client.cpp, which is the same class with one I/O      *)
(* thread).  The UI thread issues, cancels and finally closes; a pool of   *)
(* threads runs io_service::run() and executes the completion handlers;    *)
(* the operating system completes the socket operations.                   *)
(*                                                                         *)
(* A step is the code between two points at which another thread can       *)
(* interfere: taking a mutex, starting an asynchronous operation, or       *)
(* touching a session member that the UI thread also touches.              *)
(***************************************************************************)
EXTENDS Naturals

CONSTANTS
  Threads,      \* the I/O threads (main creates 4)
  Sessions,     \* the requests the user may issue, one Session object each
  Ids,          \* the request ids the user may choose
  None,         \* no thread, no session
  UI,           \* the user interface thread
  MaxSome,      \* how often one composed write or read completes in part
  CancelTwice,  \* may the user cancel a request he has already cancelled?
  ReuseIds      \* may the user give an outstanding request's id to another?

ASSUME ThreadsAssumption ==
  /\ Threads # {}
  /\ Ids # {}
  /\ UI \notin Threads
  /\ None \notin Threads \cup Sessions \cup {UI}
ASSUME BoundAssumption == MaxSome \in Nat
ASSUME UserAssumption == CancelTwice \in BOOLEAN /\ ReuseIds \in BOOLEAN

VARIABLES
  uiPc,                     \* what the UI thread does next
  uiSession,                \* the session it works on
  m_work,                   \* the io_service::work object exists
  m_active_sessions,        \* request id -> session
  m_active_sessions_guard,  \* owner of that mutex
  m_id, m_ec, m_response,   \* members of a Session ...
  m_was_cancelled,
  m_cancel_guard,           \* ... and the owner of its mutex
  m_sock,                   \* state of its socket
  op,                       \* its asynchronous operation, see OpKinds
  opState,                  \* how far the operation is, see OpStates
  progress,                 \* partial completions of the operation so far
  thPc,                     \* what an I/O thread does next
  thSession,                \* the session whose handler it executes
  calls, outcome            \* calls of m_callback, and what it was told

uiVars == <<uiPc, uiSession, m_work>>
mapVars == <<m_active_sessions, m_active_sessions_guard>>
resultVars == <<m_ec, m_response>>
cancelVars == <<m_was_cancelled, m_cancel_guard>>
opVars == <<op, opState, progress>>
thVars == <<thPc, thSession>>
reportVars == <<calls, outcome>>

vars == <<uiVars, mapVars, m_id, resultVars, cancelVars, m_sock, opVars,
          thVars, reportVars>>

UiPcs == {"idle", "connect", "lockSession", "cancelSock", "join", "closed",
          "terminated"}

ThPcs == {"run", "onConnect", "onWrite", "startWrite", "startRead",
          "shutdown", "erase", "callback", "exited"}

OpKinds == {"none", "connect", "write", "read"}

\* "pending": the operating system has it.  "partial": a part of a composed
\* operation is done, and its intermediate handler is in the queue.  The rest
\* is in the queue with the error code its handler will be given.
Ready == {"ok", "error", "aborted"}
OpStates == {"none", "pending", "partial"} \cup Ready

SockStates == {"closed", "open", "connected", "shutdown"}

TypeOK ==
  /\ uiPc \in UiPcs
  /\ uiSession \in Sessions \cup {None}
  /\ m_work \in BOOLEAN
  /\ m_active_sessions \in [Ids -> Sessions \cup {None}]
  /\ m_active_sessions_guard \in {UI, None}
  /\ m_id \in [Sessions -> Ids]
  /\ m_ec \in [Sessions -> Ready]
  /\ m_response \in [Sessions -> BOOLEAN]
  /\ m_was_cancelled \in [Sessions -> BOOLEAN]
  /\ m_cancel_guard \in [Sessions -> Threads \cup {UI, None}]
  /\ m_sock \in [Sessions -> SockStates]
  /\ op \in [Sessions -> OpKinds]
  /\ opState \in [Sessions -> OpStates]
  /\ progress \in [Sessions -> 0 .. MaxSome]
  /\ thPc \in [Threads -> ThPcs]
  /\ thSession \in [Threads -> Sessions \cup {None}]
  /\ calls \in [Sessions -> Nat]
  /\ outcome \in [Sessions -> Ready \cup {"none"}]

Init ==
  /\ uiPc = "idle"
  /\ uiSession = None
  /\ m_work = TRUE
  /\ m_active_sessions = [i \in Ids |-> None]
  /\ m_active_sessions_guard = None
  /\ m_id = [s \in Sessions |-> CHOOSE id \in Ids : TRUE]
  /\ m_ec = [s \in Sessions |-> "ok"]
  /\ m_response = [s \in Sessions |-> FALSE]
  /\ m_was_cancelled = [s \in Sessions |-> FALSE]
  /\ m_cancel_guard = [s \in Sessions |-> None]
  /\ m_sock = [s \in Sessions |-> "closed"]
  /\ op = [s \in Sessions |-> "none"]
  /\ opState = [s \in Sessions |-> "none"]
  /\ progress = [s \in Sessions |-> 0]
  /\ thPc = [t \in Threads |-> "run"]
  /\ thSession = [t \in Threads |-> None]
  /\ calls = [s \in Sessions |-> 0]
  /\ outcome = [s \in Sessions |-> "none"]

-----------------------------------------------------------------------------
(* Helpers *)

Issued(s) == m_sock[s] # "closed"

\* The request has been issued and its callback has not been called yet.
Outstanding(s) == Issued(s) /\ calls[s] = 0

Listed(s) == m_active_sessions[m_id[s]] = s

\* An asynchronous operation of s is started.
StartOp(s, kind) ==
  /\ op' = [op EXCEPT ![s] = kind]
  /\ opState' = [opState EXCEPT ![s] = "pending"]
  /\ progress' = [progress EXCEPT ![s] = 0]

\* A handler leaves the queue; thread t goes on at pc with it.
Dequeue(t, s, pc) ==
  /\ thPc[t] = "run"
  /\ op' = [op EXCEPT ![s] = "none"]
  /\ opState' = [opState EXCEPT ![s] = "none"]
  /\ thPc' = [thPc EXCEPT ![t] = pc]
  /\ thSession' = [thSession EXCEPT ![t] = s]
  /\ UNCHANGED progress

Goto(t, pc) == thPc' = [thPc EXCEPT ![t] = pc] /\ UNCHANGED thSession

\* The handler returns, and io_service::run() looks for the next one.
Return(t) ==
  /\ thPc' = [thPc EXCEPT ![t] = "run"]
  /\ thSession' = [thSession EXCEPT ![t] = None]

-----------------------------------------------------------------------------
(* The UI thread *)

(***************************************************************************)
(* emulateLongComputationOp up to the end of the critical section: the     *)
(* session is made, its socket opened, and it is entered in the map, where *)
(* it replaces a session that has the same id.                             *)
(***************************************************************************)
Insert(s, id) ==
  /\ uiPc = "idle"
  /\ ~Issued(s)
  /\ ReuseIds \/ \A r \in Sessions : Outstanding(r) => m_id[r] # id
  /\ m_active_sessions_guard = None
  /\ m_active_sessions' = [m_active_sessions EXCEPT ![id] = s]
  /\ m_id' = [m_id EXCEPT ![s] = id]
  /\ m_sock' = [m_sock EXCEPT ![s] = "open"]
  /\ uiPc' = "connect"
  /\ uiSession' = s
  /\ UNCHANGED <<m_work, m_active_sessions_guard, resultVars, cancelVars,
                 opVars, thVars, reportVars>>

AsyncConnect ==
  /\ uiPc = "connect"
  /\ StartOp(uiSession, "connect")
  /\ uiPc' = "idle"
  /\ uiSession' = None
  /\ UNCHANGED <<m_work, mapVars, m_id, resultVars, cancelVars, m_sock,
                 thVars, reportVars>>

(***************************************************************************)
(* The address does not parse or the socket cannot be opened: the          *)
(* exception leaves emulateLongComputationOp and the try block of main,    *)
(* which destroys the client while its threads are joinable.  That is      *)
(* std::terminate, and nothing happens any more.                           *)
(***************************************************************************)
OpenFails ==
  /\ uiPc = "idle"
  /\ \E s \in Sessions : ~Issued(s)
  /\ uiPc' = "terminated"
  /\ UNCHANGED <<uiSession, m_work, mapVars, m_id, resultVars, cancelVars,
                 m_sock, opVars, thVars, reportVars>>

\* Mutant: m_active_sessions_guard is released after the lookup.
CancelFindReleases(id) ==
  /\ uiPc = "idle"
  /\ m_active_sessions_guard = None
  /\ m_active_sessions[id] # None
  /\ CancelTwice \/ ~m_was_cancelled[m_active_sessions[id]]
  /\ uiSession' = m_active_sessions[id]
  /\ uiPc' = "lockSession"
  /\ UNCHANGED <<m_work, mapVars, m_id, resultVars, cancelVars, m_sock,
                 opVars, thVars, reportVars>>

(***************************************************************************)
(* cancelRequest.  It holds m_active_sessions_guard from the lookup to its *)
(* end, and the guard of the session from CancelFlag on.  An id that is    *)
(* not in the map changes nothing and has no step here.                    *)
(***************************************************************************)
CancelFind(id) ==
  /\ uiPc = "idle"
  /\ m_active_sessions_guard = None
  /\ m_active_sessions[id] # None
  /\ CancelTwice \/ ~m_was_cancelled[m_active_sessions[id]]
  /\ m_active_sessions_guard' = UI
  /\ uiSession' = m_active_sessions[id]
  /\ uiPc' = "lockSession"
  /\ UNCHANGED <<m_work, m_active_sessions, m_id, resultVars, cancelVars,
                 m_sock, opVars, thVars, reportVars>>

CancelFlag ==
  /\ uiPc = "lockSession"
  /\ m_cancel_guard[uiSession] = None
  /\ m_cancel_guard' = [m_cancel_guard EXCEPT ![uiSession] = UI]
  /\ m_was_cancelled' = [m_was_cancelled EXCEPT ![uiSession] = TRUE]
  /\ uiPc' = "cancelSock"
  /\ UNCHANGED <<uiSession, m_work, mapVars, m_id, resultVars, m_sock,
                 opVars, thVars, reportVars>>

\* Mutant: cancelRequest never unlocks m_cancel_guard.
CancelSockKeepsGuard ==
  /\ uiPc = "cancelSock"
  /\ opState' = IF opState[uiSession] = "pending"
                THEN [opState EXCEPT ![uiSession] = "aborted"]
                ELSE opState
  /\ m_active_sessions_guard' = None
  /\ uiPc' = "idle"
  /\ uiSession' = None
  /\ UNCHANGED <<m_work, m_active_sessions, m_id, resultVars, cancelVars,
                 m_sock, op, progress, thVars, reportVars>>

\* m_sock.cancel() aborts the operation the operating system has.  It does
\* not reach a handler that is in the queue already.  Both locks are released.
CancelSock ==
  /\ uiPc = "cancelSock"
  /\ opState' = IF opState[uiSession] = "pending"
                THEN [opState EXCEPT ![uiSession] = "aborted"]
                ELSE opState
  /\ m_cancel_guard' = [m_cancel_guard EXCEPT ![uiSession] = None]
  /\ m_active_sessions_guard' = None
  /\ uiPc' = "idle"
  /\ uiSession' = None
  /\ UNCHANGED <<m_work, m_active_sessions, m_id, resultVars,
                 m_was_cancelled, m_sock, op, progress, thVars, reportVars>>

\* Mutant: close() does not destroy m_work.
CloseKeepsWork ==
  /\ uiPc = "idle"
  /\ uiPc' = "join"
  /\ UNCHANGED <<uiSession, m_work, mapVars, m_id, resultVars, cancelVars,
                 m_sock, opVars, thVars, reportVars>>

\* close(): m_work is destroyed, then the threads are joined.
Close ==
  /\ uiPc = "idle"
  /\ m_work' = FALSE
  /\ uiPc' = "join"
  /\ UNCHANGED <<uiSession, mapVars, m_id, resultVars, cancelVars, m_sock,
                 opVars, thVars, reportVars>>

\* Mutant: close() does not wait for the threads.
JoinDetaches ==
  /\ uiPc = "join"
  /\ uiPc' = "closed"
  /\ UNCHANGED <<uiSession, m_work, mapVars, m_id, resultVars, cancelVars,
                 m_sock, opVars, thVars, reportVars>>

Join ==
  /\ uiPc = "join"
  /\ \A t \in Threads : thPc[t] = "exited"
  /\ uiPc' = "closed"
  /\ UNCHANGED <<uiSession, m_work, mapVars, m_id, resultVars, cancelVars,
                 m_sock, opVars, thVars, reportVars>>

-----------------------------------------------------------------------------
(* The completion handlers, executed by I/O thread t *)

\* Mutant: the write handler returns on an error without reporting it.
HandlerErrorDropped(t, s) ==
  /\ opState[s] \in {"error", "aborted"}
  /\ m_ec' = [m_ec EXCEPT ![s] = opState[s]]
  /\ Dequeue(t, s, IF op[s] = "write" THEN "run" ELSE "shutdown")
  /\ UNCHANGED <<uiVars, mapVars, m_id, m_response, cancelVars, m_sock,
                 reportVars>>

\* Mutant: m_cancel_guard is taken before m_ec is stored, and kept.
HandlerErrorLocks(t, s) ==
  /\ opState[s] \in {"error", "aborted"}
  /\ m_cancel_guard[s] = None
  /\ m_cancel_guard' = [m_cancel_guard EXCEPT ![s] = t]
  /\ m_ec' = [m_ec EXCEPT ![s] = opState[s]]
  /\ Dequeue(t, s, "shutdown")
  /\ UNCHANGED <<uiVars, mapVars, m_id, m_response, m_was_cancelled, m_sock,
                 reportVars>>

\* The handler of any of the three operations is given an error: it stores
\* it and calls onRequestComplete without looking at m_was_cancelled.
HandlerError(t, s) ==
  /\ opState[s] \in {"error", "aborted"}
  /\ m_ec' = [m_ec EXCEPT ![s] = opState[s]]
  /\ Dequeue(t, s, "shutdown")
  /\ UNCHANGED <<uiVars, mapVars, m_id, m_response, cancelVars, m_sock,
                 reportVars>>

OnConnect(t, s) ==
  /\ op[s] = "connect" /\ opState[s] = "ok"
  /\ Dequeue(t, s, "onConnect")
  /\ UNCHANGED <<uiVars, mapVars, m_id, resultVars, cancelVars, m_sock,
                 reportVars>>

OnWrite(t, s) ==
  /\ op[s] = "write" /\ opState[s] = "ok"
  /\ Dequeue(t, s, "onWrite")
  /\ UNCHANGED <<uiVars, mapVars, m_id, resultVars, cancelVars, m_sock,
                 reportVars>>

\* The response is taken; m_was_cancelled is not looked at here.
OnRead(t, s) ==
  /\ op[s] = "read" /\ opState[s] = "ok"
  /\ m_response' = [m_response EXCEPT ![s] = TRUE]
  /\ Dequeue(t, s, "shutdown")
  /\ UNCHANGED <<uiVars, mapVars, m_id, m_ec, cancelVars, m_sock, reportVars>>

\* The request has been cancelled: onRequestComplete is called inside the
\* critical section, so the session's guard stays locked until it returns.
SeenCancelled(t) ==
  LET s == thSession[t] IN
  /\ thPc[t] \in {"onConnect", "onWrite"}
  /\ m_cancel_guard[s] = None
  /\ m_was_cancelled[s]
  /\ m_cancel_guard' = [m_cancel_guard EXCEPT ![s] = t]
  /\ Goto(t, "shutdown")
  /\ UNCHANGED <<uiVars, mapVars, m_id, resultVars, m_was_cancelled, m_sock,
                 opVars, reportVars>>

\* Mutant: the write handler does not look at m_was_cancelled.
NotCancelledUnchecked(t) ==
  LET s == thSession[t] IN
  /\ thPc[t] \in {"onConnect", "onWrite"}
  /\ m_cancel_guard[s] = None
  /\ thPc[t] = "onConnect" => ~m_was_cancelled[s]
  /\ Goto(t, IF thPc[t] = "onConnect" THEN "startWrite" ELSE "startRead")
  /\ UNCHANGED <<uiVars, mapVars, m_id, resultVars, cancelVars, m_sock,
                 opVars, reportVars>>

\* It has not: the guard is released and the next operation started later.
NotCancelled(t) ==
  LET s == thSession[t] IN
  /\ thPc[t] \in {"onConnect", "onWrite"}
  /\ m_cancel_guard[s] = None
  /\ ~m_was_cancelled[s]
  /\ Goto(t, IF thPc[t] = "onConnect" THEN "startWrite" ELSE "startRead")
  /\ UNCHANGED <<uiVars, mapVars, m_id, resultVars, cancelVars, m_sock,
                 opVars, reportVars>>

AsyncWrite(t) ==
  /\ thPc[t] = "startWrite"
  /\ StartOp(thSession[t], "write")
  /\ Return(t)
  /\ UNCHANGED <<uiVars, mapVars, m_id, resultVars, cancelVars, m_sock,
                 reportVars>>

AsyncReadUntil(t) ==
  /\ thPc[t] = "startRead"
  /\ StartOp(thSession[t], "read")
  /\ Return(t)
  /\ UNCHANGED <<uiVars, mapVars, m_id, resultVars, cancelVars, m_sock,
                 reportVars>>

-----------------------------------------------------------------------------
(* onRequestComplete *)

\* m_sock.shutdown; it fails, and is ignored, when there is no connection.
Shutdown(t) ==
  LET s == thSession[t] IN
  /\ thPc[t] = "shutdown"
  /\ m_sock' = IF m_sock[s] = "connected"
               THEN [m_sock EXCEPT ![s] = "shutdown"] ELSE m_sock
  /\ Goto(t, "erase")
  /\ UNCHANGED <<uiVars, mapVars, m_id, resultVars, cancelVars, opVars,
                 reportVars>>

\* Mutant: only a request that did not fail is removed.
EraseOnSuccess(t) ==
  /\ thPc[t] = "erase"
  /\ m_active_sessions_guard = None
  /\ m_active_sessions' =
       IF m_ec[thSession[t]] = "ok"
       THEN [m_active_sessions EXCEPT ![m_id[thSession[t]]] = None]
       ELSE m_active_sessions
  /\ Goto(t, "callback")
  /\ UNCHANGED <<uiVars, m_active_sessions_guard, m_id, resultVars,
                 cancelVars, m_sock, opVars, reportVars>>

\* Mutant: m_active_sessions_guard is not released.
EraseKeepsGuard(t) ==
  /\ thPc[t] = "erase"
  /\ m_active_sessions_guard = None
  /\ m_active_sessions_guard' = t
  /\ m_active_sessions' =
       [m_active_sessions EXCEPT ![m_id[thSession[t]]] = None]
  /\ Goto(t, "callback")
  /\ UNCHANGED <<uiVars, m_id, resultVars, cancelVars, m_sock, opVars,
                 reportVars>>

\* Whatever session is listed under the id is removed.
Erase(t) ==
  /\ thPc[t] = "erase"
  /\ m_active_sessions_guard = None
  /\ m_active_sessions' =
       [m_active_sessions EXCEPT ![m_id[thSession[t]]] = None]
  /\ Goto(t, "callback")
  /\ UNCHANGED <<uiVars, m_active_sessions_guard, m_id, resultVars,
                 cancelVars, m_sock, opVars, reportVars>>

\* Mutant: the flag is ignored.
CallbackEcUnflagged(s) == m_ec[s]

\* The error code the callback is given.
CallbackEc(s) ==
  IF m_ec[s] = "ok" /\ m_was_cancelled[s] THEN "aborted" ELSE m_ec[s]

\* Mutant: the connect handler lacks the return after onRequestComplete.
CallbackGoesOn(t) ==
  LET s == thSession[t] IN
  /\ thPc[t] = "callback"
  /\ outcome' = [outcome EXCEPT ![s] = CallbackEc(s)]
  /\ calls' = [calls EXCEPT ![s] = @ + 1]
  /\ m_cancel_guard' = IF m_cancel_guard[s] = t
                       THEN [m_cancel_guard EXCEPT ![s] = None]
                       ELSE m_cancel_guard
  /\ IF m_cancel_guard[s] = t THEN Goto(t, "startWrite") ELSE Return(t)
  /\ UNCHANGED <<uiVars, mapVars, m_id, resultVars, m_was_cancelled, m_sock,
                 opVars>>

\* m_was_cancelled is read without its guard unless SeenCancelled left the
\* guard locked, in which case it is released when the handler returns.
Callback(t) ==
  LET s == thSession[t] IN
  /\ thPc[t] = "callback"
  /\ outcome' = [outcome EXCEPT ![s] = CallbackEc(s)]
  /\ calls' = [calls EXCEPT ![s] = @ + 1]
  /\ m_cancel_guard' = IF m_cancel_guard[s] = t
                       THEN [m_cancel_guard EXCEPT ![s] = None]
                       ELSE m_cancel_guard
  /\ Return(t)
  /\ UNCHANGED <<uiVars, mapVars, m_id, resultVars, m_was_cancelled, m_sock,
                 opVars>>

-----------------------------------------------------------------------------
(* io_service::run() and the operating system *)

\* The intermediate handler of a composed operation asks for the rest.
Resume(t, s) ==
  /\ thPc[t] = "run"
  /\ opState[s] = "partial"
  /\ opState' = [opState EXCEPT ![s] = "pending"]
  /\ UNCHANGED <<uiVars, mapVars, m_id, resultVars, cancelVars, m_sock, op,
                 progress, thVars, reportVars>>

\* There is no work left when the work object is gone, no operation is under
\* way and no handler is being executed; then run() returns in every thread.
OutOfWork ==
  /\ ~m_work
  /\ \A s \in Sessions : op[s] = "none"
  /\ \A t \in Threads : thPc[t] \in {"run", "exited"}

Exit(t) ==
  /\ thPc[t] = "run"
  /\ OutOfWork
  /\ Goto(t, "exited")
  /\ UNCHANGED <<uiVars, mapVars, m_id, resultVars, cancelVars, m_sock,
                 opVars, reportVars>>

\* A part of the request has been sent, or of the response received.
Progress(s) ==
  /\ op[s] \in {"write", "read"} /\ opState[s] = "pending"
  /\ progress[s] < MaxSome
  /\ opState' = [opState EXCEPT ![s] = "partial"]
  /\ progress' = [progress EXCEPT ![s] = @ + 1]
  /\ UNCHANGED <<uiVars, mapVars, m_id, resultVars, cancelVars, m_sock, op,
                 thVars, reportVars>>

\* The operation is done, or has failed.
Complete(s, ec) ==
  /\ opState[s] = "pending"
  /\ opState' = [opState EXCEPT ![s] = ec]
  /\ m_sock' = IF op[s] = "connect" /\ ec = "ok"
               THEN [m_sock EXCEPT ![s] = "connected"] ELSE m_sock
  /\ UNCHANGED <<uiVars, mapVars, m_id, resultVars, cancelVars, op, progress,
                 thVars, reportVars>>

-----------------------------------------------------------------------------

UiContinues == AsyncConnect \/ CancelFlag \/ CancelSock \/ Join

User ==
  \/ \E s \in Sessions, id \in Ids : Insert(s, id)
  \/ \E id \in Ids : CancelFind(id)
  \/ Close

Dispatch(t, s) ==
  \/ HandlerError(t, s)
  \/ OnConnect(t, s)
  \/ OnWrite(t, s)
  \/ OnRead(t, s)
  \/ Resume(t, s)

HandlerStep(t) ==
  \/ SeenCancelled(t)
  \/ NotCancelled(t)
  \/ AsyncWrite(t)
  \/ AsyncReadUntil(t)
  \/ Shutdown(t)
  \/ Erase(t)
  \/ Callback(t)
  \/ Exit(t)

Kernel(s) == Progress(s) \/ \E ec \in {"ok", "error"} : Complete(s, ec)

\* The program has ended: nothing happens any more.
Finished == uiPc \in {"closed", "terminated"} /\ UNCHANGED vars

Next ==
  \/ /\ uiPc # "terminated"
     /\ \/ UiContinues
        \/ User
        \/ OpenFails
        \/ \E t \in Threads :
             HandlerStep(t) \/ \E s \in Sessions : Dispatch(t, s)
        \/ \E s \in Sessions : Kernel(s)
  \/ Finished

Spec == Init /\ [][Next]_vars

(***************************************************************************)
(* The scheduler runs every thread that can go on, the queue of the        *)
(* io_service is served, and the operating system completes what does not  *)
(* depend on the server's answer: connecting and sending (which fail after *)
(* a timeout of their own).  Nothing makes a read complete, and nothing    *)
(* makes the user act.                                                     *)
(***************************************************************************)
Answer(s) == op[s] = "read" /\ uiPc # "terminated" /\ Kernel(s)
Transmit(s) == op[s] # "read" /\ uiPc # "terminated" /\ Kernel(s)

Fairness ==
  /\ WF_vars(UiContinues)
  /\ \A t \in Threads : WF_vars(uiPc # "terminated" /\ HandlerStep(t))
  /\ \A s \in Sessions :
       /\ WF_vars(uiPc # "terminated" /\ \E t \in Threads : Dispatch(t, s))
       /\ WF_vars(Transmit(s))

FairSpec == Spec /\ Fairness

-----------------------------------------------------------------------------
(* Safety *)

(***************************************************************************)
(* onRequestComplete reads m_was_cancelled with no lock on the error and   *)
(* read paths (line 163).  Still the UI thread never writes the flag, or   *)
(* holds a reference through which it could, at the same time: it holds    *)
(* m_active_sessions_guard throughout cancelRequest, and the session has   *)
(* left the map before the flag is read.                                   *)
(***************************************************************************)
CancelFlagRaceFree ==
  \A t \in Threads :
    thPc[t] = "callback" /\ uiPc \in {"lockSession", "cancelSock"}
      => uiSession # thSession[t]

(***************************************************************************)
(* The members m_ec, m_response and m_response_buf have no mutex at all:   *)
(* what protects them is that the operations of a session form a chain, so *)
(* that at most one thread works on a session, and only while no operation *)
(* of it is under way.                                                     *)
(***************************************************************************)
SoleDriver ==
  \A s \in Sessions, t \in Threads :
    thSession[t] = s =>
      /\ op[s] = "none"
      /\ calls[s] = 0
      /\ \A u \in Threads : thSession[u] = s => u = t

(***************************************************************************)
(* What the callback is told is the truth: success means a response and no *)
(* cancellation, then or later; "cancelled" means the user asked for it.   *)
(* And the request has left nothing behind: no connection, no operation,   *)
(* no entry in the map, no guard that a handler holds.                     *)
(***************************************************************************)
OutcomeMatchesCancel ==
  \A s \in Sessions : calls[s] > 0 =>
    /\ outcome[s] = "ok" => m_response[s] /\ ~m_was_cancelled[s]
    /\ outcome[s] = "aborted" => m_was_cancelled[s]
    /\ m_sock[s] # "connected"
    /\ op[s] = "none"
    /\ \A id \in Ids : m_active_sessions[id] # s
    /\ m_cancel_guard[s] \notin Threads

\* When close() returns, every request that was issued has had its callback,
\* and no session is left in the map.
CloseDrains ==
  uiPc = "closed" =>
    /\ \A s \in Sessions : Issued(s) => calls[s] = 1
    /\ \A id \in Ids : m_active_sessions[id] = None

(***************************************************************************)
(* The two mutexes are taken in opposite orders: cancelRequest takes       *)
(* m_active_sessions_guard and then m_cancel_guard, a handler that has     *)
(* seen the flag the other way round.  Yet the UI thread never waits for a *)
(* guard that a handler keeps, as long as the user cancels a request once. *)
(***************************************************************************)
NoLockCycle ==
  uiPc = "lockSession" => m_cancel_guard[uiSession] \notin Threads

\* The handler of s has not yet passed the erasure in onRequestComplete.
NotErased(s) ==
  Outstanding(s) /\ \A t \in Threads : thSession[t] = s => thPc[t] # "callback"

\* "so that we can access it if the user decides to cancel" (lines 66-68):
\* as long as ids are unique among the outstanding requests, a request can be
\* found in the map exactly until it completes.
ActiveListed ==
  \A s \in Sessions : NotErased(s) <=> Listed(s)

-----------------------------------------------------------------------------
(* The client implements RequestLifecycle. *)

Status ==
  [s \in Sessions |-> IF calls[s] > 0 THEN outcome[s]
                      ELSE IF Issued(s) THEN "active" ELSE "new"]

RL == INSTANCE RequestLifecycle WITH
        status <- Status,
        cancelled <- m_was_cancelled,
        closed <- uiPc = "closed"

\* Each request is reported exactly once and truthfully, is cancelled only
\* while it is outstanding, and close() returns only when none is.
RequestContract == RL!Spec

-----------------------------------------------------------------------------
(* Liveness, under FairSpec *)

\* The handler that reads m_was_cancelled for the last time (lines 97-103)
\* still has to do so.
BeforeLastCheck(s) ==
  \/ op[s] \in {"connect", "write"}
  \/ \E t \in Threads :
       thSession[t] = s /\ thPc[t] \in {"onConnect", "startWrite", "onWrite"}

\* A request that is cancelled before the response is awaited is reported to
\* the user, whatever the server does.
EarlyCancelTakesEffect ==
  \A s \in Sessions :
    m_was_cancelled[s] /\ BeforeLastCheck(s) ~>
      calls[s] > 0 \/ uiPc = "terminated"

ServerAnswers == \A s \in Sessions : WF_vars(Answer(s))

\* If the server answers or drops the connection, every request is reported.
EveryRequestAnswered ==
  ServerAnswers =>
    \A s \in Sessions : Issued(s) ~> calls[s] > 0 \/ uiPc = "terminated"

\* Then close() returns, too: all threads leave io_service::run().
CloseReturns ==
  ServerAnswers => (uiPc = "join" ~> uiPc = "closed")

(***************************************************************************)
(* What the repository says of the program and the code does not do.       *)
(***************************************************************************)

\* src/Readme.org:863 - the UI thread "should never be blocked for a
\* noticeable amount of time": cancelRequest gets past the session's mutex.
CancelReturns == uiPc = "lockSession" ~> uiPc # "lockSession"

\* src/Readme.org:702, :866 - the user can cancel a request at any moment before
\* it completes: once cancelRequest has returned, the callback is called.
CancelTakesEffect ==
  \A s \in Sessions :
    m_was_cancelled[s] ~> calls[s] > 0 \/ uiPc = "terminated"
=============================================================================
