------------------------ MODULE AsyncTCPClientProofs ------------------------
(***************************************************************************)
(* Proofs about AsyncTCPClient, for any sets of threads, sessions and ids. *)
(* The inductive invariant IInv says who works on a session, who owns each *)
(* mutex, and what the map lists.                                          *)
(***************************************************************************)
EXTENDS AsyncTCPClient, TLAPS

InCancel == uiPc \in {"lockSession", "cancelSock"}

Completing == {"shutdown", "erase", "callback"}

\* The UI thread and the mutexes it owns.
UiInv ==
  /\ uiSession = None <=> uiPc \notin {"connect", "lockSession", "cancelSock"}
  /\ m_active_sessions_guard = UI <=> InCancel
  /\ InCancel => Listed(uiSession)
  /\ m_work <=> uiPc \notin {"join", "closed"}
  /\ uiPc = "cancelSock" => m_was_cancelled[uiSession]
  /\ ~CancelTwice /\ uiPc = "lockSession" => ~m_was_cancelled[uiSession]

\* emulateLongComputationOp has not started the first operation yet.
ConnectInv ==
  uiPc = "connect" =>
    /\ Outstanding(uiSession)
    /\ op[uiSession] = "none"

\* A session is worked on by one thread, and only between two operations.
ThreadInv ==
  \A t \in Threads :
    /\ thSession[t] = None <=> thPc[t] \in {"run", "exited"}
    /\ thSession[t] # None =>
         /\ Outstanding(thSession[t])
         /\ op[thSession[t]] = "none"
         /\ uiPc = "connect" => uiSession # thSession[t]
         /\ \A u \in Threads : thSession[u] = thSession[t] => u = t

OpInv ==
  \A s \in Sessions :
    /\ op[s] = "none" <=> opState[s] = "none"
    /\ op[s] # "none" => Outstanding(s)

\* An outstanding request is always in someone's hands.
ChainInv ==
  \A s \in Sessions :
    Outstanding(s) =>
      \/ op[s] # "none"
      \/ \E t \in Threads : thSession[t] = s
      \/ uiPc = "connect" /\ uiSession = s

\* The guard of a session is the UI thread's inside cancelRequest, or that of
\* the handler that has seen the flag.
GuardInv ==
  \A s \in Sessions :
    /\ m_cancel_guard[s] = UI <=> uiPc = "cancelSock" /\ uiSession = s
    /\ \A t \in Threads :
         m_cancel_guard[s] = t =>
           thSession[t] = s /\ thPc[t] \in Completing /\ m_was_cancelled[s]

\* The map lists sessions under their ids, and none that has been erased.
MapInv ==
  \A id \in Ids :
    m_active_sessions[id] # None =>
      /\ m_id[m_active_sessions[id]] = id
      /\ NotErased(m_active_sessions[id])

\* With unique ids it lists all the others.
UniqueInv ==
  ~ReuseIds => \A s \in Sessions : NotErased(s) => Listed(s)

SockInv ==
  /\ \A s \in Sessions :
       calls[s] > 0 => m_sock[s] \notin {"closed", "connected"}
  /\ \A t \in Threads :
       thPc[t] \in {"erase", "callback"} => m_sock[thSession[t]] # "connected"

\* Nothing is aborted unless the user has cancelled it, and a request that
\* ends without error or cancellation ends with its response.
OutcomeInv ==
  \A s \in Sessions :
    /\ calls[s] \in {0, 1}
    /\ calls[s] > 0 => outcome[s] = CallbackEc(s)
    /\ opState[s] = "aborted" \/ m_ec[s] = "aborted" => m_was_cancelled[s]
    /\ m_ec[s] = "ok" /\ ~m_was_cancelled[s] =>
         /\ calls[s] > 0 => m_response[s]
         /\ \A t \in Threads :
              thSession[t] = s /\ thPc[t] \in Completing => m_response[s]

\* A thread leaves run() when there is nothing left to do, and nothing comes.
ExitInv ==
  /\ (\E t \in Threads : thPc[t] = "exited") => OutOfWork
  /\ uiPc = "closed" => \A t \in Threads : thPc[t] = "exited"

IInv ==
  /\ TypeOK
  /\ UiInv
  /\ ConnectInv
  /\ ThreadInv
  /\ OpInv
  /\ ChainInv
  /\ GuardInv
  /\ MapInv
  /\ UniqueInv
  /\ SockInv
  /\ OutcomeInv
  /\ ExitInv

-----------------------------------------------------------------------------
(* Every action preserves IInv: one lemma per action, and in it one step for *)
(* each conjunct the action can disturb and one for all the others.        *)

LEMMA InsertStep ==
  ASSUME IInv, NEW s \in Sessions, NEW id \in Ids,
         Insert(s, id)
  PROVE  IInv'
<1> USE ThreadsAssumption, UserAssumption, BoundAssumption
    DEF IInv, Insert, uiVars, mapVars, resultVars, cancelVars, opVars, thVars,
        reportVars
<1>1. ~Outstanding(s) /\ op[s] = "none"
  BY DEF TypeOK, Outstanding, OpInv, Issued
<1>2. \A t \in Threads : thSession[t] # s
  BY <1>1 DEF TypeOK, ThreadInv
<1>3. m_sock'[s] # "closed" /\ calls[s] = 0
  BY DEF TypeOK, SockInv, OutcomeInv, Issued
<1>4. TypeOK'
  BY DEF TypeOK, UiPcs, ThPcs, OpKinds, OpStates, Ready, SockStates
<1>5. UiInv'
  BY DEF TypeOK, UiInv, InCancel, Listed
<1>6. ConnectInv'
  BY <1>1, <1>3 DEF TypeOK, ConnectInv, Outstanding, Issued
<1>7. ThreadInv'
  BY DEF TypeOK, ThreadInv, Outstanding, Issued
<1>8. OpInv'
  BY DEF TypeOK, OpInv, Outstanding, Issued
<1>9. ChainInv'
  BY DEF TypeOK, ChainInv, Outstanding, Issued
<1>10. GuardInv'
  BY DEF TypeOK, GuardInv, Completing
<1>11. MapInv'
  BY <1>2, <1>3 DEF TypeOK, MapInv, NotErased, Outstanding, Issued
<1>12. UniqueInv'
  BY DEF TypeOK, UniqueInv, NotErased, Outstanding, Issued, Listed
<1>13. SockInv'
  BY DEF TypeOK, SockInv
<1>14. ExitInv'
  BY DEF TypeOK, ExitInv, OutOfWork
<1>15. OutcomeInv'
  BY DEF OutcomeInv, CallbackEc, Completing
<1> QED
  BY <1>4, <1>5, <1>6, <1>7, <1>8, <1>9, <1>10, <1>11, <1>12, <1>13, <1>14,
     <1>15

LEMMA AsyncConnectStep ==
  ASSUME IInv, AsyncConnect
  PROVE  IInv'
<1> USE ThreadsAssumption, UserAssumption, BoundAssumption
    DEF IInv, AsyncConnect, StartOp, uiVars, mapVars, resultVars, cancelVars,
        opVars, thVars, reportVars
<1>1. uiSession \in Sessions
  BY DEF TypeOK, UiInv
<1>2. TypeOK'
  BY <1>1 DEF TypeOK, UiPcs, ThPcs, OpKinds, OpStates, Ready, SockStates
<1>3. UiInv'
  BY DEF TypeOK, UiInv, InCancel, Listed
<1>4. ConnectInv'
  BY DEF TypeOK, ConnectInv, Outstanding, Issued
<1>5. ThreadInv'
  BY DEF TypeOK, ThreadInv, Outstanding, Issued
<1>6. OpInv'
  BY DEF TypeOK, OpInv, Outstanding, Issued, ConnectInv
<1>7. ChainInv'
  BY DEF TypeOK, ChainInv, Outstanding, Issued
<1>8. GuardInv'
  BY DEF TypeOK, GuardInv, Completing
<1>9. OutcomeInv'
  BY DEF TypeOK, OutcomeInv, CallbackEc, Completing, ConnectInv
<1>10. ExitInv'
  BY DEF TypeOK, ExitInv, OutOfWork, UiInv
<1>11. MapInv' /\ UniqueInv' /\ SockInv'
  BY DEF MapInv, NotErased, Outstanding, Issued, UniqueInv, Listed, SockInv
<1> QED
  BY <1>2, <1>3, <1>4, <1>5, <1>6, <1>7, <1>8, <1>9, <1>10, <1>11

LEMMA OpenFailsStep ==
  ASSUME IInv, OpenFails
  PROVE  IInv'
<1> USE ThreadsAssumption, UserAssumption, BoundAssumption
    DEF IInv, OpenFails, uiVars, mapVars, resultVars, cancelVars, opVars,
        thVars, reportVars
<1>1. TypeOK'
  BY DEF TypeOK, UiPcs, ThPcs, OpKinds, OpStates, Ready, SockStates
<1>2. UiInv'
  BY DEF TypeOK, UiInv, InCancel, Listed
<1>3. ConnectInv'
  BY DEF TypeOK, ConnectInv, Outstanding, Issued
<1>4. ThreadInv'
  BY DEF TypeOK, ThreadInv, Outstanding, Issued
<1>5. ChainInv'
  BY DEF TypeOK, ChainInv, Outstanding, Issued
<1>6. GuardInv'
  BY DEF TypeOK, GuardInv, Completing
<1>7. ExitInv'
  BY DEF TypeOK, ExitInv, OutOfWork
<1>8. OpInv' /\ MapInv' /\ UniqueInv' /\ SockInv' /\ OutcomeInv'
  BY DEF OpInv, Outstanding, Issued, MapInv, NotErased, UniqueInv, Listed,
         SockInv, OutcomeInv, CallbackEc, Completing
<1> QED
  BY <1>1, <1>2, <1>3, <1>4, <1>5, <1>6, <1>7, <1>8

LEMMA CancelFindStep ==
  ASSUME IInv, NEW id \in Ids,
         CancelFind(id)
  PROVE  IInv'
<1> USE ThreadsAssumption, UserAssumption, BoundAssumption
    DEF IInv, CancelFind, uiVars, mapVars, resultVars, cancelVars, opVars,
        thVars, reportVars
<1>1. TypeOK'
  BY DEF TypeOK, UiPcs, ThPcs, OpKinds, OpStates, Ready, SockStates
<1>2. UiInv'
  BY DEF TypeOK, UiInv, InCancel, Listed, MapInv
<1>3. ConnectInv'
  BY DEF TypeOK, ConnectInv, Outstanding, Issued
<1>4. ThreadInv'
  BY DEF TypeOK, ThreadInv, Outstanding, Issued
<1>5. ChainInv'
  BY DEF TypeOK, ChainInv, Outstanding, Issued
<1>6. GuardInv'
  BY DEF TypeOK, GuardInv, Completing
<1>7. ExitInv'
  BY DEF TypeOK, ExitInv, OutOfWork
<1>8. OpInv' /\ MapInv' /\ UniqueInv' /\ SockInv' /\ OutcomeInv'
  BY DEF OpInv, Outstanding, Issued, MapInv, NotErased, UniqueInv, Listed,
         SockInv, OutcomeInv, CallbackEc, Completing
<1> QED
  BY <1>1, <1>2, <1>3, <1>4, <1>5, <1>6, <1>7, <1>8

LEMMA CancelFlagStep ==
  ASSUME IInv, CancelFlag
  PROVE  IInv'
<1> USE ThreadsAssumption, UserAssumption, BoundAssumption
    DEF IInv, CancelFlag, uiVars, mapVars, resultVars, cancelVars, opVars,
        thVars, reportVars
<1>1. uiSession \in Sessions
  BY DEF TypeOK, UiInv
<1>2. calls[uiSession] = 0
  BY <1>1 DEF TypeOK, UiInv, InCancel, MapInv, Listed, NotErased, Outstanding
<1>3. TypeOK'
  BY DEF TypeOK, UiPcs, ThPcs, OpKinds, OpStates, Ready, SockStates
<1>4. UiInv'
  BY DEF TypeOK, UiInv, InCancel, Listed
<1>5. ConnectInv'
  BY DEF TypeOK, ConnectInv, Outstanding, Issued
<1>6. ThreadInv'
  BY DEF TypeOK, ThreadInv, Outstanding, Issued
<1>7. ChainInv'
  BY DEF TypeOK, ChainInv, Outstanding, Issued
<1>8. GuardInv'
  BY DEF TypeOK, GuardInv, Completing
<1>9. OutcomeInv'
  BY <1>2 DEF TypeOK, OutcomeInv, CallbackEc, Completing
<1>10. ExitInv'
  BY DEF TypeOK, ExitInv, OutOfWork
<1>11. OpInv' /\ MapInv' /\ UniqueInv' /\ SockInv'
  BY DEF OpInv, Outstanding, Issued, MapInv, NotErased, UniqueInv, Listed,
         SockInv
<1> QED
  BY <1>3, <1>4, <1>5, <1>6, <1>7, <1>8, <1>9, <1>10, <1>11

LEMMA CancelSockStep ==
  ASSUME IInv, CancelSock
  PROVE  IInv'
<1> USE ThreadsAssumption, UserAssumption, BoundAssumption
    DEF IInv, CancelSock, uiVars, mapVars, resultVars, cancelVars, opVars,
        thVars, reportVars
<1>1. TypeOK'
  BY DEF TypeOK, UiPcs, ThPcs, OpKinds, OpStates, Ready, SockStates
<1>2. UiInv'
  BY DEF TypeOK, UiInv, InCancel, Listed
<1>3. ConnectInv'
  BY DEF TypeOK, ConnectInv, Outstanding, Issued
<1>4. ThreadInv'
  BY DEF TypeOK, ThreadInv, Outstanding, Issued
<1>5. OpInv'
  BY DEF TypeOK, OpInv, Outstanding, Issued
<1>6. ChainInv'
  BY DEF TypeOK, ChainInv, Outstanding, Issued
<1>7. GuardInv'
  BY DEF TypeOK, GuardInv, Completing
<1>8. OutcomeInv'
  BY DEF TypeOK, OutcomeInv, CallbackEc, Completing, UiInv
<1>9. ExitInv'
  BY DEF TypeOK, ExitInv, OutOfWork
<1>10. MapInv' /\ UniqueInv' /\ SockInv'
  BY DEF MapInv, NotErased, Outstanding, Issued, UniqueInv, Listed, SockInv
<1> QED
  BY <1>1, <1>2, <1>3, <1>4, <1>5, <1>6, <1>7, <1>8, <1>9, <1>10

LEMMA CloseStep ==
  ASSUME IInv, Close
  PROVE  IInv'
<1> USE ThreadsAssumption, UserAssumption, BoundAssumption
    DEF IInv, Close, uiVars, mapVars, resultVars, cancelVars, opVars, thVars,
        reportVars
<1>1. TypeOK'
  BY DEF TypeOK, UiPcs, ThPcs, OpKinds, OpStates, Ready, SockStates
<1>2. UiInv'
  BY DEF TypeOK, UiInv, InCancel, Listed
<1>3. ConnectInv'
  BY DEF TypeOK, ConnectInv, Outstanding, Issued
<1>4. ThreadInv'
  BY DEF TypeOK, ThreadInv, Outstanding, Issued
<1>5. ChainInv'
  BY DEF TypeOK, ChainInv, Outstanding, Issued
<1>6. GuardInv'
  BY DEF TypeOK, GuardInv, Completing
<1>7. ExitInv'
  BY DEF TypeOK, ExitInv, OutOfWork, UiInv
<1>8. OpInv' /\ MapInv' /\ UniqueInv' /\ SockInv' /\ OutcomeInv'
  BY DEF OpInv, Outstanding, Issued, MapInv, NotErased, UniqueInv, Listed,
         SockInv, OutcomeInv, CallbackEc, Completing
<1> QED
  BY <1>1, <1>2, <1>3, <1>4, <1>5, <1>6, <1>7, <1>8

LEMMA JoinStep ==
  ASSUME IInv, Join
  PROVE  IInv'
<1> USE ThreadsAssumption, UserAssumption, BoundAssumption
    DEF IInv, Join, uiVars, mapVars, resultVars, cancelVars, opVars, thVars,
        reportVars
<1>1. TypeOK'
  BY DEF TypeOK, UiPcs, ThPcs, OpKinds, OpStates, Ready, SockStates
<1>2. UiInv'
  BY DEF TypeOK, UiInv, InCancel, Listed
<1>3. ConnectInv'
  BY DEF TypeOK, ConnectInv, Outstanding, Issued
<1>4. ThreadInv'
  BY DEF TypeOK, ThreadInv, Outstanding, Issued
<1>5. ChainInv'
  BY DEF TypeOK, ChainInv, Outstanding, Issued
<1>6. GuardInv'
  BY DEF TypeOK, GuardInv, Completing
<1>7. ExitInv'
  BY DEF TypeOK, ExitInv, OutOfWork
<1>8. OpInv' /\ MapInv' /\ UniqueInv' /\ SockInv' /\ OutcomeInv'
  BY DEF OpInv, Outstanding, Issued, MapInv, NotErased, UniqueInv, Listed,
         SockInv, OutcomeInv, CallbackEc, Completing
<1> QED
  BY <1>1, <1>2, <1>3, <1>4, <1>5, <1>6, <1>7, <1>8

LEMMA HandlerErrorStep ==
  ASSUME IInv, NEW t \in Threads, NEW s \in Sessions,
         HandlerError(t, s)
  PROVE  IInv'
<1> USE ThreadsAssumption, UserAssumption, BoundAssumption
    DEF IInv, HandlerError, Dequeue, uiVars, mapVars, resultVars, cancelVars,
        opVars, thVars, reportVars
<1>1. op[s] # "none" /\ Outstanding(s)
  BY DEF TypeOK, OpInv, Ready
<1>2. \A u \in Threads : thSession[u] # s
  BY <1>1 DEF TypeOK, ThreadInv
<1>3. uiPc = "connect" => uiSession # s
  BY <1>1, <1>2 DEF ConnectInv
<1>4. thSession[t] = None
  BY DEF ThreadInv
<1>5. TypeOK'
  BY DEF TypeOK, UiPcs, ThPcs, OpKinds, OpStates, Ready, SockStates
<1>6. ConnectInv'
  BY DEF TypeOK, ConnectInv, Outstanding, Issued
<1>7. ThreadInv'
  BY <1>1, <1>3 DEF TypeOK, ThreadInv, Outstanding, Issued
<1>8. OpInv'
  BY DEF TypeOK, OpInv, Outstanding, Issued
<1>9. ChainInv'
  <2> SUFFICES ASSUME NEW r \in Sessions, Outstanding(r)'
               PROVE  \/ op'[r] # "none"
                      \/ \E u \in Threads : thSession'[u] = r
                      \/ uiPc' = "connect" /\ uiSession' = r
    BY DEF ChainInv
  <2>1. CASE r = s
    BY <2>1 DEF TypeOK
  <2>2. CASE r # s
    BY <2>2, <1>1, <1>2, <1>3, <1>4 DEF TypeOK, ChainInv, Outstanding, Issued
  <2> QED
    BY <2>1, <2>2
<1>10. GuardInv'
  BY DEF TypeOK, GuardInv, Completing
<1>11. MapInv'
  BY DEF TypeOK, MapInv, NotErased, Outstanding, Issued
<1>12. UniqueInv'
  BY DEF TypeOK, UniqueInv, NotErased, Outstanding, Issued, Listed
<1>13. SockInv'
  BY DEF TypeOK, SockInv
<1>14. OutcomeInv'
  BY <1>1 DEF TypeOK, OutcomeInv, CallbackEc, Completing, Outstanding
<1>15. ExitInv'
  BY <1>1 DEF TypeOK, ExitInv, OutOfWork
<1>16. UiInv'
  BY DEF UiInv, InCancel, Listed
<1> QED
  BY <1>5, <1>6, <1>7, <1>8, <1>9, <1>10, <1>11, <1>12, <1>13, <1>14, <1>15,
     <1>16

LEMMA OnConnectStep ==
  ASSUME IInv, NEW t \in Threads, NEW s \in Sessions,
         OnConnect(t, s)
  PROVE  IInv'
<1> USE ThreadsAssumption, UserAssumption, BoundAssumption
    DEF IInv, OnConnect, Dequeue, uiVars, mapVars, resultVars, cancelVars,
        opVars, thVars, reportVars
<1>1. op[s] # "none" /\ Outstanding(s)
  BY DEF TypeOK, OpInv, Ready
<1>2. \A u \in Threads : thSession[u] # s
  BY <1>1 DEF TypeOK, ThreadInv
<1>3. uiPc = "connect" => uiSession # s
  BY <1>1, <1>2 DEF ConnectInv
<1>4. thSession[t] = None
  BY DEF ThreadInv
<1>5. TypeOK'
  BY DEF TypeOK, UiPcs, ThPcs, OpKinds, OpStates, Ready, SockStates
<1>6. ConnectInv'
  BY DEF TypeOK, ConnectInv, Outstanding, Issued
<1>7. ThreadInv'
  BY <1>1, <1>3 DEF TypeOK, ThreadInv, Outstanding, Issued
<1>8. OpInv'
  BY DEF TypeOK, OpInv, Outstanding, Issued
<1>9. ChainInv'
  <2> SUFFICES ASSUME NEW r \in Sessions, Outstanding(r)'
               PROVE  \/ op'[r] # "none"
                      \/ \E u \in Threads : thSession'[u] = r
                      \/ uiPc' = "connect" /\ uiSession' = r
    BY DEF ChainInv
  <2>1. CASE r = s
    BY <2>1 DEF TypeOK
  <2>2. CASE r # s
    BY <2>2, <1>1, <1>2, <1>3, <1>4 DEF TypeOK, ChainInv, Outstanding, Issued
  <2> QED
    BY <2>1, <2>2
<1>10. GuardInv'
  BY DEF TypeOK, GuardInv, Completing
<1>11. MapInv'
  BY DEF TypeOK, MapInv, NotErased, Outstanding, Issued
<1>12. UniqueInv'
  BY DEF TypeOK, UniqueInv, NotErased, Outstanding, Issued, Listed
<1>13. SockInv'
  BY DEF TypeOK, SockInv
<1>14. OutcomeInv'
  BY DEF TypeOK, OutcomeInv, CallbackEc, Completing
<1>15. ExitInv'
  BY DEF TypeOK, ExitInv, OutOfWork
<1>16. UiInv'
  BY DEF UiInv, InCancel, Listed
<1> QED
  BY <1>5, <1>6, <1>7, <1>8, <1>9, <1>10, <1>11, <1>12, <1>13, <1>14, <1>15,
     <1>16

LEMMA OnWriteStep ==
  ASSUME IInv, NEW t \in Threads, NEW s \in Sessions,
         OnWrite(t, s)
  PROVE  IInv'
<1> USE ThreadsAssumption, UserAssumption, BoundAssumption
    DEF IInv, OnWrite, Dequeue, uiVars, mapVars, resultVars, cancelVars,
        opVars, thVars, reportVars
<1>1. op[s] # "none" /\ Outstanding(s)
  BY DEF TypeOK, OpInv, Ready
<1>2. \A u \in Threads : thSession[u] # s
  BY <1>1 DEF TypeOK, ThreadInv
<1>3. uiPc = "connect" => uiSession # s
  BY <1>1, <1>2 DEF ConnectInv
<1>4. thSession[t] = None
  BY DEF ThreadInv
<1>5. TypeOK'
  BY DEF TypeOK, UiPcs, ThPcs, OpKinds, OpStates, Ready, SockStates
<1>6. ConnectInv'
  BY DEF TypeOK, ConnectInv, Outstanding, Issued
<1>7. ThreadInv'
  BY <1>1, <1>3 DEF TypeOK, ThreadInv, Outstanding, Issued
<1>8. OpInv'
  BY DEF TypeOK, OpInv, Outstanding, Issued
<1>9. ChainInv'
  <2> SUFFICES ASSUME NEW r \in Sessions, Outstanding(r)'
               PROVE  \/ op'[r] # "none"
                      \/ \E u \in Threads : thSession'[u] = r
                      \/ uiPc' = "connect" /\ uiSession' = r
    BY DEF ChainInv
  <2>1. CASE r = s
    BY <2>1 DEF TypeOK
  <2>2. CASE r # s
    BY <2>2, <1>1, <1>2, <1>3, <1>4 DEF TypeOK, ChainInv, Outstanding, Issued
  <2> QED
    BY <2>1, <2>2
<1>10. GuardInv'
  BY DEF TypeOK, GuardInv, Completing
<1>11. MapInv'
  BY DEF TypeOK, MapInv, NotErased, Outstanding, Issued
<1>12. UniqueInv'
  BY DEF TypeOK, UniqueInv, NotErased, Outstanding, Issued, Listed
<1>13. SockInv'
  BY DEF TypeOK, SockInv
<1>14. OutcomeInv'
  BY DEF TypeOK, OutcomeInv, CallbackEc, Completing
<1>15. ExitInv'
  BY DEF TypeOK, ExitInv, OutOfWork
<1>16. UiInv'
  BY DEF UiInv, InCancel, Listed
<1> QED
  BY <1>5, <1>6, <1>7, <1>8, <1>9, <1>10, <1>11, <1>12, <1>13, <1>14, <1>15,
     <1>16

LEMMA OnReadStep ==
  ASSUME IInv, NEW t \in Threads, NEW s \in Sessions,
         OnRead(t, s)
  PROVE  IInv'
<1> USE ThreadsAssumption, UserAssumption, BoundAssumption
    DEF IInv, OnRead, Dequeue, uiVars, mapVars, resultVars, cancelVars, opVars,
        thVars, reportVars
<1>1. op[s] # "none" /\ Outstanding(s)
  BY DEF TypeOK, OpInv, Ready
<1>2. \A u \in Threads : thSession[u] # s
  BY <1>1 DEF TypeOK, ThreadInv
<1>3. uiPc = "connect" => uiSession # s
  BY <1>1, <1>2 DEF ConnectInv
<1>4. thSession[t] = None
  BY DEF ThreadInv
<1>5. TypeOK'
  BY DEF TypeOK, UiPcs, ThPcs, OpKinds, OpStates, Ready, SockStates
<1>6. ConnectInv'
  BY DEF TypeOK, ConnectInv, Outstanding, Issued
<1>7. ThreadInv'
  BY <1>1, <1>3 DEF TypeOK, ThreadInv, Outstanding, Issued
<1>8. OpInv'
  BY DEF TypeOK, OpInv, Outstanding, Issued
<1>9. ChainInv'
  <2> SUFFICES ASSUME NEW r \in Sessions, Outstanding(r)'
               PROVE  \/ op'[r] # "none"
                      \/ \E u \in Threads : thSession'[u] = r
                      \/ uiPc' = "connect" /\ uiSession' = r
    BY DEF ChainInv
  <2>1. CASE r = s
    BY <2>1 DEF TypeOK
  <2>2. CASE r # s
    BY <2>2, <1>1, <1>2, <1>3, <1>4 DEF TypeOK, ChainInv, Outstanding, Issued
  <2> QED
    BY <2>1, <2>2
<1>10. GuardInv'
  BY DEF TypeOK, GuardInv, Completing
<1>11. MapInv'
  BY DEF TypeOK, MapInv, NotErased, Outstanding, Issued
<1>12. UniqueInv'
  BY DEF TypeOK, UniqueInv, NotErased, Outstanding, Issued, Listed
<1>13. SockInv'
  BY DEF TypeOK, SockInv
<1>14. OutcomeInv'
  BY DEF TypeOK, OutcomeInv, CallbackEc, Completing
<1>15. ExitInv'
  BY DEF TypeOK, ExitInv, OutOfWork
<1>16. UiInv'
  BY DEF UiInv, InCancel, Listed
<1> QED
  BY <1>5, <1>6, <1>7, <1>8, <1>9, <1>10, <1>11, <1>12, <1>13, <1>14, <1>15,
     <1>16

LEMMA SeenCancelledStep ==
  ASSUME IInv, NEW t \in Threads,
         SeenCancelled(t)
  PROVE  IInv'
<1> USE ThreadsAssumption, UserAssumption, BoundAssumption
    DEF IInv, SeenCancelled, Goto, uiVars, mapVars, resultVars, cancelVars,
        opVars, thVars, reportVars
<1>1. TypeOK'
  BY DEF TypeOK, UiPcs, ThPcs, OpKinds, OpStates, Ready, SockStates
<1>2. ThreadInv'
  BY DEF TypeOK, ThreadInv, Outstanding, Issued
<1>3. GuardInv'
  BY DEF TypeOK, GuardInv, Completing
<1>4. MapInv'
  BY DEF TypeOK, MapInv, NotErased, Outstanding, Issued
<1>5. UniqueInv'
  BY DEF TypeOK, UniqueInv, NotErased, Outstanding, Issued, Listed
<1>6. SockInv'
  BY DEF TypeOK, SockInv
<1>7. OutcomeInv'
  BY DEF TypeOK, OutcomeInv, CallbackEc, Completing
<1>8. ExitInv'
  BY DEF TypeOK, ExitInv, OutOfWork
<1>9. UiInv' /\ ConnectInv' /\ OpInv' /\ ChainInv'
  BY DEF UiInv, InCancel, Listed, ConnectInv, Outstanding, Issued, OpInv,
         ChainInv
<1> QED
  BY <1>1, <1>2, <1>3, <1>4, <1>5, <1>6, <1>7, <1>8, <1>9

LEMMA NotCancelledStep ==
  ASSUME IInv, NEW t \in Threads,
         NotCancelled(t)
  PROVE  IInv'
<1> USE ThreadsAssumption, UserAssumption, BoundAssumption
    DEF IInv, NotCancelled, Goto, uiVars, mapVars, resultVars, cancelVars,
        opVars, thVars, reportVars
<1>1. TypeOK'
  BY DEF TypeOK, UiPcs, ThPcs, OpKinds, OpStates, Ready, SockStates
<1>2. ThreadInv'
  BY DEF TypeOK, ThreadInv, Outstanding, Issued
<1>3. GuardInv'
  BY DEF TypeOK, GuardInv, Completing
<1>4. MapInv'
  BY DEF TypeOK, MapInv, NotErased, Outstanding, Issued
<1>5. UniqueInv'
  BY DEF TypeOK, UniqueInv, NotErased, Outstanding, Issued, Listed
<1>6. SockInv'
  BY DEF TypeOK, SockInv
<1>7. OutcomeInv'
  BY DEF TypeOK, OutcomeInv, CallbackEc, Completing
<1>8. ExitInv'
  BY DEF TypeOK, ExitInv, OutOfWork
<1>9. UiInv' /\ ConnectInv' /\ OpInv' /\ ChainInv'
  BY DEF UiInv, InCancel, Listed, ConnectInv, Outstanding, Issued, OpInv,
         ChainInv
<1> QED
  BY <1>1, <1>2, <1>3, <1>4, <1>5, <1>6, <1>7, <1>8, <1>9

LEMMA AsyncWriteStep ==
  ASSUME IInv, NEW t \in Threads,
         AsyncWrite(t)
  PROVE  IInv'
<1> USE ThreadsAssumption, UserAssumption, BoundAssumption
    DEF IInv, AsyncWrite, StartOp, Return, uiVars, mapVars, resultVars,
        cancelVars, opVars, thVars, reportVars
<1>1. /\ thSession[t] \in Sessions
      /\ Outstanding(thSession[t])
      /\ op[thSession[t]] = "none"
  BY DEF TypeOK, ThreadInv
<1>2. uiPc = "connect" => uiSession # thSession[t]
  BY DEF TypeOK, ThreadInv
<1>3. TypeOK'
  BY <1>1 DEF TypeOK, UiPcs, ThPcs, OpKinds, OpStates, Ready, SockStates
<1>4. ConnectInv'
  BY <1>2 DEF TypeOK, ConnectInv, Outstanding, Issued
<1>5. ThreadInv'
  BY DEF TypeOK, ThreadInv, Outstanding, Issued
<1>6. OpInv'
  BY <1>1 DEF TypeOK, OpInv, Outstanding, Issued
<1>7. ChainInv'
  BY DEF TypeOK, ChainInv, Outstanding, Issued
<1>8. GuardInv'
  BY DEF TypeOK, GuardInv, Completing
<1>9. MapInv'
  BY DEF TypeOK, MapInv, NotErased, Outstanding, Issued
<1>10. UniqueInv'
  BY DEF TypeOK, UniqueInv, NotErased, Outstanding, Issued, Listed
<1>11. SockInv'
  BY DEF TypeOK, SockInv
<1>12. OutcomeInv'
  BY DEF TypeOK, OutcomeInv, CallbackEc, Completing
<1>13. ExitInv'
  BY DEF TypeOK, ExitInv, OutOfWork
<1>14. UiInv'
  BY DEF UiInv, InCancel, Listed
<1> QED
  BY <1>3, <1>4, <1>5, <1>6, <1>7, <1>8, <1>9, <1>10, <1>11, <1>12, <1>13,
     <1>14

LEMMA AsyncReadUntilStep ==
  ASSUME IInv, NEW t \in Threads,
         AsyncReadUntil(t)
  PROVE  IInv'
<1> USE ThreadsAssumption, UserAssumption, BoundAssumption
    DEF IInv, AsyncReadUntil, StartOp, Return, uiVars, mapVars, resultVars,
        cancelVars, opVars, thVars, reportVars
<1>1. /\ thSession[t] \in Sessions
      /\ Outstanding(thSession[t])
      /\ op[thSession[t]] = "none"
  BY DEF TypeOK, ThreadInv
<1>2. uiPc = "connect" => uiSession # thSession[t]
  BY DEF TypeOK, ThreadInv
<1>3. TypeOK'
  BY <1>1 DEF TypeOK, UiPcs, ThPcs, OpKinds, OpStates, Ready, SockStates
<1>4. ConnectInv'
  BY <1>2 DEF TypeOK, ConnectInv, Outstanding, Issued
<1>5. ThreadInv'
  BY DEF TypeOK, ThreadInv, Outstanding, Issued
<1>6. OpInv'
  BY <1>1 DEF TypeOK, OpInv, Outstanding, Issued
<1>7. ChainInv'
  BY DEF TypeOK, ChainInv, Outstanding, Issued
<1>8. GuardInv'
  BY DEF TypeOK, GuardInv, Completing
<1>9. MapInv'
  BY DEF TypeOK, MapInv, NotErased, Outstanding, Issued
<1>10. UniqueInv'
  BY DEF TypeOK, UniqueInv, NotErased, Outstanding, Issued, Listed
<1>11. SockInv'
  BY DEF TypeOK, SockInv
<1>12. OutcomeInv'
  BY DEF TypeOK, OutcomeInv, CallbackEc, Completing
<1>13. ExitInv'
  BY DEF TypeOK, ExitInv, OutOfWork
<1>14. UiInv'
  BY DEF UiInv, InCancel, Listed
<1> QED
  BY <1>3, <1>4, <1>5, <1>6, <1>7, <1>8, <1>9, <1>10, <1>11, <1>12, <1>13,
     <1>14

LEMMA ShutdownStep ==
  ASSUME IInv, NEW t \in Threads,
         Shutdown(t)
  PROVE  IInv'
<1> USE ThreadsAssumption, UserAssumption, BoundAssumption
    DEF IInv, Shutdown, Goto, uiVars, mapVars, resultVars, cancelVars, opVars,
        thVars, reportVars
<1>1. /\ thSession[t] \in Sessions
      /\ Outstanding(thSession[t])
      /\ op[thSession[t]] = "none"
  BY DEF TypeOK, ThreadInv
<1>2. TypeOK'
  BY DEF TypeOK, UiPcs, ThPcs, OpKinds, OpStates, Ready, SockStates
<1>3. ConnectInv'
  BY DEF TypeOK, ConnectInv, Outstanding, Issued
<1>4. ThreadInv'
  BY DEF TypeOK, ThreadInv, Outstanding, Issued
<1>5. OpInv'
  BY DEF TypeOK, OpInv, Outstanding, Issued
<1>6. ChainInv'
  BY DEF TypeOK, ChainInv, Outstanding, Issued
<1>7. GuardInv'
  BY DEF TypeOK, GuardInv, Completing
<1>8. MapInv'
  BY DEF TypeOK, MapInv, NotErased, Outstanding, Issued
<1>9. UniqueInv'
  BY DEF TypeOK, UniqueInv, NotErased, Outstanding, Issued, Listed
<1>10. SockInv'
  BY <1>1 DEF TypeOK, SockInv
<1>11. OutcomeInv'
  BY DEF TypeOK, OutcomeInv, CallbackEc, Completing
<1>12. ExitInv'
  BY DEF TypeOK, ExitInv, OutOfWork
<1>13. UiInv'
  BY DEF UiInv, InCancel, Listed
<1> QED
  BY <1>2, <1>3, <1>4, <1>5, <1>6, <1>7, <1>8, <1>9, <1>10, <1>11, <1>12, <1>13

LEMMA EraseStep ==
  ASSUME IInv, NEW t \in Threads,
         Erase(t)
  PROVE  IInv'
<1> USE ThreadsAssumption, UserAssumption, BoundAssumption
    DEF IInv, Erase, Goto, uiVars, mapVars, resultVars, cancelVars, opVars,
        thVars, reportVars
<1>1. /\ thSession[t] \in Sessions
      /\ Outstanding(thSession[t])
      /\ op[thSession[t]] = "none"
  BY DEF TypeOK, ThreadInv
<1>2. \A u \in Threads : u # t => thSession[u] # thSession[t]
  BY DEF TypeOK, ThreadInv
<1>3. TypeOK'
  BY DEF TypeOK, UiPcs, ThPcs, OpKinds, OpStates, Ready, SockStates
<1>4. UiInv'
  BY DEF TypeOK, UiInv, InCancel, Listed
<1>5. ThreadInv'
  BY DEF TypeOK, ThreadInv, Outstanding, Issued
<1>6. GuardInv'
  BY DEF TypeOK, GuardInv, Completing
<1>7. MapInv'
  BY DEF TypeOK, MapInv, NotErased, Outstanding, Issued
<1>8. UniqueInv'
  BY <1>1, <1>2 DEF TypeOK, UniqueInv, NotErased, Outstanding, Issued, Listed
<1>9. SockInv'
  BY DEF TypeOK, SockInv
<1>10. OutcomeInv'
  BY DEF TypeOK, OutcomeInv, CallbackEc, Completing
<1>11. ExitInv'
  BY DEF TypeOK, ExitInv, OutOfWork
<1>12. ConnectInv' /\ OpInv' /\ ChainInv'
  BY DEF ConnectInv, Outstanding, Issued, OpInv, ChainInv
<1> QED
  BY <1>3, <1>4, <1>5, <1>6, <1>7, <1>8, <1>9, <1>10, <1>11, <1>12

LEMMA CallbackStep ==
  ASSUME IInv, NEW t \in Threads,
         Callback(t)
  PROVE  IInv'
<1> USE ThreadsAssumption, UserAssumption, BoundAssumption
    DEF IInv, Callback, Return, uiVars, mapVars, resultVars, cancelVars,
        opVars, thVars, reportVars
<1>1. /\ thSession[t] \in Sessions
      /\ Outstanding(thSession[t])
      /\ op[thSession[t]] = "none"
  BY DEF TypeOK, ThreadInv
<1>2. uiPc = "connect" => uiSession # thSession[t]
  BY DEF TypeOK, ThreadInv
<1>3. TypeOK'
  BY <1>1 DEF TypeOK, UiPcs, ThPcs, OpKinds, OpStates, Ready, SockStates,
         CallbackEc
<1>4. ConnectInv'
  BY <1>2 DEF TypeOK, ConnectInv, Outstanding, Issued
<1>5. ThreadInv'
  BY DEF TypeOK, ThreadInv, Outstanding, Issued
<1>6. OpInv'
  BY <1>1 DEF TypeOK, OpInv, Outstanding, Issued
<1>7. ChainInv'
  BY DEF TypeOK, ChainInv, Outstanding, Issued
<1>8. GuardInv'
  BY DEF TypeOK, GuardInv, Completing
<1>9. MapInv'
  BY DEF TypeOK, MapInv, NotErased, Outstanding, Issued
<1>10. UniqueInv'
  BY DEF TypeOK, UniqueInv, NotErased, Outstanding, Issued, Listed
<1>11. SockInv'
  BY <1>1 DEF TypeOK, SockInv, Outstanding, Issued
<1>12. OutcomeInv'
  BY <1>1 DEF TypeOK, OutcomeInv, CallbackEc, Completing, Outstanding
<1>13. ExitInv'
  BY DEF TypeOK, ExitInv, OutOfWork
<1>14. UiInv'
  BY DEF UiInv, InCancel, Listed
<1> QED
  BY <1>3, <1>4, <1>5, <1>6, <1>7, <1>8, <1>9, <1>10, <1>11, <1>12, <1>13,
     <1>14

LEMMA ResumeStep ==
  ASSUME IInv, NEW t \in Threads, NEW s \in Sessions,
         Resume(t, s)
  PROVE  IInv'
<1> USE ThreadsAssumption, UserAssumption, BoundAssumption
    DEF IInv, Resume, uiVars, mapVars, resultVars, cancelVars, opVars, thVars,
        reportVars
<1>1. TypeOK'
  BY DEF TypeOK, UiPcs, ThPcs, OpKinds, OpStates, Ready, SockStates
<1>2. OpInv'
  BY DEF TypeOK, OpInv, Outstanding, Issued
<1>3. OutcomeInv'
  BY DEF TypeOK, OutcomeInv, CallbackEc, Completing
<1>4. /\ UiInv' /\ ConnectInv' /\ ThreadInv' /\ ChainInv' /\ GuardInv'
      /\ MapInv' /\ UniqueInv' /\ SockInv' /\ ExitInv'
  BY DEF UiInv, InCancel, Listed, ConnectInv, Outstanding, Issued, ThreadInv,
         ChainInv, GuardInv, Completing, MapInv, NotErased, UniqueInv, SockInv,
         ExitInv, OutOfWork
<1> QED
  BY <1>1, <1>2, <1>3, <1>4

LEMMA ExitStep ==
  ASSUME IInv, NEW t \in Threads,
         Exit(t)
  PROVE  IInv'
<1> USE ThreadsAssumption, UserAssumption, BoundAssumption
    DEF IInv, Exit, Goto, uiVars, mapVars, resultVars, cancelVars, opVars,
        thVars, reportVars
<1>1. TypeOK'
  BY DEF TypeOK, UiPcs, ThPcs, OpKinds, OpStates, Ready, SockStates
<1>2. ThreadInv'
  BY DEF TypeOK, ThreadInv, Outstanding, Issued
<1>3. GuardInv'
  BY DEF TypeOK, GuardInv, Completing
<1>4. MapInv'
  BY DEF TypeOK, MapInv, NotErased, Outstanding, Issued
<1>5. UniqueInv'
  BY DEF TypeOK, UniqueInv, NotErased, Outstanding, Issued, Listed
<1>6. SockInv'
  BY DEF TypeOK, SockInv
<1>7. OutcomeInv'
  BY DEF TypeOK, OutcomeInv, CallbackEc, Completing
<1>8. ExitInv'
  BY DEF TypeOK, ExitInv, OutOfWork
<1>9. UiInv' /\ ConnectInv' /\ OpInv' /\ ChainInv'
  BY DEF UiInv, InCancel, Listed, ConnectInv, Outstanding, Issued, OpInv,
         ChainInv
<1> QED
  BY <1>1, <1>2, <1>3, <1>4, <1>5, <1>6, <1>7, <1>8, <1>9

LEMMA ProgressStep ==
  ASSUME IInv, NEW s \in Sessions,
         Progress(s)
  PROVE  IInv'
<1> USE ThreadsAssumption, UserAssumption, BoundAssumption
    DEF IInv, Progress, uiVars, mapVars, resultVars, cancelVars, opVars,
        thVars, reportVars
<1>1. TypeOK'
  BY DEF TypeOK, UiPcs, ThPcs, OpKinds, OpStates, Ready, SockStates
<1>2. OpInv'
  BY DEF TypeOK, OpInv, Outstanding, Issued
<1>3. OutcomeInv'
  BY DEF TypeOK, OutcomeInv, CallbackEc, Completing
<1>4. /\ UiInv' /\ ConnectInv' /\ ThreadInv' /\ ChainInv' /\ GuardInv'
      /\ MapInv' /\ UniqueInv' /\ SockInv' /\ ExitInv'
  BY DEF UiInv, InCancel, Listed, ConnectInv, Outstanding, Issued, ThreadInv,
         ChainInv, GuardInv, Completing, MapInv, NotErased, UniqueInv, SockInv,
         ExitInv, OutOfWork
<1> QED
  BY <1>1, <1>2, <1>3, <1>4

LEMMA CompleteStep ==
  ASSUME IInv, NEW s \in Sessions, NEW ec \in {"ok", "error"},
         Complete(s, ec)
  PROVE  IInv'
<1> USE ThreadsAssumption, UserAssumption, BoundAssumption
    DEF IInv, Complete, uiVars, mapVars, resultVars, cancelVars, opVars,
        thVars, reportVars
<1>1. op[s] # "none" /\ Outstanding(s)
  BY DEF TypeOK, OpInv, Ready
<1>2. \A u \in Threads : thSession[u] # s
  BY <1>1 DEF TypeOK, ThreadInv
<1>3. TypeOK'
  BY DEF TypeOK, UiPcs, ThPcs, OpKinds, OpStates, Ready, SockStates
<1>4. ConnectInv'
  BY DEF TypeOK, ConnectInv, Outstanding, Issued
<1>5. ThreadInv'
  BY DEF TypeOK, ThreadInv, Outstanding, Issued
<1>6. OpInv'
  BY DEF TypeOK, OpInv, Outstanding, Issued
<1>7. ChainInv'
  BY DEF TypeOK, ChainInv, Outstanding, Issued
<1>8. MapInv'
  BY DEF TypeOK, MapInv, NotErased, Outstanding, Issued
<1>9. UniqueInv'
  BY <1>1 DEF TypeOK, UniqueInv, NotErased, Outstanding, Issued, Listed
<1>10. SockInv'
  BY <1>1, <1>2 DEF TypeOK, SockInv, Outstanding
<1>11. OutcomeInv'
  BY DEF TypeOK, OutcomeInv, CallbackEc, Completing
<1>12. UiInv' /\ GuardInv' /\ ExitInv'
  BY DEF UiInv, InCancel, Listed, GuardInv, Completing, ExitInv, OutOfWork
<1> QED
  BY <1>3, <1>4, <1>5, <1>6, <1>7, <1>8, <1>9, <1>10, <1>11, <1>12

LEMMA StutterStep ==
  ASSUME IInv, UNCHANGED vars
  PROVE  IInv'
BY DEF IInv, vars, uiVars, mapVars, resultVars, cancelVars, opVars, thVars,
       reportVars, TypeOK, UiInv, ConnectInv, ThreadInv, OpInv, ChainInv,
       GuardInv, MapInv, UniqueInv, SockInv, OutcomeInv, ExitInv, InCancel,
       Listed, Outstanding, Issued, Completing, NotErased, CallbackEc,
       OutOfWork

-----------------------------------------------------------------------------

LEMMA InitEstablishes == Init => IInv
<1> SUFFICES ASSUME Init PROVE IInv
  OBVIOUS
<1> USE ThreadsAssumption, UserAssumption, BoundAssumption
    DEF Init
<1>1. TypeOK
  <2>1. (CHOOSE id \in Ids : TRUE) \in Ids
    OBVIOUS
  <2> QED
    BY <2>1 DEF TypeOK, UiPcs, ThPcs, OpKinds, OpStates, Ready, SockStates
<1>2. UiInv /\ ConnectInv /\ GuardInv
  BY DEF UiInv, InCancel, ConnectInv, GuardInv
<1>3. ThreadInv /\ OpInv /\ ChainInv /\ ExitInv
  BY DEF ThreadInv, OpInv, ChainInv, Outstanding, Issued, ExitInv
<1>4. MapInv /\ UniqueInv /\ SockInv /\ OutcomeInv
  BY DEF MapInv, UniqueInv, NotErased, Outstanding, Issued, SockInv, OutcomeInv
<1> QED
  BY <1>1, <1>2, <1>3, <1>4 DEF IInv

LEMMA NextPreserves ==
  ASSUME IInv, [Next]_vars
  PROVE  IInv'
<1>1. CASE UNCHANGED vars
  BY <1>1, StutterStep
<1>2. CASE UiContinues
  BY <1>2, AsyncConnectStep, CancelFlagStep, CancelSockStep, JoinStep
     DEF UiContinues
<1>3. CASE User \/ OpenFails
  BY <1>3, InsertStep, CancelFindStep, CloseStep, OpenFailsStep DEF User
<1>4. ASSUME NEW t \in Threads, HandlerStep(t) PROVE IInv'
  BY <1>4, SeenCancelledStep, NotCancelledStep, AsyncWriteStep,
     AsyncReadUntilStep, ShutdownStep, EraseStep, CallbackStep, ExitStep
     DEF HandlerStep
<1>5. ASSUME NEW t \in Threads, NEW s \in Sessions, Dispatch(t, s) PROVE IInv'
  BY <1>5, HandlerErrorStep, OnConnectStep, OnWriteStep, OnReadStep, ResumeStep
     DEF Dispatch
<1>6. ASSUME NEW s \in Sessions, Kernel(s) PROVE IInv'
  BY <1>6, ProgressStep, CompleteStep DEF Kernel
<1> QED
  BY <1>1, <1>2, <1>3, <1>4, <1>5, <1>6 DEF Next, Finished

\* The invariant holds in every reachable state.
THEOREM Invariance == Spec => []IInv
<1> QED
  BY InitEstablishes, NextPreserves, PTL DEF Spec

-----------------------------------------------------------------------------
(* The properties *)

\* Every variable keeps its type.
THEOREM TypeCorrectness == Spec => []TypeOK
<1>1. IInv => TypeOK
  BY DEF IInv
<1> QED
  BY <1>1, Invariance, PTL

\* The unguarded read of m_was_cancelled in onRequestComplete never meets the
\* guarded write in cancelRequest.
THEOREM RaceFreedom == Spec => []CancelFlagRaceFree
<1>1. IInv => CancelFlagRaceFree
  <2> SUFFICES ASSUME IInv, NEW t \in Threads, thPc[t] = "callback", InCancel
               PROVE  uiSession # thSession[t]
    BY DEF CancelFlagRaceFree, InCancel
  <2>1. uiSession \in Sessions /\ Listed(uiSession)
    BY ThreadsAssumption DEF IInv, TypeOK, UiInv, InCancel
  <2>2. NotErased(uiSession)
    BY <2>1, ThreadsAssumption DEF IInv, TypeOK, MapInv, Listed
  <2> QED
    BY <2>2 DEF NotErased
<1> QED
  BY <1>1, Invariance, PTL

\* The unguarded members of a Session belong to one thread at a time.
THEOREM SingleDriver == Spec => []SoleDriver
<1>1. IInv => SoleDriver
  BY ThreadsAssumption DEF IInv, ThreadInv, SoleDriver, Outstanding
<1> QED
  BY <1>1, Invariance, PTL

\* The callback is told the truth, and the request leaves nothing behind.
THEOREM TruthfulOutcome == Spec => []OutcomeMatchesCancel
<1>1. IInv => OutcomeMatchesCancel
  <2> SUFFICES ASSUME IInv, NEW s \in Sessions, calls[s] > 0
               PROVE  /\ outcome[s] = "ok" =>
                           m_response[s] /\ ~m_was_cancelled[s]
                      /\ outcome[s] = "aborted" => m_was_cancelled[s]
                      /\ m_sock[s] # "connected"
                      /\ op[s] = "none"
                      /\ \A id \in Ids : m_active_sessions[id] # s
                      /\ m_cancel_guard[s] \notin Threads
    BY DEF OutcomeMatchesCancel
  <2>1. ~Outstanding(s)
    BY DEF Outstanding
  <2>2. outcome[s] = CallbackEc(s)
    BY DEF IInv, OutcomeInv
  <2>3. outcome[s] = "ok" => m_response[s] /\ ~m_was_cancelled[s]
    BY <2>2 DEF IInv, OutcomeInv, CallbackEc
  <2>4. outcome[s] = "aborted" => m_was_cancelled[s]
    BY <2>2 DEF IInv, OutcomeInv, CallbackEc
  <2>5. m_sock[s] # "connected" /\ op[s] = "none"
    BY <2>1 DEF IInv, SockInv, OpInv
  <2>6. \A id \in Ids : m_active_sessions[id] # s
    BY <2>1, ThreadsAssumption DEF IInv, MapInv, NotErased
  <2>7. m_cancel_guard[s] \notin Threads
    BY <2>1, ThreadsAssumption DEF IInv, GuardInv, ThreadInv
  <2> QED
    BY <2>3, <2>4, <2>5, <2>6, <2>7
<1> QED
  BY <1>1, Invariance, PTL

\* When close() returns every issued request has been reported once.
THEOREM CloseDrained == Spec => []CloseDrains
<1>1. IInv => CloseDrains
  <2> SUFFICES ASSUME IInv, uiPc = "closed"
               PROVE  /\ \A s \in Sessions : Issued(s) => calls[s] = 1
                      /\ \A id \in Ids : m_active_sessions[id] = None
    BY DEF CloseDrains
  <2>1. \A t \in Threads : thPc[t] = "exited"
    BY DEF IInv, ExitInv
  <2>2. \A s \in Sessions : op[s] = "none"
    BY <2>1, ThreadsAssumption DEF IInv, ExitInv, OutOfWork
  <2>3. \A t \in Threads : thSession[t] = None
    BY <2>1 DEF IInv, ThreadInv
  <2>4. \A s \in Sessions : ~Outstanding(s)
    BY <2>2, <2>3, ThreadsAssumption DEF IInv, ChainInv
  <2>5. \A s \in Sessions : Issued(s) => calls[s] = 1
    BY <2>4 DEF IInv, OutcomeInv, Outstanding
  <2>6. \A id \in Ids : m_active_sessions[id] = None
    BY <2>4 DEF IInv, TypeOK, MapInv, NotErased
  <2> QED
    BY <2>5, <2>6
<1> QED
  BY <1>1, Invariance, PTL

\* A user who cancels each request once is never blocked by a handler.
THEOREM LockOrder ==
  ASSUME ~CancelTwice
  PROVE  Spec => []NoLockCycle
<1>1. IInv => NoLockCycle
  <2> SUFFICES ASSUME IInv, uiPc = "lockSession"
               PROVE  m_cancel_guard[uiSession] \notin Threads
    BY DEF NoLockCycle
  <2>1. uiSession \in Sessions
    BY DEF IInv, TypeOK, UiInv
  <2>2. ~m_was_cancelled[uiSession]
    BY DEF IInv, UiInv
  <2> QED
    BY <2>1, <2>2 DEF IInv, GuardInv
<1> QED
  BY <1>1, Invariance, PTL

\* With unique ids the map lists exactly the requests that can be cancelled.
THEOREM Listing ==
  ASSUME ~ReuseIds
  PROVE  Spec => []ActiveListed
<1>1. IInv => ActiveListed
  <2> SUFFICES ASSUME IInv, NEW s \in Sessions
               PROVE  NotErased(s) <=> Listed(s)
    BY DEF ActiveListed
  <2>1. NotErased(s) => Listed(s)
    BY DEF IInv, UniqueInv
  <2>2. Listed(s) => NotErased(s)
    BY ThreadsAssumption DEF IInv, TypeOK, MapInv, Listed
  <2> QED
    BY <2>1, <2>2
<1> QED
  BY <1>1, Invariance, PTL

-----------------------------------------------------------------------------
(* AsyncTCPClient implements RequestLifecycle: four actions are the abstract *)
(* ones, and all the others are stuttering steps.                            *)

LEMMA InitImplements == Init => RL!Init
BY DEF Init, RL!Init, Status, Issued

\* A step that opens no socket, calls no callback, sets no flag and does not
\* finish close() is invisible.
LEMMA Invisible ==
  ASSUME TypeOK, UNCHANGED <<m_was_cancelled, calls, outcome>>,
         \A s \in Sessions : Issued(s)' <=> Issued(s),
         (uiPc = "closed")' <=> uiPc = "closed"
  PROVE  UNCHANGED RL!vars
<1>1. Status' = Status
  BY DEF Status
<1> QED
  BY <1>1 DEF RL!vars

LEMMA InsertImplements ==
  ASSUME IInv, NEW s \in Sessions, NEW id \in Ids, Insert(s, id)
  PROVE  RL!Issue(s)
<1>1. calls[s] = 0 /\ ~Issued(s) /\ uiPc = "idle"
  BY DEF IInv, TypeOK, SockInv, OutcomeInv, Insert, Issued
<1>2. Status[s] = "new"
  BY <1>1 DEF Status
<1>3. Status' = [Status EXCEPT ![s] = "active"]
  <2>1. Status'[s] = "active"
    BY <1>1 DEF IInv, TypeOK, Insert, reportVars, Status, Issued
  <2>2. \A r \in Sessions \ {s} : Status'[r] = Status[r]
    BY <1>1 DEF IInv, TypeOK, Insert, reportVars, Status, Issued
  <2> QED
    BY <2>1, <2>2 DEF Status
<1> QED
  BY <1>1, <1>2, <1>3 DEF RL!Issue, Insert, cancelVars, reportVars

LEMMA CancelFlagImplements ==
  ASSUME IInv, CancelFlag
  PROVE  uiSession \in Sessions /\ RL!Cancel(uiSession)
<1>1. uiSession \in Sessions
  BY DEF IInv, TypeOK, UiInv, CancelFlag
<1>2. Outstanding(uiSession)
  BY <1>1, ThreadsAssumption
     DEF IInv, TypeOK, UiInv, InCancel, MapInv, Listed, NotErased, CancelFlag
<1>3. Status[uiSession] = "active"
  BY <1>1, <1>2 DEF Status, Outstanding
<1>4. Status' = Status
  BY DEF CancelFlag, reportVars, Status, Issued
<1> QED
  BY <1>1, <1>3, <1>4 DEF RL!Cancel, CancelFlag, reportVars

LEMMA CallbackImplements ==
  ASSUME IInv, NEW t \in Threads, Callback(t)
  PROVE  \E s \in Sessions, o \in RL!Outcomes : RL!Finish(s, o)
<1> DEFINE s == thSession[t]
           o == CallbackEc(s)
<1>1. s \in Sessions /\ Outstanding(s)
  BY DEF IInv, TypeOK, ThreadInv, Callback
<1>2. o \in RL!Outcomes
  BY <1>1 DEF IInv, TypeOK, CallbackEc, Ready, RL!Outcomes
<1>3. Status[s] = "active"
  BY <1>1 DEF Status, Outstanding
<1>4. (o = "ok" => ~m_was_cancelled[s]) /\ (o = "aborted" => m_was_cancelled[s])
  BY <1>1 DEF IInv, OutcomeInv, CallbackEc
<1>5. /\ calls' = [calls EXCEPT ![s] = @ + 1]
      /\ outcome' = [outcome EXCEPT ![s] = o]
  BY DEF Callback
<1>6. Status' = [Status EXCEPT ![s] = o]
  <2>1. Status'[s] = o
    BY <1>1, <1>5 DEF IInv, TypeOK, Status, Outstanding
  <2>2. \A r \in Sessions \ {s} : Status'[r] = Status[r]
    BY <1>1, <1>5 DEF IInv, TypeOK, Status, Issued, Callback
  <2>3. Status' = [r \in Sessions |-> Status'[r]]
    BY DEF Status
  <2>4. Status = [r \in Sessions |-> Status[r]]
    BY DEF Status
  <2> HIDE DEF s, o
  <2> QED
    BY <1>1, <2>1, <2>2, <2>3, <2>4
<1>7. RL!Finish(s, o)
  BY <1>3, <1>4, <1>5, <1>6 DEF RL!Finish, Callback, uiVars
<1> QED
  BY <1>1, <1>2, <1>7

LEMMA JoinImplements ==
  ASSUME IInv, IInv', Join
  PROVE  RL!Close
<1>1. \A s \in Sessions : Status[s] # "active"
  <2>1. \A t \in Threads : thPc[t] = "exited" /\ thSession[t] = None
    BY DEF IInv, ThreadInv, Join
  <2>2. \A s \in Sessions : op[s] = "none"
    BY <2>1, ThreadsAssumption DEF IInv, ExitInv, OutOfWork
  <2>3. \A s \in Sessions : ~Outstanding(s)
    BY <2>1, <2>2, ThreadsAssumption DEF IInv, ChainInv, Join
  <2>4. ASSUME NEW s \in Sessions, calls[s] > 0
        PROVE  outcome[s] # "active"
    BY <2>4 DEF IInv, TypeOK, Ready
  <2> QED
    BY <2>3, <2>4 DEF IInv, OutcomeInv, Status, Outstanding
<1>2. Status' = Status
  BY DEF Join, reportVars, Status, Issued
<1> QED
  BY <1>1, <1>2 DEF RL!Close, Join, cancelVars, reportVars

LEMMA StepImplements ==
  ASSUME IInv, IInv', [Next]_vars
  PROVE  [RL!Next]_RL!vars
<1> USE DEF uiVars, mapVars, resultVars, cancelVars, opVars, thVars, reportVars
<1>0. TypeOK
  BY DEF IInv
<1>1. CASE UNCHANGED vars
  BY <1>0, <1>1, Invisible DEF vars, Issued
<1>2. CASE AsyncConnect \/ CancelSock \/ Close \/ OpenFails
  BY <1>0, <1>2, Invisible
    DEF AsyncConnect, CancelSock, Close, OpenFails, Issued
<1>3. CASE CancelFlag
  BY <1>3, CancelFlagImplements DEF RL!Next
<1>4. CASE Join
  BY <1>4, JoinImplements DEF RL!Next
<1>5. ASSUME NEW s \in Sessions, NEW id \in Ids, Insert(s, id)
      PROVE  [RL!Next]_RL!vars
  BY <1>5, InsertImplements DEF RL!Next
<1>6. ASSUME NEW id \in Ids, CancelFind(id)
      PROVE  [RL!Next]_RL!vars
  BY <1>0, <1>6, Invisible DEF CancelFind, Issued
<1>7. ASSUME NEW t \in Threads, Callback(t)
      PROVE  [RL!Next]_RL!vars
  BY <1>7, CallbackImplements DEF RL!Next
<1>8. ASSUME NEW t \in Threads, HandlerStep(t), ~Callback(t)
      PROVE  [RL!Next]_RL!vars
  <2>1. CASE Shutdown(t)
    BY <1>0, <2>1, Invisible DEF TypeOK, Shutdown, Issued
  <2>2. CASE ~Shutdown(t)
    BY <1>0, <1>8, <2>2, Invisible
       DEF HandlerStep, SeenCancelled, NotCancelled, AsyncWrite,
           AsyncReadUntil, Erase, Exit, Issued
  <2> QED
    BY <2>1, <2>2
<1>9. ASSUME NEW t \in Threads, NEW s \in Sessions, Dispatch(t, s)
      PROVE  [RL!Next]_RL!vars
  BY <1>0, <1>9, Invisible
     DEF Dispatch, HandlerError, OnConnect, OnWrite, OnRead, Resume, Issued
<1>10. ASSUME NEW s \in Sessions, Kernel(s)
       PROVE  [RL!Next]_RL!vars
  <2>1. op[s] # "none" => Issued(s)
    BY DEF IInv, OpInv, Outstanding
  <2>2. ASSUME NEW r \in Sessions PROVE Issued(r)' <=> Issued(r)
    BY <1>0, <1>10, <2>1 DEF TypeOK, Kernel, Progress, Complete, Issued
  <2> QED
    BY <1>0, <1>10, <2>2, Invisible DEF Kernel, Progress, Complete
<1> QED
  BY <1>1, <1>2, <1>3, <1>4, <1>5, <1>6, <1>7, <1>8, <1>9, <1>10
     DEF Next, UiContinues, User, Finished

\* Every request is reported exactly once and truthfully, only outstanding
\* requests are cancelled, and close() returns only when there is none.
THEOREM Refinement == Spec => RequestContract
<1> QED
  BY Invariance, InitImplements, StepImplements, PTL
     DEF Spec, RequestContract, RL!Spec
=============================================================================
