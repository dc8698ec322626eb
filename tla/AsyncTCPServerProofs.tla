------------------------ MODULE AsyncTCPServerProofs ------------------------
(***************************************************************************)
(* Proofs about AsyncTCPServer, for any pool of threads and any clients.   *)
(* The inductive invariant IInv says who owns a Service, who will start    *)
(* the next accept operation, and how far each connection has come.        *)
(***************************************************************************)
EXTENDS AsyncTCPServer, TLAPS

InService(t) ==
  thPc[t] \in {"startHandling", "processRequest", "startWrite", "finish"}

\* The main thread has made and stopped things in this order.
MainInv ==
  /\ mainPc = "start" =>
       /\ accept = "none" /\ m_acceptor = "none"
       /\ \A t \in Threads : thPc[t] = "none"
  /\ mainPc \in {"stop", "join", "stopped"} => m_isStopped
  /\ mainPc = "stopped" => \A t \in Threads : thPc[t] = "exited"

\* One thread works for a Service, between two of its operations.
ThreadInv ==
  \A t \in Threads :
    /\ thConn[t] = None <=> ~InService(t)
    /\ thConn[t] # None =>
         /\ service[thConn[t]] = "alive"
         /\ op[thConn[t]] = "none"
         /\ \A u \in Threads : thConn[u] = thConn[t] => u = t

OpInv ==
  \A c \in Conns :
    /\ op[c] = "none" <=> opState[c] = "none"
    /\ op[c] # "none" => service[c] = "alive"

\* While the server exists a living Service is in someone's hands.
OwnerInv ==
  mainPc # "ended" =>
    \A c \in Conns :
      service[c] = "alive" => op[c] # "none" \/ \E t \in Threads : thConn[t] = c

\* The queued accept handler has a socket without a Service.
AcceptInv ==
  /\ AcceptChain
  /\ acceptSock # None <=> accept = "ok"
  /\ acceptSock # None =>
       client[acceptSock] = "accepted" /\ service[acceptSock] = "none"

\* A thread has a socket only in onAccept, and alone; the Service that shares
\* the socket has been made, and may be gone.
SockInv ==
  \A t \in Threads : sock[t] # None =>
    /\ InOnAccept(t) \/ thPc[t] = "return"
    /\ service[sock[t]] # "none"
    /\ \A u \in Threads : sock[u] = sock[t] => u = t

\* What the client sees of its connection follows the life of its Service, and
\* of the onAccept that has made it.
ClientInv ==
  \A c \in Conns :
    /\ service[c] = "alive" => client[c] = "accepted"
    /\ service[c] = "deleted" =>
         client[c] = IF Shared(c) THEN "accepted" ELSE "closed"
    /\ service[c] = "none" => ~m_response[c] /\ ~sent[c]
    /\ client[c] = "accepted" => service[c] # "none" \/ acceptSock = c

\* The response is prepared between reading and writing.
ResponseInv ==
  /\ \A c \in Conns :
       /\ op[c] = "read" => ~m_response[c] /\ ~sent[c]
       /\ op[c] = "write" => m_response[c]
       /\ op[c] = "write" /\ opState[c] = "pending" => ~sent[c]
  /\ \A t \in Threads :
       /\ thPc[t] \in {"startHandling", "processRequest"} =>
            ~m_response[thConn[t]] /\ ~sent[thConn[t]]
       /\ thPc[t] = "startWrite" => m_response[thConn[t]] /\ ~sent[thConn[t]]

IInv ==
  /\ TypeOK
  /\ MainInv
  /\ ThreadInv
  /\ OpInv
  /\ OwnerInv
  /\ AcceptInv
  /\ SockInv
  /\ ClientInv
  /\ ResponseInv

-----------------------------------------------------------------------------
(* Every action preserves IInv: one lemma per action, and in it one step for *)
(* each conjunct the action can disturb and one for all the others.        *)

LEMMA StartStep ==
  ASSUME IInv, Start
  PROVE  IInv'
<1> USE PoolAssumption, ConnsAssumption, BoundAssumption
    DEF IInv, Start, mainVars, acceptVars, connVars, opVars, thVars
<1>1. TypeOK'
  BY DEF TypeOK, MainPcs, ThPcs, OpStates, Ready
<1>2. MainInv'
  BY DEF TypeOK, MainInv
<1>3. OwnerInv'
  BY DEF TypeOK, OwnerInv
<1>4. AcceptInv'
  BY DEF TypeOK, AcceptInv, AcceptChain, InOnAccept, MainInv
<1>5. ThreadInv' /\ OpInv' /\ SockInv' /\ ClientInv' /\ ResponseInv'
  BY DEF ThreadInv, InService, OpInv, SockInv, InOnAccept, ClientInv, Shared,
         ResponseInv
<1> QED
  BY <1>1, <1>2, <1>3, <1>4, <1>5

LEMMA StartFailsStep ==
  ASSUME IInv, StartFails
  PROVE  IInv'
<1> USE PoolAssumption, ConnsAssumption, BoundAssumption
    DEF IInv, StartFails, mainVars, acceptVars, connVars, opVars, thVars
<1>1. TypeOK'
  BY DEF TypeOK, MainPcs, ThPcs, OpStates, Ready
<1>2. MainInv'
  BY DEF TypeOK, MainInv
<1>3. OwnerInv'
  BY DEF TypeOK, OwnerInv
<1>4. AcceptInv'
  BY DEF TypeOK, AcceptInv, AcceptChain, InOnAccept, MainInv
<1>5. ThreadInv' /\ OpInv' /\ SockInv' /\ ClientInv' /\ ResponseInv'
  BY DEF ThreadInv, InService, OpInv, SockInv, InOnAccept, ClientInv, Shared,
         ResponseInv
<1> QED
  BY <1>1, <1>2, <1>3, <1>4, <1>5

LEMMA SpawnStep ==
  ASSUME IInv, Spawn
  PROVE  IInv'
<1> USE PoolAssumption, ConnsAssumption, BoundAssumption
    DEF IInv, Spawn, Goto, mainVars, acceptVars, connVars, opVars, thVars
<1>1. TypeOK'
  BY DEF TypeOK, MainPcs, ThPcs, OpStates, Ready
<1>2. MainInv'
  BY DEF TypeOK, MainInv
<1>3. ThreadInv'
  BY DEF TypeOK, ThreadInv, InService
<1>4. OwnerInv'
  BY DEF TypeOK, OwnerInv
<1>5. AcceptInv'
  BY DEF TypeOK, AcceptInv, AcceptChain, InOnAccept
<1>6. ResponseInv'
  BY DEF TypeOK, ResponseInv
<1>7. OpInv' /\ ClientInv'
  BY DEF OpInv, ClientInv, Shared
<1>8. SockInv'
  BY DEF TypeOK, SockInv, InOnAccept
<1> QED
  BY <1>1, <1>2, <1>3, <1>4, <1>5, <1>6, <1>7, <1>8

LEMMA AcceptorStopStep ==
  ASSUME IInv, AcceptorStop
  PROVE  IInv'
<1> USE PoolAssumption, ConnsAssumption, BoundAssumption
    DEF IInv, AcceptorStop, mainVars, acceptVars, connVars, opVars, thVars
<1>1. TypeOK'
  BY DEF TypeOK, MainPcs, ThPcs, OpStates, Ready
<1>2. MainInv'
  BY DEF TypeOK, MainInv
<1>3. OwnerInv'
  BY DEF TypeOK, OwnerInv
<1>4. AcceptInv'
  BY DEF TypeOK, AcceptInv, AcceptChain, InOnAccept
<1>5. ThreadInv' /\ OpInv' /\ SockInv' /\ ClientInv' /\ ResponseInv'
  BY DEF ThreadInv, InService, OpInv, SockInv, InOnAccept, ClientInv, Shared,
         ResponseInv
<1> QED
  BY <1>1, <1>2, <1>3, <1>4, <1>5

LEMMA IosStopStep ==
  ASSUME IInv, IosStop
  PROVE  IInv'
<1> USE PoolAssumption, ConnsAssumption, BoundAssumption
    DEF IInv, IosStop, mainVars, acceptVars, connVars, opVars, thVars
<1>1. TypeOK'
  BY DEF TypeOK, MainPcs, ThPcs, OpStates, Ready
<1>2. MainInv'
  BY DEF TypeOK, MainInv
<1>3. OwnerInv'
  BY DEF TypeOK, OwnerInv
<1>4. /\ ThreadInv' /\ OpInv' /\ AcceptInv'
      /\ SockInv' /\ ClientInv' /\ ResponseInv'
  BY DEF ThreadInv, InService, OpInv, AcceptInv, AcceptChain, InOnAccept,
         SockInv, ClientInv, Shared, ResponseInv
<1> QED
  BY <1>1, <1>2, <1>3, <1>4

LEMMA JoinStep ==
  ASSUME IInv, Join
  PROVE  IInv'
<1> USE PoolAssumption, ConnsAssumption, BoundAssumption
    DEF IInv, Join, mainVars, acceptVars, connVars, opVars, thVars
<1>1. TypeOK'
  BY DEF TypeOK, MainPcs, ThPcs, OpStates, Ready
<1>2. MainInv'
  BY DEF TypeOK, MainInv
<1>3. OwnerInv'
  BY DEF TypeOK, OwnerInv
<1>4. /\ ThreadInv' /\ OpInv' /\ AcceptInv'
      /\ SockInv' /\ ClientInv' /\ ResponseInv'
  BY DEF ThreadInv, InService, OpInv, AcceptInv, AcceptChain, InOnAccept,
         SockInv, ClientInv, Shared, ResponseInv
<1> QED
  BY <1>1, <1>2, <1>3, <1>4

\* The server is destroyed when no thread runs.
LEMMA DestructionStep ==
  ASSUME IInv, Destruction,
         \A t \in Threads : thPc[t] \in {"none", "exited"}
  PROVE  IInv'
<1> USE PoolAssumption, ConnsAssumption, BoundAssumption
    DEF IInv, Destruction, mainVars, acceptVars, connVars, opVars, thVars
<1>1. \A t \in Threads : thConn[t] = None
  BY DEF ThreadInv, InService
<1>2. TypeOK'
  BY DEF TypeOK, MainPcs, ThPcs, OpStates, Ready
<1>3. MainInv'
  BY DEF TypeOK, MainInv
<1>4. ThreadInv'
  BY DEF TypeOK, ThreadInv, InService
<1>5. OpInv'
  BY DEF TypeOK, OpInv
<1>6. OwnerInv'
  BY DEF TypeOK, OwnerInv
<1>7. AcceptInv'
  BY <1>1 DEF TypeOK, AcceptInv, AcceptChain, InOnAccept
<1>8. ClientInv'
  BY DEF TypeOK, ClientInv, Shared, AcceptInv
<1>9. ResponseInv'
  BY DEF TypeOK, ResponseInv
<1>10. SockInv'
  BY DEF TypeOK, SockInv, InOnAccept
<1> QED
  BY <1>2, <1>3, <1>4, <1>5, <1>6, <1>7, <1>8, <1>9, <1>10

LEMMA DestroyStep ==
  ASSUME IInv, Destroy
  PROVE  IInv'
BY DestructionStep DEF Destroy, IInv, MainInv

LEMMA SpawnFailsStep ==
  ASSUME IInv, SpawnFails
  PROVE  IInv'
<1>1. CASE \A t \in Threads : thPc[t] = "none"
  BY <1>1, DestructionStep DEF SpawnFails
<1>2. CASE \E t \in Threads : thPc[t] # "none"
  <2> USE <1>2, PoolAssumption, ConnsAssumption, BoundAssumption
      DEF IInv, SpawnFails, mainVars, acceptVars, connVars, opVars, thVars
  <2>1. TypeOK'
    BY DEF TypeOK, MainPcs, ThPcs, OpStates, Ready
  <2>2. MainInv' /\ OwnerInv'
    BY DEF TypeOK, MainInv, OwnerInv
  <2>3. /\ ThreadInv' /\ OpInv' /\ AcceptInv'
        /\ SockInv' /\ ClientInv' /\ ResponseInv'
    BY DEF ThreadInv, InService, OpInv, AcceptInv, AcceptChain, InOnAccept,
           SockInv, ClientInv, Shared, ResponseInv
  <2> QED
    BY <2>1, <2>2, <2>3
<1> QED
  BY <1>1, <1>2

LEMMA OnAcceptStep ==
  ASSUME IInv, NEW t \in Threads,
         OnAccept(t)
  PROVE  IInv'
<1> USE PoolAssumption, ConnsAssumption, BoundAssumption
    DEF IInv, OnAccept, Take, mainVars, acceptVars, connVars, opVars, thVars
<1>1. /\ acceptSock \in Conns
      /\ service[acceptSock] = "none"
      /\ op[acceptSock] = "none"
  BY DEF TypeOK, AcceptInv, OpInv
<1>2. thConn[t] = None
  BY DEF ThreadInv, InService
<1>3. sock[t] = None /\ \A u \in Threads : sock[u] # acceptSock
  BY <1>1 DEF SockInv, InOnAccept
<1>4. TypeOK'
  BY DEF TypeOK, MainPcs, ThPcs, OpStates, Ready
<1>5. MainInv'
  BY DEF TypeOK, MainInv
<1>6. ThreadInv'
  BY <1>1 DEF TypeOK, ThreadInv, InService
<1>7. OpInv'
  BY DEF TypeOK, OpInv
<1>8. OwnerInv'
  BY <1>2 DEF TypeOK, OwnerInv
<1>9. AcceptInv'
  BY DEF TypeOK, AcceptInv, AcceptChain, InOnAccept
<1>10. ClientInv'
  BY <1>1, <1>3 DEF TypeOK, ClientInv, Shared, AcceptInv
<1>11. ResponseInv'
  BY <1>1 DEF TypeOK, ResponseInv, ClientInv, Shared
<1>12. SockInv'
  BY <1>1, <1>3 DEF TypeOK, SockInv, InOnAccept
<1> QED
  BY <1>4, <1>5, <1>6, <1>7, <1>8, <1>9, <1>10, <1>11, <1>12

LEMMA StartHandlingStep ==
  ASSUME IInv, NEW t \in Threads,
         StartHandling(t)
  PROVE  IInv'
<1> USE PoolAssumption, ConnsAssumption, BoundAssumption
    DEF IInv, StartHandling, StartOp, Leave, mainVars, acceptVars, connVars,
        opVars, thVars
<1>1. thConn[t] \in Conns /\ service[thConn[t]] = "alive"
  BY DEF TypeOK, ThreadInv, InService
<1>2. TypeOK'
  <2>1. /\ thPc' \in [Threads -> ThPcs]
        /\ thConn' \in [Threads -> Conns \cup {None}]
    BY DEF TypeOK, ThPcs
  <2> QED
    BY <2>1 DEF TypeOK, MainPcs, OpStates, Ready
<1>3. MainInv'
  BY DEF TypeOK, MainInv
<1>4. ThreadInv'
  BY DEF TypeOK, ThreadInv, InService
<1>5. OpInv'
  BY <1>1 DEF TypeOK, OpInv
<1>6. OwnerInv'
  BY DEF TypeOK, OwnerInv
<1>7. AcceptInv'
  BY DEF TypeOK, AcceptInv, AcceptChain, InOnAccept
<1>8. ResponseInv'
  BY DEF TypeOK, ResponseInv
<1>9. ClientInv'
  BY DEF ClientInv, Shared
<1>10. SockInv'
  BY DEF TypeOK, SockInv, InOnAccept
<1> QED
  BY <1>2, <1>3, <1>4, <1>5, <1>6, <1>7, <1>8, <1>9, <1>10

LEMMA OnAcceptErrorStep ==
  ASSUME IInv, NEW t \in Threads,
         OnAcceptError(t)
  PROVE  IInv'
<1> USE PoolAssumption, ConnsAssumption, BoundAssumption
    DEF IInv, OnAcceptError, Take, mainVars, acceptVars, connVars, opVars,
        thVars
<1>1. thConn[t] = None
  BY DEF ThreadInv, InService
<1>2. TypeOK'
  BY DEF TypeOK, MainPcs, ThPcs, OpStates, Ready
<1>3. MainInv'
  BY DEF TypeOK, MainInv
<1>4. ThreadInv'
  BY DEF TypeOK, ThreadInv, InService
<1>5. OwnerInv'
  BY <1>1 DEF TypeOK, OwnerInv
<1>6. AcceptInv'
  BY DEF TypeOK, AcceptInv, AcceptChain, InOnAccept
<1>7. ResponseInv'
  BY DEF TypeOK, ResponseInv
<1>8. OpInv' /\ ClientInv'
  BY DEF OpInv, ClientInv, Shared
<1>9. SockInv'
  BY DEF TypeOK, SockInv, InOnAccept
<1> QED
  BY <1>2, <1>3, <1>4, <1>5, <1>6, <1>7, <1>8, <1>9

LEMMA AcceptNextStep ==
  ASSUME IInv, NEW t \in Threads,
         AcceptNext(t)
  PROVE  IInv'
<1> USE PoolAssumption, ConnsAssumption, BoundAssumption
    DEF IInv, AcceptNext, Goto, mainVars, acceptVars, connVars, opVars, thVars
<1>1. TypeOK'
  BY DEF TypeOK, MainPcs, ThPcs, OpStates, Ready
<1>2. MainInv'
  BY DEF TypeOK, MainInv
<1>3. ThreadInv'
  BY DEF TypeOK, ThreadInv, InService
<1>4. AcceptInv'
  BY DEF TypeOK, AcceptInv, AcceptChain, InOnAccept
<1>5. ResponseInv'
  BY DEF TypeOK, ResponseInv
<1>6. OpInv' /\ OwnerInv' /\ ClientInv'
  BY DEF OpInv, OwnerInv, ClientInv, Shared
<1>7. SockInv'
  BY DEF TypeOK, SockInv, InOnAccept
<1> QED
  BY <1>1, <1>2, <1>3, <1>4, <1>5, <1>6, <1>7

LEMMA CloseAcceptorStep ==
  ASSUME IInv, NEW t \in Threads,
         CloseAcceptor(t)
  PROVE  IInv'
<1> USE PoolAssumption, ConnsAssumption, BoundAssumption
    DEF IInv, CloseAcceptor, Goto, mainVars, acceptVars, connVars, opVars,
        thVars
<1>1. TypeOK'
  BY DEF TypeOK, MainPcs, ThPcs, OpStates, Ready
<1>2. MainInv'
  BY DEF TypeOK, MainInv
<1>3. ThreadInv'
  BY DEF TypeOK, ThreadInv, InService
<1>4. AcceptInv'
  BY DEF TypeOK, AcceptInv, AcceptChain, InOnAccept
<1>5. ResponseInv'
  BY DEF TypeOK, ResponseInv
<1>6. OpInv' /\ OwnerInv' /\ ClientInv'
  BY DEF OpInv, OwnerInv, ClientInv, Shared
<1>7. SockInv'
  BY DEF TypeOK, SockInv, InOnAccept
<1> QED
  BY <1>1, <1>2, <1>3, <1>4, <1>5, <1>6, <1>7

LEMMA InitAcceptStep ==
  ASSUME IInv, NEW t \in Threads,
         InitAccept(t)
  PROVE  IInv'
<1> USE PoolAssumption, ConnsAssumption, BoundAssumption
    DEF IInv, InitAccept, Goto, mainVars, acceptVars, connVars, opVars, thVars
<1>1. TypeOK'
  BY DEF TypeOK, MainPcs, ThPcs, OpStates, Ready
<1>2. MainInv'
  BY DEF TypeOK, MainInv
<1>3. ThreadInv'
  BY DEF TypeOK, ThreadInv, InService
<1>4. AcceptInv'
  BY DEF TypeOK, AcceptInv, AcceptChain, InOnAccept
<1>5. ResponseInv'
  BY DEF TypeOK, ResponseInv
<1>6. OpInv' /\ OwnerInv' /\ ClientInv'
  BY DEF OpInv, OwnerInv, ClientInv, Shared
<1>7. SockInv'
  BY DEF TypeOK, SockInv, InOnAccept
<1> QED
  BY <1>1, <1>2, <1>3, <1>4, <1>5, <1>6, <1>7

LEMMA ReturnFromAcceptStep ==
  ASSUME IInv, NEW t \in Threads,
         ReturnFromAccept(t)
  PROVE  IInv'
<1> USE PoolAssumption, ConnsAssumption, BoundAssumption
    DEF IInv, ReturnFromAccept, Goto, mainVars, acceptVars, connVars, opVars,
        thVars
<1>1. TypeOK'
  BY DEF TypeOK, MainPcs, ThPcs, OpStates, Ready
<1>2. MainInv'
  BY DEF TypeOK, MainInv
<1>3. ThreadInv'
  BY DEF TypeOK, ThreadInv, InService
<1>4. AcceptInv'
  BY DEF TypeOK, AcceptInv, AcceptChain, InOnAccept
<1>5. SockInv'
  BY DEF TypeOK, SockInv, InOnAccept
<1>6. ClientInv'
  <2>1. \A c \in Conns : Shared(c)' <=> Shared(c) /\ c # sock[t]
    BY DEF TypeOK, SockInv, Shared
  <2> QED
    BY <2>1 DEF TypeOK, ClientInv
<1>7. ResponseInv'
  BY DEF TypeOK, ResponseInv
<1>8. OpInv' /\ OwnerInv'
  BY DEF OpInv, OwnerInv
<1> QED
  BY <1>1, <1>2, <1>3, <1>4, <1>5, <1>6, <1>7, <1>8

LEMMA OnRequestStep ==
  ASSUME IInv, NEW t \in Threads, NEW c \in Conns,
         OnRequest(t, c)
  PROVE  IInv'
<1> USE PoolAssumption, ConnsAssumption, BoundAssumption
    DEF IInv, OnRequest, Take, EndOp, mainVars, acceptVars, connVars, opVars,
        thVars
<1>1. op[c] # "none" /\ service[c] = "alive"
  BY DEF TypeOK, OpInv, OpStates, Ready
<1>2. thConn[t] = None
  BY DEF ThreadInv, InService
<1>3. TypeOK'
  BY DEF TypeOK, MainPcs, ThPcs, OpStates, Ready
<1>4. MainInv'
  BY DEF TypeOK, MainInv
<1>5. ThreadInv'
  BY <1>1 DEF TypeOK, ThreadInv, InService
<1>6. OpInv'
  BY DEF TypeOK, OpInv
<1>7. OwnerInv'
  BY <1>2 DEF TypeOK, OwnerInv
<1>8. AcceptInv'
  BY DEF TypeOK, AcceptInv, AcceptChain, InOnAccept
<1>9. ResponseInv'
  BY DEF TypeOK, ResponseInv
<1>10. ClientInv'
  BY DEF ClientInv, Shared
<1>11. SockInv'
  BY DEF TypeOK, SockInv, InOnAccept
<1> QED
  BY <1>3, <1>4, <1>5, <1>6, <1>7, <1>8, <1>9, <1>10, <1>11

LEMMA OnErrorStep ==
  ASSUME IInv, NEW t \in Threads, NEW c \in Conns,
         OnError(t, c)
  PROVE  IInv'
<1> USE PoolAssumption, ConnsAssumption, BoundAssumption
    DEF IInv, OnError, Take, EndOp, mainVars, acceptVars, connVars, opVars,
        thVars
<1>1. op[c] # "none" /\ service[c] = "alive"
  BY DEF TypeOK, OpInv, OpStates, Ready
<1>2. thConn[t] = None
  BY DEF ThreadInv, InService
<1>3. TypeOK'
  BY DEF TypeOK, MainPcs, ThPcs, OpStates, Ready
<1>4. MainInv'
  BY DEF TypeOK, MainInv
<1>5. ThreadInv'
  BY <1>1 DEF TypeOK, ThreadInv, InService
<1>6. OpInv'
  BY DEF TypeOK, OpInv
<1>7. OwnerInv'
  BY <1>2 DEF TypeOK, OwnerInv
<1>8. AcceptInv'
  BY DEF TypeOK, AcceptInv, AcceptChain, InOnAccept
<1>9. ResponseInv'
  BY DEF TypeOK, ResponseInv
<1>10. ClientInv'
  BY DEF ClientInv, Shared
<1>11. SockInv'
  BY DEF TypeOK, SockInv, InOnAccept
<1> QED
  BY <1>3, <1>4, <1>5, <1>6, <1>7, <1>8, <1>9, <1>10, <1>11

LEMMA OnResponseSentStep ==
  ASSUME IInv, NEW t \in Threads, NEW c \in Conns,
         OnResponseSent(t, c)
  PROVE  IInv'
<1> USE PoolAssumption, ConnsAssumption, BoundAssumption
    DEF IInv, OnResponseSent, Take, EndOp, mainVars, acceptVars, connVars,
        opVars, thVars
<1>1. op[c] # "none" /\ service[c] = "alive"
  BY DEF TypeOK, OpInv, OpStates, Ready
<1>2. thConn[t] = None
  BY DEF ThreadInv, InService
<1>3. TypeOK'
  BY DEF TypeOK, MainPcs, ThPcs, OpStates, Ready
<1>4. MainInv'
  BY DEF TypeOK, MainInv
<1>5. ThreadInv'
  BY <1>1 DEF TypeOK, ThreadInv, InService
<1>6. OpInv'
  BY DEF TypeOK, OpInv
<1>7. OwnerInv'
  BY <1>2 DEF TypeOK, OwnerInv
<1>8. AcceptInv'
  BY DEF TypeOK, AcceptInv, AcceptChain, InOnAccept
<1>9. ResponseInv'
  BY DEF TypeOK, ResponseInv
<1>10. ClientInv'
  BY DEF ClientInv, Shared
<1>11. SockInv'
  BY DEF TypeOK, SockInv, InOnAccept
<1> QED
  BY <1>3, <1>4, <1>5, <1>6, <1>7, <1>8, <1>9, <1>10, <1>11

LEMMA ProcessRequestStep ==
  ASSUME IInv, NEW t \in Threads,
         ProcessRequest(t)
  PROVE  IInv'
<1> USE PoolAssumption, ConnsAssumption, BoundAssumption
    DEF IInv, ProcessRequest, Goto, mainVars, acceptVars, connVars, opVars,
        thVars
<1>1. thConn[t] \in Conns /\ service[thConn[t]] = "alive"
  BY DEF TypeOK, ThreadInv, InService
<1>2. op[thConn[t]] = "none"
  BY <1>1 DEF ThreadInv
<1>3. \A u \in Threads : u # t => thConn[u] # thConn[t]
  BY <1>1, <1>2 DEF TypeOK, ThreadInv
<1>4. TypeOK'
  <2>1. /\ thPc' \in [Threads -> ThPcs]
        /\ thConn' \in [Threads -> Conns \cup {None}]
    BY DEF TypeOK, ThPcs
  <2> QED
    BY <2>1 DEF TypeOK, MainPcs, OpStates, Ready
<1>5. MainInv'
  BY DEF TypeOK, MainInv
<1>6. ThreadInv'
  BY DEF TypeOK, ThreadInv, InService
<1>7. AcceptInv'
  BY DEF TypeOK, AcceptInv, AcceptChain, InOnAccept
<1>8. ClientInv'
  BY <1>1 DEF TypeOK, ClientInv, Shared
<1>9. ResponseInv'
  BY <1>1, <1>2, <1>3 DEF TypeOK, ResponseInv
<1>10. OpInv' /\ OwnerInv'
  BY DEF OpInv, OwnerInv
<1>11. SockInv'
  BY DEF TypeOK, SockInv, InOnAccept
<1> QED
  BY <1>4, <1>5, <1>6, <1>7, <1>8, <1>9, <1>10, <1>11

LEMMA AsyncWriteStep ==
  ASSUME IInv, NEW t \in Threads,
         AsyncWrite(t)
  PROVE  IInv'
<1> USE PoolAssumption, ConnsAssumption, BoundAssumption
    DEF IInv, AsyncWrite, StartOp, Leave, mainVars, acceptVars, connVars,
        opVars, thVars
<1>1. thConn[t] \in Conns /\ service[thConn[t]] = "alive"
  BY DEF TypeOK, ThreadInv, InService
<1>2. TypeOK'
  <2>1. /\ thPc' \in [Threads -> ThPcs]
        /\ thConn' \in [Threads -> Conns \cup {None}]
    BY DEF TypeOK, ThPcs
  <2> QED
    BY <2>1 DEF TypeOK, MainPcs, OpStates, Ready
<1>3. MainInv'
  BY DEF TypeOK, MainInv
<1>4. ThreadInv'
  BY DEF TypeOK, ThreadInv, InService
<1>5. OpInv'
  BY <1>1 DEF TypeOK, OpInv
<1>6. OwnerInv'
  BY DEF TypeOK, OwnerInv
<1>7. AcceptInv'
  BY DEF TypeOK, AcceptInv, AcceptChain, InOnAccept
<1>8. ResponseInv'
  BY DEF TypeOK, ResponseInv
<1>9. ClientInv'
  BY DEF ClientInv, Shared
<1>10. SockInv'
  BY DEF TypeOK, SockInv, InOnAccept
<1> QED
  BY <1>2, <1>3, <1>4, <1>5, <1>6, <1>7, <1>8, <1>9, <1>10

LEMMA OnFinishStep ==
  ASSUME IInv, NEW t \in Threads,
         OnFinish(t)
  PROVE  IInv'
<1> USE PoolAssumption, ConnsAssumption, BoundAssumption
    DEF IInv, OnFinish, Leave, mainVars, acceptVars, connVars, opVars, thVars
<1>1. thConn[t] \in Conns /\ service[thConn[t]] = "alive"
  BY DEF TypeOK, ThreadInv, InService
<1>2. op[thConn[t]] = "none"
  BY <1>1 DEF ThreadInv
<1>3. TypeOK'
  <2>1. /\ thPc' \in [Threads -> ThPcs]
        /\ thConn' \in [Threads -> Conns \cup {None}]
    BY DEF TypeOK, ThPcs
  <2> QED
    BY <2>1 DEF TypeOK, MainPcs, OpStates, Ready
<1>4. MainInv'
  BY DEF TypeOK, MainInv
<1>5. ThreadInv'
  BY DEF TypeOK, ThreadInv, InService
<1>6. OpInv'
  BY <1>2 DEF TypeOK, OpInv
<1>7. OwnerInv'
  BY DEF TypeOK, OwnerInv
<1>8. AcceptInv'
  BY <1>1 DEF TypeOK, AcceptInv, AcceptChain, InOnAccept
<1>9. ClientInv'
  <2>1. client[thConn[t]] = "accepted"
    BY <1>1 DEF ClientInv
  <2>2. \A c \in Conns : Shared(c)' <=> Shared(c)
    BY DEF Shared
  <2> QED
    BY <1>1, <2>1, <2>2 DEF TypeOK, ClientInv
<1>10. ResponseInv'
  BY DEF TypeOK, ResponseInv
<1>11. SockInv'
  BY DEF TypeOK, SockInv, InOnAccept
<1> QED
  BY <1>3, <1>4, <1>5, <1>6, <1>7, <1>8, <1>9, <1>10, <1>11

LEMMA ExitStep ==
  ASSUME IInv, NEW t \in Threads,
         Exit(t)
  PROVE  IInv'
<1> USE PoolAssumption, ConnsAssumption, BoundAssumption
    DEF IInv, Exit, Goto, mainVars, acceptVars, connVars, opVars, thVars
<1>1. TypeOK'
  BY DEF TypeOK, MainPcs, ThPcs, OpStates, Ready
<1>2. MainInv'
  BY DEF TypeOK, MainInv
<1>3. ThreadInv'
  BY DEF TypeOK, ThreadInv, InService
<1>4. AcceptInv'
  BY DEF TypeOK, AcceptInv, AcceptChain, InOnAccept
<1>5. ResponseInv'
  BY DEF TypeOK, ResponseInv
<1>6. OpInv' /\ OwnerInv' /\ ClientInv'
  BY DEF OpInv, OwnerInv, ClientInv, Shared
<1>7. SockInv'
  BY DEF TypeOK, SockInv, InOnAccept
<1> QED
  BY <1>1, <1>2, <1>3, <1>4, <1>5, <1>6, <1>7

LEMMA ArriveStep ==
  ASSUME IInv, NEW c \in Conns,
         Arrive(c)
  PROVE  IInv'
<1> USE PoolAssumption, ConnsAssumption, BoundAssumption
    DEF IInv, Arrive, mainVars, acceptVars, connVars, opVars, thVars
<1>1. TypeOK'
  BY DEF TypeOK, MainPcs, ThPcs, OpStates, Ready
<1>2. AcceptInv'
  BY DEF TypeOK, AcceptInv, AcceptChain, InOnAccept
<1>3. ClientInv'
  BY DEF TypeOK, ClientInv, Shared
<1>4. MainInv' /\ ThreadInv' /\ OpInv' /\ OwnerInv' /\ ResponseInv'
  BY DEF MainInv, ThreadInv, InService, OpInv, OwnerInv, ResponseInv
<1>5. SockInv'
  BY DEF TypeOK, SockInv, InOnAccept
<1> QED
  BY <1>1, <1>2, <1>3, <1>4, <1>5

LEMMA AcceptCompletesStep ==
  ASSUME IInv, NEW c \in Conns,
         AcceptCompletes(c)
  PROVE  IInv'
<1> USE PoolAssumption, ConnsAssumption, BoundAssumption
    DEF IInv, AcceptCompletes, mainVars, acceptVars, connVars, opVars, thVars
<1>1. service[c] = "none"
  BY DEF TypeOK, ClientInv, Shared
<1>2. TypeOK'
  BY DEF TypeOK, MainPcs, ThPcs, OpStates, Ready
<1>3. MainInv'
  BY DEF TypeOK, MainInv
<1>4. AcceptInv'
  BY <1>1 DEF TypeOK, AcceptInv, AcceptChain, InOnAccept
<1>5. ClientInv'
  BY DEF TypeOK, ClientInv, Shared, AcceptInv
<1>6. ThreadInv' /\ OpInv' /\ OwnerInv' /\ ResponseInv'
  BY DEF ThreadInv, InService, OpInv, OwnerInv, ResponseInv
<1>7. SockInv'
  BY DEF TypeOK, SockInv, InOnAccept
<1> QED
  BY <1>2, <1>3, <1>4, <1>5, <1>6, <1>7

LEMMA AcceptFailsStep ==
  ASSUME IInv, AcceptFails
  PROVE  IInv'
<1> USE PoolAssumption, ConnsAssumption, BoundAssumption
    DEF IInv, AcceptFails, mainVars, acceptVars, connVars, opVars, thVars
<1>1. TypeOK'
  BY DEF TypeOK, MainPcs, ThPcs, OpStates, Ready
<1>2. MainInv'
  BY DEF TypeOK, MainInv
<1>3. AcceptInv'
  BY DEF TypeOK, AcceptInv, AcceptChain, InOnAccept
<1>4. /\ ThreadInv' /\ OpInv' /\ OwnerInv'
      /\ SockInv' /\ ClientInv' /\ ResponseInv'
  BY DEF ThreadInv, InService, OpInv, OwnerInv, SockInv, InOnAccept, ClientInv,
         Shared, ResponseInv
<1> QED
  BY <1>1, <1>2, <1>3, <1>4

LEMMA CompleteStep ==
  ASSUME IInv, NEW c \in Conns, NEW ec \in Ready,
         Complete(c, ec)
  PROVE  IInv'
<1> USE PoolAssumption, ConnsAssumption, BoundAssumption
    DEF IInv, Complete, mainVars, acceptVars, connVars, opVars, thVars
<1>1. op[c] # "none" /\ service[c] = "alive"
  BY DEF TypeOK, OpInv
<1>2. \A u \in Threads : thConn[u] # c
  BY <1>1 DEF TypeOK, ThreadInv
<1>3. TypeOK'
  BY DEF TypeOK, MainPcs, ThPcs, OpStates, Ready
<1>4. OpInv'
  BY DEF TypeOK, OpInv, Ready
<1>5. ClientInv'
  BY <1>1 DEF TypeOK, ClientInv, Shared
<1>6. ResponseInv'
  BY <1>2 DEF TypeOK, ResponseInv, Ready
<1>7. MainInv' /\ ThreadInv' /\ OwnerInv' /\ AcceptInv'
  BY DEF MainInv, ThreadInv, InService, OwnerInv, AcceptInv, AcceptChain,
         InOnAccept
<1>8. SockInv'
  BY DEF TypeOK, SockInv, InOnAccept
<1> QED
  BY <1>3, <1>4, <1>5, <1>6, <1>7, <1>8

LEMMA StutterStep ==
  ASSUME IInv, UNCHANGED vars
  PROVE  IInv'
BY DEF IInv, vars, mainVars, acceptVars, connVars, opVars, thVars, TypeOK,
       MainInv, ThreadInv, OpInv, OwnerInv, AcceptInv, SockInv, ClientInv,
       ResponseInv, InService, AcceptChain, InOnAccept, Shared

-----------------------------------------------------------------------------

LEMMA InitEstablishes == Init => IInv
<1> SUFFICES ASSUME Init PROVE IInv
  OBVIOUS
<1> USE PoolAssumption, ConnsAssumption, BoundAssumption DEF Init
<1>1. TypeOK
  <2>1. acceptErrors \in 0 .. MaxErrors
    OBVIOUS
  <2> QED
    BY <2>1 DEF TypeOK, MainPcs, ThPcs, OpStates, Ready
<1>2. MainInv /\ ThreadInv /\ OpInv /\ OwnerInv
  BY DEF MainInv, ThreadInv, OpInv, OwnerInv, InService
<1>3. AcceptInv /\ SockInv /\ ClientInv /\ ResponseInv
  BY DEF AcceptInv, AcceptChain, InOnAccept, SockInv, ClientInv, ResponseInv
<1> QED
  BY <1>1, <1>2, <1>3 DEF IInv

LEMMA NextPreserves ==
  ASSUME IInv, [Next]_vars
  PROVE  IInv'
<1>1. CASE UNCHANGED vars
  BY <1>1, StutterStep
<1>2. CASE MainContinues \/ SpawnFails \/ AcceptorStop
  BY <1>2, StartStep, StartFailsStep, SpawnStep, SpawnFailsStep,
     AcceptorStopStep, IosStopStep, JoinStep, DestroyStep DEF MainContinues
<1>3. ASSUME NEW t \in Threads, DispatchAccept(t) \/ HandlerStep(t)
      PROVE  IInv'
  BY <1>3, OnAcceptStep, OnAcceptErrorStep, StartHandlingStep, AcceptNextStep,
     CloseAcceptorStep, InitAcceptStep, ReturnFromAcceptStep,
     ProcessRequestStep, AsyncWriteStep, OnFinishStep, ExitStep
     DEF DispatchAccept, HandlerStep
<1>4. ASSUME NEW t \in Threads, NEW c \in Conns, Dispatch(t, c)
      PROVE  IInv'
  BY <1>4, OnRequestStep, OnErrorStep, OnResponseSentStep DEF Dispatch
<1>5. CASE Network
  BY <1>5, ArriveStep, AcceptCompletesStep, CompleteStep, AcceptFailsStep
     DEF Network
<1> QED
  BY <1>1, <1>2, <1>3, <1>4, <1>5 DEF Next, Finished

\* The invariant holds in every reachable state.
THEOREM Invariance == Spec => []IInv
<1> QED
  BY InitEstablishes, NextPreserves, PTL DEF Spec

-----------------------------------------------------------------------------
(* The properties *)

\* Every variable keeps its type.
THEOREM TypeCorrectness == Spec => []TypeOK
<1>1. IInv => TypeOK
  BY DEF IInv
<1> QED
  BY <1>1, Invariance, PTL

\* No operation and no handler uses a Service that has been deleted, and the
\* thread that deletes one is alone with it.
THEOREM NoUseAfterDelete == Spec => []ServiceAlive
<1>1. IInv => ServiceAlive
  BY ConnsAssumption DEF IInv, OpInv, ThreadInv, ServiceAlive
<1> QED
  BY <1>1, Invariance, PTL

\* Until it is stopped the server always has one accept operation to come.
THEOREM AlwaysAccepting == Spec => []AcceptChain
<1>1. IInv => AcceptChain
  BY DEF IInv, AcceptInv
<1> QED
  BY <1>1, Invariance, PTL

\* Every accepted socket has an owner as long as the server exists: the queue,
\* an operation, a thread of its Service, or the onAccept that made the Service.
THEOREM NoOrphan == Spec => []SocketOwned
<1>1. IInv => SocketOwned
  <2> SUFFICES ASSUME IInv, mainPc # "ended", NEW c \in Conns
               PROVE  client[c] = "accepted" <=>
                        \/ accept = "ok" /\ acceptSock = c
                        \/ op[c] # "none"
                        \/ \E t \in Threads : thConn[t] = c \/ sock[t] = c
    BY DEF SocketOwned
  <2>1. ASSUME client[c] = "accepted"
        PROVE  \/ accept = "ok" /\ acceptSock = c
               \/ op[c] # "none"
               \/ \E t \in Threads : thConn[t] = c \/ sock[t] = c
    <3>1. CASE service[c] = "none"
      BY <2>1, <3>1, ConnsAssumption DEF IInv, ClientInv, AcceptInv
    <3>2. CASE service[c] = "alive"
      BY <3>2 DEF IInv, OwnerInv
    <3>3. CASE service[c] = "deleted"
      BY <2>1, <3>3 DEF IInv, ClientInv, Shared
    <3> QED
      BY <3>1, <3>2, <3>3 DEF IInv, TypeOK
  <2>2. ASSUME \/ accept = "ok" /\ acceptSock = c
               \/ op[c] # "none"
               \/ \E t \in Threads : thConn[t] = c \/ sock[t] = c
        PROVE  client[c] = "accepted"
    <3>1. CASE accept = "ok" /\ acceptSock = c
      BY <3>1, ConnsAssumption DEF IInv, AcceptInv
    <3>2. CASE op[c] # "none" \/ \E t \in Threads : thConn[t] = c
      BY <3>2, ConnsAssumption DEF IInv, OpInv, ThreadInv, ClientInv
    <3>3. CASE \E t \in Threads : sock[t] = c
      <4>1. service[c] \in {"alive", "deleted"}
        BY <3>3, ConnsAssumption DEF IInv, TypeOK, SockInv
      <4> QED
        BY <3>3, <4>1 DEF IInv, ClientInv, Shared
    <3> QED
      BY <2>2, <3>1, <3>2, <3>3
  <2> QED
    BY <2>1, <2>2
<1> QED
  BY <1>1, Invariance, PTL

-----------------------------------------------------------------------------
(* AsyncTCPServer implements TCPService: six actions move a connection on,   *)
(* and all the others are stuttering steps.                                  *)

LEMMA InitImplements == Init => Service!Init
BY DEF Init, Service!Init, Phase

LEMMA Invisible ==
  ASSUME UNCHANGED <<client, m_response, sent>>
  PROVE  Phase' = Phase
BY DEF Phase

\* A step that changes the phase of c alone is a Move.
LEMMA OneMove ==
  ASSUME NEW c \in Conns, NEW to,
         Phase'[c] = to, \A d \in Conns \ {c} : Phase'[d] = Phase[d]
  PROVE  Phase' = [Phase EXCEPT ![c] = to]
BY DEF Phase

LEMMA ArriveImplements ==
  ASSUME IInv, NEW c \in Conns, Arrive(c)
  PROVE  Service!Arrive(c)
<1>1. Phase[c] = "away" /\ Phase'[c] = "waiting"
  BY DEF IInv, TypeOK, Arrive, Phase
<1>2. \A d \in Conns \ {c} : Phase'[d] = Phase[d]
  BY DEF IInv, TypeOK, Arrive, Phase
<1> QED
  BY <1>1, <1>2, OneMove DEF Service!Arrive, Service!Move

LEMMA AcceptCompletesImplements ==
  ASSUME IInv, NEW c \in Conns, AcceptCompletes(c)
  PROVE  Service!Accept(c)
<1>1. ~m_response[c] /\ ~sent[c]
  BY DEF IInv, TypeOK, ClientInv, AcceptCompletes
<1>2. Phase[c] = "waiting" /\ Phase'[c] = "open"
  BY <1>1 DEF IInv, TypeOK, AcceptCompletes, Phase
<1>3. \A d \in Conns \ {c} : Phase'[d] = Phase[d]
  BY DEF IInv, TypeOK, AcceptCompletes, Phase
<1> QED
  BY <1>2, <1>3, OneMove DEF Service!Accept, Service!Move

LEMMA ProcessRequestImplements ==
  ASSUME IInv, NEW t \in Threads, ProcessRequest(t)
  PROVE  thConn[t] \in Conns /\ Service!Process(thConn[t])
<1> DEFINE c == thConn[t]
<1>1. c \in Conns /\ client[c] = "accepted"
  BY DEF IInv, TypeOK, ThreadInv, InService, ClientInv, ProcessRequest
<1>2. ~m_response[c] /\ ~sent[c]
  BY DEF IInv, ResponseInv, ProcessRequest
<1>3. Phase[c] = "open" /\ Phase'[c] = "processed"
  BY <1>1, <1>2 DEF IInv, TypeOK, ProcessRequest, Phase
<1>4. \A d \in Conns \ {c} : Phase'[d] = Phase[d]
  BY <1>1 DEF IInv, TypeOK, ProcessRequest, Phase
<1> QED
  BY <1>1, <1>3, <1>4, OneMove DEF Service!Process, Service!Move

\* The response has been sent; reading and failing are invisible.
LEMMA CompleteImplements ==
  ASSUME IInv, NEW c \in Conns, NEW ec \in Ready, Complete(c, ec)
  PROVE  Service!Respond(c) \/ Phase' = Phase
<1>1. client[c] = "accepted" /\ ~sent[c]
  BY DEF IInv, TypeOK, OpInv, ClientInv, ResponseInv, Complete
<1>2. CASE op[c] = "write" /\ ec = "ok"
  <2>1. Phase[c] = "processed" /\ Phase'[c] = "answered"
    BY <1>1, <1>2 DEF IInv, TypeOK, ResponseInv, Complete, Phase
  <2>2. \A d \in Conns \ {c} : Phase'[d] = Phase[d]
    BY DEF IInv, TypeOK, Complete, Phase
  <2> QED
    BY <2>1, <2>2, OneMove DEF Service!Respond, Service!Move
<1>3. CASE ~(op[c] = "write" /\ ec = "ok")
  <2>1. \A d \in Conns : Phase'[d] = Phase[d]
    BY <1>1, <1>3 DEF IInv, TypeOK, Complete, Phase
  <2> QED
    BY <2>1 DEF Phase
<1> QED
  BY <1>2, <1>3

\* The socket is closed with the Service, or by the onAccept that shares it.
LEMMA OnFinishImplements ==
  ASSUME IInv, NEW t \in Threads, OnFinish(t)
  PROVE  \/ thConn[t] \in Conns /\ Service!Close(thConn[t])
         \/ Phase' = Phase
<1> DEFINE c == thConn[t]
<1>1. c \in Conns /\ client[c] = "accepted"
  BY DEF IInv, TypeOK, ThreadInv, InService, ClientInv, OnFinish
<1>2. CASE Shared(c)
  BY <1>2, Invisible DEF OnFinish
<1>3. CASE ~Shared(c)
  <2>1. Phase[c] \in {"open", "processed", "answered"} /\ Phase'[c] = "closed"
    BY <1>1, <1>3 DEF IInv, TypeOK, OnFinish, Phase
  <2>2. \A d \in Conns \ {c} : Phase'[d] = Phase[d]
    BY <1>1, <1>3 DEF IInv, TypeOK, OnFinish, Phase
  <2> QED
    BY <1>1, <2>1, <2>2, OneMove DEF Service!Close, Service!Move
<1> QED
  BY <1>2, <1>3

LEMMA ReturnFromAcceptImplements ==
  ASSUME IInv, NEW t \in Threads, ReturnFromAccept(t)
  PROVE  \/ sock[t] \in Conns /\ Service!Close(sock[t])
         \/ Phase' = Phase
<1> DEFINE c == sock[t]
<1>1. CASE c = None \/ service[c] # "deleted"
  <2>1. client' = client
    BY <1>1, ConnsAssumption DEF IInv, TypeOK, ReturnFromAccept
  <2> QED
    BY <2>1, Invisible DEF ReturnFromAccept
<1>2. CASE c # None /\ service[c] = "deleted"
  <2>1. c \in Conns /\ client[c] = "accepted"
    BY <1>2 DEF IInv, TypeOK, ClientInv, Shared
  <2>2. Phase[c] \in {"open", "processed", "answered"} /\ Phase'[c] = "closed"
    BY <1>2, <2>1 DEF IInv, TypeOK, ReturnFromAccept, Phase
  <2>3. \A d \in Conns \ {c} : Phase'[d] = Phase[d]
    BY <2>1 DEF IInv, TypeOK, ReturnFromAccept, Phase
  <2> QED
    BY <2>1, <2>2, <2>3, OneMove DEF Service!Close, Service!Move
<1> QED
  BY <1>1, <1>2

\* The server is destroyed: a socket in the queue is closed.
LEMMA DestructionImplements ==
  ASSUME IInv, Destruction
  PROVE  (\E c \in Conns : Service!Close(c)) \/ Phase' = Phase
<1>1. CASE acceptSock = None
  BY <1>1, ConnsAssumption DEF IInv, TypeOK, Destruction, Phase
<1>2. CASE acceptSock # None
  <2> DEFINE c == acceptSock
  <2>1. c \in Conns /\ client[c] = "accepted"
    BY <1>2 DEF IInv, TypeOK, AcceptInv
  <2>2. Phase[c] \in {"open", "processed", "answered"} /\ Phase'[c] = "closed"
    BY <2>1 DEF IInv, TypeOK, Destruction, Phase
  <2>3. \A d \in Conns \ {c} : Phase'[d] = Phase[d]
    BY <2>1 DEF IInv, TypeOK, Destruction, Phase
  <2> QED
    BY <2>1, <2>2, <2>3, OneMove DEF Service!Close, Service!Move
<1> QED
  BY <1>1, <1>2

LEMMA StepImplements ==
  ASSUME IInv, [Next]_vars
  PROVE  [Service!Next]_Phase
<1> USE DEF mainVars, acceptVars, connVars, opVars, thVars
<1>1. CASE UNCHANGED vars
  BY <1>1, Invisible DEF vars
<1>2. CASE Start \/ StartFails \/ Spawn \/ AcceptorStop \/ IosStop \/ Join
  BY <1>2, Invisible DEF Start, StartFails, Spawn, AcceptorStop, IosStop, Join
<1>3. CASE Destroy \/ SpawnFails
  BY <1>3, DestructionImplements, Invisible
     DEF Service!Next, Destroy, SpawnFails
<1>4. ASSUME NEW t \in Threads, DispatchAccept(t)
      PROVE  [Service!Next]_Phase
  BY <1>4, Invisible DEF DispatchAccept, OnAccept, OnAcceptError
<1>5. ASSUME NEW t \in Threads, HandlerStep(t)
      PROVE  [Service!Next]_Phase
  <2>1. CASE ProcessRequest(t)
    BY <2>1, ProcessRequestImplements DEF Service!Next
  <2>2. CASE OnFinish(t)
    BY <2>2, OnFinishImplements DEF Service!Next
  <2>3. CASE ReturnFromAccept(t)
    BY <2>3, ReturnFromAcceptImplements DEF Service!Next
  <2>4. CASE ~ProcessRequest(t) /\ ~OnFinish(t) /\ ~ReturnFromAccept(t)
    BY <1>5, <2>4, Invisible
       DEF HandlerStep, StartHandling, AcceptNext, CloseAcceptor, InitAccept,
           AsyncWrite, Exit
  <2> QED
    BY <2>1, <2>2, <2>3, <2>4
<1>6. ASSUME NEW t \in Threads, NEW c \in Conns, Dispatch(t, c)
      PROVE  [Service!Next]_Phase
  BY <1>6, Invisible DEF Dispatch, OnRequest, OnError, OnResponseSent
<1>7. CASE AcceptFails
  BY <1>7, Invisible DEF AcceptFails
<1>8. ASSUME NEW c \in Conns, Arrive(c) \/ AcceptCompletes(c)
      PROVE  [Service!Next]_Phase
  BY <1>8, ArriveImplements, AcceptCompletesImplements DEF Service!Next
<1>9. ASSUME NEW c \in Conns, NEW ec \in Ready, Complete(c, ec)
      PROVE  [Service!Next]_Phase
  BY <1>9, CompleteImplements DEF Service!Next
<1> QED
  BY <1>1, <1>2, <1>3, <1>4, <1>5, <1>6, <1>7, <1>8, <1>9
     DEF Next, MainContinues, Network, Finished

\* Each connection is accepted, served and closed in this order and once.
THEOREM Refinement == Spec => ServiceContract
<1> QED
  BY Invariance, InitImplements, StepImplements, PTL
     DEF Spec, ServiceContract, Service!Spec
=============================================================================
