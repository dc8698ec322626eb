------------------------- MODULE SyncTCPServerProofs -------------------------
(***************************************************************************)
(* Proofs about SyncTCPServer, for both programs and any clients.  The     *)
(* inductive invariant IInv says in what order the two long-lived threads  *)
(* go on, what is left of the accept that Stop() races with, and in whose  *)
(* hands each connection is.                                               *)
(***************************************************************************)
EXTENDS SyncTCPServer, TLAPS

\* HandleClient is under way: it has the socket.
InHandler(c) == handler[c] \in {"read", "process", "write", "cleanup"}

\* The main thread starts Run, sets m_stop and waits for Run, in this order.
MainInv ==
  /\ mainPc = "start" => runPc = "none"
  /\ mainPc \in {"start", "serve"} => ~m_stop
  /\ mainPc \in {"stopped", "destroyed"} => runPc = "done"
  /\ mainPc = "ended" => runPc \in {"none", "done"}

\* Run can take one more client only if it was past the check when m_stop was
\* set, and it passes the check once after that.
LateInv ==
  /\ late # 0 => m_stop /\ runPc # "accept"
  /\ late <= 1

\* The iterative server is inside HandleClient while a handler is under way, and
\* no handler begins before its client has been accepted.
HandlerInv ==
  /\ kind = "iterative" =>
       \A c \in Conns : InHandler(c) => runPc = "handling" /\ runConn = c
  /\ \A c \in Conns : client[c] \in {"away", "waiting"} => handler[c] = "none"

\* The response is prepared between reading and writing.
ResponseInv ==
  \A c \in Conns :
    /\ handler[c] \in {"none", "read", "process"} => response[c] = "none"
    /\ handler[c] = "write" => response[c] = "prepared"

IInv ==
  /\ TypeOK
  /\ MainInv
  /\ LateInv
  /\ HandlerInv
  /\ SocketOwned
  /\ ResponseInv
-----------------------------------------------------------------------------
(* Every action preserves IInv: one lemma per action, and in it one step for *)
(* each conjunct the action can disturb and one for all the others.        *)

LEMMA StartStep ==
  ASSUME IInv, Start
  PROVE  IInv'
<1> USE ConnsAssumption
    DEF IInv, Start, runVars, serverVars, connVars
<1>1. TypeOK'
  BY DEF TypeOK, MainInv, MainPcs, RunPcs, Holding
<1>2. MainInv'
  BY DEF MainInv
<1>3. LateInv'
  BY DEF LateInv
<1>4. HandlerInv'
  BY DEF HandlerInv, InHandler, MainInv
<1>5. SocketOwned'
  BY DEF MainInv, SocketOwned
<1>6. ResponseInv'
  BY DEF ResponseInv
<1> QED
  BY <1>1, <1>2, <1>3, <1>4, <1>5, <1>6

LEMMA StartFailsStep ==
  ASSUME IInv, StartFails
  PROVE  IInv'
<1> USE ConnsAssumption
    DEF IInv, StartFails, runVars, serverVars, connVars
<1>1. TypeOK'
  BY DEF TypeOK, MainPcs
<1>2. MainInv'
  BY DEF MainInv
<1>3. LateInv' /\ HandlerInv' /\ SocketOwned' /\ ResponseInv'
  BY DEF LateInv, HandlerInv, InHandler, SocketOwned, ResponseInv
<1> QED
  BY <1>1, <1>2, <1>3

LEMMA StopStep ==
  ASSUME IInv, Stop
  PROVE  IInv'
<1> USE ConnsAssumption
    DEF IInv, Stop, runVars, serverVars, connVars
<1>1. TypeOK'
  BY DEF TypeOK, MainPcs
<1>2. MainInv'
  BY DEF MainInv
<1>3. LateInv'
  BY DEF LateInv
<1>4. HandlerInv' /\ SocketOwned' /\ ResponseInv'
  BY DEF HandlerInv, InHandler, SocketOwned, ResponseInv
<1> QED
  BY <1>1, <1>2, <1>3, <1>4

LEMMA JoinStep ==
  ASSUME IInv, Join
  PROVE  IInv'
<1> USE ConnsAssumption
    DEF IInv, Join, runVars, serverVars, connVars
<1>1. TypeOK'
  BY DEF TypeOK, MainPcs
<1>2. MainInv'
  BY DEF MainInv
<1>3. LateInv' /\ HandlerInv' /\ SocketOwned' /\ ResponseInv'
  BY DEF LateInv, HandlerInv, InHandler, SocketOwned, ResponseInv
<1> QED
  BY <1>1, <1>2, <1>3

LEMMA DestroyStep ==
  ASSUME IInv, Destroy
  PROVE  IInv'
<1> USE ConnsAssumption
    DEF IInv, Destroy, runVars, serverVars, connVars
<1>1. TypeOK'
  BY DEF TypeOK, MainPcs
<1>2. MainInv'
  BY DEF MainInv
<1>3. LateInv' /\ HandlerInv' /\ SocketOwned' /\ ResponseInv'
  BY DEF LateInv, HandlerInv, InHandler, SocketOwned, ResponseInv
<1> QED
  BY <1>1, <1>2, <1>3

LEMMA Return0Step ==
  ASSUME IInv, Return0
  PROVE  IInv'
<1> USE ConnsAssumption
    DEF IInv, Return0, runVars, serverVars, connVars
<1>1. TypeOK'
  BY DEF TypeOK, MainPcs
<1>2. MainInv'
  BY DEF MainInv
<1>3. LateInv' /\ HandlerInv' /\ SocketOwned' /\ ResponseInv'
  BY DEF LateInv, HandlerInv, InHandler, SocketOwned, ResponseInv
<1> QED
  BY <1>1, <1>2, <1>3

LEMMA OpenAcceptorStep ==
  ASSUME IInv, OpenAcceptor
  PROVE  IInv'
<1> USE ConnsAssumption
    DEF IInv, OpenAcceptor, runVars, serverVars, connVars
<1>1. TypeOK'
  BY DEF TypeOK, RunPcs, Holding
<1>2. MainInv'
  BY DEF MainInv
<1>3. LateInv'
  BY DEF LateInv
<1>4. HandlerInv'
  BY DEF HandlerInv, InHandler
<1>5. SocketOwned'
  BY DEF SocketOwned
<1>6. ResponseInv'
  BY DEF ResponseInv
<1> QED
  BY <1>1, <1>2, <1>3, <1>4, <1>5, <1>6

LEMMA RunThrowsStep ==
  ASSUME IInv, RunThrows
  PROVE  IInv'
<1> USE ConnsAssumption
    DEF IInv, RunThrows, runVars, serverVars, connVars
<1>1. TypeOK'
  BY DEF TypeOK, MainPcs
<1>2. MainInv'
  BY DEF MainInv
<1>3. LateInv' /\ HandlerInv' /\ SocketOwned' /\ ResponseInv'
  BY DEF LateInv, HandlerInv, InHandler, SocketOwned, ResponseInv
<1> QED
  BY <1>1, <1>2, <1>3

LEMMA CheckStopStep ==
  ASSUME IInv, CheckStop
  PROVE  IInv'
<1> USE ConnsAssumption
    DEF IInv, CheckStop, runVars, serverVars, connVars
<1>1. TypeOK'
  BY DEF TypeOK, RunPcs, Holding
<1>2. MainInv'
  BY DEF MainInv
<1>3. LateInv'
  BY DEF LateInv
<1>4. HandlerInv'
  BY DEF HandlerInv, InHandler
<1>5. SocketOwned'
  BY DEF SocketOwned
<1>6. ResponseInv'
  BY DEF ResponseInv
<1> QED
  BY <1>1, <1>2, <1>3, <1>4, <1>5, <1>6

LEMMA AcceptStep ==
  ASSUME IInv, NEW c \in Conns, Accept(c)
  PROVE  IInv'
<1> USE ConnsAssumption
    DEF IInv, Accept, runVars, serverVars, connVars
<1>1. TypeOK'
  BY DEF TypeOK, RunPcs, Holding
<1>2. MainInv'
  BY DEF MainInv
<1>3. LateInv'
  BY DEF LateInv
<1>4. HandlerInv'
  BY DEF HandlerInv, InHandler
<1>5. SocketOwned'
  BY DEF TypeOK, SocketOwned, HandlerInv, Holding
<1>6. ResponseInv'
  BY DEF ResponseInv
<1> QED
  BY <1>1, <1>2, <1>3, <1>4, <1>5, <1>6

LEMMA DispatchStep ==
  ASSUME IInv, Dispatch
  PROVE  IInv'
<1> USE ConnsAssumption
    DEF IInv, Dispatch, runVars, serverVars, connVars
<1>1. TypeOK'
  BY DEF TypeOK, RunPcs, HandlerPcs, Holding
<1>2. MainInv'
  BY DEF MainInv
<1>3. LateInv'
  BY DEF LateInv
<1>4. HandlerInv'
  BY DEF HandlerInv, InHandler, SocketOwned
<1>5. SocketOwned'
  BY DEF TypeOK, SocketOwned, HandlerPcs, Holding
<1>6. ResponseInv'
  BY DEF TypeOK, SocketOwned, ResponseInv, Holding
<1> QED
  BY <1>1, <1>2, <1>3, <1>4, <1>5, <1>6

LEMMA ReturnStep ==
  ASSUME IInv, Return
  PROVE  IInv'
<1> USE ConnsAssumption
    DEF IInv, Return, runVars, serverVars, connVars
<1>1. TypeOK'
  BY DEF TypeOK, RunPcs, Holding
<1>2. MainInv'
  BY DEF MainInv
<1>3. LateInv'
  BY DEF LateInv
<1>4. HandlerInv'
  BY DEF TypeOK, HandlerInv, InHandler, Holding
<1>5. SocketOwned'
  BY DEF TypeOK, SocketOwned, Holding, HandlerPcs
<1>6. ResponseInv'
  BY DEF ResponseInv
<1> QED
  BY <1>1, <1>2, <1>3, <1>4, <1>5, <1>6

LEMMA ReadRequestStep ==
  ASSUME IInv, NEW c \in Conns, ReadRequest(c)
  PROVE  IInv'
<1> USE ConnsAssumption
    DEF IInv, ReadRequest, HandlerGoto, runVars, serverVars, connVars
<1>1. TypeOK'
  BY DEF TypeOK, HandlerPcs
<1>2. HandlerInv'
  BY DEF HandlerInv, InHandler
<1>3. SocketOwned'
  BY DEF SocketOwned, HandlerPcs
<1>4. ResponseInv'
  BY DEF ResponseInv
<1>5. MainInv' /\ LateInv'
  BY DEF MainInv, LateInv
<1> QED
  BY <1>1, <1>2, <1>3, <1>4, <1>5

LEMMA ProcessRequestStep ==
  ASSUME IInv, NEW c \in Conns, ProcessRequest(c)
  PROVE  IInv'
<1> USE ConnsAssumption
    DEF IInv, ProcessRequest, HandlerGoto, runVars, serverVars, connVars
<1>1. TypeOK'
  BY DEF TypeOK, HandlerPcs
<1>2. HandlerInv'
  BY DEF HandlerInv, InHandler
<1>3. SocketOwned'
  BY DEF SocketOwned, HandlerPcs
<1>4. ResponseInv'
  BY DEF TypeOK, ResponseInv
<1>5. MainInv' /\ LateInv'
  BY DEF MainInv, LateInv
<1> QED
  BY <1>1, <1>2, <1>3, <1>4, <1>5

LEMMA WriteResponseStep ==
  ASSUME IInv, NEW c \in Conns, WriteResponse(c)
  PROVE  IInv'
<1> USE ConnsAssumption
    DEF IInv, WriteResponse, HandlerGoto, runVars, serverVars, connVars
<1>1. TypeOK'
  BY DEF TypeOK, HandlerPcs
<1>2. HandlerInv'
  BY DEF HandlerInv, InHandler
<1>3. SocketOwned'
  BY DEF SocketOwned, HandlerPcs
<1>4. ResponseInv'
  BY DEF TypeOK, ResponseInv
<1>5. MainInv' /\ LateInv'
  BY DEF MainInv, LateInv
<1> QED
  BY <1>1, <1>2, <1>3, <1>4, <1>5

LEMMA CleanUpStep ==
  ASSUME IInv, NEW c \in Conns, CleanUp(c)
  PROVE  IInv'
<1> USE ConnsAssumption
    DEF IInv, CleanUp, HandlerGoto, runVars, serverVars, connVars
<1>1. TypeOK'
  BY DEF TypeOK, HandlerPcs
<1>2. HandlerInv'
  BY DEF HandlerInv, InHandler
<1>3. SocketOwned'
  BY DEF TypeOK, SocketOwned
<1>4. ResponseInv'
  BY DEF ResponseInv
<1>5. MainInv' /\ LateInv'
  BY DEF MainInv, LateInv
<1> QED
  BY <1>1, <1>2, <1>3, <1>4, <1>5

LEMMA ArriveStep ==
  ASSUME IInv, NEW c \in Conns, Arrive(c)
  PROVE  IInv'
<1> USE ConnsAssumption
    DEF IInv, Arrive, runVars, serverVars, connVars
<1>1. TypeOK'
  BY DEF TypeOK
<1>2. HandlerInv'
  BY DEF HandlerInv, InHandler
<1>3. SocketOwned'
  BY DEF SocketOwned
<1>4. MainInv' /\ LateInv' /\ ResponseInv'
  BY DEF MainInv, LateInv, ResponseInv
<1> QED
  BY <1>1, <1>2, <1>3, <1>4


LEMMA StutterStep ==
  ASSUME IInv, UNCHANGED vars
  PROVE  IInv'
BY DEF IInv, TypeOK, MainInv, LateInv, HandlerInv, InHandler, SocketOwned,
       ResponseInv, vars, runVars, serverVars, connVars

LEMMA InitEstablishes == Init => IInv
<1> SUFFICES ASSUME Init PROVE IInv
  OBVIOUS
<1> USE ConnsAssumption, KindsAssumption DEF Init
<1>1. TypeOK
  BY DEF TypeOK, MainPcs, RunPcs, HandlerPcs, Holding
<1>2. MainInv /\ LateInv
  BY DEF MainInv, LateInv
<1>3. HandlerInv /\ SocketOwned /\ ResponseInv
  BY DEF HandlerInv, InHandler, SocketOwned, ResponseInv
<1> QED
  BY <1>1, <1>2, <1>3 DEF IInv

LEMMA NextPreserves ==
  ASSUME IInv, [Next]_vars
  PROVE  IInv'
<1>1. CASE UNCHANGED vars
  BY <1>1, StutterStep
<1>2. CASE MainContinues \/ Stop
  BY <1>2, StartStep, StartFailsStep, StopStep, JoinStep, DestroyStep,
     Return0Step
     DEF MainContinues
<1>3. CASE RunStep \/ RunThrows
  BY <1>3, OpenAcceptorStep, CheckStopStep, AcceptStep, DispatchStep,
     ReturnStep, RunThrowsStep
     DEF RunStep
<1>4. ASSUME NEW c \in Conns,
             Arrive(c) \/ ReadRequest(c) \/ HandlerContinues(c)
      PROVE  IInv'
  BY <1>4, ArriveStep, ReadRequestStep, ProcessRequestStep, WriteResponseStep,
     CleanUpStep
     DEF HandlerContinues
<1> QED
  BY <1>1, <1>2, <1>3, <1>4 DEF Next

\* The invariant holds in every reachable state.
THEOREM Invariance == Spec => []IInv
<1> QED
  BY InitEstablishes, NextPreserves, PTL DEF Spec

-----------------------------------------------------------------------------
(* The properties *)

\* Every variable keeps its type.
THEOREM TypeCorrectness == Spec => []TypeOK
<1>1. IInv => TypeOK
  BY DEF IInv
<1> QED
  BY <1>1, Invariance, PTL

\* The iterative server serves one client at a time: one that has been
\* accepted is the one that Run has in its hands, and when Run has ended it has
\* none.
THEOREM OneAtATime == Spec => []Serial
<1>1. IInv => Serial
  <2> SUFFICES ASSUME IInv, kind = "iterative"
               PROVE  \A c \in Conns : client[c] = "accepted" =>
                        runConn = c /\ runPc \notin {"none", "done"}
    BY DEF Serial, IInv, MainInv
  <2> SUFFICES ASSUME NEW c \in Conns, client[c] = "accepted"
               PROVE  runConn = c /\ runPc \notin {"none", "done"}
    OBVIOUS
  <2>1. runConn = c
    BY DEF IInv, SocketOwned, HandlerInv, InHandler, HandlerPcs
  <2> QED
    BY <2>1, ConnsAssumption DEF IInv, TypeOK, Holding
<1> QED
  BY <1>1, Invariance, PTL

\* However Stop() races with the loop, one client at most is accepted after it.
THEOREM OneLateClient == Spec => []StopTakesEffect
<1>1. IInv => StopTakesEffect
  BY DEF IInv, LateInv, StopTakesEffect
<1> QED
  BY <1>1, Invariance, PTL

\* Every accepted connection is in the hands of exactly one thread.
THEOREM OneOwner == Spec => []SocketOwned
<1>1. IInv => SocketOwned
  BY DEF IInv
<1> QED
  BY <1>1, Invariance, PTL

-----------------------------------------------------------------------------
(* The refinement: what one connection sees is TCPService. *)

LEMMA InitImplements == Init => Service!Init
BY DEF Init, Service!Init, Phase

LEMMA Invisible ==
  ASSUME UNCHANGED <<client, response>>
  PROVE  Phase' = Phase
BY DEF Phase

\* A step that changes the phase of c alone is a Move.
LEMMA OneMove ==
  ASSUME NEW c \in Conns, NEW to,
         Phase'[c] = to, \A d \in Conns \ {c} : Phase'[d] = Phase[d]
  PROVE  Phase' = [Phase EXCEPT ![c] = to]
<1> DEFINE of(d, cl, re) ==
      IF cl[d] # "accepted" THEN cl[d]
      ELSE CASE re[d] = "none" -> "open"
             [] re[d] = "prepared" -> "processed"
             [] re[d] = "sent" -> "answered"
<1>1. Phase = [d \in Conns |-> of(d, client, response)]
  BY DEF Phase
<1>2. Phase' = [d \in Conns |-> of(d, client', response')]
  BY DEF Phase
<1> HIDE DEF of
<1> QED
  BY <1>1, <1>2

LEMMA ArriveImplements ==
  ASSUME IInv, NEW c \in Conns, Arrive(c)
  PROVE  Service!Arrive(c)
<1>1. Phase[c] = "away" /\ Phase'[c] = "waiting"
  BY DEF IInv, TypeOK, Arrive, Phase
<1>2. \A d \in Conns \ {c} : Phase'[d] = Phase[d]
  BY DEF IInv, TypeOK, Arrive, Phase
<1> QED
  BY <1>1, <1>2, OneMove DEF Service!Arrive, Service!Move

LEMMA AcceptImplements ==
  ASSUME IInv, NEW c \in Conns, Accept(c)
  PROVE  Service!Accept(c)
<1>1. response[c] = "none"
  BY DEF IInv, HandlerInv, ResponseInv, Accept
<1>2. Phase[c] = "waiting" /\ Phase'[c] = "open"
  BY <1>1 DEF IInv, TypeOK, Accept, Phase
<1>3. \A d \in Conns \ {c} : Phase'[d] = Phase[d]
  BY DEF IInv, TypeOK, Accept, Phase
<1> QED
  BY <1>2, <1>3, OneMove DEF Service!Accept, Service!Move

LEMMA ProcessRequestImplements ==
  ASSUME IInv, NEW c \in Conns, ProcessRequest(c)
  PROVE  Service!Process(c)
<1>1. client[c] = "accepted" /\ response[c] = "none"
  BY DEF IInv, SocketOwned, HandlerPcs, ResponseInv, ProcessRequest
<1>2. Phase[c] = "open" /\ Phase'[c] = "processed"
  BY <1>1 DEF IInv, TypeOK, ProcessRequest, Phase
<1>3. \A d \in Conns \ {c} : Phase'[d] = Phase[d]
  BY DEF IInv, TypeOK, ProcessRequest, Phase
<1> QED
  BY <1>2, <1>3, OneMove DEF Service!Process, Service!Move

\* The response has been sent, or write has thrown, which the client does not
\* see.
LEMMA WriteResponseImplements ==
  ASSUME IInv, NEW c \in Conns, WriteResponse(c)
  PROVE  Service!Respond(c) \/ Phase' = Phase
<1>1. client[c] = "accepted" /\ response[c] = "prepared"
  BY DEF IInv, SocketOwned, HandlerPcs, ResponseInv, WriteResponse
<1>2. \A d \in Conns \ {c} : Phase'[d] = Phase[d]
  BY DEF IInv, TypeOK, WriteResponse, Phase
<1>3. CASE response'[c] = "sent"
  <2>1. Phase[c] = "processed" /\ Phase'[c] = "answered"
    BY <1>1, <1>3 DEF WriteResponse, Phase
  <2> QED
    BY <1>2, <2>1, OneMove DEF Service!Respond, Service!Move
<1>4. CASE response'[c] # "sent"
  <2>1. UNCHANGED <<client, response>>
    BY <1>1, <1>4 DEF IInv, TypeOK, WriteResponse
  <2> QED
    BY <2>1, Invisible
<1> QED
  BY <1>3, <1>4

\* The last of Accept and HandleClient to be left closes the socket.
LEMMA ClosingImplements ==
  ASSUME IInv, NEW c \in Conns, client[c] = "accepted",
         client' = [client EXCEPT ![c] = "closed"], UNCHANGED response
  PROVE  Service!Close(c)
<1>1. Phase[c] \in {"open", "processed", "answered"} /\ Phase'[c] = "closed"
  BY DEF IInv, TypeOK, Phase
<1>2. \A d \in Conns \ {c} : Phase'[d] = Phase[d]
  BY DEF IInv, TypeOK, Phase
<1> QED
  BY <1>1, <1>2, OneMove DEF Service!Close, Service!Move

LEMMA CleanUpImplements ==
  ASSUME IInv, NEW c \in Conns, CleanUp(c)
  PROVE  Service!Close(c) \/ Phase' = Phase
<1>1. client[c] = "accepted"
  BY DEF IInv, SocketOwned, HandlerPcs, CleanUp
<1> QED
  BY <1>1, ClosingImplements, Invisible DEF CleanUp

LEMMA ReturnImplements ==
  ASSUME IInv, Return
  PROVE  (\E c \in Conns : Service!Close(c)) \/ Phase' = Phase
<1>1. runConn \in Conns /\ client[runConn] = "accepted"
  BY DEF IInv, TypeOK, SocketOwned, Holding, Return
<1> QED
  BY <1>1, ClosingImplements, Invisible DEF Return

LEMMA StepImplements ==
  ASSUME IInv, [Next]_vars
  PROVE  [Service!Next]_Phase
<1>1. CASE UNCHANGED vars
  BY <1>1, Invisible DEF vars, connVars
<1>2. CASE MainContinues \/ Stop \/ RunThrows
  BY <1>2, Invisible
     DEF MainContinues, Start, StartFails, Join, Destroy, Return0, Stop,
         RunThrows, connVars
<1>3. CASE OpenAcceptor \/ CheckStop \/ Dispatch \/ Return
  BY <1>3, Invisible, ReturnImplements
     DEF OpenAcceptor, CheckStop, Dispatch, connVars, Service!Next
<1>4. ASSUME NEW c \in Conns, Accept(c) \/ Arrive(c)
      PROVE  [Service!Next]_Phase
  BY <1>4, AcceptImplements, ArriveImplements DEF Service!Next
<1>5. ASSUME NEW c \in Conns, ReadRequest(c)
      PROVE  [Service!Next]_Phase
  BY <1>5, Invisible DEF ReadRequest
<1>6. ASSUME NEW c \in Conns, HandlerContinues(c)
      PROVE  [Service!Next]_Phase
  BY <1>6, ProcessRequestImplements, WriteResponseImplements,
     CleanUpImplements
     DEF HandlerContinues, Service!Next
<1> QED
  BY <1>1, <1>2, <1>3, <1>4, <1>5, <1>6 DEF Next, RunStep

\* Both programs accept, serve and close each connection in this order and
\* once: they promise a client what the asynchronous server does.
THEOREM Refinement == Spec => ServiceContract
<1> QED
  BY Invariance, InitImplements, StepImplements, PTL
     DEF Spec, ServiceContract, Service!Spec
=============================================================================
