---------------------------- MODULE ServerProofs ----------------------------
(***************************************************************************)
(* The queue inside the server: main, the workers and the signal handlers  *)
(* use it as SocketQueue allows, so what is proved of the queue for any    *)
(* callers holds in the server, for any number of workers and signals.     *)
(***************************************************************************)
EXTENDS Server, SocketQueueProofs

LEMMA MainStep == MainNext => QNext \/ UNCHANGED qvars
<1> SUFFICES ASSUME MainNext PROVE QNext \/ UNCHANGED qvars
  OBVIOUS
<1>0. Main \in Callers
  BY ServerAssumption
<1>1. CASE AcceptReturns
  <2>1. PICK f \in Fd : CallEnqueue(Main, f)
    BY <1>1 DEF AcceptReturns
  <2> QED
    BY <1>0, <2>1 DEF QNext
<1>2. CASE SpawnFails \/ LoopTest \/ HandleFailure
  <2>1. CallShutdown(Main) \/ UNCHANGED qvars
    BY <1>2 DEF SpawnFails, LoopTest, HandleFailure, StopOr
  <2> QED
    BY <1>0, <2>1 DEF QNext
<1>3. CASE SpawnWorker
  <2>1. PICK w \in Unborn : CallDequeue(w)
    BY <1>3 DEF SpawnWorker
  <2>2. w \in Callers
    BY ServerAssumption DEF Unborn
  <2> QED
    BY <2>1, <2>2 DEF QNext
<1>4. CASE InitQueue \/ InitLog \/ InitListen
  BY <1>4 DEF InitQueue, InitLog, InitListen
<1>5. CASE InstallHandlers \/ SpawnDone \/ NoThreadTable \/ CallAccept \/ AcceptFails
           \/ StopReturns \/ JoinWorkers
  BY <1>5 DEF InstallHandlers, SpawnDone, NoThreadTable, CallAccept, AcceptFails,
              StopReturns, JoinWorkers, MainGoto
<1>6. CASE EnqueueReturns \/ Reject \/ RejectClose
  BY <1>6 DEF EnqueueReturns, Reject, RejectClose
<1>7. CASE DestroyListen \/ DestroyLog \/ DestroyQueue \/ DestroyNull
  BY <1>7 DEF DestroyListen, DestroyLog, DestroyQueue, DestroyNull
<1> QED
  BY <1>1, <1>2, <1>3, <1>4, <1>5, <1>6, <1>7 DEF MainNext, MainOwn

LEMMA WorkerStep ==
  ASSUME NEW w \in Workers, WorkerNext(w)
  PROVE  QNext \/ UNCHANGED qvars
<1>0. w \in Callers
  BY ServerAssumption
<1>1. CASE CloseClient(w)
  <2>1. CallDequeue(w)
    BY <1>1 DEF CloseClient
  <2> QED
    BY <1>0, <2>1 DEF QNext
<1>2. CASE Respond(w) \/ RespondBad(w)
  BY <1>2 DEF Respond, RespondBad
<1>3. CASE DequeueReturns(w) \/ ReadRequest(w) \/ ReadEof(w) \/ ReadBad(w) \/ LogAccess(w)
  BY <1>3 DEF DequeueReturns, ReadRequest, ReadEof, ReadBad, LogAccess, WorkerGoto
<1> QED
  BY <1>1, <1>2, <1>3 DEF WorkerNext

LEMMA HandlerStep ==
  ASSUME NEW s \in Sigs, HandlerNext(s)
  PROVE  QNext \/ UNCHANGED qvars
<1>0. s \in Callers
  BY ServerAssumption
<1>1. CASE HandlerQueue(s)
  <2>1. CallShutdown(s) \/ UNCHANGED qvars
    BY <1>1 DEF HandlerQueue
  <2> QED
    BY <1>0, <2>1 DEF QNext
<1>2. CASE HandlerFlag(s) \/ HandlerListen(s) \/ HandlerReturns(s)
  BY <1>2 DEF HandlerFlag, HandlerListen, HandlerReturns
<1> QED
  BY <1>1, <1>2 DEF HandlerNext

LEMMA EnvironmentStep == Environment => UNCHANGED qvars
  BY DEF Environment, Kill, Deliver, Connect, PeerCloses

LEMMA ServerStep == [Next]_vars => [QNext]_qvars
<1> SUFFICES ASSUME [Next]_vars PROVE QNext \/ UNCHANGED qvars
  OBVIOUS
<1>1. CASE \E c \in Callers : QueueNext(c)
  <2>1. PICK c \in Callers : Lock(c) \/ Work(c) \/ SpuriousWakeup(c)
    BY <1>1 DEF QueueNext, InQueue
  <2> QED
    BY <2>1 DEF QNext
<1>2. CASE UNCHANGED vars
  BY <1>2 DEF vars
<1> QED
  BY <1>1, <1>2, MainStep, WorkerStep, HandlerStep, EnvironmentStep DEF Next

\* The server uses the queue as its specification allows: no thread and no
\* handler, interrupted anywhere, calls it while inside another of its own
\* calls or touches its fields outside a call.
THEOREM ServerUsesQueue == Spec => QSpec
<1>1. Init => QInit
  BY DEF Init
<1> QED
  BY <1>1, ServerStep, PTL DEF Spec, QSpec

\* In the running server, with any number of workers, signals and sockets,
\* the queue implements the atomic bounded FIFO.
THEOREM ServerQueueIsFifo == Spec => ImplementsFifo
  BY ServerUsesQueue, QueueImplementsFifo, PTL

\* In the running server no wakeup is lost: while a worker sleeps the queue is
\* open and every queued socket has an awake worker to take it.
THEOREM ServerLosesNoWakeup == Spec => []NoLostWakeup
  BY ServerUsesQueue, WakeupCorrect, PTL
-----------------------------------------------------------------------------
(* Types of the server's own variables; those of the queue come from the   *)
(* queue's theorem.                                                        *)

ServerTypeOK ==
  /\ mpc \in MainPoints
  /\ wpc \in [Workers -> WorkerPoints]
  /\ keep \in [Workers -> BOOLEAN]
  /\ hpc \in [Sigs -> HandlerPoints]
  /\ host \in [Sigs -> Callers \cup {NoCaller}]
  /\ should_stop \in BOOLEAN /\ listen_fd \in BOOLEAN
  /\ queue \in {"null", "live", "freed"}
  /\ access_log \in {"null", "open"}
  /\ lsock \in {"none", "listening", "closed"}
  /\ conn \in [Fd -> {"absent", "backlog", "open", "closed"}]
  /\ left \in [Fd -> BOOLEAN] /\ answered \in [Fd -> BOOLEAN]
  /\ proc \in {"running", "exited", "killed", "sigpipe"}

LEMMA InitServerType == Init => ServerTypeOK
  BY DEF Init, ServerTypeOK, MainPoints, Starting, WorkerPoints, HandlerPoints

LEMMA MainType == ServerTypeOK /\ MainNext => ServerTypeOK'
<1> SUFFICES ASSUME ServerTypeOK, MainNext PROVE ServerTypeOK'
  OBVIOUS
<1> USE DEF ServerTypeOK, MainPoints, Starting, server, net
<1>1. CASE InitQueue \/ InitLog \/ InitListen
  BY <1>1 DEF InitQueue, InitLog, InitListen, Exit
<1>2. CASE InstallHandlers \/ SpawnDone \/ NoThreadTable \/ CallAccept \/ AcceptFails
           \/ StopReturns \/ JoinWorkers
  BY <1>2 DEF InstallHandlers, SpawnDone, NoThreadTable, CallAccept, AcceptFails,
              StopReturns, JoinWorkers, MainGoto
<1>3. CASE SpawnWorker
  <2>1. PICK w \in Unborn : wpc' = [wpc EXCEPT ![w] = "dequeue"]
    BY <1>3 DEF SpawnWorker
  <2>2. wpc' \in [Workers -> WorkerPoints]
    BY <2>1 DEF WorkerPoints
  <2> QED
    BY <1>3, <2>2 DEF SpawnWorker
<1>4. CASE SpawnFails \/ LoopTest \/ HandleFailure
  BY <1>4 DEF SpawnFails, LoopTest, HandleFailure, StopOr
<1>5. CASE AcceptReturns
  BY <1>5 DEF AcceptReturns
<1>6. CASE EnqueueReturns \/ RejectClose
  BY <1>6 DEF EnqueueReturns, RejectClose, Close
<1>7. CASE Reject
  BY <1>7 DEF Reject, Sent
<1>8. CASE DestroyListen \/ DestroyLog \/ DestroyQueue \/ DestroyNull
  BY <1>8 DEF DestroyListen, DestroyLog, DestroyQueue, DestroyNull, CloseListener, Exit
<1> QED
  BY <1>1, <1>2, <1>3, <1>4, <1>5, <1>6, <1>7, <1>8 DEF MainNext, MainOwn

LEMMA WorkerType ==
  ASSUME ServerTypeOK, NEW w \in Workers, WorkerNext(w)
  PROVE  ServerTypeOK'
<1> USE DEF ServerTypeOK, WorkerPoints, server, net
<1>1. CASE DequeueReturns(w) \/ ReadRequest(w) \/ ReadEof(w) \/ ReadBad(w) \/ LogAccess(w)
  <2>1. PICK from \in WorkerPoints, to \in WorkerPoints, k \in BOOLEAN :
          WorkerGoto(w, from, to, k)
    BY <1>1 DEF DequeueReturns, ReadRequest, ReadEof, ReadBad, LogAccess
  <2> QED
    BY <2>1 DEF WorkerGoto, Goto
<1>2. CASE Respond(w) \/ RespondBad(w)
  BY <1>2 DEF Respond, RespondBad, Sent, Goto
<1>3. CASE CloseClient(w)
  BY <1>3 DEF CloseClient, Close, Goto
<1> QED
  BY <1>1, <1>2, <1>3 DEF WorkerNext

LEMMA HandlerType ==
  ASSUME ServerTypeOK, NEW s \in Sigs, HandlerNext(s)
  PROVE  ServerTypeOK'
<1> USE DEF ServerTypeOK, HandlerPoints, server, net
<1>1. CASE HandlerFlag(s)
  BY <1>1 DEF HandlerFlag
<1>2. CASE HandlerListen(s)
  BY <1>2 DEF HandlerListen, CloseListener
<1>3. CASE HandlerQueue(s)
  BY <1>3 DEF HandlerQueue
<1>4. CASE HandlerReturns(s)
  BY <1>4 DEF HandlerReturns
<1> QED
  BY <1>1, <1>2, <1>3, <1>4 DEF HandlerNext

LEMMA EnvironmentType == ServerTypeOK /\ Environment => ServerTypeOK'
<1> SUFFICES ASSUME ServerTypeOK, Environment PROVE ServerTypeOK'
  OBVIOUS
<1> USE DEF ServerTypeOK, server, net
<1>1. ASSUME NEW s \in Sigs, Kill(s) PROVE ServerTypeOK'
  BY <1>1 DEF Kill
<1>2. ASSUME NEW s \in Sigs, NEW x \in SigTargets \cup Sigs, Deliver(s, x)
      PROVE  ServerTypeOK'
  <2>1. x \in Callers
    BY ServerAssumption
  <2> QED
    BY <1>2, <2>1 DEF Deliver, Interrupt, HandlerPoints, MainPoints
<1>3. ASSUME NEW f \in Fd, Connect(f) PROVE ServerTypeOK'
  BY <1>3 DEF Connect
<1>4. ASSUME NEW f \in Fd, PeerCloses(f) PROVE ServerTypeOK'
  BY <1>4 DEF PeerCloses
<1> QED
  BY <1>1, <1>2, <1>3, <1>4 DEF Environment

LEMMA ServerTypeStep == ServerTypeOK /\ [Next]_vars => ServerTypeOK'
<1> SUFFICES ASSUME ServerTypeOK, [Next]_vars PROVE ServerTypeOK'
  OBVIOUS
<1>1. CASE \E c \in Callers : QueueNext(c)
  BY <1>1 DEF QueueNext, InQueue, ServerTypeOK, server, net
<1>2. CASE UNCHANGED vars
  BY <1>2 DEF vars, ServerTypeOK, server, net
<1> QED
  BY <1>1, <1>2, MainType, WorkerType, HandlerType, EnvironmentType DEF Next

\* Every variable of the server keeps its type, for any number of workers,
\* signals, sockets and any capacity.
THEOREM TypeCorrect == Spec => []TypeOK
<1>1. Spec => []ServerTypeOK
  BY InitServerType, ServerTypeStep, PTL DEF Spec
<1>2. Spec => []QTypeOK
  BY ServerUsesQueue, QTypeCorrect, PTL
<1>3. ServerTypeOK /\ QTypeOK => TypeOK
  BY DEF ServerTypeOK, TypeOK
<1> QED
  BY <1>1, <1>2, <1>3, PTL
=============================================================================
