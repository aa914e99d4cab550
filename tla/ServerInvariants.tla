-------------------------- MODULE ServerInvariants --------------------------
(***************************************************************************)
(* What every state of Server satisfies, for any number of workers,        *)
(* signals and sockets: who may be inside the queue and with which result, *)
(* what main holds at each of its points, and who holds each socket.  From *)
(* it follow NoUseAfterRelease, Ownership, CleanExit and NoSilentDrop.     *)
(***************************************************************************)
EXTENDS ServerProofs

InDequeue == {"deq_lock", "deq_cs", "waiting"}
InShutdown == {"shut_lock", "shut_cs"}

\* Who is inside which function of the queue: main enqueues and shuts down,
\* workers dequeue, handlers shut down.
CallsInv ==
  /\ \/ qpc[Main] = "idle"
     \/ mpc = "enqueue" /\ qpc[Main] \in {"enq_lock", "enq_cs"}
     \/ mpc = "stop" /\ qpc[Main] \in InShutdown
  /\ \A w \in Workers : qpc[w] = "idle" \/ (wpc[w] = "dequeue" /\ qpc[w] \in InDequeue)
  /\ \A s \in Sigs : qpc[s] = "idle" \/ qpc[s] \in InShutdown

\* What a returned call says of the queue: a refused enqueue found it full or
\* closed, and a worker is told to end only when it is closed and empty.
ReturnInv ==
  /\ mpc = "enqueue" /\ qpc[Main] = "idle" =>
       ret[Main] \in {"OK", "FULL"} \/ (ret[Main] = "CLOSED" /\ shutdown)
  /\ \A w \in Workers :
       \/ wpc[w] = "dead"
       \/ wpc[w] = "dequeue" /\ qpc[w] = "idle" /\ ret[w] # "OK"
       => shutdown /\ count = 0

BeforeLoop == Starting \cup {"start"}
AfterJoin == {"destroy", "destroy_log", "destroy_queue", "destroy_null", "done"}

\* Where the workers are, and that nothing is queued, while main starts and
\* once it has joined them.  A thread that was never born is a failed start,
\* in which nothing was ever accepted.
WorkersInv ==
  /\ mpc \in Starting => \A w \in Workers : wpc[w] = "unborn"
  /\ mpc \in AfterJoin => \A w \in Workers : wpc[w] \in {"unborn", "dead"}
  /\ mpc \in BeforeLoop \cup AfterJoin => count = 0
  /\ \A w \in Workers :
       wpc[w] = "unborn" => mpc \in BeforeLoop \cup {"stop", "join"} \cup AfterJoin /\ count = 0

\* What main has acquired and not yet released, at each of its points.
ResourceInv ==
  /\ mpc \notin {"init_queue", "destroy_null", "done"} => queue = "live"
  /\ mpc \in {"init_queue", "done"} => queue = "null"
  /\ access_log = IF mpc \in {"init_queue", "init_log", "destroy_queue", "destroy_null", "done"}
                  THEN "null" ELSE "open"
  /\ listen_fd <=> lsock = "listening"
  /\ mpc \in {"init_queue", "init_log", "init_listen"} \cup (AfterJoin \ {"destroy"}) => ~listen_fd
  /\ proc = "exited" => mpc = "done"

\* The workers that hold a socket.
Holding == {w \in Workers : WorkerHolds(w)}

\* Every holder holds an open socket,
HeldIsOpen ==
  /\ MainHolds => slot[Main] \in Fd /\ conn[slot[Main]] = "open"
  /\ \A w \in Holding : slot[w] \in Fd /\ conn[slot[w]] = "open"
  /\ \A i \in 1 .. count : Contents[i] \in Fd /\ conn[Contents[i]] = "open"

\* every open socket has a holder,
OpenIsHeld ==
  \A f \in Fd : conn[f] = "open" =>
    \/ MainHolds /\ slot[Main] = f
    \/ \E w \in Holding : slot[w] = f
    \/ \E i \in 1 .. count : Contents[i] = f

\* and no two places hold the same one.
HeldOnce ==
  /\ MainHolds => /\ \A w \in Holding : slot[w] # slot[Main]
                  /\ \A i \in 1 .. count : Contents[i] # slot[Main]
  /\ \A v, w \in Holding : slot[v] = slot[w] => v = w
  /\ \A w \in Holding, i \in 1 .. count : Contents[i] # slot[w]
  /\ \A i, j \in 1 .. count : Contents[i] = Contents[j] => i = j

OwnInv == HeldIsOpen /\ OpenIsHeld /\ HeldOnce

Excused(f) == answered[f] \/ left[f]

\* A socket about to be closed has had an answer, or its peer is gone.
DropInv ==
  /\ mpc = "reject_log" => Excused(slot[Main])
  /\ \A w \in Workers : wpc[w] \in {"log", "close"} => Excused(slot[w])
-----------------------------------------------------------------------------
PhaseInv == CallsInv /\ ReturnInv /\ WorkersInv /\ ResourceInv

LEMMA PhaseInit == Init => PhaseInv
  BY ServerAssumption DEF Init, QInit, PhaseInv, CallsInv, ReturnInv, WorkersInv, ResourceInv,
     Starting, BeforeLoop, AfterJoin

\* Main, the workers and the signals are different callers.
LEMMA CallersDiffer ==
  /\ Main \in Callers /\ Main \notin Workers /\ Main \notin Sigs
  /\ \A w \in Workers : w \in Callers /\ w # Main /\ w \notin Sigs
  /\ \A s \in Sigs : s \in Callers /\ s # Main /\ s \notin Workers
  /\ \A c \in Callers : c = Main \/ c \in Workers \/ c \in Sigs
  /\ Workers # {}
  BY ServerAssumption

\* The start of main, up to the loop.
LEMMA StartPhase ==
  ASSUME TypeOK, PhaseInv,
         InitQueue \/ InitLog \/ InitListen \/ InstallHandlers \/ SpawnDone \/ NoThreadTable
  PROVE  PhaseInv'
<1> USE DEF TypeOK, QTypeOK, PhaseInv, Starting, BeforeLoop, AfterJoin, server, net, qvars
<1>1. CallsInv'
  BY CallersDiffer DEF CallsInv, InitQueue, InitLog, InitListen, InstallHandlers, SpawnDone,
     NoThreadTable, MainGoto, MainAt, Exit
<1>2. ReturnInv'
  BY CallersDiffer DEF ReturnInv, InitQueue, InitLog, InitListen, InstallHandlers, SpawnDone,
     NoThreadTable, MainGoto, MainAt, Exit
<1>3. WorkersInv'
  BY CallersDiffer DEF WorkersInv, InitQueue, InitLog, InitListen, InstallHandlers, SpawnDone,
     NoThreadTable, MainGoto, MainAt, Exit, Unborn
<1>4. ResourceInv'
  BY CallersDiffer DEF ResourceInv, InitQueue, InitLog, InitListen, InstallHandlers, SpawnDone,
     NoThreadTable, MainGoto, MainAt, Exit, Running
<1> QED
  BY <1>1, <1>2, <1>3, <1>4

\* The accept loop, up to the call of enqueue.
LEMMA LoopPhase ==
  ASSUME TypeOK, PhaseInv,
         LoopTest \/ HandleFailure \/ CallAccept \/ AcceptFails \/ SpawnFails
  PROVE  PhaseInv'
<1> USE CallersDiffer
    DEF TypeOK, QTypeOK, PhaseInv, Starting, BeforeLoop, AfterJoin, server, net, qvars,
        LoopTest, HandleFailure, CallAccept, AcceptFails, SpawnFails, StopOr, CallShutdown,
        Enter, MainGoto, MainAt
<1>1. CallsInv'
  BY DEF CallsInv, InShutdown
<1>2. ReturnInv'
  BY DEF ReturnInv
<1>3. WorkersInv'
  BY DEF WorkersInv, ReturnInv
<1>4. ResourceInv'
  BY DEF ResourceInv, Running
<1> QED
  BY <1>1, <1>2, <1>3, <1>4

\* A connection accepted, and what follows its enqueue.
LEMMA AcceptPhase ==
  ASSUME TypeOK, PhaseInv, AcceptReturns \/ EnqueueReturns \/ Reject \/ RejectClose
  PROVE  PhaseInv'
<1> USE CallersDiffer
    DEF TypeOK, QTypeOK, PhaseInv, Starting, BeforeLoop, AfterJoin, server, net, qvars,
        AcceptReturns, EnqueueReturns, Reject, RejectClose, CallEnqueue, Enter, MainAt
<1>1. CallsInv'
  BY DEF CallsInv
<1>2. ReturnInv'
  BY DEF ReturnInv
<1>3. WorkersInv'
  BY DEF WorkersInv
<1>4. ResourceInv'
  BY DEF ResourceInv, Running, Sent
<1> QED
  BY <1>1, <1>2, <1>3, <1>4

\* The end of main.  What a joined worker returned says that the queue is
\* empty, unless no worker was ever started.
LEMMA EndPhase ==
  ASSUME TypeOK, PhaseInv,
         \/ StopReturns \/ JoinWorkers
         \/ DestroyListen \/ DestroyLog \/ DestroyQueue \/ DestroyNull
  PROVE  PhaseInv'
<1> USE CallersDiffer
    DEF TypeOK, QTypeOK, PhaseInv, Starting, BeforeLoop, AfterJoin, server, net, qvars,
        StopReturns, JoinWorkers, DestroyListen, DestroyLog, DestroyQueue, DestroyNull,
        CloseListener, Exit, MainGoto, MainAt
<1>1. CallsInv'
  BY DEF CallsInv
<1>2. ReturnInv'
  BY DEF ReturnInv
<1>3. WorkersInv'
  BY DEF WorkersInv, ReturnInv
<1>4. ResourceInv'
  BY DEF ResourceInv, Running
<1> QED
  BY <1>1, <1>2, <1>3, <1>4

\* A new worker enters dequeue.
LEMMA SpawnPhase ==
  ASSUME TypeOK, PhaseInv, SpawnWorker
  PROVE  PhaseInv'
<1> USE CallersDiffer
    DEF TypeOK, QTypeOK, PhaseInv, Starting, BeforeLoop, AfterJoin, server, net
<1>0. PICK w \in Unborn : CallDequeue(w) /\ wpc' = [wpc EXCEPT ![w] = "dequeue"]
  BY DEF SpawnWorker
<1>1. CallsInv'
  BY <1>0 DEF CallsInv, InDequeue, CallDequeue, Enter, SpawnWorker, MainAt, Unborn
<1>2. ReturnInv'
  BY <1>0 DEF ReturnInv, CallDequeue, Enter, SpawnWorker, MainAt, Unborn
<1>3. WorkersInv'
  BY <1>0 DEF WorkersInv, CallDequeue, Enter, SpawnWorker, MainAt, Unborn
<1>4. ResourceInv'
  BY <1>0 DEF ResourceInv, SpawnWorker
<1> QED
  BY <1>1, <1>2, <1>3, <1>4

\* A worker outside the queue.  Only one whose dequeue was refused ends.
LEMMA WorkerPhase ==
  ASSUME TypeOK, PhaseInv, NEW w \in Workers, WorkerNext(w)
  PROVE  PhaseInv'
<1> USE CallersDiffer
    DEF TypeOK, QTypeOK, PhaseInv, Starting, BeforeLoop, AfterJoin, server, net, qvars
<1>1. CASE DequeueReturns(w) \/ ReadRequest(w) \/ ReadEof(w) \/ ReadBad(w) \/ LogAccess(w)
  <2> USE <1>1 DEF DequeueReturns, ReadRequest, ReadEof, ReadBad, LogAccess, WorkerGoto,
                   WorkerAt, Goto
  <2>1. CallsInv'
    BY DEF CallsInv
  <2>2. ReturnInv'
    BY DEF ReturnInv
  <2>3. WorkersInv'
    BY DEF WorkersInv
  <2>4. ResourceInv'
    BY DEF ResourceInv
  <2> QED
    BY <2>1, <2>2, <2>3, <2>4
<1>2. CASE Respond(w) \/ RespondBad(w)
  <2> USE <1>2 DEF Respond, RespondBad, WorkerAt, Goto, Running
  <2>1. CallsInv'
    BY DEF CallsInv
  <2>2. ReturnInv'
    BY DEF ReturnInv
  <2>3. WorkersInv'
    BY DEF WorkersInv
  <2>4. ResourceInv'
    BY DEF ResourceInv, Sent
  <2> QED
    BY <2>1, <2>2, <2>3, <2>4
<1>3. CASE CloseClient(w)
  <2> USE <1>3 DEF CloseClient, WorkerAt, Goto, CallDequeue, Enter
  <2>1. CallsInv'
    BY DEF CallsInv, InDequeue
  <2>2. ReturnInv'
    BY DEF ReturnInv
  <2>3. WorkersInv'
    BY DEF WorkersInv
  <2>4. ResourceInv'
    BY DEF ResourceInv
  <2> QED
    BY <2>1, <2>2, <2>3, <2>4
<1> QED
  BY <1>1, <1>2, <1>3 DEF WorkerNext

\* A handler: it closes the listener as main does, and enters shutdown.
LEMMA HandlerPhase ==
  ASSUME TypeOK, PhaseInv, NEW s \in Sigs, HandlerNext(s)
  PROVE  PhaseInv'
<1> USE CallersDiffer
    DEF TypeOK, QTypeOK, PhaseInv, Starting, BeforeLoop, AfterJoin, server, net, qvars,
        HandlerNext, HandlerFlag, HandlerListen, HandlerQueue, HandlerReturns,
        CallShutdown, Enter, CloseListener
<1>1. CallsInv'
  BY DEF CallsInv, InShutdown
<1>2. ReturnInv'
  BY DEF ReturnInv
<1>3. WorkersInv'
  BY DEF WorkersInv
<1>4. ResourceInv'
  BY DEF ResourceInv
<1> QED
  BY <1>1, <1>2, <1>3, <1>4

\* The kernel and the peers: an interrupted accept goes back to the loop.
LEMMA EnvironmentPhase ==
  ASSUME TypeOK, PhaseInv, Environment
  PROVE  PhaseInv'
<1> USE CallersDiffer
    DEF TypeOK, QTypeOK, PhaseInv, Starting, BeforeLoop, AfterJoin, server, net, qvars,
        Environment, Kill, Deliver, Connect, PeerCloses
<1>1. CallsInv'
  BY DEF CallsInv
<1>2. ReturnInv'
  BY DEF ReturnInv
<1>3. WorkersInv'
  BY DEF WorkersInv
<1>4. ResourceInv'
  BY DEF ResourceInv
<1> QED
  BY <1>1, <1>2, <1>3, <1>4

\* The steps inside the queue.
LEMMA QueuePhase ==
  ASSUME TypeOK, PhaseInv, NEW c \in Callers, QueueNext(c)
  PROVE  PhaseInv'
<1> USE CallersDiffer
    DEF TypeOK, QTypeOK, PhaseInv, Starting, BeforeLoop, AfterJoin, server, net
<1>0. UNCHANGED <<mpc, wpc, server, proc>> /\ (Lock(c) \/ Work(c) \/ SpuriousWakeup(c))
  BY DEF QueueNext, InQueue
<1>r. ResourceInv'
  BY <1>0 DEF ResourceInv
<1>1. CASE Lock(c) \/ DequeueWait(c) \/ SpuriousWakeup(c)
  <2>1. CallsInv'
    BY <1>0, <1>1 DEF CallsInv, InDequeue, InShutdown, Lock, CriticalSection, DequeueWait,
       SpuriousWakeup
  <2>2. ReturnInv'
    BY <1>0, <1>1 DEF ReturnInv, CallsInv, Lock, CriticalSection, DequeueWait,
       SpuriousWakeup
  <2>3. WorkersInv'
    BY <1>0, <1>1 DEF WorkersInv, Lock, DequeueWait, SpuriousWakeup
  <2> QED
    BY <1>r, <2>1, <2>2, <2>3
\* Only main enqueues, so nothing is queued while a thread is unborn.
<1>2. CASE EnqueueRefused(c) \/ EnqueueStored(c)
  <2>0. c = Main /\ mpc = "enqueue"
    BY <1>2 DEF CallsInv, InDequeue, InShutdown, EnqueueRefused, EnqueueStored
  <2>1. CallsInv'
    <3>1. PICK r \in Results, woken \in SUBSET Waiters : Leave(c, r, woken)
      BY <1>2 DEF EnqueueRefused, EnqueueStored, CondSignal, Results
    <3> QED
      BY <1>0, <2>0, <3>1 DEF CallsInv, InDequeue, InShutdown, Leave, Waiters
  <2>2. ReturnInv'
    BY <1>0, <1>2, <2>0 DEF ReturnInv, EnqueueRefused, EnqueueStored, Leave
  <2>3. WorkersInv'
    BY <1>0, <1>2, <2>0 DEF WorkersInv, EnqueueRefused, EnqueueStored
  <2> QED
    BY <1>r, <2>1, <2>2, <2>3
\* Only a worker dequeues.
<1>3. CASE DequeueClosed(c) \/ DequeueTaken(c)
  <2>0. c \in Workers /\ wpc[c] = "dequeue"
    BY <1>3 DEF CallsInv, InDequeue, InShutdown, DequeueClosed, DequeueTaken
  <2>1. CallsInv'
    BY <1>0, <1>3, <2>0 DEF CallsInv, InDequeue, DequeueClosed, DequeueTaken, Leave
  <2>2. ReturnInv'
    BY <1>0, <1>3, <2>0 DEF ReturnInv, DequeueClosed, DequeueTaken, Drained, Leave
  <2>3. WorkersInv'
    BY <1>0, <1>3, <2>0 DEF WorkersInv, DequeueClosed, DequeueTaken, Drained
  <2> QED
    BY <1>r, <2>1, <2>2, <2>3
<1>4. CASE ShutdownQueue(c)
  <2>0. c \notin Workers /\ (c = Main => mpc = "stop")
    BY <1>4 DEF CallsInv, InDequeue, ShutdownQueue
  <2>1. CallsInv'
    BY <1>0, <1>4, <2>0 DEF CallsInv, InDequeue, InShutdown, ShutdownQueue, Leave,
       Broadcast, Waiters
  <2>2. ReturnInv'
    BY <1>0, <1>4, <2>0 DEF ReturnInv, CallsInv, ShutdownQueue, Leave, Broadcast, Waiters
  <2>3. WorkersInv'
    BY <1>0, <1>4 DEF WorkersInv, ShutdownQueue
  <2> QED
    BY <1>r, <2>1, <2>2, <2>3
<1> QED
  BY <1>0, <1>1, <1>2, <1>3, <1>4 DEF Work

LEMMA PhaseStep == TypeOK /\ PhaseInv /\ [Next]_vars => PhaseInv'
<1> SUFFICES ASSUME TypeOK, PhaseInv, [Next]_vars PROVE PhaseInv'
  OBVIOUS
<1>1. CASE MainNext
  BY <1>1, StartPhase, LoopPhase, AcceptPhase, EndPhase, SpawnPhase DEF MainNext, MainOwn
<1>2. CASE UNCHANGED vars
  BY <1>2 DEF vars, qvars, server, net, PhaseInv, CallsInv, ReturnInv, WorkersInv, ResourceInv
<1> QED
  BY <1>1, <1>2, WorkerPhase, HandlerPhase, QueuePhase, EnvironmentPhase DEF Next

\* At every point of main: which calls are in progress, where the workers are,
\* what is held and what is released, with any number of workers and signals.
THEOREM PhaseCorrect == Spec => []PhaseInv
  BY TypeCorrect, PhaseInit, PhaseStep, PTL DEF Spec

\* No thread is inside the queue, or about to write the log, once main has
\* released it: the workers are joined first, on every path of main.
THEOREM NothingUsedAfterRelease == Spec => []NoUseAfterRelease
<1>1. TypeOK /\ PhaseInv => NoUseAfterRelease
  BY CallersDiffer DEF TypeOK, QTypeOK, PhaseInv, CallsInv, WorkersInv, ResourceInv, Starting,
     BeforeLoop, AfterJoin, MainPoints, NoUseAfterRelease
<1> QED
  BY <1>1, TypeCorrect, PhaseCorrect, PTL
-----------------------------------------------------------------------------
(* How a step moves the sockets                                            *)

\* What becomes of the socket main holds.
MainLife ==
  IF mpc = "enqueue" /\ qpc[Main] # "idle" THEN "accepted"
  ELSE IF ret[Main] = "CLOSED" THEN "dropped" ELSE "refused"

MainStays == (MainHolds' <=> MainHolds) /\ (MainHolds => slot'[Main] = slot[Main])
WorkersStay == Holding' = Holding /\ \A w \in Holding : slot'[w] = slot[w]
QueueStays == Contents' = Contents /\ count' = count

NoMove ==
  /\ MainStays /\ WorkersStay /\ QueueStays
  /\ MainHolds => MainLife' = MainLife
  /\ UNCHANGED <<conn, shutdown>>

MoveStop ==
  /\ MainStays /\ WorkersStay /\ QueueStays
  /\ MainHolds => MainLife' = MainLife
  /\ shutdown' = TRUE
  /\ UNCHANGED conn

MoveArrive(f) ==
  /\ MainStays /\ WorkersStay /\ QueueStays
  /\ MainHolds => MainLife' = MainLife
  /\ conn[f] = "absent" /\ conn' = [conn EXCEPT ![f] = "backlog"]
  /\ UNCHANGED shutdown

MoveAccept(f) ==
  /\ WorkersStay /\ QueueStays
  /\ ~MainHolds /\ MainHolds' /\ MainLife' = "accepted" /\ slot'[Main] = f
  /\ conn[f] = "backlog" /\ conn' = [conn EXCEPT ![f] = "open"]
  /\ UNCHANGED shutdown

MoveRefuse ==
  /\ MainStays /\ WorkersStay /\ QueueStays
  /\ MainHolds /\ MainLife = "accepted"
  /\ \/ shutdown /\ MainLife' = "dropped"
     \/ ~shutdown /\ count = Capacity /\ MainLife' = "refused"
  /\ UNCHANGED <<conn, shutdown>>

MoveMainCloses ==
  /\ WorkersStay /\ QueueStays
  /\ MainHolds /\ ~MainHolds' /\ MainLife # "accepted"
  /\ Close(slot[Main])
  /\ UNCHANGED shutdown

MoveWorkerCloses(w) ==
  /\ MainStays /\ QueueStays
  /\ MainHolds => MainLife' = MainLife
  /\ w \in Holding /\ Holding' = Holding \ {w} /\ UNCHANGED slot
  /\ Close(slot[w])
  /\ UNCHANGED shutdown

MoveQueue ==
  /\ WorkersStay
  /\ MainHolds /\ ~MainHolds' /\ MainLife = "accepted"
  /\ ~shutdown /\ count < Capacity
  /\ count' = count + 1
  /\ Contents' = Append(Contents, slot[Main])
  /\ UNCHANGED <<conn, shutdown>>

MoveTake(w) ==
  /\ MainStays
  /\ MainHolds => MainLife' = MainLife
  /\ w \notin Holding /\ Holding' = Holding \cup {w}
  /\ \A v \in Holding : slot'[v] = slot[v]
  /\ count > 0 /\ count' = count - 1
  /\ slot'[w] = Head(Contents) /\ Contents' = Tail(Contents)
  /\ UNCHANGED <<conn, shutdown>>

Move ==
  \/ NoMove \/ MoveStop \/ MoveRefuse \/ MoveMainCloses \/ MoveQueue
  \/ \E f \in Fd : MoveArrive(f) \/ MoveAccept(f)
  \/ \E w \in Workers : MoveWorkerCloses(w) \/ MoveTake(w)

\* The steps of main.
LEMMA MainMoves ==
  ASSUME TypeOK, PhaseInv, MainNext
  PROVE  Move
<1> USE CallersDiffer DEF server, net, MainStays, WorkersStay, QueueStays
<1>t. qpc \in [Callers -> Points] /\ ret \in [Callers -> Results]
      /\ slot \in [Callers -> Fd \cup {NoFd}] /\ wpc \in [Workers -> WorkerPoints]
  BY DEF TypeOK, QTypeOK
<1>1. CASE InitQueue \/ InitLog \/ InitListen \/ InstallHandlers \/ SpawnDone \/ NoThreadTable
           \/ CallAccept \/ AcceptFails \/ StopReturns \/ JoinWorkers \/ DestroyListen
           \/ DestroyLog \/ DestroyQueue \/ DestroyNull
  <2>1. /\ UNCHANGED <<qvars, wpc, conn>> /\ mpc # "enqueue" /\ mpc' # "enqueue"
        /\ mpc \notin {"reject", "reject_log"} /\ mpc' \notin {"reject", "reject_log"}
    BY <1>1 DEF InitQueue, InitLog, InitListen, InstallHandlers, SpawnDone, NoThreadTable,
       CallAccept, AcceptFails, StopReturns, JoinWorkers, DestroyListen, DestroyLog,
       DestroyQueue, DestroyNull, Exit, MainGoto, MainAt
  <2>2. ~MainHolds /\ ~MainHolds'
    BY <2>1 DEF MainHolds
  <2>3. Holding' = Holding /\ Contents' = Contents /\ UNCHANGED <<slot, count, shutdown>>
    BY <2>1 DEF Holding, WorkerHolds, Contents, qvars
  <2> QED
    BY <2>1, <2>2, <2>3 DEF Move, NoMove
<1>2. CASE SpawnWorker
  <2>0. PICK w \in Unborn : CallDequeue(w) /\ wpc' = [wpc EXCEPT ![w] = "dequeue"]
    BY <1>2 DEF SpawnWorker
  <2>1. ~MainHolds /\ ~MainHolds'
    BY <1>2 DEF SpawnWorker, MainAt, MainHolds
  <2>2. Holding' = Holding
    BY <1>t, <2>0 DEF Holding, WorkerHolds, Unborn, CallDequeue, Enter
  <2>3. Contents' = Contents /\ UNCHANGED <<slot, count, conn, shutdown>>
    BY <1>2, <2>0 DEF SpawnWorker, Contents, CallDequeue, Enter
  <2> QED
    BY <2>1, <2>2, <2>3 DEF Move, NoMove
<1>3. CASE SpawnFails \/ LoopTest \/ HandleFailure
  <2>1. (CallShutdown(Main) \/ UNCHANGED qvars) /\ UNCHANGED <<wpc, conn>>
    BY <1>3 DEF SpawnFails, LoopTest, HandleFailure, StopOr
  <2>2. ~MainHolds /\ ~MainHolds'
    BY <1>3 DEF SpawnFails, LoopTest, HandleFailure, StopOr, MainAt, MainHolds
  <2>3. Holding' = Holding
    BY <1>t, <2>1 DEF Holding, WorkerHolds, CallShutdown, Enter, qvars
  <2>4. Contents' = Contents /\ UNCHANGED <<slot, count, shutdown>>
    BY <2>1 DEF Contents, CallShutdown, Enter, qvars
  <2> QED
    BY <2>1, <2>2, <2>3, <2>4 DEF Move, NoMove
<1>4. CASE AcceptReturns
  <2>0. PICK f \in Fd : /\ conn[f] = "backlog" /\ conn' = [conn EXCEPT ![f] = "open"]
                        /\ CallEnqueue(Main, f)
    BY <1>4 DEF AcceptReturns
  <2>1. ~MainHolds /\ MainHolds' /\ slot'[Main] = f /\ MainLife' = "accepted"
    BY <1>4, <1>t, <2>0 DEF AcceptReturns, MainAt, MainHolds, MainLife, CallEnqueue, Enter
  <2>2. Holding' = Holding /\ \A w \in Holding : slot'[w] = slot[w]
    BY <1>4, <1>t, <2>0 DEF AcceptReturns, Holding, WorkerHolds, CallEnqueue, Enter
  <2>3. Contents' = Contents /\ UNCHANGED <<count, shutdown>>
    BY <2>0 DEF Contents, CallEnqueue, Enter
  <2>4. MoveAccept(f)
    BY <2>0, <2>1, <2>2, <2>3 DEF MoveAccept
  <2> QED
    BY <2>4 DEF Move
<1>5. CASE EnqueueReturns \/ Reject \/ RejectClose
  <2>1. Holding' = Holding /\ Contents' = Contents /\ UNCHANGED <<slot, count, shutdown>>
    BY <1>5 DEF EnqueueReturns, Reject, RejectClose, Holding, WorkerHolds, Contents, qvars
  <2>2. CASE (EnqueueReturns /\ ret[Main] # "CLOSED") \/ Reject
    <3>1. (MainHolds' <=> MainHolds) /\ UNCHANGED conn
      BY <2>2 DEF EnqueueReturns, Reject, MainAt, MainHolds, PhaseInv, ReturnInv, qvars
    <3>2. MainLife' = MainLife
      BY <2>2 DEF EnqueueReturns, Reject, MainAt, MainLife, qvars
    <3> QED
      BY <2>1, <3>1, <3>2 DEF Move, NoMove
  <2>3. CASE (EnqueueReturns /\ ret[Main] = "CLOSED") \/ RejectClose
    <3>1. MainHolds /\ ~MainHolds' /\ Close(slot[Main]) /\ MainLife # "accepted"
      BY <2>3 DEF EnqueueReturns, RejectClose, MainAt, MainHolds, MainLife
    <3> QED
      BY <2>1, <3>1 DEF Move, MoveMainCloses
  <2> QED
    BY <1>5, <2>2, <2>3
<1> QED
  BY <1>1, <1>2, <1>3, <1>4, <1>5 DEF MainNext, MainOwn

\* The steps of a worker outside the queue.
LEMMA WorkerMoves ==
  ASSUME TypeOK, NEW w \in Workers, WorkerNext(w)
  PROVE  Move
<1> USE CallersDiffer DEF server, net, MainStays, WorkersStay, QueueStays
<1>t. qpc \in [Callers -> Points] /\ ret \in [Callers -> Results]
      /\ slot \in [Callers -> Fd \cup {NoFd}] /\ wpc \in [Workers -> WorkerPoints]
  BY DEF TypeOK, QTypeOK
<1>1. CASE DequeueReturns(w) \/ ReadRequest(w) \/ ReadEof(w) \/ ReadBad(w) \/ LogAccess(w)
           \/ Respond(w) \/ RespondBad(w)
  <2>1. UNCHANGED <<qvars, mpc, conn>>
    BY <1>1 DEF DequeueReturns, ReadRequest, ReadEof, ReadBad, LogAccess, Respond, RespondBad,
       WorkerGoto
  <2>2. (MainHolds' <=> MainHolds) /\ MainLife' = MainLife /\ Contents' = Contents
        /\ UNCHANGED <<slot, count, shutdown>>
    BY <2>1 DEF MainHolds, MainLife, Contents, qvars
  <2>3. Holding' = Holding
    BY <1>1, <1>t, <2>1 DEF DequeueReturns, ReadRequest, ReadEof, ReadBad, LogAccess, Respond,
       RespondBad, WorkerGoto, WorkerAt, Goto, Holding, WorkerHolds, qvars
  <2> QED
    BY <2>1, <2>2, <2>3 DEF Move, NoMove
<1>2. CASE CloseClient(w)
  <2>1. (MainHolds' <=> MainHolds) /\ MainLife' = MainLife /\ Contents' = Contents
        /\ UNCHANGED <<slot, count, shutdown>>
    BY <1>2, <1>t DEF CloseClient, CallDequeue, Enter, MainHolds, MainLife, Contents
  <2>2. w \in Holding /\ Holding' = Holding \ {w} /\ Close(slot[w])
    BY <1>2, <1>t DEF CloseClient, CallDequeue, Enter, WorkerAt, Goto, Holding, WorkerHolds
  <2>3. MoveWorkerCloses(w)
    BY <2>1, <2>2 DEF MoveWorkerCloses
  <2> QED
    BY <2>3 DEF Move
<1> QED
  BY <1>1, <1>2 DEF WorkerNext

\* A handler, the kernel and the peers move no accepted socket.
LEMMA OtherMoves ==
  ASSUME TypeOK, Environment \/ \E s \in Sigs : HandlerNext(s)
  PROVE  Move
<1> USE CallersDiffer DEF server, net, MainStays, WorkersStay, QueueStays
<1>t. qpc \in [Callers -> Points] /\ ret \in [Callers -> Results]
  BY DEF TypeOK, QTypeOK
<1>1. CASE Environment
  <2>1. UNCHANGED <<qvars, wpc>> /\ (mpc' = mpc \/ (mpc = "blocked" /\ mpc' = "loop"))
    BY <1>1 DEF Environment, Kill, Deliver, Connect, PeerCloses
  <2>2. /\ (MainHolds' <=> MainHolds) /\ (MainHolds => MainLife' = MainLife)
        /\ Contents' = Contents /\ Holding' = Holding /\ UNCHANGED <<slot, count, shutdown>>
    BY <2>1 DEF MainHolds, MainLife, Contents, Holding, WorkerHolds, qvars
  <2>3. UNCHANGED conn \/ \E f \in Fd : conn[f] = "absent" /\ conn' = [conn EXCEPT ![f] = "backlog"]
    BY <1>1 DEF Environment, Kill, Deliver, Connect, PeerCloses
  <2> QED
    BY <2>2, <2>3 DEF Move, NoMove, MoveArrive
<1>2. ASSUME NEW s \in Sigs, HandlerNext(s) PROVE Move
  <2>1. UNCHANGED <<mpc, wpc, conn>> /\ (UNCHANGED qvars \/ CallShutdown(s))
    BY <1>2 DEF HandlerNext, HandlerFlag, HandlerListen, HandlerQueue, HandlerReturns
  <2>2. /\ (MainHolds' <=> MainHolds) /\ MainLife' = MainLife
        /\ Contents' = Contents /\ Holding' = Holding /\ UNCHANGED <<slot, count, shutdown>>
    BY <1>t, <2>1 DEF MainHolds, MainLife, Contents, Holding, WorkerHolds, CallShutdown, Enter,
       qvars
  <2> QED
    BY <2>1, <2>2 DEF Move, NoMove
<1> QED
  BY <1>1, <1>2

\* The steps inside the queue: enqueue and dequeue move a socket.
LEMMA QueueMoves ==
  ASSUME TypeOK, PhaseInv, RingIInv, RingIInv', NEW c \in Callers, QueueNext(c)
  PROVE  Move
<1> USE CallersDiffer DEF server, net, MainStays, WorkersStay, QueueStays
<1>t. /\ qpc \in [Callers -> Points] /\ ret \in [Callers -> Results]
      /\ slot \in [Callers -> Fd \cup {NoFd}] /\ wpc \in [Workers -> WorkerPoints]
      /\ count \in Nat /\ count <= Capacity
  BY QueueAssumption DEF TypeOK, QTypeOK
<1>0. UNCHANGED <<mpc, wpc, conn>> /\ (Lock(c) \/ Work(c) \/ SpuriousWakeup(c))
  BY DEF QueueNext, InQueue
<1>c. CallsInv
  BY DEF PhaseInv
<1>1. CASE Lock(c) \/ DequeueWait(c) \/ SpuriousWakeup(c)
  <2>1. (MainHolds' <=> MainHolds) /\ MainLife' = MainLife /\ Holding' = Holding
    BY <1>0, <1>1, <1>t DEF MainHolds, MainLife, Holding, WorkerHolds, Lock, CriticalSection,
       DequeueWait, SpuriousWakeup
  <2>2. Contents' = Contents /\ UNCHANGED <<slot, count, shutdown>>
    BY <1>1 DEF Contents, Lock, DequeueWait, SpuriousWakeup
  <2> QED
    BY <1>0, <2>1, <2>2 DEF Move, NoMove
<1>2. CASE EnqueueRefused(c)
  <2>0. c = Main /\ mpc = "enqueue"
    BY <1>2, <1>c DEF CallsInv, InDequeue, InShutdown, EnqueueRefused
  <2>1. MainHolds /\ MainHolds' /\ MainLife = "accepted"
        /\ MainLife' = IF shutdown THEN "dropped" ELSE "refused"
    BY <1>0, <1>2, <1>t, <2>0 DEF EnqueueRefused, MainHolds, MainLife, Leave
  <2>2. Holding' = Holding
    BY <1>0, <1>2, <1>t, <2>0 DEF EnqueueRefused, Holding, WorkerHolds, Leave
  <2>3. Contents' = Contents /\ UNCHANGED <<slot, count, shutdown>>
        /\ (~shutdown => count = Capacity)
    BY <1>2 DEF Contents, EnqueueRefused, IsFull
  <2> QED
    BY <1>0, <2>1, <2>2, <2>3 DEF Move, MoveRefuse
<1>3. CASE EnqueueStored(c)
  <2>0. c = Main /\ mpc = "enqueue"
    BY <1>3, <1>c DEF CallsInv, InDequeue, InShutdown, EnqueueStored
  <2>1. PICK woken \in SUBSET Waiters : Leave(c, "OK", woken)
    BY <1>3 DEF EnqueueStored, CondSignal
  <2>2. MainHolds /\ ~MainHolds' /\ MainLife = "accepted"
    BY <1>0, <1>3, <1>t, <2>0, <2>1 DEF EnqueueStored, MainHolds, MainLife, Leave
  <2>3. Holding' = Holding
    BY <1>0, <1>t, <2>0, <2>1 DEF Holding, WorkerHolds, Leave, Waiters
  <2>4. Contents' = Append(Contents, slot[Main])
    BY <1>3, <2>0, StoredContents
  <2>5. count' = count + 1 /\ UNCHANGED <<slot, shutdown>> /\ ~shutdown /\ count < Capacity
    BY <1>3, <1>t, QueueAssumption DEF EnqueueStored, IsFull
  <2> QED
    BY <1>0, <2>2, <2>3, <2>4, <2>5 DEF Move, MoveQueue
<1>4. CASE DequeueTaken(c)
  <2>0. c \in Workers /\ wpc[c] = "dequeue"
    BY <1>4, <1>c DEF CallsInv, InDequeue, InShutdown, DequeueTaken
  <2>1. Leave(c, "OK", {})
    BY <1>4 DEF DequeueTaken
  <2>2. (MainHolds' <=> MainHolds) /\ MainLife' = MainLife
    BY <1>0, <1>t, <2>0, <2>1 DEF MainHolds, MainLife, Leave
  <2>3. c \notin Holding /\ Holding' = Holding \cup {c}
    BY <1>0, <1>4, <1>t, <2>0, <2>1 DEF DequeueTaken, Holding, WorkerHolds, Leave
  <2>4. slot'[c] = Head(Contents) /\ Contents' = Tail(Contents)
    BY <1>4, TakenContents
  <2>5. count' = count - 1 /\ count > 0 /\ UNCHANGED shutdown
    BY <1>4, <1>t, TakenRing DEF DequeueTaken
  <2>6. slot'[Main] = slot[Main] /\ \A v \in Holding : slot'[v] = slot[v]
    BY <1>4, <1>t, <2>0, <2>3 DEF DequeueTaken, Holding
  <2>7. MoveTake(c)
    BY <1>0, <2>2, <2>3, <2>4, <2>5, <2>6 DEF MoveTake
  <2> QED
    BY <2>0, <2>7 DEF Move
<1>5. CASE DequeueClosed(c) \/ ShutdownQueue(c)
  <2>1. PICK r \in Results, woken \in SUBSET Waiters : Leave(c, r, woken)
    BY <1>5 DEF DequeueClosed, ShutdownQueue, Broadcast, Results
  <2>2. /\ c = Main => mpc = "stop"
        /\ c \in Workers => ret'[c] # "OK"
    BY <1>5, <1>t, <1>c DEF DequeueClosed, ShutdownQueue, Leave, CallsInv, InDequeue, InShutdown
  <2>3. qpc[c] # "idle"
    BY <1>5 DEF DequeueClosed, ShutdownQueue
  <2>4. (MainHolds' <=> MainHolds) /\ (MainHolds => MainLife' = MainLife)
    BY <1>0, <1>t, <1>c, <2>1, <2>2, <2>3 DEF MainHolds, MainLife, Leave, Waiters, CallsInv
  <2>5. Holding' = Holding
    BY <1>0, <1>t, <1>c, <2>1, <2>2, <2>3 DEF Holding, WorkerHolds, Leave, Waiters, CallsInv
  <2>6. Contents' = Contents /\ UNCHANGED <<slot, count>> /\ (UNCHANGED shutdown \/ shutdown' = TRUE)
    BY <1>5 DEF Contents, DequeueClosed, ShutdownQueue
  <2> QED
    BY <1>0, <2>4, <2>5, <2>6 DEF Move, NoMove, MoveStop
<1> QED
  BY <1>0, <1>1, <1>2, <1>3, <1>4, <1>5 DEF Work

\* Whatever the server does is one of these moves.
LEMMA EveryStepMoves ==
  ASSUME TypeOK, PhaseInv, RingIInv, RingIInv', [Next]_vars
  PROVE  Move
<1>1. CASE UNCHANGED vars
  BY <1>1 DEF vars, qvars, net, MainHolds, MainLife, Holding, WorkerHolds, Contents, Move,
     NoMove, MainStays, WorkersStay, QueueStays
<1> QED
  BY <1>1, MainMoves, WorkerMoves, OtherMoves, QueueMoves DEF Next
-----------------------------------------------------------------------------
(* Who holds each socket                                                   *)

LEMMA OwnInit == Init => OwnInv
  BY CallersDiffer DEF Init, QInit, OwnInv, HeldIsOpen, OpenIsHeld, HeldOnce, Holding, MainHolds,
     WorkerHolds

\* Every move keeps each socket in one place.
LEMMA OwnStep ==
  TypeOK /\ PhaseInv /\ RingIInv /\ RingIInv' /\ OwnInv /\ [Next]_vars => OwnInv'
<1> SUFFICES ASSUME TypeOK, PhaseInv, RingIInv, RingIInv', OwnInv, [Next]_vars PROVE OwnInv'
  OBVIOUS
<1>t. count \in Nat /\ conn \in [Fd -> {"absent", "backlog", "open", "closed"}]
  BY QueueAssumption DEF TypeOK, QTypeOK
<1>c. Contents \in Seq(Fd) /\ Len(Contents) = count
  BY ContentsSeq DEF ContentsOK
<1> USE DEF OwnInv, MainStays, WorkersStay, QueueStays, Close
<1>1. CASE NoMove \/ MoveStop \/ MoveRefuse
  BY <1>1 DEF NoMove, MoveStop, MoveRefuse, HeldIsOpen, OpenIsHeld, HeldOnce
<1>2. CASE MoveMainCloses
  BY <1>2, <1>t DEF MoveMainCloses, HeldIsOpen, OpenIsHeld, HeldOnce
<1>3. ASSUME NEW w \in Workers, MoveWorkerCloses(w) PROVE OwnInv'
  BY <1>3, <1>t DEF MoveWorkerCloses, HeldIsOpen, OpenIsHeld, HeldOnce
<1>4. ASSUME NEW f \in Fd, MoveArrive(f) \/ MoveAccept(f) PROVE OwnInv'
  BY <1>4, <1>t DEF MoveArrive, MoveAccept, HeldIsOpen, OpenIsHeld, HeldOnce
<1>5. CASE MoveQueue
  <2>0. WorkersStay /\ MainHolds /\ ~MainHolds' /\ conn' = conn
    BY <1>5 DEF MoveQueue
  <2>1. \A i \in 1 .. count' : \/ i = count + 1 /\ Contents'[i] = slot[Main]
                               \/ i \in 1 .. count /\ Contents'[i] = Contents[i]
    BY <1>5, <1>t, <1>c DEF MoveQueue
  <2>2. count + 1 \in 1 .. count' /\ \A i \in 1 .. count : i \in 1 .. count' /\ i # count + 1
    BY <1>5, <1>t DEF MoveQueue
  <2>3. HeldIsOpen'
    BY <2>0, <2>1 DEF HeldIsOpen
  <2>4. OpenIsHeld'
    BY <2>0, <2>1, <2>2 DEF OpenIsHeld
  <2>5. HeldOnce'
    BY <2>0, <2>1 DEF HeldOnce
  <2> QED
    BY <2>3, <2>4, <2>5
<1>6. ASSUME NEW w \in Workers, MoveTake(w) PROVE OwnInv'
  <2>0. /\ MainStays /\ conn' = conn
        /\ w \notin Holding /\ Holding' = Holding \cup {w} /\ \A v \in Holding : slot'[v] = slot[v]
    BY <1>6 DEF MoveTake
  <2>1. /\ 1 \in 1 .. count /\ slot'[w] = Contents[1]
        /\ \A i \in 1 .. count' : i + 1 \in 1 .. count /\ Contents'[i] = Contents[i + 1]
        /\ \A i \in 1 .. count : i = 1 \/ (i - 1 \in 1 .. count' /\ Contents'[i - 1] = Contents[i])
    BY <1>6, <1>t, <1>c DEF MoveTake
  <2>2. HeldIsOpen'
    BY <2>0, <2>1 DEF HeldIsOpen
  <2>3. OpenIsHeld'
    BY <2>0, <2>1 DEF OpenIsHeld
  <2>4. HeldOnce'
    BY <2>0, <2>1 DEF HeldOnce
  <2> QED
    BY <2>2, <2>3, <2>4
<1> QED
  BY <1>1, <1>2, <1>3, <1>4, <1>5, <1>6, EveryStepMoves DEF Move

LEMMA ServerRing == Spec => []RingIInv
<1>1. QSpec => []RingIInv
  BY RingInit, RingStep, PTL DEF QSpec
<1> QED
  BY <1>1, ServerUsesQueue, PTL

LEMMA OwnCorrect == Spec => []OwnInv
  BY TypeCorrect, PhaseCorrect, ServerRing, OwnInit, OwnStep, PTL DEF Spec

\* The sets of Ownership, from the invariant.
LEMMA OwnersAreHolders == TypeOK /\ RingIInv /\ OwnInv => Ownership
<1> SUFFICES ASSUME TypeOK, RingIInv, OwnInv PROVE Ownership
  OBVIOUS
<1>1. count \in Nat
  BY QueueAssumption DEF TypeOK, QTypeOK
<1>2. head \in Nat
  BY QueueAssumption DEF TypeOK, QTypeOK, Slots
<1>3. ASSUME NEW i \in 0 .. count - 1
      PROVE  i + 1 \in 1 .. count /\ items[(head + i) % Capacity] = Contents[i + 1]
  <2>1. i + 1 \in 1 .. count /\ head + (i + 1) - 1 = head + i
    BY <1>1, <1>2
  <2> QED
    BY <2>1, ContentsSeq DEF ContentsOK
<1>4. ASSUME NEW f \in Fd, conn[f] # "open" PROVE Owners(f) = {}
  BY <1>3, <1>4 DEF Owners, OwnInv, HeldIsOpen, Holding
<1>5. ASSUME NEW f \in Fd, conn[f] = "open" PROVE \E o \in Owners(f) : Owners(f) = {o}
  <2>1. CASE MainHolds /\ slot[Main] = f
    <3>1. Owners(f) = {Main}
      BY <1>3, <2>1 DEF Owners, OwnInv, HeldOnce, Holding
    <3> QED
      BY <3>1
  <2>2. CASE \E w \in Holding : slot[w] = f
    <3>1. PICK w \in Holding : slot[w] = f
      BY <2>2
    <3>2. Owners(f) = {w}
      BY <1>3, <3>1 DEF Owners, OwnInv, HeldOnce, Holding
    <3> QED
      BY <3>2
  <2>3. CASE \E i \in 1 .. count : Contents[i] = f
    <3>1. PICK j \in 1 .. count : Contents[j] = f
      BY <2>3
    <3>2. j - 1 \in 0 .. count - 1 /\ items[(head + (j - 1)) % Capacity] = f
      BY <1>1, <1>3, <3>1
    <3>3. ASSUME NEW i \in 0 .. count - 1, items[(head + i) % Capacity] = f
          PROVE  i = j - 1
      BY <1>1, <1>3, <3>1, <3>3 DEF OwnInv, HeldOnce
    <3>4. Owners(f) = {j - 1}
      BY <3>1, <3>2, <3>3 DEF Owners, OwnInv, HeldOnce, Holding
    <3> QED
      BY <3>4
  <2> QED
    BY <1>5, <2>1, <2>2, <2>3 DEF OwnInv, OpenIsHeld
<1> QED
  BY <1>4, <1>5 DEF Ownership

\* Every accepted socket is in exactly one place until it is closed, for any
\* number of workers, signals and sockets and any capacity.
THEOREM SocketsAreOwned == Spec => []Ownership
  BY TypeCorrect, ServerRing, OwnCorrect, OwnersAreHolders, PTL

\* When main returns nothing is left behind: it has joined every worker, each
\* of which ended only on an empty closed queue, so no socket has a holder.
THEOREM ExitIsClean == Spec => []CleanExit
<1>1. ASSUME TypeOK, PhaseInv, OwnInv PROVE CleanExit
  <2> SUFFICES ASSUME proc = "exited" PROVE CleanExit
    BY DEF CleanExit
  <2>1. mpc = "done" /\ lsock # "listening" /\ access_log = "null" /\ queue = "null"
    BY <1>1 DEF TypeOK, PhaseInv, ResourceInv, AfterJoin
  <2>2. count = 0 /\ \A w \in Workers : wpc[w] \in {"unborn", "dead"}
    BY <1>1, <2>1 DEF PhaseInv, WorkersInv, AfterJoin
  <2>3. ~MainHolds /\ Holding = {}
    BY <2>1, <2>2 DEF MainHolds, Holding, WorkerHolds
  <2> QED
    BY <1>1, <2>1, <2>2, <2>3 DEF CleanExit, OwnInv, OpenIsHeld
<1> QED
  BY <1>1, TypeCorrect, PhaseCorrect, OwnCorrect, PTL
-----------------------------------------------------------------------------
(* What is closed without an answer                                        *)

LEMMA DropInit == Init => DropInv /\ NoSilentDrop
  BY DEF Init, DropInv, NoSilentDrop

\* The queue stays closed, and answers and departures are not taken back.
LEMMA ExcusesStay ==
  ASSUME TypeOK, [Next]_vars
  PROVE  (shutdown => shutdown') /\ \A f \in Fd : Excused(f) => Excused(f)'
<1> USE DEF Excused, server, net, TypeOK
<1>1. shutdown => shutdown'
  <2>1. [QNext]_qvars
    BY ServerStep
  <2> QED
    BY <2>1 DEF QNext, qvars, Work, CallEnqueue, CallDequeue, CallShutdown, Enter, Lock,
       EnqueueRefused, EnqueueStored, DequeueWait, DequeueClosed, DequeueTaken, ShutdownQueue,
       SpuriousWakeup
<1>2. CASE MainNext
  BY <1>1, <1>2 DEF MainNext, MainOwn, InitQueue, InitLog, InitListen, InstallHandlers,
     SpawnWorker, SpawnDone, NoThreadTable, SpawnFails, LoopTest, CallAccept, AcceptReturns,
     HandleFailure, EnqueueReturns, Reject, RejectClose, StopReturns, JoinWorkers,
     DestroyListen, DestroyLog, DestroyQueue, DestroyNull, AcceptFails, MainGoto, Sent
<1>3. ASSUME NEW w \in Workers, WorkerNext(w)
      PROVE  \A f \in Fd : Excused(f) => Excused(f)'
  BY <1>3 DEF WorkerNext, DequeueReturns, ReadRequest, ReadEof, ReadBad, LogAccess, Respond,
     RespondBad, CloseClient, WorkerGoto, Sent
<1>4. ASSUME NEW s \in Sigs, HandlerNext(s)
      PROVE  \A f \in Fd : Excused(f) => Excused(f)'
  BY <1>4 DEF HandlerNext, HandlerFlag, HandlerListen, HandlerQueue, HandlerReturns
<1>5. CASE Environment
  BY <1>1, <1>5 DEF Environment, Kill, Deliver, Connect, PeerCloses
<1>6. CASE UNCHANGED vars \/ \E c \in Callers : QueueNext(c)
  BY <1>1, <1>6 DEF vars, QueueNext, InQueue
<1> QED
  BY <1>1, <1>2, <1>3, <1>4, <1>5, <1>6 DEF Next

\* A step that brings nobody to the point before a close, and closes nothing.
LEMMA DropKept ==
  ASSUME TypeOK, OwnInv, DropInv, NoSilentDrop, [Next]_vars,
         mpc' = "reject_log" => mpc = "reject_log" /\ slot'[Main] = slot[Main],
         \A w \in Workers : wpc'[w] \in {"log", "close"} =>
                            wpc[w] \in {"log", "close"} /\ slot'[w] = slot[w],
         \A f \in Fd : conn'[f] = "closed" => conn[f] = "closed"
  PROVE  DropInv' /\ NoSilentDrop'
<1>1. DropInv'
  BY ExcusesStay DEF DropInv, Excused, OwnInv, HeldIsOpen, MainHolds, Holding, WorkerHolds
<1>2. NoSilentDrop'
  BY ExcusesStay DEF NoSilentDrop, Excused
<1> QED
  BY <1>1, <1>2

\* Whatever send does, the socket is then answered or its peer has left.
LEMMA SendExcuses ==
  ASSUME TypeOK, NEW f \in Fd, NEW o \in SendOutcomes(f), Sent(f, o), UNCHANGED left
  PROVE  Excused(f)'
  BY DEF TypeOK, SendOutcomes, Sent, Excused

LEMMA MainDrops ==
  ASSUME TypeOK, PhaseInv, OwnInv, DropInv, NoSilentDrop, MainNext
  PROVE  DropInv' /\ NoSilentDrop'
<1> USE CallersDiffer DEF server, net
<1>0. [Next]_vars
  BY DEF Next
<1>t. slot \in [Callers -> Fd \cup {NoFd}] /\ wpc \in [Workers -> WorkerPoints]
  BY DEF TypeOK, QTypeOK
<1>1. CASE Reject
  <2>1. slot[Main] \in Fd
    BY <1>1 DEF Reject, MainAt, OwnInv, HeldIsOpen, MainHolds
  <2>2. Excused(slot[Main])'
    <3>1. PICK o \in SendOutcomes(slot[Main]) : Sent(slot[Main], o)
      BY <1>1 DEF Reject
    <3>2. UNCHANGED <<left, slot>>
      BY <1>1 DEF Reject, qvars
    <3> QED
      BY <2>1, <3>1, <3>2, SendExcuses DEF Excused
  <2>3. \A w \in Workers : wpc'[w] \in {"log", "close"} => Excused(slot[w])'
    BY <1>0, <1>1, ExcusesStay
    DEF Reject, DropInv, Excused, OwnInv, HeldIsOpen, Holding, WorkerHolds, qvars
  <2>4. NoSilentDrop'
    BY <1>0, <1>1, ExcusesStay DEF Reject, NoSilentDrop, Excused, qvars
  <2> QED
    BY <2>2, <2>3, <2>4 DEF DropInv
\* The two closes of main.
<1>2. CASE (EnqueueReturns /\ ret[Main] = "CLOSED") \/ RejectClose
  <2>1. slot[Main] \in Fd /\ (shutdown \/ Excused(slot[Main]))
    BY <1>2 DEF EnqueueReturns, RejectClose, MainAt, OwnInv, HeldIsOpen, MainHolds, PhaseInv,
       ReturnInv, DropInv
  <2>2. UNCHANGED <<qvars, wpc, left, answered>> /\ mpc' = "loop" /\ Close(slot[Main])
    BY <1>2 DEF EnqueueReturns, RejectClose
  <2>3. DropInv'
    BY <2>2 DEF DropInv, Excused, qvars
  <2>4. NoSilentDrop'
    BY <2>1, <2>2 DEF NoSilentDrop, Excused, Close, TypeOK, qvars
  <2> QED
    BY <2>3, <2>4
<1>3. CASE SpawnWorker
  <2>0. PICK w \in Unborn : CallDequeue(w) /\ wpc' = [wpc EXCEPT ![w] = "dequeue"]
    BY <1>3 DEF SpawnWorker
  <2>1. UNCHANGED <<slot, conn, mpc>>
        /\ \A v \in Workers : wpc'[v] \in {"log", "close"} => wpc[v] \in {"log", "close"}
    BY <1>3, <1>t, <2>0 DEF SpawnWorker, CallDequeue
  <2> QED
    BY <1>0, <2>1, DropKept
<1>4. CASE AcceptReturns
  <2>0. PICK f \in Fd : /\ conn[f] = "backlog" /\ conn' = [conn EXCEPT ![f] = "open"]
                        /\ CallEnqueue(Main, f)
    BY <1>4 DEF AcceptReturns
  <2>1. mpc' = "enqueue" /\ UNCHANGED wpc /\ \A w \in Workers : slot'[w] = slot[w]
    BY <1>4, <1>t, <2>0 DEF AcceptReturns, CallEnqueue
  <2>2. \A g \in Fd : conn'[g] = "closed" => conn[g] = "closed"
    BY <2>0 DEF TypeOK
  <2> QED
    BY <1>0, <2>1, <2>2, DropKept
<1>5. CASE (EnqueueReturns /\ ret[Main] # "CLOSED")
           \/ InitQueue \/ InitLog \/ InitListen \/ InstallHandlers \/ SpawnDone
           \/ NoThreadTable \/ SpawnFails \/ LoopTest \/ CallAccept \/ AcceptFails
           \/ HandleFailure \/ StopReturns \/ JoinWorkers \/ DestroyListen \/ DestroyLog
           \/ DestroyQueue \/ DestroyNull
  <2>1. UNCHANGED <<slot, wpc, conn>> /\ mpc' # "reject_log"
    BY <1>5 DEF EnqueueReturns, InitQueue, InitLog, InitListen, InstallHandlers, SpawnDone,
       NoThreadTable, SpawnFails, LoopTest, CallAccept, AcceptFails, HandleFailure,
       StopReturns, JoinWorkers, DestroyListen, DestroyLog, DestroyQueue, DestroyNull,
       MainGoto, StopOr, CallShutdown, Exit, qvars
  <2> QED
    BY <1>0, <2>1, DropKept
<1> QED
  BY <1>1, <1>2, <1>3, <1>4, <1>5 DEF MainNext, MainOwn

LEMMA WorkerDrops ==
  ASSUME TypeOK, OwnInv, DropInv, NoSilentDrop, NEW w \in Workers, WorkerNext(w)
  PROVE  DropInv' /\ NoSilentDrop'
<1> USE CallersDiffer DEF server, net
<1>0. [Next]_vars
  BY DEF Next
<1>t. slot \in [Callers -> Fd \cup {NoFd}] /\ wpc \in [Workers -> WorkerPoints]
  BY DEF TypeOK, QTypeOK
<1>1. ASSUME wpc' = [wpc EXCEPT ![w] = wpc'[w]], UNCHANGED <<slot, mpc, conn>>,
             wpc'[w] \in {"log", "close"} => slot[w] \in Fd /\ Excused(slot[w])'
      PROVE  DropInv' /\ NoSilentDrop'
  <2>1. mpc' = "reject_log" => Excused(slot[Main])'
    BY <1>0, <1>1, ExcusesStay DEF DropInv, Excused, OwnInv, HeldIsOpen, MainHolds
  <2>2. \A v \in Workers : wpc'[v] \in {"log", "close"} => Excused(slot[v])'
    BY <1>0, <1>1, <1>t, ExcusesStay
    DEF DropInv, Excused, OwnInv, HeldIsOpen, Holding, WorkerHolds
  <2>3. NoSilentDrop'
    BY <1>0, <1>1, ExcusesStay DEF NoSilentDrop, Excused
  <2> QED
    BY <2>1, <2>2, <2>3 DEF DropInv
<1>2. CASE Respond(w) \/ RespondBad(w)
  <2>1. slot[w] \in Fd
    BY <1>2 DEF Respond, RespondBad, WorkerAt, OwnInv, HeldIsOpen, Holding, WorkerHolds
  <2>2. Excused(slot[w])'
    <3>1. PICK o \in SendOutcomes(slot[w]) : Sent(slot[w], o)
      BY <1>2 DEF Respond, RespondBad
    <3>2. UNCHANGED <<left, slot>>
      BY <1>2 DEF Respond, RespondBad, qvars
    <3> QED
      BY <2>1, <3>1, <3>2, SendExcuses DEF Excused
  <2>3. UNCHANGED <<slot, mpc, conn>> /\ wpc' = [wpc EXCEPT ![w] = wpc'[w]]
    BY <1>2, <1>t DEF Respond, RespondBad, Goto, qvars
  <2> QED
    BY <1>1, <2>1, <2>2, <2>3
<1>3. CASE DequeueReturns(w) \/ ReadRequest(w) \/ ReadEof(w) \/ ReadBad(w) \/ LogAccess(w)
  <2>1. UNCHANGED <<slot, mpc, conn, left, answered>> /\ wpc' = [wpc EXCEPT ![w] = wpc'[w]]
    BY <1>3, <1>t DEF DequeueReturns, ReadRequest, ReadEof, ReadBad, LogAccess, WorkerGoto, Goto,
       qvars
  <2>2. wpc'[w] \in {"log", "close"} => slot[w] \in Fd /\ Excused(slot[w])
    BY <1>3, <1>t DEF DequeueReturns, ReadRequest, ReadEof, ReadBad, LogAccess, WorkerGoto,
       WorkerAt, Goto, DropInv, Excused, OwnInv, HeldIsOpen, Holding, WorkerHolds
  <2> QED
    BY <1>1, <2>1, <2>2 DEF Excused
<1>4. CASE CloseClient(w)
  <2>1. slot[w] \in Fd /\ Excused(slot[w])
    BY <1>4 DEF CloseClient, WorkerAt, DropInv, OwnInv, HeldIsOpen, Holding, WorkerHolds
  <2>2. UNCHANGED <<slot, shutdown, mpc, left, answered>> /\ Close(slot[w])
        /\ wpc' = [wpc EXCEPT ![w] = "dequeue"]
    BY <1>4 DEF CloseClient, CallDequeue, Enter, Goto
  <2>3. DropInv'
    BY <2>2, <1>t DEF DropInv, Excused
  <2>4. NoSilentDrop'
    BY <2>1, <2>2 DEF NoSilentDrop, Excused, Close, TypeOK
  <2> QED
    BY <2>3, <2>4
<1> QED
  BY <1>2, <1>3, <1>4 DEF WorkerNext

LEMMA DropStep ==
  TypeOK /\ PhaseInv /\ OwnInv /\ DropInv /\ NoSilentDrop /\ [Next]_vars
    => DropInv' /\ NoSilentDrop'
<1> SUFFICES ASSUME TypeOK, PhaseInv, OwnInv, DropInv, NoSilentDrop, [Next]_vars
             PROVE  DropInv' /\ NoSilentDrop'
  OBVIOUS
<1> USE CallersDiffer DEF server, net
<1>t. slot \in [Callers -> Fd \cup {NoFd}]
  BY DEF TypeOK, QTypeOK
<1>1. ASSUME NEW s \in Sigs, HandlerNext(s)
      PROVE  DropInv' /\ NoSilentDrop'
  <2>1. UNCHANGED <<slot, mpc, wpc, conn>>
    BY <1>1 DEF HandlerNext, HandlerFlag, HandlerListen, HandlerQueue, HandlerReturns,
       CallShutdown, qvars
  <2> QED
    BY <2>1, DropKept
<1>2. CASE Environment
  <2>1. UNCHANGED <<slot, wpc>> /\ (mpc' = mpc \/ mpc' = "loop")
    BY <1>2 DEF Environment, Kill, Deliver, Connect, PeerCloses, qvars
  <2>2. \A f \in Fd : conn'[f] = "closed" => conn[f] = "closed"
    BY <1>2 DEF Environment, Kill, Deliver, Connect, PeerCloses, TypeOK
  <2> QED
    BY <2>1, <2>2, DropKept
\* dequeue gives a socket only to a worker that is inside it.
<1>3. ASSUME NEW c \in Callers, QueueNext(c)
      PROVE  DropInv' /\ NoSilentDrop'
  <2>1. UNCHANGED <<mpc, wpc, conn>> /\ (Lock(c) \/ Work(c) \/ SpuriousWakeup(c))
    BY <1>3 DEF QueueNext, InQueue
  <2>2. UNCHANGED slot \/ (DequeueTaken(c) /\ c \in Workers /\ wpc[c] = "dequeue")
    BY <2>1 DEF Lock, SpuriousWakeup, Work, EnqueueRefused, EnqueueStored, DequeueWait,
       DequeueClosed, DequeueTaken, ShutdownQueue, PhaseInv, CallsInv, InDequeue, InShutdown
  <2>3. slot'[Main] = slot[Main]
        /\ \A w \in Workers : wpc[w] \in {"log", "close"} => slot'[w] = slot[w]
    BY <1>t, <2>2 DEF DequeueTaken
  <2> QED
    BY <2>1, <2>3, DropKept
<1>4. CASE UNCHANGED vars
  BY <1>4, DropKept DEF vars, qvars
<1> QED
  BY <1>1, <1>2, <1>3, <1>4, MainDrops, WorkerDrops DEF Next

\* No accepted socket is closed without an answer unless its peer has left or
\* the queue is shut down, for any number of workers, signals and sockets.
THEOREM NothingDroppedSilently == Spec => []NoSilentDrop
<1>1. Spec => [](DropInv /\ NoSilentDrop)
  BY TypeCorrect, PhaseCorrect, OwnCorrect, DropInit, DropStep, PTL DEF Spec
<1> QED
  BY <1>1, PTL
=============================================================================
