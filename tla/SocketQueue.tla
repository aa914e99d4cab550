---------------------------- MODULE SocketQueue ----------------------------
(***************************************************************************)
(* The bounded socket queue of src/thread_pool.c: a ring buffer of client  *)
(* sockets behind one mutex and the condition variable not_empty.          *)
(*                                                                         *)
(* A call has three points other callers can see: waiting for the mutex    *)
(* (points "..._lock"), inside the critical section ("..._cs"), asleep in  *)
(* pthread_cond_wait ("waiting").  What is done from lock to unlock is     *)
(* one step, because every access to the fields is made under the mutex.   *)
(* Nobody ever waits on not_full, so signalling it has no effect and it    *)
(* has no variable.                                                        *)
(***************************************************************************)
EXTENDS Integers, FiniteSets

CONSTANTS Callers,   \* the contexts that call the queue
          Capacity,  \* queue->capacity
          Fd,        \* client sockets
          NoFd,      \* no socket (-1, or a slot never written)
          NoCaller   \* the owner of an unlocked mutex

ASSUME QueueAssumption ==
  /\ IsFiniteSet(Callers)
  /\ Capacity \in Nat \ {0}
  /\ NoFd \notin Fd
  /\ NoCaller \notin Callers

VARIABLES items, head, tail, count, shutdown,   \* struct socket_queue
          mutex,     \* the caller that owns queue->mutex, or NoCaller
          qpc,       \* qpc[c]: where c is in the queue's functions
          slot,      \* slot[c]: c's client_fd (argument, or *client_fd)
          ret        \* ret[c]: the queue_result_t of c's last call

qvars == <<items, head, tail, count, shutdown, mutex, qpc, slot, ret>>

Slots == 0 .. Capacity - 1
Points == {"idle", "enq_lock", "enq_cs", "deq_lock", "deq_cs", "waiting",
           "shut_lock", "shut_cs"}
Results == {"none", "OK", "FULL", "CLOSED"}

\* Callers asleep on not_empty.
Waiters == {c \in Callers : qpc[c] = "waiting"}
\* Callers inside dequeue that are not asleep.
Takers == {c \in Callers : qpc[c] \in {"deq_lock", "deq_cs"}}

\* socket_queue_init: calloc leaves every field zero.
QInit ==
  /\ items = [i \in Slots |-> NoFd]
  /\ head = 0 /\ tail = 0 /\ count = 0
  /\ shutdown = FALSE
  /\ mutex = NoCaller
  /\ qpc = [c \in Callers |-> "idle"]
  /\ slot = [c \in Callers |-> NoFd]
  /\ ret = [c \in Callers |-> "none"]
-----------------------------------------------------------------------------
(* The functions' entry points, up to pthread_mutex_lock.                  *)

Enter(c, point) ==
  /\ qpc[c] = "idle"
  /\ qpc' = [qpc EXCEPT ![c] = point]
  /\ ret' = [ret EXCEPT ![c] = "none"]
  /\ UNCHANGED <<items, head, tail, count, shutdown, mutex>>

CallEnqueue(c, f) ==
  /\ Enter(c, "enq_lock")
  /\ slot' = [slot EXCEPT ![c] = f]

CallDequeue(c) == Enter(c, "deq_lock") /\ UNCHANGED slot

CallShutdown(c) == Enter(c, "shut_lock") /\ UNCHANGED slot

\* pthread_mutex_lock succeeds, for a new call or for a caller woken inside
\* pthread_cond_wait.
CriticalSection(point) ==
  CASE point = "enq_lock" -> "enq_cs"
    [] point = "deq_lock" -> "deq_cs"
    [] point = "shut_lock" -> "shut_cs"

Lock(c) ==
  /\ qpc[c] \in {"enq_lock", "deq_lock", "shut_lock"}
  /\ mutex = NoCaller
  /\ mutex' = c
  /\ qpc' = [qpc EXCEPT ![c] = CriticalSection(qpc[c])]
  /\ UNCHANGED <<items, head, tail, count, shutdown, slot, ret>>
-----------------------------------------------------------------------------
(* Helpers of the critical sections, each after the mutant of it.          *)

AdvanceTooFar(i) == (i + 1) % (Capacity + 1)
Advance(i) == (i + 1) % Capacity

IsFullLate == count > Capacity
IsFullEarly == count = Capacity - 1
IsFull == count = Capacity

\* The sets of sleepers one pthread_cond_signal may wake.
CondSignalLost == {{}}
CondSignal == IF Waiters = {} THEN {{}} ELSE {{w} : w \in Waiters}

\* The sleepers pthread_cond_broadcast wakes.
BroadcastOne == CondSignal
Broadcast == {Waiters}

\* dequeue reports CLOSED only when nothing is left to hand out.
DrainedEarly == shutdown
Drained == count = 0 /\ shutdown

\* Unlock and return r; the callers in woken have to lock again.
Leave(c, r, woken) ==
  /\ mutex' = NoCaller
  /\ ret' = [ret EXCEPT ![c] = r]
  /\ qpc' = [x \in Callers |-> IF x = c THEN "idle"
                               ELSE IF x \in woken THEN "deq_lock"
                               ELSE qpc[x]]
-----------------------------------------------------------------------------
(* The critical sections, up to pthread_mutex_unlock.                      *)

\* socket_queue_enqueue never waits: it refuses when closed or full.
EnqueueRefused(c) ==
  /\ qpc[c] = "enq_cs"
  /\ shutdown \/ IsFull
  /\ Leave(c, IF shutdown THEN "CLOSED" ELSE "FULL", {})
  /\ UNCHANGED <<items, head, tail, count, shutdown, slot>>

EnqueueStored(c) ==
  /\ qpc[c] = "enq_cs"
  /\ ~shutdown /\ ~IsFull
  /\ items' = [items EXCEPT ![tail] = slot[c]]
  /\ tail' = Advance(tail)
  /\ count' = count + 1
  /\ \E woken \in CondSignal : Leave(c, "OK", woken)
  /\ UNCHANGED <<head, shutdown, slot>>

\* The while loop of socket_queue_dequeue: pthread_cond_wait gives the mutex
\* back and falls asleep in one step.
DequeueWait(c) ==
  /\ qpc[c] = "deq_cs"
  /\ count = 0 /\ ~shutdown
  /\ mutex' = NoCaller
  /\ qpc' = [qpc EXCEPT ![c] = "waiting"]
  /\ UNCHANGED <<items, head, tail, count, shutdown, slot, ret>>

DequeueClosed(c) ==
  /\ qpc[c] = "deq_cs"
  /\ Drained
  /\ Leave(c, "CLOSED", {})
  /\ UNCHANGED <<items, head, tail, count, shutdown, slot>>

DequeueTaken(c) ==
  /\ qpc[c] = "deq_cs"
  /\ ~(count = 0 /\ ~shutdown) /\ ~Drained
  /\ slot' = [slot EXCEPT ![c] = items[head]]
  /\ head' = Advance(head)
  /\ count' = count - 1
  /\ Leave(c, "OK", {})
  /\ UNCHANGED <<items, tail, shutdown>>

ShutdownQueue(c) ==
  /\ qpc[c] = "shut_cs"
  /\ shutdown' = TRUE
  /\ \E woken \in Broadcast : Leave(c, "OK", woken)
  /\ UNCHANGED <<items, head, tail, count, slot>>

\* pthread_cond_wait may return without a signal.
SpuriousWakeup(c) ==
  /\ qpc[c] = "waiting"
  /\ qpc' = [qpc EXCEPT ![c] = "deq_lock"]
  /\ UNCHANGED <<items, head, tail, count, shutdown, mutex, slot, ret>>
-----------------------------------------------------------------------------
Work(c) ==
  \/ EnqueueRefused(c) \/ EnqueueStored(c)
  \/ DequeueWait(c) \/ DequeueClosed(c) \/ DequeueTaken(c)
  \/ ShutdownQueue(c)

\* Any caller may make any call, at any time it is not inside another one.
QNext == \E c \in Callers :
  \/ \E f \in Fd : CallEnqueue(c, f)
  \/ CallDequeue(c)
  \/ CallShutdown(c)
  \/ Lock(c)
  \/ Work(c)
  \/ SpuriousWakeup(c)

QSpec == QInit /\ [][QNext]_qvars

\* A caller that has the mutex runs on, and one that wants it is not passed
\* over for ever.  Nothing obliges a caller to make a call, or a sleeper to
\* wake up by itself.
QFairness == \A c \in Callers : WF_qvars(Work(c)) /\ SF_qvars(Lock(c))

FairQSpec == QSpec /\ QFairness
-----------------------------------------------------------------------------
(* Correctness                                                             *)

\* Every field of the queue and every caller's state has its type; no more
\* than Capacity sockets are queued and both indices stay inside items.
QTypeOK ==
  /\ items \in [Slots -> Fd \cup {NoFd}]
  /\ head \in Slots /\ tail \in Slots
  /\ count \in 0 .. Capacity
  /\ shutdown \in BOOLEAN
  /\ mutex \in Callers \cup {NoCaller}
  /\ qpc \in [Callers -> Points]
  /\ slot \in [Callers -> Fd \cup {NoFd}]
  /\ ret \in [Callers -> Results]

\* The slots between head and tail are exactly the count queued sockets, and
\* each of them was really written: dequeue never hands out a stale or an
\* uninitialised slot (thread_pool.c lines 106-108 and 140-142).
RingInv ==
  /\ tail = (head + count) % Capacity
  /\ \A i \in 0 .. count - 1 : items[(head + i) % Capacity] \in Fd

\* The mutex has an owner exactly while that caller is in a critical section:
\* no two callers are ever between lock and unlock.
MutexInv ==
  \A c \in Callers : (qpc[c] \in {"enq_cs", "deq_cs", "shut_cs"}) <=> (mutex = c)

\* No wakeup is lost: while somebody sleeps on not_empty the queue is open,
\* and for every queued socket there is a caller awake inside dequeue that
\* will take one.  enqueue signals once per socket, shutdown broadcasts, and
\* dequeue tests its condition again after every wakeup.
NoLostWakeup ==
  Waiters # {} => ~shutdown /\ Cardinality(Takers) >= count

\* The queued sockets, oldest first.
Contents == [i \in 1 .. count |-> items[(head + i - 1) % Capacity]]

PendingOp(point) ==
  CASE point = "idle" -> "none"
    [] point \in {"enq_lock", "enq_cs"} -> "put"
    [] point \in {"deq_lock", "deq_cs", "waiting"} -> "take"
    [] point \in {"shut_lock", "shut_cs"} -> "close"

Fifo == INSTANCE BoundedFifo WITH
          fifo <- Contents,
          closed <- shutdown,
          op <- [c \in Callers |-> PendingOp(qpc[c])]

\* The ring buffer with its mutex and condition variable is linearizable: it
\* implements the atomic bounded FIFO, each call taking effect in its
\* critical section.
ImplementsFifo == Fifo!Spec

\* Once the queue is shut down every dequeue returns: the broadcast reaches
\* all sleepers and none goes back to sleep (what
\* tests/unit_thread_pool.c, test_shutdown_wakes_consumer, tries once).
ShutdownReleases ==
  \A c \in Callers :
    (shutdown /\ qpc[c] \in {"deq_lock", "deq_cs", "waiting"}) ~> (qpc[c] = "idle")
=============================================================================
