------------------------- MODULE SocketQueueProofs -------------------------
(***************************************************************************)
(* Proofs about the socket queue, for every capacity, every finite set of  *)
(* callers and every set of sockets.                                       *)
(***************************************************************************)
EXTENDS SocketQueue, Sequences, FiniteSetTheorems, TLAPS

-----------------------------------------------------------------------------
(* Arithmetic of the ring                                                  *)

\* An index reduced modulo the capacity is a slot of items.
LEMMA ModInSlots ==
  ASSUME NEW i \in Nat
  PROVE  i % Capacity \in Slots
  BY QueueAssumption DEF Slots

\* A sum below twice the capacity is reduced by one subtraction at most.
LEMMA ModSmall ==
  ASSUME NEW i \in Nat, i < 2 * Capacity
  PROVE  i % Capacity = IF i < Capacity THEN i ELSE i - Capacity
<1>1. Capacity \in Nat /\ Capacity > 0
  BY QueueAssumption
<1>2. CASE i < Capacity
  BY <1>1, <1>2
<1>3. CASE i >= Capacity
  <2> DEFINE j == i - Capacity
  <2>1. j \in Nat /\ j < Capacity /\ i = j + Capacity
    BY <1>1, <1>3
  <2>2. (j + Capacity) % Capacity = j
    BY <1>1, <2>1
  <2> QED
    BY <1>1, <1>3, <2>1, <2>2
<1> QED
  BY <1>1, <1>2, <1>3
-----------------------------------------------------------------------------
(* Types: inductive by itself                                              *)

\* The initial state is well typed.
LEMMA QInitTypeOK == QInit => QTypeOK
<1> SUFFICES ASSUME QInit
             PROVE  QTypeOK
  OBVIOUS
<1>1. head \in Slots /\ tail \in Slots /\ count \in 0 .. Capacity
  BY QueueAssumption DEF QInit, Slots
<1>2. shutdown \in BOOLEAN /\ mutex \in Callers \cup {NoCaller}
  BY DEF QInit
<1>3. /\ items \in [Slots -> Fd \cup {NoFd}]
      /\ qpc \in [Callers -> Points]
      /\ slot \in [Callers -> Fd \cup {NoFd}]
      /\ ret \in [Callers -> Results]
  BY DEF QInit, Points, Results
<1> QED
  BY <1>1, <1>2, <1>3 DEF QTypeOK

\* Advance stays inside items.
LEMMA AdvanceInSlots ==
  ASSUME NEW i \in Slots
  PROVE  Advance(i) \in Slots
  BY QueueAssumption, ModInSlots DEF Advance, Slots

\* Every step of the queue keeps every field inside its type.
LEMMA QTypeOKStep == QTypeOK /\ [QNext]_qvars => QTypeOK'
<1> SUFFICES ASSUME QTypeOK, [QNext]_qvars
             PROVE  QTypeOK'
  OBVIOUS
<1> USE QueueAssumption
<1>1. ASSUME NEW c \in Callers, NEW f \in Fd, CallEnqueue(c, f)
      PROVE  QTypeOK'
  BY <1>1 DEF CallEnqueue, Enter, QTypeOK, Points, Results
<1>2. ASSUME NEW c \in Callers, CallDequeue(c)
      PROVE  QTypeOK'
  BY <1>2 DEF CallDequeue, Enter, QTypeOK, Points, Results
<1>3. ASSUME NEW c \in Callers, CallShutdown(c)
      PROVE  QTypeOK'
  BY <1>3 DEF CallShutdown, Enter, QTypeOK, Points, Results
<1>4. ASSUME NEW c \in Callers, Lock(c)
      PROVE  QTypeOK'
  BY <1>4 DEF Lock, CriticalSection, QTypeOK, Points
<1>5. ASSUME NEW c \in Callers, EnqueueRefused(c)
      PROVE  QTypeOK'
  BY <1>5 DEF EnqueueRefused, Leave, QTypeOK, Points, Results
<1>6. ASSUME NEW c \in Callers, EnqueueStored(c)
      PROVE  QTypeOK'
  <2>1. tail' \in Slots /\ head' \in Slots
    BY <1>6, AdvanceInSlots DEF EnqueueStored, QTypeOK
  <2>2. count' \in 0 .. Capacity
    BY <1>6 DEF EnqueueStored, IsFull, QTypeOK
  <2>3. items' \in [Slots -> Fd \cup {NoFd}]
    BY <1>6 DEF EnqueueStored, QTypeOK
  <2>4. qpc' \in [Callers -> Points] /\ ret' \in [Callers -> Results]
        /\ mutex' \in Callers \cup {NoCaller}
    BY <1>6 DEF EnqueueStored, Leave, QTypeOK, Points, Results
  <2> QED
    BY <1>6, <2>1, <2>2, <2>3, <2>4 DEF EnqueueStored, QTypeOK
<1>7. ASSUME NEW c \in Callers, DequeueWait(c)
      PROVE  QTypeOK'
  BY <1>7 DEF DequeueWait, QTypeOK, Points
<1>8. ASSUME NEW c \in Callers, DequeueClosed(c)
      PROVE  QTypeOK'
  BY <1>8 DEF DequeueClosed, Leave, QTypeOK, Points, Results
<1>9. ASSUME NEW c \in Callers, DequeueTaken(c)
      PROVE  QTypeOK'
  <2>1. tail' \in Slots /\ head' \in Slots
    BY <1>9, AdvanceInSlots DEF DequeueTaken, QTypeOK
  <2>2. count' \in 0 .. Capacity
    BY <1>9 DEF DequeueTaken, Drained, QTypeOK
  <2>3. slot' \in [Callers -> Fd \cup {NoFd}]
    BY <1>9 DEF DequeueTaken, QTypeOK
  <2>4. qpc' \in [Callers -> Points] /\ ret' \in [Callers -> Results]
        /\ mutex' \in Callers \cup {NoCaller}
    BY <1>9 DEF DequeueTaken, Leave, QTypeOK, Points, Results
  <2> QED
    BY <1>9, <2>1, <2>2, <2>3, <2>4 DEF DequeueTaken, QTypeOK
<1>10. ASSUME NEW c \in Callers, ShutdownQueue(c)
       PROVE  QTypeOK'
  BY <1>10 DEF ShutdownQueue, Leave, QTypeOK, Points, Results
<1>11. ASSUME NEW c \in Callers, SpuriousWakeup(c)
       PROVE  QTypeOK'
  BY <1>11 DEF SpuriousWakeup, QTypeOK, Points
<1>12. CASE UNCHANGED qvars
  BY <1>12 DEF QTypeOK, qvars
<1> QED
  BY <1>1, <1>2, <1>3, <1>4, <1>5, <1>6, <1>7, <1>8, <1>9, <1>10, <1>11,
     <1>12 DEF QNext, Work

\* Every field of the queue always has its type: the indices never leave
\* items and count never passes the capacity, for any number of callers.
THEOREM QTypeCorrect == QSpec => []QTypeOK
  BY QInitTypeOK, QTypeOKStep, PTL DEF QSpec
-----------------------------------------------------------------------------
(* Mutual exclusion: inductive by itself once the types are known          *)

\* No caller owns the mutex when no caller is inside.
LEMMA MutexInit == QInit => MutexInv
  BY QueueAssumption DEF QInit, MutexInv

\* Lock needs a free mutex, and every critical section ends by freeing it
\* and leaving every other caller where it was or asking for the mutex.
LEMMA MutexStep == QTypeOK /\ MutexInv /\ [QNext]_qvars => MutexInv'
<1> SUFFICES ASSUME QTypeOK, MutexInv, [QNext]_qvars
             PROVE  MutexInv'
  OBVIOUS
<1> USE QueueAssumption DEF MutexInv, QTypeOK
<1>1. ASSUME NEW c \in Callers, NEW p \in {"enq_lock", "deq_lock", "shut_lock"},
             Enter(c, p)
      PROVE  MutexInv'
  BY <1>1 DEF Enter
<1>2. ASSUME NEW c \in Callers, Lock(c)
      PROVE  MutexInv'
  BY <1>2 DEF Lock, CriticalSection
<1>3. ASSUME NEW c \in Callers, NEW r, NEW woken \in SUBSET Waiters, mutex = c,
             Leave(c, r, woken)
      PROVE  MutexInv'
  BY <1>3 DEF Leave, Waiters
<1>4. ASSUME NEW c \in Callers, DequeueWait(c)
      PROVE  MutexInv'
  BY <1>4 DEF DequeueWait
<1>5. ASSUME NEW c \in Callers, SpuriousWakeup(c)
      PROVE  MutexInv'
  BY <1>5 DEF SpuriousWakeup
<1>6. CASE UNCHANGED qvars
  BY <1>6 DEF qvars
<1>7. ASSUME NEW c \in Callers, Work(c)
      PROVE  MutexInv'
  <2>1. CASE EnqueueRefused(c)
    BY <1>3, <2>1 DEF EnqueueRefused
  <2>2. CASE EnqueueStored(c)
    BY <1>3, <2>2 DEF EnqueueStored, CondSignal
  <2>3. CASE DequeueClosed(c)
    BY <1>3, <2>3 DEF DequeueClosed
  <2>4. CASE DequeueTaken(c)
    BY <1>3, <2>4 DEF DequeueTaken
  <2>5. CASE ShutdownQueue(c)
    BY <1>3, <2>5 DEF ShutdownQueue, Broadcast
  <2> QED
    BY <1>4, <1>7, <2>1, <2>2, <2>3, <2>4, <2>5 DEF Work
<1> QED
  BY <1>1, <1>2, <1>5, <1>6, <1>7 DEF QNext, CallEnqueue, CallDequeue, CallShutdown

\* No two callers are ever inside the queue's critical sections together.
THEOREM MutualExclusion == QSpec => []MutexInv
<1>1. QInit => QTypeOK /\ MutexInv
  BY QInitTypeOK, MutexInit
<1>2. QTypeOK /\ MutexInv /\ [QNext]_qvars => QTypeOK' /\ MutexInv'
  BY QTypeOKStep, MutexStep
<1> QED
  BY <1>1, <1>2, PTL DEF QSpec
-----------------------------------------------------------------------------
(* The ring                                                                *)

\* Advancing head and dropping one socket names the same slot.
LEMMA AdvanceSum ==
  ASSUME NEW h \in Slots, NEW n \in 0 .. Capacity - 1
  PROVE  (Advance(h) + n) % Capacity = (h + n + 1) % Capacity
<1>1. Capacity \in Nat /\ Capacity > 0 /\ h \in Nat /\ h < Capacity
      /\ n \in Nat /\ n < Capacity
  BY QueueAssumption DEF Slots
<1>2. Advance(h) = IF h + 1 < Capacity THEN h + 1 ELSE 0
  BY <1>1, ModSmall DEF Advance
<1>3. (h + n + 1) % Capacity = IF h + n + 1 < Capacity THEN h + n + 1
                               ELSE h + n + 1 - Capacity
  BY <1>1, ModSmall
<1>4. (Advance(h) + n) % Capacity = IF Advance(h) + n < Capacity THEN Advance(h) + n
                                    ELSE Advance(h) + n - Capacity
  BY <1>1, <1>2, ModSmall
<1> QED
  BY <1>1, <1>2, <1>3, <1>4

\* Advancing the slot n after h names the slot n + 1 after h.
LEMMA AdvanceMod ==
  ASSUME NEW h \in Slots, NEW n \in 0 .. Capacity - 1
  PROVE  Advance((h + n) % Capacity) = (h + n + 1) % Capacity
<1>1. Capacity \in Nat /\ Capacity > 0 /\ h \in Nat /\ h < Capacity
      /\ n \in Nat /\ n < Capacity
  BY QueueAssumption DEF Slots
<1> DEFINE k == (h + n) % Capacity
<1>2. k = IF h + n < Capacity THEN h + n ELSE h + n - Capacity
  BY <1>1, ModSmall
<1>3. (h + n + 1) % Capacity = IF h + n + 1 < Capacity THEN h + n + 1
                               ELSE h + n + 1 - Capacity
  BY <1>1, ModSmall
<1>4. k \in Nat /\ k + 1 <= Capacity
  BY <1>1, <1>2
<1>5. (k + 1) % Capacity = IF k + 1 < Capacity THEN k + 1 ELSE k + 1 - Capacity
  BY <1>1, <1>4, ModSmall
<1> QED
  BY <1>1, <1>2, <1>3, <1>5 DEF Advance

\* Fewer than Capacity steps from h never come back to the same slot.
LEMMA RingDistinct ==
  ASSUME NEW h \in Slots, NEW i \in 0 .. Capacity - 1, NEW j \in 0 .. Capacity - 1,
         i # j
  PROVE  (h + i) % Capacity # (h + j) % Capacity
<1>1. Capacity \in Nat /\ Capacity > 0 /\ h \in Nat /\ h < Capacity
      /\ i \in Nat /\ i < Capacity /\ j \in Nat /\ j < Capacity
  BY QueueAssumption DEF Slots
<1>2. (h + i) % Capacity = IF h + i < Capacity THEN h + i ELSE h + i - Capacity
  BY <1>1, ModSmall
<1>3. (h + j) % Capacity = IF h + j < Capacity THEN h + j ELSE h + j - Capacity
  BY <1>1, ModSmall
<1> QED
  BY <1>1, <1>2, <1>3

\* What enqueue stores is a socket: its caller set client_fd on entry and
\* keeps it until the call returns.  RingInv needs this to be inductive.
EnqueueArg ==
  \A c \in Callers : qpc[c] \in {"enq_lock", "enq_cs"} => slot[c] \in Fd

RingIInv == QTypeOK /\ EnqueueArg /\ RingInv

\* The empty ring is well formed.
LEMMA RingInit == QInit => RingIInv
<1> SUFFICES ASSUME QInit
             PROVE  RingIInv
  OBVIOUS
<1>1. EnqueueArg
  BY DEF QInit, EnqueueArg
<1>2. head = 0 /\ tail = 0 /\ count = 0 /\ Capacity \in Nat \ {0}
  BY QueueAssumption DEF QInit
<1>3. tail = (head + count) % Capacity
  <2>1. 0 % Capacity = 0
    BY <1>2, ModSmall
  <2> QED
    BY <1>2, <2>1
<1>4. \A i \in 0 .. count - 1 : items[(head + i) % Capacity] \in Fd
  BY <1>2
<1> QED
  BY <1>1, <1>3, <1>4, QInitTypeOK DEF RingIInv, RingInv

\* The argument of a pending enqueue stays a socket.
LEMMA EnqueueArgStep == QTypeOK /\ EnqueueArg /\ [QNext]_qvars => EnqueueArg'
<1> SUFFICES ASSUME QTypeOK, EnqueueArg, [QNext]_qvars
             PROVE  EnqueueArg'
  OBVIOUS
<1> USE DEF QTypeOK, EnqueueArg
<1>1. ASSUME NEW c \in Callers, NEW f \in Fd, CallEnqueue(c, f)
      PROVE  EnqueueArg'
  BY <1>1 DEF CallEnqueue, Enter
<1>2. ASSUME NEW c \in Callers, CallDequeue(c) \/ CallShutdown(c)
      PROVE  EnqueueArg'
  BY <1>2 DEF CallDequeue, CallShutdown, Enter
<1>3. ASSUME NEW c \in Callers, Lock(c)
      PROVE  EnqueueArg'
  BY <1>3 DEF Lock, CriticalSection
<1>4. ASSUME NEW c \in Callers, Work(c)
      PROVE  EnqueueArg'
  <2>1. CASE EnqueueRefused(c)
    BY <2>1 DEF EnqueueRefused, Leave
  <2>2. CASE EnqueueStored(c)
    BY <2>2 DEF EnqueueStored, Leave
  <2>3. CASE DequeueWait(c)
    BY <2>3 DEF DequeueWait
  <2>4. CASE DequeueClosed(c)
    BY <2>4 DEF DequeueClosed, Leave
  <2>5. CASE DequeueTaken(c)
    BY <2>5 DEF DequeueTaken, Leave
  <2>6. CASE ShutdownQueue(c)
    BY <2>6 DEF ShutdownQueue, Leave
  <2> QED
    BY <1>4, <2>1, <2>2, <2>3, <2>4, <2>5, <2>6 DEF Work
<1>5. ASSUME NEW c \in Callers, SpuriousWakeup(c)
      PROVE  EnqueueArg'
  BY <1>5 DEF SpuriousWakeup
<1>6. CASE UNCHANGED qvars
  BY <1>6 DEF qvars
<1> QED
  BY <1>1, <1>2, <1>3, <1>4, <1>5, <1>6 DEF QNext

\* Only the two successful critical sections touch the ring; the others
\* leave its four fields as they are.
LEMMA RingUntouched ==
  ASSUME [QNext]_qvars,
         \A c \in Callers : ~EnqueueStored(c) /\ ~DequeueTaken(c)
  PROVE  UNCHANGED <<items, head, tail, count>>
  BY DEF QNext, qvars, Work, CallEnqueue, CallDequeue, CallShutdown, Enter, Lock,
         EnqueueRefused, DequeueWait, DequeueClosed, ShutdownQueue, SpuriousWakeup

\* enqueue extends the ring by its argument.
LEMMA StoredRing ==
  ASSUME RingIInv, NEW c \in Callers, EnqueueStored(c)
  PROVE  /\ RingInv'
         /\ \A i \in 0 .. count - 1 :
              items'[(head' + i) % Capacity] = items[(head + i) % Capacity]
         /\ items'[(head' + count) % Capacity] = slot[c]
<1> USE DEF RingIInv, QTypeOK
<1>1. /\ Capacity \in Nat /\ Capacity > 0
      /\ head \in Slots /\ count \in 0 .. Capacity - 1 /\ head \in Nat
      /\ count' = count + 1 /\ head' = head
      /\ items' = [items EXCEPT ![tail] = slot[c]]
  BY QueueAssumption DEF EnqueueStored, IsFull, Slots
<1>2. tail = (head + count) % Capacity /\ tail \in Slots
  BY DEF RingInv
<1>3. tail' = (head' + count') % Capacity
  <2>1. tail' = (head + count + 1) % Capacity
    BY <1>1, <1>2, AdvanceMod DEF EnqueueStored
  <2> QED
    BY <1>1, <2>1
<1>4. \A i \in 0 .. count - 1 :
        items'[(head' + i) % Capacity] = items[(head + i) % Capacity]
  <2> SUFFICES ASSUME NEW i \in 0 .. count - 1
               PROVE  items'[(head + i) % Capacity] = items[(head + i) % Capacity]
    BY <1>1
  <2>1. i \in 0 .. Capacity - 1 /\ i # count /\ head + i \in Nat
    BY <1>1
  <2>2. (head + i) % Capacity # tail
    BY <1>1, <1>2, <2>1, RingDistinct
  <2>3. (head + i) % Capacity \in Slots
    BY <2>1, ModInSlots
  <2> QED
    BY <1>1, <2>2, <2>3
<1>5. items'[(head' + count) % Capacity] = slot[c]
  BY <1>1, <1>2
<1>6. slot[c] \in Fd
  BY DEF EnqueueStored, EnqueueArg
<1>7. \A i \in 0 .. count' - 1 : items'[(head' + i) % Capacity] \in Fd
  <2> SUFFICES ASSUME NEW i \in 0 .. count' - 1
               PROVE  items'[(head' + i) % Capacity] \in Fd
    OBVIOUS
  <2>1. CASE i = count
    BY <1>5, <1>6, <2>1
  <2>2. CASE i # count
    <3>1. i \in 0 .. count - 1
      BY <1>1, <2>2
    <3> QED
      BY <3>1, <1>4 DEF RingInv
  <2> QED
    BY <2>1, <2>2
<1> QED
  BY <1>3, <1>4, <1>5, <1>7 DEF RingInv

\* dequeue removes the oldest socket and shifts the others by one.
LEMMA TakenRing ==
  ASSUME RingIInv, NEW c \in Callers, DequeueTaken(c)
  PROVE  /\ RingInv'
         /\ count > 0
         /\ \A i \in 0 .. count - 2 :
              items'[(head' + i) % Capacity] = items[(head + i + 1) % Capacity]
         /\ slot'[c] = items[(head + 0) % Capacity]
<1> USE DEF RingIInv, QTypeOK
<1>1. /\ Capacity \in Nat /\ Capacity > 0
      /\ head \in Slots /\ head \in Nat /\ head < Capacity
      /\ count \in 1 .. Capacity
      /\ count' = count - 1 /\ head' = Advance(head)
      /\ items' = items /\ tail' = tail
      /\ slot'[c] = items[head]
  BY QueueAssumption DEF DequeueTaken, Drained, Slots
<1>2. tail = (head + count) % Capacity
  BY DEF RingInv
<1>3. tail' = (head' + count') % Capacity
  <2>1. count - 1 \in 0 .. Capacity - 1 /\ head + (count - 1) + 1 = head + count
    BY <1>1
  <2>2. (Advance(head) + (count - 1)) % Capacity = (head + (count - 1) + 1) % Capacity
    BY <1>1, <2>1, AdvanceSum
  <2> QED
    BY <1>1, <1>2, <2>1, <2>2
<1>4. \A i \in 0 .. count - 2 :
        items'[(head' + i) % Capacity] = items[(head + i + 1) % Capacity]
  BY <1>1, AdvanceSum
<1>5. \A i \in 0 .. count' - 1 : items'[(head' + i) % Capacity] \in Fd
  <2> SUFFICES ASSUME NEW i \in 0 .. count' - 1
               PROVE  items'[(head' + i) % Capacity] \in Fd
    OBVIOUS
  <2>1. i \in 0 .. count - 2 /\ i + 1 \in 0 .. count - 1 /\ head + (i + 1) = head + i + 1
    BY <1>1
  <2>2. items[(head + (i + 1)) % Capacity] \in Fd
    BY <2>1 DEF RingInv
  <2> QED
    BY <1>4, <2>1, <2>2
<1>6. slot'[c] = items[(head + 0) % Capacity]
  <2>1. head % Capacity = head
    BY <1>1, ModSmall
  <2> QED
    BY <1>1, <2>1
<1> QED
  BY <1>1, <1>3, <1>4, <1>5, <1>6 DEF RingInv

\* The ring stays well formed.
LEMMA RingStep == RingIInv /\ [QNext]_qvars => RingIInv'
<1> SUFFICES ASSUME RingIInv, [QNext]_qvars
             PROVE  RingIInv'
  OBVIOUS
<1>1. QTypeOK' /\ EnqueueArg'
  BY QTypeOKStep, EnqueueArgStep DEF RingIInv
<1>2. RingInv'
  <2>1. CASE \E c \in Callers : EnqueueStored(c)
    BY <2>1, StoredRing
  <2>2. CASE \E c \in Callers : DequeueTaken(c)
    BY <2>2, TakenRing
  <2>3. CASE UNCHANGED <<items, head, tail, count>>
    BY <2>3 DEF RingIInv, RingInv
  <2> QED
    BY <2>1, <2>2, <2>3, RingUntouched
<1> QED
  BY <1>1, <1>2 DEF RingIInv

\* The slots from head to tail are always exactly the queued sockets, for
\* every capacity: no slot is overwritten before it is taken, none is handed
\* out that was not written.
THEOREM RingCorrect == QSpec => []RingInv
<1>1. RingIInv => RingInv
  BY DEF RingIInv
<1> QED
  BY <1>1, RingInit, RingStep, PTL DEF QSpec
-----------------------------------------------------------------------------
(* No lost wakeup: inductive by itself once the types are known            *)

\* Nobody sleeps before the first call.
LEMMA WakeupInit == QInit => NoLostWakeup
  BY DEF QInit, NoLostWakeup, Waiters

\* The callers awake inside dequeue are finitely many.
LEMMA TakersFinite == IsFiniteSet(Takers) /\ Cardinality(Takers) \in Nat
  BY QueueAssumption, FS_Subset, FS_CardinalityType DEF Takers

\* The same in the next state.
LEMMA TakersFinitePrime == IsFiniteSet(Takers') /\ Cardinality(Takers') \in Nat
  BY QueueAssumption, FS_Subset, FS_CardinalityType DEF Takers

\* If no taker leaves and the queue does not grow, the count of takers is
\* still large enough.
LEMMA TakersGrow ==
  ASSUME QTypeOK, NoLostWakeup, Waiters # {}, Takers \subseteq Takers',
         count' = count, shutdown' = shutdown
  PROVE  NoLostWakeup'
<1>1. Cardinality(Takers) <= Cardinality(Takers')
  BY TakersFinitePrime, FS_Subset
<1>2. count \in Nat /\ ~shutdown /\ Cardinality(Takers) >= count
  BY QueueAssumption DEF QTypeOK, NoLostWakeup
<1> QED
  BY <1>1, <1>2, TakersFinite, TakersFinitePrime DEF NoLostWakeup

\* Every step keeps an awake taker for each queued socket while somebody
\* sleeps.
LEMMA WakeupStep == QTypeOK /\ NoLostWakeup /\ [QNext]_qvars => NoLostWakeup'
<1> SUFFICES ASSUME QTypeOK, NoLostWakeup, [QNext]_qvars, Waiters' # {}
             PROVE  NoLostWakeup'
  BY DEF NoLostWakeup
<1> USE DEF QTypeOK
<1>1. ASSUME NEW c \in Callers,
             NEW p \in {"enq_lock", "deq_lock", "shut_lock"}, Enter(c, p)
      PROVE  NoLostWakeup'
  <2>1. Waiters # {} /\ Takers \subseteq Takers'
    BY <1>1 DEF Enter, Waiters, Takers
  <2> QED
    BY <1>1, <2>1, TakersGrow DEF Enter
<1>2. ASSUME NEW c \in Callers, Lock(c)
      PROVE  NoLostWakeup'
  <2>1. Waiters # {} /\ Takers \subseteq Takers'
    BY <1>2 DEF Lock, CriticalSection, Waiters, Takers
  <2> QED
    BY <1>2, <2>1, TakersGrow DEF Lock
<1>3. ASSUME NEW c \in Callers, EnqueueRefused(c)
      PROVE  NoLostWakeup'
  <2>1. Waiters # {} /\ Takers \subseteq Takers'
    BY <1>3 DEF EnqueueRefused, Leave, Waiters, Takers
  <2> QED
    BY <1>3, <2>1, TakersGrow DEF EnqueueRefused
\* The signal that goes with the new socket wakes a sleeper, which becomes
\* the taker for it.
<1>4. ASSUME NEW c \in Callers, EnqueueStored(c)
      PROVE  NoLostWakeup'
  <2>1. PICK woken \in CondSignal : Leave(c, "OK", woken)
    BY <1>4 DEF EnqueueStored
  <2>2. Waiters # {}
    BY <1>4, <2>1 DEF EnqueueStored, Leave, Waiters, CondSignal
  <2>3. PICK w \in Waiters : woken = {w}
    BY <2>1, <2>2 DEF CondSignal
  <2>4. w \notin Takers /\ Takers' = Takers \cup {w}
    BY <1>4, <2>1, <2>3 DEF EnqueueStored, Leave, Waiters, Takers
  <2>5. Cardinality(Takers') = Cardinality(Takers) + 1
    BY <2>4, TakersFinite, FS_AddElement
  <2>6. count \in Nat /\ count' = count + 1 /\ ~shutdown /\ shutdown' = shutdown
        /\ Cardinality(Takers) >= count
    BY <1>4, <2>2, QueueAssumption DEF EnqueueStored, NoLostWakeup
  <2> QED
    BY <2>5, <2>6, TakersFinite DEF NoLostWakeup
\* Only an empty open queue puts a caller to sleep.
<1>5. ASSUME NEW c \in Callers, DequeueWait(c)
      PROVE  NoLostWakeup'
  BY <1>5, TakersFinitePrime DEF DequeueWait, NoLostWakeup
\* A closed queue has no sleepers, and DequeueClosed does not make one.
<1>6. ASSUME NEW c \in Callers, DequeueClosed(c)
      PROVE  NoLostWakeup'
  <2>1. Waiters = {}
    BY <1>6 DEF DequeueClosed, Drained, NoLostWakeup
  <2>2. Waiters' = {}
    BY <1>6, <2>1 DEF DequeueClosed, Leave, Waiters
  <2> QED
    BY <2>2
\* One taker leaves with one socket.
<1>7. ASSUME NEW c \in Callers, DequeueTaken(c)
      PROVE  NoLostWakeup'
  <2>1. Waiters # {}
    BY <1>7 DEF DequeueTaken, Leave, Waiters
  <2>2. c \in Takers /\ Takers' = Takers \ {c}
    BY <1>7 DEF DequeueTaken, Leave, Takers
  <2>3. Cardinality(Takers') = Cardinality(Takers) - 1
    BY <2>2, TakersFinite, FS_RemoveElement
  <2>4. count \in Nat /\ count' = count - 1 /\ ~shutdown /\ shutdown' = shutdown
        /\ Cardinality(Takers) >= count
    BY <1>7, <2>1, QueueAssumption DEF DequeueTaken, NoLostWakeup
  <2> QED
    BY <2>3, <2>4, TakersFinite DEF NoLostWakeup
\* The broadcast leaves nobody asleep.
<1>8. ASSUME NEW c \in Callers, ShutdownQueue(c)
      PROVE  NoLostWakeup'
  <2>1. Waiters' = {}
    BY <1>8 DEF ShutdownQueue, Broadcast, Leave, Waiters
  <2> QED
    BY <2>1
<1>9. ASSUME NEW c \in Callers, SpuriousWakeup(c)
      PROVE  NoLostWakeup'
  <2>1. Waiters # {} /\ Takers \subseteq Takers'
    BY <1>9 DEF SpuriousWakeup, Waiters, Takers
  <2> QED
    BY <1>9, <2>1, TakersGrow DEF SpuriousWakeup
<1>10. CASE UNCHANGED qvars
  <2>1. Waiters # {} /\ Takers \subseteq Takers'
    BY <1>10 DEF qvars, Waiters, Takers
  <2> QED
    BY <1>10, <2>1, TakersGrow DEF qvars
<1> QED
  BY <1>1, <1>2, <1>3, <1>4, <1>5, <1>6, <1>7, <1>8, <1>9, <1>10
  DEF QNext, Work, CallEnqueue, CallDequeue, CallShutdown

\* No wakeup is ever lost, however many workers sleep and however the
\* signals, the spurious wakeups and the shutdown interleave.
THEOREM WakeupCorrect == QSpec => []NoLostWakeup
<1>1. QInit => QTypeOK /\ NoLostWakeup
  BY QInitTypeOK, WakeupInit
<1>2. QTypeOK /\ NoLostWakeup /\ [QNext]_qvars => QTypeOK' /\ NoLostWakeup'
  BY QTypeOKStep, WakeupStep
<1> QED
  BY <1>1, <1>2, PTL DEF QSpec
-----------------------------------------------------------------------------
(* Refinement: the ring buffer implements the atomic bounded FIFO          *)

\* The queued sockets form a sequence of count sockets.
ContentsOK ==
  /\ Contents \in Seq(Fd)
  /\ Len(Contents) = count
  /\ \A i \in 1 .. count : Contents[i] = items[(head + i - 1) % Capacity]

\* A well-formed ring has such contents.
LEMMA ContentsSeq == RingIInv => ContentsOK
<1> SUFFICES ASSUME RingIInv
             PROVE  ContentsOK
  OBVIOUS
<1>1. count \in Nat /\ head \in Nat
  BY QueueAssumption DEF RingIInv, QTypeOK, Slots
<1>2. ASSUME NEW i \in 1 .. count
      PROVE  items[(head + i - 1) % Capacity] \in Fd
  <2>1. i - 1 \in 0 .. count - 1 /\ head + i - 1 = head + (i - 1)
    BY <1>1
  <2> QED
    BY <2>1 DEF RingIInv, RingInv
<1>3. Contents \in [1 .. count -> Fd]
  BY <1>2 DEF Contents
<1> QED
  BY <1>1, <1>3 DEF Contents, ContentsOK

\* The same in the next state.
LEMMA ContentsSeqPrime == RingIInv' => ContentsOK'
  BY ContentsSeq, PTL

\* Two sequences of the same length with the same elements are equal.
LEMMA SeqEqual ==
  ASSUME NEW S, NEW s \in Seq(S), NEW t \in Seq(S), Len(s) = Len(t),
         \A i \in 1 .. Len(s) : s[i] = t[i]
  PROVE  s = t
  OBVIOUS

\* A stored socket is appended to the contents.
LEMMA StoredContents ==
  ASSUME RingIInv, RingIInv', NEW c \in Callers, EnqueueStored(c)
  PROVE  Contents' = Append(Contents, slot[c])
<1> DEFINE t == Append(Contents, slot[c])
<1>1. /\ Contents' \in Seq(Fd) /\ Len(Contents') = count'
      /\ \A i \in 1 .. count' : Contents'[i] = items'[(head' + i - 1) % Capacity]
  BY ContentsSeqPrime DEF ContentsOK
<1>2. /\ Contents \in Seq(Fd) /\ Len(Contents) = count
      /\ \A i \in 1 .. count : Contents[i] = items[(head + i - 1) % Capacity]
  BY ContentsSeq DEF ContentsOK
<1>3. slot[c] \in Fd /\ count' = count + 1 /\ count \in Nat /\ head \in Nat /\ head' = head
  BY QueueAssumption DEF EnqueueStored, RingIInv, EnqueueArg, QTypeOK, Slots
<1>4. t \in Seq(Fd) /\ Len(t) = count + 1
  BY <1>2, <1>3
<1>5. ASSUME NEW i \in 1 .. count + 1
      PROVE  Contents'[i] = t[i]
  <2>0. Contents'[i] = items'[(head' + i - 1) % Capacity]
    BY <1>1, <1>3
  <2>1. CASE i = count + 1
    <3>1. head' + i - 1 = head' + count
      BY <1>3, <2>1
    <3>2. Contents'[i] = slot[c]
      BY <2>0, <3>1, StoredRing
    <3> QED
      BY <1>2, <1>3, <2>1, <3>2
  <2>2. CASE i # count + 1
    <3>1. i \in 1 .. count /\ i - 1 \in 0 .. count - 1
          /\ head' + i - 1 = head' + (i - 1) /\ head + i - 1 = head + (i - 1)
      BY <1>3, <2>2
    <3>2. Contents'[i] = Contents[i]
      BY <1>2, <2>0, <3>1, StoredRing
    <3> QED
      BY <1>2, <1>3, <3>1, <3>2
  <2> QED
    BY <2>1, <2>2
<1> HIDE DEF t
<1>6. Contents' = t
  BY <1>1, <1>3, <1>4, <1>5, SeqEqual
<1> QED
  BY <1>6 DEF t

\* A taken socket is the first of the contents, and the rest stays.
LEMMA TakenContents ==
  ASSUME RingIInv, RingIInv', NEW c \in Callers, DequeueTaken(c)
  PROVE  /\ Contents # <<>>
         /\ slot'[c] = Head(Contents)
         /\ Contents' = Tail(Contents)
<1> DEFINE t == Tail(Contents)
<1>1. /\ Contents' \in Seq(Fd) /\ Len(Contents') = count'
      /\ \A i \in 1 .. count' : Contents'[i] = items'[(head' + i - 1) % Capacity]
  BY ContentsSeqPrime DEF ContentsOK
<1>2. /\ Contents \in Seq(Fd) /\ Len(Contents) = count
      /\ \A i \in 1 .. count : Contents[i] = items[(head + i - 1) % Capacity]
  BY ContentsSeq DEF ContentsOK
<1>3. count' = count - 1 /\ count \in Nat /\ head \in Nat /\ head' \in Nat /\ count > 0
  BY QueueAssumption, TakenRing, ModInSlots
  DEF DequeueTaken, RingIInv, QTypeOK, Slots
<1>4. t \in Seq(Fd) /\ Len(t) = count - 1 /\ Contents # <<>>
      /\ \A i \in 1 .. count - 1 : t[i] = Contents[i + 1]
  BY <1>2, <1>3
<1>5. ASSUME NEW i \in 1 .. count - 1
      PROVE  Contents'[i] = t[i]
  <2>1. /\ i \in 1 .. count' /\ i - 1 \in 0 .. count - 2 /\ i + 1 \in 1 .. count
        /\ head' + i - 1 = head' + (i - 1)
        /\ head + (i + 1) - 1 = head + (i - 1) + 1
    BY <1>3
  <2>2. Contents'[i] = items[(head + (i - 1) + 1) % Capacity]
    BY <1>1, <2>1, TakenRing
  <2> QED
    BY <1>2, <1>4, <2>1, <2>2
<1>6. slot'[c] = Head(Contents)
  <2>1. 1 \in 1 .. count /\ head + 1 - 1 = head + 0
    BY <1>3
  <2>2. Contents[1] = items[(head + 0) % Capacity]
    BY <1>2, <2>1
  <2> QED
    BY <1>2, <1>4, <2>2, TakenRing
<1> HIDE DEF t
<1>7. Contents' = t
  BY <1>1, <1>3, <1>4, <1>5, SeqEqual
<1> QED
  BY <1>4, <1>6, <1>7 DEF t

\* What the other critical sections and the calls do to the contents.
LEMMA ContentsUnchanged ==
  ASSUME UNCHANGED <<items, head, count>>
  PROVE  Contents' = Contents
  BY DEF Contents

\* The ring starts as the empty FIFO with no call pending.
LEMMA FifoInit == QInit => Fifo!Init
<1> SUFFICES ASSUME QInit
             PROVE  Fifo!Init
  OBVIOUS
<1>1. Contents = <<>>
  BY RingInit, ContentsSeq DEF QInit, ContentsOK
<1>2. [c \in Callers |-> PendingOp(qpc[c])] = [c \in Callers |-> "none"]
  BY DEF QInit, PendingOp
<1> QED
  BY <1>1, <1>2 DEF QInit, Fifo!Init

\* Every step of the ring is a step of the FIFO or changes nothing of it.
LEMMA FifoStep ==
  RingIInv /\ RingIInv' /\ [QNext]_qvars => [Fifo!Next]_(Fifo!vars)
<1> SUFFICES ASSUME RingIInv, RingIInv', [QNext]_qvars
             PROVE  [Fifo!Next]_(Fifo!vars)
  OBVIOUS
<1> DEFINE op == [x \in Callers |-> PendingOp(qpc[x])]
<1>0. qpc \in [Callers -> Points] /\ ret \in [Callers -> Results] 
      /\ slot \in [Callers -> Fd \cup {NoFd}]
      /\ count \in 0 .. Capacity /\ shutdown \in BOOLEAN
  BY DEF RingIInv, QTypeOK
<1>1. ASSUME NEW c \in Callers, NEW f \in Fd, CallEnqueue(c, f)
      PROVE  Fifo!Invoke(c)
  <2>1. op[c] = "none" /\ op' = [op EXCEPT ![c] = "put"]
    BY <1>0, <1>1 DEF CallEnqueue, Enter, PendingOp, Points
  <2>2. Contents' = Contents
    BY <1>1, ContentsUnchanged DEF CallEnqueue, Enter
  <2> QED
    BY <1>1, <2>1, <2>2 DEF CallEnqueue, Enter, Fifo!Invoke
<1>2. ASSUME NEW c \in Callers, CallDequeue(c)
      PROVE  Fifo!Invoke(c)
  <2>1. op[c] = "none" /\ op' = [op EXCEPT ![c] = "take"]
    BY <1>0, <1>2 DEF CallDequeue, Enter, PendingOp, Points
  <2>2. Contents' = Contents
    BY <1>2, ContentsUnchanged DEF CallDequeue, Enter
  <2> QED
    BY <1>2, <2>1, <2>2 DEF CallDequeue, Enter, Fifo!Invoke
<1>3. ASSUME NEW c \in Callers, CallShutdown(c)
      PROVE  Fifo!Invoke(c)
  <2>1. op[c] = "none" /\ op' = [op EXCEPT ![c] = "close"]
    BY <1>0, <1>3 DEF CallShutdown, Enter, PendingOp, Points
  <2>2. Contents' = Contents
    BY <1>3, ContentsUnchanged DEF CallShutdown, Enter
  <2> QED
    BY <1>3, <2>1, <2>2 DEF CallShutdown, Enter, Fifo!Invoke
\* Taking the mutex, falling asleep and waking up are invisible.
<1>4. ASSUME NEW c \in Callers, Lock(c) \/ DequeueWait(c) \/ SpuriousWakeup(c)
      PROVE  UNCHANGED Fifo!vars
  <2>1. op' = op
    BY <1>0, <1>4
    DEF Lock, CriticalSection, DequeueWait, SpuriousWakeup, PendingOp, Points
  <2>2. Contents' = Contents
    BY <1>4, ContentsUnchanged DEF Lock, DequeueWait, SpuriousWakeup
  <2> QED
    BY <1>4, <2>1, <2>2 DEF Lock, DequeueWait, SpuriousWakeup, Fifo!vars
\* Leaving a critical section is the return of the FIFO's call; the callers
\* that were woken still have their take pending.
<1>5. ASSUME NEW c \in Callers, NEW r, NEW woken \in SUBSET Waiters,
             Leave(c, r, woken)
      PROVE  op' = [op EXCEPT ![c] = "none"] /\ ret' = [ret EXCEPT ![c] = r]
  BY <1>0, <1>5 DEF Leave, Waiters, PendingOp, Points
<1>6. ASSUME NEW c \in Callers, EnqueueRefused(c)
      PROVE  Fifo!Put(c)
  <2>1. op[c] = "put"
    BY <1>6 DEF EnqueueRefused, PendingOp
  <2>2. op' = [op EXCEPT ![c] = "none"]
        /\ ret' = [ret EXCEPT ![c] = IF shutdown THEN "CLOSED" ELSE "FULL"]
    BY <1>5, <1>6 DEF EnqueueRefused
  <2>3. Contents' = Contents /\ Len(Contents) = count
    BY <1>6, ContentsUnchanged, ContentsSeq DEF ContentsOK, EnqueueRefused
  <2>4. CASE shutdown
    BY <1>6, <2>1, <2>2, <2>3, <2>4 DEF EnqueueRefused, Fifo!Put, Fifo!Return
  <2>5. CASE ~shutdown
    BY <1>6, <2>1, <2>2, <2>3, <2>5 DEF EnqueueRefused, IsFull, Fifo!Put, Fifo!Return
  <2> QED
    BY <2>4, <2>5
<1>7. ASSUME NEW c \in Callers, EnqueueStored(c)
      PROVE  Fifo!Put(c)
  <2>1. op[c] = "put"
    BY <1>7 DEF EnqueueStored, PendingOp
  <2>2. op' = [op EXCEPT ![c] = "none"] /\ ret' = [ret EXCEPT ![c] = "OK"]
    BY <1>5, <1>7 DEF EnqueueStored, CondSignal
  <2>3. Contents' = Append(Contents, slot[c])
    BY <1>7, StoredContents
  <2>4. Len(Contents) < Capacity
    BY <1>0, <1>7, ContentsSeq, QueueAssumption DEF ContentsOK, EnqueueStored, IsFull
  <2> QED
    BY <1>7, <2>1, <2>2, <2>3, <2>4 DEF EnqueueStored, Fifo!Put, Fifo!Return
<1>8. ASSUME NEW c \in Callers, DequeueClosed(c)
      PROVE  Fifo!Take(c)
  <2>1. op[c] = "take"
    BY <1>8 DEF DequeueClosed, PendingOp
  <2>2. op' = [op EXCEPT ![c] = "none"] /\ ret' = [ret EXCEPT ![c] = "CLOSED"]
    BY <1>5, <1>8 DEF DequeueClosed
  <2>3. Contents' = Contents /\ Contents = <<>>
    BY <1>8, ContentsUnchanged, ContentsSeq DEF ContentsOK, DequeueClosed, Drained
  <2> QED
    BY <1>8, <2>1, <2>2, <2>3 DEF DequeueClosed, Drained, Fifo!Take, Fifo!Return
<1>9. ASSUME NEW c \in Callers, DequeueTaken(c)
      PROVE  Fifo!Take(c)
  <2>1. op[c] = "take"
    BY <1>9 DEF DequeueTaken, PendingOp
  <2>2. op' = [op EXCEPT ![c] = "none"] /\ ret' = [ret EXCEPT ![c] = "OK"]
    BY <1>5, <1>9 DEF DequeueTaken
  <2>3. slot' = [slot EXCEPT ![c] = Head(Contents)]
    BY <1>0, <1>9, TakenContents DEF DequeueTaken
  <2> QED
    BY <1>9, <2>1, <2>2, <2>3, TakenContents DEF DequeueTaken, Fifo!Take, Fifo!Return
<1>10. ASSUME NEW c \in Callers, ShutdownQueue(c)
       PROVE  Fifo!Close(c)
  <2>1. op[c] = "close"
    BY <1>10 DEF ShutdownQueue, PendingOp
  <2>2. op' = [op EXCEPT ![c] = "none"] /\ ret' = [ret EXCEPT ![c] = "OK"]
    BY <1>5, <1>10 DEF ShutdownQueue, Broadcast
  <2>3. Contents' = Contents
    BY <1>10, ContentsUnchanged DEF ShutdownQueue
  <2> QED
    BY <1>10, <2>1, <2>2, <2>3 DEF ShutdownQueue, Fifo!Close, Fifo!Return
<1>11. CASE UNCHANGED qvars
  <2>1. Contents' = Contents /\ op' = op
    BY <1>11, ContentsUnchanged DEF qvars
  <2> QED
    BY <1>11, <2>1 DEF qvars, Fifo!vars
<1> QED
  BY <1>1, <1>2, <1>3, <1>4, <1>6, <1>7, <1>8, <1>9, <1>10, <1>11
  DEF QNext, Work, Fifo!Next

\* The queue is linearizable for every capacity and every finite set of
\* callers: what its callers observe is a behaviour of the atomic FIFO.
THEOREM QueueImplementsFifo == QSpec => ImplementsFifo
<1>1. QSpec => []RingIInv
  BY RingInit, RingStep, PTL DEF QSpec
<1>2. QInit => Fifo!Init
  BY FifoInit
<1>3. RingIInv /\ RingIInv' /\ [QNext]_qvars => [Fifo!Next]_(Fifo!vars)
  BY FifoStep
<1> QED
  BY <1>1, <1>2, <1>3, PTL DEF QSpec, ImplementsFifo, Fifo!Spec
=============================================================================
