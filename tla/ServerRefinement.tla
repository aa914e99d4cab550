-------------------------- MODULE ServerRefinement --------------------------
(***************************************************************************)
(* The server implements ConnectionLife: accept loop, queue, workers and   *)
(* shutdown together give every connection the life promised there, for    *)
(* any number of workers, signals and sockets and any capacity.            *)
(***************************************************************************)
EXTENDS ServerInvariants

\* The life of each socket, from who holds it.
LifeInv ==
  /\ \A f \in Fd : conn[f] # "open" =>
       LifeOf[f] = IF conn[f] = "backlog" THEN "waiting" ELSE conn[f]
  /\ \A i \in 1 .. count : LifeOf[Contents[i]] = "queued"
  /\ \A w \in Holding : LifeOf[slot[w]] = "served"
  /\ MainHolds => LifeOf[slot[Main]] = MainLife

LEMMA LifeIs == TypeOK /\ RingIInv /\ OwnInv => LifeInv
<1> SUFFICES ASSUME TypeOK, RingIInv, OwnInv PROVE LifeInv
  OBVIOUS
<1> DEFINE queued(f) == \E i \in 0 .. count - 1 : items[(head + i) % Capacity] = f
           served(f) == \E w \in Workers : WorkerHolds(w) /\ slot[w] = f
<1>1. count \in Nat /\ head \in Nat
  BY QueueAssumption DEF TypeOK, QTypeOK, Slots
<1>2. ASSUME NEW f \in Fd PROVE queued(f) <=> \E i \in 1 .. count : Contents[i] = f
  <2>1. ASSUME NEW i \in 0 .. count - 1
        PROVE  i + 1 \in 1 .. count /\ items[(head + i) % Capacity] = Contents[i + 1]
    <3>1. i + 1 \in 1 .. count /\ head + (i + 1) - 1 = head + i
      BY <1>1
    <3> QED
      BY <3>1, ContentsSeq DEF ContentsOK
  <2>2. ASSUME NEW i \in 1 .. count PROVE i - 1 \in 0 .. count - 1 /\ (i - 1) + 1 = i
    BY <1>1
  <2> QED
    BY <2>1, <2>2
<1>3. ASSUME NEW f \in Fd PROVE served(f) <=> \E w \in Holding : slot[w] = f
  BY DEF Holding
<1>4. ASSUME NEW f \in Fd
      PROVE  LifeOf[f] = IF conn[f] = "open"
                         THEN IF queued(f) THEN "queued" ELSE IF served(f) THEN "served" ELSE MainLife
                         ELSE IF conn[f] = "backlog" THEN "waiting" ELSE conn[f]
  <2>1. LifeOf[f] = Life(f)
    BY DEF LifeOf
  <2>2. CASE conn[f] = "open" /\ queued(f) /\ served(f)
    BY <1>2, <1>3, <2>2 DEF OwnInv, HeldOnce
  <2>3. CASE conn[f] = "open" /\ queued(f) /\ ~served(f)
    BY <2>1, <2>3 DEF Life
  <2>4. CASE conn[f] = "open" /\ ~queued(f) /\ served(f)
    BY <2>1, <2>4 DEF Life
  <2>5. CASE conn[f] = "open" /\ ~queued(f) /\ ~served(f)
    BY <2>1, <2>5 DEF Life, MainLife
  <2>6. CASE conn[f] # "open"
    BY <2>1, <2>6 DEF Life
  <2> QED
    BY <2>2, <2>3, <2>4, <2>5, <2>6
<1> HIDE DEF queued, served
<1> QED
  BY <1>2, <1>3, <1>4 DEF LifeInv, OwnInv, HeldIsOpen, HeldOnce

LEMMA LifeIsPrime == TypeOK' /\ RingIInv' /\ OwnInv' => LifeInv'
  BY LifeIs, PTL

\* A step that changes the life of one socket only.
LEMMA LifeExcept ==
  ASSUME NEW f \in Fd, NEW v, LifeOf'[f] = v,
         \A g \in Fd : g # f => LifeOf'[g] = LifeOf[g]
  PROVE  LifeOf' = [LifeOf EXCEPT ![f] = v]
<1>1. DOMAIN LifeOf = Fd /\ DOMAIN LifeOf' = Fd
      /\ LifeOf = [g \in Fd |-> LifeOf[g]] /\ LifeOf' = [g \in Fd |-> LifeOf'[g]]
  BY DEF LifeOf
<1> QED
  BY <1>1

\* A step that moves no socket changes no life.
LEMMA LifeStays ==
  ASSUME LifeInv, LifeInv', OwnInv, MainStays, WorkersStay, QueueStays, UNCHANGED conn,
         MainHolds => MainLife' = MainLife
  PROVE  LifeOf' = LifeOf
<1>1. ASSUME NEW f \in Fd PROVE LifeOf'[f] = LifeOf[f]
  BY DEF LifeInv, OwnInv, OpenIsHeld, MainStays, WorkersStay, QueueStays
<1>2. LifeOf = [g \in Fd |-> LifeOf[g]] /\ LifeOf' = [g \in Fd |-> LifeOf'[g]]
  BY DEF LifeOf
<1> QED
  BY <1>1, <1>2

\* When a worker that holds no socket is left, fewer are served than there are
\* workers.
LEMMA ServedFewer ==
  ASSUME TypeOK, LifeInv, OwnInv, NEW w \in Workers, w \notin Holding
  PROVE  Cardinality({g \in Fd : LifeOf[g] = "served"}) < Cardinality(Workers)
<1> DEFINE served == {g \in Fd : LifeOf[g] = "served"}
<1>1. IsFiniteSet(Workers)
  BY QueueAssumption, CallersDiffer, FS_Subset
<1>2. Holding \subseteq Workers \ {w}
  BY DEF Holding
<1>3. IsFiniteSet(Workers \ {w}) /\ Cardinality(Workers \ {w}) = Cardinality(Workers) - 1
  BY <1>1, FS_RemoveElement
<1>4. IsFiniteSet(Holding) /\ Cardinality(Holding) <= Cardinality(Workers) - 1
  BY <1>2, <1>3, FS_Subset
<1>5. ASSUME NEW g \in served PROVE \E v \in Holding : slot[v] = g
  <2>1. conn[g] = "open"
    BY DEF LifeInv, TypeOK
  <2>2. ~(\E i \in 1 .. count : Contents[i] = g)
    BY DEF LifeInv
  <2>3. ~(MainHolds /\ slot[Main] = g)
    BY DEF LifeInv, MainLife
  <2> QED
    BY <2>1, <2>2, <2>3 DEF OwnInv, OpenIsHeld
<1> DEFINE image == {slot[v] : v \in Holding}
<1>6. served \subseteq image
  BY <1>5
<1>7. IsFiniteSet(image) /\ Cardinality(image) <= Cardinality(Holding)
  <2> DEFINE holds == [v \in Holding |-> slot[v]]
  <2>1. holds \in Surjection(Holding, image)
    BY DEF Surjection
  <2> QED
    BY <1>4, <2>1, FS_Surjection
<1>8. Cardinality(served) <= Cardinality(image) /\ IsFiniteSet(served)
  BY <1>6, <1>7, FS_Subset
<1>9. /\ Cardinality(served) \in Nat /\ Cardinality(image) \in Nat
      /\ Cardinality(Holding) \in Nat /\ Cardinality(Workers) \in Nat
  BY <1>1, <1>4, <1>7, <1>8, FS_CardinalityType
<1> QED
  BY <1>4, <1>7, <1>8, <1>9

LEMMA LifeStep ==
  TypeOK /\ PhaseInv /\ RingIInv /\ OwnInv /\ TypeOK' /\ RingIInv' /\ OwnInv' /\ [Next]_vars
    => [Lives!LifeNext]_(Lives!lifevars)
<1> SUFFICES ASSUME TypeOK, PhaseInv, RingIInv, OwnInv, TypeOK', RingIInv', OwnInv', [Next]_vars
             PROVE  [Lives!LifeNext]_(Lives!lifevars)
  OBVIOUS
<1>l. LifeInv /\ LifeInv'
  BY LifeIs, LifeIsPrime
<1>t. /\ count \in Nat /\ conn \in [Fd -> {"absent", "backlog", "open", "closed"}]
      /\ shutdown \in BOOLEAN
  BY QueueAssumption DEF TypeOK, QTypeOK
<1>c. Contents \in Seq(Fd) /\ Len(Contents) = count
  BY ContentsSeq DEF ContentsOK
<1>h. MainHolds => slot[Main] \in Fd
  BY DEF OwnInv, HeldIsOpen
<1>1. CASE NoMove
  <2>1. LifeOf' = LifeOf
    BY <1>1, <1>l, LifeStays DEF NoMove
  <2> QED
    BY <1>1, <2>1 DEF NoMove, QueueStays, Lives!lifevars
<1>2. CASE MoveStop
  <2>1. LifeOf' = LifeOf
    BY <1>2, <1>l, LifeStays DEF MoveStop
  <2>2. Lives!Stop
    BY <1>2, <2>1 DEF MoveStop, QueueStays, Lives!Stop
  <2> QED
    BY <2>2 DEF Lives!LifeNext
<1>3. ASSUME NEW f \in Fd, MoveArrive(f) PROVE Lives!Arrive(f)
  <2>1. LifeOf[f] = "absent" /\ LifeOf'[f] = "waiting"
    BY <1>3, <1>l, <1>t DEF MoveArrive, LifeInv
  <2>2. \A g \in Fd : g # f => LifeOf'[g] = LifeOf[g]
    BY <1>3, <1>l, <1>t
    DEF MoveArrive, LifeInv, OwnInv, OpenIsHeld, MainStays, WorkersStay, QueueStays
  <2>3. LifeOf' = [LifeOf EXCEPT ![f] = "waiting"]
    BY <2>1, <2>2, LifeExcept
  <2> QED
    BY <1>3, <2>1, <2>3 DEF MoveArrive, QueueStays, Lives!Arrive, Lives!Goes
<1>4. ASSUME NEW f \in Fd, MoveAccept(f) PROVE Lives!Accept(f)
  <2>1. LifeOf[f] = "waiting" /\ LifeOf'[f] = "accepted"
    BY <1>4, <1>l, <1>t DEF MoveAccept, LifeInv
  <2>2. \A g \in Fd : g # f => LifeOf'[g] = LifeOf[g]
    BY <1>4, <1>l, <1>t DEF MoveAccept, LifeInv, OwnInv, OpenIsHeld, WorkersStay, QueueStays
  <2>3. LifeOf' = [LifeOf EXCEPT ![f] = "accepted"]
    BY <2>1, <2>2, LifeExcept
  <2>4. \A g \in Fd : LifeOf[g] \notin {"accepted", "refused", "dropped"}
    BY <1>4, <1>l, <1>t DEF MoveAccept, LifeInv, OwnInv, OpenIsHeld
  <2> QED
    BY <1>4, <2>1, <2>3, <2>4 DEF MoveAccept, QueueStays, Lives!Accept, Lives!Goes
<1>5. CASE MoveRefuse
  <2> DEFINE f == slot[Main]
  <2>0. MainHolds' /\ slot'[Main] = f /\ f \in Fd
    BY <1>5, <1>h DEF MoveRefuse, MainStays
  <2>1. LifeOf[f] = "accepted" /\ LifeOf'[f] = MainLife'
    BY <1>5, <1>l, <2>0 DEF MoveRefuse, LifeInv
  <2>2. \A g \in Fd : g # f => LifeOf'[g] = LifeOf[g]
    BY <1>5, <1>l DEF MoveRefuse, LifeInv, OwnInv, OpenIsHeld, WorkersStay, QueueStays
  <2>3. LifeOf' = [LifeOf EXCEPT ![f] = MainLife']
    BY <2>0, <2>1, <2>2, LifeExcept
  <2>4. Contents' = Contents /\ shutdown' = shutdown
    BY <1>5 DEF MoveRefuse, QueueStays
  <2>5. Lives!Drop(f) \/ Lives!Refuse(f)
    BY <1>5, <1>c, <2>1, <2>3, <2>4 DEF MoveRefuse, Lives!Drop, Lives!Refuse, Lives!Goes
  <2> QED
    BY <2>0, <2>5 DEF Lives!LifeNext
<1>6. CASE MoveMainCloses
  <2> DEFINE f == slot[Main]
  <2>0. f \in Fd /\ LifeOf[f] \in {"refused", "dropped"}
    BY <1>6, <1>h, <1>l DEF MoveMainCloses, LifeInv, MainLife
  <2>1. LifeOf'[f] = "closed"
    BY <1>6, <1>l, <1>t, <2>0 DEF MoveMainCloses, LifeInv, Close
  <2>2. \A g \in Fd : g # f => LifeOf'[g] = LifeOf[g]
    BY <1>6, <1>l, <1>t
    DEF MoveMainCloses, LifeInv, OwnInv, OpenIsHeld, WorkersStay, QueueStays, Close
  <2>3. LifeOf' = [LifeOf EXCEPT ![f] = "closed"]
    BY <2>0, <2>1, <2>2, LifeExcept
  <2>4. Lives!Close(f)
    BY <1>6, <2>0, <2>3 DEF MoveMainCloses, QueueStays, Lives!Close, Lives!Goes
  <2> QED
    BY <2>0, <2>4 DEF Lives!LifeNext
<1>7. ASSUME NEW w \in Workers, MoveWorkerCloses(w)
      PROVE  slot[w] \in Fd /\ Lives!Close(slot[w])
  <2> DEFINE f == slot[w]
  <2>0. f \in Fd /\ LifeOf[f] = "served"
    BY <1>7, <1>l DEF MoveWorkerCloses, LifeInv, OwnInv, HeldIsOpen
  <2>1. LifeOf'[f] = "closed"
    BY <1>7, <1>l, <1>t, <2>0 DEF MoveWorkerCloses, LifeInv, Close
  <2>2. \A g \in Fd : g # f => LifeOf'[g] = LifeOf[g]
    BY <1>7, <1>l, <1>t
    DEF MoveWorkerCloses, LifeInv, OwnInv, OpenIsHeld, MainStays, QueueStays, Close
  <2>3. LifeOf' = [LifeOf EXCEPT ![f] = "closed"]
    BY <2>0, <2>1, <2>2, LifeExcept
  <2> QED
    BY <1>7, <2>0, <2>3 DEF MoveWorkerCloses, QueueStays, Lives!Close, Lives!Goes
<1>8. CASE MoveQueue
  <2> DEFINE f == slot[Main]
  <2>0. f \in Fd /\ LifeOf[f] = "accepted"
    BY <1>8, <1>h, <1>l DEF MoveQueue, LifeInv
  <2>q. WorkersStay /\ MainHolds /\ ~MainHolds' /\ conn' = conn
    BY <1>8 DEF MoveQueue
  <2>m. /\ count + 1 \in 1 .. count' /\ Contents'[count + 1] = f
        /\ \A i \in 1 .. count : i \in 1 .. count' /\ Contents'[i] = Contents[i]
    BY <1>8, <1>t, <1>c DEF MoveQueue
  <2>1. LifeOf'[f] = "queued"
    BY <1>l, <2>m DEF LifeInv
  <2>2. \A g \in Fd : g # f => LifeOf'[g] = LifeOf[g]
    BY <1>l, <2>q, <2>m DEF LifeInv, OwnInv, OpenIsHeld, WorkersStay
  <2>3. LifeOf' = [LifeOf EXCEPT ![f] = "queued"]
    BY <2>0, <2>1, <2>2, LifeExcept
  <2>4. Lives!Queue(f)
    BY <1>8, <1>c, <2>0, <2>3 DEF MoveQueue, Lives!Queue, Lives!Goes
  <2> QED
    BY <2>0, <2>4 DEF Lives!LifeNext
<1>9. ASSUME NEW w \in Workers, MoveTake(w) PROVE \E f \in Fd : Lives!Serve(f)
  <2> DEFINE f == Head(Contents)
  <2>q. /\ MainStays /\ conn' = conn /\ (MainHolds => MainLife' = MainLife)
        /\ w \notin Holding /\ Holding' = Holding \cup {w} /\ \A v \in Holding : slot'[v] = slot[v]
    BY <1>9 DEF MoveTake
  <2>m. /\ 1 \in 1 .. count /\ f = Contents[1] /\ slot'[w] = f /\ Contents # <<>>
        /\ \A i \in 1 .. count : i = 1 \/ (i - 1 \in 1 .. count' /\ Contents'[i - 1] = Contents[i])
    BY <1>9, <1>t, <1>c DEF MoveTake
  <2>s. Contents' = Tail(Contents) /\ shutdown' = shutdown
    BY <1>9 DEF MoveTake
  <2>f. f = Head(Contents)
    OBVIOUS
  <2> HIDE DEF f
  <2>0. f \in Fd /\ LifeOf[f] = "queued"
    BY <1>l, <2>m DEF LifeInv, OwnInv, HeldIsOpen
  <2>1. LifeOf'[f] = "served"
    BY <1>l, <2>m, <2>q DEF LifeInv
  <2>2. \A g \in Fd : g # f => LifeOf'[g] = LifeOf[g]
    BY <1>l, <2>q, <2>m DEF LifeInv, OwnInv, OpenIsHeld, MainStays
  <2>3. LifeOf' = [LifeOf EXCEPT ![f] = "served"]
    BY <2>0, <2>1, <2>2, LifeExcept
  <2>4. Cardinality({g \in Fd : LifeOf[g] = "served"}) < Cardinality(Workers)
    BY <1>l, <2>q, ServedFewer
  <2>c. \A S : Lives!Cardinality(S) = Cardinality(S)
    BY DEF Lives!Cardinality, Cardinality
  <2>5. Lives!Serve(f)
    BY <2>c, <2>0, <2>m, <2>s, <2>f, <2>3, <2>4 DEF Lives!Serve, Lives!Goes
  <2> QED
    BY <2>0, <2>5
<1> QED
  BY <1>1, <1>2, <1>3, <1>4, <1>5, <1>6, <1>7, <1>8, <1>9, EveryStepMoves
  DEF Move, Lives!LifeNext

LEMMA LifeStart == Init => Lives!LifeInit
<1> SUFFICES ASSUME Init PROVE Lives!LifeInit
  OBVIOUS
<1>1. Contents = <<>>
  BY RingInit, ContentsSeq DEF Init, QInit, ContentsOK
<1>2. ASSUME NEW f \in Fd PROVE Life(f) = "absent"
  BY DEF Init, Life
<1>3. LifeOf = [f \in Fd |-> "absent"]
  BY <1>2 DEF LifeOf
<1> QED
  BY <1>1, <1>3 DEF Init, QInit, Lives!LifeInit

\* The server gives every connection the life of ConnectionLife: a 503 only
\* when the queue is full, a close without an answer only while stopping,
\* everything queued served once, in order and by one worker.
THEOREM ServerImplementsLife == Spec => ImplementsLife
  BY TypeCorrect, PhaseCorrect, ServerRing, OwnCorrect, LifeStart, LifeStep, PTL
  DEF Spec, ImplementsLife, Lives!LifeSpec
=============================================================================
