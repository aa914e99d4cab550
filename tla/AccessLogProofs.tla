-------------------------- MODULE AccessLogProofs ---------------------------
(***************************************************************************)
(* Proofs about the access log, for any set of threads and any number of   *)
(* calls, kills, restarts and refused writes.                              *)
(***************************************************************************)
EXTENDS AccessLog, FiniteSetTheorems, SequenceTheorems, TLAPS

Entries == Threads \X Nat
Parts == Entries \X {1, 2}

\* The types TypeOK leaves out, and what access_log_open has acquired at each
\* of its points.
TypeInv ==
  /\ phase \in {"none", "allocated", "opened", "ready", "failed", "closed"}
  /\ held = CASE phase = "allocated" -> {"struct"}
              [] phase = "opened" -> {"struct", "file"}
              [] phase = "ready" -> {"struct", "file", "mutex"}
              [] OTHER -> {}
  /\ mutex \in Threads \cup {NoThread}
  /\ tpc \in [Threads -> {"idle", "called", "locked", "printed", "flushed"}]
  /\ calls \in [Threads -> 0 .. MaxCalls] /\ faults \in 0 .. MaxFaults
  /\ buffer \in Seq(Parts) /\ disk \in Seq(Parts)
  /\ refused \subseteq Entries /\ returned \subseteq Entries

\* The mutex is held from the lock to the unlock.
MutexInv ==
  /\ \A t \in Threads : mutex = t <=> tpc[t] \in {"locked", "printed", "flushed"}
  /\ phase # "ready" => tpc = Idle
  /\ (\A t \in Threads : tpc[t] # "printed") => buffer = <<>>

\* The lines of which no part is in the file; the first part is, at the end of
\* the file; both are, one after the other and nowhere else.
Absent == {e \in Entries : \A j \in 1 .. Len(disk) : disk[j][1] # e}
Half ==
  {e \in Entries :
     /\ Len(disk) > 0 /\ disk[Len(disk)] = <<e, 1>>
     /\ \A j \in 1 .. Len(disk) - 1 : disk[j][1] # e}
OnDisk ==
  {e \in Entries :
     \E i \in 1 .. Len(disk) - 1 :
       /\ disk[i] = <<e, 1>> /\ disk[i + 1] = <<e, 2>>
       /\ \A j \in 1 .. Len(disk) : disk[j][1] = e => j \in {i, i + 1}}

\* What buffer and file hold of a line while it is written.
Writing(e) ==
  \/ buffer = Line(e) /\ e \in Absent
  \/ buffer = <<<<e, 2>>>> /\ e \in Half
  \/ buffer = <<>> /\ e \in OnDisk

WriteInv ==
  \A t \in Threads :
    /\ tpc[t] # "idle" => calls[t] > 0 /\ Entry(t) \notin returned
    /\ tpc[t] \in {"called", "locked"} => Entry(t) \notin refused /\ Entry(t) \in Absent
    /\ tpc[t] = "printed" => Entry(t) \notin refused /\ Writing(Entry(t))
    /\ tpc[t] = "flushed" => Entry(t) \in refused \/ Entry(t) \in OnDisk

\* Lines that are still to come have left no trace.
FreshInv ==
  \A t \in Threads : \A n \in Nat : n > calls[t] =>
    <<t, n>> \notin refused \cup returned /\ <<t, n>> \in Absent

\* What has returned and was not refused is in the file.
DiskInv == \A e \in returned \ refused : e \in OnDisk

LogInv == TypeInv /\ MutexInv /\ WriteInv /\ FreshInv /\ DiskInv
-----------------------------------------------------------------------------
LEMMA LogInit == Init => LogInv
  BY LogAssumption DEF Init, LogInv, TypeInv, MutexInv, WriteInv, FreshInv, DiskInv, Absent, Entries, Idle

\* access_log_open, its failure, access_log_close and a kill leave no thread in
\* the call and nothing in the buffer.
LEMMA OpenStep ==
  ASSUME LogInv, Allocate \/ OpenFile \/ InitMutex \/ OpenFails \/ access_log_close \/ Kill
  PROVE  LogInv'
<1> USE LogAssumption DEF LogInv, file, threads
<1>1. disk' = disk /\ calls' = calls /\ UNCHANGED <<refused, returned>>
  <2>1. CASE access_log_close
    <3>1. buffer = <<>> /\ disk \in Seq(Parts)
      BY <2>1 DEF access_log_close, MutexInv, Idle, TypeInv
    <3> QED
      BY <2>1, <3>1 DEF access_log_close
  <2> QED
    BY <2>1 DEF Allocate, OpenFile, AppendMode, InitMutex, OpenFails, Kill
<1>2. tpc' = Idle /\ tpc \in [Threads -> {"idle", "called", "locked", "printed", "flushed"}]
      /\ buffer' = <<>> /\ mutex' = NoThread
  BY DEF Allocate, OpenFile, InitMutex, OpenFails, access_log_close, Kill, MutexInv, TypeInv, Idle
<1>3. TypeInv'
  <2>1. phase' \in {"none", "allocated", "opened", "ready", "failed", "closed"}
        /\ held' = CASE phase' = "allocated" -> {"struct"}
                     [] phase' = "opened" -> {"struct", "file"}
                     [] phase' = "ready" -> {"struct", "file", "mutex"}
                     [] OTHER -> {}
    <3>1. CASE Allocate \/ access_log_close \/ Kill
      BY <3>1 DEF Allocate, access_log_close, Kill
    <3>2. CASE OpenFile
      BY <3>2 DEF OpenFile, TypeInv
    <3>3. CASE InitMutex
      BY <3>3 DEF InitMutex, TypeInv
    <3>4. CASE OpenFails
      BY <3>4 DEF OpenFails, Released, TypeInv
    <3> QED
      BY <3>1, <3>2, <3>3, <3>4
  <2>2. faults' \in 0 .. MaxFaults
    BY DEF Allocate, OpenFile, InitMutex, OpenFails, access_log_close, Kill, TypeInv
  <2> QED
    BY <1>1, <1>2, <2>1, <2>2 DEF TypeInv, Idle
<1>4. MutexInv'
  BY <1>2 DEF MutexInv, Idle
<1>5. WriteInv'
  BY <1>2 DEF WriteInv, Idle
<1>6. FreshInv'
  BY <1>1 DEF FreshInv, Absent
<1>7. DiskInv'
  BY <1>1 DEF DiskInv, OnDisk
<1> QED
  BY <1>3, <1>4, <1>5, <1>6, <1>7

\* What one more part does to the file.
LEMMA PartWritten ==
  ASSUME disk \in Seq(Parts), NEW e \in Entries, NEW part \in Parts, disk' = Append(disk, part)
  PROVE  /\ part[1] # e => (e \in Absent => e \in Absent') /\ (e \in OnDisk => e \in OnDisk')
         /\ part = <<e, 1>> /\ e \in Absent => e \in Half'
         /\ part = <<e, 2>> /\ e \in Half => e \in OnDisk'
<1> DEFINE n == Len(disk)
<1>1. /\ n \in Nat /\ Len(disk') = n + 1 /\ disk'[n + 1] = part
      /\ \A j \in 1 .. n : disk'[j] = disk[j]
  OBVIOUS
<1>2. \A j \in 1 .. n + 1 : j = n + 1 \/ j \in 1 .. n
  BY <1>1
<1>3. ASSUME part[1] # e, e \in Absent PROVE e \in Absent'
  BY <1>1, <1>2, <1>3 DEF Absent
<1>4. ASSUME part[1] # e, e \in OnDisk PROVE e \in OnDisk'
  <2>1. PICK i \in 1 .. n - 1 :
          /\ disk[i] = <<e, 1>> /\ disk[i + 1] = <<e, 2>>
          /\ \A j \in 1 .. n : disk[j][1] = e => j \in {i, i + 1}
    BY <1>4 DEF OnDisk
  <2>2. i \in 1 .. n /\ i + 1 \in 1 .. n /\ i \in 1 .. Len(disk') - 1
    BY <1>1
  <2>3. \A j \in 1 .. Len(disk') : disk'[j][1] = e => j \in {i, i + 1}
    BY <1>1, <1>2, <1>4, <2>1
  <2> QED
    BY <1>1, <2>1, <2>2, <2>3 DEF OnDisk
<1>5. ASSUME part = <<e, 1>>, e \in Absent PROVE e \in Half'
  BY <1>1, <1>5 DEF Absent, Half
<1>6. ASSUME part = <<e, 2>>, e \in Half PROVE e \in OnDisk'
  <2>1. n > 0 /\ disk[n] = <<e, 1>> /\ \A j \in 1 .. n - 1 : disk[j][1] # e
    BY <1>6 DEF Half
  <2>2. n \in 1 .. Len(disk') - 1 /\ disk'[n] = <<e, 1>> /\ disk'[n + 1] = <<e, 2>>
    BY <1>1, <1>6, <2>1
  <2>3. \A j \in 1 .. Len(disk') : disk'[j][1] = e => j \in {n, n + 1}
    BY <1>1, <2>1
  <2> QED
    BY <2>2, <2>3 DEF OnDisk
<1> QED
  BY <1>3, <1>4, <1>5, <1>6

\* Whoever holds the mutex is alone in it.
LEMMA OneWriter ==
  ASSUME LogInv, NEW t \in Threads, NEW u \in Threads,
         tpc[t] \in {"locked", "printed", "flushed"}, tpc[u] \in {"locked", "printed", "flushed"}
  PROVE  t = u
  BY DEF LogInv, MutexInv

\* The entries of two threads differ.
LEMMA EntriesDiffer ==
  ASSUME NEW t \in Threads, NEW u \in Threads, t # u
  PROVE  Entry(t) # Entry(u)
  BY DEF Entry

LEMMA CallStep ==
  ASSUME LogInv, NEW t \in Threads, Call(t)
  PROVE  LogInv'
<1> USE LogAssumption DEF LogInv, file, Call, Goto
<1>t. calls \in [Threads -> 0 .. MaxCalls]
      /\ tpc \in [Threads -> {"idle", "called", "locked", "printed", "flushed"}]
  BY DEF TypeInv
<1>0. calls[t] \in Nat /\ calls' = [calls EXCEPT ![t] = calls[t] + 1] /\ calls'[t] > calls[t]
  BY <1>t
<1>1. TypeInv'
  BY DEF TypeInv
<1>2. MutexInv'
  BY <1>t DEF MutexInv, Idle
<1>3. Entry(t)' = <<t, calls[t] + 1>> /\ \A u \in Threads \ {t} : Entry(u)' = Entry(u)
  BY <1>0, <1>t DEF Entry
<1>4. <<t, calls[t] + 1>> \notin refused \cup returned /\ <<t, calls[t] + 1>> \in Absent
  BY <1>0 DEF FreshInv
<1>5. Absent' = Absent /\ Half' = Half /\ OnDisk' = OnDisk
  BY DEF Absent, Half, OnDisk
<1>6. WriteInv'
  BY <1>t, <1>0, <1>4, <1>5 DEF WriteInv, Writing, Entry, Line
<1>7. FreshInv'
  BY <1>0, <1>t, <1>5 DEF FreshInv
<1>8. DiskInv'
  BY <1>5 DEF DiskInv
<1> QED
  BY <1>1, <1>2, <1>6, <1>7, <1>8

LEMMA LockStep ==
  ASSUME LogInv, NEW t \in Threads, Lock(t)
  PROVE  LogInv'
<1> USE LogAssumption DEF LogInv, file, Lock, Goto
<1>t. tpc \in [Threads -> {"idle", "called", "locked", "printed", "flushed"}]
  BY DEF TypeInv
<1>1. TypeInv'
  BY DEF TypeInv
<1>2. MutexInv'
  BY <1>t DEF MutexInv, Idle
<1>3. Absent' = Absent /\ Half' = Half /\ OnDisk' = OnDisk
  BY DEF Absent, Half, OnDisk
<1>4. WriteInv'
  BY <1>t, <1>3 DEF WriteInv, Writing, Entry, Line
<1>5. FreshInv' /\ DiskInv'
  BY <1>3 DEF FreshInv, DiskInv
<1> QED
  BY <1>1, <1>2, <1>4, <1>5

LEMMA FprintfStep ==
  ASSUME LogInv, NEW t \in Threads, Fprintf(t)
  PROVE  LogInv'
<1> USE LogAssumption DEF LogInv, file, Fprintf, AfterPrint, Goto
<1>t. /\ tpc \in [Threads -> {"idle", "called", "locked", "printed", "flushed"}]
      /\ Entry(t) \in Entries
  BY DEF TypeInv, Entry, Entries
<1>0. buffer = <<>> /\ \A u \in Threads : u # t => tpc[u] \in {"idle", "called"}
  BY <1>t, OneWriter DEF MutexInv
<1>1. buffer' = Line(Entry(t)) /\ buffer' \in Seq(Parts)
  BY <1>0, <1>t DEF Line, Parts
<1>2. TypeInv'
  BY <1>1 DEF TypeInv
<1>3. MutexInv'
  BY <1>t, <1>0 DEF MutexInv, Idle
<1>4. Absent' = Absent /\ Half' = Half /\ OnDisk' = OnDisk
  BY DEF Absent, Half, OnDisk
<1>5. WriteInv'
  <2>1. tpc'[t] = "printed" /\ Entry(t)' = Entry(t) /\ Writing(Entry(t))'
    BY <1>1, <1>4, <1>t DEF WriteInv, Writing, Entry, Line
  <2> QED
    BY <1>t, <1>0, <1>4, <2>1 DEF WriteInv, Entry
<1>6. FreshInv' /\ DiskInv'
  BY <1>4 DEF FreshInv, DiskInv
<1> QED
  BY <1>2, <1>3, <1>5, <1>6

\* fflush writes the two parts of the writer's line, in their order.
LEMMA FlushWrites ==
  ASSUME LogInv, NEW t \in Threads, Flush(t)
  PROVE  \E k \in {1, 2} :
           /\ disk' = Append(disk, <<Entry(t), k>>)
           /\ k = 1 => buffer' = <<<<Entry(t), 2>>>> /\ Entry(t) \in Absent
           /\ k = 2 => buffer' = <<>> /\ Entry(t) \in Half
<1> DEFINE e == Entry(t)
           p == <<e, 1>>
           q == <<e, 2>>
<1>0. \/ buffer = <<p, q>> /\ e \in Absent
      \/ buffer = <<q>> /\ e \in Half
  BY DEF LogInv, WriteInv, Writing, Line, Flush
<1> HIDE DEF e, p, q
<1>1. \A r, s : /\ Head(<<r, s>>) = r /\ Tail(<<r, s>>) = <<s>>
               /\ Head(<<r>>) = r /\ Tail(<<r>>) = <<>>
  OBVIOUS
<1>n. 1 \in {1, 2} /\ 2 \in {1, 2} /\ 1 # 2
  OBVIOUS
<1>2. CASE buffer = <<p, q>> /\ e \in Absent
  <2>1. Head(buffer) = p /\ buffer' = <<q>> /\ disk' = Append(disk, p)
    BY <1>1, <1>2 DEF Flush
  <2> QED
    BY <1>n, <1>2, <2>1, Zenon DEF e, p, q
<1>3. CASE buffer = <<q>> /\ e \in Half
  <2>1. Head(buffer) = q /\ buffer' = <<>> /\ disk' = Append(disk, q)
    BY <1>1, <1>3 DEF Flush
  <2> QED
    BY <1>n, <1>3, <2>1, Zenon DEF e, q
<1> QED
  BY <1>0, <1>2, <1>3

\* Only the writer's own line changes its place.
LEMMA FlushStep ==
  ASSUME LogInv, NEW t \in Threads, Flush(t)
  PROVE  LogInv'
<1> USE LogAssumption DEF LogInv, Flush
<1> DEFINE e == Entry(t)
<1>t. /\ tpc \in [Threads -> {"idle", "called", "locked", "printed", "flushed"}]
      /\ calls \in [Threads -> 0 .. MaxCalls]
      /\ disk \in Seq(Parts) /\ buffer \in Seq(Parts) /\ e \in Entries
  BY DEF TypeInv, Entry, Entries
<1>0. tpc' = tpc /\ calls' = calls /\ refused' = refused /\ returned' = returned
      /\ \A u \in Threads : Entry(u)' = Entry(u)
  BY DEF Entry
<1>2. PICK k \in {1, 2} :
        /\ disk' = Append(disk, <<e, k>>)
        /\ k = 1 => buffer' = <<<<e, 2>>>> /\ e \in Absent
        /\ k = 2 => buffer' = <<>> /\ e \in Half
  BY FlushWrites
<1>3. <<e, k>> \in Parts /\ <<e, k>>[1] = e
  BY <1>t DEF Parts
<1>4. \A d \in Entries : d # e => (d \in Absent => d \in Absent') /\ (d \in OnDisk => d \in OnDisk')
  BY <1>2, <1>3, <1>t, PartWritten
<1>5. Writing(e)'
  <2>1. CASE k = 1
    <3>1. e \in Half'
      BY <1>2, <1>3, <1>t, <2>1, PartWritten
    <3> QED
      BY <1>0, <1>2, <2>1, <3>1 DEF Writing
  <2>2. CASE k = 2
    <3>1. e \in OnDisk'
      BY <1>2, <1>3, <1>t, <2>2, PartWritten
    <3> QED
      BY <1>0, <1>2, <2>2, <3>1 DEF Writing
  <2> QED
    BY <2>1, <2>2
<1>6. TypeInv'
  <2>1. disk' \in Seq(Parts) /\ buffer' \in Seq(Parts)
    BY <1>2, <1>3, <1>t
  <2> QED
    BY <2>1 DEF TypeInv
<1>7. MutexInv'
  BY DEF MutexInv
<1>8. WriteInv'
  <2>1. \A u \in Threads : u # t => tpc[u] \in {"idle", "called"} /\ Entry(u) # e /\ Entry(u) \in Entries
    BY <1>t, OneWriter, EntriesDiffer DEF Entry, Entries
  <2> QED
    BY <1>0, <1>4, <1>5, <2>1 DEF WriteInv
<1>9. FreshInv'
  <2>1. ASSUME NEW u \in Threads, NEW n \in Nat, n > calls[u]
        PROVE  <<u, n>> \in Entries /\ <<u, n>> # e
    BY <2>1, <1>t DEF Entry, Entries
  <2> QED
    BY <1>0, <1>4, <2>1 DEF FreshInv
<1>10. DiskInv'
  BY <1>0, <1>4, <1>t DEF DiskInv, WriteInv, TypeInv
<1> QED
  BY <1>6, <1>7, <1>8, <1>9, <1>10

\* The buffer is empty when fflush returns, by itself or because the disk
\* refused the rest.
LEMMA FlushedStep ==
  ASSUME LogInv, NEW t \in Threads, FlushReturns(t) \/ FlushFails(t)
  PROVE  LogInv'
<1> USE LogAssumption DEF LogInv, file, FlushReturns, FlushFails, Goto
<1>t. /\ tpc \in [Threads -> {"idle", "called", "locked", "printed", "flushed"}]
      /\ calls \in [Threads -> 0 .. MaxCalls] /\ Entry(t) \in Entries
  BY DEF TypeInv, Entry, Entries
<1>0. /\ \A u \in Threads : u # t => tpc[u] \in {"idle", "called"} /\ Entry(u) # Entry(t)
      /\ tpc[t] = "printed" /\ tpc' = [tpc EXCEPT ![t] = "flushed"]
  BY <1>t, OneWriter, EntriesDiffer
<1>1. /\ buffer' = <<>> /\ UNCHANGED <<phase, held, mutex, calls, disk, returned>>
      /\ refused' \in {refused, refused \cup {Entry(t)}}
      /\ Entry(t) \in refused' \/ buffer = <<>>
  OBVIOUS
<1>2. TypeInv'
  <2>1. faults' \in 0 .. MaxFaults
    BY DEF TypeInv
  <2> QED
    BY <1>t, <1>0, <1>1, <2>1 DEF TypeInv
<1>3. MutexInv'
  BY <1>t, <1>0, <1>1 DEF MutexInv, Idle
<1>4. Absent' = Absent /\ OnDisk' = OnDisk
  BY <1>1 DEF Absent, OnDisk
<1>5. WriteInv'
  <2>1. Entry(t) \in refused' \/ Entry(t) \in OnDisk
    BY <1>0, <1>1 DEF WriteInv, Writing, Line
  <2>2. \A u \in Threads : Entry(u)' = Entry(u)
    BY <1>1 DEF Entry
  <2> QED
    BY <1>t, <1>0, <1>1, <1>4, <2>1, <2>2 DEF WriteInv
<1>6. FreshInv'
  BY <1>1, <1>4, <1>t DEF FreshInv, Entry
<1>7. DiskInv'
  BY <1>1, <1>4 DEF DiskInv
<1> QED
  BY <1>2, <1>3, <1>5, <1>6, <1>7

LEMMA UnlockStep ==
  ASSUME LogInv, NEW t \in Threads, Unlock(t)
  PROVE  LogInv'
<1> USE LogAssumption DEF LogInv, Unlock, Goto
<1>t. /\ tpc \in [Threads -> {"idle", "called", "locked", "printed", "flushed"}]
      /\ calls \in [Threads -> 0 .. MaxCalls] /\ Entry(t) \in Entries
  BY DEF TypeInv, Entry, Entries
<1>0. \A u \in Threads : u # t => tpc[u] \in {"idle", "called"} /\ Entry(u) # Entry(t)
  BY <1>t, OneWriter, EntriesDiffer
<1>1. TypeInv'
  BY <1>t DEF TypeInv
<1>2. MutexInv'
  BY <1>t, <1>0 DEF MutexInv, Idle
<1>3. Absent' = Absent /\ OnDisk' = OnDisk /\ \A u \in Threads : Entry(u)' = Entry(u)
  BY DEF Absent, OnDisk, Entry
<1>4. WriteInv'
  BY <1>t, <1>0, <1>3 DEF WriteInv
<1>5. FreshInv'
  BY <1>3, <1>t DEF FreshInv, Entry
<1>6. DiskInv'
  BY <1>3 DEF DiskInv, WriteInv
<1> QED
  BY <1>1, <1>2, <1>4, <1>5, <1>6

LEMMA LogStep == LogInv /\ [Next]_vars => LogInv'
<1> SUFFICES ASSUME LogInv, [Next]_vars PROVE LogInv'
  OBVIOUS
<1>1. CASE UNCHANGED vars
  <2>1. Absent' = Absent /\ Half' = Half /\ OnDisk' = OnDisk
    BY <1>1 DEF vars, file, Absent, Half, OnDisk
  <2>2. TypeInv' /\ MutexInv'
    BY <1>1 DEF vars, threads, file, LogInv, TypeInv, MutexInv
  <2>3. WriteInv' /\ FreshInv' /\ DiskInv'
    BY <1>1, <2>1 DEF vars, threads, file, LogInv, WriteInv, FreshInv, DiskInv, Writing, Entry, Line
  <2> QED
    BY <2>2, <2>3 DEF LogInv
<1>2. CASE Next
  BY <1>2, OpenStep, CallStep, LockStep, FprintfStep, FlushStep, FlushedStep, UnlockStep DEF Next, Write
<1> QED
  BY <1>1, <1>2

LEMMA LogCorrect == Spec => []LogInv
  BY LogInit, LogStep, PTL DEF Spec
-----------------------------------------------------------------------------
(* access_log_open acquires all or nothing, close gives all of it back, and *)
(* the buffer never holds more than the line of the one thread that has     *)
(* the mutex.                                                               *)
THEOREM LogTypeCorrect == Spec => []TypeOK
<1>1. LogInv => TypeOK
  <2> SUFFICES ASSUME LogInv PROVE TypeOK
    OBVIOUS
  <2>1. Len(buffer) <= 2
    <3>1. CASE \A t \in Threads : tpc[t] # "printed"
      BY <3>1 DEF LogInv, MutexInv
    <3>2. CASE \E t \in Threads : tpc[t] = "printed"
      <4>1. PICK t \in Threads : tpc[t] = "printed"
        BY <3>2
      <4>2. \A r, s : Len(<<r, s>>) = 2 /\ Len(<<r>>) = 1 /\ Len(<<>>) = 0
        OBVIOUS
      <4>3. \/ \E r, s : buffer = <<r, s>>
            \/ \E r : buffer = <<r>>
            \/ buffer = <<>>
        BY <4>1 DEF LogInv, WriteInv, Writing, Line
      <4> QED
        BY <4>2, <4>3
    <3> QED
      BY <3>1, <3>2
  <2> QED
    BY <2>1 DEF LogInv, TypeInv, TypeOK
<1> QED
  BY <1>1, LogCorrect, PTL

(* The flush before the unlock: whatever the threads, the kills, the        *)
(* restarts and the disk do, a line whose access_log_write has returned and *)
(* was not refused is in the file, whole and once.                          *)
THEOREM LogDurable == Spec => []ReturnedIsOnDisk
<1>1. LogInv => ReturnedIsOnDisk
  <2> SUFFICES ASSUME LogInv, NEW e \in returned \ refused
               PROVE  \E i \in 1 .. Len(disk) - 1 :
                        /\ SubSeq(disk, i, i + 1) = Line(e)
                        /\ \A j \in 1 .. Len(disk) : disk[j][1] = e => j \in {i, i + 1}
    BY DEF ReturnedIsOnDisk
  <2>1. PICK i \in 1 .. Len(disk) - 1 :
          /\ disk[i] = <<e, 1>> /\ disk[i + 1] = <<e, 2>>
          /\ \A j \in 1 .. Len(disk) : disk[j][1] = e => j \in {i, i + 1}
    BY DEF LogInv, DiskInv, OnDisk
  <2>2. SubSeq(disk, i, i + 1) = <<disk[i], disk[i + 1]>>
    <3> DEFINE s == SubSeq(disk, i, i + 1)
    <3>1. disk \in Seq(Parts) /\ i \in Nat /\ i >= 1 /\ i + 1 <= Len(disk)
      BY DEF LogInv, TypeInv
    <3>2. s \in Seq(Parts) /\ Len(s) = 2
      BY <3>1
    <3>3. s[1] = disk[i] /\ s[2] = disk[i + 1]
      BY <3>1
    <3> HIDE DEF s
    <3>4. s = <<s[1], s[2]>>
      BY <3>2
    <3> QED
      BY <3>3, <3>4 DEF s
  <2> QED
    BY <2>1, <2>2 DEF Line
<1> QED
  BY <1>1, LogCorrect, PTL
-----------------------------------------------------------------------------
(* The log implements the atomic log.                                      *)

\* The lines whose last part is in the file.
Done == {e \in Entries : \E i \in 1 .. Len(disk) : disk[i] = <<e, 2>>}

\* Each whole line has its end, and the abstract lines are the ones done.
AllEnd(d) == \A k \in 1 .. Ends(d, Len(d)) : \E i \in 1 .. Len(d) : d[i][2] = 2 /\ Ends(d, i) = k
LinesInv == AllEnd(disk) /\ Atomic!Written = Done

\* The ends that are counted.
EndsIn(d, n) == {i \in 1 .. n : d[i][2] = 2}

LEMMA EndsCounted ==
  ASSUME NEW d \in Seq(Parts), NEW n \in 0 .. Len(d), NEW m \in 0 .. n
  PROVE  Ends(d, m) \in Nat /\ Ends(d, m) <= Ends(d, n)
<1>1. IsFiniteSet(1 .. n) /\ EndsIn(d, n) \subseteq 1 .. n /\ EndsIn(d, m) \subseteq EndsIn(d, n)
  BY FS_Interval DEF EndsIn
<1>2. IsFiniteSet(EndsIn(d, n)) /\ IsFiniteSet(EndsIn(d, m))
      /\ Cardinality(EndsIn(d, m)) <= Cardinality(EndsIn(d, n))
  BY <1>1, FS_Subset
<1> QED
  BY <1>2, FS_CardinalityType DEF Ends, EndsIn

\* No two parts end the same line.
LEMMA EndIsOne ==
  ASSUME NEW d \in Seq(Parts), NEW i \in 1 .. Len(d), NEW j \in 1 .. Len(d),
         i < j, d[j][2] = 2
  PROVE  Ends(d, i) < Ends(d, j)
<1>0. IsFiniteSet(1 .. i) /\ IsFiniteSet(1 .. j)
  BY FS_Interval
<1>1. /\ EndsIn(d, i) \subseteq 1 .. i /\ EndsIn(d, j) \subseteq 1 .. j
      /\ j \notin EndsIn(d, i) /\ EndsIn(d, i) \cup {j} \subseteq EndsIn(d, j)
  BY DEF EndsIn
<1>2. IsFiniteSet(EndsIn(d, i)) /\ IsFiniteSet(EndsIn(d, j))
  BY <1>0, <1>1, FS_Subset
<1>3. Cardinality(EndsIn(d, i) \cup {j}) = Cardinality(EndsIn(d, i)) + 1
      /\ Cardinality(EndsIn(d, i)) \in Nat
  BY <1>1, <1>2, FS_AddElement, FS_CardinalityType
<1>4. Cardinality(EndsIn(d, i) \cup {j}) <= Cardinality(EndsIn(d, j))
  BY <1>1, <1>2, FS_Subset
<1>5. Cardinality(EndsIn(d, j)) \in Nat
  BY <1>2, FS_CardinalityType
<1> QED
  BY <1>3, <1>4, <1>5 DEF Ends, EndsIn

\* One more part leaves the ends of the others where they are.
LEMMA EndsGrow ==
  ASSUME NEW d \in Seq(Parts), NEW e \in Entries, NEW k \in {1, 2}
  PROVE  LET c == Append(d, <<e, k>>)
         IN  /\ \A m \in 0 .. Len(d) : Ends(c, m) = Ends(d, m)
             /\ k = 1 => Ends(c, Len(d) + 1) = Ends(d, Len(d))
             /\ k = 2 => Ends(c, Len(d) + 1) = Ends(d, Len(d)) + 1
<1> DEFINE n == Len(d)
           c == Append(d, <<e, k>>)
<1>1. n \in Nat /\ c[n + 1] = <<e, k>> /\ \A j \in 1 .. n : c[j] = d[j]
  OBVIOUS
<1> HIDE DEF c, n
<1>2. ASSUME NEW m \in 0 .. n
      PROVE  Ends(c, m) = Ends(d, m)
  <2>1. \A j \in 1 .. m : c[j] = d[j]
    BY <1>1
  <2>2. EndsIn(c, m) = EndsIn(d, m)
    BY <2>1 DEF EndsIn
  <2> QED
    BY <2>2 DEF Ends, EndsIn
<1>3. /\ k = 1 => Ends(c, n + 1) = Ends(d, n)
      /\ k = 2 => Ends(c, n + 1) = Ends(d, n) + 1
  <2>0. IsFiniteSet(1 .. n)
    BY <1>1, FS_Interval
  <2>1. EndsIn(d, n) \subseteq 1 .. n /\ n + 1 \notin EndsIn(d, n)
    BY <1>1 DEF EndsIn
  <2>2. IsFiniteSet(EndsIn(d, n))
    BY <2>0, <2>1, FS_Subset
  <2>3. Cardinality(EndsIn(d, n) \cup {n + 1}) = Cardinality(EndsIn(d, n)) + 1
    BY <2>1, <2>2, FS_AddElement
  <2>4. /\ \A j \in 1 .. n + 1 : j \in 1 .. n \/ j = n + 1
        /\ 1 .. n \subseteq 1 .. n + 1 /\ n + 1 \in 1 .. n + 1
        /\ c[n + 1][2] = k
    BY <1>1
  <2>5. k = 2 => EndsIn(c, n + 1) = EndsIn(d, n) \cup {n + 1}
    BY <1>1, <2>4 DEF EndsIn
  <2>6. k = 1 => EndsIn(c, n + 1) = EndsIn(d, n)
    BY <1>1, <2>4 DEF EndsIn
  <2> QED
    BY <2>3, <2>5, <2>6 DEF Ends, EndsIn
<1> QED
  BY <1>2, <1>3 DEF c, n

\* The k-th line ends where the k-th end is.
LEMMA EndOfIs ==
  ASSUME NEW d \in Seq(Parts), NEW i \in 1 .. Len(d), d[i][2] = 2, NEW k, Ends(d, i) = k
  PROVE  EndOf(d, k) = i
<1> DEFINE j == EndOf(d, k)
<1>1. j \in 1 .. Len(d) /\ d[j][2] = 2 /\ Ends(d, j) = k
  BY DEF EndOf
<1> HIDE DEF j
<1>2. /\ i < j => Ends(d, i) < Ends(d, j)
      /\ j < i => Ends(d, j) < Ends(d, i)
  BY <1>1, EndIsOne
<1>3. Ends(d, i) \in Nat
  BY EndsCounted
<1>4. i = j
  BY <1>1, <1>2, <1>3
<1> QED
  BY <1>4 DEF j

\* One more part adds a line when it is the last of one.
Grown(c, d, e, k) == c = Append(d, <<e, k>>)
LinesGrown(c, d, e, k) ==
  /\ Ends(d, Len(d)) \in Nat
  /\ k = 1 => Ends(c, Len(c)) = Ends(d, Len(d))
  /\ k = 2 => Ends(c, Len(c)) = Ends(d, Len(d)) + 1
  /\ \A m \in 1 .. Ends(d, Len(d)) : WholeLines(c)[m] = WholeLines(d)[m]
  /\ k = 2 => WholeLines(c)[Ends(d, Len(d)) + 1] = e
  /\ AllEnd(c)
LEMMA LinesGrow ==
  ASSUME NEW d \in Seq(Parts), NEW e \in Entries, NEW k \in {1, 2}, AllEnd(d),
         NEW c, Grown(c, d, e, k)
  PROVE  LinesGrown(c, d, e, k)
<1> DEFINE n == Len(d)
           l == Ends(d, n)
<1>0. <<e, k>> \in Parts
  BY DEF Parts
<1>1. /\ n \in Nat /\ c[n + 1] = <<e, k>> /\ Len(c) = n + 1 /\ c \in Seq(Parts)
      /\ \A j \in 1 .. n : c[j] = d[j]
  BY <1>0 DEF Grown
<1>2. /\ \A m \in 0 .. n : Ends(c, m) = Ends(d, m)
      /\ k = 1 => Ends(c, n + 1) = l
      /\ k = 2 => Ends(c, n + 1) = l + 1
  BY EndsGrow DEF Grown
<1>3. l \in Nat
  BY <1>1, EndsCounted
<1> HIDE DEF n, l
<1>4. ASSUME NEW m \in 1 .. l
      PROVE  /\ c[EndOf(c, m)][1] = d[EndOf(d, m)][1]
             /\ \E i \in 1 .. Len(c) : c[i][2] = 2 /\ Ends(c, i) = m
  <2>1. PICK i \in 1 .. n : d[i][2] = 2 /\ Ends(d, i) = m
    BY DEF n, l, AllEnd
  <2>2. EndOf(d, m) = i
    BY <2>1, EndOfIs DEF n
  <2>3. i \in 1 .. Len(c) /\ i \in 0 .. n /\ c[i] = d[i]
    BY <1>1
  <2>4. c[i][2] = 2 /\ Ends(c, i) = m
    BY <1>2, <2>1, <2>3
  <2>5. EndOf(c, m) = i
    BY <1>1, <2>3, <2>4, EndOfIs
  <2> QED
    BY <2>2, <2>3, <2>4, <2>5
<1>5. ASSUME k = 2
      PROVE  /\ c[EndOf(c, l + 1)][1] = e
             /\ \E i \in 1 .. Len(c) : c[i][2] = 2 /\ Ends(c, i) = l + 1
  <2>1. n + 1 \in 1 .. Len(c) /\ Ends(c, n + 1) = l + 1
    BY <1>1, <1>2, <1>5
  <2>2. c[n + 1][2] = 2 /\ c[n + 1][1] = e
    BY <1>1, <1>5
  <2>3. EndOf(c, l + 1) = n + 1
    BY <1>1, <2>1, <2>2, EndOfIs
  <2> QED
    BY <2>1, <2>2, <2>3
<1> DEFINE h == Ends(c, Len(c))
<1>6. (k = 1 => h = l) /\ (k = 2 => h = l + 1)
  BY <1>1, <1>2
<1>7. WholeLines(c) = [m \in 1 .. h |-> c[EndOf(c, m)][1]]
      /\ WholeLines(d) = [m \in 1 .. l |-> d[EndOf(d, m)][1]]
  BY DEF WholeLines, n, l
<1>8. (AllEnd(c) <=> \A m \in 1 .. h : \E i \in 1 .. Len(c) : c[i][2] = 2 /\ Ends(c, i) = m)
  BY DEF AllEnd
<1> HIDE DEF h
<1>9. /\ \A m \in 1 .. h : m \in 1 .. l \/ (k = 2 /\ m = l + 1)
      /\ 1 .. l \subseteq 1 .. h
      /\ k = 2 => l + 1 \in 1 .. h
  BY <1>3, <1>6
<1>10. AllEnd(c)
  BY <1>4, <1>5, <1>8, <1>9
<1>11. /\ \A m \in 1 .. l : WholeLines(c)[m] = WholeLines(d)[m]
       /\ k = 2 => WholeLines(c)[l + 1] = e
  BY <1>4, <1>5, <1>7, <1>9
<1> QED
  BY <1>3, <1>6, <1>10, <1>11 DEF n, l, h, LinesGrown

\* ... so the abstract file is unchanged or has one more line.
LEMMA AbstractGrow ==
  ASSUME LogInv, LinesInv, NEW e \in Entries, NEW k \in {1, 2}, disk' = Append(disk, <<e, k>>)
  PROVE  /\ LinesInv'
         /\ k = 1 => WholeLines(disk)' = WholeLines(disk) /\ Done' = Done
         /\ k = 2 => WholeLines(disk)' = Append(WholeLines(disk), e) /\ Done' = Done \cup {e}
<1> DEFINE l == Ends(disk, Len(disk))
           w == WholeLines(disk)
           v == WholeLines(disk')
<1>0. disk \in Seq(Parts) /\ disk' \in Seq(Parts) /\ <<e, k>> \in Parts
  BY DEF LogInv, TypeInv, Parts
<1> DEFINE h == Ends(disk', Len(disk'))
<1>1. /\ l \in Nat /\ (k = 1 => h = l) /\ (k = 2 => h = l + 1)
      /\ \A m \in 1 .. l : v[m] = w[m]
      /\ k = 2 => v[l + 1] = e
      /\ AllEnd(disk')
  <2>1. AllEnd(disk)
    BY DEF LinesInv
  <2>2. Grown(disk', disk, e, k)
    BY DEF Grown
  <2>3. LinesGrown(disk', disk, e, k)
    BY <1>0, <2>1, <2>2, LinesGrow
  <2> QED
    BY <2>3 DEF LinesGrown
<1>2. WholeLines(disk)' = v
  BY DEF WholeLines, Ends, EndOf
<1>3. Done' = IF k = 2 THEN Done \cup {e} ELSE Done
  <2>1. /\ Len(disk) \in Nat /\ disk'[Len(disk) + 1] = <<e, k>> /\ Len(disk') = Len(disk) + 1
        /\ \A j \in 1 .. Len(disk) : disk'[j] = disk[j]
    BY <1>0
  <2>2. \A j \in 1 .. Len(disk) + 1 : j \in 1 .. Len(disk) \/ j = Len(disk) + 1
    BY <2>1
  <2>3. 1 .. Len(disk) \subseteq 1 .. Len(disk) + 1 /\ Len(disk) + 1 \in 1 .. Len(disk) + 1
    BY <2>1
  <2> QED
    BY <2>1, <2>2, <2>3 DEF Done
<1>4. w = [m \in 1 .. l |-> w[m]] /\ v = [m \in 1 .. h |-> v[m]]
  BY DEF WholeLines
<1> HIDE DEF l, w, v, h
<1>5. w \in Seq({w[i] : i \in 1 .. l}) /\ Len(w) = l
  <2>1. l \in Nat
    BY <1>1
  <2> QED
    BY <2>1, <1>4
<1>6. v \in Seq({v[i] : i \in 1 .. h}) /\ Len(v) = h
  <2>1. h \in Nat
    BY <1>1
  <2> QED
    BY <2>1, <1>4
<1>7. Done = {w[i] : i \in 1 .. l} /\ Atomic!Written' = {v[i] : i \in 1 .. h}
  <2>1. Atomic!Written = {w[i] : i \in 1 .. Len(w)} /\ Atomic!Written' = {v[i] : i \in 1 .. Len(v)}
    BY <1>2 DEF Atomic!Written, w
  <2> QED
    BY <1>5, <1>6, <2>1 DEF LinesInv
<1>8. AllEnd(disk)'
  <2>1. \A m \in 1 .. Ends(disk', Len(disk')) : \E i \in 1 .. Len(disk') : disk'[i][2] = 2 /\ Ends(disk', i) = m
    BY <1>1 DEF AllEnd
  <2> QED
    BY <2>1 DEF AllEnd, Ends
<1>9. CASE k = 1
  <2>1. v = w
    BY <1>1, <1>4, <1>9
  <2> QED
    BY <1>1, <1>2, <1>3, <1>7, <1>8, <1>9, <2>1 DEF LinesInv, w
<1>10. CASE k = 2
  <2>1. v = Append(w, e)
    <3> DEFINE S == {w[i] : i \in 1 .. l} \cup {e}
    <3>1. w \in Seq(S) /\ e \in S
      BY <1>5
    <3> HIDE DEF S
    <3> DEFINE a == Append(w, e)
    <3>2. /\ a \in Seq(S) /\ Len(a) = l + 1
          /\ \A i \in 1 .. l : a[i] = w[i]
          /\ a[l + 1] = e
      BY <1>5, <3>1, AppendProperties
    <3> HIDE DEF a
    <3>3. v = [m \in 1 .. l + 1 |-> v[m]]
      BY <1>1, <1>4, <1>10
    <3>4. a = [m \in 1 .. l + 1 |-> a[m]]
      BY <3>2
    <3>5. \A m \in 1 .. l + 1 : v[m] = a[m]
      <4>1. \A m \in 1 .. l + 1 : m \in 1 .. l \/ m = l + 1
        BY <1>1
      <4> QED
        BY <1>1, <1>10, <3>2, <4>1
    <3> QED
      BY <3>3, <3>4, <3>5 DEF a
  <2>2. {v[i] : i \in 1 .. h} = Done \cup {e}
    <3>1. 1 .. h = 1 .. l \cup {l + 1}
      BY <1>1, <1>10
    <3> QED
      BY <1>1, <1>7, <1>10, <3>1
  <2>3. LinesInv'
    BY <1>3, <1>7, <1>8, <1>10, <2>2 DEF LinesInv
  <2>4. k # 1 /\ Done' = Done \cup {e}
    BY <1>3, <1>10
  <2> QED
    BY <1>2, <2>1, <2>3, <2>4, Zenon DEF w
<1> QED
  BY <1>9, <1>10

LEMMA LinesSame ==
  ASSUME UNCHANGED disk
  PROVE  WholeLines(disk)' = WholeLines(disk) /\ Done' = Done /\ (LinesInv => LinesInv')
<1>1. WholeLines(disk)' = WholeLines(disk)
  <2>1. WholeLines(disk)' = WholeLines(disk')
    BY DEF WholeLines, Ends, EndOf
  <2> QED
    BY <2>1
<1>2. Done' = Done
  BY DEF Done
<1>3. Atomic!Written' = Atomic!Written
  BY <1>1 DEF Atomic!Written
<1>4. AllEnd(disk) => AllEnd(disk)'
  <2>1. AllEnd(disk)' <=> AllEnd(disk')
    BY DEF AllEnd, Ends
  <2> QED
    BY <2>1
<1> QED
  BY <1>1, <1>2, <1>3, <1>4 DEF LinesInv

\* The calls under way in the abstract log, by thread.
LEMMA PendingIs ==
  ASSUME LogInv, LogInv'
  PROVE  /\ \A e : e \in Pending <=>
               \E t \in Threads : tpc[t] # "idle" /\ e = Entry(t) /\ e \notin refused \cup Done
         /\ \A e : e \in Pending' <=>
               \E t \in Threads : tpc'[t] # "idle" /\ e = Entry(t)' /\ e \notin refused' \cup Done'
<1>1. \A t \in Threads : Entry(t) \in Entries
  BY DEF LogInv, TypeInv, Entry, Entries
<1>2. \A t \in Threads : Entry(t)' \in Entries
  BY DEF LogInv, TypeInv, Entry, Entries
<1>3. \A e : e \in Pending <=>
        \E t \in Threads : tpc[t] # "idle" /\ e = Entry(t) /\ e \notin refused \cup Done
  BY <1>1 DEF Pending, Done
<1>4. \A e : e \in Pending' <=>
        \E t \in Threads : tpc'[t] # "idle" /\ e = Entry(t)' /\ e \notin refused' \cup Done'
  BY <1>2 DEF Pending, Done
<1> QED
  BY <1>3, <1>4

LEMMA CallIsAbstract ==
  ASSUME LogInv, LogInv', LinesInv, NEW t \in Threads, Call(t)
  PROVE  LinesInv' /\ Atomic!ANext
<1> DEFINE e == <<t, calls[t] + 1>>
<1>0. calls \in [Threads -> 0 .. MaxCalls] /\ MaxCalls \in Nat
      /\ tpc \in [Threads -> {"idle", "called", "locked", "printed", "flushed"}]
  BY LogAssumption DEF LogInv, TypeInv
<1>1. UNCHANGED <<disk, refused, returned>>
  BY DEF Call, file
<1>2. WholeLines(disk)' = WholeLines(disk) /\ Done' = Done /\ LinesInv'
  BY <1>1, LinesSame
<1>3. e \in Atomic!Entry
  BY <1>0 DEF Call, Atomic!Entry
<1>4. e \notin refused \cup Done
  BY <1>0 DEF LogInv, FreshInv, Absent, Done
<1>5. /\ tpc[t] = "idle" /\ tpc'[t] = "called" /\ Entry(t)' = e
      /\ \A u \in Threads : u # t => tpc'[u] = tpc[u] /\ Entry(u)' = Entry(u)
      /\ \A u \in Threads : Entry(u) # e
  BY <1>0 DEF Call, Goto, Entry
<1>6. e \notin Pending /\ Pending' = Pending \cup {e}
  BY <1>1, <1>2, <1>4, <1>5, PendingIs
<1>7. e \notin Atomic!Written
  BY <1>4 DEF LinesInv
<1>8. Atomic!Call(e)
  BY <1>1, <1>2, <1>4, <1>6, <1>7 DEF Atomic!Call
<1> QED
  BY <1>2, <1>3, <1>8 DEF Atomic!ANext

\* The lock, fprintf and the return of fflush are not seen.
LEMMA QuietIsAbstract ==
  ASSUME LogInv, LogInv', LinesInv, NEW t \in Threads, Lock(t) \/ Fprintf(t) \/ FlushReturns(t)
  PROVE  LinesInv' /\ UNCHANGED Atomic!avars
<1>0. tpc \in [Threads -> {"idle", "called", "locked", "printed", "flushed"}]
  BY DEF LogInv, TypeInv
<1>1. UNCHANGED <<calls, disk, refused, returned>>
  BY DEF Lock, Fprintf, FlushReturns, file
<1>2. WholeLines(disk)' = WholeLines(disk) /\ Done' = Done /\ LinesInv'
  BY <1>1, LinesSame
<1>3. \A u \in Threads : (tpc'[u] # "idle" <=> tpc[u] # "idle") /\ Entry(u)' = Entry(u)
  BY <1>0, <1>1 DEF Lock, Fprintf, AfterPrint, FlushReturns, Goto, Entry
<1>4. Pending' = Pending
  BY <1>1, <1>2, <1>3, PendingIs
<1> QED
  BY <1>1, <1>2, <1>4 DEF Atomic!avars

LEMMA WrittenIsAbstract ==
  ASSUME LogInv, NEW t \in Threads, tpc[t] # "idle"
  PROVE  Entry(t) \in Atomic!Entry /\ Entry(t) \in Entries
  BY DEF LogInv, TypeInv, WriteInv, Entry, Atomic!Entry, Entries

LEMMA HalfIsNotDone ==
  ASSUME LogInv, NEW e \in Absent \cup Half
  PROVE  e \notin Done
<1>1. disk \in Seq(Parts)
  BY DEF LogInv, TypeInv
<1>2. \A i \in 1 .. Len(disk) : i \in 1 .. Len(disk) - 1 \/ i = Len(disk)
  BY <1>1
<1>3. \A i \in 1 .. Len(disk) : disk[i] # <<e, 2>>
  BY <1>2 DEF Absent, Half
<1> QED
  BY <1>3 DEF Done

LEMMA OnDiskIsDone == LogInv => OnDisk \subseteq Done
<1> SUFFICES ASSUME LogInv, NEW e \in OnDisk PROVE e \in Done
  OBVIOUS
<1>1. PICK i \in 1 .. Len(disk) - 1 : disk[i + 1] = <<e, 2>>
  BY DEF OnDisk
<1>2. disk \in Seq(Parts) /\ e \in Entries
  BY DEF LogInv, TypeInv, OnDisk
<1>3. i + 1 \in 1 .. Len(disk)
  BY <1>2
<1> QED
  BY <1>1, <1>2, <1>3 DEF Done

\* A line is written when its last part is.
LEMMA FlushIsAbstract ==
  ASSUME LogInv, LogInv', LinesInv, NEW t \in Threads, Flush(t)
  PROVE  LinesInv' /\ [Atomic!ANext]_(Atomic!avars)
<1> DEFINE e == Entry(t)
<1>0. e \in Entries /\ e \in Atomic!Entry /\ tpc[t] = "printed"
  BY WrittenIsAbstract DEF Flush
<1>1. UNCHANGED <<tpc, calls, refused, returned>> /\ \A u \in Threads : Entry(u)' = Entry(u)
  BY DEF Flush, Entry
<1>2. PICK k \in {1, 2} : disk' = Append(disk, <<e, k>>) /\ (k = 2 => e \in Half)
  BY FlushWrites
<1>3. /\ LinesInv'
      /\ k = 1 => WholeLines(disk)' = WholeLines(disk) /\ Done' = Done
      /\ k = 2 => WholeLines(disk)' = Append(WholeLines(disk), e) /\ Done' = Done \cup {e}
  BY <1>0, <1>2, AbstractGrow
<1>4. CASE k = 1
  <2>1. Pending' = Pending
    BY <1>1, <1>3, <1>4, PendingIs
  <2> QED
    BY <1>1, <1>3, <1>4, <2>1 DEF Atomic!avars
<1>5. CASE k = 2
  <2>1. e \notin Done
    BY <1>2, <1>5, HalfIsNotDone
  <2>2. e \notin refused
    BY <1>0 DEF LogInv, WriteInv
  <2>3. \A u \in Threads : Entry(u) = e => u = t
    BY EntriesDiffer
  <2>4. e \in Pending /\ Pending' = Pending \ {e}
    BY <1>0, <1>1, <1>3, <1>5, <2>1, <2>2, <2>3, PendingIs
  <2>5. WholeLines(disk)' = Append(WholeLines(disk), e)
    BY <1>3, <1>5
  <2>6. Atomic!Write(e)
    BY <1>1, <2>4, <2>5, Zenon DEF Atomic!Write
  <2> QED
    BY <1>0, <1>3, <2>6 DEF Atomic!ANext
<1> QED
  BY <1>4, <1>5

LEMMA FailIsAbstract ==
  ASSUME LogInv, LogInv', LinesInv, NEW t \in Threads, FlushFails(t)
  PROVE  LinesInv' /\ Atomic!ANext
<1> DEFINE e == Entry(t)
<1>0. /\ e \in Entries /\ e \in Atomic!Entry /\ tpc[t] = "printed" /\ buffer # <<>>
      /\ tpc \in [Threads -> {"idle", "called", "locked", "printed", "flushed"}]
  BY WrittenIsAbstract DEF FlushFails, LogInv, TypeInv
<1>1. UNCHANGED <<calls, disk, returned>> /\ refused' = refused \cup {e}
      /\ \A u \in Threads : (tpc'[u] # "idle" <=> tpc[u] # "idle") /\ Entry(u)' = Entry(u)
  BY <1>0 DEF FlushFails, Goto, Entry
<1>2. WholeLines(disk)' = WholeLines(disk) /\ Done' = Done /\ LinesInv'
  BY <1>1, LinesSame
<1>3. e \notin Done /\ e \notin refused
  <2>1. e \in Absent \cup Half /\ e \notin refused
    BY <1>0 DEF LogInv, WriteInv, Writing
  <2> QED
    BY <2>1, HalfIsNotDone
<1>4. \A u \in Threads : Entry(u) = e => u = t
  BY EntriesDiffer
<1>5. e \in Pending /\ Pending' = Pending \ {e}
  BY <1>0, <1>1, <1>2, <1>3, <1>4, PendingIs
<1>6. Atomic!Refuse(e)
  BY <1>1, <1>2, <1>5 DEF Atomic!Refuse
<1> QED
  BY <1>0, <1>2, <1>6 DEF Atomic!ANext

LEMMA UnlockIsAbstract ==
  ASSUME LogInv, LogInv', LinesInv, NEW t \in Threads, Unlock(t)
  PROVE  LinesInv' /\ Atomic!ANext
<1> DEFINE e == Entry(t)
<1>0. /\ e \in Entries /\ e \in Atomic!Entry /\ tpc[t] = "flushed"
      /\ tpc \in [Threads -> {"idle", "called", "locked", "printed", "flushed"}]
  BY WrittenIsAbstract DEF Unlock, LogInv, TypeInv
<1>1. /\ UNCHANGED <<calls, disk, refused>> /\ returned' = returned \cup {e}
      /\ \A u \in Threads : Entry(u)' = Entry(u) /\ (u # t => tpc'[u] = tpc[u])
      /\ tpc'[t] = "idle"
  BY <1>0 DEF Unlock, Goto, Entry
<1>2. WholeLines(disk)' = WholeLines(disk) /\ Done' = Done /\ LinesInv'
  BY <1>1, LinesSame
<1>3. e \in Done \cup refused /\ e \notin returned
  <2>1. e \in OnDisk \cup refused /\ e \notin returned
    BY <1>0 DEF LogInv, WriteInv
  <2> QED
    BY <2>1, OnDiskIsDone
<1>4. Pending' = Pending
  BY <1>0, <1>1, <1>2, <1>3, PendingIs
<1>5. e \in Atomic!Written \cup refused
  BY <1>3 DEF LinesInv
<1>6. Atomic!Return(e)
  BY <1>1, <1>2, <1>3, <1>4, <1>5 DEF Atomic!Return
<1> QED
  BY <1>0, <1>2, <1>6 DEF Atomic!ANext

\* Opening and closing are not seen, a kill is a crash.
LEMMA OpenIsAbstract ==
  ASSUME LogInv, LogInv', LinesInv,
         Allocate \/ OpenFile \/ InitMutex \/ OpenFails \/ access_log_close \/ Kill
  PROVE  LinesInv' /\ Atomic!ANext
<1>1. UNCHANGED <<disk, refused, returned>>
  <2>1. CASE access_log_close
    <3>1. buffer = <<>> /\ disk \in Seq(Parts)
      BY <2>1 DEF access_log_close, LogInv, MutexInv, Idle, TypeInv
    <3> QED
      BY <2>1, <3>1 DEF access_log_close
  <2> QED
    BY <2>1 DEF Allocate, OpenFile, AppendMode, InitMutex, OpenFails, Kill, threads, file
<1>2. tpc' = Idle
  BY DEF Allocate, OpenFile, InitMutex, OpenFails, access_log_close, Kill, threads, LogInv, MutexInv
<1>3. WholeLines(disk)' = WholeLines(disk) /\ LinesInv'
  BY <1>1, LinesSame
<1>4. Pending' = {}
  BY <1>2, PendingIs DEF Idle
<1> QED
  BY <1>1, <1>3, <1>4 DEF Atomic!ANext, Atomic!Crash

(* The log, with its mutex, its buffer, its flush in parts, kills and       *)
(* restarts, implements the atomic log: between its call and its return     *)
(* every access_log_write appends its line in one step, or the disk refuses *)
(* that line, and no step changes what is in the file.                      *)
THEOREM LogImplementsAtomicLog == Spec => ImplementsAtomicLog
<1>1. Init => LinesInv /\ Atomic!AInit
  <2> SUFFICES ASSUME Init PROVE LinesInv /\ Atomic!AInit
    OBVIOUS
  <2>1. disk = <<>> /\ Len(disk) = 0 /\ 1 .. 0 = {}
    BY DEF Init
  <2>2. Ends(disk, 0) = 0
    BY <2>1, FS_EmptySet DEF Ends
  <2>3. WholeLines(disk) = <<>> /\ Len(WholeLines(disk)) = 0
    BY <2>1, <2>2 DEF WholeLines
  <2>4. LinesInv
    BY <2>1, <2>2, <2>3 DEF LinesInv, AllEnd, Done, Atomic!Written
  <2>5. Pending = {} /\ refused = {} /\ returned = {}
    BY DEF Init, Pending, Idle
  <2> QED
    BY <2>3, <2>4, <2>5 DEF Atomic!AInit
<1>2. LogInv /\ LogInv' /\ LinesInv /\ [Next]_vars => LinesInv' /\ [Atomic!ANext]_(Atomic!avars)
  <2> SUFFICES ASSUME LogInv, LogInv', LinesInv, [Next]_vars
               PROVE  LinesInv' /\ [Atomic!ANext]_(Atomic!avars)
    OBVIOUS
  <2>1. CASE UNCHANGED vars
    <3>1. UNCHANGED <<tpc, calls, disk, refused, returned>>
      BY <2>1 DEF vars, threads, file
    <3>2. Pending' = Pending
      BY <3>1 DEF Pending, Entry
    <3> QED
      BY <3>1, <3>2, LinesSame DEF Atomic!avars
  <2>2. CASE Next
    BY <2>2, CallIsAbstract, QuietIsAbstract, FlushIsAbstract, FailIsAbstract, UnlockIsAbstract,
       OpenIsAbstract DEF Next, Write
  <2> QED
    BY <2>1, <2>2
<1> QED
  BY <1>1, <1>2, LogCorrect, PTL DEF Spec, ImplementsAtomicLog, Atomic!ASpec
=============================================================================
