----------------------------- MODULE AccessLog ------------------------------
(***************************************************************************)
(* log.c: the access log that the workers and the main thread write to, on *)
(* a stdio stream and a mutex, in a process that may be killed at any time *)
(* and started again on the same file.  A line is an entry <<thread, n>>;  *)
(* it reaches the disk in two parts, so that it can be cut.  The time that *)
(* is printed is left out: no property is about it.                        *)
(*                                                                         *)
(* An operator that nothing uses, in front of the one it is a variant of,  *)
(* is a deliberate bug that some property notices.                         *)
(***************************************************************************)
EXTENDS Naturals, Sequences, FiniteSets

CONSTANTS Threads,
          NoThread,
          MaxCalls,    \* bound: lines a thread writes
          MaxFaults    \* bound: kills and refused writes

ASSUME LogAssumption == NoThread \notin Threads /\ MaxCalls \in Nat /\ MaxFaults \in Nat

VARIABLES
  phase,      \* where access_log_open is; "ready" while the log is in use
  held,       \* what it has acquired: the struct, the stream, the mutex
  mutex,      \* log->mutex: its owner
  tpc,        \* tpc[t]: where t is in access_log_write
  calls,      \* calls[t]: how often t has called it
  buffer,     \* the parts in the stream's buffer
  disk,       \* the parts in the file
  faults,     \* kills and refused writes so far
  refused,    \* history: the lines the disk refused
  returned    \* history: the lines whose call has returned

threads == <<mutex, tpc, calls, buffer>>
file == <<disk, faults, refused, returned>>
vars == <<phase, held, threads, file>>

Entry(t) == <<t, calls[t]>>
Line(e) == <<<<e, 1>>, <<e, 2>>>>

Idle == [t \in Threads |-> "idle"]

Init ==
  /\ phase = "none" /\ held = {}
  /\ mutex = NoThread /\ tpc = Idle /\ calls = [t \in Threads |-> 0] /\ buffer = <<>>
  /\ disk = <<>> /\ faults = 0 /\ refused = {} /\ returned = {}
-----------------------------------------------------------------------------
(* access_log_open and access_log_close                                    *)

Allocate ==
  /\ phase = "none"
  /\ phase' = "allocated" /\ held' = {"struct"}
  /\ UNCHANGED <<threads, file>>

AppendModeTruncates(d) == <<>>
\* fopen(path, "a") keeps what the file holds.
AppendMode(d) == d

OpenFile ==
  /\ phase = "allocated"
  /\ phase' = "opened" /\ held' = held \cup {"file"}
  /\ disk' = AppendMode(disk)
  /\ UNCHANGED <<threads, faults, refused, returned>>

InitMutex ==
  /\ phase = "opened"
  /\ phase' = "ready" /\ held' = held \cup {"mutex"}
  /\ UNCHANGED <<threads, file>>

\* What the error path of each step releases.
Released == held \ (CASE phase = "opened" -> {"file", "struct"}
                      [] phase = "allocated" -> {"struct"}
                      [] OTHER -> {})

OpenFails ==
  /\ phase \in {"none", "allocated", "opened"}
  /\ phase' = "failed" /\ held' = Released
  /\ UNCHANGED <<threads, file>>

\* The workers are joined by then: module Server shows it.
access_log_close ==
  /\ phase = "ready" /\ tpc = Idle
  /\ phase' = "closed" /\ held' = {}
  /\ disk' = disk \o buffer /\ buffer' = <<>>
  /\ UNCHANGED <<mutex, tpc, calls, faults, refused, returned>>
-----------------------------------------------------------------------------
(* access_log_write                                                        *)

Goto(t, place) == tpc' = [tpc EXCEPT ![t] = place]

Call(t) ==
  /\ phase = "ready" /\ tpc[t] = "idle" /\ calls[t] < MaxCalls
  /\ calls' = [calls EXCEPT ![t] = @ + 1]
  /\ Goto(t, "called")
  /\ UNCHANGED <<phase, held, mutex, buffer, file>>

LockAnyway(t) ==
  /\ tpc[t] = "called"
  /\ mutex' = t
  /\ Goto(t, "locked")
  /\ UNCHANGED <<phase, held, calls, buffer, file>>
Lock(t) ==
  /\ tpc[t] = "called" /\ mutex = NoThread
  /\ mutex' = t
  /\ Goto(t, "locked")
  /\ UNCHANGED <<phase, held, calls, buffer, file>>

AfterPrintUnflushed == "flushed"
\* fflush follows fprintf.
AfterPrint == "printed"

\* A line is shorter than the stream's buffer.
Fprintf(t) ==
  /\ tpc[t] = "locked"
  /\ buffer' = buffer \o Line(Entry(t))
  /\ Goto(t, AfterPrint)
  /\ UNCHANGED <<phase, held, mutex, calls, file>>

\* fflush writes what the buffer holds, and returns when it is empty.
Flush(t) ==
  /\ tpc[t] = "printed" /\ buffer # <<>>
  /\ disk' = Append(disk, Head(buffer)) /\ buffer' = Tail(buffer)
  /\ UNCHANGED <<phase, held, mutex, tpc, calls, faults, refused, returned>>

FlushReturns(t) ==
  /\ tpc[t] = "printed" /\ buffer = <<>>
  /\ Goto(t, "flushed")
  /\ UNCHANGED <<phase, held, mutex, calls, buffer, file>>

\* The disk is full: the C library drops the rest, nobody looks at the result.
FlushFails(t) ==
  /\ tpc[t] = "printed" /\ buffer # <<>> /\ faults < MaxFaults
  /\ faults' = faults + 1
  /\ buffer' = <<>> /\ refused' = refused \cup {Entry(t)}
  /\ Goto(t, "flushed")
  /\ UNCHANGED <<phase, held, mutex, calls, disk, returned>>

UnlockForgotten(t) ==
  /\ tpc[t] = "flushed"
  /\ returned' = returned \cup {Entry(t)}
  /\ Goto(t, "idle")
  /\ UNCHANGED <<phase, held, mutex, calls, buffer, disk, faults, refused>>
Unlock(t) ==
  /\ tpc[t] = "flushed"
  /\ mutex' = NoThread
  /\ returned' = returned \cup {Entry(t)}
  /\ Goto(t, "idle")
  /\ UNCHANGED <<phase, held, calls, buffer, disk, faults, refused>>

\* SIGPIPE or a second signal ends the process, and it is started again.
Kill ==
  /\ phase = "ready" /\ faults < MaxFaults
  /\ faults' = faults + 1
  /\ phase' = "none" /\ held' = {}
  /\ mutex' = NoThread /\ tpc' = Idle /\ buffer' = <<>>
  /\ UNCHANGED <<calls, disk, refused, returned>>

Write(t) == Fprintf(t) \/ Flush(t) \/ FlushReturns(t) \/ FlushFails(t) \/ Unlock(t)

Next ==
  \/ Allocate \/ OpenFile \/ InitMutex \/ OpenFails \/ access_log_close \/ Kill
  \/ \E t \in Threads : Call(t) \/ Lock(t) \/ Write(t)

Spec == Init /\ [][Next]_vars

\* A thread inside the call goes on, and gets a mutex that is free again and
\* again.
FairSpec == Spec /\ \A t \in Threads : WF_vars(Write(t)) /\ SF_vars(Lock(t))
-----------------------------------------------------------------------------
(* Properties                                                              *)

(* The variables have their types.  The stream's buffer never holds more   *)
(* than one line, since the mutex keeps the next fprintf out until fflush  *)
(* is done; access_log_open acquires all three resources or none, and      *)
(* close gives all of them back, whichever step fails.                     *)
TypeOK ==
  /\ phase \in {"none", "allocated", "opened", "ready", "failed", "closed"}
  /\ held \subseteq {"struct", "file", "mutex"}
  /\ mutex \in Threads \cup {NoThread}
  /\ tpc \in [Threads -> {"idle", "called", "locked", "printed", "flushed"}]
  /\ calls \in [Threads -> 0 .. MaxCalls] /\ faults \in 0 .. MaxFaults
  /\ Len(buffer) <= 2
  /\ phase = "ready" => held = {"struct", "file", "mutex"}
  /\ phase \in {"failed", "closed"} => held = {}

(* The flush before the unlock: a line whose call has returned is in the   *)
(* file, whole and once, also after the process was killed and the file    *)
(* was opened again; only its own refused write can make it miss.          *)
ReturnedIsOnDisk ==
  \A e \in returned \ refused :
    \E i \in 1 .. Len(disk) - 1 :
      /\ SubSeq(disk, i, i + 1) = Line(e)
      /\ \A j \in 1 .. Len(disk) : disk[j][1] = e => j \in {i, i + 1}

\* How many of the first n parts of a file end a line, which of them ends the
\* k-th, and the lines that are whole.  A line that is written behind one a
\* kill has cut off is whole, although the file has no newline between them.
Ends(d, n) == Cardinality({i \in 1 .. n : d[i][2] = 2})
EndOf(d, k) == CHOOSE i \in 1 .. Len(d) : d[i][2] = 2 /\ Ends(d, i) = k
WholeLines(d) == [k \in 1 .. Ends(d, Len(d)) |-> d[EndOf(d, k)][1]]

Pending ==
  {e \in {Entry(t) : t \in {u \in Threads : tpc[u] # "idle"}} :
     e \notin refused /\ \A i \in 1 .. Len(disk) : disk[i] # <<e, 2>>}

Atomic == INSTANCE AtomicLog WITH lines <- WholeLines(disk), pending <- Pending

(* The log, with its mutex, buffer, flush, kills and restarts, implements  *)
(* the atomic log: each line is written between call and return, in one    *)
(* order, and stays.                                                       *)
ImplementsAtomicLog == Atomic!ASpec

(* Every access_log_write returns, however many threads want the mutex,    *)
(* unless the process is killed first.                                     *)
WriteReturns == \A t \in Threads : tpc[t] = "called" ~> tpc[t] = "idle"
=============================================================================
