----------------------------- MODULE AtomicLog ------------------------------
(***************************************************************************)
(* What the access log promises its callers: each call appends its line in *)
(* one step between call and return, lines are never changed or removed,   *)
(* and what has returned survives a crash.  The disk may refuse a line,    *)
(* and then that line, and no other, is missing.                           *)
(***************************************************************************)
EXTENDS Naturals, Sequences

CONSTANTS Threads, MaxCalls

Entry == Threads \X (1 .. MaxCalls)

VARIABLES lines,      \* the whole lines of the file
          pending,    \* calls whose line is not written yet
          refused,    \* lines the disk refused
          returned    \* calls that have returned

avars == <<lines, pending, refused, returned>>

AInit == lines = <<>> /\ pending = {} /\ refused = {} /\ returned = {}

Written == {lines[i] : i \in 1 .. Len(lines)}

Call(e) ==
  /\ e \notin pending \cup refused \cup Written
  /\ pending' = pending \cup {e}
  /\ UNCHANGED <<lines, refused, returned>>

Write(e) ==
  /\ e \in pending
  /\ pending' = pending \ {e}
  /\ lines' = Append(lines, e)
  /\ UNCHANGED <<refused, returned>>

Refuse(e) ==
  /\ e \in pending
  /\ pending' = pending \ {e}
  /\ refused' = refused \cup {e}
  /\ UNCHANGED <<lines, returned>>

Return(e) ==
  /\ e \in (Written \cup refused) \ returned
  /\ returned' = returned \cup {e}
  /\ UNCHANGED <<lines, pending, refused>>

\* A crash takes the calls that are under way and nothing else.
Crash ==
  /\ pending' = {}
  /\ UNCHANGED <<lines, refused, returned>>

ANext == Crash \/ \E e \in Entry : Call(e) \/ Write(e) \/ Refuse(e) \/ Return(e)

ASpec == AInit /\ [][ANext]_avars
=============================================================================
