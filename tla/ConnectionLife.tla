--------------------------- MODULE ConnectionLife ---------------------------
(***************************************************************************)
(* What the server promises a connection: it is accepted and then queued,  *)
(* refused because the queue is full, or dropped because the server stops; *)
(* queued connections are served in their order, each by one worker, no    *)
(* more at once than there are workers, and each is closed once.           *)
(***************************************************************************)
EXTENDS Naturals, Sequences, FiniteSets

CONSTANTS Fd, Capacity, Workers

VARIABLES life,      \* life[f]: what has become of f
          line,      \* the queued connections, oldest first
          stopping   \* the server no longer queues

lifevars == <<life, line, stopping>>

LifeInit ==
  /\ life = [f \in Fd |-> "absent"]
  /\ line = <<>>
  /\ stopping = FALSE

\* One connection goes on to another state.
Goes(f, from, to) == life[f] = from /\ life' = [life EXCEPT ![f] = to]

Arrive(f) == Goes(f, "absent", "waiting") /\ UNCHANGED <<line, stopping>>

\* Only one is with the main thread at a time.
Accept(f) ==
  /\ \A g \in Fd : life[g] \notin {"accepted", "refused", "dropped"}
  /\ Goes(f, "waiting", "accepted")
  /\ UNCHANGED <<line, stopping>>

Queue(f) ==
  /\ ~stopping /\ Len(line) < Capacity
  /\ Goes(f, "accepted", "queued")
  /\ line' = Append(line, f)
  /\ UNCHANGED stopping

Refuse(f) ==
  /\ ~stopping /\ Len(line) = Capacity
  /\ Goes(f, "accepted", "refused")
  /\ UNCHANGED <<line, stopping>>

Drop(f) ==
  /\ stopping
  /\ Goes(f, "accepted", "dropped")
  /\ UNCHANGED <<line, stopping>>

\* Also while the server stops: what is queued is served.
Serve(f) ==
  /\ line # <<>> /\ f = Head(line)
  /\ Cardinality({g \in Fd : life[g] = "served"}) < Cardinality(Workers)
  /\ Goes(f, "queued", "served")
  /\ line' = Tail(line)
  /\ UNCHANGED stopping

Close(f) ==
  /\ \E from \in {"served", "refused", "dropped"} : Goes(f, from, "closed")
  /\ UNCHANGED <<line, stopping>>

Stop == stopping' = TRUE /\ UNCHANGED <<life, line>>

LifeNext ==
  \/ Stop
  \/ \E f \in Fd : \/ Arrive(f) \/ Accept(f) \/ Queue(f) \/ Refuse(f) \/ Drop(f)
                   \/ Serve(f) \/ Close(f)

LifeSpec == LifeInit /\ [][LifeNext]_lifevars
=============================================================================
