---------------------------- MODULE BoundedFifo ----------------------------
(***************************************************************************)
(* What the socket queue of thread_pool.c promises its callers: an atomic, *)
(* bounded, closable FIFO.  A call is pending between Invoke and the one   *)
(* step at which it takes effect and returns; put never waits, take waits  *)
(* for an item or for the queue to be closed and empty.                    *)
(***************************************************************************)
EXTENDS Naturals, Sequences

CONSTANTS Callers,   \* the threads (and signal frames) that call the queue
          Capacity,  \* the most connections the queue holds
          Fd,        \* client sockets
          NoFd       \* no socket (-1)

VARIABLES fifo,      \* the queued sockets, oldest first
          closed,    \* whether close has taken effect
          op,        \* op[c]: the call c has pending
          slot,      \* slot[c]: the socket c puts, or the last one it took
          ret        \* ret[c]: what c's last call returned

vars == <<fifo, closed, op, slot, ret>>

Init ==
  /\ fifo = <<>>
  /\ closed = FALSE
  /\ op = [c \in Callers |-> "none"]
  /\ slot = [c \in Callers |-> NoFd]
  /\ ret = [c \in Callers |-> "none"]

\* Caller c starts a call.
Invoke(c) ==
  /\ op[c] = "none"
  /\ \/ /\ op' = [op EXCEPT ![c] = "put"]
        /\ \E f \in Fd : slot' = [slot EXCEPT ![c] = f]
     \/ /\ \E o \in {"take", "close"} : op' = [op EXCEPT ![c] = o]
        /\ UNCHANGED slot
  /\ ret' = [ret EXCEPT ![c] = "none"]
  /\ UNCHANGED <<fifo, closed>>

Return(c, r) ==
  /\ op' = [op EXCEPT ![c] = "none"]
  /\ ret' = [ret EXCEPT ![c] = r]

\* put: refused once closed, refused when full, appended otherwise.
Put(c) ==
  /\ op[c] = "put"
  /\ \/ closed /\ Return(c, "CLOSED") /\ UNCHANGED fifo
     \/ ~closed /\ Len(fifo) = Capacity /\ Return(c, "FULL") /\ UNCHANGED fifo
     \/ /\ ~closed /\ Len(fifo) < Capacity
        /\ fifo' = Append(fifo, slot[c])
        /\ Return(c, "OK")
  /\ UNCHANGED <<closed, slot>>

\* take: the oldest socket, also after close; CLOSED only when none is left.
Take(c) ==
  /\ op[c] = "take"
  /\ \/ /\ fifo # <<>>
        /\ slot' = [slot EXCEPT ![c] = Head(fifo)]
        /\ fifo' = Tail(fifo)
        /\ Return(c, "OK")
     \/ /\ fifo = <<>> /\ closed
        /\ Return(c, "CLOSED")
        /\ UNCHANGED <<fifo, slot>>
  /\ UNCHANGED closed

Close(c) ==
  /\ op[c] = "close"
  /\ closed' = TRUE
  /\ Return(c, "OK")
  /\ UNCHANGED <<fifo, slot>>

Next == \E c \in Callers : Invoke(c) \/ Put(c) \/ Take(c) \/ Close(c)

Spec == Init /\ [][Next]_vars
=============================================================================
