------------------------------- MODULE Server -------------------------------
(***************************************************************************)
(* The server's life: main.c, the accept loop, start-up, stop and          *)
(* tear-down of server.c, the thread pool of thread_pool.c, and the signal *)
(* handler that stops it, around the socket queue of SocketQueue.          *)
(*                                                                         *)
(* A caller of the queue is the main thread, a worker or a signal frame: a *)
(* handler runs on top of the context it interrupted, which does not run   *)
(* before the handler returns.  What a worker does with a connection is    *)
(* kept as far as it decides when the connection ends: read, respond, log, *)
(* close.                                                                  *)
(*                                                                         *)
(* A definition that no specification uses, in front of one of the same    *)
(* shape (EnqueueReturnsLeaky, JoinNone, ...), is a deliberate bug: it     *)
(* shows that some property notices.                                       *)
(***************************************************************************)
EXTENDS SocketQueue

CONSTANTS Main,        \* the main thread
          Workers,     \* config.thread_count threads
          Sigs,        \* the signals with a handler: SIGINT, SIGTERM
          SigTargets   \* the threads the kernel may deliver them to

ASSUME ServerAssumption ==
  /\ Callers = {Main} \cup Workers \cup Sigs
  /\ Workers # {}
  /\ Main \notin Workers \cup Sigs
  /\ Workers \cap Sigs = {}
  /\ SigTargets \subseteq {Main} \cup Workers

VARIABLES
  mpc,          \* where the main thread is
  wpc,          \* wpc[w]: where worker w is
  keep,         \* keep[w]: keep_going of w's handle_client
  hpc,          \* hpc[s]: where the handler of signal s is
  host,         \* host[s]: the context s interrupted, NoCaller if none
  should_stop, listen_fd, queue, access_log,   \* server_t; listen_fd: >= 0
  lsock,        \* the listening socket in the kernel
  conn,         \* conn[f]: the connection behind f
  left,         \* left[f]: the peer has closed, nothing of it is unread
  answered,     \* answered[f]: some response was sent on f
  proc          \* the process

server == <<should_stop, listen_fd, queue, access_log, lsock>>
net == <<conn, left, answered>>
vars == <<qvars, mpc, wpc, keep, hpc, host, server, net, proc>>

Starting == {"init_queue", "init_log", "init_listen", "install"}

Init ==
  /\ QInit
  /\ mpc = "init_queue"
  /\ wpc = [w \in Workers |-> "unborn"]
  /\ keep = [w \in Workers |-> TRUE]
  /\ hpc = [s \in Sigs |-> "unsent"]
  /\ host = [s \in Sigs |-> NoCaller]
  /\ should_stop = FALSE /\ listen_fd = FALSE
  /\ queue = "null" /\ access_log = "null"
  /\ lsock = "none"
  /\ conn = [f \in Fd |-> "absent"]
  /\ left = [f \in Fd |-> FALSE]
  /\ answered = [f \in Fd |-> FALSE]
  /\ proc = "running"

Alive(x) ==
  \/ x = Main
  \/ x \in Workers /\ wpc[x] \notin {"unborn", "dead"}
  \/ x \in Sigs /\ host[x] # NoCaller

\* x can take a step: no handler runs on top of it.
Running(x) ==
  /\ proc = "running"
  /\ Alive(x)
  /\ \A s \in Sigs : host[s] # x
-----------------------------------------------------------------------------
(* server_init and the installation of the handlers                        *)

MainAt(point) == mpc = point /\ Running(Main)

\* Main goes on, and nothing else changes.
MainGoto(from, to) ==
  /\ MainAt(from)
  /\ mpc' = to
  /\ UNCHANGED <<qvars, wpc, keep, hpc, host, server, net, proc>>

Exit == mpc' = "done" /\ proc' = "exited"

InitQueue ==
  /\ MainAt("init_queue")
  /\ \/ queue' = "live" /\ mpc' = "init_log" /\ UNCHANGED proc
     \/ Exit /\ UNCHANGED queue
  /\ UNCHANGED <<qvars, wpc, keep, hpc, host, should_stop, listen_fd, access_log,
                 lsock, net>>

InitLog ==
  /\ MainAt("init_log")
  /\ \/ access_log' = "open" /\ mpc' = "init_listen" /\ UNCHANGED <<queue, proc>>
     \/ queue' = "null" /\ Exit /\ UNCHANGED access_log
  /\ UNCHANGED <<qvars, wpc, keep, hpc, host, should_stop, listen_fd, lsock, net>>

InitListen ==
  /\ MainAt("init_listen")
  /\ \/ /\ listen_fd' = TRUE /\ lsock' = "listening" /\ mpc' = "install"
        /\ UNCHANGED <<queue, access_log, proc>>
     \/ /\ access_log' = "null" /\ queue' = "null" /\ Exit
        /\ UNCHANGED <<listen_fd, lsock>>
  /\ UNCHANGED <<qvars, wpc, keep, hpc, host, should_stop, net>>

\* active_server and the two signal() calls: a signal among them is killing
\* as before or handled as after.
InstallHandlers == MainGoto("install", "start")
-----------------------------------------------------------------------------
(* thread_pool_start                                                       *)

Unborn == {w \in Workers : wpc[w] = "unborn"}

\* A new thread goes straight to its first dequeue.
SpawnWorker ==
  /\ MainAt("start")
  /\ \E w \in Unborn : CallDequeue(w) /\ wpc' = [wpc EXCEPT ![w] = "dequeue"]
  /\ UNCHANGED <<mpc, keep, hpc, host, server, net, proc>>

SpawnDone == Unborn = {} /\ MainGoto("start", "loop")

\* calloc of the thread table fails: server_run returns at once.
NoThreadTable == Unborn = Workers /\ MainGoto("start", "destroy")

\* malloc or pthread_create fails: thread_pool_stop ends the threads there
\* are, then server_run returns.
SpawnFailsNoStop == Unborn # {} /\ MainGoto("start", "destroy")

SpawnFails ==
  /\ MainAt("start")
  /\ Unborn # {}
  /\ CallShutdown(Main)
  /\ mpc' = "stop"
  /\ UNCHANGED <<wpc, keep, hpc, host, server, net, proc>>
-----------------------------------------------------------------------------
(* The accept loop of server_run, on the main thread                       *)

\* From the loop's test, or from a failed accept: stop when asked to.
StopOr(next) ==
  \/ should_stop /\ CallShutdown(Main) /\ mpc' = "stop"
  \/ ~should_stop /\ mpc' = next /\ UNCHANGED qvars

LoopTest ==
  /\ MainAt("loop")
  /\ StopOr("accept")
  /\ UNCHANGED <<wpc, keep, hpc, host, server, net, proc>>

\* accept(listen_fd): -1 or a closed descriptor fails at once.
CallAccept ==
  MainGoto("accept", IF listen_fd /\ lsock = "listening" THEN "blocked" ELSE "failed")

\* accept returns a connection, and main calls socket_queue_enqueue.
AcceptReturns ==
  /\ MainAt("blocked")
  /\ \E f \in Fd :
       /\ conn[f] = "backlog"
       /\ conn' = [conn EXCEPT ![f] = "open"]
       /\ CallEnqueue(Main, f)
  /\ mpc' = "enqueue"
  /\ UNCHANGED <<wpc, keep, hpc, host, server, left, answered, proc>>

\* accept fails for a reason of its own (ECONNABORTED, EMFILE, ...).
AcceptFails == MainGoto("blocked", "failed")

HandleFailure ==
  /\ MainAt("failed")
  /\ StopOr("loop")
  /\ UNCHANGED <<wpc, keep, hpc, host, server, net, proc>>

Close(f) == conn' = [conn EXCEPT ![f] = "closed"]

EnqueueReturnsLeaky ==
  qpc[Main] = "idle" /\ MainGoto("enqueue", IF ret[Main] = "FULL" THEN "reject" ELSE "loop")

EnqueueReturnsSilent ==
  /\ MainAt("enqueue")
  /\ qpc[Main] = "idle"
  /\ mpc' = "loop"
  /\ IF ret[Main] = "OK" THEN UNCHANGED conn ELSE Close(slot[Main])
  /\ UNCHANGED <<qvars, wpc, keep, hpc, host, server, left, answered, proc>>

EnqueueReturns ==
  /\ MainAt("enqueue")
  /\ qpc[Main] = "idle"
  /\ mpc' = IF ret[Main] = "FULL" THEN "reject" ELSE "loop"
  /\ IF ret[Main] = "CLOSED" THEN Close(slot[Main]) ELSE UNCHANGED conn
  /\ UNCHANGED <<qvars, wpc, keep, hpc, host, server, left, answered, proc>>

\* What send can do: it is sent, or, once the peer has closed, it may fail
\* with EPIPE after SIGPIPE, whose default action ends the process, or fail
\* with ECONNRESET.
SendOutcomes(f) == {"sent"} \cup IF left[f] THEN {"failed", "sigpipe"} ELSE {}

Sent(f, o) ==
  /\ answered' = [answered EXCEPT ![f] = @ \/ o = "sent"]
  /\ proc' = IF o = "sigpipe" THEN "sigpipe" ELSE proc

\* send_simple_response(503), whatever it returns.
Reject ==
  /\ MainAt("reject")
  /\ \E o \in SendOutcomes(slot[Main]) : Sent(slot[Main], o)
  /\ mpc' = "reject_log"
  /\ UNCHANGED <<qvars, wpc, keep, hpc, host, server, conn, left>>

\* access_log_write and close.
RejectClose ==
  /\ MainAt("reject_log")
  /\ Close(slot[Main])
  /\ mpc' = "loop"
  /\ UNCHANGED <<qvars, wpc, keep, hpc, host, server, left, answered, proc>>
-----------------------------------------------------------------------------
(* thread_pool_stop and server_destroy, on the main thread                 *)

StopReturns == qpc[Main] = "idle" /\ MainGoto("stop", "join")

JoinNone == MainGoto("join", "destroy")

JoinWorkers ==
  (\A w \in Workers : wpc[w] \in {"unborn", "dead"}) /\ MainGoto("join", "destroy")

\* close(listen_fd) and listen_fd = -1, unless the handler has done it.
CloseListener ==
  /\ lsock' = IF listen_fd THEN "closed" ELSE lsock
  /\ listen_fd' = FALSE

DestroyListen ==
  /\ MainAt("destroy")
  /\ CloseListener
  /\ mpc' = "destroy_log"
  /\ UNCHANGED <<qvars, wpc, keep, hpc, host, should_stop, queue, access_log, net, proc>>

DestroyLog ==
  /\ MainAt("destroy_log")
  /\ access_log' = "null"
  /\ mpc' = "destroy_queue"
  /\ UNCHANGED <<qvars, wpc, keep, hpc, host, should_stop, listen_fd, queue, lsock, net,
                 proc>>

\* socket_queue_destroy frees the queue; server->queue still points to it.
DestroyQueue ==
  /\ MainAt("destroy_queue")
  /\ queue' = "freed"
  /\ mpc' = "destroy_null"
  /\ UNCHANGED <<qvars, wpc, keep, hpc, host, should_stop, listen_fd, access_log, lsock,
                 net, proc>>

\* server->queue = NULL, and main returns.
DestroyNull ==
  /\ MainAt("destroy_null")
  /\ queue' = "null"
  /\ Exit
  /\ UNCHANGED <<qvars, wpc, keep, hpc, host, should_stop, listen_fd, access_log, lsock,
                 net>>
-----------------------------------------------------------------------------
(* worker_main and handle_client, on worker w                              *)

WorkerAt(w, point) == wpc[w] = point /\ Running(w)

Goto(w, point) == wpc' = [wpc EXCEPT ![w] = point]

\* Worker w goes on with keep_going = k, and nothing else changes.
WorkerGoto(w, from, to, k) ==
  /\ WorkerAt(w, from)
  /\ Goto(w, to)
  /\ keep' = [keep EXCEPT ![w] = k]
  /\ UNCHANGED <<qvars, mpc, hpc, host, server, net, proc>>

\* socket_queue_dequeue returns: serve the socket, or end the thread.
DequeueReturns(w) ==
  /\ qpc[w] = "idle"
  /\ WorkerGoto(w, "dequeue", IF ret[w] = "OK" THEN "read" ELSE "dead", TRUE)

\* read_next_request returns 1: a request of a peer that is still there.
ReadRequest(w) ==
  \E k \in BOOLEAN : WorkerGoto(w, "read", "respond", k) /\ ~left[slot[w]]

\* read_next_request returns 0: the peer has closed between two requests.
ReadEof(w) == WorkerGoto(w, "read", "close", keep[w]) /\ left[slot[w]]

\* read_next_request returns -1: a request it cannot parse, one that is too
\* long, or one the peer did not finish.
ReadBad(w) == WorkerGoto(w, "read", "respond_bad", keep[w])

\* The response to a request; when it cannot be sent, or its file cannot be
\* read to the end, the loop is left without a log entry.
Respond(w) ==
  /\ WorkerAt(w, "respond")
  /\ \E o \in SendOutcomes(slot[w]) :
       Sent(slot[w], o) /\ \E p \in {"close"} \cup (IF o = "sent" THEN {"log"} ELSE {}) : Goto(w, p)
  /\ UNCHANGED <<qvars, mpc, keep, hpc, host, server, conn, left>>

\* The 400 response is logged whether it was sent or not, and is the last.
RespondBad(w) ==
  /\ WorkerAt(w, "respond_bad")
  /\ \E o \in SendOutcomes(slot[w]) : Sent(slot[w], o)
  /\ Goto(w, "log")
  /\ keep' = [keep EXCEPT ![w] = FALSE]
  /\ UNCHANGED <<qvars, mpc, hpc, host, server, conn, left>>

LogAccess(w) == WorkerGoto(w, "log", IF keep[w] THEN "read" ELSE "close", keep[w])

\* close, and worker_main calls socket_queue_dequeue again.
CloseClientLeaky(w) ==
  /\ WorkerAt(w, "close")
  /\ CallDequeue(w)
  /\ Goto(w, "dequeue")
  /\ UNCHANGED <<mpc, keep, hpc, host, server, net, proc>>

CloseClient(w) ==
  /\ WorkerAt(w, "close")
  /\ Close(slot[w])
  /\ CallDequeue(w)
  /\ Goto(w, "dequeue")
  /\ UNCHANGED <<mpc, keep, hpc, host, server, left, answered, proc>>
-----------------------------------------------------------------------------
(* The signals and handle_signal, which calls server_stop                  *)

\* signal() of a -std=c11 build gives System V semantics: no SA_RESTART, so
\* a signal on the main thread ends a blocked accept with EINTR, and the
\* handler is good for one delivery.
Interrupt(s, x) ==
  /\ hpc[s] = "unsent"
  /\ mpc \notin Starting
  /\ x \in SigTargets \cup Sigs
  /\ Running(x)
  /\ hpc' = [hpc EXCEPT ![s] = "flag"]
  /\ host' = [host EXCEPT ![s] = x]

Deliver(s, x) ==
  /\ Interrupt(s, x)
  /\ mpc' = IF x = Main /\ mpc = "blocked" THEN "loop" ELSE mpc
  /\ UNCHANGED <<qvars, wpc, keep, server, net, proc>>

\* Before the handlers are installed, and on a second delivery, the default
\* action ends the process.
Kill(s) ==
  /\ proc = "running"
  /\ mpc \in Starting \/ hpc[s] # "unsent"
  /\ proc' = "killed"
  /\ UNCHANGED <<qvars, mpc, wpc, keep, hpc, host, server, net>>

HandlerAt(s, point) == hpc[s] = point /\ Running(s)

HandlerFlag(s) ==
  /\ HandlerAt(s, "flag")
  /\ should_stop' = TRUE
  /\ hpc' = [hpc EXCEPT ![s] = "listen"]
  /\ UNCHANGED <<qvars, mpc, wpc, keep, host, listen_fd, queue, access_log, lsock, net,
                 proc>>

HandlerListenOpen(s) ==
  /\ HandlerAt(s, "listen")
  /\ hpc' = [hpc EXCEPT ![s] = "queue"]
  /\ UNCHANGED <<qvars, mpc, wpc, keep, host, server, net, proc>>

HandlerListen(s) ==
  /\ HandlerAt(s, "listen")
  /\ CloseListener
  /\ hpc' = [hpc EXCEPT ![s] = "queue"]
  /\ UNCHANGED <<qvars, mpc, wpc, keep, host, should_stop, queue, access_log, net, proc>>

\* socket_queue_shutdown(server->queue), which returns at once for NULL.
HandlerQueue(s) ==
  /\ HandlerAt(s, "queue")
  /\ IF queue = "null" THEN UNCHANGED qvars ELSE CallShutdown(s)
  /\ hpc' = [hpc EXCEPT ![s] = "shutdown"]
  /\ UNCHANGED <<mpc, wpc, keep, host, server, net, proc>>

HandlerReturns(s) ==
  /\ HandlerAt(s, "shutdown")
  /\ qpc[s] = "idle"
  /\ hpc' = [hpc EXCEPT ![s] = "done"]
  /\ host' = [host EXCEPT ![s] = NoCaller]
  /\ UNCHANGED <<qvars, mpc, wpc, keep, server, net, proc>>
-----------------------------------------------------------------------------
(* The peers                                                               *)

\* A listener closed under a blocked accept lives on until accept returns.
Connect(f) ==
  /\ proc = "running"
  /\ lsock = "listening" \/ (lsock = "closed" /\ mpc = "blocked")
  /\ conn[f] = "absent"
  /\ conn' = [conn EXCEPT ![f] = "backlog"]
  /\ UNCHANGED <<qvars, mpc, wpc, keep, hpc, host, server, left, answered, proc>>

PeerCloses(f) ==
  /\ proc = "running"
  /\ conn[f] \in {"backlog", "open"}
  /\ ~left[f]
  /\ left' = [left EXCEPT ![f] = TRUE]
  /\ UNCHANGED <<qvars, mpc, wpc, keep, hpc, host, server, conn, answered, proc>>
-----------------------------------------------------------------------------
\* What the main thread does by itself; nothing makes accept fail.
MainOwn ==
  \/ InitQueue \/ InitLog \/ InitListen \/ InstallHandlers
  \/ SpawnWorker \/ SpawnDone \/ NoThreadTable \/ SpawnFails
  \/ LoopTest \/ CallAccept \/ AcceptReturns \/ HandleFailure
  \/ EnqueueReturns \/ Reject \/ RejectClose
  \/ StopReturns \/ JoinWorkers
  \/ DestroyListen \/ DestroyLog \/ DestroyQueue \/ DestroyNull

MainNext == MainOwn \/ AcceptFails

WorkerNext(w) ==
  \/ DequeueReturns(w)
  \/ ReadRequest(w) \/ ReadEof(w) \/ ReadBad(w)
  \/ Respond(w) \/ RespondBad(w) \/ LogAccess(w) \/ CloseClient(w)

HandlerNext(s) ==
  \/ HandlerFlag(s) \/ HandlerListen(s) \/ HandlerQueue(s) \/ HandlerReturns(s)

\* The queue's own steps, of a caller no handler has interrupted.
InQueue(c, A) == Running(c) /\ A /\ UNCHANGED <<mpc, wpc, keep, hpc, host, server, net, proc>>

QueueNext(c) ==
  \/ InQueue(c, Lock(c)) \/ InQueue(c, Work(c)) \/ InQueue(c, SpuriousWakeup(c))

Environment ==
  \/ \E s \in Sigs : Kill(s) \/ \E x \in SigTargets \cup Sigs : Deliver(s, x)
  \/ \E f \in Fd : Connect(f) \/ PeerCloses(f)

Next ==
  \/ MainNext
  \/ \E w \in Workers : WorkerNext(w)
  \/ \E s \in Sigs : HandlerNext(s)
  \/ \E c \in Callers : QueueNext(c)
  \/ Environment

Spec == Init /\ [][Next]_vars

\* What a worker does by itself: recv and send may wait for the peer as long
\* as it is there.
WorkerOwn(w) ==
  \/ DequeueReturns(w) \/ ReadEof(w) \/ LogAccess(w) \/ CloseClient(w)
  \/ (Respond(w) \/ RespondBad(w)) /\ left[slot[w]]

\* Every thread runs on, and pthread_mutex_lock does not pass a caller over
\* for ever.  accept returns when there is a connection.
Fairness ==
  /\ WF_vars(MainOwn)
  /\ \A w \in Workers : WF_vars(WorkerOwn(w))
  /\ \A s \in Sigs : WF_vars(HandlerNext(s))
  /\ \A c \in Callers : WF_vars(InQueue(c, Work(c))) /\ SF_vars(InQueue(c, Lock(c)))

FairSpec == Spec /\ Fairness

\* The same when no peer stays for ever.
PeersLeave == \A f \in Fd : WF_vars(PeerCloses(f))

FairSpecPeersLeave == FairSpec /\ PeersLeave
-----------------------------------------------------------------------------
(* Correctness                                                             *)

MainPoints == Starting \cup
  {"start", "loop", "accept", "blocked", "failed", "enqueue", "reject", "reject_log",
   "stop", "join", "destroy", "destroy_log", "destroy_queue", "destroy_null", "done"}
WorkerPoints ==
  {"unborn", "dequeue", "read", "respond", "respond_bad", "log", "close", "dead"}
HandlerPoints == {"unsent", "flag", "listen", "queue", "shutdown", "done"}

\* Every variable of the server has its type, the queue's included.
TypeOK ==
  /\ QTypeOK
  /\ mpc \in MainPoints
  /\ wpc \in [Workers -> WorkerPoints]
  /\ keep \in [Workers -> BOOLEAN]
  /\ hpc \in [Sigs -> HandlerPoints]
  /\ host \in [Sigs -> Callers \cup {NoCaller}]
  /\ should_stop \in BOOLEAN /\ listen_fd \in BOOLEAN
  /\ queue \in {"null", "live", "freed"}
  /\ access_log \in {"null", "open"}
  /\ lsock \in {"none", "listening", "closed"}
  /\ conn \in [Fd -> {"absent", "backlog", "open", "closed"}]
  /\ left \in [Fd -> BOOLEAN] /\ answered \in [Fd -> BOOLEAN]
  /\ proc \in {"running", "exited", "killed", "sigpipe"}

\* The contexts that hold a socket in a local variable and owe it a close.
MainHolds ==
  \/ mpc = "enqueue" /\ ~(qpc[Main] = "idle" /\ ret[Main] = "OK")
  \/ mpc \in {"reject", "reject_log"}
WorkerHolds(w) ==
  \/ wpc[w] = "dequeue" /\ qpc[w] = "idle" /\ ret[w] = "OK"
  \/ wpc[w] \in {"read", "respond", "respond_bad", "log", "close"}

Owners(f) ==
  {c \in {Main} : MainHolds /\ slot[c] = f}
  \cup {w \in Workers : WorkerHolds(w) /\ slot[w] = f}
  \cup {i \in 0 .. count - 1 : items[(head + i) % Capacity] = f}

\* An accepted socket is, until it is closed, in exactly one place: with the
\* main thread, in one slot of the queue, or with one worker.  So none is
\* leaked, served twice, or used after its close, on any path through the
\* queue, the 503 answer and the shutdown.
Ownership ==
  \A f \in Fd : IF conn[f] = "open" THEN \E o \in Owners(f) : Owners(f) = {o}
                                    ELSE Owners(f) = {}

\* When main has returned, normally or after a failed start, nothing is left
\* behind: every accepted socket is closed, no worker is alive, and the
\* listener, the log and the queue are released.
CleanExit ==
  proc = "exited" =>
    /\ \A f \in Fd : conn[f] # "open"
    /\ \A w \in Workers : wpc[w] \in {"unborn", "dead"}
    /\ lsock # "listening" /\ access_log = "null" /\ queue = "null"

\* An accepted socket is closed without an answer only when its peer has
\* gone or the queue has been shut down: overload always gets its 503.
NoSilentDrop ==
  \A f \in Fd : conn[f] = "closed" /\ ~answered[f] => left[f] \/ shutdown

\* No thread is inside the queue or about to write the log once either has
\* been released.
NoUseAfterRelease ==
  proc = "running" =>
    /\ (\E c \in {Main} \cup Workers : qpc[c] # "idle") => queue = "live"
    /\ (mpc = "reject_log" \/ \E w \in Workers : wpc[w] = "log") => access_log = "open"

\* What has become of a connection, from who holds it.
Life(f) ==
  IF conn[f] = "open"
  THEN CASE \E i \in 0 .. count - 1 : items[(head + i) % Capacity] = f -> "queued"
         [] \E w \in Workers : WorkerHolds(w) /\ slot[w] = f -> "served"
         [] OTHER -> IF mpc = "enqueue" /\ qpc[Main] # "idle" THEN "accepted"
                     ELSE IF ret[Main] = "CLOSED" THEN "dropped" ELSE "refused"
  ELSE IF conn[f] = "backlog" THEN "waiting" ELSE conn[f]

LifeOf == [f \in Fd |-> Life(f)]

Lives == INSTANCE ConnectionLife WITH life <- LifeOf, line <- Contents, stopping <- shutdown

\* Accept loop, queue, workers and shutdown together give every connection
\* the life of ConnectionLife: 503 only when the queue is full, a close
\* without an answer only while stopping, everything queued served once and
\* in order, also after the shutdown.
ImplementsLife == Lives!LifeSpec

\* A handler waits for the mutex of the very context it interrupted, or of
\* one beneath it: neither will ever run again.
Beneath(s) == {host[s]} \cup UNION {{host[t]} : t \in {t \in Sigs : host[s] = t}}

SelfDeadlock ==
  \E s \in Sigs : qpc[s] = "shut_lock" /\ mutex # NoCaller /\ mutex \in Beneath(s)

Ended == proc # "running" \/ SelfDeadlock

\* Once asked to stop, the server ends: accept is interrupted, or fails if it
\* is called after the signal, the queue is drained and every worker joined.
StopEnds == should_stop ~> Ended

\* Every accepted connection is closed in the end, whoever holds it when the
\* server is stopped.
ConnectionEnds == \A f \in Fd : (conn[f] = "open") ~> (conn[f] = "closed" \/ Ended)
=============================================================================
