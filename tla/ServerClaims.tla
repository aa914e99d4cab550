---------------------------- MODULE ServerClaims ----------------------------
(***************************************************************************)
(* What the repository's documents say of stopping the server.  TLC finds  *)
(* each of these violated by what the code does.                           *)
(***************************************************************************)
EXTENDS Server

\* The handler cannot deadlock: docs/study-guide.md line 284, "No mutex ...
\* in the handler".  But server_stop calls socket_queue_shutdown, which locks
\* the queue's mutex: if the signal arrives while the interrupted thread is
\* inside a critical section of the queue, the handler waits for the frame
\* beneath it.
NoSelfDeadlock == ~SelfDeadlock

\* All threads eventually exit after the shutdown broadcast
\* (report/report.md line 244), so pthread_join always returns.  But a worker
\* in recv on a kept-alive connection is not woken: read_next_request has no
\* timeout and handle_client never looks at should_stop.
JoinReturns == (mpc = "join") ~> (mpc # "join" \/ Ended)
=============================================================================
