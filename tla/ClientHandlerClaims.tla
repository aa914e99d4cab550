------------------------ MODULE ClientHandlerClaims -------------------------
(***************************************************************************)
(* What the repository's documents say of one connection, and what TLC     *)
(* finds violated by what the code does.                                   *)
(***************************************************************************)
EXTENDS ClientHandler

\* A connection stays open "unless either party sends the header
\* Connection: close" (report/report.md line 69).  But the 500 of
\* send_file_response and send_directory_response announces close and leaves
\* keep_going set: the worker goes on to read and answer on the connection.
CloseIsLast == \A k \in 1 .. Len(wire) - 1 : ~wire[k].close
=============================================================================
