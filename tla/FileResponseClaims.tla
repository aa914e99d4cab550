------------------------- MODULE FileResponseClaims -------------------------
(***************************************************************************)
(* What the repository's documents say of range requests, and what TLC     *)
(* finds violated by what the code does.                                   *)
(***************************************************************************)
EXTENDS FileResponse

\* In a 206 response the start and end of Content-Range are the inclusive
\* positions of the served bytes (report/report.md line 336).  But the
\* fields of one Range header survive into the next: after "bytes=-1" the
\* header "bytes=0-" is a suffix of length 0, and the response announces the
\* range from size to size - 1.
ContentRangeIsRange == head.status = 206 => head.start <= head.end /\ head.end < size
=============================================================================
