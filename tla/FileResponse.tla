---------------------------- MODULE FileResponse ----------------------------
(***************************************************************************)
(* One GET or HEAD of a regular file: the Range headers of the request     *)
(* (parse_range_header of http.c), the size that file_stat_path saw, and   *)
(* send_file_response of server.c, which resolves the range, announces a   *)
(* length and streams the file in chunks, while other processes rewrite    *)
(* the file and the peer may go away.                                      *)
(*                                                                         *)
(* A byte of the file is its offset.  A number in a header is the sequence *)
(* of its characters, a digit or NonDigit.  FitsSloppy, ReadUnbounded and  *)
(* the like, each in front of what it is a variant of, are deliberate bugs *)
(* that some property notices.                                             *)
(***************************************************************************)
EXTENDS Integers, Sequences, FiniteSetsExt

CONSTANTS SizeMax,     \* SIZE_MAX
          Chunk,       \* READ_BUFFER_SIZE, what one fread asks for
          Chars,       \* the characters of the numbers
          MaxToken,    \* bound: characters of a number
          MaxHeaders,  \* bound: Range headers of the request
          MaxChars,    \* bound: characters of all their numbers
          MaxFile      \* bound: size of the file

NonDigit == 10

ASSUME ResponseAssumption ==
  /\ Chars \subseteq 0 .. NonDigit
  /\ MaxToken \in Nat /\ MaxHeaders \in Nat /\ MaxChars \in Nat /\ MaxFile \in Nat
  /\ Chunk \in Nat \ {0}
  /\ SizeMax \in Nat /\ SizeMax >= 9 /\ SizeMax >= MaxFile

VARIABLES
  pc,         \* where the worker is
  headers,    \* the values of the request's Range headers
  next,       \* the header that is parsed next
  request,    \* the fields of http_request_t that send_file_response uses
  size,       \* info->size
  disk,       \* the size of the file on disk now
  range,      \* byte_range_t
  head,       \* the header on the wire: status and announced range
  remaining,  \* bytes still to be read, and
  pos,        \* the offset fread has reached
  body,       \* the bytes of the file on the wire
  result      \* response_result_t of a response that was sent

vars == <<pc, headers, next, request, size, disk, range, head, remaining, pos, body, result>>

Tokens == UNION {[1 .. n -> Chars] : n \in 0 .. MaxToken}

\* Other covers the values that parse_range_header leaves before it looks
\* for a number: no "bytes=", nothing after it, a comma, no dash.  Otherwise
\* the first dash splits the value in two.
Other == [first |-> <<NonDigit>>, last |-> <<NonDigit>>]
RangeValues == [first : Tokens, last : Tokens] \cup {Other}

Size(v) == Len(v.first) + Len(v.last)

\* The Range headers of a request, within the bounds.
Requests ==
  {h \in UNION {[1 .. n -> RangeValues] : n \in 0 .. MaxHeaders} :
     MapThenSumSet(LAMBDA i : Size(h[i]), DOMAIN h) <= MaxChars}

NoRequest == [method |-> "GET", has_range |-> FALSE, range_is_suffix |-> FALSE,
              range_end_provided |-> FALSE, range_start |-> 0, range_end |-> 0]

None == [status |-> 0]
Whole == [start |-> 0, end |-> 0, length |-> 0, partial |-> FALSE]

Init ==
  /\ pc = "parse"
  /\ headers \in Requests
  /\ next = 1
  /\ \E m \in {"GET", "HEAD"} : request = [NoRequest EXCEPT !.method = m]
  /\ size = 0
  /\ disk \in 0 .. MaxFile
  /\ range = Whole
  /\ head = None
  /\ remaining = 0 /\ pos = 0
  /\ body = <<>>
  /\ result = None
-----------------------------------------------------------------------------
(* parse_range_header                                                      *)

Bad == -1

FitsSloppy(parsed, d) == parsed <= SizeMax \div 10

\* The next digit can be taken without leaving size_t.
Fits(parsed, d) == parsed <= (SizeMax - d) \div 10

\* parse_size_token: the number, or Bad for an empty token, a character that
\* is no digit, or a number beyond SIZE_MAX.
parse_size_token(token) ==
  LET parsed[k \in 0 .. Len(token)] ==
        IF k = 0 THEN 0
        ELSE IF parsed[k - 1] = Bad \/ token[k] = NonDigit THEN Bad
        ELSE IF Fits(parsed[k - 1], token[k]) THEN 10 * parsed[k - 1] + token[k]
        ELSE Bad
  IN IF token = <<>> THEN Bad ELSE parsed[Len(token)]

\* What one header does to the request.  The fields are set only once a
\* number has been read, and are not reset by a later header.
ParseRange(r, v) ==
  LET a == parse_size_token(v.first)
      b == parse_size_token(v.last)
  IN IF v.first = <<>>
     THEN IF b \in {Bad, 0} THEN r
          ELSE [r EXCEPT !.has_range = TRUE, !.range_is_suffix = TRUE, !.range_start = b]
     ELSE IF a = Bad THEN r
     ELSE IF v.last = <<>> THEN [r EXCEPT !.has_range = TRUE, !.range_start = a]
     ELSE IF b = Bad THEN [r EXCEPT !.has_range = FALSE, !.range_start = a]
     ELSE [r EXCEPT !.has_range = TRUE, !.range_start = a,
                    !.range_end_provided = TRUE, !.range_end = b]

ParseHeader ==
  /\ pc = "parse"
  /\ next <= Len(headers)
  /\ request' = ParseRange(request, headers[next])
  /\ next' = next + 1
  /\ UNCHANGED <<pc, headers, size, disk, range, head, remaining, pos, body, result>>

\* file_stat_path finds a regular file.
Stat ==
  /\ pc = "parse"
  /\ next > Len(headers)
  /\ size' = disk
  /\ pc' = "open"
  /\ UNCHANGED <<headers, next, request, disk, range, head, remaining, pos, body, result>>
-----------------------------------------------------------------------------
(* resolve_range                                                           *)

From(start, end) ==
  [start |-> start, end |-> end, length |-> end - start + 1, partial |-> TRUE]

AllOf(n) ==
  [start |-> 0, end |-> IF n = 0 THEN 0 ELSE n - 1, length |-> n, partial |-> FALSE]

UnsatisfiableLate(r, n) ==
  /\ r.has_range
  /\ \/ n = 0
     \/ /\ ~r.range_is_suffix
        /\ \/ r.range_start > n
           \/ r.range_end_provided /\ r.range_end < r.range_start

\* resolve_range returns -1.
Unsatisfiable(r, n) ==
  /\ r.has_range
  /\ \/ n = 0
     \/ /\ ~r.range_is_suffix
        /\ \/ r.range_start >= n
           \/ r.range_end_provided /\ r.range_end < r.range_start

LastByteUnclamped(r, n) == IF r.range_end_provided THEN r.range_end ELSE n - 1

\* The last byte of an explicit range, clamped to the file.
LastByte(r, n) ==
  IF r.range_end_provided /\ r.range_end < n THEN r.range_end ELSE n - 1

Resolved(r, n) ==
  IF ~r.has_range THEN AllOf(n)
  ELSE IF r.range_is_suffix
       THEN From(IF r.range_start >= n THEN 0 ELSE n - r.range_start, n - 1)
       ELSE From(r.range_start, LastByte(r, n))
-----------------------------------------------------------------------------
(* send_file_response                                                      *)

\* A response of its own text instead of the file, sent or not.
Instead(status) ==
  /\ \/ /\ head' = [status |-> status]
        /\ result' = [status |-> status]
        /\ pc' = "done"
     \/ pc' = "failed" /\ UNCHANGED <<head, result>>
  /\ UNCHANGED <<headers, next, request, size, disk, range, remaining, pos, body>>

OpenFails == pc = "open" /\ Instead(500)

NotSatisfiable == pc = "open" /\ Unsatisfiable(request, size) /\ Instead(416)

SeekFails ==
  /\ pc = "open"
  /\ request.has_range /\ ~Unsatisfiable(request, size)
  /\ Instead(500)

\* The file is open and positioned, and the length is announced.
SendHead ==
  /\ pc = "open"
  /\ ~Unsatisfiable(request, size)
  /\ range' = Resolved(request, size)
  /\ pos' = range'.start
  /\ remaining' = range'.length
  /\ \/ /\ head' = [status |-> IF range'.partial THEN 206 ELSE 200,
                    length |-> IF range'.partial THEN range'.length ELSE size,
                    start |-> range'.start, end |-> range'.end, total |-> size]
        /\ pc' = IF request.method = "HEAD" THEN "sent" ELSE "body"
     \/ pc' = "failed" /\ UNCHANGED head
  /\ UNCHANGED <<headers, next, request, size, disk, body, result>>

MinOf(a, b) == IF a < b THEN a ELSE b

\* What fread can return: all it asks for, less at the end of the file or
\* after an error, 0 when nothing is left.
ReadUnbounded == 0 .. MinOf(Chunk, IF disk > pos THEN disk - pos ELSE 0)
Read == 0 .. MinOf(MinOf(remaining, Chunk), IF disk > pos THEN disk - pos ELSE 0)

Bytes(from, n) == [i \in 1 .. n |-> from + i - 1]

\* One turn of the loop: fread and send_all.
SendChunk ==
  /\ pc = "body"
  /\ remaining > 0
  /\ \E got \in Read \ {0} :
       /\ pos' = pos + got
       /\ \/ /\ body' = body \o Bytes(pos, got)
             /\ remaining' = remaining - got
             /\ UNCHANGED pc
          \/ \E n \in 0 .. got - 1 :      \* send_all fails on the way
             /\ body' = body \o Bytes(pos, n)
             /\ pc' = "failed"
             /\ UNCHANGED remaining
  /\ UNCHANGED <<headers, next, request, size, disk, range, head, result>>

ReadFailsRetry ==
  /\ pc = "body"
  /\ remaining > 0
  /\ 0 \in Read
  /\ UNCHANGED vars

ReadFailsDone ==
  /\ pc = "body"
  /\ remaining > 0
  /\ 0 \in Read
  /\ pc' = "sent"
  /\ UNCHANGED <<headers, next, request, size, disk, range, head, remaining, pos, body, result>>

\* fread returns 0: the file has become shorter, or cannot be read.
ReadFails ==
  /\ pc = "body"
  /\ remaining > 0
  /\ 0 \in Read
  /\ pc' = "failed"
  /\ UNCHANGED <<headers, next, request, size, disk, range, head, remaining, pos, body, result>>

\* The response is complete, and its caller is told what was sent.
Finish ==
  /\ \/ pc = "body" /\ remaining = 0
     \/ pc = "sent"
  /\ result' = [status |-> head.status,
                bytes |-> IF request.method = "HEAD" THEN 0 ELSE range.length]
  /\ pc' = "done"
  /\ UNCHANGED <<headers, next, request, size, disk, range, head, remaining, pos, body>>

\* Another process rewrites the file.
Rewrite ==
  /\ pc \notin {"done", "failed"}
  /\ disk' \in 0 .. MaxFile
  /\ UNCHANGED <<pc, headers, next, request, size, range, head, remaining, pos, body, result>>
-----------------------------------------------------------------------------
Send ==
  \/ ParseHeader \/ Stat
  \/ OpenFails \/ NotSatisfiable \/ SeekFails \/ SendHead
  \/ SendChunk \/ ReadFails \/ Finish

Next == Send \/ Rewrite

Spec == Init /\ [][Next]_vars

\* The worker runs on; a peer that stays takes what it is sent.
FairSpec == Spec /\ WF_vars(Send)
-----------------------------------------------------------------------------
(* Correctness                                                             *)

\* Every variable has its type, and no number leaves size_t.
TypeOK ==
  /\ pc \in {"parse", "open", "sent", "body", "done", "failed"}
  /\ next \in 1 .. Len(headers) + 1
  /\ request \in [method : {"GET", "HEAD"}, has_range : BOOLEAN, range_is_suffix : BOOLEAN,
                  range_end_provided : BOOLEAN, range_start : 0 .. SizeMax,
                  range_end : 0 .. SizeMax]
  /\ size \in 0 .. MaxFile /\ disk \in 0 .. MaxFile
  /\ range \in [start : 0 .. MaxFile, end : 0 .. MaxFile, length : 0 .. MaxFile,
                partial : BOOLEAN]
  /\ remaining \in 0 .. MaxFile
  /\ pos \in 0 .. MaxFile
  /\ body \in Seq(0 .. MaxFile)

FileHead == head.status \in {200, 206}

\* Whatever Range headers the request has, repeated and contradictory ones
\* included, and whatever happens to the file, the body on the wire is the
\* announced range from its first byte on, in order, never longer than the
\* announced length, and never beyond the end of the file that stat saw.
BodyKeepsPromise ==
  FileHead =>
    /\ Len(body) <= head.length
    /\ body = Bytes(head.start, Len(body))
    /\ head.length = IF head.status = 206 THEN head.end - head.start + 1 ELSE size
    /\ head.start + head.length <= size

\* send_file_response reports success only when the peer was sent the
\* whole of what was announced, and reports exactly the bytes on the wire.
ReportIsTrue ==
  /\ pc = "failed" => result = None
  /\ pc = "done" =>
       /\ result.status = head.status
       /\ FileHead => /\ result.bytes = Len(body)
                      /\ request.method = "GET" => Len(body) = head.length

\* The decimal value of a token, without size_t.
Value(token) ==
  LET v[k \in 0 .. Len(token)] == IF k = 0 THEN 0 ELSE 10 * v[k - 1] + token[k]
  IN v[Len(token)]

IsNumber(token) ==
  /\ token # <<>>
  /\ \A k \in 1 .. Len(token) : token[k] # NonDigit
  /\ Value(token) <= SizeMax

WellFormed(v) ==
  \/ v.first = <<>> /\ IsNumber(v.last) /\ Value(v.last) > 0
  \/ IsNumber(v.first) /\ (v.last = <<>> \/ IsNumber(v.last))

\* The bytes of a file of n bytes that a well-formed header asks for.
Wanted(v, n) ==
  IF v.first = <<>> THEN {i \in 0 .. n - 1 : i >= n - Value(v.last)}
  ELSE {i \in 0 .. n - 1 : /\ i >= Value(v.first)
                           /\ v.last # <<>> => i <= Value(v.last)}

LongSuffix(v, n) == v.first = <<>> /\ Value(v.last) > n

\* A request with one Range header is answered with exactly the bytes the
\* header asks for, as a 206, and with 416 when there are none.  A suffix
\* longer than the file gets the whole of it, be it a 206 as in the code or a
\* 200.  A header that is not well formed, or has a number that size_t cannot
\* hold, gets no part of the file.
RangeIsAnswered ==
  Len(headers) = 1 /\ head # None /\ head.status # 500 =>
    LET v == headers[1]
        wanted == Wanted(v, size)
    IN IF ~WellFormed(v) THEN head.status # 206
       ELSE /\ head.status = 416 => wanted = {}
            /\ FileHead => head.start .. head.end = wanted
            /\ ~LongSuffix(v, size) => head.status = IF wanted = {} THEN 416 ELSE 206

\* The response ends, however the file changes under it: a file that has
\* become shorter does not keep the worker in the loop.
ResponseEnds == <>(pc \in {"done", "failed"})
=============================================================================
