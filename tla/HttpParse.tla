----------------------------- MODULE HttpParse ------------------------------
(***************************************************************************)
(* http_parse_request of http.c as operators on byte sequences: the        *)
(* request line, the header loop, the bounded copies into the fields of    *)
(* http_request_t, and the keep-alive decision.  A byte is its code.  The  *)
(* Range header, which the same loop finds, is in FileResponse.            *)
(*                                                                         *)
(* An operator that nothing uses, in front of the one it is a variant of,  *)
(* is a deliberate bug that some property notices.                         *)
(***************************************************************************)
EXTENDS Integers, Sequences, FiniteSets, SequencesExt, Positions

CONSTANTS HTTP_METHOD_TEXT_MAX, HTTP_PATH_MAX, HTTP_VERSION_TEXT_MAX,
          HTTP_CONNECTION_TEXT_MAX

\* A field that is compared with a word holds a sign more than the longest of
\* them, HEAD, HTTP/1.1 and keep-alive, so that no longer text is cut to it.
ASSUME HttpAssumption ==
  /\ {HTTP_METHOD_TEXT_MAX, HTTP_PATH_MAX, HTTP_VERSION_TEXT_MAX, HTTP_CONNECTION_TEXT_MAX}
       \subseteq Nat \ {0}
  /\ HTTP_METHOD_TEXT_MAX > 5 /\ HTTP_VERSION_TEXT_MAX > 9 /\ HTTP_CONNECTION_TEXT_MAX > 11

NUL == 0
TAB == 9
LF == 10
CR == 13
SP == 32
COLON == 58
QUESTION == 63
GET == <<71, 69, 84>>
HEAD == <<72, 69, 65, 68>>
HTTP_10 == <<72, 84, 84, 80, 47, 49, 46, 48>>
HTTP_11 == <<72, 84, 84, 80, 47, 49, 46, 49>>
Connection == <<67, 111, 110, 110, 101, 99, 116, 105, 111, 110>>
Close == <<99, 108, 111, 115, 101>>
KeepAlive == <<107, 101, 101, 112, 45, 97, 108, 105, 118, 101>>
CRLF == <<CR, LF>>

First(s, n) == SubSeq(s, 1, n)
From(s, n) == SubSeq(s, n, Len(s))

\* The position of a byte, 0 if there is none.
memchr(s, b) == SelectInSeq(s, LAMBDA c : c = b)

\* What a C string function sees of an array.
CString(s) == IF memchr(s, NUL) = 0 THEN s ELSE First(s, memchr(s, NUL) - 1)

copy_bounded(src, size) == CString(First(src, IF Len(src) >= size THEN size - 1 ELSE Len(src)))

tolower(b) == IF b \in 65 .. 90 THEN b + 32 ELSE b
ascii_case_equal(s, t) ==
  Len(s) = Len(t) /\ \A i \in 1 .. Len(s) : tolower(s[i]) = tolower(t[i])

Crlfs(s) == {i \in 1 .. Len(s) - 1 : s[i] = CR /\ s[i + 1] = LF}
find_crlf(s) == IF Crlfs(s) = {} THEN 0 ELSE Min(Crlfs(s))

skip_spaces(s) ==
  LET text == {i \in 1 .. Len(s) : s[i] \notin {SP, TAB}}
  IN IF text = {} THEN <<>> ELSE From(s, Min(text))

trim_trailing_span(s) ==
  First(s, Max({0} \cup {i \in 1 .. Len(s) : s[i] \notin {SP, TAB, CR, LF}}))
-----------------------------------------------------------------------------
(* parse_headers                                                           *)

IsHeader(line, name) ==
  memchr(line, COLON) > 0 /\ ascii_case_equal(First(line, memchr(line, COLON) - 1), name)

Value(line) == trim_trailing_span(skip_spaces(From(line, memchr(line, COLON) + 1)))

\* One round of the loop, which stops at an empty line or without a CRLF.  A
\* later Connection header overwrites an earlier one.
HeaderStep(h, s) ==
  LET e == find_crlf(From(h, s.offset))
      line == SubSeq(h, s.offset, s.offset + e - 2)
  IN IF e \in {0, 1} THEN s
     ELSE [offset |-> s.offset + e + 1,
           connection |-> IF IsHeader(line, Connection)
                          THEN copy_bounded(Value(line), HTTP_CONNECTION_TEXT_MAX)
                          ELSE s.connection]

\* request->connection after the loop, a CRLF for every round.
parse_headers(h) ==
  LET loop[n \in 0 .. Cardinality(Crlfs(h))] ==
        IF n = 0 THEN [offset |-> 1, connection |-> <<>>] ELSE HeaderStep(h, loop[n - 1])
  IN loop[Cardinality(Crlfs(h))].connection
-----------------------------------------------------------------------------
(* http_parse_request                                                      *)

parse_method(m) == CASE m = GET -> "GET" [] m = HEAD -> "HEAD" [] OTHER -> "UNSUPPORTED"

parse_version(v) == CASE v = HTTP_10 -> "1.0" [] v = HTTP_11 -> "1.1" [] OTHER -> "UNKNOWN"

keep_alive_requested(version, connection) ==
  IF version = "1.1" THEN ~ascii_case_equal(connection, Close)
                     ELSE ascii_case_equal(connection, KeepAlive)

BadRequest == [ok |-> FALSE]

\* The positions of the first two spaces of the request line, 0 if missing.
FirstSpace(line) == memchr(line, SP)
SecondSpaceAny(line) == SelectLastInSeq(line, LAMBDA c : c = SP)
SecondSpace(line) ==
  LET more == memchr(From(line, FirstSpace(line) + 1), SP)
  IN IF FirstSpace(line) = 0 \/ more = 0 THEN 0 ELSE FirstSpace(line) + more

http_parse_request(raw) ==
  LET line == First(raw, find_crlf(raw) - 1)
      sp1 == FirstSpace(line)
      sp2 == SecondSpace(line)
      target == SubSeq(line, sp1 + 1, sp2 - 1)
      query == memchr(target, QUESTION)
      path == IF query = 0 THEN target ELSE First(target, query - 1)
      version == parse_version(copy_bounded(From(line, sp2 + 1), HTTP_VERSION_TEXT_MAX))
  IN IF \/ find_crlf(raw) = 0 \/ sp1 <= 1 \/ sp2 <= sp1 + 1 \/ sp2 = Len(line)
        \/ path = <<>> \/ version = "UNKNOWN"
     THEN BadRequest
     ELSE [ok |-> TRUE,
           method |-> parse_method(copy_bounded(First(line, sp1 - 1), HTTP_METHOD_TEXT_MAX)),
           path |-> copy_bounded(path, HTTP_PATH_MAX),
           version |-> version,
           keep_alive_requested |->
             keep_alive_requested(version, parse_headers(From(raw, find_crlf(raw) + 2)))]
-----------------------------------------------------------------------------
(* The reference: a header block read as a grammar                         *)

\* The k-th line of the block, the request line being the 1st: the CRLFs cut
\* it into lines.
LineOf(block, k) ==
  SubSeq(block, IF k = 1 THEN 1 ELSE Nth(Crlfs(block), k - 1) + 2, Nth(Crlfs(block), k) - 1)

\* line = method SP target SP version, with the two spaces at i and j.
IsRequestLine(line, i, j) ==
  /\ {i, j} \subseteq 1 .. Len(line) /\ line[i] = SP /\ line[j] = SP
  /\ 1 < i /\ i + 1 < j /\ j < Len(line)
  /\ \A k \in 1 .. j - 1 : line[k] = SP => k = i
  /\ line[i + 1] # QUESTION
  /\ CString(From(line, j + 1)) \in {HTTP_10, HTTP_11}

\* A block is accepted exactly when its first line is a request line, and
\* then the fields are the parts of it: the path is what the target has in
\* front of its query, cut at the size of the field or at a NUL.
ParsesAsGrammar(block) ==
  LET line == LineOf(block, 1)
      r == http_parse_request(block)
      splits == IF Crlfs(block) = {} THEN {}
                ELSE {ij \in (1 .. Len(line)) \X (1 .. Len(line)) :
                        IsRequestLine(line, ij[1], ij[2])}
  IN /\ r.ok <=> splits # {}
     /\ \A ij \in splits :
          LET target == SubSeq(line, ij[1] + 1, ij[2] - 1)
          IN /\ r.method = "GET" <=> CString(First(line, ij[1] - 1)) = GET
             /\ r.method = "HEAD" <=> CString(First(line, ij[1] - 1)) = HEAD
             /\ IsPrefix(r.path, target)
             /\ Len(r.path) = Min({HTTP_PATH_MAX - 1, Len(target)}
                                  \cup {k - 1 : k \in {k \in 1 .. Len(target) :
                                                        target[k] \in {QUESTION, NUL}}})

\* Every line of the block up to the first empty one is looked at, and the
\* last Connection header decides whether the connection is kept.
LastConnectionDecides(block) ==
  LET r == http_parse_request(block)
      headers == {k \in 2 .. Cardinality(Crlfs(block)) :
                    /\ IsHeader(LineOf(block, k), Connection)
                    /\ \A m \in 2 .. k : LineOf(block, m) # <<>>}
      says(word) ==
        headers # {} /\ ascii_case_equal(CString(Value(LineOf(block, Max(headers)))), word)
  IN r.ok => (r.keep_alive_requested <=>
                IF r.version = "1.1" THEN ~says(Close) ELSE says(KeepAlive))
=============================================================================
