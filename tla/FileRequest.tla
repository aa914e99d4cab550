----------------------------- MODULE FileRequest ----------------------------
(***************************************************************************)
(* One worker from the bytes of a request to the file or the listing it is *)
(* for: http_parse_request, file_stat_path with its three looks at the     *)
(* file system, and file_build_directory_listing, against a file system    *)
(* that changes in between and a client that types addresses and follows   *)
(* the links of the pages it gets.                                         *)
(***************************************************************************)
EXTENDS HttpParse, DirectoryListing

CONSTANTS
  DocRoot,     \* config.doc_root
  Worlds,      \* the file systems there may be
  Addresses,   \* the paths a client types
  Blocks,      \* other header blocks a client may send
  MaxClicks    \* bound: links followed in a row

\* Names and what a client types are bytes.
ASSUME RequestAssumption ==
  /\ \A w \in Worlds : DOMAIN w \subseteq Seq(Seq(1 .. 255))
  /\ Addresses \cup Blocks \subseteq Seq(0 .. 255)
  /\ MaxClicks \in Nat

VARIABLES
  pc,        \* where handle_client is
  raw,       \* the header block, while it is parsed
  method,    \* of the request
  root,      \* root_real
  answer,    \* [status, type] of the response
  url,       \* client: the address it asked for, <<>> for a block of its own
  page,      \* client: the page it received
  clicked,   \* client: the entry it followed a link to
  clicks,    \* client: how many it has followed
  quiet      \* the file system has not changed since the request, or its page

fvars == <<fs, request_path, resolved_path, pc, raw, method, root, answer,
           url, page, clicked, clicks, quiet>>
vars == <<fvars, lvars>>
client == <<url, page, clicked, clicks>>

NoAnswer == [status |-> 0, type |-> ""]
NoEntry == [names |-> <<>>, exact |-> FALSE]

Init ==
  /\ fs \in Worlds
  /\ request_path = <<>> /\ resolved_path = <<>>
  /\ pc = "idle" /\ raw = <<>> /\ method = "" /\ root = <<>> /\ answer = NoAnswer
  /\ url = <<>> /\ page = <<>> /\ clicked = NoEntry /\ clicks = 0 /\ quiet = TRUE
  /\ LInit

Answer(status, type) ==
  /\ pc' = "answered"
  /\ answer' = [status |-> status, type |-> type]

status_from_file_result(result) ==
  CASE result = "NOT_FOUND" -> 404 [] result = "FORBIDDEN" -> 403 [] OTHER -> 500

Fail(result) == Answer(status_from_file_result(result), "text/plain")
-----------------------------------------------------------------------------
(* The client                                                              *)

Get(address) == GET \o <<SP>> \o address \o <<SP>> \o HTTP_11 \o CRLF \o CRLF

Send(block) ==
  /\ raw' = block
  /\ pc' = "parse"
  /\ page' = <<>> /\ answer' = NoAnswer
  /\ request_path' = <<>> /\ resolved_path' = <<>> /\ method' = "" /\ root' = <<>>
  /\ UNCHANGED <<fs, quiet, lvars>>

Type ==
  /\ pc = "idle"
  /\ \/ \E address \in Addresses : url' = address /\ Send(Get(address))
     \/ \E block \in Blocks : url' = <<>> /\ Send(block)
  /\ UNCHANGED <<clicked, clicks>>

Marks(text, mark) == {i \in 1 .. Len(text) : <<text[i]>> = mark}

\* The link of an item stands between the markup at i and j, its label
\* between j and l.
IsLink(text, i, j, l) == i < j /\ j < l /\ \A m \in Marks(text, ITEM) : m <= i \/ m > l

\* A label as it is shown, with the signs that its entities stand for.
Shown(text, from, to) ==
  LET sign(c) == IF c < 0 THEN -c ELSE c
  IN [k \in 1 .. to - from - 1 |-> sign(text[from + k])]

Labels(text) ==
  LET labels == SetToSortSeq(Marks(text, LABEL), <)
      end(j) == Min({l \in Marks(text, ITEM_END) : l > j})
  IN [k \in 1 .. Len(labels) |-> Shown(text, labels[k], end(labels[k]))]

WithoutSlash(label) == IF Last(label) = SLASH THEN Front(label) ELSE label

\* A relative link is appended to the address of its page, up to the last
\* slash.  The entry it shows is exact if the address is that of a directory
\* with its slash, all fits into request.path, and no name has a backslash.
Click ==
  /\ pc = "answered" /\ page # <<>> /\ url # <<>> /\ clicks < MaxClicks
  /\ \E i \in Marks(page, ITEM), j \in Marks(page, LABEL), l \in Marks(page, ITEM_END) :
       LET base == SubSeq(url, 1, SelectLastInSeq(url, LAMBDA c : c = SLASH))
           address == base \o SubSeq(page, i + 1, j - 1)
           name == WithoutSlash(Shown(page, j, l))
       IN /\ IsLink(page, i, j, l)
          /\ url' = address
          /\ clicked' = [names |-> Append(Names(resolved_path), name),
                         exact |-> /\ Last(url) = SLASH /\ Len(address) < HTTP_PATH_MAX
                                   /\ BACKSLASH \notin ToSet(name)]
          /\ Send(Get(address))
  /\ clicks' = clicks + 1

\* The client closes the page; the variables of the request have no meaning.
Forget ==
  /\ pc = "answered"
  /\ pc' = "idle" /\ answer' = NoAnswer /\ quiet' = TRUE
  /\ request_path' = <<>> /\ resolved_path' = <<>> /\ method' = "" /\ root' = <<>>
  /\ url' = <<>> /\ page' = <<>> /\ clicked' = NoEntry /\ clicks' = 0
  /\ UNCHANGED <<fs, raw, lvars>>

\* Anybody may change the file system while a request is served.  A change
\* when the worker will not look at it again comes before the next request.
Change ==
  /\ pc \in {"root", "target", "stat", "listing"} /\ step \in {"idle", "read"}
  /\ fs' \in Worlds \ {fs}
  /\ quiet' = FALSE
  /\ clicked' = NoEntry
  /\ UNCHANGED <<request_path, resolved_path, pc, raw, method, root, answer, url, page, clicks, lvars>>
-----------------------------------------------------------------------------
(* The worker                                                              *)

ParseRequest ==
  /\ pc = "parse"
  /\ LET r == http_parse_request(raw)
     IN \/ /\ ~r.ok
           /\ Answer(400, "text/plain")
           /\ UNCHANGED <<method, request_path>>
        \/ /\ r.ok /\ r.method = "UNSUPPORTED"
           /\ Answer(501, "text/plain")
           /\ UNCHANGED <<method, request_path>>
        \/ /\ r.ok /\ r.method # "UNSUPPORTED"
           /\ method' = r.method
           /\ request_path' = r.path
           /\ pc' = "root"
           /\ UNCHANGED answer
  /\ raw' = <<>>
  /\ UNCHANGED <<fs, resolved_path, root, client, quiet, lvars>>

\* file_resolve_path up to its first look at the file system.
ResolveRoot ==
  /\ pc = "root"
  /\ LET decoded == decode_path(request_path)
         w == realpath(fs, DocRoot)
     IN \/ /\ decoded.result # "OK"
           /\ Fail(decoded.result)
           /\ UNCHANGED root
        \/ /\ decoded.result = "OK" /\ contains_dot_dot_segment(decoded.text)
           /\ Fail("FORBIDDEN")
           /\ UNCHANGED root
        \/ /\ decoded.result = "OK" /\ ~contains_dot_dot_segment(decoded.text)
           /\ Len(joined(DocRoot, decoded.text)) >= FILE_PATH_MAX \/ w.result # "OK"
           /\ Fail("ERROR")
           /\ UNCHANGED root
        \/ /\ decoded.result = "OK" /\ ~contains_dot_dot_segment(decoded.text)
           /\ Len(joined(DocRoot, decoded.text)) < FILE_PATH_MAX /\ w.result = "OK"
           /\ root' = PathText(w.at)
           /\ pc' = "target"
           /\ UNCHANGED answer
  /\ UNCHANGED <<fs, request_path, resolved_path, raw, method, client, quiet, lvars>>

ResolveTarget ==
  /\ pc = "target"
  /\ LET w == realpath(fs, joined(DocRoot, decode_path(request_path).text))
     IN \/ /\ w.result # "OK"
           /\ Fail(w.result)
           /\ UNCHANGED resolved_path
        \/ /\ w.result = "OK" /\ ~path_has_prefix(PathText(w.at), root)
           /\ Fail("FORBIDDEN")
           /\ UNCHANGED resolved_path
        \/ /\ w.result = "OK" /\ path_has_prefix(PathText(w.at), root)
           /\ resolved_path' = PathText(w.at)
           /\ pc' = "stat"
           /\ UNCHANGED answer
  /\ UNCHANGED <<fs, request_path, root, raw, method, client, quiet, lvars>>

\* A regular file is handed to send_file_response (module FileResponse).
StatPath ==
  /\ pc = "stat"
  /\ LET kind == stat(fs, resolved_path)
     IN \/ kind \in {"NOT_FOUND", "ERROR"} /\ Fail(kind)
        \/ kind = "other" /\ Fail("FORBIDDEN")
        \/ kind = "file" /\ Answer(200, file_mime_type(resolved_path))
        \/ IsDirectory(kind) /\ pc' = "listing" /\ UNCHANGED answer
  /\ UNCHANGED <<fs, request_path, resolved_path, root, raw, method, client, quiet, lvars>>

StartListing ==
  /\ pc = "listing" /\ step = "idle"
  /\ OpenDirectory \/ OpenDirectoryFails
  /\ UNCHANGED fvars

BuildListing == Build /\ UNCHANGED fvars

ListingFailed ==
  /\ pc = "listing" /\ step = "failed"
  /\ Fail("ERROR")
  /\ FreePage
  /\ UNCHANGED <<fs, request_path, resolved_path, root, raw, method, client, quiet>>

\* Whether the page is sent to its end, only in part or, for HEAD, not at all.
SendListing ==
  /\ pc = "listing" /\ step = "built"
  /\ Answer(200, "text/html")
  /\ page' \in {<<>>} \cup (IF method = "GET" THEN {builder.text} ELSE {})
  /\ FreePage
  /\ UNCHANGED <<fs, request_path, resolved_path, root, raw, method, url, clicked, clicks, quiet>>

Next ==
  \/ Type \/ Click \/ Forget \/ Change
  \/ ParseRequest \/ ResolveRoot \/ ResolveTarget \/ StatPath
  \/ StartListing \/ BuildListing \/ ListingFailed \/ SendListing

Spec == Init /\ [][Next]_vars
-----------------------------------------------------------------------------
(* Properties                                                              *)

(* The variables have their types, and nothing is written behind an array: *)
(* request.path, info.resolved_path, and the table of entries as it grows. *)
TypeOK ==
  /\ fs \in Worlds
  /\ pc \in {"idle", "parse", "root", "target", "stat", "listing", "answered"}
  /\ step \in {"idle", "read", "title", "items", "footer", "built", "failed"}
  /\ next <= Len(entries) /\ Len(entries) <= entry_capacity
  /\ Len(request_path) < HTTP_PATH_MAX /\ Len(resolved_path) < FILE_PATH_MAX
  /\ method \in {"", "GET", "HEAD"} /\ clicks \in 0 .. MaxClicks /\ quiet \in BOOLEAN

(* http_parse_request accepts a header block exactly when it is well       *)
(* formed, its fields are then the parts of the request line, and the last *)
(* Connection header of all lines up to the empty one decides keep-alive.  *)
ParseIsGrammar == pc = "parse" => ParsesAsGrammar(raw) /\ LastConnectionDecides(raw)

(* Whatever the client sends, and however the file system changes between  *)
(* the calls of file_stat_path, the path that is served lies in the tree   *)
(* of the document root as realpath found it, name by name.                *)
ServedInsideRoot ==
  resolved_path # <<>> => IsPrefix(Names(root), Names(resolved_path))

\* The signs of a path, an escape with the two behind it being one, and what
\* each stands for.
Signs(path) == {i \in 1 .. Len(path) : PERCENT \notin {At(path, i - 1), At(path, i - 2)}}

SignAt(path, i) ==
  CASE path[i] = PERCENT -> 16 * hex_value(At(path, i + 1)) + hex_value(At(path, i + 2))
    [] path[i] = PLUS -> BLANK
    [] OTHER -> path[i]

\* An escape without its digits, a NUL, a backslash.
Undecodable(path) ==
  {i \in Signs(path) :
     \/ path[i] = PERCENT /\ -1 \in {hex_value(At(path, i + 1)), hex_value(At(path, i + 2))}
     \/ SignAt(path, i) \in {0, BACKSLASH}}

\* What a path means.  One that is refused is too long only if the signs in
\* front of the first it is refused for are too many.
Meaning(path) ==
  LET signs == Signs(path)
      good == {i \in signs : \A j \in Undecodable(path) : i < j}
  IN IF Cardinality(good) >= FILE_PATH_MAX THEN Decoded("ERROR", <<>>)
     ELSE IF good # signs THEN Decoded("FORBIDDEN", <<>>)
     ELSE Decoded("OK", [k \in 1 .. Cardinality(signs) |-> SignAt(path, Nth(signs, k))])

\* What a walk that ends there is answered with.
AnswerFor(rootAt, w) ==
  CASE w.result = "NOT_FOUND" -> 404
    [] w.result = "ERROR" -> 500
    [] w.result = "OK" /\ Len(PathText(w.at)) >= FILE_PATH_MAX -> 500
    [] OTHER -> IF ~IsPrefix(rootAt, w.at) \/ fs[w.at].kind = "other" THEN 403 ELSE 200

\* A listing may fail for want of memory or rights.
IsAnsweredBy(w, status) ==
  \/ answer.status = status
  \/ status = 200 /\ answer.status = 500 /\ IsDirectory(fs[w.at].kind)

\* The type of the suffix of a name.  One that is known in another case only
\* may count or not.
TypesOf(name) ==
  LET known == {e \in DOMAIN MimeTypes : IsSuffix(e, name)}
      alike == {e \in DOMAIN MimeTypes :
                  \E k \in 1 .. Len(name) : ascii_case_equal(SubSeq(name, k, Len(name)), e)}
  IN IF known # {} THEN {MimeTypes[e] : e \in known}
     ELSE {"application/octet-stream"} \cup {MimeTypes[e] : e \in alike}

(* While the file system stands still, a request is answered with what its *)
(* path names, read name by name from the document root: the file with the *)
(* type of its own suffix, 404 where there is nothing, and 403 only for a  *)
(* path that cannot be decoded, goes up, leads out of the root, or to what *)
(* is neither a file nor a directory.  The links on the way to the root    *)
(* count with those behind it.                                             *)
AnswerIsRight ==
  pc = "answered" /\ quiet /\ request_path # <<>> =>
    LET decoded == Meaning(request_path)
        names == Components(decoded.text)
        top == Walk(fs, <<>>, Components(DocRoot))
        w == Walk(fs, top.at, names)
    IN IF \/ decoded.result = "FORBIDDEN"
          \/ decoded.result = "OK" /\ <<DOT, DOT>> \in ToSet(names)
       THEN answer.status = 403
       ELSE IF \/ decoded.result = "ERROR"
               \/ top.result # "OK" \/ Len(PathText(top.at)) >= FILE_PATH_MAX
               \/ Len(joined(DocRoot, decoded.text)) >= FILE_PATH_MAX
               \/ top.links + w.links > SYMLOOP_MAX
            THEN answer.status = 500
       ELSE /\ IsAnsweredBy(w, AnswerFor(top.at, w))
            /\ answer.status = 200 =>
                 /\ resolved_path = PathText(w.at)
                 /\ ~IsDirectory(fs[w.at].kind) => answer.type \in TypesOf(Last(w.at))

(* The listing of a directory that stands still shows every entry that is  *)
(* not hidden, once, the directories in the order of strcmp and the files  *)
(* in it, a directory with a slash if its path fits into an array.  A link *)
(* to the directory above is neither asked for nor ruled out, nor is an    *)
(* order between directories and files.                                    *)
ListingIsDirectory ==
  page # <<>> /\ quiet =>
    LET labels == Labels(page)
        LabelOf(k) == WithoutSlash(labels[k])
        IsMarked(k) == Last(labels[k]) = SLASH
        items == {k \in 1 .. Len(labels) : LabelOf(k) # <<DOT, DOT>>}
    IN /\ {LabelOf(k) : k \in items} = {n \in Children(Names(resolved_path)) : n[1] # DOT}
       /\ \A j, k \in items :
            j < k /\ IsMarked(j) = IsMarked(k) => Before(LabelOf(j), LabelOf(k))
       /\ \A k \in items :
            LET child == resolved_path \o <<SLASH>> \o LabelOf(k)
            IN IsMarked(k) <=> Len(child) < FILE_PATH_MAX /\ IsDirectory(stat(fs, child))

(* No name of an entry and no address ends the markup it stands in: the    *)
(* signs that could are entities in a label and escaped in a link.         *)
PageKeepsMarkup == \A i \in 1 .. Len(page) : page[i] \notin {34, 38, 60, 62}

\* The entry that was clicked is what is answered, unless its address has
\* become too long for a path or has too many links in it.
ClickIsAnswered ==
  LET top == Walk(fs, <<>>, Components(DocRoot))
      decoded == decode_path(request_path)
      w == Walk(fs, <<>>, clicked.names)
  IN \/ decoded.result = "ERROR" \/ Len(joined(DocRoot, decoded.text)) >= FILE_PATH_MAX
     \/ top.links + Walk(fs, top.at, Components(decoded.text)).links > SYMLOOP_MAX
     \/ /\ IsAnsweredBy(w, AnswerFor(top.at, w))
        /\ answer.status = 200 => resolved_path = PathText(w.at)

(* A link of a listing leads to the entry it shows: the escapes of the     *)
(* page, the parser and decode_path give back the name that was read from  *)
(* the directory.  The address of the page has its slash, and the name no  *)
(* backslash: other links lead beside the directory, or are refused.       *)
LinkLeadsToEntry == pc = "answered" /\ quiet /\ clicked.exact => ClickIsAnswered
=============================================================================
