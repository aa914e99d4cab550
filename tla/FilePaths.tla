----------------------------- MODULE FilePaths ------------------------------
(***************************************************************************)
(* How files.c turns the path of a request into a file: percent decoding,  *)
(* the refusal of "..", the two realpath calls and the prefix check, and   *)
(* the escapes with which a listing writes names back into a page.         *)
(*                                                                         *)
(* A C string is a sequence of byte codes without NUL.  The file system fs *)
(* is a function from absolute paths, sequences of names, to nodes         *)
(* [kind, target]; the kind is "dir", "locked" (a directory the server may *)
(* not enter), "file", "other" (a device, a pipe) or "link", whose target  *)
(* is a string.                                                            *)
(*                                                                         *)
(* An operator that nothing uses, in front of the one it is a variant of,  *)
(* is a deliberate bug that some property notices.                         *)
(***************************************************************************)
EXTENDS Integers, Sequences, FiniteSets, SequencesExt, Positions

CONSTANTS FILE_PATH_MAX,
          MimeTypes,     \* the suffixes file_mime_type knows, and their types
          SYMLOOP_MAX    \* links the kernel follows before it gives up

ASSUME FileAssumption == FILE_PATH_MAX \in Nat \ {0} /\ SYMLOOP_MAX \in Nat

PERCENT == 37
PLUS == 43
DOT == 46
SLASH == 47
BACKSLASH == 92
BLANK == 32

\* s[i - 1] in C: the terminator is the byte behind the last one.
At(s, i) == IF i \in 1 .. Len(s) THEN s[i] ELSE 0
-----------------------------------------------------------------------------
(* The text of a path                                                      *)

hex_value(c) == CASE c \in 48 .. 57 -> c - 48
                  [] c \in 97 .. 102 -> c - 87
                  [] c \in 65 .. 70 -> c - 55
                  [] OTHER -> -1

\* The result of decode_path; text is the decoded path if it is "OK".
Decoded(result, text) == [result |-> result, text |-> text]

\* A sign after the end of the string is not a hex digit: a "%" at the end is
\* refused, whatever lies behind the terminator.
decode_path(input) ==
  LET step[i \in 1 .. Len(input) + 1, written \in 0 .. Len(input)] ==
        LET escape == input[i] = PERCENT
            high == hex_value(At(input, i + 1))
            low == hex_value(At(input, i + 2))
            ch == IF escape THEN 16 * high + low 
                  ELSE IF input[i] = PLUS THEN BLANK ELSE input[i]
            rest == step[i + (IF escape THEN 3 ELSE 1), written + 1]
        IN IF i > Len(input) THEN Decoded("OK", <<>>)
           ELSE IF escape /\ (high < 0 \/ low < 0) THEN Decoded("FORBIDDEN", <<>>)
           ELSE IF ch \in {0, BACKSLASH} THEN Decoded("FORBIDDEN", <<>>)
           ELSE IF written + 1 >= FILE_PATH_MAX THEN Decoded("ERROR", <<>>)
           ELSE [rest EXCEPT !.text = <<ch>> \o @]
  IN step[1, 0]

contains_dot_dot_segment(path) ==
  \E i \in 1 .. Len(path) :
    /\ At(path, i - 1) \in {0, SLASH}
    /\ path[i] = DOT /\ At(path, i + 1) = DOT /\ At(path, i + 2) \in {0, SLASH}

\* doc_root, a slash, and the path without its leading slashes.
joined(doc_root, path) ==
  LET text == {i \in 1 .. Len(path) : path[i] # SLASH}
  IN doc_root \o <<SLASH>> \o (IF text = {} THEN <<>> ELSE SubSeq(path, Min(text), Len(path)))

path_has_prefixLoose(path, prefix) == IsPrefix(prefix, path)

path_has_prefix(path, prefix) ==
  IsPrefix(prefix, path) /\ At(path, Len(prefix) + 1) \in {0, SLASH}

extensionFirst(path) ==
  LET dot == SelectInSeq(path, LAMBDA c : c = DOT)
  IN IF dot = 0 THEN <<>> ELSE SubSeq(path, dot, Len(path))
extension(path) ==
  LET dot == SelectLastInSeq(path, LAMBDA c : c = DOT)
  IN IF dot = 0 THEN <<>> ELSE SubSeq(path, dot, Len(path))

\* The chain of comparisons, strcmp, is a table.
file_mime_type(path) ==
  IF extension(path) \in DOMAIN MimeTypes
  THEN MimeTypes[extension(path)] ELSE "application/octet-stream"
-----------------------------------------------------------------------------
(* The file system, as realpath and stat see it                            *)

\* Where the names of a path begin.
NameStarts(text) ==
  {i \in 1 .. Len(text) : text[i] # SLASH /\ At(text, i - 1) \in {0, SLASH}}

NameAt(text, i) ==
  SubSeq(text, i, Min({j \in i .. Len(text) : At(text, j + 1) \in {0, SLASH}}))

Names(text) ==
  [k \in 1 .. Cardinality(NameStarts(text)) |-> NameAt(text, Nth(NameStarts(text), k))]

\* What there is to walk: a slash at the end asks for a directory, like "/.".
Components(text) ==
  Names(text) \o (IF text # <<>> /\ Last(text) = SLASH THEN <<<<DOT>>>> ELSE <<>>)

PathText(names) ==
  LET text[n \in 0 .. Len(names)] ==
        IF n = 0 THEN <<>> ELSE text[n - 1] \o <<SLASH>> \o names[n]
  IN IF names = <<>> THEN <<SLASH>> ELSE text[Len(names)]

\* One name of a walk: at is where it has come, todo what is left of it.
WalkStep(fs, w) ==
  LET name == Head(w.todo)
      next == Append(w.at, name)
      on == [w EXCEPT !.todo = Tail(w.todo)]
      stops(result) == [w EXCEPT !.todo = <<>>, !.result = result]
  IN CASE fs[w.at].kind = "locked" -> stops("ERROR")
       [] fs[w.at].kind \notin {"dir", "locked"} -> stops("NOT_FOUND")
       [] fs[w.at].kind = "dir" /\ name = <<DOT>> -> on
       [] fs[w.at].kind = "dir" /\ name = <<DOT, DOT>> ->
            [on EXCEPT !.at = IF w.at = <<>> THEN <<>> ELSE Front(w.at)]
       [] OTHER ->
            IF next \notin DOMAIN fs THEN stops("NOT_FOUND")
            ELSE IF fs[next].kind # "link" THEN [on EXCEPT !.at = next]
            ELSE IF w.links = SYMLOOP_MAX THEN stops("ERROR")
            ELSE [on EXCEPT !.links = @ + 1,
                            !.at = IF At(fs[next].target, 1) = SLASH THEN <<>> ELSE @,
                            !.todo = Components(fs[next].target) \o @]

\* From a directory along names: [result, at], every link followed.
Walk(fs, start, names) ==
  LET walk[n \in 0 .. (SYMLOOP_MAX + 1) * FILE_PATH_MAX] ==
        IF n = 0 THEN [at |-> start, todo |-> names, links |-> 0, result |-> "OK"]
        ELSE LET w == walk[n - 1] IN IF w.todo = <<>> THEN w ELSE WalkStep(fs, w)
  IN walk[(SYMLOOP_MAX + 1) * FILE_PATH_MAX]

\* An absolute path to the names of what it stands for.
realpath(fs, text) ==
  LET w == Walk(fs, <<>>, Components(text))
      fits == Len(PathText(w.at)) < FILE_PATH_MAX
  IN [at |-> w.at, result |-> IF w.result = "OK" /\ ~fits THEN "ERROR" ELSE w.result]

stat(fs, text) ==
  LET w == Walk(fs, <<>>, Components(text))
  IN IF w.result = "OK" THEN fs[w.at].kind ELSE w.result

IsDirectory(kind) == kind \in {"dir", "locked"}
-----------------------------------------------------------------------------
(* The escapes of a page, as the pieces that are appended one by one.  An  *)
(* entity (&amp; and the like) is the negated code of its sign.            *)

IsMarkupNoQuote(c) == c \in {38, 60, 62}
IsMarkup(c) == c \in {34, 38, 60, 62}

html_escaped(text) ==
  [i \in 1 .. Len(text) |-> IF IsMarkup(text[i]) THEN <<-text[i]>> ELSE <<text[i]>>]

is_url_unreservedPlus(c) ==
  c \in (48 .. 57) \cup (65 .. 90) \cup (97 .. 122) \cup {43, 45, 46, 95, 126}
is_url_unreserved(c) ==
  c \in (48 .. 57) \cup (65 .. 90) \cup (97 .. 122) \cup {45, 46, 95, 126}

HexDigit(n) == IF n < 10 THEN 48 + n ELSE 55 + n

url_escaped(text) ==
  [i \in 1 .. Len(text) |->
     IF is_url_unreserved(text[i]) THEN <<text[i]>>
     ELSE <<PERCENT, HexDigit(text[i] \div 16), HexDigit(text[i] % 16)>>]
=============================================================================
