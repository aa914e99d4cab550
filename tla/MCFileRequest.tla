---------------------------- MODULE MCFileRequest ---------------------------
(* File systems, addresses and header blocks for TLC.                      *)
EXTENDS FileRequest, TLC

Dir == [kind |-> "dir", target |-> <<>>]
File == [kind |-> "file", target |-> <<>>]
Node(kind) == [kind |-> kind, target |-> <<>>]
Link(target) == [kind |-> "link", target |-> target]

\* Names: r., r.a, l, a, .h, a.H and one of signs that need an escape: "+
r == <<114, DOT>>
ra == <<114, DOT, 97>>
l == <<108>>
a == <<97>>
hidden == <<DOT, 104>>
upper == <<97, DOT, 72>>
quoted == <<34, PLUS>>

MCDocRoot == <<SLASH>> \o l
MCMimeTypes == hidden :> "text/x-chdr"

\* The document root is a link to r., beside which there is r.a.
Around(top) ==
  <<>> :> Dir @@ <<l>> :> top @@ <<r>> :> Dir @@ <<r, hidden>> :> File
  @@ <<ra>> :> Dir @@ <<ra, a>> :> File

MCWorlds ==
  { Around(Link(r)) @@ <<r, quoted>> :> File @@ <<r, a>> :> node :
      node \in { File, Node("other"), Node("locked"), Link(<<DOT>>), Link(a), Link(hidden),
                 Link(<<DOT, DOT, SLASH>> \o ra), Link(<<SLASH>> \o ra \o <<SLASH>> \o a) } }
  \cup { Around(Link(r)),
         Around(Link(r)) @@ <<r, a>> :> Dir @@ <<r, a, quoted>> :> Dir @@ <<r, a, upper>> :> File,
         Around(Link(ra)), Around(Link(a)) }

Pieces == { <<SLASH>>, <<DOT>>, a, <<PLUS>>, <<PERCENT>>, <<PERCENT, 50, 101>>,
            <<PERCENT, 50, 70>>, <<PERCENT, 53, 99>> }

MCAddresses == {<<SLASH>> \o FlattenSeq(s) : s \in BoundedSeq(Pieces, 3)}
                 \cup {a \o a \o a \o s \o a \o a \o a \o a \o s : s \in {a, <<SLASH>>}}

Words(sets) ==
  LET words[k \in 0 .. Len(sets)] ==
        IF k = 0 THEN {<<>>} ELSE {u \o v : u \in words[k - 1], v \in sets[k]}
  IN words[Len(sets)]

Lines == Words(<< {<<>>, GET, HEAD, GET \o <<NUL>>, a}, {<<>>, <<SP>>, <<SP, SP>>},
                  {<<>>, <<SLASH>>, <<QUESTION>>, <<SLASH, QUESTION>> \o a, <<SLASH, NUL>> \o a},
                  {<<>>, <<SP>>, <<SP, SP>>},
                  {<<>>, HTTP_11, HTTP_10 \o <<NUL, SP>>, HTTP_11 \o <<SP>>} >>)

Headers == Words(<< {Connection, [Connection EXCEPT ![1] = 99], Close}, {<<>>, <<COLON>>, <<COLON, TAB>>},
                    {<<>>, Close, KeepAlive \o <<SP>>, <<CR>> \o Close} >>)

MCBlocks ==
  Words(<<Lines, {CRLF \o CRLF}>>)
  \cup Words(<< {GET \o <<SP, SLASH, SP>>}, {HTTP_10, HTTP_11}, {CRLF}, Headers, {CRLF}, Headers,
                {CRLF \o CRLF} >>)
=============================================================================
