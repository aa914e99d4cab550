------------------------- MODULE FileRequestProofs --------------------------
(***************************************************************************)
(* Proofs about the request that ends in a file or a listing, for any file *)
(* systems, addresses and header blocks: types and array bounds, what the  *)
(* parser reads in a block, the path that is served, and of                *)
(* file_build_directory_listing the memory, the table and the markup.      *)
(***************************************************************************)
EXTENDS FileRequest, FiniteSetTheorems, SequenceTheorems, WellFoundedInduction, TLAPS

NameSet == Seq(1 .. 255)
EntrySet == [name : NameSet, is_directory : BOOLEAN]

\* Pieces of a page, and pages, without a sign that could end the markup they
\* stand in.
Clean == {s \in Seq(Int) : \A i \in 1 .. Len(s) : s[i] \notin {34, 38, 60, 62}}

\* A string builder with something in it: it has failed, or its text and the
\* terminator are inside what was allocated.
Made ==
  {b \in [text : Clean, capacity : Int] :
     \/ b.capacity = -1
     \/ Len(b.text) + 1 <= b.capacity /\ b.capacity <= SIZE_MAX}

Methods == {"", "GET", "HEAD"}

\* Requests and pages.
TextInv ==
  /\ fs \in Worlds
  /\ pc \in {"idle", "parse", "root", "target", "stat", "listing", "answered"}
  /\ request_path \in Seq(Int) /\ Len(request_path) < HTTP_PATH_MAX
  /\ Len(resolved_path) < FILE_PATH_MAX
  /\ raw \in Seq(Int) /\ url \in Seq(Int) /\ page \in Clean
  /\ method \in Methods /\ clicks \in 0 .. MaxClicks /\ quiet \in BOOLEAN

\* Between the two looks of file_resolve_path there is no path yet; when there
\* is one, it has passed the check against the root that was found.
PathInv ==
  /\ root \in Seq(Int) /\ resolved_path \in Seq(Int)
  /\ pc \in {"parse", "root", "target"} => resolved_path = <<>>
  /\ resolved_path # <<>> => path_has_prefix(resolved_path, root)

\* The table: as many entries as fit, and no name twice, read or to be read.
TableInv ==
  /\ dirp \subseteq NameSet
  /\ entries \in Seq(EntrySet)
  /\ entry_capacity \in Nat /\ Len(entries) <= entry_capacity
  /\ next \in 0 .. Len(entries)
  /\ \A i, j \in 1 .. Len(entries) : entries[i].name = entries[j].name => i = j
  /\ \A i \in 1 .. Len(entries) : entries[i].name \notin dirp

\* The names in the table, and those a listing has to show while the file
\* system stands still.
Listed == {entries[i].name : i \in 1 .. Len(entries)}
Unhidden(names) == {name \in names : name[1] # DOT}
Visible == Unhidden(Children(Walk(fs, <<>>, Components(resolved_path)).at))

\* The entries are in the order of strcmp, and the directories are known.
Ordered == \A i, j \in 1 .. Len(entries) : i < j => Before(entries[i].name, entries[j].name)
Marked == \A i \in 1 .. Len(entries) :
            entries[i].is_directory <=> IsDirectoryChild(entries[i].name)

\* What is read and what is still to be read make up the directory; what is
\* read is in order once nothing is left.
FilledInv ==
  /\ step # "idle" => pc = "listing"
  /\ step \in {"title", "items"} => dirp = {} /\ Ordered
  /\ step \in {"read", "title", "items"} /\ quiet =>
       Unhidden(dirp) \cup Listed = Visible /\ Marked

\* The table a page is written from: the directories in it are in order, and
\* the files.
Grouped ==
  \A i, j \in 1 .. Len(entries) :
    i < j /\ entries[i].is_directory = entries[j].is_directory =>
      Before(entries[i].name, entries[j].name)
TableIsDirectory ==
  step \in {"title", "items"} => Grouped /\ (quiet => Listed = Visible /\ Marked)

\* What there is at each point of file_build_directory_listing.
StepInv ==
  /\ step \in {"idle", "read", "title", "items", "footer", "built", "failed"}
  /\ step \in {"idle", "failed", "footer", "built"} =>
       entries = <<>> /\ entry_capacity = 0 /\ next = 0
  /\ step \in {"idle", "failed", "read", "title"} => builder = NoBuilder
  /\ step \in {"items", "footer", "built"} => builder \in Made /\ builder.capacity # -1

\* What is allocated is what the variables point to.
HeapInv ==
  /\ heap \in [dirs : Int, tables : Int, names : Int, data : Int]
  /\ heap.dirs = IF step = "read" THEN 1 ELSE 0
  /\ heap.tables = IF entry_capacity = 0 THEN 0 ELSE 1
  /\ heap.names = Len(entries)
  /\ heap.data = IF builder.capacity = 0 THEN 0 ELSE 1

ListInv == TableInv /\ StepInv /\ HeapInv
RequestInv == TextInv /\ ListInv
-----------------------------------------------------------------------------
(* The string                                                              *)

LEMMA NatMin ==
  ASSUME NEW S, S \subseteq Nat, S # {}
  PROVE  Min(S) \in S /\ \A y \in S : Min(S) <= y
<1>1. PICK x \in S : \A y \in S : ~(<<y, x>> \in OpToRel(<, Nat))
  BY NatLessThanWellFounded, WFMin
<1>2. ASSUME NEW y \in S PROVE x <= y
  <2>1. x \in Nat /\ y \in Nat
    OBVIOUS
  <2>2. y < x => <<y, x>> \in OpToRel(<, Nat)
    BY <2>1 DEF OpToRel
  <2>3. ~(y < x)
    BY <1>1, <2>2
  <2> QED
    BY <2>1, <2>3
<1>3. \E z \in S : \A y \in S : z <= y
  BY <1>2
<1> QED
  BY <1>3 DEF Min

LEMMA NatSet ==
  ASSUME NEW S, S \subseteq Nat, 0 \in S, \A n \in Nat : n \in S => n + 1 \in S
  PROVE  S = Nat
<1> DEFINE T == Nat \ S
<1>1. SUFFICES ASSUME T # {} PROVE FALSE
  OBVIOUS
<1>2. PICK x \in T : \A y \in T : ~(<<y, x>> \in OpToRel(<, Nat))
  BY <1>1, NatLessThanWellFounded, WFMin
<1>3. x # 0 /\ x - 1 \in Nat /\ x - 1 + 1 = x
  OBVIOUS
<1>4. x - 1 \in T
  BY <1>3
<1>5. <<x - 1, x>> \in OpToRel(<, Nat)
  BY <1>3 DEF OpToRel
<1> QED
  BY <1>2, <1>4, <1>5

\* The loop that doubles ends at a size that fits and that size_t holds.
LEMMA GrownFits ==
  ASSUME NEW capacity, NEW required \in Nat, required <= SIZE_MAX
  PROVE  Grown(capacity, required) \in required .. SIZE_MAX
<1> DEFINE doubled ==
      {n \in required .. SIZE_MAX : \E k \in 0 .. SizeBits : n = capacity * 2 ^ k}
<1>1. Grown(capacity, required) = IF doubled = {} THEN required ELSE Min(doubled)
  BY Zenon DEF Grown
<1>2. doubled \subseteq required .. SIZE_MAX
  BY Zenon
<1> HIDE DEF doubled
<1>3. doubled \subseteq Nat /\ SIZE_MAX \in Nat
  <2>1. SIZE_MAX \in Nat
    BY ListingAssumption, Zenon
  <2> QED
    BY <1>2, <2>1
<1>4. CASE doubled = {}
  BY <1>1, <1>3, <1>4
<1>5. CASE doubled # {}
  <2>1. Min(doubled) \in doubled
    BY <1>3, <1>5, NatMin
  <2>2. Grown(capacity, required) = Min(doubled)
    BY <1>1, <1>5, Zenon
  <2> QED
    BY <1>2, <2>1, <2>2, Zenon
<1> QED
  BY <1>4, <1>5

LEMMA ConcatClean ==
  ASSUME NEW s \in Clean, NEW t \in Clean
  PROVE  s \o t \in Clean /\ Len(s \o t) = Len(s) + Len(t)
<1>1. s \in Seq(Int) /\ t \in Seq(Int) /\ Len(s) \in Nat /\ Len(t) \in Nat
  BY DEF Clean
<1>2. /\ s \o t \in Seq(Int) /\ Len(s \o t) = Len(s) + Len(t)
      /\ \A i \in 1 .. Len(s) + Len(t) : (s \o t)[i] = IF i <= Len(s) THEN s[i] ELSE t[i - Len(s)]
  BY <1>1, ConcatProperties
<1>3. ASSUME NEW i \in 1 .. Len(s) + Len(t)
      PROVE  (s \o t)[i] \notin {34, 38, 60, 62}
  <2>1. CASE i <= Len(s)
    <3>1. i \in 1 .. Len(s)
      BY <1>1, <2>1
    <3> QED
      BY <1>2, <2>1, <3>1 DEF Clean
  <2>2. CASE ~(i <= Len(s))
    <3>1. i - Len(s) \in 1 .. Len(t)
      BY <1>1, <2>2
    <3> QED
      BY <1>2, <2>2, <3>1 DEF Clean
  <2> QED
    BY <2>1, <2>2
<1> QED
  BY <1>2, <1>3 DEF Clean

LEMMA AppendMade ==
  ASSUME NEW b \in Made \cup {NoBuilder}, NEW piece \in Clean
  PROVE  builder_append(b, piece) \in Made
<1>0. SIZE_MAX \in Nat
  BY ListingAssumption, Zenon
<1>1. /\ b = [text |-> b.text, capacity |-> b.capacity]
      /\ b.text \in Clean /\ b.capacity \in Int
  <2>1. <<>> \in Clean
    BY DEF Clean
  <2> QED
    BY <2>1 DEF Made, NoBuilder
<1>2. Len(b.text) \in Nat /\ Len(piece) \in Nat
  BY <1>1 DEF Clean
<1> DEFINE required == Len(b.text) + Len(piece) + 1
           first == IF b.capacity = 0 THEN InitialCapacity ELSE b.capacity
           c == IF required <= b.capacity THEN b.capacity ELSE Grown(first, required)
<1>3. CASE b.capacity = -1 \/ Len(piece) > SIZE_MAX - Len(b.text) - 1
  <2>1. builder_append(b, piece) = [b EXCEPT !.capacity = -1]
    BY <1>3, Zenon DEF builder_append
  <2>2. [b EXCEPT !.capacity = -1] = [text |-> b.text, capacity |-> -1]
    BY <1>1
  <2>3. [text |-> b.text, capacity |-> -1] \in Made
    BY <1>1 DEF Made
  <2> QED
    BY <2>1, <2>2, <2>3
<1>4. CASE ~(b.capacity = -1 \/ Len(piece) > SIZE_MAX - Len(b.text) - 1)
  <2>1. builder_append(b, piece) = [text |-> b.text \o piece, capacity |-> c]
    BY <1>4, Zenon DEF builder_append
  <2>2. b.text \o piece \in Clean /\ Len(b.text \o piece) = Len(b.text) + Len(piece)
    BY <1>1, ConcatClean
  <2>3. required \in Nat /\ required <= SIZE_MAX
    BY <1>0, <1>2, <1>4
  <2>4. b.capacity <= SIZE_MAX
    BY <1>0, <1>4 DEF Made, NoBuilder
  <2>5. c \in required .. SIZE_MAX
    BY <1>0, <1>1, <2>3, <2>4, GrownFits
  <2> HIDE DEF c
  <2>6. Len(b.text \o piece) + 1 <= c /\ c <= SIZE_MAX /\ c \in Int
    BY <1>0, <1>2, <2>2, <2>3, <2>5
  <2>7. [text |-> b.text \o piece, capacity |-> c] \in Made
    BY <2>2, <2>6 DEF Made
  <2> QED
    BY <2>1, <2>7
<1> QED
  BY <1>3, <1>4

\* w holds the builder after the first 0 .. n pieces.
Writes(pieces, w, n) ==
  w = [k \in 0 .. n |-> IF k = 0 THEN builder ELSE builder_append(w[k - 1], pieces[k])]

LEMMA WritesExist ==
  ASSUME NEW pieces, NEW m \in Nat
  PROVE  \E w : Writes(pieces, w, m)
<1> DEFINE S == {n \in Nat : \E w : Writes(pieces, w, n)}
<1>1. 0 \in S
  <2> DEFINE w == [k \in 0 .. 0 |-> builder]
  <2>1. \A k \in 0 .. 0 : k = 0
    OBVIOUS
  <2>2. Writes(pieces, w, 0)
    BY <2>1 DEF Writes
  <2> QED
    BY <2>2
<1>2. ASSUME NEW n \in Nat, n \in S PROVE n + 1 \in S
  <2>1. PICK v : Writes(pieces, v, n)
    BY <1>2
  <2>2. /\ v[0] = builder
        /\ \A k \in 1 .. n : v[k] = builder_append(v[k - 1], pieces[k])
    <3>1. \A k \in 0 .. n : v[k] = IF k = 0 THEN builder ELSE builder_append(v[k - 1], pieces[k])
      BY <2>1 DEF Writes
    <3> QED
      BY <3>1
  <2> DEFINE w == [k \in 0 .. n + 1 |->
                    IF k <= n THEN v[k] ELSE builder_append(v[n], pieces[n + 1])]
  <2>5. \A k \in 0 .. n + 1 :
          w[k] = IF k = 0 THEN builder ELSE builder_append(w[k - 1], pieces[k])
    <3> SUFFICES ASSUME NEW k \in 0 .. n + 1
                 PROVE  w[k] = IF k = 0 THEN builder ELSE builder_append(w[k - 1], pieces[k])
      OBVIOUS
    <3>1. CASE k = 0
      BY <2>2, <3>1
    <3>2. CASE k \in 1 .. n
      BY <2>2, <3>2
    <3>3. CASE k = n + 1
      BY <3>3
    <3> QED
      BY <3>1, <3>2, <3>3
  <2>6. w = [k \in 0 .. n + 1 |-> w[k]]
    OBVIOUS
  <2> HIDE DEF w
  <2>7. Writes(pieces, w, n + 1)
    BY <2>5, <2>6 DEF Writes
  <2> QED
    BY <2>7
<1> HIDE DEF S
<1>3. S = Nat
  <2>1. S \subseteq Nat
    BY DEF S
  <2> QED
    BY <1>1, <1>2, <2>1, NatSet
<1> QED
  BY <1>3 DEF S

LEMMA WrittenMade ==
  ASSUME NEW pieces \in Seq(Clean), pieces # <<>>, builder \in Made \cup {NoBuilder}
  PROVE  Written(pieces) \in Made
<1>l. Len(pieces) \in Nat /\ Len(pieces) # 0
  BY EmptySeq
<1> DEFINE c == CHOOSE w : Writes(pieces, w, Len(pieces))
<1>1. Written(pieces) = c[Len(pieces)]
  BY DEF Written, Writes
<1>2. Writes(pieces, c, Len(pieces))
  BY <1>l, WritesExist
<1> HIDE DEF c
<1>3. /\ c[0] = builder
      /\ \A k \in 1 .. Len(pieces) : c[k] = builder_append(c[k - 1], pieces[k])
  <2>1. \A k \in 0 .. Len(pieces) :
          c[k] = IF k = 0 THEN builder ELSE builder_append(c[k - 1], pieces[k])
    BY <1>2 DEF Writes
  <2> QED
    BY <1>l, <2>1
<1> DEFINE S == {n \in Nat : n <= Len(pieces) =>
                   c[n] \in Made \cup {NoBuilder} /\ (n # 0 => c[n] \in Made)}
<1>4. 0 \in S
  BY <1>3
<1>5. ASSUME NEW n \in Nat, n \in S PROVE n + 1 \in S
  <2> SUFFICES ASSUME n + 1 <= Len(pieces) PROVE c[n + 1] \in Made
    OBVIOUS
  <2>1. n + 1 \in 1 .. Len(pieces) /\ (n + 1) - 1 = n
    BY <1>l
  <2>2. c[n] \in Made \cup {NoBuilder}
    BY <1>5, <1>l
  <2>3. pieces[n + 1] \in Clean
    BY <2>1, ElementOfSeq
  <2>4. builder_append(c[n], pieces[n + 1]) \in Made
    BY <2>2, <2>3, AppendMade
  <2> QED
    BY <1>3, <2>1, <2>4
<1> HIDE DEF S
<1>6. S = Nat
  <2>1. S \subseteq Nat
    BY DEF S
  <2> QED
    BY <1>4, <1>5, <2>1, NatSet
<1>7. c[Len(pieces)] \in Made
  BY <1>6, <1>l DEF S
<1> QED
  BY <1>1, <1>7

\* The pieces of a page.
LEMMA OnePiece ==
  ASSUME NEW s \in Clean
  PROVE  <<s>> \in Seq(Clean)
  OBVIOUS

LEMMA FixedPieces ==
  {TITLE, HEADING, LIST, ITEM, LABEL, ITEM_END, FOOTER, <<SLASH>>} \subseteq Clean
  BY DEF Clean, TITLE, HEADING, LIST, ITEM, LABEL, ITEM_END, FOOTER, SLASH

LEMMA HtmlEscaped ==
  ASSUME NEW text \in Seq(Int)
  PROVE  html_escaped(text) \in Seq(Clean)
<1>1. ASSUME NEW i \in 1 .. Len(text)
      PROVE  (IF IsMarkup(text[i]) THEN <<-text[i]>> ELSE <<text[i]>>) \in Clean
  <2>1. text[i] \in Int
    BY ElementOfSeq
  <2> DEFINE x == IF IsMarkup(text[i]) THEN -text[i] ELSE text[i]
  <2>2. x \in Int /\ x \notin {34, 38, 60, 62}
    BY <2>1 DEF IsMarkup
  <2>3. (IF IsMarkup(text[i]) THEN <<-text[i]>> ELSE <<text[i]>>) = <<x>>
    OBVIOUS
  <2> HIDE DEF x
  <2>4. <<x>> \in Clean
    BY <2>2 DEF Clean
  <2> QED
    BY <2>3, <2>4
<1>2. Len(text) \in Nat
  OBVIOUS
<1> QED
  BY <1>1, <1>2, SeqDef DEF html_escaped

LEMMA UrlEscaped ==
  ASSUME NEW text \in NameSet
  PROVE  url_escaped(text) \in Seq(Clean)
<1> DEFINE piece(c) == IF is_url_unreserved(c) THEN <<c>>
                       ELSE <<PERCENT, HexDigit(c \div 16), HexDigit(c % 16)>>
<1>1. ASSUME NEW c \in 1 .. 255 PROVE piece(c) \in Clean
  <2>1. CASE is_url_unreserved(c)
    <3>1. c \in Int /\ c \notin {34, 38, 60, 62}
      BY <2>1 DEF is_url_unreserved
    <3> QED
      BY <2>1, <3>1 DEF Clean
  <2>2. CASE ~is_url_unreserved(c)
    <3>1. c \div 16 \in 0 .. 15 /\ c % 16 \in 0 .. 15
      OBVIOUS
    <3>2. \A n \in 0 .. 15 : HexDigit(n) \in Int /\ HexDigit(n) \notin {34, 38, 60, 62}
      BY DEF HexDigit
    <3> DEFINE h == HexDigit(c \div 16)
               l == HexDigit(c % 16)
    <3>3. /\ h \in Int /\ h \notin {34, 38, 60, 62}
          /\ l \in Int /\ l \notin {34, 38, 60, 62}
      BY <3>1, <3>2
    <3> HIDE DEF h, l
    <3>4. <<PERCENT, h, l>> \in Clean
      BY <3>3 DEF Clean, PERCENT
    <3> QED
      BY <2>2, <3>4 DEF h, l
  <2> QED
    BY <2>1, <2>2
<1>2. Len(text) \in Nat /\ \A i \in 1 .. Len(text) : text[i] \in 1 .. 255
  BY ElementOfSeq DEF NameSet
<1>3. url_escaped(text) = [i \in 1 .. Len(text) |-> piece(text[i])]
  BY DEF url_escaped
<1> HIDE DEF piece
<1>4. \A i \in 1 .. Len(text) : piece(text[i]) \in Clean
  BY <1>1, <1>2
<1> QED
  BY <1>2, <1>3, <1>4, SeqDef

LEMMA JoinPieces ==
  ASSUME NEW s \in Seq(Clean), NEW t \in Seq(Clean)
  PROVE  s \o t \in Seq(Clean) /\ (s # <<>> => s \o t # <<>>)
<1>1. s \o t \in Seq(Clean) /\ Len(s \o t) = Len(s) + Len(t)
  BY ConcatProperties
<1>2. Len(s) \in Nat /\ Len(t) \in Nat
  OBVIOUS
<1>3. s # <<>> => Len(s) # 0
  BY EmptySeq
<1>4. ASSUME s # <<>> PROVE s \o t # <<>>
  <2>1. Len(s \o t) # 0
    BY <1>1, <1>2, <1>3, <1>4
  <2> QED
    BY <2>1
<1> QED
  BY <1>1, <1>4

LEMMA Wider ==
  ASSUME NEW S, NEW T, S \subseteq T, NEW s \in Seq(S)
  PROVE  s \in Seq(T)
<1>1. Len(s) \in Nat /\ s = [i \in 1 .. Len(s) |-> s[i]]
  OBVIOUS
<1>2. \A i \in 1 .. Len(s) : s[i] \in T
  BY ElementOfSeq
<1> QED
  BY <1>1, <1>2, SeqDef

LEMMA TitleClean ==
  ASSUME request_path \in Seq(Int)
  PROVE  Title \in Seq(Clean) /\ Title # <<>>
<1> DEFINE h == html_escaped(request_path)
<1>1. h \in Seq(Clean)
  BY HtmlEscaped
<1>2. Title = <<TITLE>> \o h \o <<HEADING>> \o h \o <<LIST>>
  BY DEF Title
<1>3. <<TITLE>> \in Seq(Clean) /\ <<HEADING>> \in Seq(Clean) /\ <<LIST>> \in Seq(Clean)
  BY FixedPieces, OnePiece
<1>4. <<TITLE>> # <<>>
  OBVIOUS
<1> HIDE DEF h
<1>5. <<TITLE>> \o h \in Seq(Clean) /\ <<TITLE>> \o h # <<>>
  BY <1>1, <1>3, <1>4, JoinPieces
<1>6. <<TITLE>> \o h \o <<HEADING>> \in Seq(Clean) /\ <<TITLE>> \o h \o <<HEADING>> # <<>>
  BY <1>3, <1>5, JoinPieces
<1>7. /\ <<TITLE>> \o h \o <<HEADING>> \o h \in Seq(Clean)
      /\ <<TITLE>> \o h \o <<HEADING>> \o h # <<>>
  BY <1>1, <1>6, JoinPieces
<1> QED
  BY <1>2, <1>3, <1>7, JoinPieces

LEMMA ItemClean ==
  ASSUME NEW e \in EntrySet
  PROVE  Item(e) \in Seq(Clean) /\ Item(e) # <<>>
<1> DEFINE slash == IF e.is_directory THEN <<<<SLASH>>>> ELSE <<>>
           u == url_escaped(e.name)
           h == html_escaped(e.name)
<1>n. e.name \in NameSet
  BY DEF EntrySet
<1>i. e.name \in Seq(Int)
  <2> DEFINE B == 1 .. 255
             s == e.name
  <2>1. B \subseteq Int
    OBVIOUS
  <2>2. s \in Seq(B)
    BY <1>n, Zenon DEF NameSet
  <2> HIDE DEF B, s
  <2>3. s \in Seq(Int)
    BY <2>1, <2>2, Wider
  <2> QED
    BY <2>3 DEF s
<1>1. u \in Seq(Clean) /\ h \in Seq(Clean)
  BY <1>n, <1>i, UrlEscaped, HtmlEscaped
<1>2. slash \in Seq(Clean)
  <2>1. <<<<SLASH>>>> \in Seq(Clean)
    BY FixedPieces, OnePiece
  <2>2. <<>> \in Seq(Clean)
    OBVIOUS
  <2> QED
    BY <2>1, <2>2
<1>3. <<ITEM>> \in Seq(Clean) /\ <<LABEL>> \in Seq(Clean) /\ <<ITEM_END>> \in Seq(Clean)
  BY FixedPieces, OnePiece
<1>4. Item(e) = <<ITEM>> \o u \o slash \o <<LABEL>> \o h \o slash \o <<ITEM_END>>
  BY DEF Item
<1>5. <<ITEM>> # <<>>
  OBVIOUS
<1> HIDE DEF u, h, slash
<1>6. <<ITEM>> \o u \in Seq(Clean) /\ <<ITEM>> \o u # <<>>
  BY <1>1, <1>3, <1>5, JoinPieces
<1>7. <<ITEM>> \o u \o slash \in Seq(Clean) /\ <<ITEM>> \o u \o slash # <<>>
  BY <1>2, <1>6, JoinPieces
<1>8. /\ <<ITEM>> \o u \o slash \o <<LABEL>> \in Seq(Clean)
      /\ <<ITEM>> \o u \o slash \o <<LABEL>> # <<>>
  BY <1>3, <1>7, JoinPieces
<1>9. /\ <<ITEM>> \o u \o slash \o <<LABEL>> \o h \in Seq(Clean)
      /\ <<ITEM>> \o u \o slash \o <<LABEL>> \o h # <<>>
  BY <1>1, <1>8, JoinPieces
<1>10. /\ <<ITEM>> \o u \o slash \o <<LABEL>> \o h \o slash \in Seq(Clean)
       /\ <<ITEM>> \o u \o slash \o <<LABEL>> \o h \o slash # <<>>
  BY <1>2, <1>9, JoinPieces
<1> QED
  BY <1>3, <1>4, <1>10, JoinPieces
-----------------------------------------------------------------------------
(* The parser                                                              *)

LEMMA Part ==
  ASSUME NEW s \in Seq(Int), NEW m \in Int, NEW n \in Int, 1 <= m, n <= Len(s)
  PROVE  SubSeq(s, m, n) \in Seq(Int) /\ Len(SubSeq(s, m, n)) = IF m <= n THEN n - m + 1 ELSE 0
<1>1. Len(s) \in Nat
  OBVIOUS
<1>2. \A i \in m .. n : i \in 1 .. Len(s)
  BY <1>1
<1>3. \A i \in m .. n : s[i] \in Int
  BY <1>2, ElementOfSeq
<1> QED
  BY <1>3, SubSeqProperties

LEMMA Found ==
  ASSUME NEW s \in Seq(Int), NEW b
  PROVE  memchr(s, b) \in 0 .. Len(s)
<1> DEFINE I == {i \in 1 .. Len(s) : s[i] = b}
<1>1. memchr(s, b) = IF I # {} THEN Min(I) ELSE 0
  BY Zenon DEF memchr, SelectInSeq
<1>2. I \subseteq 1 .. Len(s) /\ Len(s) \in Nat
  OBVIOUS
<1> HIDE DEF I
<1>3. I \subseteq Nat
  BY <1>2
<1>4. I # {} => Min(I) \in I
  BY <1>3, NatMin
<1>5. CASE I = {}
  BY <1>1, <1>2, <1>5
<1>6. CASE I # {}
  <2>1. memchr(s, b) = Min(I)
    BY <1>1, <1>6, Zenon
  <2>2. memchr(s, b) \in 1 .. Len(s)
    BY <1>2, <1>4, <1>6, <2>1, Zenon
  <2> QED
    BY <1>2, <2>2
<1> QED
  BY <1>5, <1>6

LEMMA CStringType ==
  ASSUME NEW s \in Seq(Int)
  PROVE  CString(s) \in Seq(Int) /\ Len(CString(s)) <= Len(s)
<1>1. memchr(s, NUL) \in 0 .. Len(s) /\ Len(s) \in Nat
  BY Found
<1> DEFINE m == memchr(s, NUL)
<1>2. CString(s) = IF m = 0 THEN s ELSE SubSeq(s, 1, m - 1)
  BY DEF CString, First
<1> HIDE DEF m
<1>3. m \in 0 .. Len(s)
  BY <1>1 DEF m
<1>4. CASE m = 0
  BY <1>1, <1>2, <1>4
<1>5. CASE m # 0
  <2>1. m - 1 \in Int /\ m - 1 <= Len(s) /\ 1 <= 1
    BY <1>1, <1>3
  <2>2. /\ SubSeq(s, 1, m - 1) \in Seq(Int)
        /\ Len(SubSeq(s, 1, m - 1)) = IF 1 <= m - 1 THEN m - 1 - 1 + 1 ELSE 0
    BY <2>1, Part
  <2>3. Len(SubSeq(s, 1, m - 1)) <= Len(s)
    BY <1>1, <1>3, <2>2
  <2> QED
    BY <1>2, <1>5, <2>2, <2>3
<1> QED
  BY <1>4, <1>5

\* What copy_bounded copies leaves room for the terminator.
LEMMA CopyBounded ==
  ASSUME NEW src \in Seq(Int), NEW size \in Nat \ {0}
  PROVE  copy_bounded(src, size) \in Seq(Int) /\ Len(copy_bounded(src, size)) < size
<1> DEFINE n == IF Len(src) >= size THEN size - 1 ELSE Len(src)
           t == SubSeq(src, 1, n)
<1>1. Len(src) \in Nat
  OBVIOUS
<1>2. n \in Nat /\ n <= Len(src) /\ n < size
  BY <1>1
<1>3. copy_bounded(src, size) = CString(t)
  BY DEF copy_bounded, First
<1> HIDE DEF n
<1>4. t \in Seq(Int) /\ Len(t) = IF 1 <= n THEN n - 1 + 1 ELSE 0
  BY <1>2, Part
<1> HIDE DEF t
<1>5. CString(t) \in Seq(Int) /\ Len(CString(t)) <= Len(t)
  BY <1>4, CStringType
<1>6. Len(t) \in Nat /\ Len(t) < size /\ Len(CString(t)) \in Nat
  BY <1>2, <1>4, <1>5
<1>7. Len(CString(t)) < size
  BY <1>5, <1>6
<1> QED
  BY <1>3, <1>5, <1>7

LEMMA CrlfFound ==
  ASSUME NEW s \in Seq(Int)
  PROVE  find_crlf(s) \in 0 .. Len(s) /\ Len(s) \in Nat
<1>1. Len(s) \in Nat
  OBVIOUS
<1>2. Crlfs(s) \subseteq 1 .. Len(s)
  BY <1>1 DEF Crlfs
<1>3. Crlfs(s) \subseteq Nat
  BY <1>2
<1>4. CASE Crlfs(s) = {}
  BY <1>1, <1>4 DEF find_crlf
<1>5. CASE Crlfs(s) # {}
  <2>1. Min(Crlfs(s)) \in Crlfs(s)
    BY <1>3, <1>5, NatMin
  <2>2. find_crlf(s) = Min(Crlfs(s))
    BY <1>5, Zenon DEF find_crlf
  <2>3. find_crlf(s) \in 1 .. Len(s)
    BY <1>2, <2>1, <2>2, Zenon
  <2> QED
    BY <1>1, <2>3
<1> QED
  BY <1>4, <1>5

LEMMA SpacesFound ==
  ASSUME NEW line \in Seq(Int)
  PROVE  /\ FirstSpace(line) \in 0 .. Len(line)
         /\ SecondSpace(line) \in 0 .. Len(line)
         /\ Len(line) \in Nat
<1> DEFINE sp == FirstSpace(line)
           rest == SubSeq(line, sp + 1, Len(line))
           more == memchr(rest, SP)
<1>1. sp \in 0 .. Len(line) /\ Len(line) \in Nat
  BY Found DEF FirstSpace
<1>2. SecondSpace(line) = IF sp = 0 \/ more = 0 THEN 0 ELSE sp + more
  BY DEF SecondSpace, From
<1> HIDE DEF sp
<1>3. rest \in Seq(Int) /\ Len(rest) = IF sp + 1 <= Len(line) THEN Len(line) - (sp + 1) + 1 ELSE 0
  <2>1. sp + 1 \in Int /\ 1 <= sp + 1 /\ Len(line) <= Len(line)
    BY <1>1
  <2> QED
    BY <1>1, <2>1, Part
<1> HIDE DEF rest
<1>4. more \in 0 .. Len(rest) /\ Len(rest) \in Nat
  BY <1>3, Found
<1> HIDE DEF more
<1>5. SecondSpace(line) \in 0 .. Len(line)
  BY <1>1, <1>2, <1>3, <1>4
<1> QED
  BY <1>1, <1>5 DEF sp

LEMMA ParseRequestType ==
  ASSUME NEW block \in Seq(Int), http_parse_request(block).ok
  PROVE  LET r == http_parse_request(block)
         IN /\ r.method \in {"GET", "HEAD", "UNSUPPORTED"}
            /\ r.path \in Seq(Int) /\ Len(r.path) < HTTP_PATH_MAX
<1> DEFINE e == find_crlf(block)
           line == SubSeq(block, 1, e - 1)
           sp1 == FirstSpace(line)
           sp2 == SecondSpace(line)
           target == SubSeq(line, sp1 + 1, sp2 - 1)
           query == memchr(target, QUESTION)
           path == IF query = 0 THEN target ELSE SubSeq(target, 1, query - 1)
           version == parse_version(copy_bounded(From(line, sp2 + 1), HTTP_VERSION_TEXT_MAX))
           word == parse_method(copy_bounded(First(line, sp1 - 1), HTTP_METHOD_TEXT_MAX))
           kept == keep_alive_requested(version, parse_headers(From(block, e + 2)))
           bad == \/ e = 0 \/ sp1 <= 1 \/ sp2 <= sp1 + 1 \/ sp2 = Len(line)
                  \/ path = <<>> \/ version = "UNKNOWN"
           r == http_parse_request(block)
<1>1. r = IF bad THEN BadRequest
          ELSE [ok |-> TRUE, method |-> word, path |-> copy_bounded(path, HTTP_PATH_MAX),
                version |-> version, keep_alive_requested |-> kept]
  BY DEF http_parse_request, First
<1>m. word \in {"GET", "HEAD", "UNSUPPORTED"}
  BY DEF parse_method
<1> HIDE DEF bad, word, version, kept, r
<1>2. /\ ~bad
      /\ r = [ok |-> TRUE, method |-> word, path |-> copy_bounded(path, HTTP_PATH_MAX),
              version |-> version, keep_alive_requested |-> kept]
  <2>1. ~BadRequest.ok
    BY DEF BadRequest
  <2>2. r.ok
    BY DEF r
  <2> QED
    BY <1>1, <2>1, <2>2
<1>3. e \in 0 .. Len(block) /\ Len(block) \in Nat
  BY CrlfFound
<1>4. line \in Seq(Int)
  <2>1. e - 1 \in Int /\ e - 1 <= Len(block)
    BY <1>3
  <2> QED
    BY <2>1, Part
<1> HIDE DEF e, line
<1>5. sp1 \in 0 .. Len(line) /\ sp2 \in 0 .. Len(line) /\ Len(line) \in Nat
  BY <1>4, SpacesFound
<1> HIDE DEF sp1, sp2
<1>6. target \in Seq(Int)
  <2>1. sp1 + 1 \in Int /\ sp2 - 1 \in Int /\ 1 <= sp1 + 1 /\ sp2 - 1 <= Len(line)
    BY <1>5
  <2> QED
    BY <1>4, <2>1, Part
<1> HIDE DEF target
<1>7. query \in 0 .. Len(target) /\ Len(target) \in Nat
  BY <1>6, Found
<1> HIDE DEF query
<1>8. path \in Seq(Int)
  <2>1. query - 1 \in Int /\ query - 1 <= Len(target)
    BY <1>7
  <2>2. SubSeq(target, 1, query - 1) \in Seq(Int)
    BY <1>6, <2>1, Part
  <2> QED
    BY <1>6, <2>2
<1> HIDE DEF path
<1>9. HTTP_PATH_MAX \in Nat \ {0}
  BY HttpAssumption
<1>10. /\ copy_bounded(path, HTTP_PATH_MAX) \in Seq(Int)
       /\ Len(copy_bounded(path, HTTP_PATH_MAX)) < HTTP_PATH_MAX
  BY <1>8, <1>9, CopyBounded
<1>11. r.method = word /\ r.path = copy_bounded(path, HTTP_PATH_MAX)
  BY <1>2
<1>12. /\ r.method \in {"GET", "HEAD", "UNSUPPORTED"}
       /\ r.path \in Seq(Int) /\ Len(r.path) < HTTP_PATH_MAX
  BY <1>m, <1>10, <1>11
<1> QED
  BY <1>12 DEF r
-----------------------------------------------------------------------------
(* The order of strcmp, and the table it sorts                             *)

LEMMA AtType ==
  ASSUME NEW s \in NameSet, NEW i \in Int
  PROVE  /\ At(s, i) \in 0 .. 255
         /\ At(s, i) # 0 <=> i \in 1 .. Len(s)
         /\ i \in 1 .. Len(s) => At(s, i) = s[i]
<1>1. CASE i \in 1 .. Len(s)
  <2>1. s[i] \in 1 .. 255
    BY <1>1, ElementOfSeq DEF NameSet
  <2>2. At(s, i) = s[i]
    BY <1>1 DEF At
  <2>3. At(s, i) \in 0 .. 255 /\ At(s, i) # 0
    <3>1. \A x \in 1 .. 255 : x \in 0 .. 255 /\ x # 0
      OBVIOUS
    <3> QED
      BY <2>1, <2>2, <3>1
  <2> QED
    BY <1>1, <2>2, <2>3, Zenon
<1>2. CASE i \notin 1 .. Len(s)
  BY <1>2 DEF At
<1> QED
  BY <1>1, <1>2

LEMMA AtInt ==
  ASSUME NEW s \in NameSet
  PROVE  \A i \in Nat : At(s, i) \in Int
<1>1. ASSUME NEW i \in Nat PROVE At(s, i) \in Int
  <2>1. i \in Int
    OBVIOUS
  <2>2. At(s, i) \in 0 .. 255
    BY <2>1, AtType
  <2> QED
    BY <2>2
<1> QED
  BY <1>1

\* The terminator takes part in the comparison.
LEMMA BeforeIs ==
  ASSUME NEW s \in NameSet, NEW t \in NameSet
  PROVE  Before(s, t) <=> \E i \in Nat : /\ i # 0 /\ At(s, i) < At(t, i)
                                         /\ \A j \in 1 .. i - 1 : At(s, j) = At(t, j)
<1>l. Len(t) \in Nat
  BY DEF NameSet
<1>1. ASSUME Before(s, t)
      PROVE  \E i \in Nat : /\ i # 0 /\ At(s, i) < At(t, i)
                            /\ \A j \in 1 .. i - 1 : At(s, j) = At(t, j)
  <2>1. PICK i \in 1 .. Len(t) : At(s, i) < t[i] /\ \A j \in 1 .. i - 1 : At(s, j) = t[j]
    BY <1>1 DEF Before
  <2>2. i \in Nat /\ i # 0 /\ At(t, i) = t[i]
    BY <1>l DEF At
  <2>3. \A j \in 1 .. i - 1 : At(t, j) = t[j]
    BY <1>l DEF At
  <2> QED
    BY <2>1, <2>2, <2>3
<1>2. ASSUME NEW i \in Nat, i # 0, At(s, i) < At(t, i),
             \A j \in 1 .. i - 1 : At(s, j) = At(t, j)
      PROVE  Before(s, t)
  <2>1. At(s, i) \in 0 .. 255 /\ At(t, i) \in 0 .. 255
    BY AtType
  <2>2. At(t, i) # 0
    BY <1>2, <2>1
  <2>3. i \in 1 .. Len(t)
    BY <2>2, AtType
  <2>4. At(t, i) = t[i] /\ \A j \in 1 .. i - 1 : At(t, j) = t[j]
    BY <1>l, <2>3 DEF At
  <2> QED
    BY <1>2, <2>3, <2>4 DEF Before
<1> QED
  BY <1>1, <1>2

LEMMA BeforeIrreflexive ==
  ASSUME NEW s \in NameSet
  PROVE  ~Before(s, s)
<1>1. \A i \in Nat : ~(At(s, i) < At(s, i))
  BY AtInt
<1> QED
  BY <1>1, BeforeIs

LEMMA BeforeTransitive ==
  ASSUME NEW s \in NameSet, NEW t \in NameSet, NEW u \in NameSet,
         Before(s, t), Before(t, u)
  PROVE  Before(s, u)
<1>1. PICK i \in Nat : /\ i # 0 /\ At(s, i) < At(t, i)
                       /\ \A j \in 1 .. i - 1 : At(s, j) = At(t, j)
  BY BeforeIs
<1>2. PICK k \in Nat : /\ k # 0 /\ At(t, k) < At(u, k)
                       /\ \A j \in 1 .. k - 1 : At(t, j) = At(u, j)
  BY BeforeIs
<1>3. \A n \in Nat : At(s, n) \in Int /\ At(t, n) \in Int /\ At(u, n) \in Int
  BY AtInt
<1>4. CASE i < k
  <2>1. At(s, i) < At(u, i)
    <3>1. i \in 1 .. k - 1
      BY <1>1, <1>4
    <3> QED
      BY <1>1, <1>2, <1>3, <3>1
  <2>2. \A j \in 1 .. i - 1 : At(s, j) = At(u, j)
    BY <1>1, <1>2, <1>4
  <2> QED
    BY <1>1, <2>1, <2>2, BeforeIs
<1>5. CASE i = k
  <2>1. At(s, i) < At(u, i)
    BY <1>1, <1>2, <1>3, <1>5
  <2>2. \A j \in 1 .. i - 1 : At(s, j) = At(u, j)
    BY <1>1, <1>2, <1>5
  <2> QED
    BY <1>1, <2>1, <2>2, BeforeIs
<1>6. CASE i > k
  <2>1. At(s, k) < At(u, k)
    <3>1. k \in 1 .. i - 1
      BY <1>2, <1>6
    <3> QED
      BY <1>1, <1>2, <1>3, <3>1
  <2>2. \A j \in 1 .. k - 1 : At(s, j) = At(u, j)
    BY <1>1, <1>2, <1>6
  <2> QED
    BY <1>2, <2>1, <2>2, BeforeIs
<1> QED
  BY <1>4, <1>5, <1>6

LEMMA BeforeTotal ==
  ASSUME NEW s \in NameSet, NEW t \in NameSet, s # t
  PROVE  Before(s, t) \/ Before(t, s)
<1> DEFINE D == {i \in Nat : i # 0 /\ At(s, i) # At(t, i)}
<1>l. /\ Len(s) \in Nat /\ s = [i \in 1 .. Len(s) |-> s[i]]
      /\ Len(t) \in Nat /\ t = [i \in 1 .. Len(t) |-> t[i]]
  BY DEF NameSet
<1>1. ASSUME D = {} PROVE FALSE
  <2>1. \A i \in Nat : i # 0 => At(s, i) = At(t, i)
    BY <1>1
  <2>2. \A i \in Nat : i # 0 => (i \in 1 .. Len(s) <=> i \in 1 .. Len(t))
    BY <2>1, AtType
  <2>3. Len(s) = Len(t)
    <3> DEFINE a == Len(s)
               b == Len(t)
    <3>1. a \in Nat /\ b \in Nat
      BY <1>l
    <3>2. \A i \in Nat : i # 0 => (i \in 1 .. a <=> i \in 1 .. b)
      BY <2>2
    <3> HIDE DEF a, b
    <3>3. a # 0 => a \in 1 .. b
      BY <3>1, <3>2
    <3>4. b # 0 => b \in 1 .. a
      BY <3>1, <3>2
    <3>5. a = b
      BY <3>1, <3>3, <3>4
    <3> QED
      BY <3>5 DEF a, b
  <2>4. \A i \in 1 .. Len(s) : s[i] = t[i]
    <3> SUFFICES ASSUME NEW i \in 1 .. Len(s) PROVE s[i] = t[i]
      OBVIOUS
    <3>1. i \in Nat /\ i # 0
      BY <1>l
    <3>2. At(s, i) = s[i] /\ At(t, i) = t[i]
      BY <2>3 DEF At
    <3> QED
      BY <2>1, <3>1, <3>2
  <2>5. [i \in 1 .. Len(s) |-> s[i]] = [i \in 1 .. Len(t) |-> t[i]]
    BY <2>3, <2>4
  <2> QED
    BY <1>l, <2>5
<1> DEFINE m == Min(D)
<1>2. D \subseteq Nat
  OBVIOUS
<1>3. m \in D
  <2> HIDE DEF D
  <2> QED
    BY <1>1, <1>2, NatMin
<1>4. \A i \in D : m <= i
  <2> HIDE DEF D
  <2> QED
    BY <1>1, <1>2, NatMin
<1> HIDE DEF m
<1>5. m \in Nat /\ m # 0 /\ At(s, m) # At(t, m)
  BY <1>3
<1>6. \A j \in 1 .. m - 1 : At(s, j) = At(t, j)
  <2> SUFFICES ASSUME NEW j \in 1 .. m - 1, At(s, j) # At(t, j) PROVE FALSE
    OBVIOUS
  <2>1. j \in Nat /\ j # 0 /\ ~(m <= j)
    BY <1>5
  <2> QED
    BY <1>4, <2>1
<1>7. At(s, m) \in Int /\ At(t, m) \in Int
  BY <1>5, AtInt
<1>8. At(s, m) < At(t, m) \/ At(t, m) < At(s, m)
  BY <1>5, <1>7
<1> QED
  BY <1>5, <1>6, <1>8, BeforeIs

\* Sorting a table without two equal names moves its entries and changes
\* nothing else.
LEMMA SortedTable ==
  ASSUME NEW table \in Seq(EntrySet),
         \A i, j \in 1 .. Len(table) : table[i].name = table[j].name => i = j
  PROVE  /\ sorted(table) \in Seq(EntrySet) /\ Len(sorted(table)) = Len(table)
         /\ \A i, j \in 1 .. Len(table) :
              sorted(table)[i].name = sorted(table)[j].name => i = j
         /\ \A i, j \in 1 .. Len(table) :
              i < j => Before(sorted(table)[i].name, sorted(table)[j].name)
         /\ \A k \in 1 .. Len(table) : \E i \in 1 .. Len(table) : sorted(table)[k] = table[i]
         /\ \A i \in 1 .. Len(table) : \E k \in 1 .. Len(table) : sorted(table)[k] = table[i]
<1> DEFINE n == Len(table)
           P(i) == {j \in 1 .. n : Before(table[j].name, table[i].name)}
           rank == [i \in 1 .. n |-> 1 + Cardinality(P(i))]
<1>n. n \in Nat /\ DOMAIN table = 1 .. n
  OBVIOUS
<1>t. \A i \in 1 .. n : table[i] \in EntrySet /\ table[i].name \in NameSet
  <2>1. \A e \in EntrySet : e.name \in NameSet
    BY DEF EntrySet
  <2> QED
    BY <2>1, ElementOfSeq
<1>f. IsFiniteSet(1 .. n) /\ Cardinality(1 .. n) = n
  BY <1>n, FS_Interval
<1> HIDE DEF n
<1>1. \A i \in 1 .. n : i \notin P(i)
  BY <1>t, BeforeIrreflexive
<1>2. \A i \in 1 .. n : P(i) \subseteq 1 .. n /\ IsFiniteSet(P(i)) /\ Cardinality(P(i)) \in Nat
  <2> SUFFICES ASSUME NEW i \in 1 .. n
               PROVE  P(i) \subseteq 1 .. n /\ IsFiniteSet(P(i)) /\ Cardinality(P(i)) \in Nat
    OBVIOUS
  <2>1. P(i) \subseteq 1 .. n
    OBVIOUS
  <2> HIDE DEF P
  <2>2. IsFiniteSet(P(i))
    BY <1>f, <2>1, FS_Subset
  <2> QED
    BY <2>1, <2>2, FS_CardinalityType
<1>3. ASSUME NEW i \in 1 .. n, NEW j \in 1 .. n, Before(table[i].name, table[j].name)
      PROVE  Cardinality(P(i)) < Cardinality(P(j))
  <2>1. P(i) \subseteq P(j)
    BY <1>3, <1>t, BeforeTransitive
  <2>2. i \in P(j)
    BY <1>3
  <2> HIDE DEF P
  <2>3. P(i) # P(j)
    BY <1>1, <2>2
  <2>4. Cardinality(P(i)) <= Cardinality(P(j)) /\ Cardinality(P(j)) # Cardinality(P(i))
    BY <1>2, <2>1, <2>3, FS_Subset
  <2> QED
    BY <1>2, <2>4
<1>4. \A i \in 1 .. n : Cardinality(P(i)) < n
  <2> SUFFICES ASSUME NEW i \in 1 .. n PROVE Cardinality(P(i)) < n
    OBVIOUS
  <2> HIDE DEF P
  <2>1. /\ IsFiniteSet((1 .. n) \ {i})
        /\ Cardinality((1 .. n) \ {i}) = n - 1
    BY <1>f, FS_RemoveElement
  <2>2. P(i) \subseteq (1 .. n) \ {i}
    BY <1>1, <1>2
  <2>3. Cardinality(P(i)) <= n - 1
    BY <2>1, <2>2, FS_Subset
  <2> QED
    BY <1>n, <1>2, <2>3
<1>5. rank \in [1 .. n -> 1 .. n]
  <2> HIDE DEF P
  <2>1. \A i \in 1 .. n : 1 + Cardinality(P(i)) \in 1 .. n
    BY <1>n, <1>2, <1>4
  <2> QED
    BY <2>1
<1>6. \A i, j \in 1 .. n : rank[i] = rank[j] => i = j
  <2> SUFFICES ASSUME NEW i \in 1 .. n, NEW j \in 1 .. n, i # j
               PROVE  rank[i] # rank[j]
    OBVIOUS
  <2>1. table[i].name # table[j].name
    BY DEF n
  <2>2. Before(table[i].name, table[j].name) \/ Before(table[j].name, table[i].name)
    BY <1>t, <2>1, BeforeTotal
  <2>3. Cardinality(P(i)) # Cardinality(P(j))
    <3> HIDE DEF P
    <3> QED
      BY <1>2, <1>3, <2>2
  <2> HIDE DEF P
  <2>4. rank[i] = 1 + Cardinality(P(i)) /\ rank[j] = 1 + Cardinality(P(j))
    OBVIOUS
  <2> HIDE DEF rank
  <2> QED
    BY <1>2, <2>3, <2>4
<1>7. \A k \in 1 .. n : \E i \in 1 .. n : rank[i] = k
  <2> HIDE DEF rank
  <2>1. rank \in Injection(1 .. n, 1 .. n)
    BY <1>5, <1>6 DEF Injection, IsInjective
  <2>2. rank \in Surjection(1 .. n, 1 .. n)
    BY <1>f, <2>1, FS_Injection
  <2> QED
    BY <2>2 DEF Surjection
<1> DEFINE at == [k \in 1 .. n |-> CHOOSE i \in 1 .. n : rank[i] = k]
<1>8. \A k \in 1 .. n : at[k] \in 1 .. n /\ rank[at[k]] = k
  <2> HIDE DEF rank
  <2> QED
    BY <1>7
<1>9. sorted(table) = [k \in 1 .. n |-> table[at[k]]]
  <2>1. \A i \in 1 .. n :
          rank[i] = 1 + Cardinality({j \in 1 .. n : Before(table[j].name, table[i].name)})
    OBVIOUS
  <2> HIDE DEF rank
  <2>2. \A k \in 1 .. n :
          (CHOOSE i \in 1 .. n : rank[i] = k)
            = CHOOSE i \in 1 .. n :
                1 + Cardinality({j \in 1 .. n : Before(table[j].name, table[i].name)}) = k
    BY <2>1
  <2> DEFINE moved == [k \in 1 .. n |-> table[CHOOSE i \in 1 .. n :
                1 + Cardinality({j \in 1 .. n : Before(table[j].name, table[i].name)}) = k]]
  <2>3. sorted(table) = moved
    BY <1>n DEF sorted
  <2>4. \A k \in 1 .. n : moved[k] = table[at[k]]
    BY <2>2
  <2>5. moved = [k \in 1 .. n |-> moved[k]]
    OBVIOUS
  <2> HIDE DEF moved, at
  <2> QED
    BY <2>3, <2>4, <2>5
<1> HIDE DEF rank, at
<1>10. sorted(table) \in Seq(EntrySet) /\ Len(sorted(table)) = n
  <2>1. \A k \in 1 .. n : table[at[k]] \in EntrySet
    BY <1>8, <1>t
  <2>2. [k \in 1 .. n |-> table[at[k]]] \in Seq(EntrySet)
    BY <1>n, <2>1, SeqDef
  <2>3. DOMAIN [k \in 1 .. n |-> table[at[k]]] = 1 .. n
    OBVIOUS
  <2> QED
    BY <1>9, <1>n, <2>2, <2>3
<1>11. ASSUME NEW i \in 1 .. n, NEW j \in 1 .. n,
              sorted(table)[i].name = sorted(table)[j].name
       PROVE  i = j
  <2>1. table[at[i]].name = table[at[j]].name
    BY <1>9, <1>11
  <2>2. at[i] = at[j]
    BY <1>8, <2>1 DEF n
  <2> QED
    BY <1>8, <2>2
<1>12. ASSUME NEW i \in 1 .. n, NEW j \in 1 .. n, i < j
       PROVE  Before(sorted(table)[i].name, sorted(table)[j].name)
  <2> DEFINE x == at[i]
             y == at[j]
  <2>1. x \in 1 .. n /\ y \in 1 .. n /\ rank[x] = i /\ rank[y] = j
    BY <1>8
  <2> HIDE DEF x, y
  <2>2. x # y
    BY <1>n, <1>12, <2>1
  <2>3. table[x].name # table[y].name
    BY <2>1, <2>2 DEF n
  <2>4. Before(table[x].name, table[y].name) \/ Before(table[y].name, table[x].name)
    BY <1>t, <2>1, <2>3, BeforeTotal
  <2>5. ~Before(table[y].name, table[x].name)
    <3> SUFFICES ASSUME Before(table[y].name, table[x].name) PROVE FALSE
      OBVIOUS
    <3>1. Cardinality(P(y)) < Cardinality(P(x))
      BY <1>3, <2>1
    <3> HIDE DEF P
    <3>2. rank[x] = 1 + Cardinality(P(x)) /\ rank[y] = 1 + Cardinality(P(y))
      BY <2>1 DEF rank
    <3> QED
      BY <1>n, <1>2, <1>12, <2>1, <3>1, <3>2
  <2>6. sorted(table)[i] = table[x] /\ sorted(table)[j] = table[y]
    BY <1>9 DEF x, y
  <2> QED
    BY <2>4, <2>5, <2>6
<1>13. \A k \in 1 .. n : \E i \in 1 .. n : sorted(table)[k] = table[i]
  BY <1>8, <1>9
<1>14. \A i \in 1 .. n : \E k \in 1 .. n : sorted(table)[k] = table[i]
  <2> SUFFICES ASSUME NEW i \in 1 .. n PROVE \E k \in 1 .. n : sorted(table)[k] = table[i]
    OBVIOUS
  <2>1. rank[i] \in 1 .. n
    BY <1>5
  <2>2. at[rank[i]] = i
    BY <1>6, <1>8, <2>1
  <2>3. sorted(table)[rank[i]] = table[i]
    BY <1>9, <2>1, <2>2
  <2> QED
    BY <2>1, <2>3
<1> QED
  BY <1>10, <1>11, <1>12, <1>13, <1>14 DEF n
-----------------------------------------------------------------------------
(* Places counted from the beginning                                       *)

LEMMA RankType ==
  ASSUME NEW n \in Nat, NEW S \in SUBSET (1 .. n), NEW i
  PROVE  /\ IsFiniteSet(S) /\ Cardinality(S) \in Nat
         /\ IsFiniteSet({j \in S : j <= i})
         /\ Rank(S, i) \in 0 .. Cardinality(S)
<1> DEFINE L == {j \in S : j <= i}
<1>1. IsFiniteSet(1 .. n)
  BY FS_Interval
<1>2. IsFiniteSet(S)
  BY <1>1, FS_Subset
<1>3. L \subseteq S
  OBVIOUS
<1>4. Rank(S, i) = Cardinality(L)
  BY DEF Rank
<1> HIDE DEF L
<1>5. IsFiniteSet(L) /\ Cardinality(L) <= Cardinality(S)
  BY <1>2, <1>3, FS_Subset
<1>6. Cardinality(S) \in Nat /\ Cardinality(L) \in Nat
  BY <1>2, <1>5, FS_CardinalityType
<1> QED
  BY <1>2, <1>4, <1>5, <1>6 DEF L

LEMMA RankGrows ==
  ASSUME NEW n \in Nat, NEW S \in SUBSET (1 .. n), NEW i \in S, NEW j \in S, i < j
  PROVE  Rank(S, i) < Rank(S, j)
<1> DEFINE L(k) == {m \in S : m <= k}
<1>0. S \subseteq Nat /\ i \in Nat /\ j \in Nat
  OBVIOUS
<1>1. L(i) \subseteq L(j) /\ j \in L(j) /\ j \notin L(i)
  <2>1. \A m \in Nat : m <= i => m <= j
    BY <1>0
  <2>2. j <= j /\ ~(j <= i)
    BY <1>0
  <2> QED
    BY <1>0, <2>1, <2>2, Zenon
<1>2. Rank(S, i) = Cardinality(L(i)) /\ Rank(S, j) = Cardinality(L(j))
  BY DEF Rank
<1>3. IsFiniteSet(L(j)) /\ Rank(S, i) \in Nat /\ Rank(S, j) \in Nat
  <2>1. /\ IsFiniteSet(L(j)) /\ Cardinality(S) \in Nat
        /\ Rank(S, i) \in 0 .. Cardinality(S) /\ Rank(S, j) \in 0 .. Cardinality(S)
    BY RankType, Zenon
  <2> HIDE DEF L
  <2> QED
    BY <2>1
<1> HIDE DEF L
<1>4. Cardinality(L(i)) <= Cardinality(L(j)) /\ Cardinality(L(j)) # Cardinality(L(i))
  BY <1>1, <1>3, FS_Subset
<1> QED
  BY <1>2, <1>3, <1>4

\* The place with a given number is the only one.
LEMMA NthUnique ==
  ASSUME NEW n \in Nat, NEW S \in SUBSET (1 .. n), NEW i \in S
  PROVE  Nth(S, Rank(S, i)) = i
<1> DEFINE j == Nth(S, Rank(S, i))
<1>1. j \in S /\ Rank(S, j) = Rank(S, i)
  BY DEF Nth
<1> HIDE DEF j
<1>2. i \in Nat /\ j \in Nat /\ Rank(S, i) \in Nat
  <2>1. Cardinality(S) \in Nat /\ Rank(S, i) \in 0 .. Cardinality(S)
    BY RankType, Zenon
  <2> QED
    BY <1>1, <2>1
<1>3. ~(i < j) /\ ~(j < i)
  <2>1. i < j => Rank(S, i) < Rank(S, j)
    BY <1>1, RankGrows
  <2>2. j < i => Rank(S, j) < Rank(S, i)
    BY <1>1, RankGrows
  <2> QED
    BY <1>1, <1>2, <2>1, <2>2
<1>4. i = j
  BY <1>2, <1>3
<1> QED
  BY <1>4 DEF j

LEMMA NthIs ==
  ASSUME NEW n \in Nat, NEW S \in SUBSET (1 .. n), NEW k \in 1 .. Cardinality(S)
  PROVE  Nth(S, k) \in S /\ Rank(S, Nth(S, k)) = k
<1> DEFINE c == Cardinality(S)
           rank == [i \in S |-> Rank(S, i)]
<1>1. IsFiniteSet(S) /\ c \in Nat
  BY RankType
<1>2. \A i \in S : Rank(S, i) \in 1 .. c
  <2> SUFFICES ASSUME NEW i \in S PROVE Rank(S, i) \in 1 .. c
    OBVIOUS
  <2>0. i \in {j \in S : j <= i}
    OBVIOUS
  <2>1. i \in {j \in S : j <= i} /\ IsFiniteSet({j \in S : j <= i}) /\ Rank(S, i) \in 0 .. c
    BY <2>0, RankType, Zenon
  <2>2. Rank(S, i) # 0
    BY <2>1, FS_EmptySet DEF Rank
  <2> QED
    BY <1>1, <2>1, <2>2
<1>3. rank \in [S -> 1 .. c]
  BY <1>2
<1>4. \A i, j \in S : rank[i] = rank[j] => i = j
  <2> SUFFICES ASSUME NEW i \in S, NEW j \in S, Rank(S, i) = Rank(S, j) PROVE i = j
    OBVIOUS
  <2> QED
    BY NthUnique
<1>5. IsFiniteSet(1 .. c) /\ Cardinality(1 .. c) = c
  BY <1>1, FS_Interval
<1>6. \A i \in S : rank[i] = Rank(S, i)
  OBVIOUS
<1> HIDE DEF rank
<1>7. rank \in Injection(S, 1 .. c)
  BY <1>3, <1>4 DEF Injection, IsInjective
<1>8. rank \in Surjection(S, 1 .. c)
  BY <1>5, <1>7, FS_Injection
<1>9. PICK i \in S : rank[i] = k
  BY <1>8 DEF Surjection
<1> QED
  BY <1>6, <1>9 DEF Nth

\* The first places of a set are those of the part of it that lies in front.
LEMMA NthBelow ==
  ASSUME NEW n \in Nat, NEW S \in SUBSET (1 .. n), NEW m \in Nat,
         NEW T, T = {i \in S : i <= m}, NEW k \in 1 .. Cardinality(T)
  PROVE  /\ Nth(T, k) = Nth(S, k) /\ Nth(T, k) \in T
         /\ k \in 1 .. Cardinality(S)
<1>1. T \in SUBSET (1 .. n) /\ T \subseteq S
  OBVIOUS
<1> DEFINE i == Nth(T, k)
<1>2. i \in T /\ Rank(T, i) = k
  BY <1>1, NthIs
<1> HIDE DEF i
<1>3. {j \in S : j <= i} = {j \in T : j <= i}
  <2>1. i \in Nat /\ i <= m /\ S \subseteq Nat
    BY <1>1, <1>2
  <2>2. \A j \in Nat : j <= i => j <= m
    BY <2>1
  <2> QED
    BY <1>1, <2>1, <2>2, Zenon
<1>4. Rank(S, i) = k
  BY <1>2, <1>3 DEF Rank
<1>5. Nth(S, k) = i
  BY <1>1, <1>2, <1>4, NthUnique
<1>6. Rank(S, i) \in 0 .. Cardinality(S)
  BY RankType, Zenon
<1>7. k \in 1 .. Cardinality(S)
  <2>1. Cardinality(S) \in Nat /\ Cardinality(T) \in Nat
    BY <1>1, RankType
  <2> QED
    BY <1>4, <1>6, <2>1
<1> QED
  BY <1>2, <1>5, <1>7 DEF i
-----------------------------------------------------------------------------
(* The names of a path                                                     *)

LEMMA PrefixIs ==
  ASSUME NEW X, NEW s \in Seq(X), NEW t \in Seq(X)
  PROVE  IsPrefix(s, t) <=> Len(s) <= Len(t) /\ \A i \in 1 .. Len(s) : s[i] = t[i]
<1>1. Len(s) \in Nat /\ Len(t) \in Nat
  OBVIOUS
<1> SUFFICES ASSUME Len(s) <= Len(t)
             PROVE  SubSeq(s, 1, Len(s)) = SubSeq(t, 1, Len(s))
                      <=> \A i \in 1 .. Len(s) : s[i] = t[i]
  BY DEF IsPrefix
<1>2. \A i \in 1 .. Len(s) : i \in 1 .. Len(t)
  BY <1>1
<1>3. \A i \in 1 .. Len(s) : s[i] \in X /\ t[i] \in X
  BY <1>2, ElementOfSeq
<1> DEFINE n == Len(s)
           a == SubSeq(s, 1, n)
           b == SubSeq(t, 1, n)
<1>n. n \in Nat /\ 1 \in Int /\ n \in Int
  BY <1>1
<1>4. a = s
  BY SubSeqFull
<1>5. /\ b \in Seq(X) /\ Len(b) = IF 1 <= n THEN n - 1 + 1 ELSE 0
      /\ \A i \in 1 .. n - 1 + 1 : b[i] = t[1 + i - 1]
  BY <1>3, <1>n, SubSeqProperties
<1> HIDE DEF b
<1>6. Len(b) = n /\ \A i \in 1 .. n : b[i] = t[i]
  BY <1>5, <1>n
<1>7. s = b <=> \A i \in 1 .. n : s[i] = t[i]
  <2>1. s = b => \A i \in 1 .. n : s[i] = t[i]
    BY <1>6
  <2>2. (\A i \in 1 .. n : s[i] = t[i]) => s = b
    BY <1>5, <1>6, SeqEqual
  <2> QED
    BY <2>1, <2>2
<1> QED
  BY <1>4, <1>7 DEF b

LEMMA NamesPrefix ==
  ASSUME NEW p \in Seq(Int), NEW q \in Seq(Int), path_has_prefix(q, p)
  PROVE  IsPrefix(Names(p), Names(q))
<1> DEFINE S == NameStarts(q)
           T == NameStarts(p)
<1>1. /\ Len(p) \in Nat /\ Len(q) \in Nat /\ Len(p) <= Len(q)
      /\ \A i \in 1 .. Len(p) : p[i] = q[i]
  <2>1. IsPrefix(p, q)
    BY DEF path_has_prefix
  <2> QED
    BY <2>1, PrefixIs
<1>2. \A i \in Int : i <= Len(p) => At(p, i) = At(q, i)
  BY <1>1 DEF At
<1>3. At(p, Len(p) + 1) \in {0, SLASH} /\ At(q, Len(p) + 1) \in {0, SLASH}
  BY <1>1 DEF At, path_has_prefix
<1>4. S \in SUBSET (1 .. Len(q)) /\ T = {i \in S : i <= Len(p)}
  <2>1. S \in SUBSET (1 .. Len(q)) /\ T \in SUBSET (1 .. Len(p))
    BY DEF NameStarts
  <2>2. ASSUME NEW i \in 1 .. Len(p) PROVE i \in T <=> i \in S
    <3>1. i \in 1 .. Len(q) /\ p[i] = q[i] /\ At(p, i - 1) = At(q, i - 1)
      BY <1>1, <1>2
    <3> QED
      BY <3>1 DEF NameStarts
  <2> QED
    BY <1>1, <2>1, <2>2
<1>5. ASSUME NEW i \in T PROVE NameAt(p, i) = NameAt(q, i)
  <2> DEFINE P == {j \in i .. Len(p) : At(p, j + 1) \in {0, SLASH}}
             Q == {j \in i .. Len(q) : At(q, j + 1) \in {0, SLASH}}
  <2>1. i \in 1 .. Len(p)
    BY DEF NameStarts
  <2>2. P = {j \in Q : j <= Len(p)}
    <3>1. ASSUME NEW j \in i .. Len(p)
          PROVE  At(p, j + 1) \in {0, SLASH} <=> At(q, j + 1) \in {0, SLASH}
      <4>1. CASE j = Len(p)
        BY <1>3, <4>1
      <4>2. CASE j < Len(p)
        BY <1>1, <1>2, <2>1, <4>2
      <4> QED
        BY <1>1, <2>1, <4>1, <4>2
    <3>2. P \subseteq i .. Len(p) /\ Q \subseteq i .. Len(q)
      OBVIOUS
    <3>3. ASSUME NEW j \in i .. Len(p) PROVE j \in P <=> j \in Q
      BY <1>1, <2>1, <3>1
    <3>4. \A j \in i .. Len(q) : j <= Len(p) => j \in i .. Len(p)
      BY <1>1, <2>1
    <3>5. \A j \in i .. Len(p) : j <= Len(p)
      BY <1>1, <2>1
    <3> HIDE DEF P, Q
    <3> QED
      BY <3>2, <3>3, <3>4, <3>5, Zenon
  <2>3. Len(p) \in P
    BY <1>1, <1>3, <2>1
  <2>4. P \subseteq Nat /\ Q \subseteq Nat /\ P \subseteq 1 .. Len(p)
    BY <1>1, <2>1
  <2>5. NameAt(p, i) = SubSeq(p, i, Min(P)) /\ NameAt(q, i) = SubSeq(q, i, Min(Q))
    BY DEF NameAt
  <2> HIDE DEF P, Q
  <2>6. Min(P) \in P /\ Min(Q) \in Q /\ (\A j \in P : Min(P) <= j) /\ \A j \in Q : Min(Q) <= j
    <3>1. P # {} /\ Q # {}
      BY <2>2, <2>3
    <3> QED
      BY <2>4, <3>1, NatMin
  <2>7. Min(P) = Min(Q)
    <3> DEFINE a == Min(P)
               b == Min(Q)
    <3>1. /\ a \in P /\ b \in Q /\ (\A j \in P : a <= j) /\ \A j \in Q : b <= j
      BY <2>6
    <3> HIDE DEF a, b
    <3>2. a \in Nat /\ b \in Nat /\ a <= Len(p) /\ a \in Q
      BY <2>2, <2>4, <3>1
    <3>3. b <= a
      BY <3>1, <3>2
    <3>4. b \in P
      BY <1>1, <2>2, <3>1, <3>2, <3>3
    <3>5. a <= b
      BY <3>1, <3>4
    <3>6. a = b
      BY <3>2, <3>3, <3>5
    <3> QED
      BY <3>6 DEF a, b
  <2> DEFINE e == Min(P)
  <2>8. e \in 1 .. Len(p)
    BY <2>4, <2>6
  <2>9. NameAt(p, i) = SubSeq(p, i, e) /\ NameAt(q, i) = SubSeq(q, i, e)
    BY <2>5, <2>7
  <2> HIDE DEF e
  <2>10. \A j \in i .. e : j \in 1 .. Len(p) /\ j \in 1 .. Len(q)
    BY <1>1, <2>1, <2>8
  <2>11. \A j \in i .. e : p[j] \in Int /\ q[j] \in Int /\ p[j] = q[j]
    BY <1>1, <2>10, ElementOfSeq
  <2>12. i \in Int /\ e \in Int
    BY <2>1, <2>8
  <2> DEFINE s == SubSeq(p, i, e)
             t == SubSeq(q, i, e)
  <2>13. /\ s \in Seq(Int) /\ Len(s) = IF i <= e THEN e - i + 1 ELSE 0
         /\ \A j \in 1 .. e - i + 1 : s[j] = p[i + j - 1]
    BY <2>11, <2>12, SubSeqProperties
  <2>14. /\ t \in Seq(Int) /\ Len(t) = IF i <= e THEN e - i + 1 ELSE 0
         /\ \A j \in 1 .. e - i + 1 : t[j] = q[i + j - 1]
    BY <2>11, <2>12, SubSeqProperties
  <2> HIDE DEF s, t
  <2>15. Len(s) = Len(t) /\ \A j \in 1 .. Len(s) : s[j] = t[j]
    <3>1. \A j \in 1 .. Len(s) : j \in 1 .. e - i + 1 /\ i + j - 1 \in i .. e
      BY <2>12, <2>13
    <3>2. Len(s) = Len(t)
      BY <2>13, <2>14
    <3>3. ASSUME NEW j \in 1 .. Len(s) PROVE s[j] = t[j]
      <4>1. s[j] = p[i + j - 1] /\ t[j] = q[i + j - 1]
        BY <2>13, <2>14, <3>1, Zenon
      <4>2. p[i + j - 1] = q[i + j - 1]
        BY <2>11, <3>1, Zenon
      <4> QED
        BY <4>1, <4>2, Zenon
    <3> QED
      BY <3>2, <3>3
  <2>16. s = t
    BY <2>13, <2>14, <2>15, SeqEqual
  <2> QED
    BY <2>9, <2>16 DEF s, t
<1> DEFINE c == Cardinality(T)
           d == Cardinality(S)
<1>6. c \in Nat /\ d \in Nat /\ c <= d
  <2>1. IsFiniteSet(S) /\ d \in Nat
    BY <1>1, <1>4, RankType
  <2>2. T \in SUBSET S
    BY <1>4
  <2>3. IsFiniteSet(T) /\ c <= d
    BY <2>1, <2>2, FS_Subset
  <2> QED
    BY <2>1, <2>3, FS_CardinalityType
<1>7. \A k \in 1 .. c : Nth(T, k) \in T /\ Nth(T, k) = Nth(S, k)
  <2> SUFFICES ASSUME NEW k \in 1 .. c PROVE Nth(T, k) \in T /\ Nth(T, k) = Nth(S, k)
    OBVIOUS
  <2> DEFINE l == Len(p)
             m == Len(q)
  <2>1. l \in Nat /\ m \in Nat
    BY <1>1
  <2>2. S \in SUBSET (1 .. m) /\ T = {i \in S : i <= l} /\ k \in 1 .. Cardinality(T)
    BY <1>4
  <2> HIDE DEF S, T, l, m
  <2> QED
    BY <2>1, <2>2, NthBelow
<1>8. Names(p) = [k \in 1 .. c |-> NameAt(p, Nth(T, k))]
  BY DEF Names
<1>9. Names(q) = [k \in 1 .. d |-> NameAt(q, Nth(S, k))]
  BY DEF Names
<1> HIDE DEF S, T, c, d
<1>10. \A k \in 1 .. c : k \in 1 .. d /\ Names(p)[k] = Names(q)[k]
  <2> SUFFICES ASSUME NEW k \in 1 .. c PROVE k \in 1 .. d /\ Names(p)[k] = Names(q)[k]
    OBVIOUS
  <2>1. k \in 1 .. d
    BY <1>6
  <2>2. NameAt(p, Nth(T, k)) = NameAt(q, Nth(S, k))
    BY <1>5, <1>7
  <2> QED
    BY <1>8, <1>9, <2>1, <2>2
<1> DEFINE a == Names(p)
           b == Names(q)
           N == {a[k] : k \in 1 .. c} \cup {b[k] : k \in 1 .. d}
<1>11. a \in Seq(N) /\ b \in Seq(N) /\ Len(a) = c /\ Len(b) = d
  <2>1. a = [k \in 1 .. c |-> a[k]] /\ b = [k \in 1 .. d |-> b[k]]
    BY <1>8, <1>9
  <2> HIDE DEF a, b
  <2>2. (\A k \in 1 .. c : a[k] \in N) /\ \A k \in 1 .. d : b[k] \in N
    OBVIOUS
  <2> HIDE DEF N
  <2>3. a \in [1 .. c -> N] /\ b \in [1 .. d -> N]
    BY <2>1, <2>2
  <2> QED
    BY <1>6, <2>3, SeqDef
<1> QED
  BY <1>6, <1>10, <1>11, PrefixIs

\* What holds at the beginning and is kept by every step holds at the end.
LEMMA Induct ==
  ASSUME NEW n \in Nat, NEW S, 0 \in S, \A k \in 1 .. n : k - 1 \in S => k \in S
  PROVE  n \in S
<1> DEFINE T == {k \in Nat : k <= n => k \in S}
<1>1. 0 \in T
  OBVIOUS
<1>2. ASSUME NEW k \in Nat, k \in T PROVE k + 1 \in T
  <2> SUFFICES ASSUME k + 1 <= n PROVE k + 1 \in S
    OBVIOUS
  <2>1. k + 1 \in 1 .. n /\ (k + 1) - 1 = k /\ k <= n
    OBVIOUS
  <2> QED
    BY <1>2, <2>1
<1> HIDE DEF T
<1>3. T = Nat
  <2>1. T \subseteq Nat
    BY DEF T
  <2> QED
    BY <1>1, <1>2, <2>1, NatSet
<1> QED
  BY <1>3 DEF T

\* w holds the path after its first 0 .. n names.
Texts(names, w, n) ==
  w = [k \in 0 .. n |-> IF k = 0 THEN <<>> ELSE w[k - 1] \o <<SLASH>> \o names[k]]

LEMMA TextsExist ==
  ASSUME NEW names, NEW m \in Nat
  PROVE  \E w : Texts(names, w, m)
<1> DEFINE S == {n \in Nat : \E w : Texts(names, w, n)}
           Add(s, k) == s \o <<SLASH>> \o names[k]
<1>0. \A w, n : Texts(names, w, n) <=>
                  w = [k \in 0 .. n |-> IF k = 0 THEN <<>> ELSE Add(w[k - 1], k)]
  BY DEF Texts
<1> HIDE DEF Add
<1>1. 0 \in S
  <2> DEFINE w == [k \in 0 .. 0 |-> <<>>]
  <2>1. \A k \in 0 .. 0 : k = 0
    OBVIOUS
  <2>2. w = [k \in 0 .. 0 |-> IF k = 0 THEN <<>> ELSE Add(w[k - 1], k)]
    BY <2>1
  <2> QED
    BY <1>0, <2>2
<1>2. ASSUME NEW n \in Nat, n \in S PROVE n + 1 \in S
  <2>1. PICK v : v = [k \in 0 .. n |-> IF k = 0 THEN <<>> ELSE Add(v[k - 1], k)]
    BY <1>0, <1>2
  <2>2. v[0] = <<>> /\ \A k \in 1 .. n : v[k] = Add(v[k - 1], k)
    <3>1. \A k \in 0 .. n : v[k] = IF k = 0 THEN <<>> ELSE Add(v[k - 1], k)
      BY <2>1
    <3> QED
      BY <3>1
  <2> DEFINE w == [k \in 0 .. n + 1 |-> IF k <= n THEN v[k] ELSE Add(v[n], n + 1)]
  <2>5. \A k \in 0 .. n + 1 : w[k] = IF k = 0 THEN <<>> ELSE Add(w[k - 1], k)
    <3> SUFFICES ASSUME NEW k \in 0 .. n + 1
                 PROVE  w[k] = IF k = 0 THEN <<>> ELSE Add(w[k - 1], k)
      OBVIOUS
    <3>1. CASE k = 0
      BY <2>2, <3>1
    <3>2. CASE k \in 1 .. n
      BY <2>2, <3>2
    <3>3. CASE k = n + 1
      BY <3>3
    <3> QED
      BY <3>1, <3>2, <3>3
  <2>6. w = [k \in 0 .. n + 1 |-> w[k]]
    OBVIOUS
  <2> HIDE DEF w
  <2>7. w = [k \in 0 .. n + 1 |-> IF k = 0 THEN <<>> ELSE Add(w[k - 1], k)]
    BY <2>5, <2>6
  <2>8. Texts(names, w, n + 1)
    BY <1>0, <2>7
  <2> QED
    BY <2>8
<1> HIDE DEF S
<1>3. S = Nat
  <2>1. S \subseteq Nat
    BY DEF S
  <2> QED
    BY <1>1, <1>2, <2>1, NatSet
<1> QED
  BY <1>3 DEF S

LEMMA PathTextType ==
  ASSUME NEW names \in Seq(NameSet)
  PROVE  PathText(names) \in Seq(Int)
<1>l. Len(names) \in Nat
  OBVIOUS
<1> DEFINE c == CHOOSE w : Texts(names, w, Len(names))
<1>1. PathText(names) = IF names = <<>> THEN <<SLASH>> ELSE c[Len(names)]
  BY DEF PathText, Texts
<1>2. Texts(names, c, Len(names))
  BY <1>l, TextsExist
<1> HIDE DEF c
<1>3. c[0] = <<>> /\ \A k \in 1 .. Len(names) : c[k] = c[k - 1] \o <<SLASH>> \o names[k]
  <2>1. \A k \in 0 .. Len(names) :
          c[k] = IF k = 0 THEN <<>> ELSE c[k - 1] \o <<SLASH>> \o names[k]
    BY <1>2 DEF Texts
  <2>2. 0 \in 0 .. Len(names) /\ \A k \in 1 .. Len(names) : k \in 0 .. Len(names) /\ k # 0
    BY <1>l
  <2> QED
    BY <2>1, <2>2, Zenon
<1>4. ASSUME NEW k \in 1 .. Len(names), c[k - 1] \in Seq(Int) PROVE c[k] \in Seq(Int)
  <2>1. names[k] \in Seq(1 .. 255)
    BY ElementOfSeq DEF NameSet
  <2>2. names[k] \in Seq(Int)
    <3>1. 1 .. 255 \subseteq Int
      OBVIOUS
    <3> QED
      BY <2>1, <3>1, SeqMonotonic, Zenon
  <2>3. <<SLASH>> \in Seq(Int)
    BY DEF SLASH
  <2> DEFINE s == <<SLASH>>
  <2>4. c[k] = c[k - 1] \o s \o names[k] /\ s \in Seq(Int)
    BY <1>3, <2>3, Zenon
  <2> HIDE DEF s
  <2>5. c[k - 1] \o s \in Seq(Int)
    BY <1>4, <2>4, ConcatProperties
  <2>6. (c[k - 1] \o s) \o names[k] \in Seq(Int)
    BY <2>2, <2>5, ConcatProperties
  <2> QED
    BY <2>4, <2>6
<1>5. c[Len(names)] \in Seq(Int)
  <2> DEFINE S == {k \in 0 .. Len(names) : c[k] \in Seq(Int)}
  <2>0. 0 \in 0 .. Len(names)
    BY <1>l
  <2>1. 0 \in S
    BY <1>3, <2>0, EmptySeq, Zenon
  <2>2. ASSUME NEW k \in 1 .. Len(names), k - 1 \in S PROVE k \in S
    <3>1. k \in 0 .. Len(names) /\ c[k - 1] \in Seq(Int)
      BY <1>l, <2>2
    <3>2. c[k] \in Seq(Int)
      BY <1>4, <3>1
    <3> QED
      BY <3>1, <3>2
  <2>3. Len(names) \in S
    <3> HIDE DEF S
    <3> QED
      BY <1>l, <2>1, <2>2, Induct
  <2> QED
    BY <2>3
<1>6. <<SLASH>> \in Seq(Int)
  BY DEF SLASH
<1> QED
  BY <1>1, <1>5, <1>6

WalkFrom(start, names) == [at |-> start, todo |-> names, links |-> 0, result |-> "OK"]
WalkOn(f, w) == IF w.todo = <<>> THEN w ELSE WalkStep(f, w)

\* w holds the walk after 0 .. n steps.
Walks(f, start, names, w, n) ==
  w = [k \in 0 .. n |-> IF k = 0 THEN WalkFrom(start, names) ELSE WalkOn(f, w[k - 1])]

LEMMA WalksExist ==
  ASSUME NEW f, NEW start, NEW names, NEW m \in Nat
  PROVE  \E w : Walks(f, start, names, w, m)
<1> DEFINE S == {n \in Nat : \E w : Walks(f, start, names, w, n)}
           first == WalkFrom(start, names)
<1>1. 0 \in S
  <2> DEFINE w == [k \in 0 .. 0 |-> first]
  <2>1. \A k \in 0 .. 0 : k = 0
    OBVIOUS
  <2>2. Walks(f, start, names, w, 0)
    BY <2>1 DEF Walks
  <2> QED
    BY <2>2
<1>2. ASSUME NEW n \in Nat, n \in S PROVE n + 1 \in S
  <2>1. PICK v : Walks(f, start, names, v, n)
    BY <1>2
  <2>2. v[0] = first /\ \A k \in 1 .. n : v[k] = WalkOn(f, v[k - 1])
    <3>1. \A k \in 0 .. n : v[k] = IF k = 0 THEN first ELSE WalkOn(f, v[k - 1])
      BY <2>1 DEF Walks
    <3> QED
      BY <3>1
  <2> DEFINE w == [k \in 0 .. n + 1 |-> IF k <= n THEN v[k] ELSE WalkOn(f, v[n])]
  <2> HIDE DEF first
  <2>5. \A k \in 0 .. n + 1 : w[k] = IF k = 0 THEN first ELSE WalkOn(f, w[k - 1])
    <3> SUFFICES ASSUME NEW k \in 0 .. n + 1
                 PROVE  w[k] = IF k = 0 THEN first ELSE WalkOn(f, w[k - 1])
      OBVIOUS
    <3>1. CASE k = 0
      BY <2>2, <3>1
    <3>2. CASE k \in 1 .. n
      BY <2>2, <3>2
    <3>3. CASE k = n + 1
      BY <3>3
    <3> QED
      BY <3>1, <3>2, <3>3
  <2>6. w = [k \in 0 .. n + 1 |-> w[k]]
    OBVIOUS
  <2> HIDE DEF w
  <2>7. Walks(f, start, names, w, n + 1)
    BY <2>5, <2>6 DEF Walks, first
  <2> QED
    BY <2>7
<1> HIDE DEF S
<1>3. S = Nat
  <2>1. S \subseteq Nat
    BY DEF S
  <2> QED
    BY <1>1, <1>2, <2>1, NatSet
<1> QED
  BY <1>3 DEF S

\* A walk stays among the names of the file system.
IsWalk(w) ==
  /\ w = [at |-> w.at, todo |-> w.todo, links |-> w.links, result |-> w.result]
  /\ w.at \in Seq(NameSet)

LEMMA WalkStepType ==
  ASSUME NEW f, DOMAIN f \subseteq Seq(NameSet), NEW w, IsWalk(w)
  PROVE  IsWalk(WalkStep(f, w))
<1> DEFINE a == w.at
           d == w.todo
           l == w.links
           name == Head(w.todo)
           onto == Append(w.at, name)
           on == [w EXCEPT !.todo = Tail(w.todo)]
           stops(result) == [w EXCEPT !.todo = <<>>, !.result = result]
           Walked(at, todo, links, result) ==
             [at |-> at, todo |-> todo, links |-> links, result |-> result]
<1>1. a \in Seq(NameSet) /\ w = Walked(a, d, l, w.result)
  BY DEF IsWalk
<1> SUFFICES \E at \in Seq(NameSet) : \E todo, links, result :
               WalkStep(f, w) = Walked(at, todo, links, result)
  BY DEF IsWalk
<1> DEFINE up == IF w.at = <<>> THEN <<>> ELSE Front(w.at)
           link == [on EXCEPT !.links = @ + 1,
                      !.at = IF At(f[onto].target, 1) = SLASH THEN <<>> ELSE @,
                      !.todo = Components(f[onto].target) \o @]
<1>2. \/ \E r : WalkStep(f, w) = stops(r)
      \/ WalkStep(f, w) = on
      \/ WalkStep(f, w) = [on EXCEPT !.at = up]
      \/ onto \in DOMAIN f /\ WalkStep(f, w) = [on EXCEPT !.at = onto]
      \/ WalkStep(f, w) = link
  <2> DEFINE kind == f[w.at].kind
  <2>1. CASE kind = "locked"
    BY <2>1, Zenon DEF WalkStep
  <2>2. CASE kind \notin {"dir", "locked"}
    BY <2>2, Zenon DEF WalkStep
  <2>3. CASE kind = "dir" /\ name = <<DOT>>
    <3>1. <<DOT>> # <<DOT, DOT>>
      OBVIOUS
    <3>2. name # <<DOT, DOT>> /\ kind # "locked"
      BY <2>3, <3>1
    <3>3. WalkStep(f, w) = on
      BY <2>3, <3>2, Zenon DEF WalkStep
    <3> QED
      BY <3>3, Zenon
  <2>4. CASE kind = "dir" /\ name = <<DOT, DOT>>
    <3>1. <<DOT, DOT>> # <<DOT>>
      OBVIOUS
    <3>2. name # <<DOT>> /\ kind # "locked"
      BY <2>4, <3>1
    <3>3. WalkStep(f, w) = [on EXCEPT !.at = up]
      BY <2>4, <3>2, Zenon DEF WalkStep
    <3> QED
      BY <3>3, Zenon
  <2>5. CASE kind = "dir" /\ name # <<DOT>> /\ name # <<DOT, DOT>>
    BY <2>5, Zenon DEF WalkStep
  <2> QED
    BY <2>1, <2>2, <2>3, <2>4, <2>5, Zenon
<1> DEFINE r0 == w.result
           t == Tail(d)
<1> HIDE DEF a, d, l, r0, t
<1>3. w = Walked(a, d, l, r0)
  BY <1>1 DEF r0, a, d, l
<1>4. on = Walked(a, t, l, r0)
  <2>1. on = [w EXCEPT !.todo = t]
    BY DEF t, d
  <2> QED
    BY <1>3, <2>1
<1> HIDE DEF onto, Walked
<1>5. <<>> \in Seq(NameSet)
  BY EmptySeq
<1>6. ASSUME NEW r, WalkStep(f, w) = stops(r)
      PROVE  WalkStep(f, w) = Walked(a, <<>>, l, r)
  BY <1>3, <1>6 DEF Walked
<1>7. up \in Seq(NameSet)
  <2>1. CASE w.at = <<>>
    BY <1>5, <2>1
  <2>2. CASE w.at # <<>>
    <3>1. a \in Seq(NameSet) /\ a # <<>> /\ Len(a) \in Nat \ {0}
      BY <1>1, <2>2, EmptySeq DEF a
    <3>2. up = SubSeq(a, 1, Len(a) - 1)
      BY <2>2, Zenon DEF Front, a
    <3>3. Len(a) - 1 \in Int /\ \A i \in 1 .. Len(a) - 1 : i \in 1 .. Len(a)
      BY <3>1
    <3>4. \A i \in 1 .. Len(a) - 1 : a[i] \in NameSet
      BY <3>1, <3>3, ElementOfSeq
    <3>5. SubSeq(a, 1, Len(a) - 1) \in Seq(NameSet)
      BY <3>3, <3>4, SubSeqProperties
    <3> QED
      BY <3>2, <3>5
  <2> QED
    BY <2>1, <2>2
<1> HIDE DEF up, on
<1>8. [on EXCEPT !.at = up] = Walked(up, t, l, r0)
  BY <1>4 DEF Walked
<1>9. [on EXCEPT !.at = onto] = Walked(onto, t, l, r0)
  BY <1>4 DEF Walked
<1>10. \E at \in Seq(NameSet) : \E todo, links : link = Walked(at, todo, links, r0)
  <2> DEFINE b == IF At(f[onto].target, 1) = SLASH THEN <<>> ELSE on.at
             x == Components(f[onto].target) \o on.todo
             y == on.links + 1
  <2>1. link = [on EXCEPT !.links = y, !.at = b, !.todo = x]
    BY Zenon
  <2>2. b \in Seq(NameSet)
    BY <1>1, <1>4, <1>5 DEF Walked
  <2> HIDE DEF b, x, y, link
  <2>3. [on EXCEPT !.links = y, !.at = b, !.todo = x] = Walked(b, x, y, r0)
    <3> DEFINE g == [on EXCEPT !.links = y]
               h == [g EXCEPT !.at = b]
    <3>1. g = Walked(a, t, y, r0)
      BY <1>4 DEF Walked
    <3> HIDE DEF g
    <3>2. h = Walked(b, t, y, r0)
      BY <3>1 DEF Walked
    <3> HIDE DEF h
    <3>3. [h EXCEPT !.todo = x] = Walked(b, x, y, r0)
      BY <3>2 DEF Walked
    <3> QED
      BY <3>3, Zenon DEF g, h
  <2> QED
    BY <2>1, <2>2, <2>3
<1> HIDE DEF link, stops
<1>11. onto \in DOMAIN f => onto \in Seq(NameSet)
  OBVIOUS
<1>12. a \in Seq(NameSet)
  BY <1>1 DEF a
<1>13. CASE \E r : WalkStep(f, w) = stops(r)
  <2>1. PICK r : WalkStep(f, w) = stops(r)
    BY <1>13
  <2>2. WalkStep(f, w) = Walked(a, <<>>, l, r)
    BY <1>6, <2>1
  <2> QED
    BY <1>12, <2>2
<1>14. CASE WalkStep(f, w) = on
  BY <1>4, <1>12, <1>14
<1>15. CASE WalkStep(f, w) = [on EXCEPT !.at = up]
  <2>1. WalkStep(f, w) = Walked(up, t, l, r0)
    BY <1>8, <1>15, Zenon
  <2> QED
    BY <1>7, <2>1
<1>16. CASE onto \in DOMAIN f /\ WalkStep(f, w) = [on EXCEPT !.at = onto]
  <2>1. WalkStep(f, w) = Walked(onto, t, l, r0)
    BY <1>9, <1>16, Zenon
  <2> QED
    BY <1>11, <1>16, <2>1
<1>17. CASE WalkStep(f, w) = link
  BY <1>10, <1>17, Zenon
<1> QED
  BY <1>2, <1>13, <1>14, <1>15, <1>16, <1>17, Zenon

LEMMA WalkType ==
  ASSUME NEW f, DOMAIN f \subseteq Seq(NameSet), NEW start \in Seq(NameSet), NEW names
  PROVE  Walk(f, start, names).at \in Seq(NameSet)
<1> DEFINE n == (SYMLOOP_MAX + 1) * FILE_PATH_MAX
           c == CHOOSE w : Walks(f, start, names, w, n)
<1>1. n \in Nat
  BY FileAssumption
<1>2. Walk(f, start, names) = c[n]
  BY DEF Walk, Walks, WalkFrom, WalkOn
<1> HIDE DEF n
<1>3. Walks(f, start, names, c, n)
  BY <1>1, WalksExist
<1> HIDE DEF c
<1>4. \A k \in 0 .. n : c[k] = IF k = 0 THEN WalkFrom(start, names) ELSE WalkOn(f, c[k - 1])
  BY <1>3 DEF Walks
<1> DEFINE S == {k \in 0 .. n : IsWalk(c[k])}
<1>5. 0 \in S
  <2>1. 0 \in 0 .. n
    BY <1>1
  <2>2. c[0] = WalkFrom(start, names)
    BY <1>4, <2>1
  <2>3. IsWalk(WalkFrom(start, names))
    BY DEF IsWalk, WalkFrom
  <2> QED
    BY <2>1, <2>2, <2>3
<1>6. ASSUME NEW k \in 1 .. n, k - 1 \in S PROVE k \in S
  <2>1. k \in 0 .. n /\ k # 0
    BY <1>1
  <2>2. IsWalk(c[k - 1]) /\ c[k] = WalkOn(f, c[k - 1])
    BY <1>4, <1>6, <2>1
  <2>3. IsWalk(WalkStep(f, c[k - 1]))
    BY <2>2, WalkStepType
  <2>4. IsWalk(c[k])
    BY <2>2, <2>3 DEF WalkOn
  <2> QED
    BY <2>1, <2>4
<1>7. n \in S
  <2> HIDE DEF S
  <2> QED
    BY <1>1, <1>5, <1>6, Induct
<1> QED
  BY <1>2, <1>7 DEF IsWalk

\* What realpath finds is a string.
LEMMA RealpathText ==
  ASSUME NEW f \in Worlds, NEW text
  PROVE  PathText(realpath(f, text).at) \in Seq(Int)
<1>1. DOMAIN f \subseteq Seq(NameSet)
  BY RequestAssumption DEF NameSet
<1>2. Walk(f, <<>>, Components(text)).at \in Seq(NameSet)
  <2>1. <<>> \in Seq(NameSet)
    BY EmptySeq
  <2> QED
    BY <1>1, <2>1, WalkType
<1>3. realpath(f, text).at = Walk(f, <<>>, Components(text)).at
  BY DEF realpath
<1> QED
  BY <1>2, <1>3, PathTextType
-----------------------------------------------------------------------------
(* Reading the directory                                                   *)

LEMMA RequestInit == Init => RequestInv
<1> SUFFICES ASSUME Init PROVE RequestInv
  OBVIOUS
<1>1. /\ fs \in Worlds /\ request_path = <<>> /\ resolved_path = <<>> /\ pc = "idle"
      /\ raw = <<>> /\ url = <<>> /\ page = <<>> /\ clicks = 0 /\ quiet = TRUE
  BY Zenon DEF Init
<1>2. /\ step = "idle" /\ dirp = {} /\ entries = <<>> /\ entry_capacity = 0 /\ next = 0
      /\ builder = NoBuilder /\ heap = Nothing
  BY Zenon DEF Init, LInit
<1>3. method \in Methods
  BY Zenon DEF Init, Methods
<1>4. <<>> \in Clean /\ Len(<<>>) = 0
  BY DEF Clean
<1>5. HTTP_PATH_MAX > 0 /\ FILE_PATH_MAX > 0 /\ 0 \in 0 .. MaxClicks
  BY HttpAssumption, FileAssumption, RequestAssumption
<1>6. TextInv
  BY <1>1, <1>3, <1>4, <1>5 DEF TextInv
<1>7. TableInv
  BY <1>2 DEF TableInv
<1>8. StepInv
  BY <1>2 DEF StepInv
<1>9. HeapInv
  BY <1>2 DEF HeapInv, NoBuilder, Nothing
<1> QED
  BY <1>6, <1>7, <1>8, <1>9 DEF RequestInv, ListInv

LEMMA ChildrenNames ==
  ASSUME fs \in Worlds, NEW at
  PROVE  Children(at) \cup {<<DOT>>, <<DOT, DOT>>} \subseteq NameSet
<1>1. DOMAIN fs \subseteq Seq(NameSet)
  BY RequestAssumption DEF NameSet
<1>2. ASSUME NEW p \in DOMAIN fs \ {<<>>} PROVE Last(p) \in NameSet
  <2>1. p \in Seq(NameSet) /\ p # <<>>
    BY <1>1
  <2>2. Len(p) \in 1 .. Len(p)
    BY <2>1, EmptySeq
  <2> QED
    BY <2>1, <2>2, ElementOfSeq DEF Last
<1>3. <<DOT>> \in NameSet /\ <<DOT, DOT>> \in NameSet
  BY DEF NameSet, DOT
<1> QED
  BY <1>2, <1>3 DEF Children

LEMMA OpenStep ==
  ASSUME RequestInv, step = "idle", OpenDirectory \/ OpenDirectoryFails
  PROVE  ListInv'
<1> USE DEF RequestInv, ListInv
<1>0. entries = <<>> /\ entry_capacity = 0 /\ next = 0 /\ builder = NoBuilder
  BY DEF StepInv
<1>1. CASE OpenDirectory
  <2>1. /\ step' = "read" /\ heap' = [heap EXCEPT !.dirs = @ + 1]
        /\ UNCHANGED <<entries, entry_capacity, next, builder>>
    BY <1>1 DEF OpenDirectory
  <2>2. dirp' \subseteq NameSet
    <3>1. fs \in Worlds
      BY DEF TextInv
    <3> QED
      BY <1>1, <3>1, ChildrenNames DEF OpenDirectory
  <2>3. TableInv'
    BY <1>0, <2>1, <2>2 DEF TableInv
  <2>4. StepInv'
    BY <1>0, <2>1 DEF StepInv
  <2>5. HeapInv'
    BY <1>0, <2>1 DEF HeapInv
  <2> QED
    BY <2>3, <2>4, <2>5
<1>2. CASE OpenDirectoryFails
  <2>1. /\ step' = "failed" /\ dirp' = {} /\ entries' = <<>> /\ entry_capacity' = 0 /\ next' = 0
        /\ UNCHANGED <<builder, heap>>
    BY <1>2 DEF OpenDirectoryFails, Return
  <2>2. TableInv'
    BY <2>1 DEF TableInv
  <2>3. StepInv'
    BY <1>0, <2>1 DEF StepInv
  <2>4. HeapInv'
    BY <1>0, <2>1 DEF HeapInv
  <2> QED
    BY <2>2, <2>3, <2>4
<1> QED
  BY <1>1, <1>2

LEMMA ReadHiddenStep ==
  ASSUME ListInv, ReadHidden
  PROVE  ListInv'
<1> USE DEF ListInv
<1>1. /\ dirp' \subseteq dirp
      /\ UNCHANGED <<step, entries, entry_capacity, next, builder, heap>>
  BY DEF ReadHidden
<1>2. TableInv'
  BY <1>1 DEF TableInv
<1>3. StepInv' /\ HeapInv'
  BY <1>1 DEF StepInv, HeapInv
<1> QED
  BY <1>2, <1>3

\* There is room for one more entry in a table of this size.
LEMMA TableGrows ==
  ASSUME TableInv
  PROVE  /\ TableFor(Len(entries)) \in Nat \ {0}
         /\ Len(entries) + 1 <= TableFor(Len(entries))
<1>1. Len(entries) \in Nat /\ entry_capacity \in Nat /\ Len(entries) <= entry_capacity
  BY DEF TableInv
<1>2. TableCapacity \in Nat \ {0}
  BY ListingAssumption, Zenon
<1> QED
  BY <1>1, <1>2 DEF TableFor

LEMMA ReadEntryStep ==
  ASSUME ListInv, ReadEntry
  PROVE  ListInv'
<1> USE DEF ListInv
<1>1. PICK name \in dirp :
        /\ dirp' = dirp \ {name}
        /\ append_directory_entry(name, IsDirectoryChild(name))
  BY DEF ReadEntry
<1> DEFINE e == [name |-> name, is_directory |-> IsDirectoryChild(name)]
<1>2. e \in EntrySet /\ e.name = name
  <2>1. IsDirectoryChild(name) \in BOOLEAN
    BY DEF IsDirectoryChild, IsDirectory
  <2>2. name \in NameSet
    BY DEF TableInv
  <2> QED
    BY <2>1, <2>2 DEF EntrySet
<1>3. /\ step = "read" /\ UNCHANGED <<step, next, builder>>
      /\ entries' = Append(entries, e)
      /\ entry_capacity' = TableFor(Len(entries))
      /\ heap' = [heap EXCEPT !.names = @ + 1,
                              !.tables = IF entry_capacity = 0 THEN @ + 1 ELSE @]
  BY <1>1 DEF ReadEntry, append_directory_entry
<1> HIDE DEF e
<1> DEFINE n == Len(entries)
<1>4. n \in Nat /\ entries \in Seq(EntrySet) /\ next \in 0 .. n
  BY DEF TableInv
<1>5. /\ entries' \in Seq(EntrySet) /\ Len(entries') = n + 1
      /\ \A i \in 1 .. n : entries'[i] = entries[i]
      /\ entries'[n + 1] = e
  BY <1>2, <1>3, <1>4, AppendProperties
<1>6. entry_capacity' \in Nat \ {0} /\ n + 1 <= entry_capacity'
  BY <1>3, TableGrows
<1>7. \A i \in 1 .. n : entries[i].name \notin dirp
  BY DEF TableInv
<1>8. \A i, j \in 1 .. n : entries[i].name = entries[j].name => i = j
  BY DEF TableInv
<1> HIDE DEF n
<1>9. \A i \in 1 .. n + 1 : i \in 1 .. n \/ i = n + 1
  BY <1>4
<1>10. \A i \in 1 .. n : entries'[i].name \in NameSet \ dirp
  <2>1. \A i \in 1 .. n : entries[i].name \in NameSet
    <3>1. \A i \in 1 .. n : entries[i] \in EntrySet
      BY <1>4, ElementOfSeq DEF n
    <3>2. \A x \in EntrySet : x.name \in NameSet
      BY DEF EntrySet
    <3> QED
      BY <3>1, <3>2
  <2> QED
    BY <1>5, <1>7, <2>1
<1>11. entries'[n + 1].name \in dirp /\ entries'[n + 1].name \notin dirp'
  BY <1>1, <1>2, <1>5
<1>12. TableInv'
  <2>1. \A i, j \in 1 .. n + 1 : entries'[i].name = entries'[j].name => i = j
    <3> SUFFICES ASSUME NEW i \in 1 .. n + 1, NEW j \in 1 .. n + 1,
                        entries'[i].name = entries'[j].name
                 PROVE  i = j
      OBVIOUS
    <3>1. CASE i \in 1 .. n /\ j \in 1 .. n
      BY <1>5, <1>8, <3>1
    <3>2. CASE i \in 1 .. n /\ j = n + 1
      BY <1>10, <1>11, <3>2
    <3>3. CASE i = n + 1 /\ j \in 1 .. n
      BY <1>10, <1>11, <3>3
    <3> QED
      BY <1>9, <3>1, <3>2, <3>3
  <2>2. \A i \in 1 .. n + 1 : entries'[i].name \notin dirp'
    BY <1>1, <1>9, <1>10, <1>11
  <2>3. dirp' \subseteq NameSet
    BY <1>1 DEF TableInv
  <2>4. next' \in 0 .. n + 1
    BY <1>3, <1>4
  <2> QED
    BY <1>5, <1>6, <2>1, <2>2, <2>3, <2>4 DEF TableInv
<1>13. StepInv'
  BY <1>3 DEF StepInv
<1>14. HeapInv'
  <2>1. /\ heap' \in [dirs : Int, tables : Int, names : Int, data : Int]
        /\ heap'.dirs = heap.dirs /\ heap'.data = heap.data
        /\ heap'.names = heap.names + 1
        /\ heap'.tables = IF entry_capacity = 0 THEN heap.tables + 1 ELSE heap.tables
    <3>1. heap \in [dirs : Int, tables : Int, names : Int, data : Int]
      BY DEF HeapInv
    <3>2. heap' = [heap EXCEPT !.names = @ + 1,
                               !.tables = IF entry_capacity = 0 THEN @ + 1 ELSE @]
      BY <1>3
    <3> DEFINE t == IF entry_capacity = 0 THEN heap.tables + 1 ELSE heap.tables
    <3>3. heap' = [heap EXCEPT !.names = heap.names + 1, !.tables = t]
      BY <3>1, <3>2
    <3>4. t \in Int /\ heap.names + 1 \in Int
      BY <3>1
    <3> HIDE DEF t
    <3>5. heap' = [dirs |-> heap.dirs, tables |-> t, names |-> heap.names + 1, data |-> heap.data]
      BY <3>1, <3>3
    <3> QED
      BY <3>1, <3>4, <3>5 DEF t
  <2>2. heap'.names = n + 1
    BY <2>1 DEF HeapInv, n
  <2>3. heap'.tables = 1
    BY <2>1 DEF HeapInv
  <2> QED
    BY <1>3, <1>5, <1>6, <2>1, <2>2, <2>3 DEF HeapInv
<1> QED
  BY <1>12, <1>13, <1>14

LEMMA FreeEntries ==
  ASSUME TableInv, NEW c, NEW h \in [dirs : Int, tables : Int, names : Int, data : Int]
  PROVE  free_directory_entries(h, c)
           = IF c = 0 THEN h
             ELSE [dirs |-> h.dirs, tables |-> h.tables - 1,
                   names |-> h.names - Len(entries), data |-> h.data]
<1> DEFINE n == h.names - Len(entries)
           t == h.tables - 1
<1>1. free_directory_entries(h, c) = IF c = 0 THEN h ELSE [h EXCEPT !.tables = t, !.names = n]
  BY DEF free_directory_entries
<1>i. n \in Int /\ t \in Int
  <2>1. Len(entries) \in Int
    BY DEF TableInv
  <2>2. h.names \in Int /\ h.tables \in Int
    OBVIOUS
  <2> QED
    BY <2>1, <2>2
<1> HIDE DEF n, t
<1> DEFINE g == [h EXCEPT !.tables = t, !.names = n]
<1>2. g = [h EXCEPT !.tables = t, !.names = n]
  OBVIOUS
<1> HIDE DEF g
<1>3. g = [dirs |-> h.dirs, tables |-> t, names |-> n, data |-> h.data]
  BY <1>i, <1>2
<1>4. free_directory_entries(h, c) = IF c = 0 THEN h ELSE g
  BY <1>1, <1>2
<1> QED
  BY <1>3, <1>4 DEF n, t

LEMMA Destroyed ==
  ASSUME NEW h \in [dirs : Int, tables : Int, names : Int, data : Int], NEW b
  PROVE  builder_destroy(h, b)
           = IF b.capacity = 0 THEN h
             ELSE [dirs |-> h.dirs, tables |-> h.tables, names |-> h.names, data |-> h.data - 1]
<1> DEFINE d == h.data - 1
<1>1. builder_destroy(h, b) = IF b.capacity = 0 THEN h ELSE [h EXCEPT !.data = d]
  BY DEF builder_destroy
<1> HIDE DEF d
<1>2. [h EXCEPT !.data = d]
        = [dirs |-> h.dirs, tables |-> h.tables, names |-> h.names, data |-> d]
  OBVIOUS
<1> QED
  BY <1>1, <1>2 DEF d

\* What the paths that give up free is what there is, when the string has
\* become b.
LEMMA AllFreed ==
  ASSUME ListInv, step # "read", NEW b, b.capacity = 0 => builder.capacity = 0
  PROVE  builder_destroy(free_directory_entries(Allocated(b), entry_capacity), b) = Nothing
<1> USE DEF ListInv
<1> DEFINE now == Allocated(b)
<1>0. /\ heap \in [dirs : Int, tables : Int, names : Int, data : Int]
      /\ heap.dirs = 0
      /\ heap.tables = IF entry_capacity = 0 THEN 0 ELSE 1
      /\ heap.names = Len(entries)
      /\ heap.data = IF builder.capacity = 0 THEN 0 ELSE 1
  BY DEF HeapInv
<1>1. /\ now \in [dirs : Int, tables : Int, names : Int, data : Int]
      /\ now.dirs = 0
      /\ now.tables = IF entry_capacity = 0 THEN 0 ELSE 1
      /\ now.names = Len(entries)
      /\ now.data = IF b.capacity = 0 THEN 0 ELSE 1
  <2>1. CASE builder.capacity = 0 /\ b.capacity # 0
    <3>1. now = [heap EXCEPT !.data = heap.data + 1]
      BY <2>1 DEF Allocated
    <3>2. now = [heap EXCEPT !.data = 1]
      BY <1>0, <2>1, <3>1
    <3> HIDE DEF now
    <3>3. now = [dirs |-> heap.dirs, tables |-> heap.tables, names |-> heap.names, data |-> 1]
      BY <1>0, <3>2
    <3> QED
      BY <1>0, <2>1, <3>3
  <2>2. CASE ~(builder.capacity = 0 /\ b.capacity # 0)
    <3>1. now = heap
      BY <2>2 DEF Allocated
    <3>2. (builder.capacity = 0) <=> (b.capacity = 0)
      BY <2>2
    <3> HIDE DEF now
    <3> QED
      BY <1>0, <3>1, <3>2
  <2> QED
    BY <2>1, <2>2
<1>2. Len(entries) \in Nat /\ Len(entries) <= entry_capacity /\ entry_capacity \in Nat
  BY DEF TableInv
<1> HIDE DEF now
<1> DEFINE h == free_directory_entries(now, entry_capacity)
           n == now.names - Len(entries)
<1>n. n = 0
  BY <1>1, <1>2
<1>3. h = IF entry_capacity = 0 THEN now
          ELSE [dirs |-> now.dirs, tables |-> now.tables - 1, names |-> n, data |-> now.data]
  BY <1>1, FreeEntries
<1> HIDE DEF h, n
<1>4. h = [dirs |-> 0, tables |-> 0, names |-> 0, data |-> now.data]
  <2>1. CASE entry_capacity = 0
    <3>1. now.names = 0
      BY <1>1, <1>2, <2>1
    <3> QED
      BY <1>1, <1>3, <2>1, <3>1
  <2>2. CASE entry_capacity # 0
    BY <1>1, <1>3, <1>n, <2>2
  <2> QED
    BY <2>1, <2>2
<1>5. h \in [dirs : Int, tables : Int, names : Int, data : Int]
  BY <1>1, <1>4
<1>6. builder_destroy(h, b)
        = IF b.capacity = 0 THEN h
          ELSE [dirs |-> h.dirs, tables |-> h.tables, names |-> h.names, data |-> h.data - 1]
  BY <1>5, Destroyed
<1>7. builder_destroy(h, b) = Nothing
  BY <1>1, <1>4, <1>6 DEF Nothing
<1> QED
  BY <1>7 DEF h, now

LEMMA ReturnedEmpty ==
  ASSUME Return("idle") \/ Return("failed"), builder' = NoBuilder, heap' = Nothing
  PROVE  ListInv'
<1>1. /\ step' \in {"idle", "failed"} /\ dirp' = {} /\ entries' = <<>>
      /\ entry_capacity' = 0 /\ next' = 0
  BY DEF Return
<1>2. TableInv'
  BY <1>1 DEF TableInv
<1>3. StepInv'
  BY <1>1 DEF StepInv
<1>4. HeapInv'
  BY <1>1 DEF HeapInv, NoBuilder, Nothing
<1> QED
  BY <1>2, <1>3, <1>4 DEF ListInv

LEMMA ReadEntryFailsStep ==
  ASSUME ListInv, ReadEntryFails
  PROVE  ListInv'
<1> USE DEF ListInv
<1> DEFINE n == Len(entries)
<1>1. PICK grown \in {entry_capacity, TableFor(n)} :
        heap' = free_directory_entries(
                  [heap EXCEPT !.dirs = @ - 1,
                               !.tables = IF entry_capacity = 0 /\ grown # 0 THEN @ + 1 ELSE @],
                  grown)
  BY DEF ReadEntryFails
<1>2. step = "read" /\ Return("failed") /\ builder' = builder
  BY DEF ReadEntryFails
<1>3. builder = NoBuilder
  BY <1>2 DEF StepInv
<1>4. /\ heap \in [dirs : Int, tables : Int, names : Int, data : Int]
      /\ heap.dirs = 1 /\ heap.names = n /\ heap.data = 0
      /\ heap.tables = IF entry_capacity = 0 THEN 0 ELSE 1
  BY <1>2, <1>3 DEF HeapInv, NoBuilder
<1>5. n \in Nat /\ entry_capacity \in Nat /\ n <= entry_capacity
  BY DEF TableInv
<1>6. TableFor(n) \in Nat \ {0}
  BY TableGrows
<1> HIDE DEF n
<1> DEFINE t == IF entry_capacity = 0 /\ grown = 0 THEN 0 ELSE 1
           h == [heap EXCEPT !.dirs = @ - 1,
                             !.tables = IF entry_capacity = 0 /\ grown # 0 THEN @ + 1 ELSE @]
<1>7. h = [dirs |-> 0, tables |-> t, names |-> n, data |-> 0]
  <2> DEFINE u == IF entry_capacity = 0 /\ grown # 0 THEN heap.tables + 1 ELSE heap.tables
  <2>1. h = [heap EXCEPT !.dirs = heap.dirs - 1, !.tables = u]
    BY <1>4
  <2>2. u = t
    BY <1>4
  <2>3. heap.dirs - 1 = 0
    BY <1>4
  <2>5. t \in Int
    OBVIOUS
  <2> HIDE DEF u, t, h
  <2>6. h = [heap EXCEPT !.dirs = 0, !.tables = t]
    BY <2>1, <2>2, <2>3
  <2> QED
    BY <1>4, <2>5, <2>6
<1>8. t \in Int
  OBVIOUS
<1>g. grown = 0 => entry_capacity = 0
  BY <1>6
<1>t. grown # 0 => t = 1
  OBVIOUS
<1>z. grown = 0 => t = 0 /\ n = 0
  BY <1>g, <1>5
<1> HIDE DEF h, t
<1>9. h \in [dirs : Int, tables : Int, names : Int, data : Int]
  BY <1>5, <1>7, <1>8
<1>10. heap' = IF grown = 0 THEN h
               ELSE [dirs |-> h.dirs, tables |-> h.tables - 1,
                     names |-> h.names - n, data |-> h.data]
  <2>1. heap' = free_directory_entries(h, grown)
    BY <1>1, Zenon DEF h
  <2> QED
    BY <1>9, <2>1, FreeEntries DEF n
<1>11. heap' = Nothing
  <2>1. CASE grown = 0
    BY <1>7, <1>10, <1>z, <2>1 DEF Nothing
  <2>2. CASE grown # 0
    BY <1>5, <1>7, <1>10, <1>t, <2>2 DEF Nothing
  <2> QED
    BY <2>1, <2>2
<1> QED
  BY <1>2, <1>3, <1>11, ReturnedEmpty

LEMMA EndOfDirectoryStep ==
  ASSUME ListInv, EndOfDirectory
  PROVE  ListInv'
<1> USE DEF ListInv
<1>1. /\ step = "read" /\ step' = "title" /\ dirp = {} /\ entries' = sorted(entries)
      /\ UNCHANGED <<dirp, entry_capacity, next, builder>>
  BY DEF EndOfDirectory
<1>2. heap' = [heap EXCEPT !.dirs = @ - 1]
  BY DEF EndOfDirectory
<1>3. /\ entries \in Seq(EntrySet)
      /\ \A i, j \in 1 .. Len(entries) : entries[i].name = entries[j].name => i = j
  BY DEF TableInv
<1>4. /\ entries' \in Seq(EntrySet) /\ Len(entries') = Len(entries)
      /\ \A i, j \in 1 .. Len(entries') : entries'[i].name = entries'[j].name => i = j
  <2> DEFINE table == entries
  <2>1. table \in Seq(EntrySet)
    BY <1>3
  <2>2. \A i, j \in 1 .. Len(table) : table[i].name = table[j].name => i = j
    BY <1>3
  <2>3. entries' = sorted(table)
    BY <1>1
  <2> HIDE DEF table
  <2>4. /\ sorted(table) \in Seq(EntrySet) /\ Len(sorted(table)) = Len(table)
        /\ \A i, j \in 1 .. Len(table) :
              sorted(table)[i].name = sorted(table)[j].name => i = j
    BY <2>1, <2>2, SortedTable
  <2> QED
    BY <2>3, <2>4 DEF table
<1>5. TableInv'
  BY <1>1, <1>4 DEF TableInv
<1>6. StepInv'
  BY <1>1 DEF StepInv
<1>7. HeapInv'
  <2>1. heap \in [dirs : Int, tables : Int, names : Int, data : Int] /\ heap.dirs = 1
    BY <1>1 DEF HeapInv
  <2>2. heap' = [dirs |-> 0, tables |-> heap.tables, names |-> heap.names, data |-> heap.data]
    BY <1>2, <2>1
  <2>3. heap' \in [dirs : Int, tables : Int, names : Int, data : Int]
    BY <2>1, <2>2
  <2> QED
    BY <1>1, <1>4, <2>2, <2>3 DEF HeapInv
<1> QED
  BY <1>5, <1>6, <1>7
-----------------------------------------------------------------------------
(* Writing the page                                                        *)

LEMMA MadeHasRoom == \A b \in Made : b.capacity # 0
<1>1. \A b \in Made : Len(b.text) \in Nat
  BY DEF Made, Clean
<1> QED
  BY <1>1 DEF Made

LEMMA AppendedPage ==
  ASSUME ListInv, step \in {"title", "items", "footer"},
         NEW pieces \in Seq(Clean), pieces # <<>>, Appended(pieces)
  PROVE  /\ builder' \in Made /\ builder'.capacity \notin {-1, 0}
         /\ heap' = [dirs |-> 0, tables |-> heap.tables, names |-> heap.names, data |-> 1]
<1> USE DEF ListInv
<1>1. builder \in Made \cup {NoBuilder}
  BY DEF StepInv
<1>2. builder' \in Made /\ builder'.capacity # -1
  BY <1>1, WrittenMade DEF Appended
<1>3. \A b \in Made : b.capacity # 0
  BY MadeHasRoom
<1>4. /\ heap \in [dirs : Int, tables : Int, names : Int, data : Int]
      /\ heap.dirs = 0
      /\ heap.data = IF builder.capacity = 0 THEN 0 ELSE 1
  BY DEF HeapInv
<1>5. heap' = IF builder.capacity = 0 THEN [heap EXCEPT !.data = heap.data + 1] ELSE heap
  BY <1>2, <1>3 DEF Appended, Allocated
<1>6. heap' = [dirs |-> 0, tables |-> heap.tables, names |-> heap.names, data |-> 1]
  <2>1. CASE builder.capacity = 0
    <3>1. heap' = [heap EXCEPT !.data = 1]
      BY <1>4, <1>5, <2>1
    <3> QED
      BY <1>4, <3>1
  <2>2. CASE builder.capacity # 0
    BY <1>4, <1>5, <2>2
  <2> QED
    BY <2>1, <2>2
<1> QED
  BY <1>2, <1>3, <1>6

LEMMA WriteTitleStep ==
  ASSUME RequestInv, WriteTitle
  PROVE  ListInv'
<1> USE DEF RequestInv, ListInv
<1>1. /\ step = "title" /\ Appended(Title) /\ step' = "items"
      /\ UNCHANGED <<dirp, entries, entry_capacity, next>>
  BY DEF WriteTitle
<1>2. Title \in Seq(Clean) /\ Title # <<>>
  <2>1. request_path \in Seq(Int)
    BY DEF TextInv
  <2> QED
    BY <2>1, TitleClean
<1>3. /\ builder' \in Made /\ builder'.capacity \notin {-1, 0}
      /\ heap' = [dirs |-> 0, tables |-> heap.tables, names |-> heap.names, data |-> 1]
  BY <1>1, <1>2, AppendedPage
<1>4. TableInv'
  BY <1>1 DEF TableInv
<1>5. StepInv'
  BY <1>1, <1>3 DEF StepInv
<1>6. HeapInv'
  BY <1>1, <1>3 DEF HeapInv
<1> QED
  BY <1>4, <1>5, <1>6

LEMMA WriteItemStep ==
  ASSUME RequestInv, WriteItem
  PROVE  ListInv'
<1> USE DEF RequestInv, ListInv
<1>1. /\ step = "items" /\ next < Len(entries) /\ Appended(Item(entries[next + 1]))
      /\ next' = next + 1
      /\ UNCHANGED <<step, dirp, entries, entry_capacity>>
  BY DEF WriteItem
<1>2. next \in Nat /\ Len(entries) \in Nat /\ entries \in Seq(EntrySet)
  BY DEF TableInv
<1>3. next + 1 \in 1 .. Len(entries)
  BY <1>1, <1>2
<1>4. entries[next + 1] \in EntrySet
  BY <1>2, <1>3, ElementOfSeq
<1>5. Item(entries[next + 1]) \in Seq(Clean) /\ Item(entries[next + 1]) # <<>>
  BY <1>4, ItemClean
<1>6. /\ builder' \in Made /\ builder'.capacity \notin {-1, 0}
      /\ heap' = [dirs |-> 0, tables |-> heap.tables, names |-> heap.names, data |-> 1]
  BY <1>1, <1>5, AppendedPage
<1>7. next' \in 0 .. Len(entries)
  BY <1>1, <1>2, <1>3
<1>8. TableInv'
  BY <1>1, <1>7 DEF TableInv
<1>9. StepInv'
  BY <1>1, <1>6 DEF StepInv
<1>10. HeapInv'
  BY <1>1, <1>6 DEF HeapInv
<1> QED
  BY <1>8, <1>9, <1>10

LEMMA WrittenNothing == Written(<<>>) = builder
<1>l. Len(<<>>) = 0 /\ 0 \in Nat
  OBVIOUS
<1> DEFINE c == CHOOSE w : Writes(<<>>, w, 0)
<1>1. Written(<<>>) = c[0]
  BY <1>l DEF Written, Writes
<1>2. Writes(<<>>, c, 0)
  BY <1>l, WritesExist
<1> HIDE DEF c
<1>3. c[0] = builder
  BY <1>2 DEF Writes
<1> QED
  BY <1>1, <1>3

\* A string that is half written has been allocated, or is the one there was.
LEMMA HalfWrittenMade ==
  ASSUME NEW pieces \in Seq(Clean), builder \in Made \cup {NoBuilder},
         NEW b \in HalfWritten(pieces)
  PROVE  b \in Made \/ b = builder
<1>1. PICK k \in 1 .. Len(pieces) : b = Written(SubSeq(pieces, 1, k - 1))
  BY DEF HalfWritten
<1> DEFINE front == SubSeq(pieces, 1, k - 1)
<1>2. front \in Seq(Clean)
  <2>1. \A i \in 1 .. k - 1 : pieces[i] \in Clean
    BY ElementOfSeq
  <2> QED
    BY <2>1
<1>3. CASE front = <<>>
  BY <1>1, <1>3, WrittenNothing
<1>4. CASE front # <<>>
  BY <1>1, <1>2, <1>4, WrittenMade
<1> QED
  BY <1>3, <1>4

LEMMA WriteFailsStep ==
  ASSUME RequestInv, WriteFails
  PROVE  ListInv'
<1> USE DEF RequestInv, ListInv
<1> DEFINE pieces == IF step = "title" THEN Title ELSE Item(entries[next + 1])
<1>1. /\ step \in {"title", "items"} /\ (step = "items" => next < Len(entries))
      /\ builder' = NoBuilder /\ Return("failed")
  BY DEF WriteFails
<1>2. PICK b \in HalfWritten(pieces) :
        heap' = builder_destroy(free_directory_entries(Allocated(b), entry_capacity), b)
  BY DEF WriteFails
<1>3. pieces \in Seq(Clean)
  <2>1. CASE step = "title"
    <3>1. request_path \in Seq(Int)
      BY DEF TextInv
    <3> QED
      BY <2>1, <3>1, TitleClean
  <2>2. CASE step = "items"
    <3>1. next \in Nat /\ Len(entries) \in Nat /\ entries \in Seq(EntrySet)
      BY DEF TableInv
    <3>2. next + 1 \in 1 .. Len(entries)
      BY <1>1, <2>2, <3>1
    <3>3. entries[next + 1] \in EntrySet
      BY <3>1, <3>2, ElementOfSeq
    <3> QED
      BY <2>2, <3>3, ItemClean
  <2> QED
    BY <1>1, <2>1, <2>2
<1>4. builder \in Made \cup {NoBuilder}
  BY <1>1 DEF StepInv
<1> HIDE DEF pieces
<1>5. b \in Made \/ b = builder
  BY <1>3, <1>4, HalfWrittenMade
<1>6. b.capacity = 0 => builder.capacity = 0
  BY <1>5, MadeHasRoom
<1>7. heap' = Nothing
  BY <1>1, <1>2, <1>6, AllFreed
<1> QED
  BY <1>1, <1>7, ReturnedEmpty

LEMMA FreeTableStep ==
  ASSUME ListInv, FreeTable
  PROVE  ListInv'
<1> USE DEF ListInv
<1>1. /\ step = "items" /\ step' = "footer" /\ entries' = <<>> /\ entry_capacity' = 0 /\ next' = 0
      /\ UNCHANGED <<dirp, builder>>
  BY DEF FreeTable
<1>2. heap' = free_directory_entries(heap, entry_capacity)
  BY DEF FreeTable
<1>3. /\ heap \in [dirs : Int, tables : Int, names : Int, data : Int]
      /\ heap.dirs = 0
      /\ heap.tables = IF entry_capacity = 0 THEN 0 ELSE 1
      /\ heap.names = Len(entries)
      /\ heap.data = IF builder.capacity = 0 THEN 0 ELSE 1
  BY <1>1 DEF HeapInv
<1>4. Len(entries) \in Nat /\ Len(entries) <= entry_capacity /\ entry_capacity \in Nat
  BY DEF TableInv
<1> DEFINE n == heap.names - Len(entries)
<1>n. n = 0
  BY <1>3, <1>4
<1>5. heap' = IF entry_capacity = 0 THEN heap
              ELSE [dirs |-> heap.dirs, tables |-> heap.tables - 1, names |-> n, data |-> heap.data]
  BY <1>2, <1>3, FreeEntries
<1> HIDE DEF n
<1>6. heap' = [dirs |-> 0, tables |-> 0, names |-> 0, data |-> heap.data]
  <2>1. CASE entry_capacity = 0
    <3>1. heap.names = 0
      BY <1>3, <1>4, <2>1
    <3> QED
      BY <1>3, <1>5, <2>1, <3>1
  <2>2. CASE entry_capacity # 0
    BY <1>3, <1>5, <1>n, <2>2
  <2> QED
    BY <2>1, <2>2
<1>7. TableInv'
  BY <1>1 DEF TableInv
<1>8. StepInv'
  BY <1>1 DEF StepInv
<1>9. HeapInv'
  BY <1>1, <1>3, <1>6 DEF HeapInv
<1> QED
  BY <1>7, <1>8, <1>9

LEMMA WriteFooterStep ==
  ASSUME ListInv, WriteFooter
  PROVE  ListInv'
<1> USE DEF ListInv
<1>1. /\ step = "footer" /\ Appended(<<FOOTER>>) /\ step' = "built" /\ dirp' = {}
      /\ entries' = <<>> /\ entry_capacity' = 0 /\ next' = 0
  BY DEF WriteFooter, Return
<1>2. <<FOOTER>> \in Seq(Clean) /\ <<FOOTER>> # <<>>
  BY FixedPieces, OnePiece
<1>3. /\ builder' \in Made /\ builder'.capacity \notin {-1, 0}
      /\ heap' = [dirs |-> 0, tables |-> heap.tables, names |-> heap.names, data |-> 1]
  BY <1>1, <1>2, AppendedPage
<1>4. heap.tables = 0 /\ heap.names = 0
  BY <1>1 DEF HeapInv, StepInv
<1>5. TableInv'
  BY <1>1 DEF TableInv
<1>6. StepInv'
  BY <1>1, <1>3 DEF StepInv
<1>7. HeapInv'
  BY <1>1, <1>3, <1>4 DEF HeapInv
<1> QED
  BY <1>5, <1>6, <1>7

LEMMA NoTableFreed ==
  ASSUME ListInv, step \in {"idle", "failed", "footer", "built"}
  PROVE  builder_destroy(heap, builder) = Nothing
<1>1. entry_capacity = 0
  BY DEF ListInv, StepInv
<1>2. free_directory_entries(heap, entry_capacity) = heap
  BY <1>1 DEF free_directory_entries
<1>3. builder_destroy(free_directory_entries(Allocated(builder), entry_capacity), builder) = Nothing
  BY AllFreed
<1>4. Allocated(builder) = heap
  BY DEF Allocated
<1> QED
  BY <1>2, <1>3, <1>4

LEMMA FooterFailsStep ==
  ASSUME ListInv, FooterFails
  PROVE  ListInv'
<1>1. /\ step = "footer" /\ builder' = NoBuilder /\ Return("failed")
      /\ heap' = builder_destroy(heap, builder)
  BY DEF FooterFails
<1> QED
  BY <1>1, NoTableFreed, ReturnedEmpty

LEMMA FreePageStep ==
  ASSUME ListInv, step \in {"failed", "built"}, FreePage
  PROVE  ListInv'
<1>1. builder' = NoBuilder /\ Return("idle") /\ heap' = builder_destroy(heap, builder)
  BY DEF FreePage
<1> QED
  BY <1>1, NoTableFreed, ReturnedEmpty

LEMMA BuildStep ==
  ASSUME RequestInv, Build
  PROVE  ListInv'
<1>1. ListInv
  BY DEF RequestInv
<1> QED
  BY <1>1, ReadHiddenStep, ReadEntryStep, ReadEntryFailsStep, EndOfDirectoryStep, WriteTitleStep,
     WriteItemStep, WriteFailsStep, FreeTableStep, WriteFooterStep, FooterFailsStep DEF Build
-----------------------------------------------------------------------------
(* The request                                                             *)

LEMMA StillList ==
  ASSUME ListInv, UNCHANGED lvars
  PROVE  ListInv'
<1>1. UNCHANGED <<step, dirp, entries, entry_capacity, next, builder, heap>>
  BY DEF lvars
<1> QED
  BY <1>1 DEF ListInv, TableInv, StepInv, HeapInv

LEMMA HasMax ==
  ASSUME NEW n \in Nat, NEW S, S \subseteq 1 .. n, S # {}
  PROVE  \E x \in S : \A y \in S : x >= y
<1> DEFINE T == {k \in Nat : n - k \in S}
<1>1. PICK x \in S : TRUE
  OBVIOUS
<1>2. n - x \in T
  BY <1>1
<1>3. T \subseteq Nat /\ T # {}
  BY <1>2
<1> DEFINE m == Min(T)
<1>4. m \in T
  <2> HIDE DEF T
  <2> QED
    BY <1>3, NatMin
<1>5. \A k \in T : m <= k
  <2> HIDE DEF T
  <2> QED
    BY <1>3, NatMin
<1> HIDE DEF m
<1>6. n - m \in S /\ m \in Nat
  BY <1>4
<1>7. ASSUME NEW y \in S PROVE n - m >= y
  <2>1. y \in Nat /\ n - y \in Nat /\ n - (n - y) = y
    OBVIOUS
  <2>2. n - y \in T
    BY <2>1
  <2>3. m <= n - y
    BY <1>5, <2>2
  <2> QED
    BY <1>6, <2>1, <2>3
<1> QED
  BY <1>6, <1>7

LEMMA LongestMax ==
  ASSUME NEW n \in Nat, NEW S, S \subseteq 1 .. n, S # {}
  PROVE  Max(S) \in S
BY HasMax DEF Max

LEMMA BaseType ==
  ASSUME NEW s \in Seq(Int)
  PROVE  SubSeq(s, 1, SelectLastInSeq(s, LAMBDA c : c = SLASH)) \in Seq(Int)
<1> DEFINE I == {i \in 1 .. Len(s) : s[i] = SLASH}
           m == SelectLastInSeq(s, LAMBDA c : c = SLASH)
<1>1. m = IF I # {} THEN Max(I) ELSE 0
  BY Zenon DEF SelectLastInSeq
<1>2. I \subseteq 1 .. Len(s) /\ Len(s) \in Nat
  OBVIOUS
<1> HIDE DEF I, m
<1>3. m \in Int /\ m <= Len(s)
  <2>1. CASE I = {}
    BY <1>1, <1>2, <2>1
  <2>2. CASE I # {}
    <3>1. m = Max(I)
      BY <1>1, <2>2, Zenon
    <3>2. Max(I) \in I
      BY <1>2, <2>2, LongestMax
    <3>3. m \in 1 .. Len(s)
      BY <1>2, <3>1, <3>2, Zenon
    <3> QED
      BY <1>2, <3>3
  <2> QED
    BY <2>1, <2>2
<1>4. SubSeq(s, 1, m) \in Seq(Int)
  BY <1>3, Part
<1> QED
  BY <1>4, Zenon DEF m

LEMMA GetType ==
  ASSUME NEW address \in Seq(Int)
  PROVE  Get(address) \in Seq(Int)
<1>1. GET \in Seq(Int) /\ HTTP_11 \in Seq(Int) /\ CRLF \in Seq(Int) /\ <<SP>> \in Seq(Int)
  BY DEF GET, HTTP_11, CRLF, SP, CR, LF
<1>2. \A s, t \in Seq(Int) : s \o t \in Seq(Int)
  BY ConcatProperties
<1>3. GET \o <<SP>> \in Seq(Int)
  BY <1>1, <1>2
<1>4. GET \o <<SP>> \o address \in Seq(Int)
  BY <1>2, <1>3
<1>5. GET \o <<SP>> \o address \o <<SP>> \in Seq(Int)
  BY <1>1, <1>2, <1>4
<1>6. GET \o <<SP>> \o address \o <<SP>> \o HTTP_11 \in Seq(Int)
  BY <1>1, <1>2, <1>5
<1>7. GET \o <<SP>> \o address \o <<SP>> \o HTTP_11 \o CRLF \in Seq(Int)
  BY <1>1, <1>2, <1>6
<1>8. GET \o <<SP>> \o address \o <<SP>> \o HTTP_11 \o CRLF \o CRLF \in Seq(Int)
  BY <1>1, <1>2, <1>7
<1> QED
  BY <1>8 DEF Get

LEMMA EmptyText ==
  /\ <<>> \in Clean /\ <<>> \in Seq(Int) /\ Len(<<>>) = 0
  /\ Len(<<>>) < HTTP_PATH_MAX /\ Len(<<>>) < FILE_PATH_MAX
<1>1. <<>> \in Clean /\ <<>> \in Seq(Int) /\ Len(<<>>) = 0
  BY DEF Clean
<1>2. 0 < HTTP_PATH_MAX /\ 0 < FILE_PATH_MAX
  BY HttpAssumption, FileAssumption
<1> QED
  BY <1>1, <1>2

LEMMA SendStep ==
  ASSUME RequestInv, NEW block \in Seq(Int), Send(block), url' \in Seq(Int),
         clicks' \in 0 .. MaxClicks
  PROVE  RequestInv'
<1>1. /\ raw' = block /\ pc' = "parse" /\ page' = <<>> /\ request_path' = <<>>
      /\ resolved_path' = <<>> /\ UNCHANGED <<fs, quiet, lvars>>
  BY Zenon DEF Send
<1>2. method' \in Methods
  BY Zenon DEF Send, Methods
<1>3. TextInv'
  BY <1>1, <1>2, EmptyText DEF TextInv, RequestInv
<1>4. ListInv'
  BY <1>1, StillList DEF RequestInv
<1> QED
  BY <1>3, <1>4 DEF RequestInv

LEMMA TypeStep ==
  ASSUME RequestInv, Type
  PROVE  RequestInv'
<1>1. UNCHANGED clicks
  BY DEF Type
<1>2. clicks' \in 0 .. MaxClicks
  BY <1>1 DEF RequestInv, TextInv
<1>3. Addresses \subseteq Seq(Int) /\ Blocks \subseteq Seq(Int)
  <2>1. 0 .. 255 \subseteq Int
    OBVIOUS
  <2>2. ASSUME NEW s \in Addresses \cup Blocks PROVE s \in Seq(Int)
    <3>1. s \in Seq(0 .. 255)
      BY RequestAssumption
    <3> QED
      BY <2>1, <3>1, Wider
  <2> QED
    BY <2>2
<1>4. ASSUME NEW address \in Addresses, url' = address, Send(Get(address)) PROVE RequestInv'
  BY <1>2, <1>3, <1>4, GetType, SendStep
<1>5. ASSUME NEW block \in Blocks, url' = <<>>, Send(block) PROVE RequestInv'
  BY <1>2, <1>3, <1>5, EmptyText, SendStep
<1> QED
  BY <1>4, <1>5 DEF Type

LEMMA ClickStep ==
  ASSUME RequestInv, Click
  PROVE  RequestInv'
<1>1. clicks < MaxClicks /\ clicks' = clicks + 1
  BY DEF Click
<1>2. clicks' \in 0 .. MaxClicks
  BY <1>1, RequestAssumption DEF RequestInv, TextInv
<1> DEFINE base == SubSeq(url, 1, SelectLastInSeq(url, LAMBDA c : c = SLASH))
<1>3. PICK i \in Marks(page, ITEM), j \in Marks(page, LABEL) :
        /\ url' = base \o SubSeq(page, i + 1, j - 1)
        /\ Send(Get(base \o SubSeq(page, i + 1, j - 1)))
  BY Zenon DEF Click
<1>4. url \in Seq(Int) /\ page \in Seq(Int)
  BY DEF RequestInv, TextInv, Clean
<1>5. base \in Seq(Int)
  BY <1>4, BaseType, Zenon
<1> HIDE DEF base
<1>6. SubSeq(page, i + 1, j - 1) \in Seq(Int)
  <2>1. i \in 1 .. Len(page) /\ j \in 1 .. Len(page) /\ Len(page) \in Nat
    BY <1>4 DEF Marks
  <2>2. i + 1 \in Int /\ j - 1 \in Int /\ 1 <= i + 1 /\ j - 1 <= Len(page)
    BY <2>1
  <2> QED
    BY <1>4, <2>2, Part
<1> DEFINE address == base \o SubSeq(page, i + 1, j - 1)
<1>7. address \in Seq(Int)
  BY <1>5, <1>6, ConcatProperties
<1>8. url' = address /\ Send(Get(address))
  BY <1>3
<1> HIDE DEF address
<1>9. Get(address) \in Seq(Int)
  BY <1>7, GetType
<1> QED
  BY <1>2, <1>7, <1>8, <1>9, SendStep

LEMMA ForgetStep ==
  ASSUME RequestInv, Forget
  PROVE  RequestInv'
<1>1. /\ pc' = "idle" /\ quiet' = TRUE /\ request_path' = <<>> /\ resolved_path' = <<>>
      /\ url' = <<>> /\ page' = <<>> /\ clicks' = 0 /\ UNCHANGED <<fs, raw, lvars>>
  BY Zenon DEF Forget
<1>2. method' \in Methods
  BY Zenon DEF Forget, Methods
<1>3. 0 \in 0 .. MaxClicks
  BY RequestAssumption
<1>4. TextInv'
  BY <1>1, <1>2, <1>3, EmptyText DEF TextInv, RequestInv
<1>5. ListInv'
  BY <1>1, StillList DEF RequestInv
<1> QED
  BY <1>4, <1>5 DEF RequestInv

LEMMA ChangeStep ==
  ASSUME RequestInv, Change
  PROVE  RequestInv'
<1>1. /\ fs' \in Worlds /\ quiet' = FALSE
      /\ UNCHANGED <<request_path, resolved_path, pc, raw, method, url, page, clicks, lvars>>
  BY DEF Change
<1>2. TextInv'
  BY <1>1 DEF TextInv, RequestInv
<1>3. ListInv'
  BY <1>1, StillList DEF RequestInv
<1> QED
  BY <1>2, <1>3 DEF RequestInv

LEMMA ParseRequestStep ==
  ASSUME RequestInv, ParseRequest
  PROVE  RequestInv'
<1> DEFINE r == http_parse_request(raw)
<1>1. raw \in Seq(Int)
  BY DEF RequestInv, TextInv
<1>2. raw' = <<>> /\ UNCHANGED <<fs, resolved_path, client, quiet, lvars>>
  BY DEF ParseRequest
<1>3. \/ pc' = "answered" /\ UNCHANGED <<method, request_path>>
      \/ /\ r.ok /\ r.method # "UNSUPPORTED"
         /\ method' = r.method /\ request_path' = r.path /\ pc' = "root"
  BY DEF ParseRequest, Answer
<1>4. r.ok => /\ r.method \in {"GET", "HEAD", "UNSUPPORTED"}
              /\ r.path \in Seq(Int) /\ Len(r.path) < HTTP_PATH_MAX
  BY <1>1, ParseRequestType
<1> HIDE DEF r
<1>5. {"GET", "HEAD"} \subseteq Methods
  BY Zenon DEF Methods
<1>6. /\ method' \in Methods /\ pc' \in {"answered", "root"}
      /\ request_path' \in Seq(Int) /\ Len(request_path') < HTTP_PATH_MAX
  <2>1. CASE pc' = "answered" /\ UNCHANGED <<method, request_path>>
    BY <2>1 DEF RequestInv, TextInv
  <2>2. CASE /\ r.ok /\ r.method # "UNSUPPORTED"
             /\ method' = r.method /\ request_path' = r.path /\ pc' = "root"
    BY <1>4, <1>5, <2>2
  <2> QED
    BY <1>3, <2>1, <2>2
<1>7. TextInv'
  BY <1>2, <1>6, EmptyText DEF TextInv, RequestInv, client
<1>8. ListInv'
  BY <1>2, StillList DEF RequestInv
<1> QED
  BY <1>7, <1>8 DEF RequestInv

LEMMA ResolveRootStep ==
  ASSUME RequestInv, ResolveRoot
  PROVE  RequestInv'
<1>1. UNCHANGED <<fs, request_path, resolved_path, raw, method, client, quiet, lvars>>
  BY Zenon DEF ResolveRoot
<1>2. pc' \in {"answered", "target"}
  BY DEF ResolveRoot, Fail, Answer
<1>3. TextInv'
  BY <1>1, <1>2 DEF TextInv, RequestInv, client
<1>4. ListInv'
  BY <1>1, StillList DEF RequestInv
<1> QED
  BY <1>3, <1>4 DEF RequestInv

\* A path that realpath has accepted fits into info.resolved_path.
LEMMA RealpathFits ==
  ASSUME NEW f, NEW text, realpath(f, text).result = "OK"
  PROVE  Len(PathText(realpath(f, text).at)) < FILE_PATH_MAX
<1> DEFINE w == Walk(f, <<>>, Components(text))
           fits == Len(PathText(w.at)) < FILE_PATH_MAX
           result == IF w.result = "OK" /\ ~fits THEN "ERROR" ELSE w.result
<1>1. realpath(f, text) = [at |-> w.at, result |-> result]
  BY Zenon DEF realpath
<1>2. result = "OK" => fits
  OBVIOUS
<1> HIDE DEF w, fits, result
<1>3. realpath(f, text).at = w.at /\ result = "OK"
  BY <1>1
<1>4. fits
  BY <1>2, <1>3
<1> QED
  BY <1>3, <1>4 DEF fits

LEMMA ResolveTargetStep ==
  ASSUME RequestInv, ResolveTarget
  PROVE  RequestInv'
<1>1. UNCHANGED <<fs, request_path, raw, method, client, quiet, lvars>>
  BY Zenon DEF ResolveTarget
<1> DEFINE w == realpath(fs, joined(DocRoot, decode_path(request_path).text))
<1>2. \/ pc' = "answered" /\ UNCHANGED resolved_path
      \/ w.result = "OK" /\ resolved_path' = PathText(w.at) /\ pc' = "stat"
  BY Zenon DEF ResolveTarget, Fail, Answer
<1>3. w.result = "OK" => Len(PathText(w.at)) < FILE_PATH_MAX
  BY RealpathFits
<1> HIDE DEF w
<1>4. pc' \in {"answered", "stat"} /\ Len(resolved_path') < FILE_PATH_MAX
  BY <1>2, <1>3 DEF RequestInv, TextInv
<1>5. TextInv'
  BY <1>1, <1>4 DEF TextInv, RequestInv, client
<1>6. ListInv'
  BY <1>1, StillList DEF RequestInv
<1> QED
  BY <1>5, <1>6 DEF RequestInv

LEMMA StatPathStep ==
  ASSUME RequestInv, StatPath
  PROVE  RequestInv'
<1>1. UNCHANGED <<fs, request_path, resolved_path, raw, method, client, quiet, lvars>>
  BY Zenon DEF StatPath
<1>2. pc' \in {"answered", "listing"}
  BY DEF StatPath, Fail, Answer
<1>3. TextInv'
  BY <1>1, <1>2 DEF TextInv, RequestInv, client
<1>4. ListInv'
  BY <1>1, StillList DEF RequestInv
<1> QED
  BY <1>3, <1>4 DEF RequestInv

LEMMA ListingStep ==
  ASSUME RequestInv, StartListing \/ BuildListing
  PROVE  RequestInv'
<1>1. UNCHANGED fvars
  BY DEF StartListing, BuildListing
<1>2. TextInv'
  BY <1>1 DEF TextInv, RequestInv, fvars
<1>3. CASE StartListing
  BY <1>2, <1>3, OpenStep DEF StartListing, RequestInv
<1>4. CASE BuildListing
  BY <1>2, <1>4, BuildStep DEF BuildListing, RequestInv
<1> QED
  BY <1>3, <1>4

LEMMA ListingFailedStep ==
  ASSUME RequestInv, ListingFailed
  PROVE  RequestInv'
<1>1. /\ step = "failed" /\ pc' = "answered" /\ FreePage
      /\ UNCHANGED <<fs, request_path, resolved_path, raw, method, client, quiet>>
  BY DEF ListingFailed, Fail, Answer
<1>2. TextInv'
  BY <1>1 DEF TextInv, RequestInv, client
<1>3. ListInv'
  BY <1>1, FreePageStep DEF RequestInv
<1> QED
  BY <1>2, <1>3 DEF RequestInv

LEMMA SendListingStep ==
  ASSUME RequestInv, SendListing
  PROVE  RequestInv'
<1>1. /\ step = "built" /\ pc' = "answered" /\ FreePage
      /\ page' \in {<<>>, builder.text}
      /\ UNCHANGED <<fs, request_path, resolved_path, raw, method, url, clicks, quiet>>
  BY DEF SendListing, Answer
<1>2. builder.text \in Clean
  BY <1>1 DEF RequestInv, ListInv, StepInv, Made
<1>3. page' \in Clean
  BY <1>1, <1>2, EmptyText
<1>4. TextInv'
  BY <1>1, <1>3 DEF TextInv, RequestInv
<1>5. ListInv'
  BY <1>1, FreePageStep DEF RequestInv
<1> QED
  BY <1>4, <1>5 DEF RequestInv

LEMMA RequestStep == RequestInv /\ [Next]_vars => RequestInv'
<1> SUFFICES ASSUME RequestInv, [Next]_vars PROVE RequestInv'
  OBVIOUS
<1>1. CASE UNCHANGED vars
  <2>1. UNCHANGED <<fs, request_path, resolved_path, pc, raw, method, url, page, clicks, quiet>>
        /\ UNCHANGED lvars
    BY <1>1 DEF vars, fvars
  <2>2. TextInv'
    BY <2>1 DEF RequestInv, TextInv
  <2> QED
    BY <2>1, <2>2, StillList DEF RequestInv
<1>2. CASE Next
  BY <1>2, TypeStep, ClickStep, ForgetStep, ChangeStep, ParseRequestStep, ResolveRootStep,
     ResolveTargetStep, StatPathStep, ListingStep, ListingFailedStep, SendListingStep DEF Next
<1> QED
  BY <1>1, <1>2

LEMMA RequestCorrect == Spec => []RequestInv
<1> QED
  BY RequestInit, RequestStep, PTL DEF Spec
-----------------------------------------------------------------------------
(* The path that is served                                                 *)

LEMMA PathKept ==
  ASSUME PathInv, UNCHANGED <<root, resolved_path>>,
         pc' \in {"parse", "root", "target"} => pc \in {"parse", "root", "target"}
  PROVE  PathInv'
  BY DEF PathInv

LEMMA PathGone ==
  ASSUME resolved_path' = <<>>, root' \in Seq(Int)
  PROVE  PathInv'
  BY EmptyText DEF PathInv

LEMMA PathStep == RequestInv /\ PathInv /\ [Next]_vars => PathInv'
<1> SUFFICES ASSUME RequestInv, PathInv, [Next]_vars PROVE PathInv'
  OBVIOUS
<1>1. CASE UNCHANGED vars
  <2>1. UNCHANGED <<pc, root, resolved_path>>
    BY <1>1 DEF vars, fvars
  <2> QED
    BY <2>1, PathKept
<1>2. ASSUME NEW block, Send(block) PROVE PathInv'
  <2>1. resolved_path' = <<>> /\ root' = <<>>
    BY <1>2, Zenon DEF Send
  <2> QED
    BY <2>1, EmptyText, PathGone
<1>3. CASE Type
  BY <1>2, <1>3, Zenon DEF Type
<1>4. CASE Click
  BY <1>2, <1>4, Zenon DEF Click
<1>5. CASE Forget
  <2>1. resolved_path' = <<>> /\ root' = <<>>
    BY <1>5, Zenon DEF Forget
  <2> QED
    BY <2>1, EmptyText, PathGone
<1>6. CASE Change
  BY <1>6, PathKept DEF Change
<1>7. CASE ParseRequest
  <2>1. pc = "parse" /\ UNCHANGED <<root, resolved_path>>
    BY <1>7, Zenon DEF ParseRequest
  <2> QED
    BY <2>1, PathKept
<1>8. CASE ResolveRoot
  <2> DEFINE text == PathText(realpath(fs, DocRoot).at)
  <2>1. pc = "root" /\ UNCHANGED resolved_path /\ (UNCHANGED root \/ root' = text)
    BY <1>8, Zenon DEF ResolveRoot
  <2>2. text \in Seq(Int)
    BY RealpathText DEF RequestInv, TextInv
  <2> HIDE DEF text
  <2>3. resolved_path' = <<>> /\ root' \in Seq(Int)
    BY <2>1, <2>2 DEF PathInv
  <2> QED
    BY <2>3, PathGone
<1>9. CASE ResolveTarget
  <2> DEFINE text == PathText(realpath(fs, joined(DocRoot, decode_path(request_path).text)).at)
  <2>1. /\ pc = "target" /\ UNCHANGED root
        /\ \/ UNCHANGED resolved_path
           \/ resolved_path' = text /\ path_has_prefix(text, root) /\ pc' = "stat"
    BY <1>9, Zenon DEF ResolveTarget
  <2>2. text \in Seq(Int)
    BY RealpathText DEF RequestInv, TextInv
  <2> HIDE DEF text
  <2>3. CASE UNCHANGED resolved_path
    BY <2>1, <2>3, PathKept
  <2>4. CASE resolved_path' = text /\ path_has_prefix(text, root) /\ pc' = "stat"
    BY <2>1, <2>2, <2>4 DEF PathInv
  <2> QED
    BY <2>1, <2>3, <2>4
<1>10. CASE StatPath
  <2>1. pc' \notin {"parse", "root", "target"} /\ UNCHANGED <<root, resolved_path>>
    BY <1>10 DEF StatPath, Fail, Answer
  <2> QED
    BY <2>1, PathKept
<1>11. CASE StartListing \/ BuildListing
  <2>1. UNCHANGED <<pc, root, resolved_path>>
    BY <1>11, Zenon DEF StartListing, BuildListing, fvars
  <2> QED
    BY <2>1, PathKept
<1>12. CASE ListingFailed \/ SendListing
  <2>1. pc' = "answered" /\ UNCHANGED <<root, resolved_path>>
    BY <1>12, Zenon DEF ListingFailed, SendListing, Fail, Answer
  <2> QED
    BY <2>1, PathKept
<1> QED
  BY <1>1, <1>3, <1>4, <1>5, <1>6, <1>7, <1>8, <1>9, <1>10, <1>11, <1>12 DEF Next
-----------------------------------------------------------------------------
(* The table of a directory that stands still                              *)

LEMMA VisibleSame ==
  ASSUME UNCHANGED <<fs, resolved_path>>
  PROVE  Visible' = Visible
<1>1. fs' = fs /\ resolved_path' = resolved_path
  OBVIOUS
<1> QED
  BY <1>1, Zenon DEF Visible, Children, Unhidden

\* IsDirectoryChild of a file system and a path.
DirectoryAt(f, path, name) ==
  Len(path \o <<SLASH>> \o name) < FILE_PATH_MAX /\ IsDirectory(stat(f, path \o <<SLASH>> \o name))

LEMMA MarkedIs ==
  /\ Marked <=> \A i \in 1 .. Len(entries) :
                  entries[i].is_directory <=> DirectoryAt(fs, resolved_path, entries[i].name)
  /\ Marked' <=> \A i \in 1 .. Len(entries') :
                   entries'[i].is_directory <=> DirectoryAt(fs', resolved_path', entries'[i].name)
<1>1. Marked <=> \A i \in 1 .. Len(entries) :
                   entries[i].is_directory <=> DirectoryAt(fs, resolved_path, entries[i].name)
  BY Zenon DEF Marked, IsDirectoryChild, DirectoryAt
<1>2. Marked' <=> \A i \in 1 .. Len(entries') :
                    entries'[i].is_directory <=> DirectoryAt(fs', resolved_path', entries'[i].name)
  BY Zenon DEF Marked, IsDirectoryChild, DirectoryAt
<1> QED
  BY <1>1, <1>2

\* Nothing of it changes.
LEMMA FilledKept ==
  ASSUME FilledInv, UNCHANGED <<fs, resolved_path, pc, quiet, step, dirp, entries>>
  PROVE  FilledInv'
<1>1. Visible' = Visible
  BY VisibleSame
<1>2. /\ fs' = fs /\ resolved_path' = resolved_path /\ pc' = pc /\ quiet' = quiet
      /\ step' = step /\ dirp' = dirp /\ entries' = entries
  OBVIOUS
<1>3. Listed' = Listed
  BY <1>2, Zenon DEF Listed
<1>4. Unhidden(dirp)' = Unhidden(dirp)
  BY <1>2, Zenon DEF Unhidden
<1>5. Marked' <=> Marked
  BY <1>2, MarkedIs, Zenon
<1>6. Ordered' <=> Ordered
  BY <1>2 DEF Ordered
<1> QED
  BY <1>1, <1>2, <1>3, <1>4, <1>5, <1>6 DEF FilledInv

\* No directory is open, and no table there.
LEMMA FilledIdle ==
  ASSUME step' \notin {"read", "title", "items"}, step' # "idle" => pc' = "listing"
  PROVE  FilledInv'
  BY DEF FilledInv

LEMMA FilledStart ==
  ASSUME FilledInv, RequestInv, StartListing
  PROVE  FilledInv'
<1>1. pc = "listing" /\ step = "idle" /\ UNCHANGED <<fs, resolved_path, pc, quiet>>
  BY Zenon DEF StartListing, fvars
<1>2. CASE OpenDirectoryFails
  <2>1. step' = "failed"
    BY <1>2, Zenon DEF OpenDirectoryFails, Return
  <2> QED
    BY <1>1, <2>1, FilledIdle
<1>3. CASE OpenDirectory
  <2> DEFINE at == Walk(fs, <<>>, Components(resolved_path)).at
             C == Children(at)
  <2>1. step' = "read" /\ dirp' = C \cup {<<DOT>>, <<DOT, DOT>>} /\ entries' = entries
    BY <1>3, Zenon DEF OpenDirectory
  <2>2. entries = <<>>
    BY <1>1 DEF RequestInv, ListInv, StepInv
  <2>3. Visible = Unhidden(C)
    BY Zenon DEF Visible
  <2> HIDE DEF C
  <2>4. Unhidden(dirp') = Unhidden(C)
    <3>1. <<DOT>>[1] = DOT /\ <<DOT, DOT>>[1] = DOT
      OBVIOUS
    <3>2. \A name \in {<<DOT>>, <<DOT, DOT>>} : name[1] = DOT
      BY <3>1, Zenon
    <3> QED
      BY <2>1, <3>2, Zenon DEF Unhidden
  <2>5. Listed' = {} /\ Len(entries') = 0
    BY <2>1, <2>2 DEF Listed
  <2>6. Visible' = Visible
    BY <1>1, VisibleSame
  <2>7. Unhidden(dirp)' = Unhidden(dirp')
    BY DEF Unhidden
  <2>8. (Unhidden(dirp) \cup Listed = Visible)'
    BY <2>3, <2>4, <2>5, <2>6, <2>7
  <2>9. Marked'
    BY <2>5 DEF Marked
  <2> QED
    BY <1>1, <2>1, <2>8, <2>9 DEF FilledInv
<1> QED
  BY <1>2, <1>3 DEF StartListing

LEMMA FilledReads ==
  ASSUME FilledInv, RequestInv, ReadEntry, UNCHANGED <<fs, resolved_path, pc, quiet>>
  PROVE  FilledInv'
<1> DEFINE n == Len(entries)
<1>1. PICK name \in dirp :
        /\ name[1] # DOT
        /\ dirp' = dirp \ {name}
        /\ append_directory_entry(name, IsDirectoryChild(name))
  BY DEF ReadEntry
<1> DEFINE e == [name |-> name, is_directory |-> IsDirectoryChild(name)]
<1>2. step = "read" /\ step' = "read" /\ entries' = Append(entries, e)
  BY <1>1 DEF ReadEntry, append_directory_entry
<1>3. e.name = name /\ (e.is_directory <=> DirectoryAt(fs, resolved_path, name))
  BY DEF IsDirectoryChild, DirectoryAt
<1>4. e \in EntrySet
  <2>1. IsDirectoryChild(name) \in BOOLEAN
    BY DEF IsDirectoryChild, IsDirectory
  <2>2. name \in NameSet
    BY DEF RequestInv, ListInv, TableInv
  <2> QED
    BY <2>1, <2>2 DEF EntrySet
<1> HIDE DEF e
<1>5. n \in Nat /\ entries \in Seq(EntrySet)
  BY DEF RequestInv, ListInv, TableInv
<1>6. /\ Len(entries') = n + 1
      /\ \A i \in 1 .. n : entries'[i] = entries[i]
      /\ entries'[n + 1] = e
  BY <1>2, <1>4, <1>5, AppendProperties
<1>7. Visible' = Visible
  BY VisibleSame
<1>8. \A i \in 1 .. n + 1 : i \in 1 .. n \/ i = n + 1
  BY <1>5
<1>9. 1 .. n \subseteq 1 .. n + 1 /\ n + 1 \in 1 .. n + 1
  BY <1>5
<1> HIDE DEF n
<1>10. Listed' = Listed \cup {name}
  <2>1. Listed = {entries[i].name : i \in 1 .. n} /\ Listed' = {entries'[i].name : i \in 1 .. n + 1}
    BY <1>6 DEF Listed, n
  <2> QED
    BY <1>3, <1>6, <1>8, <1>9, <2>1
<1>11. Unhidden(dirp)' \cup {name} = Unhidden(dirp)
  BY <1>1 DEF Unhidden
<1>12. ASSUME quiet' PROVE (Unhidden(dirp) \cup Listed = Visible)'
  <2>1. Unhidden(dirp) \cup Listed = Visible
    BY <1>2, <1>12 DEF FilledInv
  <2> QED
    BY <1>7, <1>10, <1>11, <2>1
<1>13. ASSUME quiet' PROVE Marked'
  <2> DEFINE Is(m) == DirectoryAt(fs, resolved_path, m)
  <2>1. \A j \in 1 .. n : entries[j].is_directory <=> Is(entries[j].name)
    BY <1>2, <1>13, MarkedIs DEF FilledInv, n
  <2> HIDE DEF Is
  <2>2. \A i \in 1 .. n + 1 : entries'[i].is_directory <=> Is(entries'[i].name)
    <3> SUFFICES ASSUME NEW i \in 1 .. n + 1
                 PROVE  entries'[i].is_directory <=> Is(entries'[i].name)
      OBVIOUS
    <3>1. CASE i \in 1 .. n
      BY <1>6, <2>1, <3>1, Zenon
    <3>2. CASE i = n + 1
      BY <1>3, <1>6, <3>2, Zenon DEF Is
    <3> QED
      BY <1>8, <3>1, <3>2
  <2> QED
    BY <1>6, <2>2, MarkedIs, Zenon DEF Is
<1>14. step' # "idle" => pc' = "listing"
  BY <1>2 DEF FilledInv
<1> QED
  BY <1>2, <1>12, <1>13, <1>14 DEF FilledInv

LEMMA FilledSorts ==
  ASSUME FilledInv, RequestInv, EndOfDirectory, UNCHANGED <<fs, resolved_path, pc, quiet>>
  PROVE  FilledInv'
<1> DEFINE table == entries
           n == Len(table)
<1>1. step = "read" /\ step' = "title" /\ dirp = {} /\ dirp' = {} /\ entries' = sorted(table)
  BY DEF EndOfDirectory
<1>2. /\ table \in Seq(EntrySet) /\ n \in Nat
      /\ \A i, j \in 1 .. Len(table) : table[i].name = table[j].name => i = j
  BY DEF RequestInv, ListInv, TableInv
<1>3. Listed = {table[i].name : i \in 1 .. n}
  BY DEF Listed
<1>4. quiet => /\ Unhidden(dirp) \cup Listed = Visible
               /\ \A i \in 1 .. n :
                    table[i].is_directory <=> DirectoryAt(fs, resolved_path, table[i].name)
  BY <1>1, MarkedIs DEF FilledInv
<1> HIDE DEF table
<1>5. /\ Len(sorted(table)) = n
      /\ \A i, j \in 1 .. n : i < j => Before(sorted(table)[i].name, sorted(table)[j].name)
      /\ \A k \in 1 .. n : \E i \in 1 .. n : sorted(table)[k] = table[i]
      /\ \A i \in 1 .. n : \E k \in 1 .. n : sorted(table)[k] = table[i]
  BY <1>2, SortedTable
<1> HIDE DEF n
<1>6. Listed' = Listed
  <2>1. Listed' = {sorted(table)[i].name : i \in 1 .. n}
    BY <1>1, <1>5 DEF Listed
  <2>2. ASSUME NEW k \in 1 .. n PROVE sorted(table)[k].name \in Listed
    <3>1. PICK i \in 1 .. n : sorted(table)[k] = table[i]
      BY <1>5
    <3> QED
      BY <1>3, <3>1, Zenon
  <2>3. ASSUME NEW i \in 1 .. n PROVE table[i].name \in Listed'
    <3>1. PICK k \in 1 .. n : sorted(table)[k] = table[i]
      BY <1>5
    <3> QED
      BY <2>1, <3>1, Zenon
  <2>4. Listed' \subseteq Listed
    BY <2>1, <2>2, Zenon
  <2>5. Listed \subseteq Listed'
    BY <1>3, <2>3, Zenon
  <2> QED
    BY <2>4, <2>5, Zenon
<1>7. Visible' = Visible
  BY VisibleSame
<1>8. Unhidden(dirp)' = Unhidden(dirp)
  BY <1>1 DEF Unhidden
<1>9. Len(entries') = n /\ \A i, j \in 1 .. n : i < j => Before(entries'[i].name, entries'[j].name)
  BY <1>1, <1>5
<1>10. Ordered'
  BY <1>9, Zenon DEF Ordered, Before
<1>11. ASSUME quiet' PROVE Marked'
  <2> DEFINE Is(m) == DirectoryAt(fs, resolved_path, m)
  <2>1. \A i \in 1 .. n : table[i].is_directory <=> Is(table[i].name)
    BY <1>4, <1>11
  <2> HIDE DEF Is
  <2>2. \A k \in 1 .. n : entries'[k].is_directory <=> Is(entries'[k].name)
    <3> SUFFICES ASSUME NEW k \in 1 .. n
                 PROVE  entries'[k].is_directory <=> Is(entries'[k].name)
      OBVIOUS
    <3>1. PICK i \in 1 .. n : sorted(table)[k] = table[i]
      BY <1>5
    <3>2. entries'[k] = table[i]
      BY <1>1, <3>1, Zenon
    <3> QED
      BY <2>1, <3>2, Zenon
  <2> QED
    BY <1>9, <2>2, MarkedIs, Zenon DEF Is
<1>12. ASSUME quiet' PROVE (Unhidden(dirp) \cup Listed = Visible)'
  BY <1>4, <1>6, <1>7, <1>8, <1>12
<1>13. pc' = "listing"
  BY <1>1 DEF FilledInv
<1> QED
  BY <1>1, <1>10, <1>11, <1>12, <1>13 DEF FilledInv

LEMMA FilledStep == RequestInv /\ FilledInv /\ [Next]_vars => FilledInv'
<1> SUFFICES ASSUME RequestInv, FilledInv, [Next]_vars PROVE FilledInv'
  OBVIOUS
<1>0. step # "idle" => pc = "listing"
  BY DEF FilledInv
<1>1. CASE UNCHANGED vars
  <2>1. UNCHANGED <<fs, resolved_path, pc, quiet, step, dirp, entries>>
    BY <1>1, Zenon DEF vars, fvars, lvars
  <2> QED
    BY <2>1, FilledKept
<1>2. CASE Type \/ Click \/ Forget \/ ParseRequest \/ ResolveRoot \/ ResolveTarget \/ StatPath
  <2>1. pc # "listing" /\ step' = step
    BY <1>2, Zenon DEF Type, Click, Send, Forget, ParseRequest, ResolveRoot, ResolveTarget, StatPath, lvars
  <2>2. step' = "idle"
    BY <1>0, <2>1
  <2> QED
    BY <2>2, FilledIdle
<1>3. CASE Change
  <2>1. step \in {"idle", "read"} /\ quiet' = FALSE /\ UNCHANGED <<pc, step>>
    BY <1>3, Zenon DEF Change, lvars
  <2> QED
    BY <1>0, <2>1 DEF FilledInv
<1>4. CASE StartListing
  BY <1>4, FilledStart
<1>5. CASE BuildListing
  <2>1. Build /\ UNCHANGED <<fs, resolved_path, pc, quiet>>
    BY <1>5, Zenon DEF BuildListing, fvars
  <2>2. CASE ReadHidden
    <3>1. PICK name \in dirp : name[1] = DOT /\ dirp' = dirp \ {name}
      BY <2>2, Zenon DEF ReadHidden
    <3>2. step = "read" /\ UNCHANGED <<step, entries>>
      BY <2>2, Zenon DEF ReadHidden
    <3>3. Unhidden(dirp)' = Unhidden(dirp)
      BY <3>1 DEF Unhidden
    <3>4. Visible' = Visible
      BY <2>1, VisibleSame
    <3>5. Listed' = Listed
      BY <3>2, Zenon DEF Listed
    <3>6. Marked' <=> Marked
      BY <2>1, <3>2, MarkedIs, Zenon
    <3> QED
      BY <1>0, <2>1, <3>2, <3>3, <3>4, <3>5, <3>6 DEF FilledInv
  <2>3. CASE ReadEntry
    BY <2>1, <2>3, FilledReads
  <2>4. CASE EndOfDirectory
    BY <2>1, <2>4, FilledSorts
  <2>5. CASE WriteTitle \/ WriteItem
    <3>1. /\ step \in {"title", "items"} /\ step' = "items"
          /\ UNCHANGED <<dirp, entries>>
      BY <2>5 DEF WriteTitle, WriteItem
    <3>2. Visible' = Visible
      BY <2>1, VisibleSame
    <3>3. Listed' = Listed /\ Unhidden(dirp)' = Unhidden(dirp)
      BY <3>1, Zenon DEF Listed, Unhidden
    <3>4. Marked' <=> Marked
      BY <2>1, <3>1, MarkedIs, Zenon
    <3>5. Ordered' <=> Ordered
      BY <3>1 DEF Ordered
    <3> QED
      BY <1>0, <2>1, <3>1, <3>2, <3>3, <3>4, <3>5 DEF FilledInv
  <2>6. CASE ReadEntryFails \/ WriteFails \/ FreeTable \/ WriteFooter \/ FooterFails
    <3>1. step # "idle" /\ step' \in {"failed", "footer", "built"}
      BY <2>6 DEF ReadEntryFails, WriteFails, FreeTable, WriteFooter, FooterFails, Return
    <3> QED
      BY <1>0, <2>1, <3>1, FilledIdle
  <2> QED
    BY <2>1, <2>2, <2>3, <2>4, <2>5, <2>6, Zenon DEF Build
<1>6. CASE ListingFailed \/ SendListing
  <2>1. step' = "idle"
    BY <1>6, Zenon DEF ListingFailed, SendListing, FreePage, Return
  <2> QED
    BY <2>1, FilledIdle
<1> QED
  BY <1>1, <1>2, <1>3, <1>4, <1>5, <1>6, Zenon DEF Next
-----------------------------------------------------------------------------
(* The request line                                                        *)

LEMMA FoundIs ==
  ASSUME NEW s \in Seq(Int), NEW b
  PROVE  /\ memchr(s, b) \in 0 .. Len(s) /\ Len(s) \in Nat
         /\ memchr(s, b) = 0 => \A i \in 1 .. Len(s) : s[i] # b
         /\ memchr(s, b) # 0 => /\ s[memchr(s, b)] = b
                                /\ \A i \in 1 .. memchr(s, b) - 1 : s[i] # b
<1> DEFINE I == {i \in 1 .. Len(s) : s[i] = b}
           m == memchr(s, b)
<1>1. m = IF I # {} THEN Min(I) ELSE 0
  BY Zenon DEF memchr, SelectInSeq
<1>2. I \subseteq Nat /\ Len(s) \in Nat /\ m \in 0 .. Len(s)
  BY Found
<1>3. \A i \in 1 .. Len(s) : s[i] = b <=> i \in I
  OBVIOUS
<1>4. \A i \in I : i \in 1 .. Len(s)
  OBVIOUS
<1> HIDE DEF I, m
<1>5. CASE I = {}
  <2>1. m = 0
    BY <1>1, <1>5, Zenon
  <2> QED
    BY <1>2, <1>3, <1>5, <2>1 DEF m
<1>6. CASE I # {}
  <2>1. m = Min(I)
    BY <1>1, <1>6, Zenon
  <2>2. m \in I /\ \A y \in I : m <= y
    BY <1>2, <1>6, <2>1, NatMin
  <2>3. m \in 1 .. Len(s) /\ s[m] = b
    BY <1>3, <1>4, <2>2
  <2>4. ASSUME NEW i \in 1 .. m - 1 PROVE s[i] # b
    <3>1. i \in 1 .. Len(s) /\ ~(m <= i)
      BY <1>2, <2>3
    <3> QED
      BY <1>3, <2>2, <3>1
  <2> QED
    BY <1>2, <2>3, <2>4 DEF m
<1> QED
  BY <1>5, <1>6

LEMMA FoundAt ==
  ASSUME NEW s \in Seq(Int), NEW b, NEW i \in 1 .. Len(s), s[i] = b,
         \A k \in 1 .. i - 1 : s[k] # b
  PROVE  memchr(s, b) = i
<1> DEFINE m == memchr(s, b)
<1>1. /\ m \in 0 .. Len(s) /\ Len(s) \in Nat
      /\ m = 0 => \A k \in 1 .. Len(s) : s[k] # b
      /\ m # 0 => s[m] = b /\ \A k \in 1 .. m - 1 : s[k] # b
  BY FoundIs
<1> HIDE DEF m
<1>2. m # 0
  BY <1>1
<1>3. ~(m < i) /\ ~(i < m)
  <2>1. m < i => m \in 1 .. i - 1
    BY <1>1, <1>2
  <2>2. i < m => i \in 1 .. m - 1
    BY <1>1, <1>2
  <2> QED
    BY <1>1, <1>2, <2>1, <2>2
<1>4. m = i
  BY <1>1, <1>3
<1> QED
  BY <1>4 DEF m

LEMMA PartOf ==
  ASSUME NEW s, NEW m \in Int, NEW n \in Int, \A i \in m .. n : s[i] \in Int
  PROVE  /\ SubSeq(s, m, n) \in Seq(Int)
         /\ Len(SubSeq(s, m, n)) = IF m <= n THEN n - m + 1 ELSE 0
         /\ \A i \in 1 .. n - m + 1 : SubSeq(s, m, n)[i] = s[m + i - 1]
BY SubSeqProperties

LEMMA PartIs ==
  ASSUME NEW s \in Seq(Int), NEW m \in Int, NEW n \in Int, 1 <= m, n <= Len(s)
  PROVE  /\ SubSeq(s, m, n) \in Seq(Int)
         /\ Len(SubSeq(s, m, n)) = IF m <= n THEN n - m + 1 ELSE 0
         /\ \A i \in 1 .. n - m + 1 : SubSeq(s, m, n)[i] = s[m + i - 1]
<1>1. Len(s) \in Nat
  OBVIOUS
<1>2. \A i \in m .. n : i \in 1 .. Len(s)
  BY <1>1
<1>3. \A i \in m .. n : s[i] \in Int
  BY <1>2, ElementOfSeq
<1> QED
  BY <1>3, PartOf, Zenon

LEMMA FrontIs ==
  ASSUME NEW s \in Seq(Int), NEW n \in 0 .. Len(s)
  PROVE  /\ SubSeq(s, 1, n) \in Seq(Int) /\ Len(SubSeq(s, 1, n)) = n
         /\ \A i \in 1 .. n : SubSeq(s, 1, n)[i] = s[i]
<1>1. n \in Int /\ n <= Len(s) /\ 1 <= 1
  OBVIOUS
<1> DEFINE t == SubSeq(s, 1, n)
<1>2. /\ t \in Seq(Int) /\ Len(t) = IF 1 <= n THEN n - 1 + 1 ELSE 0
      /\ \A i \in 1 .. n - 1 + 1 : t[i] = s[1 + i - 1]
  BY <1>1, PartIs
<1> HIDE DEF t
<1>3. Len(t) = n
  BY <1>2
<1>4. \A i \in 1 .. n : t[i] = s[i]
  <2>1. \A i \in 1 .. n : i \in 1 .. n - 1 + 1 /\ 1 + i - 1 = i
    OBVIOUS
  <2> QED
    BY <1>2, <2>1
<1> QED
  BY <1>2, <1>3, <1>4 DEF t

\* What a C string function sees of an array ends in front of a NUL or at the
\* end of the array.
LEMMA CStringIs ==
  ASSUME NEW s \in Seq(Int)
  PROVE  \E e \in 0 .. Len(s) :
           /\ CString(s) = SubSeq(s, 1, e) /\ \A i \in 1 .. e : s[i] # NUL
           /\ e = Len(s) \/ s[e + 1] = NUL
<1> DEFINE m == memchr(s, NUL)
<1>1. /\ m \in 0 .. Len(s) /\ Len(s) \in Nat
      /\ m = 0 => \A k \in 1 .. Len(s) : s[k] # NUL
      /\ m # 0 => s[m] = NUL /\ \A k \in 1 .. m - 1 : s[k] # NUL
  BY FoundIs
<1>2. CString(s) = IF m = 0 THEN s ELSE SubSeq(s, 1, m - 1)
  BY DEF CString, First
<1> HIDE DEF m
<1>3. CASE m = 0
  <2>1. CString(s) = SubSeq(s, 1, Len(s))
    BY <1>2, <1>3, SubSeqFull
  <2>2. Len(s) \in 0 .. Len(s)
    BY <1>1
  <2> QED
    BY <1>1, <1>3, <2>1, <2>2
<1>4. CASE m # 0
  <2>1. m - 1 \in 0 .. Len(s) /\ (m - 1) + 1 = m
    BY <1>1, <1>4
  <2> QED
    BY <1>1, <1>2, <1>4, <2>1
<1> QED
  BY <1>3, <1>4

\* The same for what has been copied into a field.
LEMMA CopyIs ==
  ASSUME NEW s \in Seq(Int), NEW size \in Nat \ {0}
  PROVE  \E e \in 0 .. Len(s) :
           /\ copy_bounded(s, size) = SubSeq(s, 1, e) /\ \A i \in 1 .. e : s[i] # NUL
           /\ e <= size - 1
           /\ e = Len(s) \/ e = size - 1 \/ s[e + 1] = NUL
<1> DEFINE n == IF Len(s) >= size THEN size - 1 ELSE Len(s)
           t == SubSeq(s, 1, n)
<1>1. Len(s) \in Nat
  OBVIOUS
<1>2. n \in 0 .. Len(s) /\ n <= size - 1 /\ (n = Len(s) \/ n = size - 1)
  BY <1>1
<1>3. copy_bounded(s, size) = CString(t)
  BY DEF copy_bounded, First
<1> HIDE DEF n
<1>4. t \in Seq(Int) /\ Len(t) = n /\ \A i \in 1 .. n : t[i] = s[i]
  BY <1>2, FrontIs
<1>5. PICK e \in 0 .. Len(t) :
         /\ CString(t) = SubSeq(t, 1, e) /\ \A i \in 1 .. e : t[i] # NUL
         /\ e = Len(t) \/ t[e + 1] = NUL
  <2> HIDE DEF t
  <2> QED
    BY <1>4, CStringIs
<1>6. e \in 0 .. n /\ e \in 0 .. Len(s) /\ e <= size - 1
  BY <1>1, <1>2, <1>4, <1>5
<1>7. SubSeq(t, 1, e) = SubSeq(s, 1, e)
  <2> DEFINE a == SubSeq(t, 1, e)
             b == SubSeq(s, 1, e)
  <2>1. a \in Seq(Int) /\ Len(a) = e /\ \A i \in 1 .. e : a[i] = t[i]
    <3> HIDE DEF t
    <3> QED
      BY <1>4, <1>5, FrontIs
  <2>2. b \in Seq(Int) /\ Len(b) = e /\ \A i \in 1 .. e : b[i] = s[i]
    BY <1>6, FrontIs
  <2> HIDE DEF a, b, t
  <2>3. \A i \in 1 .. e : a[i] = b[i]
    <3>1. \A i \in 1 .. e : i \in 1 .. n
      BY <1>2, <1>6
    <3> QED
      BY <1>4, <2>1, <2>2, <3>1
  <2>4. a = b
    BY <2>1, <2>2, <2>3, SeqEqual
  <2> QED
    BY <2>4 DEF a, b
<1> HIDE DEF t
<1>8. \A i \in 1 .. e : s[i] # NUL
  <2>1. \A i \in 1 .. e : i \in 1 .. n
    BY <1>2, <1>6
  <2> QED
    BY <1>4, <1>5, <2>1
<1>9. e = Len(s) \/ e = size - 1 \/ s[e + 1] = NUL
  <2>1. CASE e = n
    BY <1>2, <2>1
  <2>2. CASE e # n
    <3>1. e + 1 \in 1 .. n /\ t[e + 1] = NUL
      BY <1>2, <1>4, <1>5, <1>6, <2>2
    <3> QED
      BY <1>4, <3>1
  <2> QED
    BY <2>1, <2>2
<1> QED
  BY <1>3, <1>5, <1>6, <1>7, <1>8, <1>9

\* A text that does not fit differs from every word that is shorter than the
\* field.
LEMMA Truncated ==
  ASSUME NEW s \in Seq(Int), NEW size \in Nat \ {0}
  PROVE  /\ copy_bounded(s, size) \in Seq(Int) /\ CString(s) \in Seq(Int)
         /\ \/ copy_bounded(s, size) = CString(s)
            \/ Len(copy_bounded(s, size)) >= size - 1 /\ Len(CString(s)) >= size - 1
<1>0. Len(s) \in Nat
  OBVIOUS
<1>1. PICK d \in 0 .. Len(s) :
        /\ CString(s) = SubSeq(s, 1, d) /\ \A i \in 1 .. d : s[i] # NUL
        /\ d = Len(s) \/ s[d + 1] = NUL
  BY CStringIs
<1>2. PICK e \in 0 .. Len(s) :
        /\ copy_bounded(s, size) = SubSeq(s, 1, e) /\ \A i \in 1 .. e : s[i] # NUL
        /\ e <= size - 1
        /\ e = Len(s) \/ e = size - 1 \/ s[e + 1] = NUL
  BY CopyIs
<1>3. /\ copy_bounded(s, size) \in Seq(Int) /\ Len(copy_bounded(s, size)) = e
      /\ CString(s) \in Seq(Int) /\ Len(CString(s)) = d
  BY <1>1, <1>2, FrontIs
<1>4. ~(d < e)
  <2>1. d < e => d + 1 \in 1 .. e /\ d # Len(s)
    BY <1>0
  <2> QED
    BY <1>1, <1>2, <2>1
<1>5. CASE e = size - 1
  <2>1. e >= size - 1 /\ d >= size - 1
    BY <1>0, <1>4, <1>5
  <2> QED
    BY <1>3, <2>1
<1>6. CASE e # size - 1
  <2>1. e < d => e + 1 \in 1 .. d /\ e # Len(s)
    BY <1>0
  <2>2. ~(e < d)
    BY <1>1, <1>2, <1>6, <2>1
  <2>3. d = e
    BY <1>0, <1>4, <2>2
  <2> QED
    BY <1>1, <1>2, <1>3, <2>3
<1> QED
  BY <1>5, <1>6

LEMMA WordIs ==
  ASSUME NEW s \in Seq(Int), NEW size \in Nat \ {0}, NEW w \in Seq(Int), Len(w) < size - 1
  PROVE  copy_bounded(s, size) = w <=> CString(s) = w
<1>1. \/ copy_bounded(s, size) = CString(s)
      \/ Len(copy_bounded(s, size)) >= size - 1 /\ Len(CString(s)) >= size - 1
  BY Truncated
<1>2. CASE copy_bounded(s, size) = CString(s)
  BY <1>2
<1>3. CASE Len(copy_bounded(s, size)) >= size - 1 /\ Len(CString(s)) >= size - 1
  <2>1. Len(w) \in Nat /\ ~(Len(w) >= size - 1)
    OBVIOUS
  <2> QED
    BY <1>3, <2>1
<1> QED
  BY <1>1, <1>2, <1>3

LEMMA MinIs ==
  ASSUME NEW S, S \subseteq Nat, NEW x \in S, \A y \in S : x <= y
  PROVE  Min(S) = x
<1> DEFINE m == Min(S)
<1>1. m \in S /\ \A y \in S : m <= y
  BY NatMin
<1> HIDE DEF m
<1>2. m = x
  BY <1>1
<1> QED
  BY <1>2 DEF m

\* The rest of the request line behind its first space.
LEMMA RestIs ==
  ASSUME NEW line \in Seq(Int), NEW a \in 1 .. Len(line)
  PROVE  /\ From(line, a + 1) \in Seq(Int) /\ Len(From(line, a + 1)) = Len(line) - a
         /\ \A k \in 1 .. Len(line) - a : From(line, a + 1)[k] = line[a + k]
<1>0. Len(line) \in Nat
  OBVIOUS
<1>1. a + 1 \in Int /\ Len(line) \in Int /\ 1 <= a + 1 /\ Len(line) <= Len(line)
  BY <1>0
<1> DEFINE n == Len(line)
           t == SubSeq(line, a + 1, n)
<1>2. /\ t \in Seq(Int) /\ Len(t) = IF a + 1 <= n THEN n - (a + 1) + 1 ELSE 0
      /\ \A i \in 1 .. n - (a + 1) + 1 : t[i] = line[(a + 1) + i - 1]
  BY <1>1, PartIs
<1>3. From(line, a + 1) = t
  BY DEF From
<1> HIDE DEF t
<1>4. Len(t) = n - a
  BY <1>0, <1>2
<1>5. \A k \in 1 .. n - a : t[k] = line[a + k]
  <2>1. \A k \in 1 .. n - a : k \in 1 .. n - (a + 1) + 1 /\ (a + 1) + k - 1 = a + k
    BY <1>0
  <2> QED
    BY <1>2, <2>1
<1> QED
  BY <1>2, <1>3, <1>4, <1>5

LEMMA SpacesIs ==
  ASSUME NEW line \in Seq(Int), SecondSpace(line) # 0
  PROVE  LET i == FirstSpace(line)
             j == SecondSpace(line)
         IN /\ i \in 1 .. Len(line) /\ j \in 1 .. Len(line) /\ i < j
            /\ line[i] = SP /\ line[j] = SP
            /\ \A k \in 1 .. j - 1 : line[k] = SP => k = i
<1> DEFINE i == FirstSpace(line)
           j == SecondSpace(line)
           rest == From(line, i + 1)
           m == memchr(rest, SP)
<1>1. /\ i \in 0 .. Len(line) /\ Len(line) \in Nat
      /\ i # 0 => line[i] = SP /\ \A k \in 1 .. i - 1 : line[k] # SP
  BY FoundIs DEF FirstSpace
<1>2. j = IF i = 0 \/ m = 0 THEN 0 ELSE i + m
  BY DEF SecondSpace
<1>3. i # 0 /\ m # 0 /\ j = i + m
  BY <1>2
<1> HIDE DEF i, j, m
<1>4. i \in 1 .. Len(line)
  BY <1>1, <1>3
<1>5. /\ rest \in Seq(Int) /\ Len(rest) = Len(line) - i
      /\ \A k \in 1 .. Len(line) - i : rest[k] = line[i + k]
  BY <1>4, RestIs
<1> HIDE DEF rest
<1>6. m \in 0 .. Len(rest) /\ rest[m] = SP /\ \A k \in 1 .. m - 1 : rest[k] # SP
  BY <1>3, <1>5, FoundIs DEF m
<1>7. m \in 1 .. Len(line) - i /\ j \in 1 .. Len(line) /\ i < j
  <2>1. m \in 0 .. Len(line) - i
    BY <1>5, <1>6, Zenon
  <2> QED
    BY <1>1, <1>3, <1>4, <2>1
<1>8. line[j] = SP
  BY <1>3, <1>5, <1>6, <1>7, Zenon
<1>9. ASSUME NEW k \in 1 .. j - 1, line[k] = SP, k # i PROVE FALSE
  <2>1. CASE k < i
    <3>1. k \in 1 .. i - 1
      BY <1>4, <2>1
    <3> QED
      BY <1>1, <1>3, <1>9, <3>1
  <2>2. CASE i < k
    <3>1. k - i \in 1 .. m - 1 /\ k - i \in 1 .. Len(line) - i /\ i + (k - i) = k
      BY <1>1, <1>3, <1>4, <1>7, <2>2
    <3> QED
      BY <1>5, <1>6, <1>9, <3>1
  <2> QED
    BY <1>4, <1>7, <1>9, <2>1, <2>2
<1>10. /\ i \in 1 .. Len(line) /\ j \in 1 .. Len(line) /\ i < j
       /\ line[i] = SP /\ line[j] = SP
       /\ \A k \in 1 .. j - 1 : line[k] = SP => k = i
  BY <1>1, <1>3, <1>4, <1>7, <1>8, <1>9
<1> QED
  BY <1>10 DEF i, j

LEMMA SpacesAt ==
  ASSUME NEW line \in Seq(Int), NEW i \in 1 .. Len(line), NEW j \in 1 .. Len(line), i < j,
         line[i] = SP, line[j] = SP, \A k \in 1 .. j - 1 : line[k] = SP => k = i
  PROVE  FirstSpace(line) = i /\ SecondSpace(line) = j
<1>0. Len(line) \in Nat
  OBVIOUS
<1>1. FirstSpace(line) = i
  <2>1. ASSUME NEW k \in 1 .. i - 1 PROVE line[k] # SP
    <3>1. k \in 1 .. j - 1 /\ k # i
      BY <1>0
    <3> QED
      BY <3>1
  <2> QED
    BY <2>1, FoundAt DEF FirstSpace
<1> DEFINE rest == From(line, i + 1)
<1>2. /\ rest \in Seq(Int) /\ Len(rest) = Len(line) - i
      /\ \A k \in 1 .. Len(line) - i : rest[k] = line[i + k]
  BY RestIs
<1> HIDE DEF rest
<1>3. memchr(rest, SP) = j - i
  <2>1. j - i \in 1 .. Len(rest) /\ j - i \in 1 .. Len(line) - i /\ i + (j - i) = j
    BY <1>0, <1>2
  <2>2. rest[j - i] = SP
    BY <1>2, <2>1
  <2>3. ASSUME NEW k \in 1 .. j - i - 1 PROVE rest[k] # SP
    <3>1. k \in 1 .. Len(line) - i /\ i + k \in 1 .. j - 1 /\ i + k # i
      BY <1>0
    <3>2. rest[k] = line[i + k]
      BY <1>2, <3>1
    <3> QED
      BY <3>1, <3>2
  <2> QED
    BY <1>2, <2>1, <2>2, <2>3, FoundAt
<1>4. SecondSpace(line) = IF FirstSpace(line) = 0 \/ memchr(rest, SP) = 0 THEN 0
                          ELSE FirstSpace(line) + memchr(rest, SP)
  BY <1>1 DEF SecondSpace, rest
<1>5. i # 0 /\ j - i # 0 /\ i + (j - i) = j
  BY <1>0
<1> QED
  BY <1>1, <1>3, <1>4, <1>5

LEMMA CrlfsOf ==
  ASSUME NEW s \in Seq(Int)
  PROVE  Crlfs(s) \in SUBSET (1 .. Len(s)) /\ Len(s) \in Nat /\ Crlfs(s) \subseteq Nat
<1>1. Len(s) \in Nat
  OBVIOUS
<1>2. \A i \in 1 .. Len(s) - 1 : i \in 1 .. Len(s) /\ i \in Nat
  BY <1>1
<1> QED
  BY <1>1, <1>2 DEF Crlfs

\* The first place is the smallest.
LEMMA FirstNth ==
  ASSUME NEW n \in Nat, NEW S \in SUBSET (1 .. n), S # {}
  PROVE  Nth(S, 1) = Min(S) /\ 1 \in 1 .. Cardinality(S)
<1>0. S \subseteq Nat
  OBVIOUS
<1> DEFINE m == Min(S)
<1>1. m \in S /\ \A y \in S : m <= y
  BY <1>0, NatMin
<1> HIDE DEF m
<1>2. {j \in S : j <= m} = {m}
  <2>1. ASSUME NEW j \in S, j <= m PROVE j = m
    BY <1>0, <1>1, <2>1
  <2>2. m <= m
    BY <1>0, <1>1
  <2> QED
    BY <1>1, <2>1, <2>2
<1>3. Rank(S, m) = 1
  BY <1>2, FS_Singleton DEF Rank
<1>4. Nth(S, 1) = m
  BY <1>1, <1>3, NthUnique
<1>5. 1 \in 0 .. Cardinality(S) /\ Cardinality(S) \in Nat
  BY <1>3, RankType
<1> QED
  BY <1>4, <1>5 DEF m

\* The fields of a request are compared with words that are shorter than they.
LEMMA MethodIs ==
  ASSUME NEW s \in Seq(Int)
  PROVE  LET m == parse_method(copy_bounded(s, HTTP_METHOD_TEXT_MAX))
         IN (m = "GET" <=> CString(s) = GET) /\ (m = "HEAD" <=> CString(s) = HEAD)
<1> DEFINE c == copy_bounded(s, HTTP_METHOD_TEXT_MAX)
<1>1. HTTP_METHOD_TEXT_MAX \in Nat \ {0} /\ HTTP_METHOD_TEXT_MAX > 5
  BY HttpAssumption
<1>2. GET \in Seq(Int) /\ HEAD \in Seq(Int) /\ Len(GET) = 3 /\ Len(HEAD) = 4 /\ GET # HEAD
  BY DEF GET, HEAD
<1>3. Len(GET) < HTTP_METHOD_TEXT_MAX - 1 /\ Len(HEAD) < HTTP_METHOD_TEXT_MAX - 1
  BY <1>1, <1>2
<1>4. (c = GET <=> CString(s) = GET) /\ (c = HEAD <=> CString(s) = HEAD)
  BY <1>1, <1>2, <1>3, WordIs
<1> HIDE DEF c
<1>5. (parse_method(c) = "GET" <=> c = GET) /\ (parse_method(c) = "HEAD" <=> c = HEAD)
  BY <1>2 DEF parse_method
<1> QED
  BY <1>4, <1>5 DEF c

LEMMA VersionIs ==
  ASSUME NEW s \in Seq(Int)
  PROVE  parse_version(copy_bounded(s, HTTP_VERSION_TEXT_MAX)) # "UNKNOWN"
           <=> CString(s) \in {HTTP_10, HTTP_11}
<1> DEFINE c == copy_bounded(s, HTTP_VERSION_TEXT_MAX)
<1>1. HTTP_VERSION_TEXT_MAX \in Nat \ {0} /\ HTTP_VERSION_TEXT_MAX > 9
  BY HttpAssumption
<1>2. /\ HTTP_10 \in Seq(Int) /\ HTTP_11 \in Seq(Int) /\ Len(HTTP_10) = 8 /\ Len(HTTP_11) = 8
  BY DEF HTTP_10, HTTP_11
<1>3. Len(HTTP_10) < HTTP_VERSION_TEXT_MAX - 1 /\ Len(HTTP_11) < HTTP_VERSION_TEXT_MAX - 1
  BY <1>1, <1>2
<1>4. (c = HTTP_10 <=> CString(s) = HTTP_10) /\ (c = HTTP_11 <=> CString(s) = HTTP_11)
  BY <1>1, <1>2, <1>3, WordIs
<1> HIDE DEF c
<1>5. parse_version(c) # "UNKNOWN" <=> c \in {HTTP_10, HTTP_11}
  BY DEF parse_version
<1> QED
  BY <1>4, <1>5 DEF c

\* What a target has in front of its query.
Path(target) ==
  LET query == memchr(target, QUESTION)
  IN IF query = 0 THEN target ELSE First(target, query - 1)

LEMMA PathIs ==
  ASSUME NEW t \in Seq(Int), t # <<>>
  PROVE  \E p \in 0 .. Len(t) :
           /\ Path(t) = SubSeq(t, 1, p) /\ (\A i \in 1 .. p : t[i] # QUESTION)
           /\ p = Len(t) \/ t[p + 1] = QUESTION
           /\ Path(t) \in Seq(Int) /\ Len(Path(t)) = p
           /\ Path(t) = <<>> <=> t[1] = QUESTION
<1> DEFINE m == memchr(t, QUESTION)
<1>1. /\ m \in 0 .. Len(t) /\ Len(t) \in Nat
      /\ m = 0 => \A k \in 1 .. Len(t) : t[k] # QUESTION
      /\ m # 0 => t[m] = QUESTION /\ \A k \in 1 .. m - 1 : t[k] # QUESTION
  BY FoundIs
<1>2. Path(t) = IF m = 0 THEN t ELSE SubSeq(t, 1, m - 1)
  BY DEF Path, First
<1>3. Len(t) # 0
  BY EmptySeq
<1> HIDE DEF m
<1> DEFINE p == IF m = 0 THEN Len(t) ELSE m - 1
<1>4. p \in 0 .. Len(t) /\ (m # 0 => p + 1 = m)
  BY <1>1
<1>5. Path(t) = SubSeq(t, 1, p)
  BY <1>2, SubSeqFull
<1>6. (\A i \in 1 .. p : t[i] # QUESTION) /\ (p = Len(t) \/ t[p + 1] = QUESTION)
  BY <1>1, <1>4
<1> HIDE DEF p
<1>7. Path(t) \in Seq(Int) /\ Len(Path(t)) = p
  BY <1>4, <1>5, FrontIs
<1>8. Path(t) = <<>> <=> p = 0
  BY <1>7, EmptySeq
<1>9. p = 0 <=> t[1] = QUESTION
  <2>1. p = 0 => t[1] = QUESTION
    BY <1>3, <1>6
  <2>2. p # 0 => 1 \in 1 .. p
    BY <1>1, <1>4
  <2> QED
    BY <1>6, <2>1, <2>2
<1> QED
  BY <1>4, <1>5, <1>6, <1>7, <1>8, <1>9

LEMMA PathCut ==
  ASSUME NEW t \in Seq(Int), t # <<>>, NEW size \in Nat \ {0}
  PROVE  LET path == copy_bounded(Path(t), size)
         IN /\ IsPrefix(path, t)
            /\ Len(path) = Min({size - 1, Len(t)}
                               \cup {k - 1 : k \in {k \in 1 .. Len(t) : t[k] \in {QUESTION, NUL}}})
<1> DEFINE path == copy_bounded(Path(t), size)
           K == {k \in 1 .. Len(t) : t[k] \in {QUESTION, NUL}}
           S == {size - 1, Len(t)} \cup {k - 1 : k \in K}
<1>0. Len(t) \in Nat
  OBVIOUS
<1>1. PICK p \in 0 .. Len(t) :
           /\ Path(t) = SubSeq(t, 1, p) /\ (\A i \in 1 .. p : t[i] # QUESTION)
           /\ p = Len(t) \/ t[p + 1] = QUESTION
           /\ Path(t) \in Seq(Int) /\ Len(Path(t)) = p
  BY PathIs
<1>2. \A i \in 1 .. p : Path(t)[i] = t[i]
  BY <1>1, FrontIs
<1>3. PICK e \in 0 .. p :
           /\ path = SubSeq(Path(t), 1, e) /\ (\A i \in 1 .. e : Path(t)[i] # NUL)
           /\ e <= size - 1
           /\ e = p \/ e = size - 1 \/ Path(t)[e + 1] = NUL
  BY <1>1, CopyIs
<1>4. path \in Seq(Int) /\ Len(path) = e /\ \A i \in 1 .. e : path[i] = Path(t)[i]
  <2>1. e \in 0 .. Len(Path(t)) /\ path = SubSeq(Path(t), 1, e) /\ Path(t) \in Seq(Int)
    BY <1>1, <1>3, Zenon
  <2> HIDE DEF path
  <2> QED
    BY <2>1, FrontIs, Zenon
<1> HIDE DEF path
<1>5. IsPrefix(path, t)
  <2>1. e <= Len(t) /\ \A i \in 1 .. e : i \in 1 .. p
    BY <1>0
  <2>2. \A i \in 1 .. e : path[i] = t[i]
    BY <1>2, <1>4, <2>1
  <2> QED
    BY <1>4, <2>1, <2>2, PrefixIs
<1>6. \A k \in K : k \in 1 .. Len(t) /\ t[k] \in {QUESTION, NUL}
  OBVIOUS
<1>7. \A k \in 1 .. Len(t) : t[k] \in {QUESTION, NUL} => k \in K
  OBVIOUS
<1> HIDE DEF K
<1>8. S \subseteq Nat
  BY <1>0, <1>6
<1>9. e \in S
  <2>1. CASE e = size - 1
    BY <2>1
  <2>2. CASE e = p /\ p = Len(t)
    BY <2>2
  <2>3. CASE e = p /\ p # Len(t)
    <3>1. p + 1 \in 1 .. Len(t) /\ t[p + 1] \in {QUESTION, NUL} /\ e = (p + 1) - 1
      BY <1>0, <1>1, <2>3
    <3> QED
      BY <1>7, <3>1
  <2>4. CASE e # p /\ Path(t)[e + 1] = NUL
    <3>1. e + 1 \in 1 .. p /\ e + 1 \in 1 .. Len(t) /\ e = (e + 1) - 1
      BY <1>0, <2>4
    <3>2. t[e + 1] \in {QUESTION, NUL}
      BY <1>2, <2>4, <3>1
    <3> QED
      BY <1>7, <3>1, <3>2
  <2> QED
    BY <1>3, <2>1, <2>2, <2>3, <2>4
<1>10. ASSUME NEW y \in S PROVE e <= y
  <2>1. CASE y \in {size - 1, Len(t)}
    BY <1>0, <1>3, <2>1
  <2>2. CASE \E k \in K : y = k - 1
    <3>1. PICK k \in K : y = k - 1
      BY <2>2
    <3>2. k \in 1 .. Len(t) /\ t[k] \in {QUESTION, NUL}
      BY <1>6
    <3>3. k <= e => k \in 1 .. e /\ k \in 1 .. p
      BY <1>0, <3>2
    <3>4. ~(k <= e)
      <4>1. ASSUME k <= e PROVE FALSE
        <5>1. t[k] # QUESTION /\ Path(t)[k] = t[k] /\ Path(t)[k] # NUL
          BY <1>1, <1>2, <1>3, <3>3, <4>1
        <5> QED
          BY <3>2, <5>1
      <4> QED
        BY <4>1
    <3> QED
      BY <1>0, <3>1, <3>2, <3>4
  <2> QED
    BY <2>1, <2>2
<1> HIDE DEF S
<1>11. Min(S) = e
  BY <1>8, <1>9, <1>10, MinIs
<1>12. IsPrefix(path, t) /\ Len(path) = Min(S)
  BY <1>4, <1>5, <1>11
<1> QED
  BY <1>12, Zenon DEF path, S, K

\* What http_parse_request returns, once the lines are cut.
Refused(line) ==
  LET i == FirstSpace(line)
      j == SecondSpace(line)
  IN \/ i <= 1 \/ j <= i + 1 \/ j = Len(line)
     \/ Path(SubSeq(line, i + 1, j - 1)) = <<>>
     \/ parse_version(copy_bounded(From(line, j + 1), HTTP_VERSION_TEXT_MAX)) = "UNKNOWN"

LEMMA ParsedIs ==
  ASSUME NEW block \in Seq(Int), Crlfs(block) # {}
  PROVE  LET r == http_parse_request(block)
             line == LineOf(block, 1)
             i == FirstSpace(line)
             j == SecondSpace(line)
             version == parse_version(copy_bounded(From(line, j + 1), HTTP_VERSION_TEXT_MAX))
         IN /\ find_crlf(block) = Nth(Crlfs(block), 1) /\ find_crlf(block) \in Crlfs(block)
            /\ line \in Seq(Int)
            /\ r.ok <=> ~Refused(line)
            /\ r.ok =>
                 /\ r.method = parse_method(copy_bounded(First(line, i - 1), HTTP_METHOD_TEXT_MAX))
                 /\ r.path = copy_bounded(Path(SubSeq(line, i + 1, j - 1)), HTTP_PATH_MAX)
                 /\ r.version = version
                 /\ r.keep_alive_requested = keep_alive_requested(version,
                      parse_headers(From(block, find_crlf(block) + 2)))
<1> DEFINE e == find_crlf(block)
           line == LineOf(block, 1)
           i == FirstSpace(line)
           j == SecondSpace(line)
           target == SubSeq(line, i + 1, j - 1)
           version == parse_version(copy_bounded(From(line, j + 1), HTTP_VERSION_TEXT_MAX))
           word == parse_method(copy_bounded(First(line, i - 1), HTTP_METHOD_TEXT_MAX))
           path == copy_bounded(Path(target), HTTP_PATH_MAX)
           kept == keep_alive_requested(version, parse_headers(From(block, e + 2)))
           r == http_parse_request(block)
<1>1. Crlfs(block) \in SUBSET (1 .. Len(block)) /\ Len(block) \in Nat /\ Crlfs(block) \subseteq Nat
  BY CrlfsOf
<1>2. e = Min(Crlfs(block)) /\ e \in Crlfs(block)
  <2>1. e = Min(Crlfs(block))
    BY Zenon DEF find_crlf
  <2>2. Min(Crlfs(block)) \in Crlfs(block)
    BY <1>1, NatMin
  <2> QED
    BY <2>1, <2>2, Zenon
<1>3. Nth(Crlfs(block), 1) = e
  BY <1>1, <1>2, FirstNth, Zenon
<1>4. line = SubSeq(block, 1, e - 1)
  BY <1>3, Zenon DEF LineOf
<1>5. e \in 1 .. Len(block) /\ e - 1 \in 0 .. Len(block)
  <2>1. e \in 1 .. Len(block)
    BY <1>1, <1>2, Zenon
  <2> HIDE DEF e
  <2> QED
    BY <1>1, <2>1
<1>6. line \in Seq(Int)
  <2> HIDE DEF e, line
  <2> QED
    BY <1>4, <1>5, FrontIs
<1>7. r = IF \/ e = 0 \/ i <= 1 \/ j <= i + 1 \/ j = Len(line)
             \/ Path(target) = <<>> \/ version = "UNKNOWN"
          THEN BadRequest
          ELSE [ok |-> TRUE, method |-> word, path |-> path,
                version |-> version, keep_alive_requested |-> kept]
  <2>1. First(block, e - 1) = line
    BY <1>4, Zenon DEF First
  <2> HIDE DEF line
  <2> QED
    BY <2>1, Zenon DEF http_parse_request, Path
<1>8. Refused(line) <=> \/ i <= 1 \/ j <= i + 1 \/ j = Len(line)
                        \/ Path(target) = <<>> \/ version = "UNKNOWN"
  BY Zenon DEF Refused
<1>9. e # 0
  <2> HIDE DEF e
  <2> QED
    BY <1>5
<1>10. r = IF Refused(line) THEN BadRequest
           ELSE [ok |-> TRUE, method |-> word, path |-> path,
                 version |-> version, keep_alive_requested |-> kept]
  BY <1>7, <1>8, <1>9, Zenon
<1> HIDE DEF r, line, word, path, version, kept, e
<1>11. /\ r.ok <=> ~Refused(line)
       /\ r.ok => /\ r.method = word /\ r.path = path
                  /\ r.version = version /\ r.keep_alive_requested = kept
  BY <1>10 DEF BadRequest
<1> QED
  BY <1>2, <1>3, <1>6, <1>11, Zenon DEF r, line, word, path, version, kept, e

LEMMA NoLine ==
  ASSUME NEW block \in Seq(Int), Crlfs(block) = {}
  PROVE  ~http_parse_request(block).ok
<1>1. find_crlf(block) = 0
  BY DEF find_crlf
<1>2. http_parse_request(block) = BadRequest
  BY <1>1, Zenon DEF http_parse_request
<1> QED
  BY <1>2 DEF BadRequest

\* The request line is refused exactly when it does not follow the grammar.
LEMMA LineAccepted ==
  ASSUME NEW line \in Seq(Int), ~Refused(line)
  PROVE  /\ IsRequestLine(line, FirstSpace(line), SecondSpace(line))
         /\ FirstSpace(line) \in 1 .. Len(line) /\ SecondSpace(line) \in 1 .. Len(line)
<1> DEFINE i == FirstSpace(line)
           j == SecondSpace(line)
           t == SubSeq(line, i + 1, j - 1)
           s == From(line, j + 1)
<1>0. Len(line) \in Nat
  OBVIOUS
<1>1. /\ ~(i <= 1) /\ ~(j <= i + 1) /\ j # Len(line) /\ Path(t) # <<>>
      /\ parse_version(copy_bounded(s, HTTP_VERSION_TEXT_MAX)) # "UNKNOWN"
  BY Zenon DEF Refused
<1>2. i \in 0 .. Len(line) /\ j \in 0 .. Len(line)
  BY SpacesFound
<1>3. j # 0
  <2> HIDE DEF i, j
  <2> QED
    BY <1>0, <1>1, <1>2
<1>4. /\ i \in 1 .. Len(line) /\ j \in 1 .. Len(line) /\ i < j
      /\ line[i] = SP /\ line[j] = SP
      /\ \A k \in 1 .. j - 1 : line[k] = SP => k = i
  BY <1>3, SpacesIs
<1> HIDE DEF i, j
<1>5. s \in Seq(Int)
  BY <1>4, RestIs
<1>6. CString(s) \in {HTTP_10, HTTP_11}
  BY <1>1, <1>5, VersionIs
<1>7. i + 1 \in Int /\ j - 1 \in Int /\ 1 <= i + 1 /\ j - 1 <= Len(line) /\ i + 1 <= j - 1
  BY <1>0, <1>1, <1>4
<1>8. /\ t \in Seq(Int) /\ Len(t) = IF i + 1 <= j - 1 THEN j - 1 - (i + 1) + 1 ELSE 0
      /\ \A k \in 1 .. j - 1 - (i + 1) + 1 : t[k] = line[i + 1 + k - 1]
  BY <1>7, PartIs
<1> HIDE DEF t
<1>9. t # <<>> /\ t[1] = line[i + 1]
  <2>1. 1 \in 1 .. j - 1 - (i + 1) + 1 /\ i + 1 + 1 - 1 = i + 1 /\ j - 1 - (i + 1) + 1 # 0
    BY <1>0, <1>4, <1>7
  <2>2. Len(t) # 0
    BY <1>7, <1>8, <2>1
  <2>3. t[1] = line[i + 1]
    BY <1>8, <2>1
  <2> QED
    BY <2>2, <2>3, EmptySeq
<1>10. t[1] # QUESTION
  BY <1>1, <1>8, <1>9, PathIs
<1>11. 1 < i /\ i + 1 < j /\ j < Len(line)
  BY <1>0, <1>1, <1>4
<1>12. IsRequestLine(line, i, j)
  BY <1>4, <1>6, <1>9, <1>10, <1>11 DEF IsRequestLine, s
<1> QED
  BY <1>4, <1>12 DEF i, j

LEMMA GrammarAccepted ==
  ASSUME NEW line \in Seq(Int), NEW i \in 1 .. Len(line), NEW j \in 1 .. Len(line),
         IsRequestLine(line, i, j)
  PROVE  /\ FirstSpace(line) = i /\ SecondSpace(line) = j /\ ~Refused(line)
         /\ SubSeq(line, i + 1, j - 1) \in Seq(Int) /\ SubSeq(line, i + 1, j - 1) # <<>>
         /\ First(line, i - 1) \in Seq(Int)
<1> DEFINE t == SubSeq(line, i + 1, j - 1)
           s == From(line, j + 1)
<1>0. Len(line) \in Nat
  OBVIOUS
<1>1. /\ line[i] = SP /\ line[j] = SP /\ 1 < i /\ i + 1 < j /\ j < Len(line)
      /\ \A k \in 1 .. j - 1 : line[k] = SP => k = i
      /\ line[i + 1] # QUESTION /\ CString(s) \in {HTTP_10, HTTP_11}
  BY Zenon DEF IsRequestLine
<1>2. FirstSpace(line) = i /\ SecondSpace(line) = j
  <2>1. i < j
    BY <1>0, <1>1
  <2> QED
    BY <1>1, <2>1, SpacesAt
<1>3. s \in Seq(Int)
  BY RestIs
<1>4. parse_version(copy_bounded(s, HTTP_VERSION_TEXT_MAX)) # "UNKNOWN"
  BY <1>1, <1>3, VersionIs
<1>7. i + 1 \in Int /\ j - 1 \in Int /\ 1 <= i + 1 /\ j - 1 <= Len(line) /\ i + 1 <= j - 1
  BY <1>0, <1>1
<1>8. /\ t \in Seq(Int) /\ Len(t) = IF i + 1 <= j - 1 THEN j - 1 - (i + 1) + 1 ELSE 0
      /\ \A k \in 1 .. j - 1 - (i + 1) + 1 : t[k] = line[i + 1 + k - 1]
  BY <1>7, PartIs
<1> HIDE DEF t, s
<1>9. t # <<>> /\ t[1] = line[i + 1]
  <2>1. 1 \in 1 .. j - 1 - (i + 1) + 1 /\ i + 1 + 1 - 1 = i + 1 /\ j - 1 - (i + 1) + 1 # 0
    BY <1>0, <1>7
  <2>2. Len(t) # 0
    BY <1>7, <1>8, <2>1
  <2>3. t[1] = line[i + 1]
    BY <1>8, <2>1
  <2> QED
    BY <2>2, <2>3, EmptySeq
<1>10. Path(t) # <<>>
  BY <1>1, <1>8, <1>9, PathIs
<1>11. ~(i <= 1) /\ ~(j <= i + 1) /\ j # Len(line)
  BY <1>0, <1>1
<1>12. ~Refused(line)
  BY <1>2, <1>4, <1>10, <1>11, Zenon DEF Refused, t, s
<1>13. First(line, i - 1) \in Seq(Int)
  <2>1. i - 1 \in 0 .. Len(line)
    BY <1>0
  <2> QED
    BY <2>1, FrontIs DEF First
<1> QED
  BY <1>2, <1>8, <1>9, <1>12, <1>13 DEF t

LEMMA ParseGrammar ==
  ASSUME NEW block \in Seq(Int)
  PROVE  ParsesAsGrammar(block)
<1> DEFINE r == http_parse_request(block)
           line == LineOf(block, 1)
           splits == IF Crlfs(block) = {} THEN {}
                     ELSE {ij \in (1 .. Len(line)) \X (1 .. Len(line)) :
                             IsRequestLine(line, ij[1], ij[2])}
           Fields(i, j) ==
             LET target == SubSeq(line, i + 1, j - 1)
             IN /\ r.method = "GET" <=> CString(First(line, i - 1)) = GET
                /\ r.method = "HEAD" <=> CString(First(line, i - 1)) = HEAD
                /\ IsPrefix(r.path, target)
                /\ Len(r.path) = Min({HTTP_PATH_MAX - 1, Len(target)}
                                     \cup {k - 1 : k \in {k \in 1 .. Len(target) :
                                                           target[k] \in {QUESTION, NUL}}})
<1> SUFFICES (r.ok <=> splits # {}) /\ \A ij \in splits : Fields(ij[1], ij[2])
  BY Zenon DEF ParsesAsGrammar
<1>1. CASE Crlfs(block) = {}
  <2>1. ~r.ok
    BY <1>1, NoLine
  <2>2. splits = {}
    BY <1>1, Zenon
  <2> HIDE DEF r, splits
  <2> QED
    BY <2>1, <2>2, Zenon
<1>2. CASE Crlfs(block) # {}
  <2> DEFINE i0 == FirstSpace(line)
             j0 == SecondSpace(line)
  <2>1. /\ line \in Seq(Int)
        /\ r.ok <=> ~Refused(line)
        /\ r.ok =>
             /\ r.method = parse_method(copy_bounded(First(line, i0 - 1), HTTP_METHOD_TEXT_MAX))
             /\ r.path = copy_bounded(Path(SubSeq(line, i0 + 1, j0 - 1)), HTTP_PATH_MAX)
    BY <1>2, ParsedIs, Zenon
  <2>2. splits = {ij \in (1 .. Len(line)) \X (1 .. Len(line)) : IsRequestLine(line, ij[1], ij[2])}
    BY <1>2, Zenon
  <2> HIDE DEF r, line, splits
  <2>3. r.ok => splits # {}
    <3> SUFFICES ASSUME ~Refused(line) PROVE splits # {}
      BY <2>1
    <3>1. IsRequestLine(line, i0, j0) /\ i0 \in 1 .. Len(line) /\ j0 \in 1 .. Len(line)
      BY <2>1, LineAccepted
    <3> HIDE DEF i0, j0
    <3>2. <<i0, j0>> \in splits
      BY <2>2, <3>1
    <3> QED
      BY <3>2
  <2>4. ASSUME NEW ij \in splits PROVE r.ok /\ Fields(ij[1], ij[2])
    <3> DEFINE i == ij[1]
               j == ij[2]
               t == SubSeq(line, i + 1, j - 1)
               m == First(line, i - 1)
    <3>1. i \in 1 .. Len(line) /\ j \in 1 .. Len(line) /\ IsRequestLine(line, i, j)
      BY <2>2
    <3> HIDE DEF i, j, Fields
    <3>2. /\ i0 = i /\ j0 = j /\ ~Refused(line) /\ t \in Seq(Int) /\ t # <<>> /\ m \in Seq(Int)
      BY <2>1, <3>1, GrammarAccepted
    <3>3. /\ r.ok /\ r.method = parse_method(copy_bounded(m, HTTP_METHOD_TEXT_MAX))
          /\ r.path = copy_bounded(Path(t), HTTP_PATH_MAX)
      BY <2>1, <3>2, Zenon
    <3> HIDE DEF t, m
    <3>4. (r.method = "GET" <=> CString(m) = GET) /\ (r.method = "HEAD" <=> CString(m) = HEAD)
      BY <3>2, <3>3, MethodIs, Zenon
    <3>5. HTTP_PATH_MAX \in Nat \ {0}
      BY HttpAssumption
    <3>6. /\ IsPrefix(r.path, t)
          /\ Len(r.path) = Min({HTTP_PATH_MAX - 1, Len(t)}
                 \cup {k - 1 : k \in {k \in 1 .. Len(t) : t[k] \in {QUESTION, NUL}}})
      BY <3>2, <3>3, <3>5, PathCut, Zenon
    <3>7. Fields(i, j)
      BY <3>4, <3>6, Zenon DEF Fields, t, m
    <3> QED
      BY <3>3, <3>7 DEF i, j
  <2> HIDE DEF Fields
  <2> QED
    BY <2>3, <2>4, Zenon
<1> QED
  BY <1>1, <1>2
-----------------------------------------------------------------------------
(* The header loop                                                         *)

LEMMA FromIs ==
  ASSUME NEW s \in Seq(Int), NEW o \in 1 .. Len(s) + 1
  PROVE  /\ From(s, o) \in Seq(Int) /\ Len(From(s, o)) = Len(s) - o + 1
         /\ \A i \in 1 .. Len(s) - o + 1 : From(s, o)[i] = s[o + i - 1]
<1>0. Len(s) \in Nat
  OBVIOUS
<1>1. o \in Int /\ Len(s) \in Int /\ 1 <= o /\ Len(s) <= Len(s)
  BY <1>0
<1> DEFINE n == Len(s)
           t == SubSeq(s, o, n)
<1>2. /\ t \in Seq(Int) /\ Len(t) = IF o <= n THEN n - o + 1 ELSE 0
      /\ \A i \in 1 .. n - o + 1 : t[i] = s[o + i - 1]
  BY <1>1, PartIs
<1>3. From(s, o) = t
  BY DEF From
<1> HIDE DEF t
<1>4. Len(t) = n - o + 1
  BY <1>0, <1>2
<1> QED
  BY <1>2, <1>3, <1>4

LEMMA PartOfRest ==
  ASSUME NEW s \in Seq(Int), NEW a \in 1 .. Len(s) + 1, NEW x \in Nat \ {0}, NEW y \in Int,
         y <= Len(s) - a + 1
  PROVE  SubSeq(From(s, a), x, y) = SubSeq(s, a + x - 1, a + y - 1)
<1>0. Len(s) \in Nat
  OBVIOUS
<1> DEFINE h == From(s, a)
           u == SubSeq(h, x, y)
           v == SubSeq(s, a + x - 1, a + y - 1)
<1>1. /\ h \in Seq(Int) /\ Len(h) = Len(s) - a + 1
      /\ \A i \in 1 .. Len(s) - a + 1 : h[i] = s[a + i - 1]
  BY FromIs
<1> HIDE DEF h
<1>2. x \in Int /\ y \in Int /\ 1 <= x /\ y <= Len(h)
  BY <1>1
<1>3. /\ u \in Seq(Int) /\ Len(u) = IF x <= y THEN y - x + 1 ELSE 0
      /\ \A i \in 1 .. y - x + 1 : u[i] = h[x + i - 1]
  BY <1>1, <1>2, PartIs
<1>4. /\ a + x - 1 \in Int /\ a + y - 1 \in Int /\ 1 <= a + x - 1 /\ a + y - 1 <= Len(s)
  BY <1>0
<1>5. /\ v \in Seq(Int)
      /\ Len(v) = IF a + x - 1 <= a + y - 1 THEN a + y - 1 - (a + x - 1) + 1 ELSE 0
      /\ \A i \in 1 .. a + y - 1 - (a + x - 1) + 1 : v[i] = s[a + x - 1 + i - 1]
  BY <1>4, PartIs
<1> HIDE DEF u, v
<1>6. Len(u) = Len(v)
  BY <1>0, <1>3, <1>5
<1>7. ASSUME NEW i \in 1 .. Len(u) PROVE u[i] = v[i]
  <2>1. /\ i \in 1 .. y - x + 1 /\ i \in 1 .. a + y - 1 - (a + x - 1) + 1
        /\ x + i - 1 \in 1 .. Len(s) - a + 1
    BY <1>0, <1>3
  <2>2. u[i] = h[x + i - 1] /\ v[i] = s[a + x - 1 + i - 1]
    BY <1>3, <1>5, <2>1
  <2>3. h[x + i - 1] = s[a + (x + i - 1) - 1]
    BY <1>1, <2>1
  <2>4. a + (x + i - 1) - 1 = a + x - 1 + i - 1
    BY <1>0
  <2> QED
    BY <2>2, <2>3, <2>4
<1>8. u = v
  BY <1>3, <1>5, <1>6, <1>7, SeqEqual
<1> QED
  BY <1>8 DEF u, v, h

LEMMA CrlfsFrom ==
  ASSUME NEW s \in Seq(Int), NEW o \in 1 .. Len(s) + 1, NEW i \in Nat \ {0}
  PROVE  i \in Crlfs(From(s, o)) <=> i + o - 1 \in Crlfs(s)
<1>0. Len(s) \in Nat
  OBVIOUS
<1> DEFINE t == From(s, o)
<1>1. /\ t \in Seq(Int) /\ Len(t) = Len(s) - o + 1
      /\ \A k \in 1 .. Len(s) - o + 1 : t[k] = s[o + k - 1]
  BY FromIs
<1> HIDE DEF t
<1>2. i \in 1 .. Len(t) - 1 <=> i + o - 1 \in 1 .. Len(s) - 1
  BY <1>0, <1>1
<1>3. ASSUME i \in 1 .. Len(t) - 1
      PROVE  t[i] = s[i + o - 1] /\ t[i + 1] = s[(i + o - 1) + 1]
  <2>1. i \in 1 .. Len(s) - o + 1 /\ i + 1 \in 1 .. Len(s) - o + 1
    BY <1>0, <1>1, <1>3
  <2>2. o + i - 1 = i + o - 1 /\ o + (i + 1) - 1 = (i + o - 1) + 1
    BY <1>0
  <2>3. t[i] = s[o + i - 1] /\ t[i + 1] = s[o + (i + 1) - 1]
    BY <1>1, <2>1
  <2> QED
    BY <2>2, <2>3
<1>4. i \in Crlfs(t) <=> i \in 1 .. Len(t) - 1 /\ t[i] = CR /\ t[i + 1] = LF
  BY DEF Crlfs
<1>5. i + o - 1 \in Crlfs(s) <=>
        i + o - 1 \in 1 .. Len(s) - 1 /\ s[i + o - 1] = CR /\ s[(i + o - 1) + 1] = LF
  BY DEF Crlfs
<1> QED
  BY <1>2, <1>3, <1>4, <1>5 DEF t

\* Behind the k-th place the next one is the (k + 1)-th.
LEMMA NextNth ==
  ASSUME NEW n \in Nat, NEW S \in SUBSET (1 .. n), NEW k \in 1 .. Cardinality(S), NEW c \in S,
         Nth(S, k) < c
  PROVE  /\ k + 1 \in 1 .. Cardinality(S)
         /\ Nth(S, k + 1) <= c
<1> DEFINE a == Nth(S, k)
<1>0. Cardinality(S) \in Nat /\ S \subseteq Nat
  <2>1. Cardinality(S) \in Nat
    BY RankType, Zenon
  <2> QED
    BY <2>1
<1>1. a \in S /\ Rank(S, a) = k
  BY NthIs
<1> HIDE DEF a
<1>2. a < c
  BY DEF a
<1>3. Rank(S, a) < Rank(S, c) /\ Rank(S, c) \in 0 .. Cardinality(S)
  <2>1. Rank(S, a) < Rank(S, c)
    BY <1>1, <1>2, RankGrows
  <2>2. Rank(S, c) \in 0 .. Cardinality(S)
    BY RankType, Zenon
  <2> QED
    BY <2>1, <2>2
<1>4. k + 1 \in 1 .. Cardinality(S)
  BY <1>0, <1>1, <1>3
<1> DEFINE d == Nth(S, k + 1)
<1>5. d \in S /\ Rank(S, d) = k + 1
  BY <1>4, NthIs
<1> HIDE DEF d
<1>6. ~(c < d)
  <2>1. c < d => Rank(S, c) < Rank(S, d)
    BY <1>5, RankGrows
  <2> QED
    BY <1>0, <1>1, <1>3, <1>5, <2>1
<1>7. d <= c
  BY <1>0, <1>5, <1>6
<1> QED
  BY <1>4, <1>7 DEF d

LEMMA NthRises ==
  ASSUME NEW n \in Nat, NEW S \in SUBSET (1 .. n), NEW k, k \in 1 .. Cardinality(S),
         k + 1 \in 1 .. Cardinality(S)
  PROVE  Nth(S, k) < Nth(S, k + 1)
<1> DEFINE a == Nth(S, k)
           d == Nth(S, k + 1)
<1>0. Cardinality(S) \in Nat /\ S \subseteq Nat
  <2>1. Cardinality(S) \in Nat
    BY RankType, Zenon
  <2> QED
    BY <2>1
<1>1. a \in S /\ Rank(S, a) = k
  BY NthIs
<1>2. d \in S /\ Rank(S, d) = k + 1
  BY NthIs
<1> HIDE DEF a, d
<1>3. ~(d < a) /\ d # a
  <2>1. d < a => Rank(S, d) < Rank(S, a)
    BY <1>1, <1>2, RankGrows
  <2> QED
    BY <1>0, <1>1, <1>2, <2>1
<1>4. a < d
  BY <1>0, <1>1, <1>2, <1>3
<1> QED
  BY <1>4 DEF a, d

\* Behind the k-th CRLF of a block, find_crlf finds the next.
LEMMA NextCrlf ==
  ASSUME NEW s \in Seq(Int), NEW k \in 1 .. Cardinality(Crlfs(s))
  PROVE  LET C == Crlfs(s)
             o == Nth(C, k) + 2
         IN /\ o \in 1 .. Len(s) + 1 /\ Nth(C, k) \in C
            /\ k = Cardinality(C) => find_crlf(From(s, o)) = 0
            /\ k # Cardinality(C) => /\ find_crlf(From(s, o)) = Nth(C, k + 1) - o + 1
                                     /\ Nth(C, k + 1) \in C /\ o <= Nth(C, k + 1)
                                     /\ k + 1 \in 1 .. Cardinality(C)
<1> DEFINE C == Crlfs(s)
           a == Nth(C, k)
           o == a + 2
           t == From(s, o)
<1>1. C \in SUBSET (1 .. Len(s)) /\ Len(s) \in Nat /\ C \subseteq Nat
  BY CrlfsOf
<1>2. \A c \in C : c \in 1 .. Len(s) - 1 /\ s[c] = CR /\ s[c + 1] = LF
  BY DEF Crlfs
<1>3. a \in C
  BY <1>1, NthIs, Zenon
<1>4. Cardinality(C) \in Nat
  BY <1>1, RankType, Zenon
<1> HIDE DEF C, a
<1>5. a \in 1 .. Len(s) - 1 /\ s[a + 1] = LF
  BY <1>2, <1>3
<1>6. o \in 1 .. Len(s) + 1
  BY <1>1, <1>5
<1>7. \A c \in C : a < c => o <= c
  <2> SUFFICES ASSUME NEW c \in C, a < c PROVE o <= c
    OBVIOUS
  <2>1. c # a + 1
    BY <1>2, <1>5 DEF CR, LF
  <2> QED
    BY <1>1, <1>5, <2>1
<1>8. t \in Seq(Int) /\ \A i \in Nat \ {0} : i \in Crlfs(t) <=> i + o - 1 \in C
  BY <1>6, FromIs, CrlfsFrom DEF C
<1>9. Crlfs(t) \subseteq Nat /\ \A i \in Crlfs(t) : i \in Nat \ {0}
  <2> HIDE DEF t
  <2>1. Crlfs(t) \in SUBSET (1 .. Len(t)) /\ Len(t) \in Nat
    BY <1>8, CrlfsOf
  <2> QED
    BY <2>1
<1> HIDE DEF t
<1>10. CASE k = Cardinality(C)
  <2>1. ASSUME NEW i \in Crlfs(t) PROVE FALSE
    <3>1. i \in Nat \ {0} /\ i + o - 1 \in C
      BY <1>8, <1>9
    <3>2. a < i + o - 1
      BY <1>5, <3>1
    <3>3. k + 1 \in 1 .. Cardinality(C)
      BY <1>1, <3>1, <3>2, NextNth DEF a, C
    <3> QED
      BY <1>4, <1>10, <3>3
  <2>2. find_crlf(t) = 0
    BY <2>1 DEF find_crlf
  <2> QED
    BY <1>3, <1>6, <1>10, <2>2 DEF t, a, C
<1>11. CASE k # Cardinality(C)
  <2> DEFINE d == Nth(C, k + 1)
  <2>0. k \in 1 .. Cardinality(C)
    BY DEF C
  <2>1. k + 1 \in 1 .. Cardinality(C)
    BY <1>4, <1>11, <2>0
  <2>2. d \in C
    BY <1>1, <2>1, NthIs
  <2>3. a < d
    BY <1>1, <2>0, <2>1, NthRises DEF a
  <2>4. \A c \in C : a < c => d <= c
    BY <1>1, <2>0, NextNth DEF a
  <2> HIDE DEF d
  <2>5. o <= d
    BY <1>7, <2>2, <2>3
  <2> DEFINE x == d - o + 1
  <2>6. x \in Nat \ {0} /\ x + o - 1 = d
    BY <1>1, <1>5, <2>2, <2>5
  <2>7. x \in Crlfs(t)
    BY <1>8, <2>2, <2>6
  <2>8. ASSUME NEW i \in Crlfs(t) PROVE x <= i
    <3>1. i \in Nat \ {0} /\ i + o - 1 \in C
      BY <1>8, <1>9
    <3>2. a < i + o - 1
      BY <1>5, <3>1
    <3>3. d <= i + o - 1
      BY <2>4, <3>1, <3>2
    <3> QED
      BY <1>1, <1>5, <2>2, <3>1, <3>3
  <2> HIDE DEF x
  <2>9. Min(Crlfs(t)) = x
    BY <1>9, <2>7, <2>8, MinIs
  <2>10. find_crlf(t) = x
    BY <2>7, <2>9, Zenon DEF find_crlf
  <2> QED
    BY <1>3, <1>6, <1>11, <2>1, <2>2, <2>5, <2>10, Zenon DEF t, a, C, x, d
<1> QED
  BY <1>10, <1>11

LEMMA MaxIs ==
  ASSUME NEW S, S \subseteq Int, NEW x \in S, \A y \in S : x >= y
  PROVE  Max(S) = x
<1> DEFINE m == Max(S)
<1>1. m \in S /\ \A y \in S : m >= y
  BY DEF Max
<1> HIDE DEF m
<1>2. m = x
  BY <1>1
<1> QED
  BY <1>2 DEF m

\* A header's value is a string.
LEMMA ValueType ==
  ASSUME NEW line \in Seq(Int)
  PROVE  Value(line) \in Seq(Int)
<1>1. ASSUME NEW s \in Seq(Int) PROVE skip_spaces(s) \in Seq(Int)
  <2> DEFINE I == {i \in 1 .. Len(s) : s[i] \notin {SP, TAB}}
  <2>0. Len(s) \in Nat
    OBVIOUS
  <2>1. skip_spaces(s) = IF I = {} THEN <<>> ELSE From(s, Min(I))
    BY Zenon DEF skip_spaces
  <2>2. I \subseteq 1 .. Len(s)
    OBVIOUS
  <2> HIDE DEF I
  <2>3. CASE I = {}
    BY <2>1, <2>3, EmptySeq
  <2>4. CASE I # {}
    <3>1. I \subseteq Nat
      BY <2>2
    <3>2. Min(I) \in I
      BY <2>4, <3>1, NatMin
    <3> DEFINE o == Min(I)
    <3>3. o \in 1 .. Len(s)
      BY <2>2, <3>2
    <3> HIDE DEF o
    <3>4. o \in 1 .. Len(s) + 1
      BY <2>0, <3>3
    <3>5. From(s, o) \in Seq(Int)
      BY <3>4, FromIs
    <3> QED
      BY <2>1, <2>4, <3>5, Zenon DEF o
  <2> QED
    BY <2>3, <2>4
<1>2. ASSUME NEW s \in Seq(Int) PROVE trim_trailing_span(s) \in Seq(Int)
  <2> DEFINE I == {0} \cup {i \in 1 .. Len(s) : s[i] \notin {SP, TAB, CR, LF}}
             J == {i \in 1 .. Len(s) : s[i] \notin {SP, TAB, CR, LF}}
             n == Max(I)
  <2>0. Len(s) \in Nat /\ 0 \in 0 .. Len(s)
    OBVIOUS
  <2>1. trim_trailing_span(s) = First(s, n)
    BY Zenon DEF trim_trailing_span
  <2>2. J \subseteq 1 .. Len(s) /\ I = {0} \cup J
    OBVIOUS
  <2>3. n \in 0 .. Len(s)
    <3> HIDE DEF I, J
    <3>1. CASE J = {}
      <4>1. I = {0}
        BY <2>2, <3>1
      <4>2. Max({0}) = 0
        <5> DEFINE Z == {0}
        <5>1. Z \subseteq Int /\ 0 \in Z /\ \A y \in Z : 0 >= y
          OBVIOUS
        <5> HIDE DEF Z
        <5>2. Max(Z) = 0
          BY <5>1, MaxIs
        <5> QED
          BY <5>2 DEF Z
      <4> QED
        BY <2>0, <4>1, <4>2
    <3>2. CASE J # {}
      <4> DEFINE m == Max(J)
      <4>1. m \in J /\ \A y \in J : m >= y
        <5>1. m \in J
          BY <2>0, <2>2, <3>2, LongestMax
        <5>2. \E x \in J : \A y \in J : x >= y
          BY <2>0, <2>2, <3>2, HasMax
        <5> QED
          BY <5>1, <5>2 DEF Max
      <4> HIDE DEF m
      <4>2. m \in 1 .. Len(s) /\ m \in I
        BY <2>2, <4>1
      <4>3. I \subseteq Int
        BY <2>0, <2>2
      <4>4. \A y \in I : m >= y
        BY <2>0, <2>2, <4>1, <4>2
      <4>5. n = m
        BY <4>2, <4>3, <4>4, MaxIs
      <4> HIDE DEF n
      <4> QED
        BY <2>0, <4>2, <4>5
    <3> QED
      BY <3>1, <3>2
  <2> HIDE DEF n
  <2> QED
    BY <2>1, <2>3, FrontIs DEF First
<1> DEFINE c == memchr(line, COLON)
           s == From(line, c + 1)
<1>3. c \in 0 .. Len(line) /\ Len(line) \in Nat
  BY Found
<1> HIDE DEF c
<1>4. c + 1 \in 1 .. Len(line) + 1
  BY <1>3
<1>5. s \in Seq(Int)
  BY <1>4, FromIs
<1>6. Value(line) = trim_trailing_span(skip_spaces(s))
  BY Zenon DEF Value, c
<1> HIDE DEF s
<1> QED
  BY <1>1, <1>2, <1>5, <1>6

\* A value that was cut is not taken for the word it is compared with.
LEMMA CaseWord ==
  ASSUME NEW s \in Seq(Int), NEW w \in Seq(Int), Len(w) < HTTP_CONNECTION_TEXT_MAX - 1
  PROVE  ascii_case_equal(copy_bounded(s, HTTP_CONNECTION_TEXT_MAX), w)
           <=> ascii_case_equal(CString(s), w)
<1> DEFINE size == HTTP_CONNECTION_TEXT_MAX
<1>0. size \in Nat \ {0}
  BY HttpAssumption
<1>1. \/ copy_bounded(s, size) = CString(s)
      \/ Len(copy_bounded(s, size)) >= size - 1 /\ Len(CString(s)) >= size - 1
  BY <1>0, Truncated
<1>2. CASE copy_bounded(s, size) = CString(s)
  BY <1>2, Zenon
<1>3. CASE Len(copy_bounded(s, size)) >= size - 1 /\ Len(CString(s)) >= size - 1
  <2>1. Len(w) \in Nat /\ ~(Len(w) >= size - 1)
    BY <1>0
  <2>2. Len(copy_bounded(s, size)) # Len(w) /\ Len(CString(s)) # Len(w)
    BY <1>3, <2>1
  <2> QED
    BY <2>2, Zenon DEF ascii_case_equal
<1> QED
  BY <1>1, <1>2, <1>3

\* w holds the state of the loop after 0 .. n rounds.
NoHeader == [offset |-> 1, connection |-> <<>>]
Rounds(h, w, n) == w = [k \in 0 .. n |-> IF k = 0 THEN NoHeader ELSE HeaderStep(h, w[k - 1])]

LEMMA RoundsExist ==
  ASSUME NEW h, NEW m \in Nat
  PROVE  \E w : Rounds(h, w, m)
<1> DEFINE S == {n \in Nat : \E w : Rounds(h, w, n)}
<1>1. 0 \in S
  <2> DEFINE w == [k \in 0 .. 0 |-> NoHeader]
  <2>1. \A k \in 0 .. 0 : k = 0
    OBVIOUS
  <2>2. Rounds(h, w, 0)
    BY <2>1 DEF Rounds
  <2> QED
    BY <2>2
<1>2. ASSUME NEW n \in Nat, n \in S PROVE n + 1 \in S
  <2>1. PICK v : Rounds(h, v, n)
    BY <1>2
  <2>2. v[0] = NoHeader /\ \A k \in 1 .. n : v[k] = HeaderStep(h, v[k - 1])
    <3>1. \A k \in 0 .. n : v[k] = IF k = 0 THEN NoHeader ELSE HeaderStep(h, v[k - 1])
      BY <2>1 DEF Rounds
    <3> QED
      BY <3>1
  <2> DEFINE w == [k \in 0 .. n + 1 |-> IF k <= n THEN v[k] ELSE HeaderStep(h, v[n])]
  <2>5. \A k \in 0 .. n + 1 : w[k] = IF k = 0 THEN NoHeader ELSE HeaderStep(h, w[k - 1])
    <3> SUFFICES ASSUME NEW k \in 0 .. n + 1
                 PROVE  w[k] = IF k = 0 THEN NoHeader ELSE HeaderStep(h, w[k - 1])
      OBVIOUS
    <3>1. CASE k = 0
      BY <2>2, <3>1
    <3>2. CASE k \in 1 .. n
      BY <2>2, <3>2
    <3>3. CASE k = n + 1
      BY <3>3
    <3> QED
      BY <3>1, <3>2, <3>3
  <2>6. w = [k \in 0 .. n + 1 |-> w[k]]
    OBVIOUS
  <2> HIDE DEF w
  <2>7. Rounds(h, w, n + 1)
    BY <2>5, <2>6 DEF Rounds
  <2> QED
    BY <2>7
<1> HIDE DEF S
<1>3. S = Nat
  <2>1. S \subseteq Nat
    BY DEF S
  <2> QED
    BY <1>1, <1>2, <2>1, NatSet
<1> QED
  BY <1>3 DEF S

\* A round takes the line behind the k-th CRLF of the block, unless there is
\* none or it is empty.
LEMMA RoundIs ==
  ASSUME NEW b \in Seq(Int), NEW k \in 1 .. Cardinality(Crlfs(b)), NEW c
  PROVE  LET C == Crlfs(b)
             f == Nth(C, 1)
             h == From(b, f + 2)
             line == LineOf(b, k + 1)
             s == [offset |-> Nth(C, k) + 1 - f, connection |-> c]
         IN /\ k = Cardinality(C) => HeaderStep(h, s) = s
            /\ k # Cardinality(C) /\ line = <<>> => HeaderStep(h, s) = s
            /\ k # Cardinality(C) /\ line # <<>> =>
                 HeaderStep(h, s) =
                   [offset |-> Nth(C, k + 1) + 1 - f,
                    connection |-> IF IsHeader(line, Connection)
                                   THEN copy_bounded(Value(line), HTTP_CONNECTION_TEXT_MAX) ELSE c]
<1> DEFINE C == Crlfs(b)
           f == Nth(C, 1)
           a == Nth(C, k)
           d == Nth(C, k + 1)
           h == From(b, f + 2)
           x == a + 1 - f
           s == [offset |-> x, connection |-> c]
           e == find_crlf(From(h, x))
           row == SubSeq(h, x, x + e - 2)
           line == LineOf(b, k + 1)
<1>1. C \in SUBSET (1 .. Len(b)) /\ Len(b) \in Nat /\ C \subseteq Nat
  BY CrlfsOf
<1>2. /\ a + 2 \in 1 .. Len(b) + 1 /\ a \in C
      /\ k = Cardinality(C) => find_crlf(From(b, a + 2)) = 0
      /\ k # Cardinality(C) => /\ find_crlf(From(b, a + 2)) = d - (a + 2) + 1
                               /\ d \in C /\ a + 2 <= d /\ k + 1 \in 1 .. Cardinality(C)
  BY NextCrlf, Zenon
<1>3. C # {} /\ 1 \in 1 .. Cardinality(C)
  <2>1. C # {}
    BY <1>2
  <2> HIDE DEF C
  <2> QED
    BY <1>1, <2>1, FirstNth
<1>4. f \in C /\ f + 2 \in 1 .. Len(b) + 1
  BY <1>3, NextCrlf, Zenon
<1>5. f <= a
  <2>1. f = Min(C)
    BY <1>1, <1>3, FirstNth, Zenon
  <2>2. \A y \in C : Min(C) <= y
    BY <1>1, <1>3, NatMin, Zenon
  <2> QED
    BY <1>2, <2>1, <2>2, Zenon
<1>6. HeaderStep(h, s) =
        IF e \in {0, 1} THEN s
        ELSE [offset |-> x + e + 1,
              connection |-> IF IsHeader(row, Connection)
                             THEN copy_bounded(Value(row), HTTP_CONNECTION_TEXT_MAX) ELSE c]
  <2>1. s.offset = x /\ s.connection = c
    OBVIOUS
  <2> HIDE DEF s
  <2> QED
    BY <2>1, Zenon DEF HeaderStep
<1> HIDE DEF C, f, a, d
<1>7. f \in Nat /\ a \in Nat /\ x \in Nat \ {0} /\ (f + 2) + x - 1 = a + 2
  BY <1>1, <1>2, <1>4, <1>5
<1>8. From(h, x) = From(b, a + 2)
  <2> DEFINE n == Len(h)
  <2>1. n = Len(b) - (f + 2) + 1
    BY <1>4, FromIs
  <2> HIDE DEF n
  <2>2. n \in Int /\ n <= Len(b) - (f + 2) + 1 /\ (f + 2) + n - 1 = Len(b)
    BY <1>1, <1>7, <2>1
  <2> HIDE DEF x
  <2>3. SubSeq(h, x, n) = SubSeq(b, (f + 2) + x - 1, (f + 2) + n - 1)
    BY <1>4, <1>7, <2>2, PartOfRest
  <2> QED
    BY <1>7, <2>2, <2>3, Zenon DEF From, n
<1>9. CASE k = Cardinality(C)
  <2>1. e = 0
    BY <1>2, <1>8, <1>9, Zenon
  <2> HIDE DEF s, e
  <2> QED
    BY <1>6, <1>9, <2>1 DEF s, h, x, a, f, C
<1>10. CASE k # Cardinality(C)
  <2>1. e = d - (a + 2) + 1 /\ d \in C /\ a + 2 <= d /\ k + 1 \in 1 .. Cardinality(C)
    BY <1>2, <1>8, <1>10, Zenon
  <2>2. d \in 1 .. Len(b) /\ k \in Nat /\ k + 1 # 1 /\ k + 1 - 1 = k
    BY <1>1, <2>1
  <2> HIDE DEF e
  <2>3. line = SubSeq(b, a + 2, d - 1)
    <3> DEFINE j == k + 1
    <3>1. line = SubSeq(b, IF j = 1 THEN 1 ELSE Nth(C, j - 1) + 2, Nth(C, j) - 1)
      BY Zenon DEF LineOf, C
    <3>2. j # 1 /\ j - 1 = k /\ d = Nth(C, j)
      BY <2>2 DEF d
    <3> HIDE DEF j, line
    <3> QED
      BY <3>1, <3>2, Zenon DEF a
  <2>4. /\ x + e - 2 \in Int /\ x + e - 2 <= Len(b) - (f + 2) + 1
        /\ (f + 2) + (x + e - 2) - 1 = d - 1
    BY <1>1, <1>7, <2>1, <2>2
  <2>5. row = line
    <3> DEFINE y == x + e - 2
    <3> HIDE DEF x, y
    <3>1. SubSeq(h, x, y) = SubSeq(b, (f + 2) + x - 1, (f + 2) + y - 1)
      BY <1>4, <1>7, <2>4, PartOfRest DEF y
    <3> QED
      BY <1>7, <2>3, <2>4, <3>1, Zenon DEF y
  <2>6. line = <<>> <=> e = 1
    <3>1. a + 2 \in Int /\ d - 1 \in Int /\ 1 <= a + 2 /\ d - 1 <= Len(b)
      BY <1>1, <1>7, <2>2
    <3>2. /\ line \in Seq(Int)
          /\ Len(line) = IF a + 2 <= d - 1 THEN d - 1 - (a + 2) + 1 ELSE 0
      <4> HIDE DEF line
      <4>1. /\ SubSeq(b, a + 2, d - 1) \in Seq(Int)
            /\ Len(SubSeq(b, a + 2, d - 1)) = IF a + 2 <= d - 1 THEN d - 1 - (a + 2) + 1 ELSE 0
        BY <3>1, PartIs
      <4> QED
        BY <2>3, <4>1, Zenon
    <3> HIDE DEF line
    <3>3. Len(line) = 0 <=> e = 1
      BY <1>7, <2>1, <2>2, <3>2
    <3> QED
      BY <3>2, <3>3, EmptySeq
  <2>7. e # 0 /\ x + e + 1 = d + 1 - f
    BY <1>7, <2>1, <2>2
  <2> HIDE DEF row, line, x, s
  <2>8. line = <<>> => HeaderStep(h, s) = s
    BY <1>6, <2>6
  <2>9. line # <<>> =>
          HeaderStep(h, s) =
            [offset |-> d + 1 - f,
             connection |-> IF IsHeader(line, Connection)
                            THEN copy_bounded(Value(line), HTTP_CONNECTION_TEXT_MAX) ELSE c]
    BY <1>6, <2>5, <2>6, <2>7
  <2> QED
    BY <1>10, <2>8, <2>9, Zenon DEF s, h, x, a, d, f, C, line
<1> QED
  BY <1>9, <1>10

\* The Connection headers among the lines 2 .. k, and what the field holds
\* after them.
Heads(b, k) == {m \in 2 .. k : IsHeader(LineOf(b, m), Connection)}
Said(b, k) ==
  IF Heads(b, k) = {} THEN <<>>
  ELSE copy_bounded(Value(LineOf(b, Max(Heads(b, k)))), HTTP_CONNECTION_TEXT_MAX)

LEMMA SaidNext ==
  ASSUME NEW b, NEW k \in Nat \ {0}
  PROVE  LET line == LineOf(b, k + 1)
         IN Said(b, k + 1) = IF IsHeader(line, Connection)
                             THEN copy_bounded(Value(line), HTTP_CONNECTION_TEXT_MAX)
                             ELSE Said(b, k)
<1> DEFINE Is(m) == IsHeader(LineOf(b, m), Connection)
           H == Heads(b, k + 1)
<1>1. H = {m \in 2 .. k + 1 : Is(m)} /\ Heads(b, k) = {m \in 2 .. k : Is(m)}
  BY DEF Heads
<1> HIDE DEF Is, H
<1>2. CASE Is(k + 1)
  <2>1. k + 1 \in H /\ H \subseteq Int /\ \A m \in H : k + 1 >= m
    BY <1>1, <1>2
  <2>2. Max(H) = k + 1
    BY <2>1, MaxIs
  <2> QED
    BY <1>2, <2>1, <2>2, Zenon DEF Said, Is, H
<1>3. CASE ~Is(k + 1)
  <2>1. H = Heads(b, k)
    BY <1>1, <1>3
  <2> QED
    BY <1>3, <2>1, Zenon DEF Said, Is, H
<1> QED
  BY <1>2, <1>3

\* After n rounds the loop has read the lines up to the k-th.
LEMMA RoundAt ==
  ASSUME NEW b \in Seq(Int), Crlfs(b) # {}, NEW r \in Nat, NEW w,
         Rounds(From(b, Nth(Crlfs(b), 1) + 2), w, r)
  PROVE  \E k \in 1 .. Cardinality(Crlfs(b)) :
           /\ w[r] = [offset |-> Nth(Crlfs(b), k) + 1 - Nth(Crlfs(b), 1), connection |-> Said(b, k)]
           /\ \A m \in 2 .. k : LineOf(b, m) # <<>>
           /\ k = r + 1 \/ k = Cardinality(Crlfs(b)) \/ LineOf(b, k + 1) = <<>>
<1> DEFINE C == Crlfs(b)
           N == Cardinality(C)
           f == Nth(C, 1)
           h == From(b, f + 2)
           Entry(k) == [offset |-> Nth(C, k) + 1 - f, connection |-> Said(b, k)]
           Good(n, k) == /\ w[n] = Entry(k)
                         /\ \A m \in 2 .. k : LineOf(b, m) # <<>>
                         /\ k = n + 1 \/ k = N \/ LineOf(b, k + 1) = <<>>
           S == {n \in 0 .. r : \E k \in 1 .. N : Good(n, k)}
<1>1. w[0] = NoHeader /\ \A n \in 1 .. r : w[n] = HeaderStep(h, w[n - 1])
  <2>1. \A n \in 0 .. r : w[n] = IF n = 0 THEN NoHeader ELSE HeaderStep(h, w[n - 1])
    BY DEF Rounds
  <2> HIDE DEF h
  <2> QED
    BY <2>1
<1>2. C \in SUBSET (1 .. Len(b)) /\ Len(b) \in Nat /\ C # {}
  BY CrlfsOf
<1>3. 1 \in 1 .. N /\ N \in Nat
  <2> HIDE DEF C
  <2>1. 1 \in 1 .. N
    BY <1>2, FirstNth, Zenon
  <2>2. N \in Nat
    BY <1>2, RankType, Zenon
  <2> QED
    BY <2>1, <2>2
<1>4. f \in Int
  <2> HIDE DEF C
  <2>1. f \in C
    BY <1>2, <1>3, NthIs, Zenon
  <2> HIDE DEF f
  <2> QED
    BY <1>2, <2>1
<1>5. Good(0, 1)
  <2>1. f + 1 - f = 1
    <3> HIDE DEF f
    <3> QED
      BY <1>4
  <2>2. Heads(b, 1) = {} /\ 2 .. 1 = {} /\ 1 = 0 + 1
    BY DEF Heads
  <2>3. Said(b, 1) = <<>>
    BY <2>2, Zenon DEF Said
  <2>4. w[0] = Entry(1)
    BY <1>1, <2>1, <2>3, Zenon DEF NoHeader
  <2> HIDE DEF Entry
  <2> QED
    BY <2>2, <2>4
<1>6. ASSUME NEW n \in 1 .. r, NEW k \in 1 .. N, Good(n - 1, k)
      PROVE  \E j \in 1 .. N : Good(n, j)
  <2> DEFINE line == LineOf(b, k + 1)
  <2>0. k \in Nat \ {0} /\ n - 1 + 1 = n /\ k \in 1 .. Cardinality(Crlfs(b))
    BY <1>3, <1>6
  <2>1. w[n] = HeaderStep(h, Entry(k))
    <3>1. w[n - 1] = Entry(k) /\ w[n] = HeaderStep(h, w[n - 1])
      BY <1>1, <1>6
    <3> QED
      BY <3>1, Zenon
  <2>2. /\ k = N => HeaderStep(h, Entry(k)) = Entry(k)
        /\ k # N /\ line = <<>> => HeaderStep(h, Entry(k)) = Entry(k)
        /\ k # N /\ line # <<>> =>
             HeaderStep(h, Entry(k)) =
               [offset |-> Nth(C, k + 1) + 1 - f,
                connection |-> IF IsHeader(line, Connection)
                               THEN copy_bounded(Value(line), HTTP_CONNECTION_TEXT_MAX)
                               ELSE Said(b, k)]
    BY <2>0, RoundIs, Zenon
  <2>3. Said(b, k + 1) = IF IsHeader(line, Connection)
                         THEN copy_bounded(Value(line), HTTP_CONNECTION_TEXT_MAX)
                         ELSE Said(b, k)
    BY <2>0, SaidNext, Zenon
  <2>4. k # N /\ line # <<>> => w[n] = Entry(k + 1)
    BY <2>1, <2>2, <2>3, Zenon
  <2>5. k = N \/ line = <<>> => w[n] = Entry(k)
    BY <2>1, <2>2, Zenon
  <2> HIDE DEF Entry, N, line
  <2>6. CASE k = N \/ line = <<>>
    <3>1. Good(n, k)
      BY <1>6, <2>5, <2>6 DEF line
    <3> HIDE DEF Good
    <3> QED
      BY <3>1
  <2>7. CASE k # N /\ line # <<>>
    <3>1. k = n
      BY <1>6, <2>0, <2>7 DEF line
    <3>2. \A m \in 2 .. k + 1 : LineOf(b, m) # <<>>
      <4> SUFFICES ASSUME NEW m \in 2 .. k + 1 PROVE LineOf(b, m) # <<>>
        OBVIOUS
      <4>1. CASE m = k + 1
        BY <2>7, <4>1 DEF line
      <4>2. CASE m \in 2 .. k
        BY <1>6, <4>2
      <4> QED
        BY <2>0, <4>1, <4>2
    <3>3. k + 1 \in 1 .. N
      BY <1>3, <2>0, <2>7
    <3>4. Good(n, k + 1)
      BY <2>4, <2>7, <3>1, <3>2
    <3> HIDE DEF Good
    <3> QED
      BY <3>3, <3>4
  <2> QED
    BY <2>6, <2>7
<1> HIDE DEF Good, N
<1>7. 0 \in S /\ \A n \in 1 .. r : n - 1 \in S => n \in S
  BY <1>3, <1>5, <1>6
<1>8. r \in S
  <2> HIDE DEF S
  <2> QED
    BY <1>7, Induct
<1> QED
  BY <1>8, Zenon DEF S, Good, N

\* The loop has a round for every CRLF behind the request line.
LEMMA RoundsEnough ==
  ASSUME NEW b \in Seq(Int), Crlfs(b) # {}
  PROVE  LET h == From(b, Nth(Crlfs(b), 1) + 2)
         IN /\ Cardinality(Crlfs(h)) \in Nat /\ Cardinality(Crlfs(b)) \in Nat
            /\ Cardinality(Crlfs(b)) - 1 <= Cardinality(Crlfs(h))
<1> DEFINE C == Crlfs(b)
           f == Nth(C, 1)
           h == From(b, f + 2)
           D == Crlfs(h)
           E == C \ {f}
           g == [c \in E |-> c - f - 1]
<1>1. C \in SUBSET (1 .. Len(b)) /\ Len(b) \in Nat /\ C # {}
  BY CrlfsOf
<1>2. \A c \in C : c \in 1 .. Len(b) - 1 /\ b[c] = CR /\ b[c + 1] = LF
  BY DEF Crlfs
<1>3. 1 \in 1 .. Cardinality(C) /\ f = Min(C)
  <2> HIDE DEF C
  <2> QED
    BY <1>1, FirstNth, Zenon
<1>4. f \in C /\ f + 2 \in 1 .. Len(b) + 1
  BY <1>3, NextCrlf, Zenon
<1>5. \A c \in C : f <= c
  <2>1. C \subseteq Nat
    BY <1>1
  <2> QED
    BY <1>1, <1>3, <2>1, NatMin, Zenon
<1>6. h \in Seq(Int) /\ \A i \in Nat \ {0} : i \in D <=> i + (f + 2) - 1 \in C
  BY <1>4, FromIs, CrlfsFrom
<1>7. D \in SUBSET (1 .. Len(h)) /\ Len(h) \in Nat
  BY <1>6, CrlfsOf
<1>8. IsFiniteSet(C) /\ Cardinality(C) \in Nat
  BY <1>1, RankType, Zenon
<1>9. IsFiniteSet(D) /\ Cardinality(D) \in Nat
  BY <1>7, RankType, Zenon
<1> HIDE DEF C, f, h, D
<1>10. ASSUME NEW c \in E PROVE c - f - 1 \in D
  <2>1. c \in C /\ c # f /\ f <= c /\ f \in Nat /\ c \in Nat
    BY <1>1, <1>4, <1>5
  <2>2. c # f + 1
    BY <1>2, <1>4, <2>1 DEF CR, LF
  <2> DEFINE i == c - f - 1
  <2>3. i \in Nat \ {0} /\ i + (f + 2) - 1 = c
    BY <2>1, <2>2
  <2> HIDE DEF i
  <2>4. i \in D
    BY <1>6, <2>1, <2>3
  <2> QED
    BY <2>4 DEF i
<1>11. g \in Injection(E, D)
  <2>1. g \in [E -> D]
    BY <1>10
  <2>2. \A c, d \in E : g[c] = g[d] => c = d
    BY <1>1, <1>4
  <2> HIDE DEF g
  <2> QED
    BY <2>1, <2>2 DEF Injection, IsInjective
<1>12. Cardinality(E) = Cardinality(C) - 1
  BY <1>4, <1>8, FS_RemoveElement
<1>13. Cardinality(E) <= Cardinality(D)
  <2> HIDE DEF g, E
  <2> QED
    BY <1>9, <1>11, FS_Injection
<1> QED
  BY <1>8, <1>9, <1>12, <1>13 DEF D, h, f, C

\* The field holds the last Connection header among the lines up to the first
\* empty one.
Headers(b) == {k \in 2 .. Cardinality(Crlfs(b)) :
                 /\ IsHeader(LineOf(b, k), Connection)
                 /\ \A m \in 2 .. k : LineOf(b, m) # <<>>}

LEMMA HeadersAre ==
  ASSUME NEW b \in Seq(Int), Crlfs(b) # {}
  PROVE  parse_headers(From(b, Nth(Crlfs(b), 1) + 2)) =
           IF Headers(b) = {} THEN <<>>
           ELSE copy_bounded(Value(LineOf(b, Max(Headers(b)))), HTTP_CONNECTION_TEXT_MAX)
<1> DEFINE C == Crlfs(b)
           N == Cardinality(C)
           f == Nth(C, 1)
           h == From(b, f + 2)
           r == Cardinality(Crlfs(h))
           loop == CHOOSE w : Rounds(h, w, r)
<1>1. r \in Nat /\ N \in Nat /\ N - 1 <= r
  BY RoundsEnough, Zenon
<1>2. parse_headers(h) = loop[r].connection
  BY Zenon DEF parse_headers, Rounds, NoHeader
<1> HIDE DEF r
<1>3. Rounds(h, loop, r)
  BY <1>1, RoundsExist, Zenon
<1> HIDE DEF loop
<1>4. PICK k \in 1 .. N :
        /\ loop[r] = [offset |-> Nth(C, k) + 1 - f, connection |-> Said(b, k)]
        /\ \A m \in 2 .. k : LineOf(b, m) # <<>>
        /\ k = r + 1 \/ k = N \/ LineOf(b, k + 1) = <<>>
  BY <1>1, <1>3, RoundAt, Zenon
<1> HIDE DEF h, f
<1>5. loop[r].connection = Said(b, k)
  BY <1>4
<1>6. Headers(b) = Heads(b, k)
  <2> DEFINE Is(m) == IsHeader(LineOf(b, m), Connection)
             Empty(m) == LineOf(b, m) = <<>>
  <2>1. Headers(b) = {m \in 2 .. N : Is(m) /\ \A j \in 2 .. m : ~Empty(j)}
    BY DEF Headers
  <2>2. Heads(b, k) = {m \in 2 .. k : Is(m)}
    BY DEF Heads
  <2>3. (\A m \in 2 .. k : ~Empty(m)) /\ (k = r + 1 \/ k = N \/ Empty(k + 1))
    BY <1>4
  <2> HIDE DEF Is, Empty, N
  <2>4. k = N \/ Empty(k + 1)
    BY <1>1, <2>3
  <2>5. ASSUME NEW m \in Headers(b) PROVE m \in Heads(b, k)
    <3>1. m \in 2 .. N /\ Is(m) /\ \A j \in 2 .. m : ~Empty(j)
      BY <2>1
    <3>2. m \in 2 .. k
      BY <1>1, <2>4, <3>1
    <3> QED
      BY <2>2, <3>1, <3>2
  <2>6. ASSUME NEW m \in Heads(b, k) PROVE m \in Headers(b)
    <3>1. m \in 2 .. k /\ Is(m)
      BY <2>2
    <3>2. m \in 2 .. N /\ \A j \in 2 .. m : ~Empty(j)
      BY <1>1, <2>3, <3>1
    <3> QED
      BY <2>1, <3>1, <3>2
  <2> QED
    BY <2>5, <2>6
<1> QED
  BY <1>2, <1>5, <1>6, Zenon DEF Said, h, f, C

\* The keep-alive decision is made by that header.
LEMMA LastConnection ==
  ASSUME NEW block \in Seq(Int)
  PROVE  LastConnectionDecides(block)
<1> DEFINE r == http_parse_request(block)
           H == Headers(block)
           N == Cardinality(Crlfs(block))
           said == Value(LineOf(block, Max(H)))
           says(word) == H # {} /\ ascii_case_equal(CString(said), word)
           held == IF H = {} THEN <<>> ELSE copy_bounded(said, HTTP_CONNECTION_TEXT_MAX)
<1>1. LastConnectionDecides(block) <=>
        (r.ok => (r.keep_alive_requested <=>
                    IF r.version = "1.1" THEN ~says(Close) ELSE says(KeepAlive)))
  BY Zenon DEF LastConnectionDecides, Headers
<1>2. CASE Crlfs(block) = {}
  <2>1. ~r.ok
    BY <1>2, NoLine
  <2> QED
    BY <1>1, <2>1, Zenon
<1>3. CASE Crlfs(block) # {}
  <2>1. r.ok => r.keep_alive_requested = keep_alive_requested(r.version, held)
    <3> DEFINE line == LineOf(block, 1)
               version == parse_version(copy_bounded(From(line, SecondSpace(line) + 1),
                                                     HTTP_VERSION_TEXT_MAX))
               headers == parse_headers(From(block, find_crlf(block) + 2))
    <3>1. /\ find_crlf(block) = Nth(Crlfs(block), 1)
          /\ r.ok => /\ r.version = version
                     /\ r.keep_alive_requested = keep_alive_requested(version, headers)
      BY <1>3, ParsedIs, Zenon
    <3>2. headers = held
      BY <1>3, <3>1, HeadersAre, Zenon
    <3> QED
      BY <3>1, <3>2, Zenon
  <2>2. H # {} => said \in Seq(Int)
    <3> SUFFICES ASSUME H # {} PROVE said \in Seq(Int)
      OBVIOUS
    <3> DEFINE C == Crlfs(block)
    <3>1. C \in SUBSET (1 .. Len(block)) /\ Len(block) \in Nat
      BY CrlfsOf
    <3>2. N \in Nat
      BY <3>1, RankType, Zenon
    <3>3. H \subseteq 2 .. N
      BY DEF Headers
    <3> DEFINE k == Max(H)
    <3>4. k \in 2 .. N
      <4>1. H \subseteq 1 .. N
        BY <3>2, <3>3
      <4> HIDE DEF H, N
      <4>2. k \in H
        BY <3>2, <4>1, LongestMax
      <4> QED
        BY <3>3, <4>2
    <3> HIDE DEF k, H
    <3>5. k # 1 /\ k \in 1 .. N /\ k - 1 \in 1 .. N
      BY <3>2, <3>4
    <3> DEFINE a == Nth(C, k - 1)
               d == Nth(C, k)
    <3>6. a \in C /\ d \in C
      BY <3>1, <3>5, NthIs, Zenon
    <3>7. LineOf(block, k) = SubSeq(block, a + 2, d - 1)
      BY <3>5, Zenon DEF LineOf
    <3> HIDE DEF a, d, C
    <3>8. a + 2 \in Int /\ d - 1 \in Int /\ 1 <= a + 2 /\ d - 1 <= Len(block)
      BY <3>1, <3>6
    <3>9. SubSeq(block, a + 2, d - 1) \in Seq(Int)
      BY <3>8, PartIs
    <3>10. LineOf(block, k) \in Seq(Int)
      BY <3>7, <3>9, Zenon
    <3> QED
      BY <3>10, ValueType, Zenon DEF k
  <2>3. ASSUME NEW word \in Seq(Int), Len(word) < HTTP_CONNECTION_TEXT_MAX - 1, Len(word) # 0
        PROVE  ascii_case_equal(held, word) <=> says(word)
    <3>1. CASE H = {}
      <4>1. held = <<>> /\ ~says(word)
        BY <3>1, Zenon
      <4>2. Len(<<>>) # Len(word)
        BY <2>3
      <4>3. ~ascii_case_equal(<<>>, word)
        BY <4>2, Zenon DEF ascii_case_equal
      <4> QED
        BY <4>1, <4>3, Zenon
    <3>2. CASE H # {}
      <4>1. ascii_case_equal(copy_bounded(said, HTTP_CONNECTION_TEXT_MAX), word)
              <=> ascii_case_equal(CString(said), word)
        BY <2>2, <2>3, <3>2, CaseWord, Zenon
      <4> QED
        BY <3>2, <4>1, Zenon
    <3> QED
      BY <3>1, <3>2
  <2> HIDE DEF held, says
  <2>4. Close \in Seq(Int) /\ Len(Close) = 5 /\ KeepAlive \in Seq(Int) /\ Len(KeepAlive) = 10
    BY DEF Close, KeepAlive
  <2>5. /\ Len(Close) < HTTP_CONNECTION_TEXT_MAX - 1 /\ Len(Close) # 0
        /\ Len(KeepAlive) < HTTP_CONNECTION_TEXT_MAX - 1 /\ Len(KeepAlive) # 0
    BY <2>4, HttpAssumption
  <2>6. /\ ascii_case_equal(held, Close) <=> says(Close)
        /\ ascii_case_equal(held, KeepAlive) <=> says(KeepAlive)
    BY <2>3, <2>4, <2>5, Zenon
  <2> HIDE DEF r
  <2>7. r.ok => (r.keep_alive_requested <=>
                    IF r.version = "1.1" THEN ~says(Close) ELSE says(KeepAlive))
    BY <2>1, <2>6, Zenon DEF keep_alive_requested
  <2> QED
    BY <1>1, <2>7, Zenon
<1> QED
  BY <1>2, <1>3
-----------------------------------------------------------------------------
(* Results                                                                 *)

(* For any file systems, however they change, and whatever a client sends, *)
(* request.path and info.resolved_path hold their strings with the         *)
(* terminator, and append_directory_entry never writes behind its table.   *)
THEOREM RequestTypeCorrect == Spec => []TypeOK
<1>1. RequestInv => TypeOK
  <2> SUFFICES ASSUME RequestInv PROVE TypeOK
    OBVIOUS
  <2>1. method \in {"", "GET", "HEAD"}
    BY Zenon DEF RequestInv, TextInv, Methods
  <2>2. /\ fs \in Worlds
        /\ pc \in {"idle", "parse", "root", "target", "stat", "listing", "answered"}
        /\ Len(request_path) < HTTP_PATH_MAX /\ Len(resolved_path) < FILE_PATH_MAX
        /\ clicks \in 0 .. MaxClicks /\ quiet \in BOOLEAN
    BY DEF RequestInv, TextInv
  <2>3. step \in {"idle", "read", "title", "items", "footer", "built", "failed"}
    BY DEF RequestInv, ListInv, StepInv
  <2>4. next <= Len(entries) /\ Len(entries) <= entry_capacity
    BY DEF RequestInv, ListInv, TableInv
  <2> QED
    BY <2>1, <2>2, <2>3, <2>4, Zenon DEF TypeOK
<1> QED
  BY <1>1, RequestCorrect, PTL

(* Whichever opendir, malloc, realloc or strdup fails, and however many    *)
(* entries a directory has, file_build_directory_listing leaks nothing,    *)
(* frees nothing twice, and its string never grows behind its capacity,    *)
(* which never wraps around.                                               *)
THEOREM ListingMemorySafe == Spec => []ListingIsMemorySafe
<1>1. RequestInv => ListingIsMemorySafe
  <2> SUFFICES ASSUME RequestInv PROVE HeapBalanced /\ BuilderFits
    BY DEF ListingIsMemorySafe
  <2> USE DEF RequestInv, ListInv
  <2>1. /\ heap \in [dirs : Int, tables : Int, names : Int, data : Int]
        /\ heap.dirs = IF step = "read" THEN 1 ELSE 0
        /\ heap.tables = IF entry_capacity = 0 THEN 0 ELSE 1
        /\ heap.names = Len(entries)
        /\ heap.data = IF builder.capacity = 0 THEN 0 ELSE 1
    BY DEF HeapInv
  <2>2. Len(entries) \in Nat
    BY DEF TableInv
  <2>3. \A part \in DOMAIN heap : heap[part] >= 0
    <3>1. DOMAIN heap = {"dirs", "tables", "names", "data"}
      BY <2>1
    <3>2. heap.dirs >= 0 /\ heap.tables >= 0 /\ heap.names >= 0 /\ heap.data >= 0
      BY <2>1, <2>2
    <3> QED
      BY <3>1, <3>2
  <2>4. \A b \in Made : b.capacity # 0
    <3>1. \A b \in Made : Len(b.text) \in Nat
      BY DEF Made, Clean
    <3> QED
      BY <3>1 DEF Made
  <2>5. ASSUME step \in {"idle", "failed"} PROVE heap = Nothing
    <3>1. entries = <<>> /\ entry_capacity = 0 /\ builder.capacity = 0
      BY <2>5 DEF StepInv, NoBuilder
    <3>2. heap.dirs = 0 /\ heap.tables = 0 /\ heap.names = 0 /\ heap.data = 0
      BY <2>1, <2>5, <3>1
    <3> QED
      BY <2>1, <3>2 DEF Nothing
  <2>6. ASSUME step = "built" PROVE heap = [Nothing EXCEPT !.data = 1]
    <3>1. entries = <<>> /\ entry_capacity = 0 /\ builder.capacity # 0
      BY <2>4, <2>6 DEF StepInv
    <3>2. heap.dirs = 0 /\ heap.tables = 0 /\ heap.names = 0 /\ heap.data = 1
      BY <2>1, <2>6, <3>1
    <3>3. heap = [dirs |-> 0, tables |-> 0, names |-> 0, data |-> 1]
      BY <2>1, <3>2
    <3> QED
      BY <3>3 DEF Nothing
  <2>7. BuilderFits
    <3>1. builder = NoBuilder \/ (builder \in Made /\ builder.capacity # -1)
      BY DEF StepInv
    <3>2. \A b \in Made : b.capacity # -1 => Len(b.text) + 1 <= b.capacity /\ b.capacity <= SIZE_MAX
      BY Zenon DEF Made
    <3> QED
      BY <3>1, <3>2, Zenon DEF BuilderFits
  <2> QED
    BY <2>3, <2>5, <2>6, <2>7 DEF HeapBalanced
<1> QED
  BY <1>1, RequestCorrect, PTL

(* No name of an entry and no path of a request ends the attribute or the  *)
(* element it stands in: append_html_escaped and append_url_encoded leave  *)
(* none of the signs that could in a page.                                 *)
THEOREM MarkupKept == Spec => []PageKeepsMarkup
<1>1. RequestInv => PageKeepsMarkup
  BY DEF RequestInv, TextInv, Clean, PageKeepsMarkup
<1> QED
  BY <1>1, RequestCorrect, PTL

(* Whatever the client sends, and however the file system changes between  *)
(* the two calls of realpath and the calls behind them, the path that      *)
(* file_resolve_path gives back begins, name by name, with all names of    *)
(* the document root as the first call found it: the comparison of bytes   *)
(* in path_has_prefix never takes a directory whose name only begins like  *)
(* that of the root for the root.                                          *)
THEOREM PathInsideRoot == Spec => []ServedInsideRoot
<1>1. Init => PathInv
  <2> SUFFICES ASSUME Init PROVE PathInv
    OBVIOUS
  <2>1. root = <<>> /\ resolved_path = <<>>
    BY Zenon DEF Init
  <2> QED
    BY <2>1, EmptyText DEF PathInv
<1>2. PathInv => ServedInsideRoot
  BY NamesPrefix DEF PathInv, ServedInsideRoot
<1> QED
  BY <1>1, <1>2, RequestCorrect, PathStep, PTL DEF Spec

(* Every header block that is handed to the parser is accepted exactly when *)
(* its first line is a request line, its fields are the parts of that line, *)
(* and the last Connection header in front of the first empty line decides  *)
(* whether the connection is kept (http_parse_request and parse_headers).   *)
THEOREM ParserFollowsGrammar == Spec => []ParseIsGrammar
<1>1. RequestInv => ParseIsGrammar
  <2> SUFFICES ASSUME RequestInv PROVE ParseIsGrammar
    OBVIOUS
  <2>1. raw \in Seq(Int)
    BY DEF RequestInv, TextInv
  <2> QED
    BY <2>1, ParseGrammar, LastConnection, Zenon DEF ParseIsGrammar
<1> QED
  BY <1>1, RequestCorrect, PTL

(* In the table that a page is written from the directories are in the     *)
(* order of strcmp, and the files are; while the file system stands still  *)
(* it has every entry of the directory that is not hidden and no other,    *)
(* each with its kind, whatever order readdir returned them in and however *)
(* often the table had to grow.                                            *)
THEOREM ListingComplete == Spec => []TableIsDirectory
<1>1. Init => FilledInv
  <2> SUFFICES ASSUME Init PROVE FilledInv
    OBVIOUS
  <2>1. step = "idle"
    BY Zenon DEF Init, LInit
  <2> QED
    BY <2>1 DEF FilledInv
<1>2. FilledInv => TableIsDirectory
  <2> SUFFICES ASSUME FilledInv, step \in {"title", "items"}
               PROVE  Grouped /\ (quiet => Listed = Visible /\ Marked)
    BY DEF TableIsDirectory
  <2>1. dirp = {} /\ Ordered /\ (quiet => Unhidden(dirp) \cup Listed = Visible /\ Marked)
    BY DEF FilledInv
  <2>2. Unhidden(dirp) = {}
    BY <2>1 DEF Unhidden
  <2>3. Grouped
    BY <2>1 DEF Ordered, Grouped
  <2> QED
    BY <2>1, <2>2, <2>3
<1> QED
  BY <1>1, <1>2, RequestCorrect, FilledStep, PTL DEF Spec
=============================================================================
