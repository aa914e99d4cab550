-------------------------- MODULE DirectoryListing --------------------------
(***************************************************************************)
(* file_build_directory_listing of files.c: the directory is read entry by *)
(* entry into a table that grows, the table is sorted, and a page is put   *)
(* together in a string that grows, while any allocation may fail and the  *)
(* file system may change.  heap counts what is allocated and not freed.   *)
(*                                                                         *)
(* A fixed piece of markup is one code of the page, a number below -1000.  *)
(***************************************************************************)
EXTENDS FilePaths

CONSTANTS TableCapacity,     \* 16: the first size of the table
          InitialCapacity,   \* 1024: the first size of the string
          SizeBits           \* the width of size_t

SIZE_MAX == 2 ^ SizeBits - 1

ASSUME ListingAssumption ==
  /\ TableCapacity \in Nat \ {0} /\ InitialCapacity \in Nat \ {0}
  /\ SizeBits \in Nat /\ SIZE_MAX \in Nat

TITLE == <<-1001>>       \* <!doctype html> ... <title>Index of
HEADING == <<-1002>>     \* </title> ... <h1>Index of
LIST == <<-1003>>        \* </h1><ul>
ITEM == <<-1004>>        \* <li><a href="
LABEL == <<-1005>>       \* ">
ITEM_END == <<-1006>>    \* </a></li>
FOOTER == <<-1007>>      \* </ul></body></html>

VARIABLES
  fs,              \* the file system, external
  request_path,    \* the path of the request, as it was sent
  resolved_path,   \* the absolute path it was resolved to
  step,            \* where file_build_directory_listing is
  dirp,            \* what readdir has not returned yet
  entries,         \* the table: sequence of [name, is_directory]
  entry_capacity,  \* its allocated size, 0 while entries is NULL
  next,            \* how many of them are in the page
  builder,         \* the page: [text, capacity]; capacity 0 while data is NULL
  heap             \* live allocations: [dirs, tables, names, data]

lvars == <<step, dirp, entries, entry_capacity, next, builder, heap>>

NoBuilder == [text |-> <<>>, capacity |-> 0]
Nothing == [dirs |-> 0, tables |-> 0, names |-> 0, data |-> 0]

LInit ==
  /\ step = "idle" /\ dirp = {}
  /\ entries = <<>> /\ entry_capacity = 0 /\ next = 0
  /\ builder = NoBuilder /\ heap = Nothing

\* Return: the locals are gone.
Return(result) ==
  /\ step' = result /\ dirp' = {} /\ entries' = <<>> /\ entry_capacity' = 0 /\ next' = 0
-----------------------------------------------------------------------------
(* The string                                                              *)

\* The loop that doubles the size until the text fits, or takes the text's
\* own size where doubling would overflow.
Grown(capacity, required) ==
  LET doubled == {n \in required .. SIZE_MAX : \E k \in 0 .. SizeBits : n = capacity * 2 ^ k}
  IN IF doubled = {} THEN required ELSE Min(doubled)

\* Appends one piece; capacity -1 says that no size_t holds the new size.
builder_append(b, piece) ==
  LET required == Len(b.text) + Len(piece) + 1
      first == IF b.capacity = 0 THEN InitialCapacity ELSE b.capacity
  IN IF b.capacity = -1 \/ Len(piece) > SIZE_MAX - Len(b.text) - 1
     THEN [b EXCEPT !.capacity = -1]
     ELSE [text |-> b.text \o piece,
           capacity |-> IF required <= b.capacity THEN b.capacity ELSE Grown(first, required)]

Written(pieces) ==
  LET written[k \in 0 .. Len(pieces)] ==
        IF k = 0 THEN builder ELSE builder_append(written[k - 1], pieces[k])
  IN written[Len(pieces)]

\* The heap when the string has become b.
Allocated(b) ==
  IF builder.capacity = 0 /\ b.capacity # 0 THEN [heap EXCEPT !.data = @ + 1] ELSE heap

\* Every realloc on the way may succeed, and any of them may fail.
Appended(pieces) ==
  /\ Written(pieces).capacity # -1
  /\ builder' = Written(pieces)
  /\ heap' = Allocated(builder')

\* What the string may be when an append fails: the pieces in front of it
\* are written, and it needs more room.
HalfWritten(pieces) ==
  {Written(SubSeq(pieces, 1, k - 1)) :
     k \in {k \in 1 .. Len(pieces) :
             LET b == Written(SubSeq(pieces, 1, k - 1))
             IN b.capacity # -1 /\ builder_append(b, pieces[k]).capacity # b.capacity}}

builder_destroy(h, b) == IF b.capacity = 0 THEN h ELSE [h EXCEPT !.data = @ - 1]

free_directory_entriesTable(h, capacity) ==
  IF capacity = 0 THEN h ELSE [h EXCEPT !.tables = @ - 1]
free_directory_entries(h, capacity) ==
  IF capacity = 0 THEN h ELSE [h EXCEPT !.tables = @ - 1, !.names = @ - Len(entries)]
-----------------------------------------------------------------------------
(* Reading the directory                                                   *)

\* The entries of an open directory are those it had when it was opened.
Children(at) == {Last(p) : p \in {p \in DOMAIN fs \ {<<>>} : Front(p) = at}}

OpenDirectory ==
  LET w == Walk(fs, <<>>, Components(resolved_path))
  IN /\ w.result = "OK" /\ fs[w.at].kind = "dir"
     /\ step' = "read"
     /\ dirp' = Children(w.at) \cup {<<DOT>>, <<DOT, DOT>>}
     /\ heap' = [heap EXCEPT !.dirs = @ + 1]
     /\ UNCHANGED <<entries, entry_capacity, next, builder>>

\* Not a directory any more, not readable, or no descriptor is left.
OpenDirectoryFails == Return("failed") /\ UNCHANGED <<builder, heap>>

ReadHidden ==
  /\ step = "read"
  /\ \E name \in dirp : name[1] = DOT /\ dirp' = dirp \ {name}
  /\ UNCHANGED <<step, entries, entry_capacity, next, builder, heap>>

TableForLate(count) ==
  IF count <= entry_capacity THEN entry_capacity
  ELSE IF entry_capacity = 0 THEN TableCapacity ELSE 2 * entry_capacity
\* The size of the table when an entry is added to it.  A size that would
\* overflow is refused like one realloc has no room for, in ReadEntryFails.
TableFor(count) ==
  IF count < entry_capacity THEN entry_capacity
  ELSE IF entry_capacity = 0 THEN TableCapacity ELSE 2 * entry_capacity

\* A child whose path is too long, or that stat cannot reach, is no directory.
IsDirectoryChild(name) ==
  LET child == resolved_path \o <<SLASH>> \o name
  IN Len(child) < FILE_PATH_MAX /\ IsDirectory(stat(fs, child))

append_directory_entry(name, is_directory) ==
  /\ entries' = Append(entries, [name |-> name, is_directory |-> is_directory])
  /\ entry_capacity' = TableFor(Len(entries))
  /\ heap' = [heap EXCEPT !.names = @ + 1, !.tables = IF entry_capacity = 0 THEN @ + 1 ELSE @]

ReadEntry ==
  /\ step = "read"
  /\ \E name \in dirp :
       /\ name[1] # DOT
       /\ dirp' = dirp \ {name}
       /\ append_directory_entry(name, IsDirectoryChild(name))
  /\ UNCHANGED <<step, next, builder>>

\* No room for the table, or for the copy of the name in a table that has
\* grown: what was read so far is freed.
ReadEntryFails ==
  /\ step = "read"
  /\ \E name \in dirp : name[1] # DOT
  /\ \E grown \in {entry_capacity, TableFor(Len(entries))} :
       heap' = free_directory_entries(
                 [heap EXCEPT !.dirs = @ - 1,
                              !.tables = IF entry_capacity = 0 /\ grown # 0 THEN @ + 1 ELSE @],
                 grown)
  /\ Return("failed")
  /\ UNCHANGED builder

\* strcmp(s, t) < 0
Before(s, t) == \E i \in 1 .. Len(t) : At(s, i) < t[i] /\ \A j \in 1 .. i - 1 : At(s, j) = t[j]

sortedUnsorted(table) == table
\* The k-th entry is the one with k - 1 names before its own; no two are equal.
sorted(table) ==
  LET rank(i) == 1 + Cardinality({j \in DOMAIN table : Before(table[j].name, table[i].name)})
  IN [k \in DOMAIN table |-> table[CHOOSE i \in DOMAIN table : rank(i) = k]]

EndOfDirectory ==
  /\ step = "read" /\ dirp = {}
  /\ heap' = [heap EXCEPT !.dirs = @ - 1]
  /\ entries' = sorted(entries)
  /\ step' = "title"
  /\ UNCHANGED <<dirp, entry_capacity, next, builder>>
-----------------------------------------------------------------------------
(* Writing the page.                                                      *)

Title ==
  <<TITLE>> \o html_escaped(request_path) \o <<HEADING>> \o html_escaped(request_path) \o <<LIST>>

Item(e) ==
  LET slash == IF e.is_directory THEN <<<<SLASH>>>> ELSE <<>>
  IN <<ITEM>> \o url_escaped(e.name) \o slash \o <<LABEL>>
       \o html_escaped(e.name) \o slash \o <<ITEM_END>>

WriteTitle ==
  /\ step = "title"
  /\ Appended(Title)
  /\ step' = "items"
  /\ UNCHANGED <<dirp, entries, entry_capacity, next>>

WriteItem ==
  /\ step = "items" /\ next < Len(entries)
  /\ Appended(Item(entries[next + 1]))
  /\ next' = next + 1
  /\ UNCHANGED <<step, dirp, entries, entry_capacity>>

\* A piece of the title or of an item does not fit into memory: all is freed,
\* with the string as far as it was written.
WriteFails ==
  /\ \/ step = "title"
     \/ step = "items" /\ next < Len(entries)
  /\ \E b \in HalfWritten(IF step = "title" THEN Title ELSE Item(entries[next + 1])) :
       heap' = builder_destroy(free_directory_entries(Allocated(b), entry_capacity), b)
  /\ builder' = NoBuilder
  /\ Return("failed")

\* The table is freed before the footer is appended.
FreeTable ==
  /\ step = "items" /\ next = Len(entries)
  /\ heap' = free_directory_entries(heap, entry_capacity)
  /\ step' = "footer" /\ entries' = <<>> /\ entry_capacity' = 0 /\ next' = 0
  /\ UNCHANGED <<dirp, builder>>

WriteFooter ==
  /\ step = "footer"
  /\ Appended(<<FOOTER>>)
  /\ Return("built")

FooterFails ==
  /\ step = "footer" /\ HalfWritten(<<FOOTER>>) # {}
  /\ heap' = builder_destroy(heap, builder)
  /\ builder' = NoBuilder
  /\ Return("failed")

Build ==
  \/ ReadHidden \/ ReadEntry \/ ReadEntryFails \/ EndOfDirectory
  \/ WriteTitle \/ WriteItem \/ WriteFails \/ FreeTable \/ WriteFooter \/ FooterFails

\* What send_directory_response does with the page once it is sent, or not.
FreePage ==
  /\ heap' = builder_destroy(heap, builder)
  /\ builder' = NoBuilder
  /\ Return("idle")
-----------------------------------------------------------------------------
(* Nothing is leaked and nothing is freed twice, whichever allocation of   *)
(* file_build_directory_listing fails: when it has returned an error, or   *)
(* its page is sent, nothing is allocated; when it has returned a page,    *)
(* that is the only thing.                                                 *)
HeapBalanced ==
  /\ \A part \in DOMAIN heap : heap[part] >= 0
  /\ step \in {"idle", "failed"} => heap = Nothing
  /\ step = "built" => heap = [Nothing EXCEPT !.data = 1]

(* The string never writes behind what realloc has given it: the text and  *)
(* its terminator fit, also where doubling the size would overflow.        *)
BuilderFits ==
  \/ builder = NoBuilder
  \/ Len(builder.text) + 1 <= builder.capacity /\ builder.capacity <= SIZE_MAX

(* file_build_directory_listing leaks nothing, frees nothing twice and     *)
(* writes nothing behind its string, whichever allocation fails.           *)
ListingIsMemorySafe == HeapBalanced /\ BuilderFits
=============================================================================
