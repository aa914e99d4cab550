# A verification of the HTTP file server

The repository is a multi-threaded HTTP/1.0 and HTTP/1.1 file server in C11:
one main thread accepts connections, a bounded queue hands them to a fixed pool
of workers, each worker serves one connection at a time, and SIGINT or SIGTERM
stops the process. This directory holds TLA+ models of it, the TLC
configurations that check them, and TLAPS proofs. Paths below are relative to
the repository; `PROJECT.json` maps every definition to its lines.

## 1. The system

| component | state | operations | works with |
|---|---|---|---|
| socket queue (`src/thread_pool.c`) | ring `items`, `head`, `tail`, `count`, `shutdown`, one mutex, condition variables `not_empty`, `not_full` | init, enqueue, dequeue, shutdown, destroy | main enqueues, workers dequeue, the signal handler and `thread_pool_stop` shut down |
| thread pool (`src/thread_pool.c`) | thread table | start (may fail half way), `worker_main`, stop (shutdown and join) | queue, client handler |
| server (`src/server.c`) | `should_stop`, `listen_fd`, `queue`, `access_log` | init, run (accept loop, 503 when full), stop, destroy | everything |
| main and signals (`src/main.c`) | `active_server`, options | parse options, install handlers, `handle_signal` | `server_stop` from a handler |
| client handler (`src/server.c`) | read buffer, `keep_going`, current request and response | `read_next_request`, `handle_client`, `send_*` | parser, files, log, peer |
| request parser (`src/http.c`) | `http_request_t` | request line, headers, Range, keep-alive | client handler |
| range and file responses (`src/server.c`, `src/http.c`) | `byte_range_t`, `remaining` | `parse_range_header`, `resolve_range`, `send_file_response` | the file system, which changes meanwhile |
| files and listings (`src/files.c`) | while it runs: the open directory, the table of entries, the growing page | decode, resolve inside the document root, stat, list, escape | client handler, the file system, which changes meanwhile |
| access log (`src/log.c`) | `FILE *` with its buffer, mutex | open (may fail half way), write, close | workers, main, the disk |

Threads share the queue (under its mutex), the log (under its mutex) and the
fields of `server_t` (under nothing: the handler writes `should_stop` and
`listen_fd` while main reads them). A socket moves from main to the queue to a
worker and is owned by one of them at a time.

What is hard here: wakeups and the ring at its ends; a signal that runs the
handler on top of any thread at any instruction; accept, recv and send that
block without a timeout; start-up that fails half way; peers that pipeline,
split requests, close or reset at any moment; a file that changes between
`stat` and the last `fread`; a path that is looked up four times while links and
directories change; a name that is escaped twice, cut out, parsed and decoded;
allocations that fail half way; a process killed between a log line and its
flush. `PROJECT.json` lists these hazards by line.

What makes the parts correct:

* queue: a linearizable bounded FIFO that loses no wakeup and lets everybody go
  after shutdown;
* pool, server, signals: every accepted socket has one owner until it is closed
  once; nobody is dropped in silence; main's return leaves nothing behind; a
  stop request ends the process;
* client handler: answers in the order of the requests, no byte lost or read
  twice, nothing after a truncated response, a log that agrees with the wire, no
  request left waiting;
* file responses: exactly the bytes asked for, never more or other bytes than
  announced, and an end to every response;
* parser: accepts exactly the well-formed header blocks, and its fields are the
  parts of the request line;
* files and listings: what is served lies in the tree of the document root; the
  answer is the one the path deserves; a listing shows the directory, and its
  links lead back to the entries; nothing leaks, nothing is written out of bounds;
* access log: an atomic, durable append, also across a kill and a restart.

## 2. The modules

| module | models | kind |
|---|---|---|
| `BoundedFifo` | what the queue promises | abstract specification |
| `SocketQueue` | `thread_pool.c` lines 36-163 | component |
| `SocketQueueProofs` | theorems about `SocketQueue` | proofs |
| `Server` | `main.c`, life cycle of `server.c`, pool of `thread_pool.c` | composition, extends `SocketQueue` |
| `ServerProofs` | theorems about `Server`, from those about the queue | proofs |
| `ServerInvariants` | the safety invariants of `Server`, extends `ServerProofs` | proofs |
| `ServerRefinement` | `Server` implements `ConnectionLife`, extends `ServerInvariants` | proofs |
| `ConnectionLife` | what the server promises a connection | abstract specification |
| `ClientHandler` | `read_next_request`, `handle_client`, the responses | component |
| `ClientHandlerProofs` | theorems about `ClientHandler` | proofs |
| `FileResponse` | Range headers, `resolve_range`, `send_file_response` | component |
| `FileResponseProofs` | theorems about `FileResponse` | proofs |
| `Positions` | places in a text counted from its beginning, for lines and names | operators |
| `HttpParse` | `http.c` except the Range header: operators on bytes, with a reference grammar | component |
| `FilePaths` | `decode_path`, `file_resolve_path`, types, escapes; the kernel's path resolution | component |
| `DirectoryListing` | `file_build_directory_listing`, table, page, allocations | component, extends `FilePaths` |
| `FileRequest` | one request from its bytes to a file or a listing, with a client and a changing file system | composition of `HttpParse` and `DirectoryListing` |
| `FileRequestProofs` | theorems about `FileRequest`, its parser and its listing | proofs |
| `AtomicLog` | what the access log promises | abstract specification |
| `AccessLog` | `log.c` | component |
| `AccessLogProofs` | theorems about `AccessLog` and its refinement | proofs |
| `ServerClaims`, `ClientHandlerClaims`, `FileResponseClaims` | sentences of the documents that the code does not keep | claims |
| `MCServer` | symmetry sets for TLC | instance |
| `MCFileRequest` | file systems, addresses and header blocks for TLC | instance |

Three refinements tie detailed modules to abstract ones: `SocketQueue`
implements `BoundedFifo`, `Server` implements `ConnectionLife`, `AccessLog`
implements `AtomicLog`. All three are checked by TLC and proved.

Each property has a *mutant* in `PROJECT.json`: a variant of one definition, as
a plausible bug would make it, under which TLC finds the property violated. The
variants stand in front of what they vary and no specification uses them.

### SocketQueue

A *caller* is any context that calls the queue. `qpc[c]` says where it is:
waiting for the mutex, in the critical section, or asleep in
`pthread_cond_wait`. A critical section is one step, since every access to the
fields is under the mutex; `pthread_cond_wait` releases the mutex and sleeps in
one step, and a sleeper may wake by a signal, by the broadcast or spuriously.
`CondSignal` wakes any one sleeper, `Broadcast` all. Nobody waits on `not_full`,
so it has no variable.

### Server

Main is the sequence of points `mpc` from `server_init` to the return of main,
with a failure branch wherever the code has one. A worker's `wpc` is its loop of
dequeue, read, respond, log, close. A signal frame is a caller with a *host*, the
context it interrupted, which does not run until the handler returns; handlers
nest. Its points are those of `server_stop`: the flag, the listener, the queue.

* `signal()` in a `-std=c11` build has System V semantics: no `SA_RESTART`, so a
  signal taken by main ends a blocked accept with EINTR (`Deliver`); and the
  handler is reset on delivery, so a second signal of the same kind kills the
  process (`Kill`), as does one that arrives before the handlers are installed.
* POSIX lets any thread take a signal sent to the process; Linux prefers main.
  `SigTargets` is the set of threads that may: all of them for the safety
  runs, main for the liveness run.
* A `close` of the listener does not wake an accept that is blocked on it: the
  listener lives on until that accept returns (`Connect`).
* `send` to a peer that has left may fail or raise SIGPIPE, which ends the
  process: nothing ignores the signal and `send_all` passes no flag.

Of a response only the end matters here: sent and logged, not sent, or sent and
cut short, which closes the connection without an entry in the log (`Respond`).

Steps that are merged: closing a descriptor and clearing the variable that
holds it; setting `active_server` and the two calls of `signal()`; main's return
and the end of the process. Descriptor numbers are not
modelled, a socket is its connection.

`Life`, `LifeOf` and `Lives` map a state of `Server` to one of `ConnectionLife`: a socket
is waiting, with main, queued, with a worker, being refused, being dropped or
closed, the line is the ring's contents, and the abstract server stops when the
queue is shut down. `ConnectionLife` allows a refusal only while the queue is
full, a drop only while it is shut down, and service in the order of the queue,
after a shutdown too: the three ways in which a race between the acceptor, the
workers and a handler could treat a connection wrongly.

### ClientHandler

One connection. The byte stream is cut into tokens: a `Part` has no end of a
header in it, a block ends one and carries what `http_parse_request` reads:
method (or a malformed line), version, Connection header. `recv` returns any
non-empty prefix of what is in flight that fits into the buffer. `sent` is all
the peer has sent, `wire` all responses with what they announced and whether
they were sent to their end, `log` the status of every entry. A failing
`file_stat_path`, a directory and a file are separate actions, since any result
is possible at any time. EINTR in recv and send only repeats the call and is a
stuttering step. A reset may lose what is in flight or leave it readable.

### FileResponse

One request for one file. Numbers in Range headers are sequences of characters
that `parse_size_token` folds with its check against `SIZE_MAX`; a byte of the
file is its offset. Headers are parsed one after another into the same fields,
as in the code. `disk` is the size of the file now and changes at any step,
`size` the one `stat` saw. `fread` returns anything from 0 to what is there;
`send_all` succeeds or fails after any number of bytes. The read-ahead of stdio
is left out: serving a byte from it is the same as a later truncation.

### HttpParse, FilePaths, DirectoryListing, FileRequest

`HttpParse` and `FilePaths` are operators that follow the C functions of the
same names on sequences of byte codes;
the array sizes are constants, and those of the fields that are compared with a
word hold more than the longest word (`HttpAssumption`; the code has 16, 16 and 32).
A loop is a recursive function with a round for everything that it can find: the
header loop has one for every CRLF (`HeaderStep`). `LineOf` and `Names` cut a text
into lines and names without a loop, by the k-th CRLF or the k-th beginning of a
name (`Nth` of `Positions`). A NUL in the middle of a field ends the C string there, and what lies behind the
terminator reads as 0; the code looks there only after a sign that decides
already (`decode_path` at a `%` that ends the path).

The file system is a function from absolute paths to nodes: a directory, one the
server may not enter, a file, a device, a link. `Walk` resolves a path as the
kernel does, following links up to `SYMLOOP_MAX`; `realpath` and `stat` are
defined by it. A slash at the end asks for a directory, as current versions of the C library
have it in `realpath`.

`FileRequest` is one worker: `ParseRequest`, then the three looks at the file
system as three steps (`ResolveRoot`, `ResolveTarget`, `StatPath`), then either the
hand-over to `FileResponse` or the listing. The listing goes through
`DirectoryListing` entry by entry: each `readdir`, each append to the table, the
sort, each append to the page. Every allocation may fail, and `heap` counts the
open directory, the table, the names and the page. The appends of one line of
the page are folded into one step, and it may fail at any of them that needs more
room: the error path then frees a string that holds the pieces in front of it
(`HalfWritten`), at the title one that may be just allocated.
Fixed markup is one code. Other processes may change the file system (`Change`)
any number of times, wherever the worker will look at it again; a change when it
will not is the same as one before the next request. An open directory hands out the entries it had when it was opened, in
any order. The client types an address, sends a header block, or follows a link
of the page it received, as a browser resolves it. `AnswerIsRight`
reads the path by a definition of its own (`Meaning`: which places of it hold a sign,
and which one), not by the loop of `decode_path`.

### AccessLog

`access_log_open` is three steps, each of which may fail; `access_log_write` is
call, lock, `fprintf` into the stream's buffer, `fflush`, unlock. A line goes to the
disk in two parts, so that a kill can cut it. `Kill` ends the process at any
point and starts it again on the same file; `FlushFails` is a full disk, where
the C library drops what is buffered and the code does not look at the result.
`WholeLines` (the lines of the file whose two parts are there, in order, by the
position of each second part) and `Pending` map a state to one of `AtomicLog`. A line written behind the
fragment that a kill or a refused write left counts as whole: its bytes are all
there and in order, though no line end separates them from the fragment.

## 3. What is checked

| run | instance | states | shows |
|---|---|---|---|
| `queue` | 3 callers, capacity 2, 2 sockets | 459 576 | types, `RingInv`, `NoLostWakeup`, refinement of `BoundedFifo`, `ShutdownReleases` |
| `server` | 2 workers, 2 connections, capacity 1, 1 signal on any thread | 994 153 | `Ownership`, `CleanExit`, `NoSilentDrop`, `NoUseAfterRelease`, refinement of `ConnectionLife` |
| `server_two_signals` | 1 worker, 2 connections, 2 signals on any thread | 1 007 579 | `Ownership` and `CleanExit` with nested and concurrent handlers |
| `server_live` | 1 worker, 2 connections, 1 signal on main | 98 098 | `StopEnds`, `ConnectionEnds` |
| `client_handler` | up to 3 tokens, buffer of 2, 4 methods, 2 versions | 548 475 | `StreamIsServed`, `BadRequestIsDue`, `CutShortIsLast`, `CloseHasReason`, `LogIsTrue`, `RequestIsServed`, `WorkerIsFreed` |
| `file_response` | files of 0 to 3 bytes, chunks of 2, numbers of 2 characters, up to 2 Range headers | 567 655 | `BodyKeepsPromise`, `ReportIsTrue`, `RangeIsAnswered`, `ResponseEnds` |
| `file_request` | 12 file systems, 587 addresses, 3 412 header blocks, paths of 9 and 10 bytes, 2 links in a row | 771 776 | `ParseIsGrammar`, `ServedInsideRoot`, `AnswerIsRight`, `ListingIsDirectory`, `PageKeepsMarkup`, `LinkLeadsToEntry`, `ListingIsMemorySafe` |
| `access_log` | 2 threads of 2 calls, 2 kills or refused writes | 15 662 | the resources of a failed opening (`TypeOK`), `ReturnedIsOnDisk`, refinement of `AtomicLog`, `WriteReturns` |

**Bounds.** Three callers are one producer and two sleepers, or three sleepers
at a shutdown: enough for a lost or stolen wakeup. Capacity 2 lets head and tail
wrap and meet both full and empty. With capacity 1 two connections fill the
queue, so the 503 is reached. Two workers compete for a socket; two signals
nest or run at once. Three tokens in a buffer of two give pipelining, a request
split over two reads, a full buffer, and a connection that goes on after a first
response. Files of three bytes in chunks of two need two turns of the loop;
`SizeMax` is 10, so that 10 fits and 11 overflows by one.

The document root of `file_request` is a link to a directory `r.` beside which
there is `r.a`, so that a prefix of bytes is not a prefix of names; an entry may
be a file, a device, a locked or a nested directory, a link to itself, to the
directory, to a neighbour, out of the root by a relative or an absolute path.
Addresses are all sequences of up to three of eight pieces, among them the
escapes of `.`, `/` and the backslash, a bare `%` and `+`. The table starts with
one entry and the page with 8 codes, so that both grow; `size_t` has 6 bits, so
that the page reaches the size where doubling would overflow. `FILE_PATH_MAX`
and `HTTP_PATH_MAX` are small enough to be met, and cut a path; the other arrays
have their real sizes. The run was repeated, without a violation, with `FILE_PATH_MAX`
from 4 to 10 and with `SYMLOOP_MAX` of 0, 1 and 3, where other limits are met first. Two calls per thread and two faults in `access_log` give a kill
with one line written and one waiting, a kill after a refused write, and two
restarts.

**Deadlock** is checked for the queue, whose callers can always call again, and
for `file_request`, whose client can always ask again. A server that has exited
or been killed, a closed connection, a finished response and a closed log may
stop, so the other configurations switch the check off, and
progress is stated by the liveness properties instead.

**Fairness.** A thread that can run does run (weak fairness of main's, each
worker's and each handler's own steps), and `pthread_mutex_lock` does not pass a
caller over for ever (strong fairness of `Lock`). Nothing is assumed of an
accept that may fail. In `Server` nothing is assumed of recv and send while the
peer is there, and `server_live` adds that no peer stays for ever: without it
the claim run below shows that stopping may never end. In `ClientHandler` and
`FileResponse` a send makes progress, that is, a peer that stays takes what it
is sent; it may be silent for ever. In `AccessLog` a thread inside the call goes
on and `pthread_mutex_lock` is strongly fair; nothing is assumed of callers.
`FileRequest` has safety properties only.

`StopEnds` and `ConnectionEnds` accept two ends besides a normal exit: a process
killed by a signal (SIGPIPE included), and the self-deadlock described next.

## 4. Where the documents and the code differ

Runs whose property TLC finds violated, each stating a sentence of the
repository:

* `NoSelfDeadlock`: the handler takes no mutex (`docs/study-guide.md` line 284).
  It calls `socket_queue_shutdown`, which does; a signal inside a critical
  section of the queue makes the handler wait for the frame beneath it.
* `JoinReturns`: all threads exit after the broadcast (`report/report.md` line
  244). A worker in recv on a silent connection does not.
* `ContentRangeIsRange`: Content-Range names the served bytes
  (`report/report.md` line 336). With the headers `bytes=-1` and `bytes=0-` the
  fields mix and the 206 announces an empty, inverted range.
* `CloseIsLast`: a connection stays open unless a side sends `Connection: close`
  (`report/report.md` line 69). After a 500 that says close, it stays open.

On the following cases the documents disagree with the code, and some with each
other. The properties allow what the code does and what a document says, and
rule out the rest:

| case | the documents | the code | the property |
|---|---|---|---|
| a suffix longer than the file | 200 (`report/interview-questions.md` line 181, `report/05-range-requests-en.md` line 142), a partial response (`report/report.md` section 8) | 206 | `RangeIsAnswered`: the whole file, with either status |
| a malformed Range header | 400, a comma invalid (`report/05-range-requests-en.md` lines 213 and 36), 416 (`report/01-http-protocol-en.md` line 334), the full file (`report/report.md` section 8) | 200 with the whole file | `RangeIsAnswered`: no 206 |
| a transfer that the client or the file breaks off | logged (`report/04-access-log-en.md` line 206), with an error status (`report/report.md` line 312) | not logged: `handle_client` leaves its loop in front of the log | `LogIsTrue`: not logged as a success |
| the order of a listing | directories before files (`report/report.md` line 276, `report/03-filesystem-en.md` line 216) | by name alone | `ListingIsDirectory`: by name within the directories and within the files |
| a link to the directory above | below the document root (`report/report.md` line 280, `report/03-filesystem-en.md` line 300) | none: names with a dot in front are skipped | `ListingIsDirectory`: leaves it open |
| the links of a directory asked for without its slash | clicking navigates correctly (`report/03-filesystem-en.md` line 249) | they are relative and lead beside the directory | `LinkLeadsToEntry`: only for addresses with the slash |
| a suffix in capitals | known (`report/report.md` line 272, `report/03-filesystem-en.md` line 177) | unknown: `strcmp` | `AnswerIsRight`: either type |

Observations the models show and no run states: a signal between
`socket_queue_destroy` and `queue = NULL` makes the handler use freed memory
(between `DestroyQueue` and `DestroyNull`); when a worker takes the signal main
stays in accept until the next connection; a peer that leaves before its
response can end the process by SIGPIPE; a 400 that cannot be sent is logged
with status 0; a header line without a colon is skipped (`ParseIsGrammar`), where
`report/report.md` line 202 has 400 for malformed headers; an entry whose name has a
backslash is listed, and its link is refused with 403; a path longer than
`request.path` is cut without an error (`ParsesAsGrammar` says where); a document
root of `/` refuses every file in it, since `path_has_prefix` asks for a slash
behind the prefix; the resolved path is looked up again by `stat`, `opendir` and
`fopen`, so `ServedInsideRoot` is about the path and a directory of it that is
replaced by a link afterwards is followed; the time of a log line is taken
before the mutex, so times need not ascend in the file.

## 5. What is proved

`SocketQueueProofs`, for every capacity, every finite set of callers and every
set of sockets (the assumption `QueueAssumption` of `SocketQueue`):

* `QTypeCorrect`: `QSpec => []QTypeOK`. Inductive by itself; the bound on `count`
  is the test for a full queue, the one on the indices the modulus.
* `MutualExclusion`: `QSpec => []MutexInv`, that the owner of the mutex is the caller in
  a critical section. Inductive with the types; the other proofs use it, no run does.
* `RingCorrect`: `QSpec => []RingInv`. Not inductive alone: `enqueue` stores
  `slot[c]`, so the inductive invariant `RingIInv` adds that a caller inside
  enqueue holds a socket (`EnqueueArg`). The index arithmetic, that
  `(head + i) % Capacity` names different slots for different `i` below
  `Capacity`, is in lemmas of its own.
* `WakeupCorrect`: `QSpec => []NoLostWakeup`. Inductive with the types, by
  counting: a signal turns a sleeper into a taker, and a taker that returns
  has taken a socket, or found the queue closed, when nobody sleeps.
* `QueueImplementsFifo`: `QSpec => ImplementsFifo`. Each critical section maps
  to the atomic operation, everything else to Invoke or to a stuttering step,
  under `RingIInv` and `MutexInv`.

`ServerProofs`, for every number of workers, signals and sockets and every
capacity (`ServerAssumption` of `Server`):

* `ServerUsesQueue`: `Spec => QSpec`. Each action of `Server` is shown to be an
  action of the queue for one caller, or to leave the queue's variables alone.
  Main, the workers and the signal frames are all callers, so this is where it
  matters that a handler which interrupts a queue operation is a caller of its
  own and cannot enter the section its host holds.
* `ServerQueueIsFifo` and `ServerLosesNoWakeup` carry the queue's theorems
  over to the running server.
* `TypeCorrect`: `Spec => []TypeOK`. The queue's part is `QTypeCorrect`, the
  rest is inductive given that.

`ServerInvariants`, under the same assumption. None of the invariants the runs
check is inductive, since each depends on what the other threads may be doing:

* `PhaseCorrect`: `Spec => []PhaseInv`. Four parts, inductive together with the
  types: who may be inside which function of the queue (`CallsInv`), what a
  returned call says (`ReturnInv`: a worker ends only when the queue is closed and
  empty, and then it stays so), where the workers are at each point of main
  (`WorkersInv`: the queue is empty before the loop and after the join) and what
  main has acquired (`ResourceInv`).
* `NothingUsedAfterRelease`: `Spec => []NoUseAfterRelease`, from `PhaseInv`.
* `SocketsAreOwned`: `Spec => []Ownership`. The strengthening `OwnInv` says it from
  both sides: every holder (main, a worker, a slot of the ring) holds an open
  socket, every open socket has a holder, and no two hold the same one. It uses
  the ring's contents as a sequence (`RingIInv`), so an enqueue is an `Append`
  and a dequeue a `Tail`.
* `ExitIsClean`: `Spec => []CleanExit`, from `PhaseInv` and `OwnInv`: after the join
  no worker holds a socket, and the queue is empty.
* `NothingDroppedSilently`: `Spec => []NoSilentDrop`, with `DropInv`: a socket that
  is about to be closed has had its answer or lost its peer.

`ServerRefinement`: `ServerImplementsLife`, `Spec => ImplementsLife`. `LifeInv` gives
the life of a socket from its holder, by `OwnInv`; each action then is one step of
`ConnectionLife` for one socket, or leaves all lives alone.

`AccessLogProofs`, for every set of threads and every number of calls, kills and
refused writes (`LogAssumption`):

* `LogTypeCorrect`: `Spec => []TypeOK`.
* `LogDurable`: `Spec => []ReturnedIsOnDisk`. The inductive invariant `LogInv` says of
  each line whether the file has nothing of it, its first part at the end, or both
  parts next to each other and nowhere else, and which of these hold at each
  point of its writer. Lines still to come have left no trace.
* `LogImplementsAtomicLog`: `Spec => ImplementsAtomicLog`. The step that appends in
  the abstract log is the one that completes the line in the file.

`ClientHandlerProofs`, for every buffer size, every set of methods, versions and
Connection headers, and every stream (`HandlerAssumption`). The
inductive invariant `HandlerInv` relates what has left the buffer to the
responses by counting the requests that end in it (`CountInv`), and wire and log
entry by entry (`LogInv`):

* `HandlerTypeCorrect`: `Spec => []TypeOK`; `StreamServed`: `Spec => []StreamIsServed`;
  `CutShortLast`: `Spec => []CutShortIsLast`; `LogTrue`: `Spec => []LogIsTrue`;
  `ClosesWithReason`: `Spec => []CloseHasReason`.
* `BadRequestDue`: `Spec => []BadRequestIsDue`. `RefusalInv` says it already when the 400
  is chosen, at the place the worker reads from (`StandsBehind`), and what was due
  stays due, since the peer takes back nothing it has sent (`RefusalStays`).

`FileResponseProofs`, for every SIZE_MAX of at least 9 and not below the size of the
file, every chunk size and every list of Range headers (`ResponseAssumption`):

* `ParseSizeToken`: the loop of `parse_size_token` computes the decimal value of a
  token, or fails where it is not a number or exceeds SIZE_MAX. `FitsIsExact` says
  that the test before a digit is taken, a division, is neither too strict nor
  too late. The value and the loop are recursive functions on the positions of
  the token; that they exist and are unique is shown by induction, with the set
  of positions for which the claim holds (`NatSet`) in place of a predicate.
* `ResponseTypeCorrect`: `Spec => []TypeOK`; `BodyPromised`: `Spec =>
  []BodyKeepsPromise`; `ReportTrue`: `Spec => []ReportIsTrue`. The invariant
  `WireInv` says at each point what is on the wire and how `pos` and `remaining` follow
  from it; `ResolvedInside` says that `resolve_range` never leaves the file,
  for any fields that several headers may have mixed.
* `RangeAnswered`: `Spec => []RangeIsAnswered`. `AnswerInv` keeps the request that
  one header leads to, and `HeaderAnswered` that its resolution is exactly the set of
  bytes the header asks for.

`FileRequestProofs`, for every set of file systems whose names are bytes, every
address and header block, all array sizes that hold the words, and every width of `size_t`
(`HttpAssumption`, `FileAssumption`, `ListingAssumption`, `RequestAssumption`). The
inductive invariant `RequestInv` is about the request (`TextInv`), the table
(`TableInv`), what there is at each point of the listing (`StepInv`) and that what
is allocated is what the variables point to (`HeapInv`):

* `RequestTypeCorrect`: `Spec => []TypeOK`. It rests on what the parser returns for any
  bytes (`ParseRequestType`; `CopyBounded` leaves room for the terminator), on what
  `realpath` accepts (`RealpathFits`) and on the growth of the table (`TableGrows`).
* `ListingMemorySafe`: `Spec => []ListingIsMemorySafe`. `HeapInv` gives `HeapBalanced`:
  each path that gives up frees what there is (`AllFreed`, and `ReadEntryFailsStep`
  for the table that has grown before the copy of the name fails). For
  `BuilderFits` every append keeps the text and its terminator inside a capacity
  that `size_t` holds (`GrownFits`, `AppendMade`, and by induction over the pieces
  `WrittenMade`). That sorting neither loses nor repeats an entry (`SortedTable`) needs
  that names differ and that the order of strcmp, in which the terminator takes
  part, is total (`BeforeTotal`, `BeforeTransitive`).
* `MarkupKept`: `Spec => []PageKeepsMarkup`, from the escapes (`HtmlEscaped`, `UrlEscaped`).
* `PathInsideRoot`: `Spec => []ServedInsideRoot`. The inductive invariant `PathInv` keeps,
  from the second `realpath` on, that the path has passed the check against the root
  that the first one found, whatever the file system does in between. The check
  compares bytes; `NamesPrefix` shows that this compares names, since the byte
  behind the prefix is a slash or the terminator, so that the names of the root
  begin and end at the same places in both texts. What `realpath` gives back is a
  text of bytes in every file system, by induction over the steps of the walk
  (`WalkStepType`, `RealpathText`).
* `ParserFollowsGrammar`: `Spec => []ParseIsGrammar`. It needs no more of a state than that
  the block is a string; the rest is about the parser. `LineAccepted` and
  `GrammarAccepted` are the two directions for the request line, `PathCut` says where the path
  ends (its array, a query, a NUL), and `WordIs` that a field cut to its size is
  never equal to a word that the whole text is not: this is where the sizes of the fields
  are used. For the headers `RoundAt`, by induction over the rounds of the loop, says
  that after n of them the loop stands behind the line it should, or at
  its end, and that the field holds the last Connection header so far (`SaidNext`);
  `RoundsEnough` that it ends only at an empty line or behind the last CRLF.
* `ListingComplete`: `Spec => []TableIsDirectory`, the part of `ListingIsDirectory` in front of
  the page. `FilledInv` says that what is read and what is still to be read are
  together the directory, that each entry has its kind, and that the table is in
  order once it is sorted; `SortedTable` that sorting is a permutation into strictly
  ascending names. `PathInv` and `FilledInv` hold on the instance of `file_request` too,
  where TLC was asked before the proof.

Only model-checked: all liveness (fairness and ENABLED are outside the prover):
`ShutdownReleases`, `StopEnds`, `ConnectionEnds`, `RequestIsServed`, `WorkerIsFreed`,
`ResponseEnds`, `WriteReturns`; and three properties of `FileRequest`. `AnswerIsRight` and
`LinkLeadsToEntry` compare one walk through the file system with two that follow each
other, and the second with a walk along its own result; both hold only of link
targets that the number of rounds of `Walk` is enough for, which the kernel bounds
and the constants do not. `ListingIsDirectory` and `LinkLeadsToEntry` read the page
back: that cutting it at its markup returns the pieces it was put together from is
an induction over all pages, and `Labels` sorts with an operator as its argument.

## 6. What is not modelled

* `ClientHandler` takes any result of `file_stat_path` and of the parser; that
  these are the results `FileRequest` computes is not composed into one run.
* The table of `file_mime_type`: a constant with one suffix for TLC.
* The body of a request: the server never reads one. A peer's body is parsed as
  the next request; `StreamIsServed` speaks of the stream in the blocks the
  server sees.
* Texts: response headers, log lines and their times, messages. `snprintf` into 8192
  bytes cannot overflow with the values it gets.
* The option parser and the default configuration: they choose the constants.
* Descriptor numbers, so not the reuse of one by two handlers that close the
  same listener; time.

## 7. Plan

Done: the queue with its abstract specification and proofs, the server's life with
the proof that it uses the queue as specified and the refinement of
`ConnectionLife`, one connection, one file response, the parser, path resolution
and listings, the access log and its refinement. All refinements are proved, and all
safety properties but three of `FileRequest`. What is left:

1. `ListingIsDirectory`: from the table (`ListingComplete`) to the labels of the page, with
   `Labels` in terms of `Nth`, as the lines of a header block are.
2. `AnswerIsRight`: that a walk along the names of a resolved path finds the same
   node without a link, and that a walk can be cut in two.

To check: `tlc -config X.cfg M` for the module and configuration of each run in
`PROJECT.json`, and `tlapm M.tla` for each module of the table whose kind is proofs.
