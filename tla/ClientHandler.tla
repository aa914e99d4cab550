--------------------------- MODULE ClientHandler ----------------------------
(***************************************************************************)
(* One connection on one worker: handle_client and read_next_request of    *)
(* server.c with http_parse_request's verdict on a request, against a peer *)
(* that sends pieces of requests when it likes, pipelines them, closes or  *)
(* resets the connection at any moment.                                    *)
(*                                                                         *)
(* The bytes of the connection come in tokens: Part is a piece without the *)
(* end of a header, a block is the piece that ends one, and carries what   *)
(* http_parse_request reads in the header that it ends.  recv may join and *)
(* split what the peer sent in any way.  RoomWhole, GiveUpPremature and    *)
(* the like, each in front of what it is a variant of, are deliberate bugs *)
(* that some property notices.                                             *)
(***************************************************************************)
EXTENDS Integers, FiniteSets, Sequences, SequencesExt

CONSTANTS BufferSize,   \* READ_BUFFER_SIZE, in tokens
          Methods,      \* the methods of the requests
          Versions,     \* their versions
          Connections,  \* their Connection headers
          MaxSent       \* bound: tokens of the peer

ASSUME HandlerAssumption ==
  /\ BufferSize \in Nat \ {0} /\ MaxSent \in Nat
  /\ Methods \subseteq {"GET", "HEAD", "POST", "malformed"}
  /\ Versions \subseteq {"1.0", "1.1", "unknown"}
  /\ Connections \subseteq {"close", "keep-alive", "other"}

VARIABLES
  sent,        \* all the peer has sent so far
  arrived,     \* the tokens of it that recv has returned
  peer,        \* open, closed in order, or reset
  pc,          \* where the worker is
  buffer,      \* buffer[0 .. buffered - 1]
  request,     \* the request being answered
  keep_going,
  answer,      \* the response being sent
  response,    \* response.status_code
  wire,        \* the responses on the wire, oldest first
  log          \* the status of every entry in the access log

conn == <<sent, arrived, peer>>
vars == <<conn, pc, buffer, request, keep_going, answer, response, wire, log>>

Part == [end |-> FALSE]
Blocks == [end : {TRUE}, method : Methods, version : Versions, connection : Connections]
NoBlock == [end |-> FALSE, method |-> "none"]

NoAnswer == [status |-> 0, close |-> FALSE, body |-> FALSE, from |-> "text"]

Init ==
  /\ sent = <<>> /\ arrived = 0 /\ peer = "open"
  /\ pc = "read"
  /\ buffer = <<>>
  /\ request = NoBlock
  /\ keep_going = TRUE
  /\ answer = NoAnswer
  /\ response = 0
  /\ wire = <<>>
  /\ log = <<>>
-----------------------------------------------------------------------------
(* http_parse_request and http_should_keep_alive                           *)

ParseOk(b) == b.method # "malformed" /\ b.version # "unknown"

KeepAlive(b) ==
  IF b.version = "1.1" THEN b.connection # "close" ELSE b.connection = "keep-alive"
-----------------------------------------------------------------------------
(* read_next_request                                                       *)

\* The position of the first end of a header in the buffer, 0 if none.
find_header_end == SelectInSeq(buffer, LAMBDA t : t.end)

ReadParsedDropsRest ==
  /\ pc = "read"
  /\ find_header_end > 0
  /\ ParseOk(buffer[find_header_end])
  /\ request' = buffer[find_header_end]
  /\ buffer' = <<>>
  /\ keep_going' = KeepAlive(request')
  /\ response' = 0
  /\ pc' = "choose"
  /\ UNCHANGED <<conn, answer, wire, log>>

\* A request is taken out of the buffer, and what follows it moves up.
ReadParsed ==
  /\ pc = "read"
  /\ find_header_end > 0
  /\ ParseOk(buffer[find_header_end])
  /\ request' = buffer[find_header_end]
  /\ buffer' = SubSeq(buffer, find_header_end + 1, Len(buffer))
  /\ keep_going' = KeepAlive(request')
  /\ response' = 0
  /\ pc' = "choose"
  /\ UNCHANGED <<conn, answer, wire, log>>

\* A return of -1: the answer is 400, and the connection is to be closed.
BadRequest ==
  /\ request' = NoBlock
  /\ answer' = [status |-> 400, close |-> TRUE, body |-> TRUE, from |-> "text"]
  /\ response' = 0
  /\ pc' = "head"
  /\ UNCHANGED <<conn, buffer, keep_going, wire, log>>

ReadMalformed ==
  /\ pc = "read"
  /\ find_header_end > 0
  /\ ~ParseOk(buffer[find_header_end])
  /\ BadRequest

NoHeaderYet == pc = "read" /\ find_header_end = 0

ReadTooLongFirst == pc = "read" /\ Len(buffer) = BufferSize /\ BadRequest
ReadTooLong == NoHeaderYet /\ Len(buffer) = BufferSize /\ BadRequest

RoomWhole == BufferSize
Room == BufferSize - Len(buffer)

MayRecv == NoHeaderYet /\ Room > 0

InFlight == SubSeq(sent, arrived + 1, Len(sent))

\* recv returns some of what is on its way, after a reset what had arrived.
RecvSome ==
  /\ MayRecv
  /\ \E n \in 1 .. Len(InFlight) :
       /\ n <= Room
       /\ buffer' = buffer \o SubSeq(InFlight, 1, n)
       /\ arrived' = arrived + n
  /\ UNCHANGED <<sent, peer, pc, request, keep_going, answer, response, wire, log>>

RecvEofRetry ==
  /\ MayRecv
  /\ peer = "closed" /\ InFlight = <<>>
  /\ buffer = <<>>
  /\ pc' = "close"
  /\ UNCHANGED <<conn, buffer, request, keep_going, answer, response, wire, log>>

\* recv returns 0: the end of the connection between two requests, or in
\* the middle of one.
RecvEof ==
  /\ MayRecv
  /\ peer = "closed" /\ InFlight = <<>>
  /\ IF buffer = <<>>
     THEN /\ pc' = "close"
          /\ UNCHANGED <<conn, buffer, request, keep_going, answer, response, wire, log>>
     ELSE BadRequest

RecvFails == MayRecv /\ peer = "reset" /\ BadRequest
-----------------------------------------------------------------------------
(* handle_client: the choice of the response                               *)

\* The body of a HEAD is announced and not sent.
Answers(status, close, hasBody, from) ==
  /\ answer' = [status |-> status, close |-> close,
                body |-> hasBody /\ request.method # "HEAD", from |-> from]
  /\ pc' = "head"
  /\ UNCHANGED <<conn, buffer, request, keep_going, response, wire, log>>

NotImplementedCloses ==
  pc = "choose" /\ request.method = "POST" /\ Answers(501, FALSE, TRUE, "text")

NotImplemented ==
  pc = "choose" /\ request.method = "POST" /\ Answers(501, ~keep_going, TRUE, "text")

Choosing == pc = "choose" /\ request.method # "POST"

\* file_stat_path fails: not found, forbidden, or any other error.
status_from_file_result == {404, 403, 500}

FileError ==
  Choosing /\ \E s \in status_from_file_result : Answers(s, ~keep_going, TRUE, "text")

\* A 500 of send_directory_response or send_file_response announces close
\* and leaves keep_going as it is.
SendError == Choosing /\ Answers(500, TRUE, TRUE, "text")

send_directory_response == Choosing /\ Answers(200, ~keep_going, TRUE, "listing")

\* An empty file has no body to send.
send_file_response ==
  /\ Choosing
  /\ \/ \E nonempty \in BOOLEAN : Answers(200, ~keep_going, nonempty, "file")
     \/ Answers(206, ~keep_going, TRUE, "file")
     \/ Answers(416, ~keep_going, TRUE, "text")
-----------------------------------------------------------------------------
(* Sending, logging, closing                                               *)

Complete ==
  /\ response' = answer.status
  /\ pc' = "log"

\* The 400 is logged whether it was sent or not; any other response that
\* cannot be sent ends the connection at once.
GiveUpPremature ==
  /\ pc' = "log"
  /\ response' = answer.status
GiveUp ==
  /\ pc' = IF answer.status = 400 THEN "log" ELSE "close"
  /\ UNCHANGED response

Header(complete) ==
  [block |-> request, status |-> answer.status, close |-> answer.close,
   complete |-> complete]

SendHead ==
  /\ pc = "head"
  /\ \/ /\ peer # "reset"
        /\ wire' = Append(wire, Header(~answer.body))
        /\ IF answer.body THEN pc' = "body" /\ UNCHANGED response ELSE Complete
     \/ peer = "reset" /\ GiveUp /\ UNCHANGED wire
  /\ UNCHANGED <<conn, buffer, request, keep_going, answer, log>>

SendBodyContinues ==
  /\ pc = "body"
  /\ \/ /\ peer # "reset"
        /\ wire' = [wire EXCEPT ![Len(wire)].complete = TRUE]
        /\ Complete
     \/ peer = "reset" /\ GiveUp /\ UNCHANGED wire
     \/ answer.from = "file" /\ pc' = "read" /\ UNCHANGED <<wire, response>>
  /\ UNCHANGED <<conn, buffer, request, keep_going, answer, log>>

\* The rest of the response; a file may have become shorter.
SendBody ==
  /\ pc = "body"
  /\ \/ /\ peer # "reset"
        /\ wire' = [wire EXCEPT ![Len(wire)].complete = TRUE]
        /\ Complete
     \/ peer = "reset" /\ GiveUp /\ UNCHANGED wire
     \/ answer.from = "file" /\ GiveUp /\ UNCHANGED wire
  /\ UNCHANGED <<conn, buffer, request, keep_going, answer, log>>

\* send on a connection the peer has reset raises SIGPIPE, which ends the
\* process.
SigPipe ==
  /\ pc \in {"head", "body"}
  /\ peer = "reset"
  /\ pc' = "killed"
  /\ UNCHANGED <<conn, buffer, request, keep_going, answer, response, wire, log>>

AfterLog == IF answer.status # 400 /\ keep_going THEN "read" ELSE "close"

access_log_write ==
  /\ pc = "log"
  /\ log' = Append(log, response)
  /\ pc' = AfterLog
  /\ UNCHANGED <<conn, buffer, request, keep_going, answer, response, wire>>

CloseClient ==
  /\ pc = "close"
  /\ pc' = "closed"
  /\ UNCHANGED <<conn, buffer, request, keep_going, answer, response, wire, log>>
-----------------------------------------------------------------------------
(* The peer                                                                *)

Ended == pc \in {"closed", "killed"}

PeerSends(t) ==
  /\ ~Ended
  /\ peer = "open"
  /\ Len(sent) < MaxSent
  /\ sent' = Append(sent, t)
  /\ UNCHANGED <<arrived, peer, pc, buffer, request, keep_going, answer, response, wire, log>>

PeerLeaves(how) ==
  /\ ~Ended
  /\ peer # "reset" /\ peer # how
  /\ peer' = how
  /\ UNCHANGED <<sent, arrived, pc, buffer, request, keep_going, answer, response, wire, log>>
-----------------------------------------------------------------------------
Handle ==
  \/ ReadParsed \/ ReadMalformed \/ ReadTooLong \/ RecvSome \/ RecvEof \/ RecvFails
  \/ NotImplemented \/ FileError \/ SendError
  \/ send_directory_response \/ send_file_response
  \/ SendHead \/ SendBody \/ SigPipe \/ access_log_write \/ CloseClient

Next ==
  \/ Handle
  \/ \E t \in Blocks \cup {Part} : PeerSends(t)
  \/ \E how \in {"closed", "reset"} : PeerLeaves(how)

Spec == Init /\ [][Next]_vars

\* The worker runs on.  Nothing is said of the peer: it may stay silent for
\* ever, but while it stays it takes what it is sent.
FairSpec == Spec /\ WF_vars(Handle)
-----------------------------------------------------------------------------
(* Correctness                                                             *)

Points == {"read", "choose", "head", "body", "log", "close", "closed", "killed"}

\* Every variable has its type, and the buffer never holds more than it can.
TypeOK ==
  /\ sent \in Seq(Blocks \cup {Part}) /\ arrived \in 0 .. Len(sent)
  /\ peer \in {"open", "closed", "reset"}
  /\ pc \in Points
  /\ buffer \in Seq(Blocks \cup {Part}) /\ Len(buffer) <= BufferSize
  /\ request \in Blocks \cup {NoBlock}
  /\ keep_going \in BOOLEAN
  /\ answer.status \in {0, 200, 206, 400, 403, 404, 416, 500, 501}
  /\ response \in {0, answer.status}
  /\ \A k \in 1 .. Len(wire) : wire[k].block \in Blocks \cup {NoBlock}

\* How many of the first n tokens of s end a request, and whether the k-th
\* request of the peer ends at i.
Ends(s, n) == Cardinality({i \in 1 .. n : s[i].end})
EndsRequest(k, i) == sent[i].end /\ Ends(sent, i) = k

\* However requests are split, joined and pipelined, the k-th response is
\* for the k-th request, and the worker goes on to read exactly what
\* follows it: no byte is lost, read twice or taken for another request.
StreamIsServed ==
  /\ \A k \in 1 .. Len(wire) :
       wire[k].block # NoBlock =>
         \E i \in 1 .. Len(sent) : EndsRequest(k, i) /\ sent[i] = wire[k].block
  /\ pc = "read" =>
       \E i \in 0 .. Len(sent) :
         /\ IF wire = <<>> THEN i = 0 ELSE i > 0 /\ EndsRequest(Len(wire), i)
         /\ buffer \o InFlight = SubSeq(sent, i + 1, Len(sent))

\* The stream behind position i begins with a request that cannot be parsed,
\* or that does not end within the buffer.
IsUnreadable(i) ==
  \/ \E j \in i + 1 .. Len(sent) :
       sent[j].end /\ ~ParseOk(sent[j]) /\ \A m \in i + 1 .. j - 1 : ~sent[m].end
  \/ i + BufferSize <= Len(sent) /\ \A j \in i + 1 .. i + BufferSize : ~sent[j].end

\* The k-th request could not be read, or not to its end.
RefusalIsDue(k) ==
  \/ peer # "open"
  \/ \E i \in 0 .. Len(sent) :
       (IF k = 1 THEN i = 0 ELSE i > 0 /\ EndsRequest(k - 1, i)) /\ IsUnreadable(i)

\* However it arrives, a request is refused with 400 only if it is malformed
\* or longer than the buffer, or the peer has left: one that fills the buffer
\* to its last byte is served.
BadRequestIsDue == \A k \in 1 .. Len(wire) : wire[k].status = 400 => RefusalIsDue(k)

\* Nothing follows a response that was cut short: the peer would take it for
\* the rest of the announced body.
CutShortIsLast == \A k \in 1 .. Len(wire) - 1 : wire[k].complete

\* A connection whose peer is still there is closed only after a response
\* that was cut short, after a 400, or when the request asked for it and the
\* response said so.
CloseHasReason ==
  pc = "closed" /\ peer = "open" =>
    /\ wire # <<>>
    /\ LET w == Last(wire)
       IN w.complete => w.close /\ (w.status = 400 \/ ~KeepAlive(w.block))

\* The log has one entry for every response that was sent in full, with its
\* status and in order.  A response that was cut short, should it have one, is
\* not logged as a success, and only a 400 that could not be sent has an entry
\* without a response: it is the last and has status 0.
LogIsTrue ==
  /\ \A k \in 1 .. Len(log) :
       \/ /\ k <= Len(wire)
          /\ IF wire[k].complete THEN log[k] = wire[k].status ELSE log[k] \notin {200, 206}
       \/ k = Len(log) /\ log[k] = 0 /\ answer.status = 400 /\ pc # "read"
  /\ pc \in {"read", "close", "closed"} =>
       \A k \in 1 .. Len(wire) : wire[k].complete => k <= Len(log)

\* Every request the peer has sent in full is answered, the pipelined ones
\* too, without the peer sending anything more, or the connection ends.
RequestIsServed ==
  \A k \in 1 .. MaxSent : (Ends(sent, Len(sent)) >= k) ~> (Len(wire) >= k \/ Ended)

\* Once the peer has left, in the middle of a request or of a response or
\* between two, the worker closes the connection and is free again.
WorkerIsFreed == (peer # "open") ~> Ended
=============================================================================
