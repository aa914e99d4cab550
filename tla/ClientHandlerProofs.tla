------------------------ MODULE ClientHandlerProofs -------------------------
(***************************************************************************)
(* Proofs about one connection, for any buffer size, any set of requests   *)
(* and any number of bytes from the peer.                                  *)
(***************************************************************************)
EXTENDS ClientHandler, FiniteSetTheorems, SequenceTheorems, TLAPS

Tokens == Blocks \cup {Part}
Statuses == {0, 200, 206, 400, 403, 404, 416, 500, 501}
Answered == [status : Statuses, close : BOOLEAN, body : BOOLEAN, from : {"text", "listing", "file"}]
Responses == [block : Blocks \cup {NoBlock}, status : Statuses, close : BOOLEAN, complete : BOOLEAN]

TypeInv ==
  /\ sent \in Seq(Tokens) /\ arrived \in 0 .. Len(sent)
  /\ peer \in {"open", "closed", "reset"}
  /\ pc \in Points
  /\ buffer \in Seq(Tokens) /\ Len(buffer) <= BufferSize
  /\ request \in Blocks \cup {NoBlock}
  /\ keep_going \in BOOLEAN
  /\ answer \in Answered
  /\ response \in {0, answer.status}
  /\ wire \in Seq(Responses)
  /\ log \in Seq(Statuses)

\* The tokens that have left the buffer: they end with a request, and the
\* buffer holds what arrived after them.
Taken == arrived - Len(buffer)
TakenInv ==
  /\ Taken >= 0
  /\ Taken > 0 => sent[Taken].end
  /\ \A j \in 1 .. Len(buffer) : buffer[j] = sent[Taken + j]

\* Between two requests there are as many responses as requests were taken;
\* from the parse to the response there is one request more, the last one.
InHand ==
  /\ Taken > 0 /\ request = sent[Taken] /\ request \in Blocks
  /\ Ends(sent, Taken) = Len(wire) + 1
CountInv ==
  /\ pc = "read" => Ends(sent, Taken) = Len(wire)
  /\ pc = "choose" => InHand
  /\ pc = "head" /\ answer.status # 400 => InHand
  /\ pc \in {"body", "log"} /\ answer.status # 400 => Ends(sent, Taken) = Len(wire)

\* The requests that were answered.
BlockInv ==
  \A k \in 1 .. Len(wire) :
    wire[k].block # NoBlock =>
      \E i \in 1 .. Len(sent) : EndsRequest(k, i) /\ sent[i] = wire[k].block

\* What the response is chosen from.
AnswerInv ==
  /\ pc = "choose" => keep_going = KeepAlive(request)
  /\ pc \in {"head", "body", "log"} =>
       /\ answer.status # 0
       /\ IF answer.status = 400
          THEN request = NoBlock /\ answer.close /\ answer.from # "file"
          ELSE keep_going = KeepAlive(request) /\ (~keep_going => answer.close)

\* Log and wire go together; the last response may be unfinished, and then it
\* is not logged, or logged as a 400 that was not sent.
Logged(k) == k <= Len(wire) /\ wire[k].complete /\ log[k] = wire[k].status
NotSent(k) ==
  /\ k = Len(log) /\ Len(wire) <= k /\ log[k] = 0 /\ answer.status = 400
  /\ pc \in {"close", "closed"}
Unfinished == Header(FALSE)
Finished == Header(TRUE)
LogInv ==
  /\ \A k \in 1 .. Len(log) : Logged(k) \/ NotSent(k)
  /\ Len(wire) <= Len(log) + 1
  /\ pc \in {"read", "choose", "head"} => Len(wire) = Len(log)
  /\ pc \in {"choose", "head", "body"} => response = 0
  /\ pc = "body" => Len(wire) = Len(log) + 1 /\ wire[Len(wire)] = Unfinished
  /\ pc = "log" =>
       \/ /\ response = answer.status
          /\ Len(wire) = Len(log) + 1 /\ wire[Len(wire)] = Finished
       \/ /\ response = 0 /\ answer.status = 400 /\ peer = "reset"
          /\ Len(wire) = Len(log) + 1 => ~wire[Len(wire)].complete
  /\ pc \in {"close", "closed"} /\ Len(wire) = Len(log) + 1 => ~wire[Len(wire)].complete

\* CloseHasReason, already when the worker has decided to close.
CloseInv ==
  pc \in {"close", "closed"} /\ peer = "open" =>
    /\ Len(wire) > 0
    /\ wire[Len(wire)].complete =>
         /\ wire[Len(wire)].close
         /\ wire[Len(wire)].status = 400 \/ ~KeepAlive(wire[Len(wire)].block)

HandlerInv ==
  TypeInv /\ TakenInv /\ CountInv /\ BlockInv /\ AnswerInv /\ LogInv /\ CloseInv
-----------------------------------------------------------------------------
\* A nonempty set of natural numbers has a smallest member.
LEMMA Smallest ==
  ASSUME NEW I \in SUBSET Nat, I # {}
  PROVE  Min(I) \in I /\ \A j \in I : Min(I) <= j
<1>1. PICK x \in I : \A y \in I : ~(<<y, x>> \in OpToRel(<, Nat))
  BY NatLessThanWellFounded, WFMin
<1>2. ASSUME NEW y \in I PROVE x <= y
  <2>1. x \in Nat /\ y \in Nat
    OBVIOUS
  <2>2. ~(y < x)
    BY <1>1, <2>1 DEF OpToRel
  <2> QED
    BY <2>1, <2>2
<1> QED
  BY <1>2 DEF Min

\* What is left of a sequence without its first f members.
LEMMA Rest ==
  ASSUME NEW S, NEW s \in Seq(S), NEW f \in 0 .. Len(s)
  PROVE  /\ SubSeq(s, f + 1, Len(s)) \in Seq(S)
         /\ Len(SubSeq(s, f + 1, Len(s))) = Len(s) - f
         /\ \A j \in 1 .. Len(s) - f : SubSeq(s, f + 1, Len(s))[j] = s[f + j]
<1> DEFINE m == f + 1
           n == Len(s)
           d == SubSeq(s, m, n)
<1>1. m \in Int /\ n \in Int /\ \A i \in m .. n : s[i] \in S
  OBVIOUS
<1>2. /\ d \in Seq(S) /\ Len(d) = IF m <= n THEN n - m + 1 ELSE 0
      /\ \A i \in 1 .. n - m + 1 : d[i] = s[m + i - 1]
  BY <1>1, SubSeqProperties
<1> HIDE DEF d
<1>3. Len(d) = Len(s) - f
  BY <1>2
<1>4. \A j \in 1 .. Len(s) - f : m + j - 1 = f + j /\ j \in 1 .. n - m + 1
  OBVIOUS
<1>5. \A j \in 1 .. Len(s) - f : d[j] = s[f + j]
  BY <1>2, <1>4
<1> QED
  BY <1>2, <1>3, <1>5 DEF d

\* find_header_end finds the first end of a header in the buffer.
LEMMA HeaderEnd ==
  ASSUME buffer \in Seq(Tokens)
  PROVE  /\ find_header_end \in 0 .. Len(buffer)
         /\ find_header_end > 0 =>
              /\ buffer[find_header_end].end
              /\ \A j \in 1 .. find_header_end - 1 : ~buffer[j].end
         /\ find_header_end = 0 => \A j \in 1 .. Len(buffer) : ~buffer[j].end
<1> DEFINE I == {i \in 1 .. Len(buffer) : buffer[i].end}
<1>1. find_header_end = IF I # {} THEN Min(I) ELSE 0
  BY DEF find_header_end, SelectInSeq
<1>2. I \in SUBSET Nat
  OBVIOUS
<1>3. CASE I = {}
  BY <1>1, <1>3
<1>4. CASE I # {}
  <2>1. Min(I) \in I /\ \A j \in I : Min(I) <= j
    BY <1>2, <1>4, Smallest
  <2> DEFINE f == Min(I)
  <2> HIDE DEF f
  <2>2. f \in 1 .. Len(buffer) /\ buffer[f].end /\ f = find_header_end
    BY <1>1, <1>4, <2>1 DEF f
  <2>3. \A j \in 1 .. Len(buffer) : buffer[j].end => f <= j
    BY <2>1 DEF f
  <2>4. \A j \in 1 .. f - 1 : ~buffer[j].end
    BY <2>2, <2>3
  <2> QED
    BY <2>2, <2>4
<1> QED
  BY <1>3, <1>4

\* Up to the same end the same requests are counted, in what the peer has
\* sent by now and in what it has sent later.
LEMMA EndsCounted ==
  ASSUME NEW s, NEW n \in Nat
  PROVE  Ends(s, n) \in Nat /\ Ends(s, 0) = 0
<1> DEFINE E == {i \in 1 .. n : s[i].end}
<1>1. IsFiniteSet(1 .. n)
  BY FS_Interval
<1>2. IsFiniteSet(E)
  BY <1>1, FS_Subset
<1>3. {i \in 1 .. 0 : s[i].end} = {}
  OBVIOUS
<1>4. Cardinality(E) \in Nat /\ Cardinality({}) = 0
  BY <1>2, FS_CardinalityType, FS_EmptySet
<1> QED
  BY <1>3, <1>4 DEF Ends

LEMMA EndsSame ==
  ASSUME NEW s, NEW c, NEW n \in Nat, \A i \in 1 .. n : c[i] = s[i]
  PROVE  Ends(c, n) = Ends(s, n)
<1>1. {i \in 1 .. n : c[i].end} = {i \in 1 .. n : s[i].end}
  OBVIOUS
<1> QED
  BY <1>1 DEF Ends

\* A request is one more when it is the only one in what follows.
LEMMA EndsNext ==
  ASSUME NEW s, NEW n \in Nat, NEW f \in Nat \ {0}, s[n + f].end,
         \A j \in 1 .. f - 1 : ~s[n + j].end
  PROVE  Ends(s, n + f) = Ends(s, n) + 1
<1> DEFINE E(k) == {i \in 1 .. k : s[i].end}
<1>1. IsFiniteSet(1 .. n)
  BY FS_Interval
<1>2. E(n) \subseteq 1 .. n /\ n + f \notin E(n)
  OBVIOUS
<1>3. IsFiniteSet(E(n))
  BY <1>1, <1>2, FS_Subset
<1>4. E(n + f) = E(n) \cup {n + f}
  <2>1. ASSUME NEW i \in 1 .. n + f, s[i].end PROVE i \in E(n) \cup {n + f}
    <3>1. CASE i > n /\ i < n + f
      <4>1. i - n \in 1 .. f - 1 /\ n + (i - n) = i
        BY <3>1
      <4> QED
        BY <2>1, <4>1
    <3> QED
      BY <2>1, <3>1
  <2> QED
    BY <2>1
<1>5. Cardinality(E(n) \cup {n + f}) = Cardinality(E(n)) + 1
  BY <1>2, <1>3, FS_AddElement
<1> QED
  BY <1>4, <1>5 DEF Ends
-----------------------------------------------------------------------------
LEMMA HandlerInit == Init => HandlerInv
<1> SUFFICES ASSUME Init PROVE HandlerInv
  OBVIOUS
<1>1. TypeInv
  BY HandlerAssumption DEF Init, TypeInv, Points, Answered, Statuses, NoAnswer
<1>2. TakenInv /\ BlockInv /\ AnswerInv /\ LogInv /\ CloseInv
  BY DEF Init, TakenInv, Taken, BlockInv, AnswerInv, LogInv, CloseInv
<1>3. CountInv
  <2>0. arrived = 0 /\ Len(buffer) = 0 /\ Len(wire) = 0 /\ pc = "read"
    BY DEF Init
  <2>1. Taken = 0
    BY <2>0 DEF Taken
  <2>2. Ends(sent, 0) = 0
    BY EndsCounted
  <2> QED
    BY <2>0, <2>1, <2>2 DEF CountInv
<1> QED
  BY <1>1, <1>2, <1>3 DEF HandlerInv

\* What a step keeps of the stream when it touches neither what was sent nor
\* what is on the wire.
Still == UNCHANGED <<sent, arrived, buffer, wire>>
LEMMA StillStream ==
  ASSUME Still, TakenInv, BlockInv
  PROVE  /\ Taken' = Taken /\ TakenInv' /\ BlockInv'
         /\ Ends(sent', Taken') = Ends(sent, Taken)
  BY DEF Still, Taken, TakenInv, BlockInv, EndsRequest, Ends

LEMMA ReadParsedStep ==
  ASSUME HandlerInv, ReadParsed
  PROVE  HandlerInv'
<1> DEFINE f == find_header_end
<1> HIDE DEF f
<1>t. TypeInv /\ TakenInv /\ CountInv /\ BlockInv /\ AnswerInv /\ LogInv /\ CloseInv
  BY DEF HandlerInv
<1>u. /\ buffer \in Seq(Tokens) /\ sent \in Seq(Tokens) /\ arrived \in 0 .. Len(sent)
      /\ Len(buffer) <= BufferSize /\ BufferSize \in Nat
  BY <1>t, HandlerAssumption DEF TypeInv
<1>1. f \in 1 .. Len(buffer) /\ buffer[f].end /\ \A j \in 1 .. f - 1 : ~buffer[j].end
  BY <1>u, HeaderEnd DEF ReadParsed, f
<1>2. /\ pc = "read" /\ ParseOk(buffer[f]) /\ request' = buffer[f]
      /\ buffer' = SubSeq(buffer, f + 1, Len(buffer))
      /\ keep_going' = KeepAlive(request') /\ response' = 0 /\ pc' = "choose"
      /\ UNCHANGED <<sent, arrived, peer, answer, wire, log>>
  BY DEF ReadParsed, conn, f
<1>3. buffer[f] \in Blocks /\ request' \in Blocks
  BY <1>u, <1>1, <1>2 DEF Tokens, Part
<1>4. /\ buffer' \in Seq(Tokens) /\ Len(buffer') = Len(buffer) - f
      /\ \A j \in 1 .. Len(buffer') : buffer'[j] = buffer[f + j]
  BY <1>u, <1>1, <1>2, Rest
<1>5. Taken' = Taken + f /\ Taken \in Nat /\ Taken + Len(buffer) = arrived
  <2>1. Taken >= 0
    BY <1>t DEF TakenInv
  <2>2. Len(buffer) \in Nat /\ f \in Nat /\ arrived \in Nat /\ arrived' = arrived
    BY <1>u, <1>1, <1>2
  <2> QED
    BY <2>1, <2>2, <1>4 DEF Taken
<1>6. TypeInv'
  <2>1. keep_going' \in BOOLEAN
    BY <1>2 DEF KeepAlive
  <2>2. Len(buffer') <= BufferSize /\ buffer' \in Seq(Tokens)
    BY <1>u, <1>1, <1>4
  <2> QED
    BY <1>t, <1>2, <1>3, <2>1, <2>2 DEF TypeInv, Points
<1>7. TakenInv'
  <2>1. \A j \in 1 .. Len(buffer) : buffer[j] = sent[Taken + j]
    BY <1>t DEF TakenInv
  <2>2. sent'[Taken'].end
    BY <2>1, <1>1, <1>2, <1>5
  <2>3. \A j \in 1 .. Len(buffer') : f + j \in 1 .. Len(buffer) /\ Taken' + j = Taken + (f + j)
    BY <1>u, <1>1, <1>4, <1>5
  <2>4. \A j \in 1 .. Len(buffer') : buffer'[j] = sent'[Taken' + j]
    BY <2>1, <2>3, <1>2, <1>4
  <2> QED
    BY <2>2, <2>4, <1>1, <1>5 DEF TakenInv
<1>8. CountInv'
  <2>1. \A j \in 1 .. Len(buffer) : buffer[j] = sent[Taken + j]
    BY <1>t DEF TakenInv
  <2>2. sent[Taken + f].end /\ \A j \in 1 .. f - 1 : ~sent[Taken + j].end
    BY <2>1, <1>1
  <2>3. Ends(sent, Taken + f) = Ends(sent, Taken) + 1
    <3>1. f \in Nat \ {0}
      BY <1>1
    <3> QED
      BY <3>1, <2>2, <1>5, EndsNext
  <2>4. Ends(sent, Taken) = Len(wire)
    BY <1>t, <1>2 DEF CountInv
  <2>5. InHand'
    BY <2>1, <2>3, <2>4, <1>1, <1>2, <1>3, <1>5 DEF InHand, Ends
  <2> QED
    BY <2>5, <1>2 DEF CountInv
<1>9. BlockInv'
  BY <1>t, <1>2 DEF BlockInv, EndsRequest, Ends
<1>10. AnswerInv'
  BY <1>2 DEF AnswerInv, KeepAlive
<1>11. LogInv'
  BY <1>t, <1>2 DEF LogInv, Logged, NotSent
<1>12. CloseInv'
  BY <1>2 DEF CloseInv
<1> QED
  BY <1>6, <1>7, <1>8, <1>9, <1>10, <1>11, <1>12 DEF HandlerInv

LEMMA BadRequestStep ==
  ASSUME HandlerInv, pc = "read", BadRequest
  PROVE  HandlerInv'
<1>t. TypeInv /\ TakenInv /\ CountInv /\ BlockInv /\ AnswerInv /\ LogInv /\ CloseInv
  BY DEF HandlerInv
<1>1. /\ request' = NoBlock /\ response' = 0 /\ pc' = "head"
      /\ answer' = [status |-> 400, close |-> TRUE, body |-> TRUE, from |-> "text"]
      /\ UNCHANGED <<sent, arrived, peer, buffer, keep_going, wire, log>>
  BY DEF BadRequest, conn
<1>2. answer' \in Answered /\ answer'.status = 400 /\ answer'.close /\ answer'.from # "file"
  BY <1>1 DEF Answered, Statuses
<1>3. TypeInv'
  BY <1>t, <1>1, <1>2 DEF TypeInv, Points
<1>4. TakenInv' /\ BlockInv'
  BY <1>t, <1>1, StillStream DEF Still
<1>5. CountInv' /\ AnswerInv' /\ CloseInv'
  BY <1>1, <1>2 DEF CountInv, AnswerInv, CloseInv
<1>6. LogInv'
  BY <1>t, <1>1 DEF LogInv, Logged, NotSent
<1> QED
  BY <1>3, <1>4, <1>5, <1>6 DEF HandlerInv

LEMMA RecvEofStep ==
  ASSUME HandlerInv, RecvEof
  PROVE  HandlerInv'
<1>t. TypeInv /\ TakenInv /\ CountInv /\ BlockInv /\ AnswerInv /\ LogInv /\ CloseInv
  BY DEF HandlerInv
<1>0. pc = "read" /\ peer = "closed"
  BY DEF RecvEof, MayRecv, NoHeaderYet
<1>1. CASE buffer # <<>>
  BY <1>0, <1>1, BadRequestStep DEF RecvEof
<1>2. CASE buffer = <<>>
  <2>1. pc' = "close" /\ UNCHANGED <<sent, arrived, peer, buffer, request, keep_going, answer, response, wire, log>>
    BY <1>2 DEF RecvEof, conn
  <2>2. TypeInv'
    BY <1>t, <2>1 DEF TypeInv, Points
  <2>3. TakenInv' /\ BlockInv'
    BY <1>t, <2>1, StillStream DEF Still
  <2>4. CountInv' /\ AnswerInv' /\ CloseInv'
    BY <1>0, <2>1 DEF CountInv, AnswerInv, CloseInv
  <2>5. LogInv'
    BY <1>0, <1>t, <2>1 DEF LogInv, Logged, NotSent
  <2> QED
    BY <2>2, <2>3, <2>4, <2>5 DEF HandlerInv
<1> QED
  BY <1>1, <1>2

\* The response that was chosen announces close when the connection ends.
LEMMA AnswersStep ==
  ASSUME HandlerInv, pc = "choose", pc' = "head",
         answer' \in Answered, answer'.status \notin {0, 400}, ~keep_going => answer'.close,
         UNCHANGED <<sent, arrived, peer, buffer, request, keep_going, response, wire, log>>
  PROVE  HandlerInv'
<1>t. TypeInv /\ TakenInv /\ CountInv /\ BlockInv /\ AnswerInv /\ LogInv /\ CloseInv
  BY DEF HandlerInv
<1>3. response = 0
  BY <1>t DEF LogInv
<1>4. TypeInv'
  BY <1>t, <1>3 DEF TypeInv, Points
<1>5. TakenInv' /\ BlockInv' /\ Taken' = Taken
  BY <1>t, StillStream DEF Still
<1>6. CountInv'
  <2>1. InHand
    BY <1>t DEF CountInv
  <2>2. InHand'
    BY <2>1, <1>5 DEF InHand, Ends
  <2> QED
    BY <2>2 DEF CountInv
<1>7. AnswerInv'
  BY <1>t DEF AnswerInv, KeepAlive
<1>8. LogInv' /\ CloseInv'
  BY <1>t, <1>3 DEF LogInv, Logged, NotSent, CloseInv
<1> QED
  BY <1>4, <1>5, <1>6, <1>7, <1>8 DEF HandlerInv

LEMMA ChooseStep ==
  ASSUME HandlerInv,
         NotImplemented \/ FileError \/ SendError \/ send_directory_response \/ send_file_response
  PROVE  HandlerInv'
<1> USE DEF Answers, Answered, Statuses
<1>1. /\ pc = "choose" /\ pc' = "head"
      /\ UNCHANGED <<sent, arrived, peer, buffer, request, keep_going, response, wire, log>>
  BY DEF NotImplemented, FileError, SendError, send_directory_response, send_file_response, Choosing, conn
<1>k. keep_going \in BOOLEAN
  BY DEF HandlerInv, TypeInv
<1>2. CASE NotImplemented
  <2>1. answer' \in Answered
    BY <1>2, <1>k DEF NotImplemented
  <2>2. answer'.status \notin {0, 400}
    BY <1>2 DEF NotImplemented
  <2>3. ~keep_going => answer'.close
    BY <1>2 DEF NotImplemented
  <2> QED
    BY <1>1, <2>1, <2>2, <2>3, AnswersStep
<1>3. CASE FileError
  <2>0. PICK s \in {404, 403, 500} :
          answer' = [status |-> s, close |-> ~keep_going,
                     body |-> TRUE /\ request.method # "HEAD", from |-> "text"]
    BY <1>3 DEF FileError, status_from_file_result
  <2>1. answer' \in Answered
    BY <2>0, <1>k
  <2>2. answer'.status \notin {0, 400}
    BY <2>0
  <2>3. ~keep_going => answer'.close
    BY <2>0
  <2> QED
    BY <1>1, <2>1, <2>2, <2>3, AnswersStep
<1>4. CASE SendError
  <2>1. answer' \in Answered
    BY <1>4, <1>k DEF SendError
  <2>2. answer'.status \notin {0, 400}
    BY <1>4 DEF SendError
  <2>3. ~keep_going => answer'.close
    BY <1>4 DEF SendError
  <2> QED
    BY <1>1, <2>1, <2>2, <2>3, AnswersStep
<1>5. CASE send_directory_response
  <2>1. answer' \in Answered
    BY <1>5, <1>k DEF send_directory_response
  <2>2. answer'.status \notin {0, 400}
    BY <1>5 DEF send_directory_response
  <2>3. ~keep_going => answer'.close
    BY <1>5 DEF send_directory_response
  <2> QED
    BY <1>1, <2>1, <2>2, <2>3, AnswersStep
<1>6. CASE send_file_response
  <2>0. PICK s \in {200, 206, 416}, b \in BOOLEAN, f \in {"file", "text"} :
          answer' = [status |-> s, close |-> ~keep_going,
                     body |-> b /\ request.method # "HEAD", from |-> f]
    <3>1. \/ \E b \in BOOLEAN : Answers(200, ~keep_going, b, "file")
          \/ Answers(206, ~keep_going, TRUE, "file")
          \/ Answers(416, ~keep_going, TRUE, "text")
      BY <1>6 DEF send_file_response
    <3>2. CASE \E b \in BOOLEAN : Answers(200, ~keep_going, b, "file")
      BY <3>2
    <3>3. CASE Answers(206, ~keep_going, TRUE, "file")
      BY <3>3
    <3>4. CASE Answers(416, ~keep_going, TRUE, "text")
      BY <3>4
    <3> QED
      BY <3>1, <3>2, <3>3, <3>4
  <2>1. answer' \in Answered
    BY <2>0, <1>k
  <2>2. answer'.status \notin {0, 400}
    BY <2>0
  <2>3. ~keep_going => answer'.close
    BY <2>0
  <2> QED
    BY <1>1, <2>1, <2>2, <2>3, AnswersStep
<1> QED
  BY <1>2, <1>3, <1>4, <1>5, <1>6

\* recv adds to the buffer what comes next in the stream.
LEMMA RecvSomeStep ==
  ASSUME HandlerInv, RecvSome
  PROVE  HandlerInv'
<1>t. TypeInv /\ TakenInv /\ CountInv /\ BlockInv /\ AnswerInv /\ LogInv /\ CloseInv
  BY DEF HandlerInv
<1>u. /\ buffer \in Seq(Tokens) /\ sent \in Seq(Tokens) /\ arrived \in 0 .. Len(sent)
      /\ Len(buffer) <= BufferSize /\ BufferSize \in Nat
  BY <1>t, HandlerAssumption DEF TypeInv
<1>1. /\ pc = "read"
      /\ UNCHANGED <<sent, peer, pc, request, keep_going, answer, response, wire, log>>
  BY DEF RecvSome, MayRecv, NoHeaderYet
<1>2. PICK n \in 1 .. Len(InFlight) :
        /\ n <= BufferSize - Len(buffer)
        /\ buffer' = buffer \o SubSeq(InFlight, 1, n) /\ arrived' = arrived + n
  BY DEF RecvSome, Room
<1>3. /\ InFlight \in Seq(Tokens) /\ Len(InFlight) = Len(sent) - arrived
      /\ \A j \in 1 .. Len(sent) - arrived : InFlight[j] = sent[arrived + j]
  BY <1>u, Rest DEF InFlight
<1> DEFINE new == SubSeq(InFlight, 1, n)
<1>4. new \in Seq(Tokens) /\ Len(new) = n /\ \A j \in 1 .. n : new[j] = sent[arrived + j]
  <2>1. \A i \in 1 .. n : InFlight[i] \in Tokens
    BY <1>3
  <2>2. /\ new \in Seq(Tokens) /\ Len(new) = IF 1 <= n THEN n - 1 + 1 ELSE 0
        /\ \A i \in 1 .. n - 1 + 1 : new[i] = InFlight[1 + i - 1]
    BY <2>1, SubSeqProperties
  <2> HIDE DEF new
  <2>3. n \in Nat /\ n >= 1 /\ n <= Len(sent) - arrived /\ Len(sent) \in Nat
    BY <1>u, <1>3
  <2>4. \A j \in 1 .. n : j \in 1 .. Len(sent) - arrived /\ j \in 1 .. n - 1 + 1 /\ 1 + j - 1 = j
    BY <2>3, <1>u
  <2>5. Len(new) = n
    BY <2>2, <2>3
  <2> QED
    BY <2>2, <2>4, <2>5, <1>3
<1> HIDE DEF new
<1>5. /\ buffer' \in Seq(Tokens) /\ Len(buffer') = Len(buffer) + n
      /\ \A j \in 1 .. Len(buffer) + n :
           buffer'[j] = IF j <= Len(buffer) THEN buffer[j] ELSE new[j - Len(buffer)]
  <2>1. buffer' = buffer \o new
    BY <1>2 DEF new
  <2> QED
    BY <1>u, <1>4, <2>1, ConcatProperties
<1>6. /\ Len(buffer) \in Nat /\ n \in Nat /\ arrived \in Nat /\ arrived + n \in 0 .. Len(sent)
      /\ Taken' = Taken /\ Taken + Len(buffer) = arrived /\ Taken \in Nat
  <2>1. Taken >= 0
    BY <1>t DEF TakenInv
  <2>2. Len(buffer) \in Nat /\ n \in Nat /\ arrived \in Nat /\ arrived + n \in 0 .. Len(sent)
    BY <1>u, <1>3
  <2>3. Len(buffer') = Len(buffer) + n /\ arrived' = arrived + n
    BY <1>2, <1>5
  <2> QED
    BY <2>1, <2>2, <2>3 DEF Taken
<1>7. TypeInv'
  <2>1. Len(buffer') <= BufferSize /\ arrived' \in 0 .. Len(sent)
    BY <1>2, <1>5, <1>6, <1>u
  <2> QED
    BY <1>t, <1>1, <1>5, <2>1 DEF TypeInv
<1>8. TakenInv'
  <2>1. \A j \in 1 .. Len(buffer) : buffer[j] = sent[Taken + j]
    BY <1>t DEF TakenInv
  <2>2. ASSUME NEW j \in 1 .. Len(buffer')
        PROVE  buffer'[j] = sent[Taken + j]
    <3>1. CASE j <= Len(buffer)
      <4>1. j \in 1 .. Len(buffer) /\ j \in 1 .. Len(buffer) + n
        BY <3>1, <1>5, <1>6
      <4> QED
        BY <3>1, <4>1, <2>1, <1>5
    <3>2. CASE j > Len(buffer)
      <4>0. Len(buffer') = Len(buffer) + n
        BY <1>5
      <4>1. /\ j - Len(buffer) \in 1 .. n /\ j \in 1 .. Len(buffer) + n /\ ~(j <= Len(buffer))
            /\ arrived + (j - Len(buffer)) = Taken + j
        BY <3>2, <4>0, <1>6
      <4>2. buffer'[j] = new[j - Len(buffer)]
        BY <4>1, <1>5
      <4>3. new[j - Len(buffer)] = sent[arrived + (j - Len(buffer))]
        BY <4>1, <1>4
      <4> QED
        BY <4>1, <4>2, <4>3
    <3> QED
      BY <3>1, <3>2, <1>5, <1>6
  <2>3. Taken' >= 0 /\ (Taken' > 0 => sent'[Taken'].end)
    BY <1>t, <1>1, <1>6 DEF TakenInv
  <2> QED
    BY <2>2, <2>3, <1>1, <1>6 DEF TakenInv
<1>9. CountInv'
  <2>1. Ends(sent, Taken) = Len(wire)
    BY <1>t, <1>1 DEF CountInv
  <2> QED
    BY <2>1, <1>1, <1>6 DEF CountInv, Ends
<1>10. BlockInv'
  BY <1>t, <1>1 DEF BlockInv, EndsRequest, Ends
<1>11. AnswerInv' /\ LogInv' /\ CloseInv'
  BY <1>t, <1>1 DEF AnswerInv, LogInv, Logged, NotSent, CloseInv
<1> QED
  BY <1>7, <1>8, <1>9, <1>10, <1>11 DEF HandlerInv

\* What the peer sends leaves alone what it has sent.
LEMMA PeerSendsStep ==
  ASSUME HandlerInv, NEW t \in Blocks \cup {Part}, PeerSends(t)
  PROVE  HandlerInv'
<1>t. TypeInv /\ TakenInv /\ CountInv /\ BlockInv /\ AnswerInv /\ LogInv /\ CloseInv
  BY DEF HandlerInv
<1>u. /\ buffer \in Seq(Tokens) /\ sent \in Seq(Tokens) /\ arrived \in 0 .. Len(sent) /\ t \in Tokens
  BY <1>t DEF TypeInv, Tokens
<1>1. /\ sent' = Append(sent, t)
      /\ UNCHANGED <<arrived, peer, pc, buffer, request, keep_going, answer, response, wire, log>>
  BY DEF PeerSends
<1>2. sent' \in Seq(Tokens) /\ Len(sent') = Len(sent) + 1 /\ \A i \in 1 .. Len(sent) : sent'[i] = sent[i]
  BY <1>u, <1>1, AppendProperties
<1>3. Taken' = Taken /\ Taken \in 0 .. Len(sent) /\ Taken + Len(buffer) = arrived /\ Len(buffer) \in Nat
  BY <1>t, <1>u, <1>1 DEF Taken, TakenInv
<1>4. ASSUME NEW n \in 0 .. Len(sent)
      PROVE  Ends(sent', n) = Ends(sent, n)
  <2>1. n \in Nat /\ \A i \in 1 .. n : sent'[i] = sent[i]
    BY <1>u, <1>2
  <2> QED
    BY <2>1, EndsSame
<1>5. TypeInv'
  <2>1. arrived' \in 0 .. Len(sent')
    BY <1>u, <1>1, <1>2
  <2> QED
    BY <1>t, <1>1, <1>2, <2>1 DEF TypeInv
<1>6. TakenInv'
  <2>1. Taken > 0 => Taken \in 1 .. Len(sent)
    BY <1>3
  <2>2. \A j \in 1 .. Len(buffer) : Taken + j \in 1 .. Len(sent)
    BY <1>3, <1>u
  <2> QED
    BY <1>t, <1>1, <1>2, <1>3, <2>1, <2>2 DEF TakenInv
<1>7. CountInv'
  <2>1. Ends(sent', Taken) = Ends(sent, Taken) /\ (Taken > 0 => sent'[Taken] = sent[Taken])
    BY <1>2, <1>3, <1>4
  <2>2. InHand => InHand'
    BY <2>1, <1>1, <1>3 DEF InHand, Ends
  <2>3. Ends(sent, Taken)' = Ends(sent, Taken)
    BY <2>1, <1>3 DEF Ends
  <2> QED
    BY <1>t, <1>1, <2>2, <2>3 DEF CountInv
<1>8. BlockInv'
  <2> SUFFICES ASSUME NEW k \in 1 .. Len(wire), wire[k].block # NoBlock
               PROVE  \E i \in 1 .. Len(sent') : EndsRequest(k, i)' /\ sent'[i] = wire[k].block
    BY <1>1 DEF BlockInv
  <2>1. PICK i \in 1 .. Len(sent) : EndsRequest(k, i) /\ sent[i] = wire[k].block
    BY <1>t DEF BlockInv
  <2>2. i \in 1 .. Len(sent') /\ sent'[i] = sent[i] /\ Ends(sent', i) = Ends(sent, i)
    BY <1>2, <1>4, <1>u
  <2>3. EndsRequest(k, i)'
    BY <2>1, <2>2 DEF EndsRequest, Ends
  <2> QED
    BY <2>1, <2>2, <2>3
<1>9. AnswerInv' /\ LogInv' /\ CloseInv'
  BY <1>t, <1>1 DEF AnswerInv, LogInv, Logged, NotSent, CloseInv, Unfinished, Finished, Header, KeepAlive
<1> QED
  BY <1>5, <1>6, <1>7, <1>8, <1>9 DEF HandlerInv

LEMMA PeerLeavesStep ==
  ASSUME HandlerInv, NEW how \in {"closed", "reset"}, PeerLeaves(how)
  PROVE  HandlerInv'
<1>t. TypeInv /\ TakenInv /\ CountInv /\ BlockInv /\ AnswerInv /\ LogInv /\ CloseInv
  BY DEF HandlerInv
<1>1. /\ peer' = how /\ peer # "reset"
      /\ UNCHANGED <<sent, arrived, pc, buffer, request, keep_going, answer, response, wire, log>>
  BY DEF PeerLeaves
<1>2. TypeInv'
  BY <1>t, <1>1 DEF TypeInv
<1>3. TakenInv' /\ BlockInv' /\ Taken' = Taken
  BY <1>t, <1>1, StillStream DEF Still
<1>4. CountInv'
  BY <1>t, <1>1, <1>3 DEF CountInv, InHand, Ends
<1>5. AnswerInv' /\ CloseInv'
  BY <1>t, <1>1 DEF AnswerInv, KeepAlive, CloseInv
<1>6. LogInv'
  BY <1>t, <1>1 DEF LogInv, Logged, NotSent, Unfinished, Finished, Header
<1> QED
  BY <1>2, <1>3, <1>4, <1>5, <1>6 DEF HandlerInv

\* Nothing but the worker's place changes.
LEMMA MoveStep ==
  ASSUME HandlerInv, SigPipe \/ CloseClient
  PROVE  HandlerInv'
<1>t. TypeInv /\ TakenInv /\ CountInv /\ BlockInv /\ AnswerInv /\ LogInv /\ CloseInv
  BY DEF HandlerInv
<1>1. /\ \/ pc \in {"head", "body"} /\ pc' = "killed"
         \/ pc = "close" /\ pc' = "closed"
      /\ UNCHANGED <<sent, arrived, peer, buffer, request, keep_going, answer, response, wire, log>>
  BY DEF SigPipe, CloseClient, conn
<1>2. TypeInv'
  BY <1>t, <1>1 DEF TypeInv, Points
<1>3. TakenInv' /\ BlockInv'
  BY <1>t, <1>1, StillStream DEF Still
<1>4. CountInv' /\ AnswerInv' /\ CloseInv'
  BY <1>t, <1>1 DEF CountInv, AnswerInv, CloseInv, KeepAlive
<1>5. LogInv'
  BY <1>t, <1>1 DEF LogInv, Logged, NotSent, Unfinished, Finished, Header
<1> QED
  BY <1>2, <1>3, <1>4, <1>5 DEF HandlerInv

\* A response that cannot be sent.
LEMMA GiveUpStep ==
  ASSUME HandlerInv, pc \in {"head", "body"}, GiveUp,
         peer = "reset" \/ (pc = "body" /\ answer.from = "file"),
         UNCHANGED <<sent, arrived, peer, buffer, request, keep_going, answer, wire, log>>
  PROVE  HandlerInv'
<1>t. TypeInv /\ TakenInv /\ CountInv /\ BlockInv /\ AnswerInv /\ LogInv /\ CloseInv
  BY DEF HandlerInv
<1>1. /\ response' = response
      /\ \/ answer.status = 400 /\ pc' = "log" /\ peer = "reset"
         \/ answer.status # 400 /\ pc' = "close"
  BY <1>t DEF GiveUp, AnswerInv
<1>2. TypeInv'
  BY <1>t, <1>1 DEF TypeInv, Points
<1>3. TakenInv' /\ BlockInv'
  BY <1>t, StillStream DEF Still
<1>4. CountInv' /\ AnswerInv'
  BY <1>t, <1>1 DEF CountInv, AnswerInv, KeepAlive
<1>5. LogInv' /\ CloseInv'
  <2>1. response = 0 /\ (Len(wire) = Len(log) + 1 => ~wire[Len(wire)].complete)
    BY <1>t DEF LogInv, Unfinished, Header, TypeInv
  <2>2. LogInv'
    BY <1>t, <1>1, <2>1 DEF LogInv, Logged, NotSent
  <2>3. CloseInv'
    BY <1>t, <1>1 DEF LogInv, CloseInv, Unfinished, Finished, Header
  <2> QED
    BY <2>2, <2>3
<1> QED
  BY <1>2, <1>3, <1>4, <1>5 DEF HandlerInv

\* The response to a request goes out as the next one.
LEMMA SendHeadStep ==
  ASSUME HandlerInv, SendHead
  PROVE  HandlerInv'
<1>t. TypeInv /\ TakenInv /\ CountInv /\ BlockInv /\ AnswerInv /\ LogInv /\ CloseInv
  BY DEF HandlerInv
<1>u. /\ wire \in Seq(Responses) /\ sent \in Seq(Tokens) /\ log \in Seq(Statuses)
      /\ answer \in Answered /\ request \in Blocks \cup {NoBlock} /\ answer.body \in BOOLEAN
  BY <1>t DEF TypeInv, Answered
<1>0. pc = "head" /\ UNCHANGED <<sent, arrived, peer, buffer, request, keep_going, answer, log>>
  BY DEF SendHead, conn
<1>1. CASE peer = "reset" /\ GiveUp /\ UNCHANGED wire
  BY <1>0, <1>1, GiveUpStep
<1>2. CASE wire' = Append(wire, Header(~answer.body))
           /\ IF answer.body THEN pc' = "body" /\ UNCHANGED response ELSE Complete
  <2> DEFINE new == Header(~answer.body)
             n == Len(wire)
  <2>1. /\ new \in Responses /\ new.block = request /\ new.status = answer.status
        /\ new = IF answer.body THEN Unfinished ELSE Finished
    BY <1>u DEF Unfinished, Finished, Header, Responses, Answered
  <2> HIDE DEF new
  <2>2. /\ wire' \in Seq(Responses) /\ Len(wire') = n + 1 /\ n \in Nat
        /\ wire'[n + 1] = new /\ \A k \in 1 .. n : wire'[k] = wire[k]
    <3>1. wire' = Append(wire, new)
      BY <1>2 DEF new
    <3>2. new \in Responses /\ n \in Nat
      BY <1>u, <2>1
    <3> QED
      BY <1>u, <3>1, <3>2, AppendProperties
  <2>3. Len(log) = n /\ response = 0 /\ \A k \in 1 .. n : Logged(k)
    BY <1>t, <1>0 DEF LogInv, NotSent
  <2>4. \/ pc' = "body" /\ response' = 0 /\ new = Unfinished
        \/ pc' = "log" /\ response' = answer.status /\ new = Finished
    BY <1>2, <2>1, <2>3 DEF Complete
  <2>5. TypeInv'
    BY <1>t, <1>0, <2>2, <2>4 DEF TypeInv, Points
  <2>6. Taken' = Taken /\ TakenInv'
    BY <1>t, <1>0 DEF Taken, TakenInv
  <2>7. CountInv'
    <3>1. answer.status # 400 => Ends(sent, Taken) = n + 1
      BY <1>t, <1>0 DEF CountInv, InHand
    <3> QED
      BY <1>0, <2>2, <2>4, <2>6, <3>1 DEF CountInv, Ends
  <2>8. BlockInv'
    <3> SUFFICES ASSUME NEW k \in 1 .. n + 1, wire'[k].block # NoBlock
                 PROVE  \E i \in 1 .. Len(sent) : EndsRequest(k, i) /\ sent[i] = wire'[k].block
      BY <1>0, <2>2 DEF BlockInv, EndsRequest, Ends
    <3>1. CASE k \in 1 .. n
      BY <1>t, <2>2, <3>1 DEF BlockInv
    <3>2. CASE k = n + 1
      <4>1. InHand
        BY <1>t, <1>0, <2>1, <2>2, <3>2 DEF AnswerInv, CountInv
      <4>2. Taken \in 1 .. Len(sent)
        <5>1. arrived \in 0 .. Len(sent) /\ Len(buffer) \in Nat /\ Taken > 0
          BY <1>t, <4>1 DEF TypeInv, InHand
        <5> QED
          BY <5>1, <1>u DEF Taken
      <4>3. EndsRequest(k, Taken) /\ sent[Taken] = wire'[k].block
        BY <1>t, <4>1, <2>1, <2>2, <3>2 DEF EndsRequest, InHand, TakenInv
      <4> QED
        BY <4>2, <4>3
    <3> QED
      BY <2>2, <3>1, <3>2
  <2>9. AnswerInv' /\ CloseInv'
    BY <1>t, <1>0, <2>4 DEF AnswerInv, CloseInv, KeepAlive
  <2>10. LogInv'
    <3>1. \A k \in 1 .. Len(log) : Logged(k)'
      BY <1>0, <2>2, <2>3 DEF Logged
    <3>2. new = Unfinished => wire'[Len(wire')] = Unfinished'
      BY <1>0, <2>2 DEF Unfinished, Finished, Header
    <3>3. new = Finished => wire'[Len(wire')] = Finished'
      BY <1>0, <2>2 DEF Unfinished, Finished, Header
    <3>4. Len(wire') = Len(log') + 1 /\ log' = log /\ pc' \in {"body", "log"} /\ Len(wire') \in Nat
      BY <1>0, <2>2, <2>3, <2>4
    <3>5. \/ pc' = "body" /\ response' = 0 /\ wire'[Len(wire')] = Unfinished'
          \/ pc' = "log" /\ response' = answer'.status /\ wire'[Len(wire')] = Finished'
      BY <1>0, <2>4, <3>2, <3>3
    <3> QED
      BY <3>1, <3>4, <3>5 DEF LogInv, Logged, NotSent, Unfinished, Finished, Header
  <2> QED
    BY <2>5, <2>6, <2>7, <2>8, <2>9, <2>10 DEF HandlerInv
<1> QED
  BY <1>1, <1>2 DEF SendHead

LEMMA FinishedHeader ==
  ASSUME NEW p \in Responses, p = Unfinished, NEW q \in Responses,
         q = [p EXCEPT !.complete = TRUE]
  PROVE  q = Finished /\ q.block = p.block
<1>1. /\ q.block = p.block /\ q.status = p.status /\ q.close = p.close /\ q.complete
      /\ DOMAIN q = DOMAIN p
  BY DEF Responses
<1>2. p.block = request /\ p.status = answer.status /\ p.close = answer.close
  BY DEF Unfinished, Header
<1>3. q = [block |-> q.block, status |-> q.status, close |-> q.close, complete |-> q.complete]
  BY DEF Responses
<1>4. q.complete = TRUE
  BY <1>1 DEF Responses
<1>5. q = Finished
  BY <1>1, <1>2, <1>3, <1>4 DEF Finished, Header
<1> QED
  BY <1>1, <1>5

LEMMA SendBodyStep ==
  ASSUME HandlerInv, SendBody
  PROVE  HandlerInv'
<1>t. TypeInv /\ TakenInv /\ CountInv /\ BlockInv /\ AnswerInv /\ LogInv /\ CloseInv
  BY DEF HandlerInv
<1>0. pc = "body" /\ UNCHANGED <<sent, arrived, peer, buffer, request, keep_going, answer, log>>
  BY DEF SendBody, conn
<1>1. CASE (peer = "reset" \/ answer.from = "file") /\ GiveUp /\ UNCHANGED wire
  BY <1>0, <1>1, GiveUpStep
<1>2. CASE wire' = [wire EXCEPT ![Len(wire)].complete = TRUE] /\ Complete
  <2> DEFINE n == Len(wire)
  <2>1. wire \in Seq(Responses) /\ log \in Seq(Statuses)
    BY <1>t DEF TypeInv
  <2>2. n = Len(log) + 1 /\ wire[n] = Unfinished
    BY <1>t, <1>0 DEF LogInv
  <2>n. n \in Nat /\ n \in 1 .. n /\ Len(log) \in Nat
    BY <2>1, <2>2
  <2>3. /\ wire' \in Seq(Responses) /\ Len(wire') = n
        /\ \A k \in 1 .. n : k # n => wire'[k] = wire[k]
        /\ wire'[n] = [wire[n] EXCEPT !.complete = TRUE]
    <3> DEFINE r == [wire[n] EXCEPT !.complete = TRUE]
    <3>1. wire[n] \in Responses
      BY <2>1, <2>n
    <3>2. r \in Responses
      BY <3>1 DEF Responses
    <3>3. wire' = [wire EXCEPT ![n] = r]
      BY <1>2
    <3> HIDE DEF r
    <3>4. wire' \in Seq(Responses) /\ Len(wire') = n /\ wire'[n] = r
          /\ \A k \in 1 .. n : k # n => wire'[k] = wire[k]
      BY <2>1, <2>n, <3>2, <3>3
    <3> QED
      BY <3>4 DEF r
  <2>4. wire'[n] = Finished /\ wire'[n].block = wire[n].block
    <3>1. wire[n] \in Responses /\ wire'[n] \in Responses
      BY <2>1, <2>n, <2>3
    <3> QED
      BY <2>2, <2>3, <3>1, FinishedHeader
  <2>5. pc' = "log" /\ response' = answer.status
    BY <1>2 DEF Complete
  <2>6. TypeInv'
    BY <1>t, <1>0, <2>3, <2>5 DEF TypeInv, Points
  <2>7. Taken' = Taken /\ TakenInv'
    BY <1>t, <1>0 DEF Taken, TakenInv
  <2>8. CountInv'
    BY <1>t, <1>0, <2>3, <2>5, <2>7 DEF CountInv, Ends
  <2>9. BlockInv'
    <3>1. \A k \in 1 .. n : wire'[k].block = wire[k].block
      BY <2>3, <2>4
    <3>2. Len(wire') = n
      BY <2>3
    <3> SUFFICES ASSUME NEW k \in 1 .. n, wire'[k].block # NoBlock
                 PROVE  \E i \in 1 .. Len(sent) : EndsRequest(k, i) /\ sent[i] = wire'[k].block
      BY <1>0, <3>2 DEF BlockInv, EndsRequest, Ends
    <3> QED
      BY <1>t, <3>1 DEF BlockInv
  <2>10. AnswerInv' /\ CloseInv'
    BY <1>t, <1>0, <2>5 DEF AnswerInv, CloseInv, KeepAlive
  <2>11. LogInv'
    <3>1. \A k \in 1 .. Len(log) : Logged(k) /\ k \in 1 .. n /\ k # n
      BY <1>t, <1>0, <2>2 DEF LogInv, NotSent
    <3>2. \A k \in 1 .. Len(log) : Logged(k)'
      BY <1>0, <2>3, <3>1 DEF Logged
    <3>3. wire'[n] = Finished'
      BY <1>0, <2>4 DEF Unfinished, Finished, Header
    <3>4. Len(wire') = Len(log') + 1 /\ log' = log /\ answer' = answer
      BY <1>0, <2>2, <2>3
    <3>5. pc' = "log" /\ response' = answer'.status /\ wire'[Len(wire')] = Finished'
      BY <2>3, <2>5, <3>3, <3>4
    <3> QED
      BY <3>2, <3>4, <3>5 DEF LogInv, Logged, NotSent, Unfinished, Finished, Header
  <2> QED
    BY <2>6, <2>7, <2>8, <2>9, <2>10, <2>11 DEF HandlerInv
<1> QED
  BY <1>0, <1>1, <1>2 DEF SendBody

LEMMA LogStep ==
  ASSUME HandlerInv, access_log_write
  PROVE  HandlerInv'
<1>t. TypeInv /\ TakenInv /\ CountInv /\ BlockInv /\ AnswerInv /\ LogInv /\ CloseInv
  BY DEF HandlerInv
<1>u. /\ wire \in Seq(Responses) /\ log \in Seq(Statuses) /\ Len(log) \in Nat /\ Len(wire) \in Nat
      /\ response \in Statuses /\ keep_going \in BOOLEAN
  BY <1>t DEF TypeInv, Answered, Statuses
<1>0. /\ pc = "log" /\ pc' = AfterLog /\ log' = Append(log, response)
      /\ UNCHANGED <<sent, arrived, peer, buffer, request, keep_going, answer, response, wire>>
  BY DEF access_log_write, conn
<1>1. \/ pc' = "read" /\ answer.status # 400 /\ keep_going
      \/ pc' = "close" /\ (answer.status = 400 \/ ~keep_going)
  BY <1>0 DEF AfterLog
<1>2. /\ log' \in Seq(Statuses) /\ Len(log') = Len(log) + 1 /\ log'[Len(log) + 1] = response
      /\ \A k \in 1 .. Len(log) : log'[k] = log[k]
  BY <1>u, <1>0, AppendProperties
<1>3. TypeInv'
  BY <1>t, <1>0, <1>1, <1>2 DEF TypeInv, Points
<1>4. TakenInv' /\ BlockInv' /\ Taken' = Taken
  BY <1>t, <1>0, StillStream DEF Still
<1>5. CountInv'
  BY <1>t, <1>0, <1>1, <1>4 DEF CountInv, Ends
<1>6. AnswerInv'
  BY <1>1 DEF AnswerInv
<1>7. /\ \A k \in 1 .. Len(log) : Logged(k)
      /\ Len(wire) <= Len(log) + 1
      /\ \/ /\ response = answer.status
            /\ Len(wire) = Len(log) + 1 /\ wire[Len(wire)] = Finished
         \/ /\ response = 0 /\ answer.status = 400 /\ peer = "reset"
            /\ Len(wire) = Len(log) + 1 => ~wire[Len(wire)].complete
  BY <1>t, <1>0 DEF LogInv, NotSent
<1>8. Finished.complete /\ Finished.status = answer.status /\ Finished.close = answer.close /\ Finished.block = request
  BY DEF Finished, Header
<1>9. LogInv'
  <2>1. \A k \in 1 .. Len(log) : Logged(k)'
    BY <1>0, <1>2, <1>7 DEF Logged
  <2>2. Logged(Len(log))' \/ NotSent(Len(log))'
    <3>1. /\ Len(log') = Len(log) + 1 /\ log'[Len(log')] = response
          /\ wire' = wire /\ answer' = answer
      BY <1>0, <1>2
    <3>2. CASE response = answer.status /\ Len(wire) = Len(log) + 1 /\ wire[Len(wire)] = Finished
      <4>1. /\ Len(log') <= Len(wire') /\ wire'[Len(log')].complete
            /\ log'[Len(log')] = wire'[Len(log')].status
        BY <1>8, <1>u, <3>1, <3>2
      <4> QED
        BY <4>1 DEF Logged
    <3>3. CASE response = 0 /\ answer.status = 400
      <4>1. pc' = "close" /\ Len(wire') <= Len(log')
        BY <1>1, <1>7, <1>u, <3>1, <3>3
      <4> QED
        BY <3>1, <3>3, <4>1 DEF NotSent
    <3> QED
      BY <1>7, <3>2, <3>3
  <2>3. \A k \in 1 .. Len(log') : k \in 1 .. Len(log) \/ k = Len(log')
    BY <1>2, <1>u
  <2>4. \A k \in 1 .. Len(log') : Logged(k)' \/ NotSent(k)'
    BY <2>1, <2>2, <2>3 DEF Logged, NotSent
  <2>5. Len(wire') <= Len(log') /\ (pc' = "read" => Len(wire') = Len(log')) /\ Len(log') \in Nat
    BY <1>0, <1>1, <1>2, <1>7, <1>u
  <2>6. pc' \in {"read", "close"} /\ Len(wire') # Len(log') + 1 /\ Len(wire') <= Len(log') + 1
    BY <1>0, <1>1, <1>u, <2>5
  <2> QED
    BY <2>4, <2>5, <2>6 DEF LogInv
<1>10. CloseInv'
  <2>1. pc' = "close" /\ peer = "open" =>
          /\ Len(wire) = Len(log) + 1 /\ wire[Len(wire)] = Finished
          /\ answer.close /\ (answer.status # 400 => ~KeepAlive(request))
    BY <1>t, <1>0, <1>1, <1>7 DEF AnswerInv
  <2> QED
    BY <1>0, <1>1, <1>8, <1>u, <2>1 DEF CloseInv, KeepAlive
<1> QED
  BY <1>3, <1>4, <1>5, <1>6, <1>9, <1>10 DEF HandlerInv

LEMMA HandlerStep == HandlerInv /\ [Next]_vars => HandlerInv'
<1> SUFFICES ASSUME HandlerInv, [Next]_vars PROVE HandlerInv'
  OBVIOUS
<1>1. CASE UNCHANGED vars
  <2>0. UNCHANGED <<sent, arrived, peer, pc, buffer, request, keep_going, answer, response, wire, log>>
    BY <1>1 DEF vars, conn
  <2>1. TypeInv' /\ TakenInv' /\ BlockInv' /\ Taken' = Taken
    BY <2>0, StillStream DEF Still, HandlerInv, TypeInv
  <2>2. CountInv'
    BY <2>0, <2>1 DEF HandlerInv, CountInv, InHand, Ends
  <2>3. AnswerInv' /\ LogInv' /\ CloseInv'
    BY <2>0 DEF HandlerInv, AnswerInv, LogInv, Logged, NotSent, Unfinished, Finished, Header, CloseInv, KeepAlive
  <2> QED
    BY <2>1, <2>2, <2>3 DEF HandlerInv
<1>2. CASE Next
  <2>1. CASE ReadMalformed \/ ReadTooLong \/ RecvFails
    BY <2>1, BadRequestStep DEF ReadMalformed, ReadTooLong, RecvFails, MayRecv, NoHeaderYet
  <2> QED
    BY <1>2, <2>1, ReadParsedStep, RecvEofStep, RecvSomeStep, ChooseStep, SendHeadStep, SendBodyStep,
       MoveStep, LogStep, PeerSendsStep, PeerLeavesStep DEF Next, Handle
<1> QED
  BY <1>1, <1>2

LEMMA HandlerCorrect == Spec => []HandlerInv
  BY HandlerInit, HandlerStep, PTL DEF Spec
-----------------------------------------------------------------------------
(* However the peer splits, joins and pipelines its requests and whenever   *)
(* it leaves, the buffer of read_next_request never holds more than it can. *)
THEOREM HandlerTypeCorrect == Spec => []TypeOK
<1>1. HandlerInv => TypeOK
  <2> SUFFICES ASSUME HandlerInv PROVE TypeOK
    OBVIOUS
  <2>1. answer.status \in {0, 200, 206, 400, 403, 404, 416, 500, 501}
    BY DEF HandlerInv, TypeInv, Answered, Statuses
  <2>2. \A k \in 1 .. Len(wire) : wire[k].block \in Blocks \cup {NoBlock}
    <3>1. wire \in Seq(Responses)
      BY DEF HandlerInv, TypeInv
    <3>2. \A k \in 1 .. Len(wire) : wire[k] \in Responses
      BY <3>1
    <3> QED
      BY <3>2 DEF Responses
  <2> QED
    BY <2>1, <2>2 DEF HandlerInv, TypeInv, TypeOK, Tokens
<1> QED
  BY <1>1, HandlerCorrect, PTL

\* Between two requests the worker stands behind the last one it answered.
LEMMA StandsBehind ==
  ASSUME TypeInv, TakenInv, CountInv
  PROVE  /\ Taken \in 0 .. Len(sent) /\ Taken + Len(buffer) = arrived
         /\ pc = "read" => IF wire = <<>> THEN Taken = 0
                           ELSE Taken > 0 /\ EndsRequest(Len(wire), Taken)
<1>u. /\ buffer \in Seq(Tokens) /\ sent \in Seq(Tokens) /\ arrived \in 0 .. Len(sent)
      /\ wire \in Seq(Responses) /\ Len(buffer) \in Nat /\ Len(sent) \in Nat
  BY DEF TypeInv
<1>1. Taken \in 0 .. Len(sent) /\ Taken + Len(buffer) = arrived
  <2>1. Taken >= 0
    BY DEF TakenInv
  <2> QED
    BY <1>u, <2>1 DEF Taken
<1>2. ASSUME pc = "read"
      PROVE  IF wire = <<>> THEN Taken = 0 ELSE Taken > 0 /\ EndsRequest(Len(wire), Taken)
  <2>1. Ends(sent, Taken) = Len(wire)
    BY <1>2 DEF CountInv
  <2>2. Taken > 0 => sent[Taken].end
    BY DEF TakenInv
  <2>3. Taken = 0 => Ends(sent, Taken) = 0
    BY <1>1, EndsCounted
  <2>4. wire = <<>> <=> Len(wire) = 0
    BY <1>u
  <2>5. Taken > 0 => Ends(sent, Taken) > 0
    <3> SUFFICES ASSUME Taken > 0 PROVE Ends(sent, Taken) > 0
      OBVIOUS
    <3> DEFINE S == {i \in 1 .. Taken : sent[i].end}
    <3>0. Taken \in Int /\ Taken \in 1 .. Taken
      BY <1>1
    <3>1. Taken \in S
      BY <2>2, <3>0
    <3>2. IsFiniteSet(S)
      <4>1. IsFiniteSet(1 .. Taken) /\ S \subseteq 1 .. Taken
        BY <3>0, FS_Interval
      <4> HIDE DEF S
      <4> QED
        BY <4>1, FS_Subset
    <3>3. Ends(sent, Taken) = Cardinality(S)
      BY DEF Ends
    <3> HIDE DEF S
    <3>4. Cardinality(S) # 0 /\ Cardinality(S) \in Nat
      BY <3>1, <3>2, FS_EmptySet, FS_CardinalityType
    <3> QED
      BY <3>3, <3>4
  <2> QED
    BY <1>1, <2>1, <2>2, <2>3, <2>4, <2>5 DEF EndsRequest
<1> QED
  BY <1>1, <1>2

(* The k-th response is for the k-th request, and the worker goes on to     *)
(* read exactly the bytes behind it, for any size of the buffer and any     *)
(* stream of requests.                                                      *)
THEOREM StreamServed == Spec => []StreamIsServed
<1>1. HandlerInv => StreamIsServed
  <2> SUFFICES ASSUME HandlerInv PROVE StreamIsServed
    OBVIOUS
  <2>t. TypeInv /\ TakenInv /\ CountInv /\ BlockInv
    BY DEF HandlerInv
  <2>u. /\ buffer \in Seq(Tokens) /\ sent \in Seq(Tokens) /\ arrived \in 0 .. Len(sent)
        /\ wire \in Seq(Responses) /\ Len(buffer) \in Nat /\ Len(sent) \in Nat
    BY <2>t DEF TypeInv
  <2>1. Taken \in 0 .. Len(sent) /\ Taken + Len(buffer) = arrived
    BY <2>t, StandsBehind
  <2>2. ASSUME pc = "read"
        PROVE  IF wire = <<>> THEN Taken = 0 ELSE Taken > 0 /\ EndsRequest(Len(wire), Taken)
    BY <2>t, <2>2, StandsBehind
  <2>3. buffer \o InFlight = SubSeq(sent, Taken + 1, Len(sent))
    <3>1. buffer = SubSeq(sent, Taken + 1, arrived)
      <4> DEFINE b == SubSeq(sent, Taken + 1, arrived)
      <4>1. \A i \in Taken + 1 .. arrived : sent[i] \in Tokens
        BY <2>u, <2>1
      <4>2. /\ b \in Seq(Tokens)
            /\ Len(b) = IF Taken + 1 <= arrived THEN arrived - (Taken + 1) + 1 ELSE 0
            /\ \A i \in 1 .. arrived - (Taken + 1) + 1 : b[i] = sent[Taken + 1 + i - 1]
        BY <2>u, <2>1, <4>1, SubSeqProperties
      <4> HIDE DEF b
      <4>3. Len(b) = Len(buffer)
        BY <2>u, <2>1, <4>2
      <4>4. \A i \in 1 .. Len(buffer) :
              i \in 1 .. arrived - (Taken + 1) + 1 /\ Taken + 1 + i - 1 = Taken + i
        BY <2>u, <2>1
      <4>5. \A i \in 1 .. Len(buffer) : b[i] = buffer[i]
        BY <2>t, <4>2, <4>4 DEF TakenInv
      <4>6. buffer \in Seq(Tokens) /\ b \in Seq(Tokens)
        BY <2>u, <4>2
      <4>7. b = buffer
        BY <4>3, <4>5, <4>6, SeqEqual
      <4> QED
        BY <4>7 DEF b
    <3>2. Taken + 1 \in 1 .. Len(sent) + 1 /\ arrived \in (Taken + 1) - 1 .. Len(sent)
          /\ Len(sent) \in arrived .. Len(sent)
      BY <2>u, <2>1
    <3> QED
      BY <2>u, <3>1, <3>2, ConcatAdjacentSubSeq DEF InFlight
  <2> QED
    BY <2>t, <2>1, <2>2, <2>3 DEF StreamIsServed, BlockInv
<1> QED
  BY <1>1, HandlerCorrect, PTL

(* Nothing follows a response that was cut short.                           *)
THEOREM CutShortLast == Spec => []CutShortIsLast
<1>1. HandlerInv => CutShortIsLast
  <2> SUFFICES ASSUME HandlerInv, NEW k \in 1 .. Len(wire) - 1
               PROVE  wire[k].complete
    BY DEF CutShortIsLast
  <2>1. Len(wire) \in Nat /\ Len(log) \in Nat /\ Len(wire) <= Len(log) + 1
    BY DEF HandlerInv, TypeInv, LogInv
  <2>2. k \in 1 .. Len(log) /\ k < Len(wire)
    BY <2>1
  <2>3. Logged(k) \/ NotSent(k)
    BY <2>2 DEF HandlerInv, LogInv
  <2> QED
    BY <2>1, <2>2, <2>3 DEF Logged, NotSent
<1> QED
  BY <1>1, HandlerCorrect, PTL

(* The access log has one entry for every response sent in full, in order   *)
(* and with its status, none that makes a success of one that was cut       *)
(* short, and none without a response but a last 400 that was not sent.     *)
THEOREM LogTrue == Spec => []LogIsTrue
<1>1. HandlerInv => LogIsTrue
  <2> SUFFICES ASSUME HandlerInv PROVE LogIsTrue
    OBVIOUS
  <2>1. Len(wire) \in Nat /\ Len(log) \in Nat /\ LogInv
    BY DEF HandlerInv, TypeInv
  <2>2. \A k \in 1 .. Len(log) :
          \/ /\ k <= Len(wire)
             /\ IF wire[k].complete THEN log[k] = wire[k].status ELSE log[k] \notin {200, 206}
          \/ k = Len(log) /\ log[k] = 0 /\ answer.status = 400 /\ pc # "read"
    BY <2>1 DEF LogInv, Logged, NotSent
  <2>3. ASSUME pc \in {"read", "close", "closed"}, NEW k \in 1 .. Len(wire), wire[k].complete
        PROVE  k <= Len(log)
    <3>1. Len(wire) <= Len(log) + 1 /\ (Len(wire) = Len(log) + 1 => k # Len(wire))
      BY <2>1, <2>3 DEF LogInv
    <3> QED
      BY <2>1, <3>1
  <2> QED
    BY <2>2, <2>3 DEF LogIsTrue
<1> QED
  BY <1>1, HandlerCorrect, PTL

(* A connection whose peer is still there is closed for a reason the peer   *)
(* was told: after a response that was cut short, a 400, or a request that  *)
(* does not keep the connection alive.                                      *)
THEOREM ClosesWithReason == Spec => []CloseHasReason
<1>1. HandlerInv => CloseHasReason
  <2> SUFFICES ASSUME HandlerInv, pc = "closed", peer = "open"
               PROVE  /\ wire # <<>>
                      /\ LET w == Last(wire)
                         IN w.complete => w.close /\ (w.status = 400 \/ ~KeepAlive(w.block))
    BY DEF CloseHasReason
  <2>1. Len(wire) > 0 /\ CloseInv
    BY DEF HandlerInv, CloseInv
  <2>2. wire # <<>>
    BY <2>1
  <2> QED
    BY <2>1, <2>2 DEF CloseInv, Last
<1> QED
  BY <1>1, HandlerCorrect, PTL
-----------------------------------------------------------------------------
\* BadRequestIsDue, already when the 400 has been chosen.
RefusalInv ==
  /\ BadRequestIsDue
  /\ pc = "head" /\ answer.status = 400 => RefusalIsDue(Len(wire) + 1)

\* What the peer has sent stays as it is, and a peer that has left stays away.
Goes ==
  /\ Len(sent) \in Nat /\ Len(sent') \in Nat /\ Len(sent) <= Len(sent')
  /\ \A i \in 1 .. Len(sent) : sent'[i] = sent[i]
  /\ peer # "open" => peer' # "open"

LEMMA PeerGoes == ASSUME TypeInv, [Next]_vars PROVE Goes
<1>u. sent \in Seq(Tokens) /\ Len(sent) \in Nat
  BY DEF TypeInv
<1>1. CASE UNCHANGED <<sent, peer>>
  BY <1>1, <1>u DEF Goes
<1>2. CASE UNCHANGED vars
  BY <1>1, <1>2 DEF vars, conn
<1>3. CASE \E t \in Tokens : PeerSends(t)
  <2>1. PICK t \in Tokens : sent' = Append(sent, t) /\ peer' = peer
    BY <1>3 DEF PeerSends
  <2>2. Len(sent') = Len(sent) + 1 /\ \A i \in 1 .. Len(sent) : sent'[i] = sent[i]
    BY <1>u, <2>1, AppendProperties
  <2> QED
    BY <1>u, <2>1, <2>2 DEF Goes
<1>4. CASE \E how \in {"closed", "reset"} : PeerLeaves(how)
  BY <1>4, <1>u DEF PeerLeaves, Goes
<1>5. CASE Handle
  <2>1. UNCHANGED <<sent, peer>>
    BY <1>5 DEF Handle, ReadParsed, ReadMalformed, ReadTooLong, RecvSome, RecvEof, RecvFails, BadRequest,
       NotImplemented, FileError, SendError, send_directory_response, send_file_response, Answers,
       SendHead, SendBody, SigPipe, access_log_write, CloseClient, conn
  <2> QED
    BY <1>1, <2>1
<1> QED
  BY <1>2, <1>3, <1>4, <1>5 DEF Next, Tokens

\* A refusal that is due stays due.
LEMMA RefusalStays ==
  ASSUME Goes, NEW k \in Nat, RefusalIsDue(k)
  PROVE  RefusalIsDue(k)'
<1>g. /\ Len(sent) \in Nat /\ Len(sent') \in Nat /\ Len(sent) <= Len(sent')
      /\ \A i \in 1 .. Len(sent) : sent'[i] = sent[i]
      /\ peer # "open" => peer' # "open"
  BY DEF Goes
<1>1. CASE peer # "open"
  BY <1>1, <1>g DEF RefusalIsDue
<1>2. CASE \E i \in 0 .. Len(sent) :
             (IF k = 1 THEN i = 0 ELSE i > 0 /\ EndsRequest(k - 1, i)) /\ IsUnreadable(i)
  <2>1. PICK i \in 0 .. Len(sent) :
          (IF k = 1 THEN i = 0 ELSE i > 0 /\ EndsRequest(k - 1, i)) /\ IsUnreadable(i)
    BY <1>2
  <2>2. i \in 0 .. Len(sent') /\ i \in Nat
    BY <1>g, <2>1
  <2>3. i > 0 /\ EndsRequest(k - 1, i) => EndsRequest(k - 1, i)'
    <3> SUFFICES ASSUME i > 0, EndsRequest(k - 1, i) PROVE EndsRequest(k - 1, i)'
      OBVIOUS
    <3>1. \A j \in 1 .. i : sent'[j] = sent[j]
      BY <1>g, <2>1
    <3>2. Ends(sent', i) = Ends(sent, i)
      BY <2>2, <3>1, EndsSame
    <3>3. sent'[i] = sent[i]
      BY <2>2, <3>1
    <3>4. sent'[i].end /\ Ends(sent', i) = k - 1
      BY <3>2, <3>3 DEF EndsRequest
    <3> QED
      BY <3>4 DEF EndsRequest
  <2>4. IsUnreadable(i)'
    <3>1. ASSUME NEW j \in i + 1 .. Len(sent), sent[j].end, ~ParseOk(sent[j]),
                 \A m \in i + 1 .. j - 1 : ~sent[m].end
          PROVE  /\ j \in i + 1 .. Len(sent') /\ sent'[j].end /\ ~ParseOk(sent'[j])
                 /\ \A m \in i + 1 .. j - 1 : ~sent'[m].end
      <4>1. j \in 1 .. Len(sent) /\ \A m \in i + 1 .. j - 1 : m \in 1 .. Len(sent)
        BY <1>g, <2>2
      <4>2. sent'[j] = sent[j] /\ \A m \in i + 1 .. j - 1 : sent'[m] = sent[m]
        BY <1>g, <4>1
      <4>3. ~ParseOk(sent'[j])
        BY <3>1, <4>2
      <4> QED
        BY <1>g, <2>2, <3>1, <4>2, <4>3
    <3>2. ASSUME i + BufferSize <= Len(sent), \A j \in i + 1 .. i + BufferSize : ~sent[j].end
          PROVE  i + BufferSize <= Len(sent') /\ \A j \in i + 1 .. i + BufferSize : ~sent'[j].end
      BY <1>g, <2>2, <3>2, HandlerAssumption
    <3> QED
      BY <2>1, <3>1, <3>2 DEF IsUnreadable, ParseOk
  <2> QED
    BY <2>1, <2>2, <2>3, <2>4 DEF RefusalIsDue
<1> QED
  BY <1>1, <1>2 DEF RefusalIsDue

\* What read_next_request refuses, it refuses with reason.
LEMMA RefusedIsDue ==
  ASSUME HandlerInv, ReadMalformed \/ ReadTooLong \/ RecvEof \/ RecvFails
  PROVE  RefusalIsDue(Len(wire) + 1)
<1>t. TypeInv /\ TakenInv /\ CountInv
  BY DEF HandlerInv
<1>u. /\ buffer \in Seq(Tokens) /\ sent \in Seq(Tokens) /\ arrived \in 0 .. Len(sent)
      /\ wire \in Seq(Responses) /\ Len(wire) \in Nat /\ Len(buffer) \in Nat /\ Len(sent) \in Nat
      /\ BufferSize \in Nat \ {0}
  BY <1>t, HandlerAssumption DEF TypeInv
<1>0. pc = "read"
  BY DEF ReadMalformed, ReadTooLong, RecvEof, RecvFails, MayRecv, NoHeaderYet
<1>1. Taken \in 0 .. Len(sent) /\ Taken + Len(buffer) = arrived
  BY <1>t, StandsBehind
<1>2. IF Len(wire) + 1 = 1 THEN Taken = 0 ELSE Taken > 0 /\ EndsRequest((Len(wire) + 1) - 1, Taken)
  <2>1. wire = <<>> <=> Len(wire) + 1 = 1
    BY <1>u
  <2>2. (Len(wire) + 1) - 1 = Len(wire)
    BY <1>u
  <2> QED
    BY <1>t, <1>0, <2>1, <2>2, StandsBehind
<1>3. \A j \in 1 .. Len(buffer) : buffer[j] = sent[Taken + j]
  BY <1>t DEF TakenInv
<1>4. CASE RecvEof \/ RecvFails
  BY <1>4 DEF RecvEof, RecvFails, RefusalIsDue
<1>5. CASE ReadMalformed
  <2> DEFINE f == find_header_end
  <2> HIDE DEF f
  <2>1. /\ f \in 1 .. Len(buffer) /\ buffer[f].end /\ \A j \in 1 .. f - 1 : ~buffer[j].end
        /\ ~ParseOk(buffer[f])
    BY <1>u, <1>5, HeaderEnd DEF ReadMalformed, f
  <2>2. Taken + f \in Taken + 1 .. Len(sent) /\ sent[Taken + f].end /\ ~ParseOk(sent[Taken + f])
    <3>1. Taken + f \in Taken + 1 .. Len(sent)
      BY <1>u, <1>1, <2>1
    <3>2. buffer[f] = sent[Taken + f]
      BY <1>3, <2>1
    <3> QED
      BY <2>1, <3>1, <3>2
  <2>3. ASSUME NEW m \in Taken + 1 .. (Taken + f) - 1 PROVE ~sent[m].end
    <3>1. m - Taken \in 1 .. f - 1 /\ m - Taken \in 1 .. Len(buffer) /\ Taken + (m - Taken) = m
      BY <1>u, <1>1, <2>1
    <3> QED
      BY <1>3, <2>1, <3>1
  <2>4. IsUnreadable(Taken)
    BY <2>2, <2>3 DEF IsUnreadable
  <2> QED
    BY <1>1, <1>2, <2>4 DEF RefusalIsDue
<1>6. CASE ReadTooLong
  <2>1. Len(buffer) = BufferSize /\ \A j \in 1 .. Len(buffer) : ~buffer[j].end
    BY <1>u, <1>6, HeaderEnd DEF ReadTooLong, NoHeaderYet
  <2>2. Taken + BufferSize <= Len(sent)
    BY <1>u, <1>1, <2>1
  <2>3. ASSUME NEW m \in Taken + 1 .. Taken + BufferSize PROVE ~sent[m].end
    <3>1. m - Taken \in 1 .. Len(buffer) /\ Taken + (m - Taken) = m
      BY <1>u, <1>1, <2>1
    <3> QED
      BY <1>3, <2>1, <3>1
  <2>4. IsUnreadable(Taken)
    BY <2>2, <2>3 DEF IsUnreadable
  <2> QED
    BY <1>1, <1>2, <2>4 DEF RefusalIsDue
<1> QED
  BY <1>4, <1>5, <1>6

\* A step puts at most one response on the wire, with the status chosen.
LEMMA WireGoes ==
  ASSUME TypeInv, [Next]_vars
  PROVE  /\ \A k \in 1 .. Len(wire') :
              \/ k \in 1 .. Len(wire) /\ wire'[k].status = wire[k].status
              \/ pc = "head" /\ k = Len(wire) + 1 /\ wire'[k].status = answer.status
         /\ pc' = "head" /\ answer'.status = 400 =>
              /\ wire' = wire
              /\ \/ pc = "head" /\ answer.status = 400
                 \/ ReadMalformed \/ ReadTooLong \/ RecvEof \/ RecvFails
<1>u. wire \in Seq(Responses) /\ Len(wire) \in Nat /\ pc \in Points
  BY DEF TypeInv
<1>1. CASE SendHead
  <2>1. pc = "head" /\ pc' # "head"
    BY <1>1 DEF SendHead, Complete, GiveUp
  <2>2. CASE UNCHANGED wire
    BY <2>1, <2>2
  <2>3. CASE wire' = Append(wire, Header(~answer.body))
    <3>1. /\ Len(wire') = Len(wire) + 1 /\ wire'[Len(wire) + 1] = Header(~answer.body)
          /\ \A k \in 1 .. Len(wire) : wire'[k] = wire[k]
      BY <1>u, <2>3
    <3>2. Header(~answer.body).status = answer.status
      BY DEF Header
    <3> QED
      BY <1>u, <2>1, <3>1, <3>2
  <2> QED
    BY <1>1, <2>2, <2>3 DEF SendHead
<1>2. CASE SendBody
  <2>1. pc' # "head"
    BY <1>2 DEF SendBody, Complete, GiveUp
  <2>2. CASE UNCHANGED wire
    BY <2>1, <2>2
  <2>3. CASE wire' = [wire EXCEPT ![Len(wire)].complete = TRUE]
    <3> DEFINE n == Len(wire)
               r == [wire[n] EXCEPT !.complete = TRUE]
    <3>1. wire' = [wire EXCEPT ![n] = r]
      BY <2>3
    <3>2. ASSUME n \in 1 .. n PROVE r.status = wire[n].status
      <4>1. wire[n] \in Responses
        BY <1>u, <3>2
      <4> QED
        BY <4>1 DEF Responses
    <3> HIDE DEF r
    <3>3. Len(wire') = n /\ \A k \in 1 .. n : wire'[k] = IF k = n THEN r ELSE wire[k]
      BY <1>u, <3>1
    <3> QED
      BY <1>u, <2>1, <3>2, <3>3
  <2> QED
    BY <1>2, <2>2, <2>3 DEF SendBody
<1>3. CASE ReadMalformed \/ ReadTooLong \/ RecvEof \/ RecvFails
  <2>1. UNCHANGED wire
    BY <1>3 DEF ReadMalformed, ReadTooLong, RecvEof, RecvFails, BadRequest
  <2> QED
    BY <1>3, <2>1
<1>4. CASE NotImplemented \/ FileError \/ SendError \/ send_directory_response \/ send_file_response
  <2>1. UNCHANGED wire /\ answer'.status # 400
    BY <1>4 DEF NotImplemented, FileError, SendError, send_directory_response, send_file_response,
       status_from_file_result, Answers
  <2> QED
    BY <2>1
<1>5. CASE ReadParsed \/ RecvSome \/ SigPipe \/ access_log_write \/ CloseClient
  <2>1. UNCHANGED wire /\ pc' # "head"
    BY <1>5 DEF ReadParsed, RecvSome, MayRecv, NoHeaderYet, SigPipe, access_log_write, AfterLog, CloseClient
  <2> QED
    BY <2>1
<1>6. CASE \/ UNCHANGED vars
           \/ \E t \in Blocks \cup {Part} : PeerSends(t)
           \/ \E how \in {"closed", "reset"} : PeerLeaves(how)
  <2>1. UNCHANGED <<wire, pc, answer>>
    BY <1>6 DEF vars, PeerSends, PeerLeaves
  <2> QED
    BY <2>1
<1> QED
  BY <1>1, <1>2, <1>3, <1>4, <1>5, <1>6 DEF Next, Handle

LEMMA RefusalStep == HandlerInv /\ RefusalInv /\ [Next]_vars => RefusalInv'
<1> SUFFICES ASSUME HandlerInv, RefusalInv, [Next]_vars PROVE RefusalInv'
  OBVIOUS
<1>t. TypeInv /\ Len(wire) \in Nat
  BY DEF HandlerInv, TypeInv
<1>g. Goes
  BY <1>t, PeerGoes
<1>d. \A k \in Nat : RefusalIsDue(k) => RefusalIsDue(k)'
  BY <1>g, RefusalStays
<1>1. BadRequestIsDue'
  <2> SUFFICES ASSUME NEW k \in 1 .. Len(wire'), wire'[k].status = 400
               PROVE  RefusalIsDue(k)'
    BY DEF BadRequestIsDue
  <2>1. \/ k \in 1 .. Len(wire) /\ wire[k].status = 400
        \/ pc = "head" /\ k = Len(wire) + 1 /\ answer.status = 400
    BY <1>t, WireGoes
  <2>2. k \in Nat /\ RefusalIsDue(k)
    BY <1>t, <2>1 DEF RefusalInv, BadRequestIsDue
  <2> QED
    BY <1>d, <2>2
<1>2. ASSUME pc' = "head", answer'.status = 400
      PROVE  RefusalIsDue(Len(wire) + 1)' /\ wire' = wire
  <2>1. /\ wire' = wire
        /\ \/ pc = "head" /\ answer.status = 400
           \/ ReadMalformed \/ ReadTooLong \/ RecvEof \/ RecvFails
    BY <1>t, <1>2, WireGoes
  <2>2. RefusalIsDue(Len(wire) + 1)
    BY <2>1, RefusedIsDue DEF RefusalInv
  <2> DEFINE n == Len(wire) + 1
  <2>3. n \in Nat /\ n' = n
    BY <1>t, <2>1
  <2>4. RefusalIsDue(n)
    BY <2>2
  <2> HIDE DEF n
  <2>5. PICK m \in Nat : m = n
    BY <2>3
  <2>6. RefusalIsDue(m)'
    BY <1>d, <2>4, <2>5
  <2>7. RefusalIsDue(n)'
    BY <2>3, <2>5, <2>6 DEF RefusalIsDue, EndsRequest
  <2> QED
    BY <2>1, <2>7 DEF n
<1> QED
  BY <1>1, <1>2 DEF RefusalInv

(* However the requests arrive, a 400 answers only one that is malformed,   *)
(* does not end within the buffer of read_next_request, or whose peer left. *)
THEOREM BadRequestDue == Spec => []BadRequestIsDue
<1>1. Init => RefusalInv
  BY DEF Init, RefusalInv, BadRequestIsDue
<1>2. RefusalInv => BadRequestIsDue
  BY DEF RefusalInv
<1> QED
  BY <1>1, <1>2, RefusalStep, HandlerCorrect, PTL DEF Spec
=============================================================================
