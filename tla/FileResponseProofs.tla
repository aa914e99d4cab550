------------------------ MODULE FileResponseProofs ------------------------
(***************************************************************************)
(* Proofs about FileResponse for any SIZE_MAX, any size of the chunks and  *)
(* of the file, and any Range headers: the digit loop of parse_size_token  *)
(* computes the decimal value and stops exactly where size_t ends; the     *)
(* body never breaks the promise of the header; the caller is told the     *)
(* truth; one Range header is answered with the bytes it asks for.         *)
(***************************************************************************)
EXTENDS FileResponse, SequenceTheorems, WellFoundedInduction, TLAPS

RequestFields ==
  [method : {"GET", "HEAD"}, has_range : BOOLEAN, range_is_suffix : BOOLEAN,
   range_end_provided : BOOLEAN, range_start : 0 .. SizeMax, range_end : 0 .. SizeMax]
Ranges ==
  [start : 0 .. MaxFile, end : 0 .. MaxFile, length : 0 .. MaxFile, partial : BOOLEAN]

TypeInv == TypeOK /\ headers \in Seq(RangeValues)

\* What is on the wire and what the caller was told, at each point of
\* send_file_response.
Before == head = None /\ body = <<>> /\ result = None
NoFile == head \in {[status |-> 416], [status |-> 500]} /\ body = <<>>

Promise ==
  /\ head.status = IF range.partial THEN 206 ELSE 200
  /\ head.length = range.length /\ head.start = range.start /\ head.end = range.end
  /\ range.partial => range.length = range.end - range.start + 1
  /\ ~range.partial => range.length = size
  /\ range.start + range.length <= size
  /\ Len(body) <= range.length
  /\ body = Bytes(range.start, Len(body))

InBody == pos = range.start + Len(body) /\ remaining = range.length - Len(body)
Told ==
  /\ result.status = head.status
  /\ result.bytes = Len(body)
  /\ request.method = "GET" => Len(body) = range.length

WireInv ==
  /\ pc \in {"parse", "open"} => Before
  /\ pc = "body" => Promise /\ InBody /\ result = None /\ request.method = "GET"
  /\ pc = "sent" => Promise /\ body = <<>> /\ result = None /\ request.method = "HEAD"
  /\ pc = "failed" => result = None /\ (head = None \/ Promise)
  /\ pc = "done" => \/ NoFile /\ result.status = head.status
                    \/ Promise /\ Told

\* What a single Range header makes of the request, and the request of the
\* answer.
Fresh == \E m \in {"GET", "HEAD"} : request = [NoRequest EXCEPT !.method = m]
Parsed ==
  \E m \in {"GET", "HEAD"} : request = ParseRange([NoRequest EXCEPT !.method = m], headers[1])
AnswerInv ==
  /\ pc # "parse" => next > Len(headers)
  /\ next = 1 => Fresh
  /\ Len(headers) = 1 /\ next # 1 => Parsed
  /\ head = None \/ head.status \in {200, 206, 416, 500}
  /\ head.status = 416 => Unsatisfiable(request, size)
  /\ FileHead => ~Unsatisfiable(request, size) /\ range = Resolved(request, size)

ResponseInv == TypeInv /\ WireInv /\ AnswerInv
-----------------------------------------------------------------------------
(* The digit loop of parse_size_token                                      *)

LEMMA NatSet ==
  ASSUME NEW S \in SUBSET Nat, 0 \in S, \A n \in Nat : n \in S => n + 1 \in S
  PROVE  S = Nat
<1> DEFINE T == Nat \ S
<1>1. SUFFICES ASSUME T # {} PROVE FALSE
  OBVIOUS
<1>2. PICK x \in T : \A y \in T : ~(<<y, x>> \in OpToRel(<, Nat))
  BY <1>1, NatLessThanWellFounded, WFMin
<1>3. x # 0 /\ x - 1 \in Nat /\ x - 1 + 1 = x
  OBVIOUS
<1>4. x - 1 \in T
  BY <1>3
<1>5. <<x - 1, x>> \in OpToRel(<, Nat)
  BY <1>3 DEF OpToRel
<1> QED
  BY <1>2, <1>4, <1>5

Digits == Seq(0 .. NonDigit)

LEMMA TokenTypes ==
  /\ Tokens \subseteq Digits
  /\ Requests \subseteq Seq(RangeValues)
  /\ \A v \in RangeValues : v.first \in Digits /\ v.last \in Digits
<1>1. ASSUME NEW t \in Tokens PROVE t \in Digits
  <2>1. PICK n \in 0 .. MaxToken : t \in [1 .. n -> Chars]
    BY DEF Tokens
  <2>2. n \in Nat /\ Chars \subseteq 0 .. NonDigit
    BY ResponseAssumption
  <2>3. t \in [1 .. n -> 0 .. NonDigit]
    BY <2>1, <2>2
  <2> QED
    BY <2>2, <2>3, SeqDef DEF Digits
<1>2. ASSUME NEW h \in Requests
      PROVE  h \in UNION {[1 .. n -> RangeValues] : n \in 0 .. MaxHeaders}
  BY DEF Requests
<1>3. Requests \subseteq Seq(RangeValues)
  BY <1>2
<1>4. <<NonDigit>> \in Digits
  BY DEF Digits, NonDigit
<1>5. \A v \in RangeValues : v.first \in Digits /\ v.last \in Digits
  BY <1>1, <1>4 DEF RangeValues, Other
<1> QED
  BY <1>1, <1>3, <1>5

\* v holds the values of the first 0 .. n digits.
Values(token, v, n) == v = [k \in 0 .. n |-> IF k = 0 THEN 0 ELSE 10 * v[k - 1] + token[k]]

LEMMA ValuesExist ==
  ASSUME NEW token \in Digits
  PROVE  \E v \in [0 .. Len(token) -> Nat] : Values(token, v, Len(token))
<1> DEFINE S == {n \in Nat : n <= Len(token) => \E v \in [0 .. n -> Nat] : Values(token, v, n)}
<1>l. Len(token) \in Nat
  BY DEF Digits
<1>1. 0 \in S
  <2> DEFINE v == [k \in 0 .. 0 |-> 0]
  <2>1. v \in [0 .. 0 -> Nat]
    OBVIOUS
  <2>2. \A k \in 0 .. 0 : k = 0
    OBVIOUS
  <2>3. Values(token, v, 0)
    BY <2>2 DEF Values
  <2> QED
    BY <2>1, <2>3
<1>2. ASSUME NEW n \in Nat, n \in S PROVE n + 1 \in S
  <2> SUFFICES ASSUME n + 1 <= Len(token)
               PROVE  \E w \in [0 .. n + 1 -> Nat] : Values(token, w, n + 1)
    OBVIOUS
  <2>1. PICK v \in [0 .. n -> Nat] : Values(token, v, n)
    BY <1>2, <1>l
  <2>2. /\ v[0] = 0
        /\ \A k \in 1 .. n : v[k] = 10 * v[k - 1] + token[k]
    <3>1. \A k \in 0 .. n : v[k] = IF k = 0 THEN 0 ELSE 10 * v[k - 1] + token[k]
      BY <2>1 DEF Values
    <3> QED
      BY <3>1
  <2> DEFINE w == [k \in 0 .. n + 1 |-> IF k <= n THEN v[k] ELSE 10 * v[n] + token[n + 1]]
  <2>3. n + 1 \in 1 .. Len(token) /\ token[n + 1] \in Nat
    <3>1. n + 1 \in 1 .. Len(token)
      BY <1>l
    <3>2. token[n + 1] \in 0 .. NonDigit
      BY <3>1, ElementOfSeq DEF Digits
    <3> QED
      BY <3>1, <3>2 DEF NonDigit
  <2>4. w \in [0 .. n + 1 -> Nat]
    BY <2>3
  <2>5. \A k \in 0 .. n + 1 : w[k] = IF k = 0 THEN 0 ELSE 10 * w[k - 1] + token[k]
    <3> SUFFICES ASSUME NEW k \in 0 .. n + 1
                 PROVE  w[k] = IF k = 0 THEN 0 ELSE 10 * w[k - 1] + token[k]
      OBVIOUS
    <3>1. CASE k = 0
      BY <2>2, <3>1
    <3>2. CASE k \in 1 .. n
      BY <2>2, <3>2
    <3>3. CASE k = n + 1
      BY <3>3
    <3> QED
      BY <3>1, <3>2, <3>3
  <2> HIDE DEF w
  <2>6. Values(token, w, n + 1)
    BY <2>4, <2>5 DEF Values
  <2> QED
    BY <2>4, <2>6
<1> HIDE DEF S
<1>3. S = Nat
  <2>1. S \subseteq Nat
    BY DEF S
  <2> QED
    BY <1>1, <1>2, <2>1, NatSet
<1> QED
  BY <1>3, <1>l DEF S

LEMMA ValuesAre ==
  ASSUME NEW token \in Digits, NEW v, Values(token, v, Len(token))
  PROVE  /\ v = [k \in 0 .. Len(token) |-> v[k]]
         /\ v[0] = 0 /\ \A k \in 1 .. Len(token) : v[k] = 10 * v[k - 1] + token[k]
<1>l. Len(token) \in Nat
  BY DEF Digits
<1>1. /\ v = [k \in 0 .. Len(token) |-> v[k]]
      /\ \A k \in 0 .. Len(token) : v[k] = IF k = 0 THEN 0 ELSE 10 * v[k - 1] + token[k]
  BY DEF Values
<1> QED
  BY <1>l, <1>1

LEMMA ValuesUnique ==
  ASSUME NEW token \in Digits, NEW v, Values(token, v, Len(token)),
         NEW w, Values(token, w, Len(token))
  PROVE  w = v
<1> DEFINE S == {n \in Nat : n <= Len(token) => w[n] = v[n]}
<1>l. Len(token) \in Nat
  BY DEF Digits
<1>v. /\ v = [k \in 0 .. Len(token) |-> v[k]]
      /\ v[0] = 0 /\ \A k \in 1 .. Len(token) : v[k] = 10 * v[k - 1] + token[k]
  BY ValuesAre
<1>w. /\ w = [k \in 0 .. Len(token) |-> w[k]]
      /\ w[0] = 0 /\ \A k \in 1 .. Len(token) : w[k] = 10 * w[k - 1] + token[k]
  BY ValuesAre
<1>1. 0 \in S
  BY <1>v, <1>w
<1>2. ASSUME NEW n \in Nat, n \in S PROVE n + 1 \in S
  <2> SUFFICES ASSUME n + 1 <= Len(token) PROVE w[n + 1] = v[n + 1]
    OBVIOUS
  <2>1. n + 1 \in 1 .. Len(token) /\ (n + 1) - 1 = n /\ w[n] = v[n]
    BY <1>2, <1>l
  <2> QED
    BY <1>v, <1>w, <2>1
<1> HIDE DEF S
<1>3. S = Nat
  <2>1. S \subseteq Nat
    BY DEF S
  <2> QED
    BY <1>1, <1>2, <2>1, NatSet
<1>4. \A k \in 0 .. Len(token) : w[k] = v[k]
  BY <1>l, <1>3 DEF S
<1> QED
  BY <1>v, <1>w, <1>4

\* Value is defined by the digits, from the left.
LEMMA ValueIs ==
  ASSUME NEW token \in Digits
  PROVE  \E v \in [0 .. Len(token) -> Nat] :
           /\ Values(token, v, Len(token)) /\ Value(token) = v[Len(token)]
<1>1. PICK v \in [0 .. Len(token) -> Nat] : Values(token, v, Len(token))
  BY ValuesExist
<1> DEFINE c == CHOOSE w : Values(token, w, Len(token))
<1>2. Value(token) = c[Len(token)]
  BY DEF Value, Values
<1>3. Values(token, c, Len(token))
  BY <1>1
<1> HIDE DEF c
<1>4. c = v
  BY <1>1, <1>3, ValuesUnique
<1> QED
  BY <1>1, <1>2, <1>4

\* The test before a digit is taken is exact: it fails when, and only when,
\* the new number would not fit in size_t.
LEMMA FitsIsExact ==
  ASSUME NEW x \in Nat, NEW d \in 0 .. 9
  PROVE  Fits(x, d) <=> 10 * x + d <= SizeMax
  BY ResponseAssumption DEF Fits

\* p holds the values of the variable parsed after the first 0 .. Len(token)
\* characters.
Loop(token, p) ==
  p = [k \in 0 .. Len(token) |->
        IF k = 0 THEN 0
        ELSE IF p[k - 1] = Bad \/ token[k] = NonDigit THEN Bad
        ELSE IF Fits(p[k - 1], token[k]) THEN 10 * p[k - 1] + token[k]
        ELSE Bad]

Good(token, v, k) == (\A j \in 1 .. k : token[j] # NonDigit) /\ v[k] <= SizeMax

LEMMA LoopIs ==
  ASSUME NEW token \in Digits, NEW p, Loop(token, p)
  PROVE  /\ p = [k \in 0 .. Len(token) |-> p[k]]
         /\ p[0] = 0
         /\ \A k \in 1 .. Len(token) :
              p[k] = IF p[k - 1] = Bad \/ token[k] = NonDigit THEN Bad
                     ELSE IF Fits(p[k - 1], token[k]) THEN 10 * p[k - 1] + token[k]
                     ELSE Bad
<1>l. Len(token) \in Nat
  BY DEF Digits
<1>1. /\ p = [k \in 0 .. Len(token) |-> p[k]]
      /\ \A k \in 0 .. Len(token) :
           p[k] = IF k = 0 THEN 0
                  ELSE IF p[k - 1] = Bad \/ token[k] = NonDigit THEN Bad
                  ELSE IF Fits(p[k - 1], token[k]) THEN 10 * p[k - 1] + token[k]
                  ELSE Bad
  BY DEF Loop
<1> QED
  BY <1>l, <1>1

\* One turn of the loop keeps parsed the value of the digits, or Bad.
LEMMA LoopTurn ==
  ASSUME NEW token \in Digits, NEW v \in [0 .. Len(token) -> Nat],
         Values(token, v, Len(token)), NEW k \in 1 .. Len(token),
         NEW x, x = IF Good(token, v, k - 1) THEN v[k - 1] ELSE Bad
  PROVE  (IF Good(token, v, k) THEN v[k] ELSE Bad)
           = IF x = Bad \/ token[k] = NonDigit THEN Bad
             ELSE IF Fits(x, token[k]) THEN 10 * x + token[k]
             ELSE Bad
<1>l. Len(token) \in Nat
  BY DEF Digits
<1>1. /\ k - 1 \in 0 .. Len(token) /\ k \in 0 .. Len(token)
      /\ v[k - 1] \in Nat /\ v[k] \in Nat /\ v[k] = 10 * v[k - 1] + token[k]
  BY <1>l, ValuesAre
<1>2. token[k] \in 0 .. NonDigit
  BY ElementOfSeq DEF Digits
<1>3. (\A j \in 1 .. k : token[j] # NonDigit)
        <=> (\A j \in 1 .. k - 1 : token[j] # NonDigit) /\ token[k] # NonDigit
  BY <1>l
<1>4. CASE token[k] = NonDigit
  BY <1>3, <1>4 DEF Good
<1>5. CASE token[k] # NonDigit /\ ~(\A j \in 1 .. k - 1 : token[j] # NonDigit)
  BY <1>3, <1>5 DEF Good
<1>6. CASE token[k] # NonDigit /\ (\A j \in 1 .. k - 1 : token[j] # NonDigit)
  <2>1. token[k] \in 0 .. 9
    BY <1>2, <1>6 DEF NonDigit
  <2>2. Good(token, v, k) <=> v[k] <= SizeMax
    BY <1>3, <1>6 DEF Good
  <2>3. Good(token, v, k - 1) <=> v[k - 1] <= SizeMax
    BY <1>6 DEF Good
  <2>4. Fits(v[k - 1], token[k]) <=> v[k] <= SizeMax
    BY <1>1, <2>1, FitsIsExact
  <2>5. v[k] <= SizeMax => v[k - 1] <= SizeMax
    <3>1. SizeMax \in Nat
      BY ResponseAssumption
    <3>2. \A a, d, m \in Nat : 10 * a + d <= m => a <= m
      OBVIOUS
    <3>3. token[k] \in Nat
      BY <2>1
    <3> QED
      BY <1>1, <3>1, <3>2, <3>3
  <2>6. v[k - 1] # Bad
    BY <1>1 DEF Bad
  <2>7. CASE v[k - 1] <= SizeMax
    <3>1. x = v[k - 1]
      BY <2>3, <2>7
    <3> QED
      BY <1>1, <1>6, <2>2, <2>4, <2>6, <3>1
  <2>8. CASE ~(v[k - 1] <= SizeMax)
    BY <2>2, <2>3, <2>5, <2>8
  <2> QED
    BY <2>7, <2>8
<1> QED
  BY <1>4, <1>5, <1>6

LEMMA LoopExists ==
  ASSUME NEW token \in Digits, NEW v \in [0 .. Len(token) -> Nat], Values(token, v, Len(token))
  PROVE  Loop(token, [k \in 0 .. Len(token) |-> IF Good(token, v, k) THEN v[k] ELSE Bad])
<1> DEFINE p == [k \in 0 .. Len(token) |-> IF Good(token, v, k) THEN v[k] ELSE Bad]
<1>l. Len(token) \in Nat
  BY DEF Digits
<1>1. p[0] = 0
  <2>1. v[0] = 0
    BY ValuesAre
  <2>2. Good(token, v, 0)
    BY <2>1, ResponseAssumption DEF Good
  <2> QED
    BY <1>l, <2>1, <2>2
<1>2. ASSUME NEW k \in 1 .. Len(token)
      PROVE  p[k] = IF p[k - 1] = Bad \/ token[k] = NonDigit THEN Bad
                    ELSE IF Fits(p[k - 1], token[k]) THEN 10 * p[k - 1] + token[k]
                    ELSE Bad
  <2>1. /\ p[k - 1] = IF Good(token, v, k - 1) THEN v[k - 1] ELSE Bad
        /\ p[k] = IF Good(token, v, k) THEN v[k] ELSE Bad
    BY <1>l
  <2> HIDE DEF p
  <2> QED
    BY <2>1, LoopTurn
<1>3. \A k \in 0 .. Len(token) : k = 0 \/ k \in 1 .. Len(token)
  BY <1>l
<1>4. p = [k \in 0 .. Len(token) |-> p[k]]
  OBVIOUS
<1> HIDE DEF p
<1>5. Loop(token, p)
  BY <1>1, <1>2, <1>3, <1>4 DEF Loop
<1> QED
  BY <1>5 DEF p

LEMMA LoopUnique ==
  ASSUME NEW token \in Digits, NEW p, Loop(token, p), NEW q, Loop(token, q)
  PROVE  p = q
<1> DEFINE S == {n \in Nat : n <= Len(token) => p[n] = q[n]}
<1>l. Len(token) \in Nat
  BY DEF Digits
<1>1. 0 \in S
  BY LoopIs
<1>2. ASSUME NEW n \in Nat, n \in S PROVE n + 1 \in S
  <2> SUFFICES ASSUME n + 1 <= Len(token) PROVE p[n + 1] = q[n + 1]
    OBVIOUS
  <2>1. n + 1 \in 1 .. Len(token) /\ (n + 1) - 1 = n /\ p[n] = q[n]
    BY <1>2, <1>l
  <2>2. p[n + 1] = IF p[n] = Bad \/ token[n + 1] = NonDigit THEN Bad
                   ELSE IF Fits(p[n], token[n + 1]) THEN 10 * p[n] + token[n + 1]
                   ELSE Bad
    BY <2>1, LoopIs
  <2>3. q[n + 1] = IF q[n] = Bad \/ token[n + 1] = NonDigit THEN Bad
                   ELSE IF Fits(q[n], token[n + 1]) THEN 10 * q[n] + token[n + 1]
                   ELSE Bad
    BY <2>1, LoopIs
  <2> QED
    BY <2>1, <2>2, <2>3
<1> HIDE DEF S
<1>3. S = Nat
  <2>1. S \subseteq Nat
    BY DEF S
  <2> QED
    BY <1>1, <1>2, <2>1, NatSet
<1>4. \A k \in 0 .. Len(token) : p[k] = q[k]
  BY <1>l, <1>3 DEF S
<1>5. p = [k \in 0 .. Len(token) |-> p[k]] /\ q = [k \in 0 .. Len(token) |-> q[k]]
  BY LoopIs
<1> QED
  BY <1>4, <1>5

(* parse_size_token returns the decimal value of every token that is a      *)
(* number size_t can hold, and fails on every other.                        *)
THEOREM ParseSizeToken ==
  ASSUME NEW token \in Digits
  PROVE  parse_size_token(token) = IF IsNumber(token) THEN Value(token) ELSE Bad
<1>1. PICK v \in [0 .. Len(token) -> Nat] :
        Values(token, v, Len(token)) /\ Value(token) = v[Len(token)]
  BY ValueIs
<1> DEFINE p == [k \in 0 .. Len(token) |-> IF Good(token, v, k) THEN v[k] ELSE Bad]
           c == CHOOSE q : Loop(token, q)
<1>2. parse_size_token(token) = IF token = <<>> THEN Bad ELSE c[Len(token)]
  BY DEF parse_size_token, Loop
<1>3. Loop(token, p)
  BY <1>1, LoopExists
<1>4. p[Len(token)] = IF Good(token, v, Len(token)) THEN Value(token) ELSE Bad
  <2>1. Len(token) \in 0 .. Len(token)
    BY DEF Digits
  <2> QED
    BY <1>1, <2>1
<1> HIDE DEF p
<1>5. Loop(token, c)
  BY <1>3
<1> HIDE DEF c
<1>6. c = p
  BY <1>3, <1>5, LoopUnique
<1>7. IsNumber(token) <=> token # <<>> /\ Good(token, v, Len(token))
  BY <1>1 DEF IsNumber, Good
<1> QED
  BY <1>2, <1>4, <1>6, <1>7

LEMMA TokenInRange ==
  ASSUME NEW token \in Digits
  PROVE  /\ Value(token) \in Nat
         /\ IsNumber(token) => Value(token) \in 0 .. SizeMax
         /\ parse_size_token(token) \in 0 .. SizeMax \cup {Bad}
<1>1. Value(token) \in Nat
  <2>1. PICK v \in [0 .. Len(token) -> Nat] :
          Values(token, v, Len(token)) /\ Value(token) = v[Len(token)]
    BY ValueIs
  <2>2. Len(token) \in 0 .. Len(token)
    BY DEF Digits
  <2> QED
    BY <2>1, <2>2
<1>2. IsNumber(token) => Value(token) \in 0 .. SizeMax
  BY <1>1, ResponseAssumption DEF IsNumber
<1> QED
  BY <1>1, <1>2, ParseSizeToken
-----------------------------------------------------------------------------
(* parse_range_header and resolve_range                                    *)

LEMMA ParseRangeType ==
  ASSUME NEW r \in RequestFields, NEW v \in RangeValues
  PROVE  ParseRange(r, v) \in RequestFields
<1> DEFINE a == parse_size_token(v.first)
           b == parse_size_token(v.last)
<1>1. a \in 0 .. SizeMax \cup {Bad} /\ b \in 0 .. SizeMax \cup {Bad}
  BY TokenTypes, TokenInRange
<1>2. \/ ParseRange(r, v) = r
      \/ /\ b \in 0 .. SizeMax
         /\ ParseRange(r, v) =
              [r EXCEPT !.has_range = TRUE, !.range_is_suffix = TRUE, !.range_start = b]
      \/ /\ a \in 0 .. SizeMax
         /\ \/ ParseRange(r, v) = [r EXCEPT !.has_range = TRUE, !.range_start = a]
            \/ ParseRange(r, v) = [r EXCEPT !.has_range = FALSE, !.range_start = a]
            \/ /\ b \in 0 .. SizeMax
               /\ ParseRange(r, v) =
                    [r EXCEPT !.has_range = TRUE, !.range_start = a,
                              !.range_end_provided = TRUE, !.range_end = b]
  <2> HIDE DEF a, b
  <2>1. ParseRange(r, v) =
          IF v.first = <<>>
          THEN IF b \in {Bad, 0} THEN r
               ELSE [r EXCEPT !.has_range = TRUE, !.range_is_suffix = TRUE, !.range_start = b]
          ELSE IF a = Bad THEN r
          ELSE IF v.last = <<>> THEN [r EXCEPT !.has_range = TRUE, !.range_start = a]
          ELSE IF b = Bad THEN [r EXCEPT !.has_range = FALSE, !.range_start = a]
          ELSE [r EXCEPT !.has_range = TRUE, !.range_start = a,
                         !.range_end_provided = TRUE, !.range_end = b]
    BY DEF ParseRange, a, b
  <2> QED
    BY <1>1, <2>1
<1> HIDE DEF a, b
<1> QED
  BY <1>2 DEF RequestFields

\* A range that is sent lies inside the file.
Inside(g, n) ==
  /\ g.partial => g.length = g.end - g.start + 1
  /\ ~g.partial => g.length = n
  /\ g.start + g.length <= n

LEMMA ResolvedInside ==
  ASSUME NEW r \in RequestFields, NEW n \in 0 .. MaxFile, ~Unsatisfiable(r, n)
  PROVE  Resolved(r, n) \in Ranges /\ Inside(Resolved(r, n), n)
<1>f. /\ r.range_start \in 0 .. SizeMax /\ r.range_end \in 0 .. SizeMax
      /\ r.has_range \in BOOLEAN /\ r.range_is_suffix \in BOOLEAN
      /\ r.range_end_provided \in BOOLEAN
  BY DEF RequestFields
<1>a. SizeMax \in Nat /\ MaxFile \in Nat
  BY ResponseAssumption
<1>1. CASE ~r.has_range
  <2>1. Resolved(r, n) = AllOf(n)
    BY <1>1 DEF Resolved
  <2>2. AllOf(n) \in Ranges /\ Inside(AllOf(n), n)
    BY <1>a DEF AllOf, Ranges, Inside
  <2> QED
    BY <2>1, <2>2
<1> DEFINE InFile(x, y) == x \in 0 .. n /\ y \in 0 .. n - 1 /\ x <= y + 1
<1>2. ASSUME NEW x, NEW y, InFile(x, y)
      PROVE  From(x, y) \in Ranges /\ Inside(From(x, y), n)
  BY <1>2, <1>a DEF From, Ranges, Inside
<1>3. CASE r.has_range
  <2>1. n # 0
    BY <1>3 DEF Unsatisfiable
  <2>2. CASE r.range_is_suffix
    <3> DEFINE x == IF r.range_start >= n THEN 0 ELSE n - r.range_start
    <3>1. Resolved(r, n) = From(x, n - 1)
      BY <1>3, <2>2 DEF Resolved
    <3>2. InFile(x, n - 1)
      BY <1>a, <1>f, <2>1
    <3> HIDE DEF x, InFile
    <3> QED
      BY <1>2, <3>1, <3>2
  <2>3. CASE ~r.range_is_suffix
    <3>1. r.range_start < n /\ (r.range_end_provided => r.range_start <= r.range_end)
      BY <1>a, <1>f, <1>3, <2>3 DEF Unsatisfiable
    <3>2. Resolved(r, n) = From(r.range_start, LastByte(r, n))
      BY <1>3, <2>3 DEF Resolved
    <3>3. InFile(r.range_start, LastByte(r, n))
      BY <1>a, <1>f, <2>1, <3>1 DEF LastByte
    <3> HIDE DEF InFile
    <3> QED
      BY <1>2, <3>2, <3>3
  <2> QED
    BY <1>f, <2>2, <2>3
<1> QED
  BY <1>f, <1>1, <1>3

LEMMA BytesType ==
  ASSUME NEW f \in Nat, NEW n \in Nat, NEW m \in Nat, n > 0 => f + n <= m + 1
  PROVE  Bytes(f, n) \in Seq(0 .. m) /\ Len(Bytes(f, n)) = n
<1>1. Bytes(f, n) \in [1 .. n -> 0 .. m]
  BY DEF Bytes
<1>2. \A s \in [1 .. n -> 0 .. m] : s \in Seq(0 .. m) /\ Len(s) = n
  OBVIOUS
<1> QED
  BY <1>1, <1>2

\* The next bytes of the file go behind those that are on the wire.
LEMMA BytesConcat ==
  ASSUME NEW f \in Nat, NEW m \in Nat, NEW n \in Nat
  PROVE  Bytes(f, m) \o Bytes(f + m, n) = Bytes(f, m + n)
<1> DEFINE x == Bytes(f, m)
           y == Bytes(f + m, n)
           z == Bytes(f, m + n)
<1>1. /\ x \in Seq(Nat) /\ Len(x) = m /\ y \in Seq(Nat) /\ Len(y) = n
      /\ z \in Seq(Nat) /\ Len(z) = m + n
  <2>1. \A a, c \in Nat : Bytes(a, c) \in [1 .. c -> Nat]
    BY DEF Bytes
  <2>2. \A c \in Nat : \A s \in [1 .. c -> Nat] : s \in Seq(Nat) /\ Len(s) = c
    OBVIOUS
  <2>3. f + m \in Nat /\ m + n \in Nat
    OBVIOUS
  <2> QED
    BY <2>1, <2>2, <2>3
<1>2. /\ \A i \in 1 .. m : x[i] = f + i - 1
      /\ \A i \in 1 .. n : y[i] = f + m + i - 1
      /\ \A i \in 1 .. m + n : z[i] = f + i - 1
  BY DEF Bytes
<1> HIDE DEF x, y, z
<1>3. /\ x \o y \in Seq(Nat) /\ Len(x \o y) = m + n
      /\ \A i \in 1 .. m + n :
           (x \o y)[i] = IF i <= m THEN x[i] ELSE y[i - m]
  BY <1>1, ConcatProperties
<1>4. ASSUME NEW i \in 1 .. m + n
      PROVE  (x \o y)[i] = z[i]
  <2>1. (x \o y)[i] = (IF i <= m THEN x[i] ELSE y[i - m]) /\ z[i] = f + i - 1
    BY <1>2, <1>3
  <2>2. CASE i <= m
    BY <1>2, <2>1, <2>2
  <2>3. CASE ~(i <= m)
    <3>1. i - m \in 1 .. n /\ f + m + (i - m) - 1 = f + i - 1
      BY <2>3
    <3>2. y[i - m] = f + m + (i - m) - 1
      BY <1>2, <3>1
    <3> QED
      BY <2>1, <2>3, <3>1, <3>2
  <2> QED
    BY <2>2, <2>3
<1>5. x \o y = z
  BY <1>1, <1>3, <1>4, SeqEqual
<1> QED
  BY <1>5 DEF x, y, z
-----------------------------------------------------------------------------
(* The inductive invariant                                                 *)

LEMMA TypeParts ==
  TypeOK <=>
    /\ pc \in {"parse", "open", "sent", "body", "done", "failed"}
    /\ next \in 1 .. Len(headers) + 1
    /\ request \in RequestFields
    /\ size \in 0 .. MaxFile /\ disk \in 0 .. MaxFile
    /\ range \in Ranges /\ remaining \in 0 .. MaxFile /\ pos \in 0 .. MaxFile
    /\ body \in Seq(0 .. MaxFile)
  BY DEF TypeOK, RequestFields, Ranges

LEMMA NewRequest ==
  ASSUME NEW m \in {"GET", "HEAD"}
  PROVE  [NoRequest EXCEPT !.method = m] \in RequestFields
<1>1. NoRequest \in RequestFields
  BY ResponseAssumption DEF NoRequest, RequestFields
<1> HIDE DEF NoRequest
<1> QED
  BY <1>1 DEF RequestFields

LEMMA InitInv == Init => ResponseInv
<1> SUFFICES ASSUME Init PROVE ResponseInv
  OBVIOUS
<1>1. headers \in Seq(RangeValues) /\ Len(headers) \in Nat
  BY TokenTypes DEF Init
<1>2. request \in RequestFields
  BY NewRequest DEF Init
<1>3. range \in Ranges
  BY ResponseAssumption DEF Init, Whole, Ranges
<1>4. /\ pc = "parse" /\ next = 1 /\ size = 0 /\ disk \in 0 .. MaxFile
      /\ remaining = 0 /\ pos = 0 /\ body = <<>> /\ head = None /\ result = None
  BY DEF Init
<1>5. TypeInv
  BY <1>1, <1>2, <1>3, <1>4, TypeParts, ResponseAssumption DEF TypeInv
<1>6. WireInv
  BY <1>4 DEF WireInv, Before
<1>7. AnswerInv
  BY <1>4 DEF AnswerInv, Fresh, Init, FileHead, None
<1> QED
  BY <1>5, <1>6, <1>7 DEF ResponseInv

LEMMA ParseHeaderStep ==
  ASSUME ResponseInv, ParseHeader
  PROVE  ResponseInv'
<1>t. TypeInv /\ TypeOK /\ WireInv /\ AnswerInv /\ headers \in Seq(RangeValues)
  BY DEF ResponseInv, TypeInv
<1>0. /\ pc = "parse" /\ next <= Len(headers) /\ next' = next + 1
      /\ request' = ParseRange(request, headers[next])
      /\ UNCHANGED <<pc, headers, size, disk, range, head, remaining, pos, body, result>>
  BY DEF ParseHeader
<1>1. Len(headers) \in Nat /\ next \in 1 .. Len(headers) /\ headers[next] \in RangeValues
  BY <1>t, <1>0, TypeParts
<1>2. request' \in RequestFields
  BY <1>t, <1>0, <1>1, TypeParts, ParseRangeType
<1>3. TypeOK'
  <2>1. next' \in 1 .. Len(headers) + 1
    BY <1>0, <1>1
  <2> QED
    BY <1>t, <1>0, <1>2, <2>1, TypeParts DEF TypeOK, RequestFields
<1>4. WireInv'
  BY <1>t, <1>0 DEF WireInv, Before
<1>5. AnswerInv'
  <2>1. head = None
    BY <1>t, <1>0 DEF WireInv, Before
  <2>2. Len(headers) = 1 => Parsed'
    <3> SUFFICES ASSUME Len(headers) = 1 PROVE Parsed'
      OBVIOUS
    <3>1. next = 1
      BY <1>1
    <3>2. PICK m \in {"GET", "HEAD"} : request = [NoRequest EXCEPT !.method = m]
      BY <1>t, <3>1 DEF AnswerInv, Fresh
    <3> QED
      BY <1>0, <3>1, <3>2 DEF Parsed
  <2>3. next' # 1
    BY <1>0, <1>1
  <2> QED
    BY <1>0, <2>1, <2>2, <2>3 DEF AnswerInv, FileHead, None
<1> QED
  BY <1>t, <1>0, <1>3, <1>4, <1>5 DEF ResponseInv, TypeInv

LEMMA StatStep ==
  ASSUME ResponseInv, Stat
  PROVE  ResponseInv'
<1>t. TypeInv /\ TypeOK /\ WireInv /\ AnswerInv /\ headers \in Seq(RangeValues)
  BY DEF ResponseInv, TypeInv
<1>0. /\ pc = "parse" /\ next > Len(headers) /\ size' = disk /\ pc' = "open"
      /\ UNCHANGED <<headers, next, request, disk, range, head, remaining, pos, body, result>>
  BY DEF Stat
<1>1. TypeOK'
  BY <1>t, <1>0 DEF TypeOK
<1>2. WireInv'
  BY <1>t, <1>0 DEF WireInv, Before
<1>3. head = None
  BY <1>t, <1>0 DEF WireInv, Before
<1>4. AnswerInv'
  BY <1>t, <1>0, <1>3 DEF AnswerInv, Fresh, Parsed, FileHead, None
<1> QED
  BY <1>t, <1>0, <1>1, <1>2, <1>4 DEF ResponseInv, TypeInv

\* The part of a step that is the same for the answers that are not the file.
LEMMA InsteadStep ==
  ASSUME ResponseInv, pc = "open", NEW st \in {416, 500}, Instead(st),
         st = 416 => Unsatisfiable(request, size)
  PROVE  ResponseInv'
<1>t. TypeInv /\ TypeOK /\ WireInv /\ AnswerInv /\ headers \in Seq(RangeValues)
  BY DEF ResponseInv, TypeInv
<1>0. /\ \/ head' = [status |-> st] /\ result' = [status |-> st] /\ pc' = "done"
         \/ pc' = "failed" /\ UNCHANGED <<head, result>>
      /\ UNCHANGED <<headers, next, request, size, disk, range, remaining, pos, body>>
  BY DEF Instead
<1>1. TypeOK'
  BY <1>t, <1>0 DEF TypeOK
<1>2. head = None /\ body = <<>> /\ result = None
  BY <1>t DEF WireInv, Before
<1>3. next > Len(headers)
  BY <1>t DEF AnswerInv
<1>4. CASE head' = [status |-> st] /\ result' = [status |-> st] /\ pc' = "done"
  <2>1. head'.status = st /\ result'.status = st
    BY <1>4
  <2>2. NoFile'
    BY <1>0, <1>2, <1>4 DEF NoFile
  <2>3. WireInv'
    BY <1>4, <2>1, <2>2 DEF WireInv
  <2>4. AnswerInv'
    BY <1>t, <1>0, <1>3, <2>1 DEF AnswerInv, Fresh, Parsed, FileHead, Unsatisfiable
  <2> QED
    BY <1>t, <1>0, <1>1, <2>3, <2>4 DEF ResponseInv, TypeInv
<1>5. CASE pc' = "failed" /\ UNCHANGED <<head, result>>
  <2>1. WireInv'
    BY <1>2, <1>5 DEF WireInv
  <2>2. AnswerInv'
    BY <1>t, <1>0, <1>2, <1>3, <1>5 DEF AnswerInv, Fresh, Parsed, FileHead, None
  <2> QED
    BY <1>t, <1>0, <1>1, <2>1, <2>2 DEF ResponseInv, TypeInv
<1> QED
  BY <1>0, <1>4, <1>5

LEMMA SendHeadStep ==
  ASSUME ResponseInv, SendHead
  PROVE  ResponseInv'
<1>t. TypeInv /\ TypeOK /\ WireInv /\ AnswerInv /\ headers \in Seq(RangeValues)
  BY DEF ResponseInv, TypeInv
<1>0. /\ pc = "open" /\ ~Unsatisfiable(request, size) /\ range' = Resolved(request, size)
      /\ pos' = range'.start /\ remaining' = range'.length
      /\ UNCHANGED <<headers, next, request, size, disk, body, result>>
  BY DEF SendHead
<1>1. range' \in Ranges /\ Inside(range', size)
  BY <1>t, <1>0, TypeParts, ResolvedInside
<1>2. /\ range'.start \in 0 .. MaxFile /\ range'.length \in 0 .. MaxFile
      /\ range'.end \in 0 .. MaxFile /\ range'.partial \in BOOLEAN
  BY <1>1 DEF Ranges
<1>3. head = None /\ body = <<>> /\ result = None /\ next > Len(headers)
  BY <1>t, <1>0 DEF WireInv, Before, AnswerInv
<1>4. ASSUME pc' \in {"sent", "body", "failed"} PROVE TypeOK'
  <2>1. range' \in [start : 0 .. MaxFile, end : 0 .. MaxFile, length : 0 .. MaxFile,
                    partial : BOOLEAN]
    BY <1>1 DEF Ranges
  <2> QED
    BY <1>t, <1>0, <1>2, <1>4, <2>1 DEF TypeOK
<1>5. CASE pc' = "failed" /\ UNCHANGED head
  <2>1. TypeOK'
    BY <1>4, <1>5
  <2>2. WireInv'
    BY <1>0, <1>3, <1>5 DEF WireInv
  <2>3. AnswerInv'
    BY <1>t, <1>0, <1>3, <1>5 DEF AnswerInv, Fresh, Parsed, FileHead, None
  <2> QED
    BY <1>t, <1>0, <2>1, <2>2, <2>3 DEF ResponseInv, TypeInv
<1>6. CASE /\ head' = [status |-> IF range'.partial THEN 206 ELSE 200,
                       length |-> IF range'.partial THEN range'.length ELSE size,
                       start |-> range'.start, end |-> range'.end, total |-> size]
           /\ pc' = IF request.method = "HEAD" THEN "sent" ELSE "body"
  <2>1. /\ head'.status = IF range'.partial THEN 206 ELSE 200
        /\ head'.length = IF range'.partial THEN range'.length ELSE size
        /\ head'.start = range'.start /\ head'.end = range'.end
    BY <1>6
  <2>2. TypeOK'
    BY <1>4, <1>6
  <2>3. body' = <<>> /\ Len(body') = 0 /\ Bytes(range'.start, 0) = <<>>
    BY <1>0, <1>3 DEF Bytes
  <2>4. head'.length = range'.length
    BY <1>1, <2>1 DEF Inside
  <2>5. Promise'
    <3>1. /\ range'.partial => range'.length = range'.end - range'.start + 1
          /\ ~range'.partial => range'.length = size'
          /\ range'.start + range'.length <= size'
      BY <1>0, <1>1 DEF Inside
    <3>2. Len(body') <= range'.length /\ body' = Bytes(range'.start, Len(body'))
      BY <1>2, <2>3
    <3> QED
      BY <2>1, <2>4, <3>1, <3>2 DEF Promise, Bytes
  <2>6. InBody'
    BY <1>0, <1>2, <2>3 DEF InBody
  <2>7. request' \in RequestFields /\ request' = request
    BY <1>t, <1>0, TypeParts
  <2>8. request'.method \in {"GET", "HEAD"}
    BY <2>7 DEF RequestFields
  <2>9. \/ pc' = "sent" /\ request'.method = "HEAD"
        \/ pc' = "body" /\ request'.method = "GET"
    BY <1>6, <2>7, <2>8
  <2>10. WireInv'
    BY <1>0, <1>3, <2>3, <2>5, <2>6, <2>9 DEF WireInv
  <2>11. AnswerInv'
    <3>1. head'.status \in {200, 206}
      BY <1>2, <2>1
    <3>2. ~Unsatisfiable(request', size') /\ range' = Resolved(request', size')
      BY <1>0
    <3>3. (next' = 1 => Fresh') /\ (Len(headers') = 1 /\ next' # 1 => Parsed')
      BY <1>t, <1>0 DEF AnswerInv, Fresh, Parsed
    <3>4. next' > Len(headers')
      BY <1>0, <1>3
    <3> QED
      BY <3>1, <3>2, <3>3, <3>4 DEF AnswerInv, FileHead
  <2> QED
    BY <1>t, <1>0, <2>2, <2>10, <2>11 DEF ResponseInv, TypeInv
<1> QED
  BY <1>5, <1>6 DEF SendHead

\* The header and the request stay as they are.
LEMMA StillAnswer ==
  ASSUME AnswerInv, UNCHANGED <<headers, next, request, size, range, head>>, pc # "parse"
  PROVE  AnswerInv'
  BY DEF AnswerInv, Fresh, Parsed, FileHead, Unsatisfiable, Resolved, From, AllOf, LastByte

LEMMA SendChunkStep ==
  ASSUME ResponseInv, SendChunk
  PROVE  ResponseInv'
<1>t. TypeInv /\ TypeOK /\ WireInv /\ AnswerInv /\ headers \in Seq(RangeValues)
  BY DEF ResponseInv, TypeInv
<1>0. /\ pc = "body" /\ remaining > 0
      /\ UNCHANGED <<headers, next, request, size, disk, range, head, result>>
  BY DEF SendChunk
<1>1. PICK got \in Read \ {0} :
        /\ pos' = pos + got
        /\ \/ /\ body' = body \o Bytes(pos, got)
              /\ remaining' = remaining - got
              /\ UNCHANGED pc
           \/ \E n \in 0 .. got - 1 :
              /\ body' = body \o Bytes(pos, n)
              /\ pc' = "failed"
              /\ UNCHANGED remaining
  BY DEF SendChunk
<1>2. PICK n \in 0 .. got :
        /\ body' = body \o Bytes(pos, n)
        /\ \/ n = got /\ remaining' = remaining - got /\ UNCHANGED pc
           \/ pc' = "failed" /\ UNCHANGED remaining
  <2>1. got \in Nat
    BY DEF Read
  <2> QED
    BY <1>1, <2>1
<1>3. /\ remaining \in Nat /\ pos \in Nat /\ disk \in Nat /\ MaxFile \in Nat /\ size \in Nat
      /\ disk <= MaxFile /\ remaining <= MaxFile /\ Chunk \in Nat
      /\ body \in Seq(0 .. MaxFile) /\ Len(body) \in Nat /\ range \in Ranges
  <2>1. body \in Seq(0 .. MaxFile) /\ range \in Ranges
    BY <1>t, TypeParts
  <2>2. Len(body) \in Nat
    BY <2>1
  <2> QED
    BY <1>t, <2>1, <2>2, ResponseAssumption, TypeParts
<1>4. got \in Nat /\ got > 0 /\ got <= remaining /\ pos + got <= disk
  BY <1>3 DEF Read, MinOf
<1>5. n \in Nat /\ n <= got
  BY <1>4
<1>6. Promise /\ InBody /\ result = None /\ request.method = "GET"
  BY <1>t, <1>0 DEF WireInv
<1>7. range.start \in Nat /\ range.length \in Nat
  BY <1>3 DEF Ranges
<1>8. /\ Bytes(pos, n) \in Seq(0 .. MaxFile) /\ Len(Bytes(pos, n)) = n
  <2>1. n > 0 => pos + n <= MaxFile + 1
    BY <1>3, <1>4, <1>5
  <2> QED
    BY <1>3, <1>5, <2>1, BytesType
<1>9. body' \in Seq(0 .. MaxFile) /\ Len(body') = Len(body) + n
  BY <1>2, <1>3, <1>8, ConcatProperties
<1>10. /\ pos = range.start + Len(body) /\ remaining = range.length - Len(body)
       /\ body = Bytes(range.start, Len(body))
  BY <1>6 DEF InBody, Promise
<1>11. body' = Bytes(range.start, Len(body) + n)
  <2>1. body' = Bytes(range.start, Len(body)) \o Bytes(range.start + Len(body), n)
    BY <1>2, <1>10
  <2>2. Len(body) \in Nat
    BY <1>3
  <2> QED
    BY <1>5, <1>7, <2>1, <2>2, BytesConcat
<1>12. Len(body) + n <= range.length
  BY <1>3, <1>4, <1>5, <1>7, <1>10
<1>13. Promise'
  <2>1. /\ Len(body') <= range'.length /\ body' = Bytes(range'.start, Len(body'))
    BY <1>0, <1>9, <1>11, <1>12
  <2> QED
    BY <1>0, <1>6, <2>1 DEF Promise, Bytes
<1>14. TypeOK'
  <2>1. pos' \in 0 .. MaxFile /\ remaining' \in 0 .. MaxFile
    BY <1>1, <1>2, <1>3, <1>4
  <2>2. pc' \in {"body", "failed"}
    BY <1>0, <1>2
  <2> QED
    BY <1>t, <1>0, <1>9, <2>1, <2>2 DEF TypeOK
<1>15. WireInv'
  <2>1. CASE n = got /\ remaining' = remaining - got /\ UNCHANGED pc
    <3>0. /\ pos' = pos + got /\ Len(body') = Len(body) + got /\ range' = range
          /\ remaining' = remaining - got
      BY <1>0, <1>1, <1>9, <2>1
    <3>1. InBody'
      <4>1. Len(body) \in Nat
        BY <1>3
      <4> QED
        BY <1>4, <1>7, <1>10, <3>0, <4>1 DEF InBody
    <3> QED
      BY <1>0, <1>6, <1>13, <2>1, <3>1 DEF WireInv
  <2>2. CASE pc' = "failed"
    BY <1>0, <1>6, <1>13, <2>2 DEF WireInv
  <2> QED
    BY <1>2, <2>1, <2>2
<1> QED
  BY <1>t, <1>0, <1>14, <1>15, StillAnswer DEF ResponseInv, TypeInv

LEMMA ReadFailsStep ==
  ASSUME ResponseInv, ReadFails
  PROVE  ResponseInv'
<1>t. TypeInv /\ TypeOK /\ WireInv /\ AnswerInv /\ headers \in Seq(RangeValues)
  BY DEF ResponseInv, TypeInv
<1>0. /\ pc = "body" /\ pc' = "failed"
      /\ UNCHANGED <<headers, next, request, size, disk, range, head, remaining, pos, body, result>>
  BY DEF ReadFails
<1>1. TypeOK'
  BY <1>t, <1>0 DEF TypeOK
<1>2. Promise' /\ result' = None
  BY <1>t, <1>0 DEF WireInv, Promise, Bytes
<1>3. WireInv'
  BY <1>0, <1>2 DEF WireInv
<1> QED
  BY <1>t, <1>0, <1>1, <1>3, StillAnswer DEF ResponseInv, TypeInv

LEMMA FinishStep ==
  ASSUME ResponseInv, Finish
  PROVE  ResponseInv'
<1>t. TypeInv /\ TypeOK /\ WireInv /\ AnswerInv /\ headers \in Seq(RangeValues)
  BY DEF ResponseInv, TypeInv
<1>0. /\ (pc = "body" /\ remaining = 0) \/ pc = "sent"
      /\ result' = [status |-> head.status,
                    bytes |-> IF request.method = "HEAD" THEN 0 ELSE range.length]
      /\ pc' = "done"
      /\ UNCHANGED <<headers, next, request, size, disk, range, head, remaining, pos, body>>
  BY DEF Finish
<1>1. TypeOK'
  BY <1>t, <1>0 DEF TypeOK
<1>2. /\ result'.status = head.status
      /\ result'.bytes = IF request.method = "HEAD" THEN 0 ELSE range.length
  BY <1>0
<1>3. Promise'
  BY <1>t, <1>0 DEF WireInv, Promise, Bytes
<1>4. range.length \in Nat /\ Len(body) \in Nat
  <2>1. range \in Ranges /\ body \in Seq(0 .. MaxFile) /\ MaxFile \in Nat
    BY <1>t, TypeParts, ResponseAssumption
  <2> QED
    BY <2>1 DEF Ranges
<1>5. Told'
  <2>1. CASE pc = "body" /\ remaining = 0
    <3>1. Len(body) = range.length /\ request.method = "GET"
      BY <1>t, <1>4, <2>1 DEF WireInv, InBody
    <3> QED
      BY <1>0, <1>2, <3>1 DEF Told
  <2>2. CASE pc = "sent"
    <3>1. Len(body) = 0 /\ request.method = "HEAD"
      BY <1>t, <2>2 DEF WireInv
    <3> QED
      BY <1>0, <1>2, <3>1 DEF Told
  <2> QED
    BY <1>0, <2>1, <2>2
<1>6. WireInv'
  BY <1>0, <1>3, <1>5 DEF WireInv
<1>7. pc # "parse"
  BY <1>0
<1> QED
  BY <1>t, <1>0, <1>1, <1>6, <1>7, StillAnswer DEF ResponseInv, TypeInv

LEMMA StillStep ==
  ASSUME ResponseInv, disk' \in 0 .. MaxFile,
         UNCHANGED <<pc, headers, next, request, size, range, head, remaining, pos, body, result>>
  PROVE  ResponseInv'
<1>t. TypeInv /\ TypeOK /\ WireInv /\ AnswerInv /\ headers \in Seq(RangeValues)
  BY DEF ResponseInv, TypeInv
<1>1. TypeOK'
  BY <1>t DEF TypeOK
<1>2. WireInv'
  BY <1>t DEF WireInv, Before, NoFile, Promise, InBody, Told, Bytes
<1>3. AnswerInv'
  BY <1>t DEF AnswerInv, Fresh, Parsed, FileHead, Unsatisfiable, Resolved, From, AllOf, LastByte
<1> QED
  BY <1>t, <1>1, <1>2, <1>3 DEF ResponseInv, TypeInv

LEMMA NextStep == ResponseInv /\ [Next]_vars => ResponseInv'
<1> SUFFICES ASSUME ResponseInv, [Next]_vars PROVE ResponseInv'
  OBVIOUS
<1>1. CASE ParseHeader
  BY <1>1, ParseHeaderStep
<1>2. CASE Stat
  BY <1>2, StatStep
<1>3. CASE OpenFails
  BY <1>3, InsteadStep DEF OpenFails
<1>4. CASE NotSatisfiable
  BY <1>4, InsteadStep DEF NotSatisfiable
<1>5. CASE SeekFails
  BY <1>5, InsteadStep DEF SeekFails
<1>6. CASE SendHead
  BY <1>6, SendHeadStep
<1>7. CASE SendChunk
  BY <1>7, SendChunkStep
<1>8. CASE ReadFails
  BY <1>8, ReadFailsStep
<1>9. CASE Finish
  BY <1>9, FinishStep
<1>10. CASE Rewrite
  BY <1>10, StillStep DEF Rewrite
<1>11. CASE UNCHANGED vars
  <2>1. disk' \in 0 .. MaxFile
    BY <1>11 DEF ResponseInv, TypeInv, TypeOK, vars
  <2> QED
    BY <1>11, <2>1, StillStep DEF vars
<1> QED
  BY <1>1, <1>2, <1>3, <1>4, <1>5, <1>6, <1>7, <1>8, <1>9, <1>10, <1>11 DEF Next, Send

LEMMA ResponseCorrect == Spec => []ResponseInv
  BY InitInv, NextStep, PTL DEF Spec
-----------------------------------------------------------------------------
(* One Range header                                                        *)

\* The fields that one header leaves in a new request.
LEMMA HeaderFields ==
  ASSUME NEW v \in RangeValues, NEW m \in {"GET", "HEAD"},
         NEW r, r = ParseRange([NoRequest EXCEPT !.method = m], v)
  PROVE  IF ~WellFormed(v) THEN ~r.has_range
         ELSE IF v.first = <<>>
         THEN /\ IsNumber(v.last) /\ Value(v.last) > 0
              /\ r.has_range /\ r.range_is_suffix /\ ~r.range_end_provided
              /\ r.range_start = Value(v.last)
         ELSE /\ r.has_range /\ ~r.range_is_suffix
              /\ r.range_start = Value(v.first)
              /\ IF v.last = <<>> THEN ~r.range_end_provided
                 ELSE r.range_end_provided /\ r.range_end = Value(v.last)
<1> DEFINE q == [NoRequest EXCEPT !.method = m]
           a == parse_size_token(v.first)
           b == parse_size_token(v.last)
<1>1. q \in RequestFields
  BY NewRequest
<1>2. ~q.has_range /\ ~q.range_is_suffix /\ ~q.range_end_provided
  BY DEF NoRequest
<1>3. r = IF v.first = <<>>
          THEN IF b \in {Bad, 0} THEN q
               ELSE [q EXCEPT !.has_range = TRUE, !.range_is_suffix = TRUE, !.range_start = b]
          ELSE IF a = Bad THEN q
          ELSE IF v.last = <<>> THEN [q EXCEPT !.has_range = TRUE, !.range_start = a]
          ELSE IF b = Bad THEN [q EXCEPT !.has_range = FALSE, !.range_start = a]
          ELSE [q EXCEPT !.has_range = TRUE, !.range_start = a,
                         !.range_end_provided = TRUE, !.range_end = b]
  BY DEF ParseRange
<1>4. /\ v.first \in Digits /\ v.last \in Digits
      /\ a = IF IsNumber(v.first) THEN Value(v.first) ELSE Bad
      /\ b = IF IsNumber(v.last) THEN Value(v.last) ELSE Bad
  BY TokenTypes, ParseSizeToken
<1>5. Value(v.first) \in Nat /\ Value(v.last) \in Nat
  BY <1>4, TokenInRange
<1>6. (IsNumber(v.first) => v.first # <<>>) /\ (IsNumber(v.last) => v.last # <<>>)
  BY DEF IsNumber
<1> HIDE DEF q, a, b
<1>7. CASE v.first = <<>> /\ b \in {Bad, 0}
  <2>1. ~WellFormed(v)
    BY <1>4, <1>5, <1>6, <1>7 DEF WellFormed, Bad
  <2> QED
    BY <1>2, <1>3, <1>7, <2>1
<1>8. CASE v.first = <<>> /\ b \notin {Bad, 0}
  <2>1. IsNumber(v.last) /\ b = Value(v.last) /\ Value(v.last) > 0
    BY <1>4, <1>5, <1>8
  <2>2. r = [q EXCEPT !.has_range = TRUE, !.range_is_suffix = TRUE, !.range_start = b]
    BY <1>3, <1>8
  <2>3. r.has_range /\ r.range_is_suffix /\ ~r.range_end_provided /\ r.range_start = b
    BY <1>1, <1>2, <2>2 DEF RequestFields
  <2>4. WellFormed(v)
    BY <1>8, <2>1 DEF WellFormed
  <2> QED
    BY <1>8, <2>1, <2>3, <2>4
<1>9. CASE v.first # <<>> /\ a = Bad
  <2>1. ~WellFormed(v)
    BY <1>4, <1>5, <1>9 DEF WellFormed, Bad
  <2> QED
    BY <1>2, <1>3, <1>9, <2>1
<1>10. CASE v.first # <<>> /\ a # Bad /\ v.last = <<>>
  <2>1. IsNumber(v.first) /\ a = Value(v.first)
    BY <1>4, <1>10
  <2>2. r = [q EXCEPT !.has_range = TRUE, !.range_start = a]
    BY <1>3, <1>10
  <2>3. r.has_range /\ ~r.range_is_suffix /\ ~r.range_end_provided /\ r.range_start = a
    BY <1>1, <1>2, <2>2 DEF RequestFields
  <2>4. WellFormed(v)
    BY <1>10, <2>1 DEF WellFormed
  <2> QED
    BY <1>10, <2>1, <2>3, <2>4
<1>11. CASE v.first # <<>> /\ a # Bad /\ v.last # <<>> /\ b = Bad
  <2>1. ~WellFormed(v)
    BY <1>4, <1>5, <1>11 DEF WellFormed, Bad
  <2>2. r = [q EXCEPT !.has_range = FALSE, !.range_start = a]
    BY <1>3, <1>11
  <2>3. ~r.has_range
    BY <1>1, <2>2 DEF RequestFields
  <2> QED
    BY <2>1, <2>3
<1>12. CASE v.first # <<>> /\ a # Bad /\ v.last # <<>> /\ b # Bad
  <2>1. IsNumber(v.first) /\ a = Value(v.first) /\ IsNumber(v.last) /\ b = Value(v.last)
    BY <1>4, <1>12
  <2>2. r = [q EXCEPT !.has_range = TRUE, !.range_start = a,
                      !.range_end_provided = TRUE, !.range_end = b]
    BY <1>3, <1>12
  <2>3. /\ r.has_range /\ ~r.range_is_suffix /\ r.range_end_provided
        /\ r.range_start = a /\ r.range_end = b
    BY <1>1, <1>2, <2>2 DEF RequestFields
  <2>4. WellFormed(v)
    BY <2>1 DEF WellFormed
  <2> QED
    BY <1>12, <2>1, <2>3, <2>4
<1> QED
  BY <1>7, <1>8, <1>9, <1>10, <1>11, <1>12

\* A well-formed header is refused exactly when it asks for no byte of the
\* file, and resolved to exactly the bytes it asks for otherwise.
LEMMA HeaderAnswered ==
  ASSUME NEW v \in RangeValues, NEW m \in {"GET", "HEAD"}, NEW n \in 0 .. MaxFile,
         NEW r, r = ParseRange([NoRequest EXCEPT !.method = m], v), WellFormed(v)
  PROVE  /\ r.has_range
         /\ Unsatisfiable(r, n) <=> Wanted(v, n) = {}
         /\ ~Unsatisfiable(r, n) =>
              /\ Resolved(r, n).partial
              /\ Resolved(r, n).start .. Resolved(r, n).end = Wanted(v, n)
<1>1. Value(v.first) \in Nat /\ Value(v.last) \in Nat /\ n \in Nat
  BY TokenTypes, TokenInRange, ResponseAssumption
<1>2. CASE v.first = <<>>
  <2>1. /\ Value(v.last) > 0
        /\ r.has_range /\ r.range_is_suffix /\ ~r.range_end_provided
        /\ r.range_start = Value(v.last)
    BY <1>2, HeaderFields
  <2>2. Wanted(v, n) = {i \in 0 .. n - 1 : i >= n - Value(v.last)}
    BY <1>2 DEF Wanted
  <2>3. Unsatisfiable(r, n) <=> n = 0
    BY <2>1 DEF Unsatisfiable
  <2>4. Wanted(v, n) = {} <=> n = 0
    <3>1. n # 0 => n - 1 \in Wanted(v, n)
      BY <1>1, <2>1, <2>2
    <3>2. n = 0 => Wanted(v, n) = {}
      BY <2>2
    <3> QED
      BY <3>1, <3>2
  <2> DEFINE x == IF r.range_start >= n THEN 0 ELSE n - r.range_start
  <2>5. Resolved(r, n) = From(x, n - 1)
    BY <2>1 DEF Resolved
  <2>6. Resolved(r, n).partial /\ Resolved(r, n).start = x /\ Resolved(r, n).end = n - 1
    BY <2>5 DEF From
  <2>7. x .. n - 1 = Wanted(v, n)
    BY <1>1, <2>1, <2>2
  <2> HIDE DEF x
  <2> QED
    BY <2>1, <2>3, <2>4, <2>6, <2>7
<1>3. CASE v.first # <<>>
  <2> DEFINE x == Value(v.first)
             y == LastByte(r, n)
  <2>1. /\ r.has_range /\ ~r.range_is_suffix /\ r.range_start = x
        /\ r.range_end_provided <=> v.last # <<>>
        /\ v.last # <<>> => r.range_end = Value(v.last)
    BY <1>3, HeaderFields
  <2>2. Wanted(v, n) =
          {i \in 0 .. n - 1 : i >= x /\ (v.last # <<>> => i <= Value(v.last))}
    BY <1>3 DEF Wanted
  <2>3. Unsatisfiable(r, n) <=> n = 0 \/ x >= n \/ (v.last # <<>> /\ Value(v.last) < x)
    BY <2>1 DEF Unsatisfiable
  <2>4. y = IF v.last # <<>> /\ Value(v.last) < n THEN Value(v.last) ELSE n - 1
    BY <2>1 DEF LastByte
  <2>5. Resolved(r, n) = From(x, y)
    BY <2>1 DEF Resolved
  <2>6. Resolved(r, n).partial /\ Resolved(r, n).start = x /\ Resolved(r, n).end = y
    BY <2>5 DEF From
  <2>x. x \in Nat
    BY <1>1
  <2> HIDE DEF x, y
  <2>7. x .. y = Wanted(v, n)
    BY <1>1, <2>2, <2>4, <2>x
  <2>8. Unsatisfiable(r, n) <=> Wanted(v, n) = {}
    <3>1. y \in Int /\ (Unsatisfiable(r, n) <=> y < x)
      BY <1>1, <2>3, <2>4, <2>x
    <3>2. y < x <=> x .. y = {}
      BY <2>x, <3>1
    <3> QED
      BY <2>7, <3>1, <3>2
  <2> QED
    BY <2>1, <2>6, <2>7, <2>8
<1> QED
  BY <1>2, <1>3
-----------------------------------------------------------------------------
(* Theorems                                                                *)

(* Whatever the Range headers and however the file changes, every variable *)
(* keeps its type and no number leaves size_t.                             *)
THEOREM ResponseTypeCorrect == Spec => []TypeOK
<1>1. ResponseInv => TypeOK
  BY DEF ResponseInv, TypeInv
<1> QED
  BY <1>1, ResponseCorrect, PTL

(* The body on the wire is a prefix of the announced range, and the        *)
(* announced range lies inside the file that stat saw.                     *)
THEOREM BodyPromised == Spec => []BodyKeepsPromise
<1>1. ResponseInv => BodyKeepsPromise
  <2> SUFFICES ASSUME ResponseInv, FileHead PROVE BodyKeepsPromise
    BY DEF BodyKeepsPromise
  <2>1. head # None /\ ~NoFile
    BY DEF FileHead, None, NoFile
  <2>2. TypeOK /\ WireInv
    BY DEF ResponseInv, TypeInv
  <2>3. Promise
    BY <2>1, <2>2 DEF WireInv, Before, TypeOK
  <2>4. range.partial \in BOOLEAN
    BY <2>2 DEF TypeOK
  <2> QED
    BY <2>3, <2>4 DEF Promise, BodyKeepsPromise
<1> QED
  BY <1>1, ResponseCorrect, PTL

(* send_file_response reports success only for a response sent in full,    *)
(* with its status and the number of its bytes.                            *)
THEOREM ReportTrue == Spec => []ReportIsTrue
<1>1. ResponseInv => ReportIsTrue
  <2> SUFFICES ASSUME ResponseInv PROVE ReportIsTrue
    OBVIOUS
  <2>1. WireInv
    BY DEF ResponseInv
  <2>2. NoFile => ~FileHead
    BY DEF FileHead, NoFile
  <2>3. Promise => head.length = range.length
    BY DEF Promise
  <2> QED
    BY <2>1, <2>2, <2>3 DEF WireInv, Told, ReportIsTrue
<1> QED
  BY <1>1, ResponseCorrect, PTL

(* One Range header is answered with exactly the bytes it asks for, with   *)
(* 416 when the file has none of them, and never with a part of the file   *)
(* when it is not well formed or its numbers do not fit in size_t.         *)
THEOREM RangeAnswered == Spec => []RangeIsAnswered
<1>1. ResponseInv => RangeIsAnswered
  <2> SUFFICES ASSUME ResponseInv, Len(headers) = 1, head # None, head.status # 500
               PROVE  IF ~WellFormed(headers[1]) THEN head.status = 200
                      ELSE IF Wanted(headers[1], size) = {} THEN head.status = 416
                      ELSE /\ head.status = 206
                           /\ head.start .. head.end = Wanted(headers[1], size)
    BY DEF RangeIsAnswered, FileHead
  <2>t. TypeOK /\ headers \in Seq(RangeValues) /\ WireInv /\ AnswerInv
    BY DEF ResponseInv, TypeInv
  <2>1. headers[1] \in RangeValues /\ size \in 0 .. MaxFile
    <3>1. headers[1] \in RangeValues
      BY <2>t
    <3> QED
      BY <2>t, <3>1 DEF TypeOK
  <2>2. pc \notin {"parse", "open"}
    BY <2>t DEF WireInv, Before
  <2>3. next > 1
    BY <2>t, <2>2 DEF AnswerInv
  <2>4. PICK m \in {"GET", "HEAD"} :
          request = ParseRange([NoRequest EXCEPT !.method = m], headers[1])
    BY <2>t, <2>3 DEF AnswerInv, Parsed
  <2>5. head.status \in {200, 206, 416}
    BY <2>t DEF AnswerInv
  <2>6. FileHead => Promise
    <3>1. FileHead => ~NoFile
      BY DEF FileHead, NoFile
    <3> QED
      BY <2>t, <2>2, <3>1 DEF WireInv, TypeOK
  <2>7. /\ head.status = 416 <=> Unsatisfiable(request, size)
        /\ FileHead => range = Resolved(request, size)
    BY <2>t, <2>5 DEF AnswerInv, FileHead
  <2>8. CASE ~WellFormed(headers[1])
    <3>1. ~request.has_range
      BY <2>1, <2>4, <2>8, HeaderFields
    <3>2. ~Unsatisfiable(request, size) /\ Resolved(request, size) = AllOf(size)
      BY <3>1 DEF Unsatisfiable, Resolved
    <3>3. ~AllOf(size).partial
      BY DEF AllOf
    <3>4. FileHead
      BY <2>5, <2>7, <3>2 DEF FileHead
    <3>5. ~range.partial
      BY <2>7, <3>2, <3>3, <3>4
    <3> QED
      BY <2>6, <2>8, <3>4, <3>5 DEF Promise
  <2>9. CASE WellFormed(headers[1]) /\ Wanted(headers[1], size) = {}
    <3>1. Unsatisfiable(request, size)
      BY <2>1, <2>4, <2>9, HeaderAnswered
    <3> QED
      BY <2>7, <2>9, <3>1
  <2>10. CASE WellFormed(headers[1]) /\ Wanted(headers[1], size) # {}
    <3>1. ~Unsatisfiable(request, size)
      BY <2>1, <2>4, <2>10, HeaderAnswered
    <3>2. FileHead
      BY <2>5, <2>7, <3>1 DEF FileHead
    <3>3. range.partial /\ range.start .. range.end = Wanted(headers[1], size)
      BY <2>1, <2>4, <2>7, <2>10, <3>1, <3>2, HeaderAnswered
    <3>4. head.status = 206 /\ head.start = range.start /\ head.end = range.end
      BY <2>6, <3>2, <3>3 DEF Promise
    <3> QED
      BY <2>10, <3>3, <3>4
  <2> QED
    BY <2>8, <2>9, <2>10
<1> QED
  BY <1>1, ResponseCorrect, PTL
===========================================================================
