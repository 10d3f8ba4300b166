--------------------------- MODULE HttpBodyProofs ---------------------------
(***************************************************************************)
(* Theorems about HttpBody, for every set of responses, however long their *)
(* bodies, and every limit.                                                *)
(***************************************************************************)
EXTENDS HttpBody, FiniteSetTheorems, SequenceTheorems, WellFoundedInduction, TLAPS

-----------------------------------------------------------------------------
(* Induction over a range, with the induction hypothesis as a set.         *)

\* A set of naturals with a member has a least one.
LEMMA LeastNat ==
  ASSUME NEW S \in SUBSET Nat, S # {} PROVE \E n \in S : \A m \in S : n <= m
<1> DEFINE R == OpToRel(<, Nat)
<1>1. IsWellFoundedOn(R, Nat)
  BY NatLessThanWellFounded
<1>2. \A x, y \in Nat : <<y, x>> \in R <=> y < x
  BY DEF OpToRel
<1> HIDE DEF R
<1>3. \E x \in S : \A y \in S : ~(<<y, x>> \in R)
  BY <1>1, WFMin
<1>4. \A x, y \in S : ~(<<y, x>> \in R) => x <= y
  BY <1>2
<1> QED
  BY <1>3, <1>4

\* What holds of the first position and passes to the next holds of them all.
LEMMA RangeInduction ==
  ASSUME NEW n \in Nat, NEW P, 0 \in P, \A i \in 1 .. n : i - 1 \in P => i \in P
  PROVE  \A i \in 0 .. n : i \in P
<1> DEFINE bad == {i \in 0 .. n : i \notin P}
<1> SUFFICES ASSUME bad # {} PROVE FALSE
  OBVIOUS
<1>1. bad \in SUBSET Nat
  OBVIOUS
<1>2. \E m \in bad : \A k \in bad : m <= k
  <2> HIDE DEF bad
  <2> QED
    BY <1>1, LeastNat
<1>3. PICK m \in bad : \A k \in bad : m <= k
  BY <1>2
<1>4. m \in 1 .. n /\ m \notin P
  OBVIOUS
<1>5. m - 1 \in bad
  BY <1>4
<1> QED
  BY <1>3, <1>4, <1>5

\* The values of a loop over 1 .. n that starts with b and takes step G[i].
Loops(T, b, n, G) ==
  {f \in [0 .. n -> T] : f[0] = b /\ \A i \in 1 .. n : f[i] = G[i][f[i - 1]]}

\* A recursive function on a range exists.
LEMMA Recursion ==
  ASSUME NEW T, NEW b \in T, NEW n \in Nat, NEW G \in [1 .. n -> [T -> T]]
  PROVE  Loops(T, b, n, G) # {}
<1> DEFINE Fits(f, m) == f[0] = b /\ \A i \in 1 .. m : f[i] = G[i][f[i - 1]]
           P == {m \in 0 .. n : \E f \in [0 .. m -> T] : Fits(f, m)}
<1>1. 0 \in P
  <2> DEFINE g == [i \in 0 .. 0 |-> b]
  <2>1. g \in [0 .. 0 -> T] /\ Fits(g, 0)
    OBVIOUS
  <2> HIDE DEF g, Fits
  <2> QED
    BY <2>1
<1>2. ASSUME NEW m \in 1 .. n, m - 1 \in P PROVE m \in P
  <2>1. PICK f \in [0 .. m - 1 -> T] : Fits(f, m - 1)
    BY <1>2
  <2> DEFINE g == [i \in 0 .. m |-> IF i = m THEN G[m][f[m - 1]] ELSE f[i]]
  <2>2. g \in [0 .. m -> T]
    OBVIOUS
  <2>3. \A i \in 0 .. m - 1 : g[i] = f[i]
    OBVIOUS
  <2>4. g[m] = G[m][f[m - 1]]
    OBVIOUS
  <2>5. Fits(g, m)
    <3> HIDE DEF g
    <3>1. g[0] = b
      BY <2>1, <2>3
    <3>2. ASSUME NEW i \in 1 .. m PROVE g[i] = G[i][g[i - 1]]
      <4>1. CASE i = m
        BY <2>3, <2>4, <4>1
      <4>2. CASE i # m
        <5>1. i \in 1 .. m - 1 /\ i - 1 \in 0 .. m - 1 /\ i \in 0 .. m - 1
          BY <4>2
        <5> QED
          BY <2>1, <2>3, <5>1
      <4> QED
        BY <4>1, <4>2
    <3> QED
      BY <3>1, <3>2
  <2> HIDE DEF g, Fits
  <2> QED
    BY <2>2, <2>5
<1>3. \A i \in 0 .. n : i \in P
  <2> HIDE DEF P
  <2> QED
    BY <1>1, <1>2, RangeInduction
<1>4. \E f \in [0 .. n -> T] : Fits(f, n)
  <2> HIDE DEF Fits
  <2> QED
    BY <1>3
<1> QED
  BY <1>4 DEF Loops
-----------------------------------------------------------------------------
(* What the decoders may find.                                             *)

Found == {{}, {"one"}, {"two"}, {"bare"}}

\* Texts make one message or none.
LEMMA FromJsonFound ==
  ASSUME NEW texts PROVE FromJson(texts) \in Found
<1> DEFINE said == {i \in DOMAIN texts : texts[i] # ""}
<1>1. CASE \E i, j \in said : i < j /\ said = {i, j} /\ texts[i] = "open" /\ texts[j] = "close"
  BY <1>1, ZenonT(60) DEF FromJson, Found
<1>2. CASE /\ ~\E i, j \in said : i < j /\ said = {i, j} /\ texts[i] = "open" /\ texts[j] = "close"
           /\ \E i \in said : said = {i}
  <2>1. PICK i \in said : said = {i}
    BY <1>2
  <2>2. {texts[k] : k \in said} = {texts[i]}
    BY <2>1
  <2>3. FromJson(texts) = {texts[i]} \cap {"one", "two", "bare"}
    BY <1>2, <2>2 DEF FromJson
  <2> QED
    BY <2>3 DEF Found
<1>3. CASE ~\E i \in said : said = {i}
  BY <1>3 DEF FromJson, Found
<1> QED
  BY <1>1, <1>2, <1>3

\* An event makes one response or none.
LEMMA TryParseFound ==
  ASSUME NEW event PROVE TryParse(event) \in {{}, {"one"}, {"two"}}
BY FromJsonFound DEF TryParse, Found

\* The empty event holds no response.
LEMMA NothingInNothing == TryParse(<<>>) = {}
BY DEF TryParse, FromJson

-----------------------------------------------------------------------------
(* The loop of parse_sse, line by line.                                    *)

Reading == [event : Seq(Text), found : {{}, {"one"}, {"two"}}]

\* Reading a line keeps the state of the loop in its type.
LEMMA SseLineReads ==
  ASSUME NEW r \in Reading, NEW l \in Line PROVE SseLine(r, l) \in Reading
<1>1. r.event \in Seq(Text) /\ l.text \in Text
  BY DEF Reading, Line
<1>2. Append(r.event, l.text) \in Seq(Text)
  BY <1>1
<1>3. [event |-> <<>>, found |-> TryParse(r.event)] \in Reading
  BY TryParseFound DEF Reading
<1>4. [r EXCEPT !.event = Append(@, l.text)] \in Reading
  BY <1>2 DEF Reading
<1> QED
  BY <1>3, <1>4 DEF SseLine

\* The loop's state after each line, from the state before it.
LEMMA SseLoopReads ==
  ASSUME NEW lines \in Seq(Line)
  PROVE  /\ SseLoop(lines) \in [0 .. Len(lines) -> Reading]
         /\ SseLoop(lines)[0] = [event |-> <<>>, found |-> {}]
         /\ \A i \in 1 .. Len(lines) :
              SseLoop(lines)[i] = SseLine(SseLoop(lines)[i - 1], lines[i])
<1> DEFINE n == Len(lines)
           b == [event |-> <<>>, found |-> {}]
           G == [i \in 1 .. n |-> [r \in Reading |-> SseLine(r, lines[i])]]
           Step(f) == [i \in 0 .. n |-> IF i = 0 THEN b ELSE SseLine(f[i - 1], lines[i])]
<1>1. n \in Nat /\ b \in Reading /\ \A i \in 1 .. n : lines[i] \in Line
  BY DEF Reading
<1>2. G \in [1 .. n -> [Reading -> Reading]]
  <2>1. ASSUME NEW i \in 1 .. n, NEW r \in Reading PROVE SseLine(r, lines[i]) \in Reading
    BY <1>1, SseLineReads
  <2> QED
    BY <2>1
<1>3. Loops(Reading, b, n, G) # {}
  <2> HIDE DEF n, b, G
  <2> QED
    BY <1>1, <1>2, Recursion
<1>4. PICK f \in [0 .. n -> Reading] : f[0] = b /\ \A i \in 1 .. n : f[i] = G[i][f[i - 1]]
  <2> HIDE DEF n, b, G
  <2> QED
    BY <1>3 DEF Loops
<1>5. \A i \in 1 .. n : f[i - 1] \in Reading /\ G[i][f[i - 1]] = SseLine(f[i - 1], lines[i])
  OBVIOUS
<1> HIDE DEF b, G
<1>6. f = Step(f)
  <2>1. \A i \in 1 .. n : f[i] = SseLine(f[i - 1], lines[i])
    BY <1>4, <1>5
  <2>2. \A i \in 0 .. n : i = 0 \/ i \in 1 .. n
    BY <1>1
  <2>3. \A i \in 0 .. n : f[i] = IF i = 0 THEN b ELSE SseLine(f[i - 1], lines[i])
    BY <1>4, <2>1, <2>2
  <2> HIDE DEF n
  <2> QED
    BY <1>1, <2>3
<1> DEFINE g == CHOOSE h : h = Step(h)
<1>7. SseLoop(lines) = g
  BY DEF SseLoop, b
<1>8. g = Step(g)
  <2> HIDE DEF Step
  <2> QED
    BY <1>6
<1> HIDE DEF g
<1>9. g[0] = b /\ \A i \in 1 .. n : g[i] = SseLine(g[i - 1], lines[i])
  <2>1. 0 \in 0 .. n /\ \A i \in 1 .. n : i \in 0 .. n /\ i # 0
    BY <1>1
  <2>2. \A i \in 0 .. n : g[i] = IF i = 0 THEN b ELSE SseLine(g[i - 1], lines[i])
    BY <1>8
  <2> HIDE DEF n
  <2> QED
    BY <2>1, <2>2
<1> DEFINE P == {i \in 0 .. n : g[i] = f[i]}
<1>10. \A i \in 0 .. n : i \in P
  <2>1. 0 \in P
    BY <1>4, <1>9
  <2>2. ASSUME NEW i \in 1 .. n, i - 1 \in P PROVE i \in P
    <3>1. i \in 0 .. n /\ g[i - 1] = f[i - 1]
      BY <1>1, <2>2
    <3> QED
      BY <1>4, <1>5, <1>9, <3>1
  <2> HIDE DEF P, n
  <2> QED
    BY <1>1, <2>1, <2>2, RangeInduction
<1>11. g = f
  BY <1>8, <1>10
<1>12. g \in [0 .. n -> Reading]
  BY <1>11
<1> QED
  BY <1>7, <1>9, <1>12 DEF b
\* A stream makes one response or none.
LEMMA ParseSseFound ==
  ASSUME NEW lines \in Seq(Line) PROVE ParseSse(lines) \in Found
<1>1. SseLoop(lines)[Len(lines)] \in Reading
  <2>1. Len(lines) \in 0 .. Len(lines)
    OBVIOUS
  <2> QED
    BY <2>1, SseLoopReads
<1> QED
  BY <1>1, TryParseFound DEF ParseSse, Reading, Found

\* A body decodes to exactly one message or failure.
LEMMA DecodedOne ==
  ASSUME NEW lines \in Seq(Line) PROVE Decoded(lines) \in {{"one"}, {"two"}, {"bare"}, {"decode"}}
BY ParseSseFound, FromJsonFound DEF Decoded, Found

-----------------------------------------------------------------------------
(* The body, chunk by chunk.                                               *)

\* What is kept and what is on its way make up what is sent, and the size
\* counted is that of what came.
ReceiveInv ==
  /\ TypeOK /\ sent \in Responses
  /\ step = "headers" => rest = sent.lines /\ body = <<>> /\ total = 0
  /\ step = "body" => /\ sent.ok /\ \A n \in sent.declared : ~(n > max)
                      /\ sent.lines = body \o rest /\ total = Len(body)
  /\ Len(rest) <= Len(sent.lines) /\ Len(body) <= max
  /\ step = "body" => total <= max

\* What the server sent is a sequence of lines.
LEMMA Responded == sent \in Responses => sent.lines \in Seq(Line) /\ sent.declared \subseteq Nat
BY ResponsesAssumption

\* Appending groups either way.
LEMMA Grouping ==
  ASSUME NEW b \in Seq(Line), NEW p \in Seq(Line), NEW q \in Seq(Line)
  PROVE  (b \o p) \o q = b \o (p \o q)
OBVIOUS

\* Cutting a sequence in two loses nothing.
LEMMA Split ==
  ASSUME NEW r \in Seq(Line), NEW b \in Seq(Line), NEW n \in 1 .. Len(r)
  PROVE  /\ SubSeq(r, 1, n) \in Seq(Line) /\ SubSeq(r, n + 1, Len(r)) \in Seq(Line)
         /\ Len(SubSeq(r, n + 1, Len(r))) = Len(r) - n
         /\ Len(b \o SubSeq(r, 1, n)) = Len(b) + n
         /\ (b \o SubSeq(r, 1, n)) \o SubSeq(r, n + 1, Len(r)) = b \o r
<1>1. SubSeq(r, 1, n) \in Seq(Line) /\ SubSeq(r, n + 1, Len(r)) \in Seq(Line)
  OBVIOUS
<1>2. Len(SubSeq(r, 1, n)) = n /\ Len(SubSeq(r, n + 1, Len(r))) = Len(r) - n
  OBVIOUS
<1>3. SubSeq(r, 1, n) \o SubSeq(r, n + 1, Len(r)) = r
  <2>1. 1 \in 1 .. Len(r) + 1 /\ n \in 1 - 1 .. Len(r) /\ Len(r) \in n .. Len(r)
    OBVIOUS
  <2> QED
    BY <2>1, ConcatAdjacentSubSeq, SubSeqFull
<1> DEFINE p == SubSeq(r, 1, n)
           q == SubSeq(r, n + 1, Len(r))
<1>4. p \in Seq(Line) /\ q \in Seq(Line) /\ Len(p) = n /\ p \o q = r
  BY <1>1, <1>2, <1>3
<1> HIDE DEF p, q
<1>5. (b \o p) \o q = b \o r
  <2>1. p \in Seq(Line) /\ q \in Seq(Line)
    BY <1>4
  <2>2. ASSUME NEW x \in Seq(Line), NEW y \in Seq(Line), NEW z \in Seq(Line)
        PROVE  (x \o y) \o z = x \o (y \o z)
    BY Grouping, SMTT(60)
  <2>3. (b \o p) \o q = b \o (p \o q)
    BY <2>1, <2>2, Zenon
  <2> QED
    BY <1>4, <2>3
<1>6. Len(b \o p) = Len(b) + n
  BY <1>4, ConcatProperties
<1> QED
  BY <1>1, <1>2, <1>5, <1>6 DEF p, q

\* A single outcome is a known one, alone.
LEMMA OneOutcome ==
  ASSUME NEW r \in {"status", "large", "read", "decode", "one", "two", "bare"}
  PROVE  {r} \subseteq {"one", "two", "bare"} \cup Failure /\ Cardinality({r}) = 1
BY FS_Singleton DEF Failure

LEMMA ReceiveInit == Init => ReceiveInv
<1> SUFFICES ASSUME Init PROVE ReceiveInv
  OBVIOUS
<1>1. sent.lines \in Seq(Line)
  BY Responded DEF Init
<1>2. Cardinality({}) = 0 /\ Len(<<>>) = 0 /\ <<>> \in Seq(Line)
  BY FS_EmptySet
<1>3. max \in Nat
  BY LimitsAssumption DEF Init
<1>4. Len(sent.lines) \in Nat
  BY <1>1
<1> QED
  BY <1>1, <1>2, <1>3, <1>4 DEF Init, ReceiveInv, TypeOK

LEMMA ReceiveStep == ReceiveInv /\ [Next]_vars => ReceiveInv'
<1> SUFFICES ASSUME ReceiveInv, [Next]_vars PROVE ReceiveInv'
  OBVIOUS
<1>1. /\ sent.lines \in Seq(Line) /\ sent.declared \subseteq Nat /\ max \in Nat
      /\ rest \in Seq(Line) /\ body \in Seq(Line) /\ total \in Nat
      /\ Len(rest) \in Nat /\ Len(body) \in Nat /\ Len(sent.lines) \in Nat
  <2>1. rest \in Seq(Line) /\ body \in Seq(Line) /\ total \in Nat /\ max \in Limits
    BY DEF ReceiveInv, TypeOK
  <2>2. sent.lines \in Seq(Line) /\ sent.declared \subseteq Nat
    BY Responded DEF ReceiveInv
  <2>3. \A q \in Seq(Line) : Len(q) \in Nat
    OBVIOUS
  <2> QED
    BY <2>1, <2>2, <2>3, LimitsAssumption
<1>2. ASSUME HeadersArrive PROVE ReceiveInv'
  <2>1. UNCHANGED <<sent, max, rest, total, body>>
    BY <1>2 DEF HeadersArrive
  <2>2. step = "headers" /\ Cardinality(outcome) = 0
    BY <1>2 DEF HeadersArrive, ReceiveInv, TypeOK
  <2>3. CASE /\ step' = "done"
             /\ outcome' = {"status"} \/ outcome' = {"large"}
    <3>1. TypeOK'
      BY <2>1, <2>3, OneOutcome DEF ReceiveInv, TypeOK
    <3> QED
      BY <2>1, <2>3, <3>1 DEF ReceiveInv
  <2>4. CASE /\ step' = "body" /\ outcome' = outcome
             /\ sent.ok /\ \A n \in sent.declared : ~(n > max)
    <3>1. TypeOK'
      BY <2>1, <2>2, <2>4 DEF ReceiveInv, TypeOK
    <3>2. rest = sent.lines /\ body = <<>> /\ total = 0
      BY <2>2 DEF ReceiveInv
    <3>3. sent.lines = body \o rest /\ total = Len(body)
      BY <1>1, <3>2, ConcatEmptySeq
    <3> QED
      BY <1>1, <2>1, <2>4, <3>1, <3>2, <3>3 DEF ReceiveInv
  <2> QED
    BY <1>2, <2>3, <2>4 DEF HeadersArrive, Return
<1>3. ASSUME NEW n \in 1 .. Len(rest), ChunkArrives(n) PROVE ReceiveInv'
  <2>1. /\ step = "body" /\ UNCHANGED <<sent, max>>
        /\ rest' = SubSeq(rest, n + 1, Len(rest)) /\ total' = total + n
    BY <1>3 DEF ChunkArrives, Counted
  <2>2. n \in 1 .. Len(rest) /\ n \in Nat
    BY <1>1, <1>3
  <2>3. /\ SubSeq(rest, 1, n) \in Seq(Line) /\ rest' \in Seq(Line)
        /\ Len(rest') = Len(rest) - n
        /\ Len(body \o SubSeq(rest, 1, n)) = Len(body) + n
        /\ (body \o SubSeq(rest, 1, n)) \o rest' = body \o rest
    BY <1>1, <2>1, <2>2, Split
  <2>4. /\ sent.ok /\ \A k \in sent.declared : ~(k > max)
        /\ sent.lines = body \o rest /\ total = Len(body)
        /\ Len(rest) <= Len(sent.lines) /\ Len(body) <= max
    BY <2>1 DEF ReceiveInv
  <2>5. CASE /\ step' = "done" /\ outcome' = {"large"} /\ body' = body
    <3>1. TypeOK'
      BY <1>1, <2>1, <2>2, <2>3, <2>5, OneOutcome DEF ReceiveInv, TypeOK
    <3> QED
      BY <1>1, <2>1, <2>2, <2>3, <2>4, <2>5, <3>1 DEF ReceiveInv
  <2>6. CASE /\ ~(total' > max) /\ body' = body \o SubSeq(rest, 1, n)
             /\ UNCHANGED <<step, outcome>>
    <3>1. body' \in Seq(Line)
      BY <1>1, <2>3, <2>6, ConcatProperties
    <3>2. TypeOK'
      BY <1>1, <2>1, <2>2, <2>3, <2>6, <3>1, SMTT(60) DEF ReceiveInv, TypeOK
    <3>3. total' = Len(body') /\ Len(body') <= max /\ total' <= max /\ Len(rest') <= Len(sent.lines)
      BY <1>1, <2>1, <2>2, <2>3, <2>4, <2>6
    <3> QED
      BY <2>1, <2>3, <2>4, <2>6, <3>2, <3>3 DEF ReceiveInv
  <2> QED
    BY <1>3, <2>5, <2>6 DEF ChunkArrives, Return
<1>4. ASSUME BodyEnds PROVE ReceiveInv'
  <2>1. step' = "done" /\ outcome' = Decoded(body) /\ UNCHANGED <<sent, max, rest, total, body>>
    BY <1>4 DEF BodyEnds, Return
  <2>2. outcome' \in {{"one"}, {"two"}, {"bare"}, {"decode"}}
    BY <1>1, <2>1, DecodedOne
  <2>3. TypeOK'
    BY <2>1, <2>2, OneOutcome DEF ReceiveInv, TypeOK
  <2> QED
    BY <2>1, <2>3 DEF ReceiveInv
<1>5. ASSUME BodyBreaks PROVE ReceiveInv'
  <2>1. step' = "done" /\ outcome' = {"read"} /\ UNCHANGED <<sent, max, rest, total, body>>
    BY <1>5 DEF BodyBreaks, Return
  <2>2. TypeOK'
    BY <2>1, OneOutcome DEF ReceiveInv, TypeOK
  <2> QED
    BY <2>1, <2>2 DEF ReceiveInv
<1>6. ASSUME UNCHANGED vars PROVE ReceiveInv'
  BY <1>6 DEF vars, ReceiveInv, TypeOK
<1> QED
  BY <1>2, <1>3, <1>4, <1>5, <1>6 DEF Next

LEMMA Receiving == Spec => []ReceiveInv
<1> QED
  BY ReceiveInit, ReceiveStep, PTL DEF Spec

\* The shape of a request under way (http.rs:131-145), for bodies of any
\* length; it returns one result.
THEOREM TypeCorrect == Spec => []TypeOK
<1>1. ReceiveInv => TypeOK
  BY DEF ReceiveInv
<1> QED
  BY <1>1, Receiving, PTL

\* However a body of any length is cut into chunks, no more of it than
\* max_response_bytes is kept (the loop at http.rs:137-145).
THEOREM MemoryBounded == Spec => []KeepsAtMostMax
<1>1. ReceiveInv => KeepsAtMostMax
  BY DEF ReceiveInv, KeepsAtMostMax
<1> QED
  BY <1>1, Receiving, PTL

-----------------------------------------------------------------------------
(* The data of a stretch, as it grows line by line.                        *)

Marked(lines, a, i) == {j \in a .. i : lines[j].data}
Marks(lines, a, i) == Cardinality(Marked(lines, a, i))

\* The positions of data lines up to a line are finitely many.
LEMMA MarkedFinite ==
  ASSUME NEW lines, NEW a \in Nat, NEW i \in Nat
  PROVE  /\ IsFiniteSet(Marked(lines, a, i)) /\ Marks(lines, a, i) \in Nat
         /\ \A m \in Marked(lines, a, i) : Marks(lines, a, m) \in Nat /\ Marks(lines, a, m) <= Marks(lines, a, i)
<1>1. \A m \in Nat : IsFiniteSet(Marked(lines, a, m))
  <2>1. ASSUME NEW m \in Nat PROVE IsFiniteSet(Marked(lines, a, m))
    <3>1. IsFiniteSet(a .. m) /\ Marked(lines, a, m) \in SUBSET (a .. m)
      BY FS_Interval DEF Marked
    <3> QED
      BY <3>1, FS_Subset
  <2> QED
    BY <2>1
<1>2. \A m \in Nat : Marks(lines, a, m) \in Nat
  BY <1>1, FS_CardinalityType DEF Marks
<1>3. ASSUME NEW m \in Marked(lines, a, i) PROVE Marks(lines, a, m) \in Nat /\ Marks(lines, a, m) <= Marks(lines, a, i)
  <2>1. m \in Nat /\ Marked(lines, a, m) \in SUBSET Marked(lines, a, i)
    BY DEF Marked
  <2>2. Marks(lines, a, m) <= Marks(lines, a, i)
    BY <1>1, <2>1, FS_Subset DEF Marks
  <2> QED
    BY <1>2, <2>1, <2>2
<1> QED
  BY <1>1, <1>2, <1>3

\* One more data line adds one position, any other line none.
LEMMA MarkedGrows ==
  ASSUME NEW lines, NEW a \in Nat, NEW i \in Nat, a <= i + 1
  PROVE  /\ lines[i + 1].data =>
              /\ Marked(lines, a, i + 1) = Marked(lines, a, i) \cup {i + 1}
              /\ i + 1 \notin Marked(lines, a, i)
              /\ Marks(lines, a, i + 1) = Marks(lines, a, i) + 1
         /\ ~lines[i + 1].data => Marked(lines, a, i + 1) = Marked(lines, a, i)
<1>1. a .. i + 1 = (a .. i) \cup {i + 1} /\ i + 1 \notin a .. i
  OBVIOUS
<1>2. i + 1 \notin Marked(lines, a, i)
  BY <1>1 DEF Marked
<1>3. ~lines[i + 1].data => Marked(lines, a, i + 1) = Marked(lines, a, i)
  BY <1>1 DEF Marked
<1>4. lines[i + 1].data => Marked(lines, a, i + 1) = Marked(lines, a, i) \cup {i + 1}
  BY <1>1 DEF Marked
<1>5. IsFiniteSet(Marked(lines, a, i))
  BY MarkedFinite
<1>6. lines[i + 1].data => Marks(lines, a, i + 1) = Marks(lines, a, i) + 1
  BY <1>2, <1>4, <1>5, FS_AddElement DEF Marks
<1> QED
  BY <1>2, <1>3, <1>4, <1>6

\* The line that holds the k-th of the data.
LineOf(lines, a, i, k) == CHOOSE m \in Marked(lines, a, i) : Marks(lines, a, m) = k

\* The data of a stretch is a sequence of as many texts as it has data lines.
LEMMA DataOfIs ==
  ASSUME NEW lines, NEW a, NEW i
  PROVE  DataOf(lines, <<a, i>>) =
           [k \in 1 .. Marks(lines, a, i) |-> lines[LineOf(lines, a, i, k)].text]
BY DEF DataOf, Marks, Marked, LineOf

\* A data line keeps its place when the stretch grows.
LEMMA LineStays ==
  ASSUME NEW lines, NEW a \in Nat, NEW i \in Nat, a <= i + 1, lines[i + 1].data,
         NEW k \in 1 .. Marks(lines, a, i)
  PROVE  LineOf(lines, a, i + 1, k) = LineOf(lines, a, i, k)
<1>1. \A m : m \in Marked(lines, a, i + 1) /\ Marks(lines, a, m) = k
               <=> m \in Marked(lines, a, i) /\ Marks(lines, a, m) = k
  <2>1. Marks(lines, a, i) \in Nat
    BY MarkedFinite
  <2>2. Marks(lines, a, i + 1) # k
    BY <2>1, MarkedGrows
  <2> QED
    BY <2>2, MarkedGrows
<1> HIDE DEF Marked, Marks
<1> QED
  BY <1>1, Zenon DEF LineOf

\* Growing a stretch by a data line appends its text to the data.
LEMMA DataAppends ==
  ASSUME NEW lines, NEW a \in Nat, NEW i \in Nat, a <= i + 1, lines[i + 1].data,
         NEW event \in Seq(Text), event = DataOf(lines, <<a, i>>), lines[i + 1].text \in Text
  PROVE  DataOf(lines, <<a, i + 1>>) = Append(event, lines[i + 1].text)
<1> DEFINE c == Marks(lines, a, i)
           longer == DataOf(lines, <<a, i + 1>>)
           appended == Append(event, lines[i + 1].text)
<1>1. c \in Nat /\ Marks(lines, a, i + 1) = c + 1
  BY MarkedFinite, MarkedGrows
<1>2. event = [k \in 1 .. c |-> lines[LineOf(lines, a, i, k)].text]
  BY DataOfIs
<1>3. Len(event) = c
  <2>1. DOMAIN event = 1 .. c /\ DOMAIN event = 1 .. Len(event) /\ Len(event) \in Nat
    BY <1>2
  <2> HIDE DEF c
  <2> QED
    BY <1>1, <2>1
<1>4. longer = [k \in 1 .. c + 1 |-> lines[LineOf(lines, a, i + 1, k)].text]
  BY <1>1, DataOfIs
<1>5. LineOf(lines, a, i + 1, c + 1) = i + 1
  <2>1. \A m \in Marked(lines, a, i) : Marks(lines, a, m) # c + 1
    BY <1>1, MarkedFinite
  <2>2. \A m : m \in Marked(lines, a, i + 1) /\ Marks(lines, a, m) = c + 1 <=> m = i + 1
    <3> HIDE DEF c
    <3> QED
      BY <1>1, <2>1, MarkedGrows
  <2> QED
    BY <2>2 DEF LineOf
<1>6. \A k \in 1 .. c : LineOf(lines, a, i + 1, k) = LineOf(lines, a, i, k)
  BY LineStays
<1>7. appended \in Seq(Text) /\ Len(appended) = c + 1
  BY <1>3
<1>8. \A k \in 1 .. c + 1 : appended[k] = IF k = c + 1 THEN lines[i + 1].text ELSE event[k]
  BY <1>3
<1>9. ASSUME NEW k \in 1 .. c + 1 PROVE longer[k] = appended[k]
  <2>1. CASE k = c + 1
    BY <1>4, <1>5, <1>8, <2>1
  <2>2. CASE k # c + 1
    <3>1. k \in 1 .. c
      <4> HIDE DEF c
      <4> QED
        BY <1>1, <2>2
    <3> HIDE DEF c, longer, appended
    <3> QED
      BY <1>2, <1>4, <1>6, <1>8, <2>2, <3>1
  <2> QED
    BY <2>1, <2>2
<1> HIDE DEF c, longer, appended
<1>10. appended = [k \in 1 .. c + 1 |-> appended[k]]
  BY <1>1, <1>7
<1>11. longer = [k \in 1 .. c + 1 |-> longer[k]]
  BY <1>4
<1>12. longer = appended
  BY <1>9, <1>10, <1>11
<1> QED
  BY <1>12 DEF longer, appended

\* Growing a stretch by another line keeps its data.
LEMMA DataKeeps ==
  ASSUME NEW lines, NEW a \in Nat, NEW i \in Nat, a <= i + 1, ~lines[i + 1].data
  PROVE  DataOf(lines, <<a, i + 1>>) = DataOf(lines, <<a, i>>)
<1>1. Marked(lines, a, i + 1) = Marked(lines, a, i)
  BY MarkedGrows
<1>2. Marks(lines, a, i + 1) = Marks(lines, a, i)
  BY <1>1 DEF Marks
<1>3. \A k : LineOf(lines, a, i + 1, k) = LineOf(lines, a, i, k)
  BY <1>1 DEF LineOf
<1>4. DataOf(lines, <<a, i + 1>>) =
        [k \in 1 .. Marks(lines, a, i + 1) |-> lines[LineOf(lines, a, i + 1, k)].text]
  BY DataOfIs
<1>5. DataOf(lines, <<a, i>>) = [k \in 1 .. Marks(lines, a, i) |-> lines[LineOf(lines, a, i, k)].text]
  BY DataOfIs
<1> QED
  BY <1>2, <1>3, <1>4, <1>5

\* An empty stretch has no data.
LEMMA NoData ==
  ASSUME NEW lines, NEW i \in Nat
  PROVE  DataOf(lines, <<i + 1, i>>) = <<>>
<1>1. Marked(lines, i + 1, i) = {}
  BY DEF Marked
<1>2. Marks(lines, i + 1, i) = 0
  BY <1>1, FS_EmptySet DEF Marks
<1>3. DataOf(lines, <<i + 1, i>>) =
        [k \in 1 .. Marks(lines, i + 1, i) |-> lines[LineOf(lines, i + 1, i, k)].text]
  BY DataOfIs
<1>4. 1 .. Marks(lines, i + 1, i) = {}
  BY <1>2
<1> DEFINE d == DataOf(lines, <<i + 1, i>>)
<1>5. d \in [1 .. 0 -> Text]
  BY <1>2, <1>3
<1> HIDE DEF d
<1>6. d \in Seq(Text) /\ Len(d) = 0
  BY <1>5
<1> QED
  BY <1>6, EmptySeq DEF d

-----------------------------------------------------------------------------
(* What parse_sse has read after i lines, said of the stretches.           *)

\* The stretch that is being read after i lines began at a (at i + 1: not yet).
Begun(lines, a, i) ==
  /\ a \in 1 .. i + 1 /\ \A k \in a .. i : ~Blank(lines, k)
  /\ a = 1 \/ Blank(lines, a - 1)

Good(lines) == {s \in Stretches(lines) : TryParse(DataOf(lines, s)) # {}}

\* Until a response is found, the stretches read hold none and the event is the
\* data of the one being read; then it is that of the first that holds one.
ReadSoFar(lines, r, i) ==
  /\ r.found = {} => \E a \in 1 .. i + 1 : /\ Begun(lines, a, i) /\ r.event = DataOf(lines, <<a, i>>)
                                           /\ \A s \in Good(lines) : a <= s[1]
  /\ r.found # {} => \E s \in Good(lines) : /\ r.found = TryParse(DataOf(lines, s))
                                            /\ \A t \in Good(lines) : s[1] <= t[1]

LEMMA StretchShape ==
  ASSUME NEW lines \in Seq(Line), NEW s \in Stretches(lines)
  PROVE  /\ s[1] \in 1 .. Len(lines) /\ s[2] \in s[1] .. Len(lines) /\ s = <<s[1], s[2]>>
         /\ \A k \in s[1] .. s[2] : ~Blank(lines, k)
         /\ s[1] = 1 \/ Blank(lines, s[1] - 1)
         /\ s[2] = Len(lines) \/ Blank(lines, s[2] + 1)
BY DEF Stretches

\* Where a stretch ends, no other begins before the blank line.
LEMMA StretchEnds ==
  ASSUME NEW lines \in Seq(Line), NEW i \in 0 .. Len(lines), NEW a, Begun(lines, a, i),
         i = Len(lines) \/ Blank(lines, i + 1),
         NEW s \in Stretches(lines), a <= s[1]
  PROVE  s = <<a, i>> \/ i + 2 <= s[1]
<1> DEFINE b == s[1]
           e == s[2]
           n == Len(lines)
<1>1. /\ b \in 1 .. n /\ e \in b .. n /\ s = <<b, e>>
      /\ \A k \in b .. e : ~Blank(lines, k)
      /\ b = 1 \/ Blank(lines, b - 1)
      /\ e = n \/ Blank(lines, e + 1)
  BY StretchShape
<1>2. n \in Nat /\ a \in 1 .. i + 1 /\ a <= b /\ \A k \in a .. i : ~Blank(lines, k)
  BY DEF Begun
<1>3. i \in 0 .. n /\ (i = n \/ Blank(lines, i + 1))
  OBVIOUS
<1> HIDE DEF b, e, n
<1> SUFFICES ASSUME ~(i + 2 <= b) PROVE s = <<a, i>>
  BY DEF b
<1>4. b <= i + 1
  BY <1>1, <1>2, <1>3
<1>5. b # i + 1
  <2>1. b = i + 1 => i # n /\ b \in b .. e
    BY <1>1, <1>2, <1>3
  <2> QED
    BY <1>1, <1>3, <2>1
<1>6. b = a
  <2>1. b # a => b - 1 \in a .. i /\ b # 1
    BY <1>1, <1>2, <1>3, <1>4, <1>5
  <2> QED
    BY <1>1, <1>2, <2>1
<1>7. ~(e < i)
  <2>1. e < i => e + 1 \in a .. i /\ e # n
    BY <1>1, <1>2, <1>3, <1>6
  <2> QED
    BY <1>1, <1>2, <2>1
<1>8. ~(e > i)
  <2>1. e > i => i + 1 \in b .. e /\ i # n
    BY <1>1, <1>2, <1>3, <1>6, <1>4, <1>5
  <2> QED
    BY <1>1, <1>3, <2>1
<1>9. e = i
  BY <1>1, <1>2, <1>3, <1>7, <1>8
<1> QED
  BY <1>1, <1>6, <1>9

LEMMA StretchIs ==
  ASSUME NEW lines \in Seq(Line), NEW i \in 0 .. Len(lines), NEW a, Begun(lines, a, i), a # i + 1,
         i = Len(lines) \/ Blank(lines, i + 1)
  PROVE  <<a, i>> \in Stretches(lines)
<1>1. a \in 1 .. Len(lines) /\ i \in 1 .. Len(lines) /\ a <= i
  BY DEF Begun
<1> QED
  BY <1>1 DEF Begun, Stretches

LEMMA ReadNext ==
  ASSUME NEW lines \in Seq(Line), NEW i \in Nat, i + 1 \in 1 .. Len(lines),
         NEW r \in Reading, ReadSoFar(lines, r, i)
  PROVE  ReadSoFar(lines, SseLine(r, lines[i + 1]), i + 1)
<1> DEFINE l == lines[i + 1]
           next == SseLine(r, l)
<1>1. l \in Line /\ l.text \in Text /\ l.data \in BOOLEAN /\ r.event \in Seq(Text)
  <2>1. l \in Line
    BY ElementOfSeq
  <2> HIDE DEF l
  <2> QED
    BY <2>1 DEF Line, Reading
<1>2. CASE r.found # {}
  <2>1. next = r
    BY <1>2 DEF SseLine
  <2> HIDE DEF next
  <2> QED
    BY <1>2, <2>1 DEF ReadSoFar, next
<1>3. CASE r.found = {}
  <2>1. PICK a \in 1 .. i + 1 : /\ Begun(lines, a, i) /\ r.event = DataOf(lines, <<a, i>>)
                                /\ \A s \in Good(lines) : a <= s[1]
    BY <1>3 DEF ReadSoFar
  <2>2. a \in Nat /\ a <= i + 1 /\ a \in 1 .. (i + 1) + 1
    OBVIOUS
  <2>3. ~Blank(lines, i + 1) => Begun(lines, a, i + 1)
    <3>1. \A k \in a .. i + 1 : k = i + 1 \/ k \in a .. i
      BY <2>2
    <3> QED
      BY <2>1, <2>2, <3>1 DEF Begun
  <2>4. CASE l.data
    <3>1. next.found = {} /\ next.event = Append(r.event, l.text)
      BY <1>1, <1>3, <2>4 DEF SseLine, Reading
    <3>2. DataOf(lines, <<a, i + 1>>) = Append(r.event, l.text)
      BY <1>1, <2>1, <2>2, <2>4, DataAppends
    <3>3. Begun(lines, a, i + 1)
      BY <2>3, <2>4 DEF Blank
    <3> HIDE DEF next, l
    <3> QED
      BY <2>1, <2>2, <3>1, <3>2, <3>3 DEF ReadSoFar, next, l
  <2>5. CASE ~l.data /\ l.text # ""
    <3>1. next = r
      BY <1>3, <2>5 DEF SseLine
    <3>2. DataOf(lines, <<a, i + 1>>) = DataOf(lines, <<a, i>>)
      BY <2>2, <2>5, DataKeeps
    <3>3. Begun(lines, a, i + 1)
      BY <2>3, <2>5 DEF Blank
    <3> HIDE DEF next, l
    <3> QED
      BY <1>3, <2>1, <2>2, <3>1, <3>2, <3>3 DEF ReadSoFar, next, l
  <2>6. CASE ~l.data /\ l.text = ""
    <3>1. next.found = TryParse(r.event) /\ next.event = <<>>
      BY <1>3, <2>6 DEF SseLine
    <3>2. Blank(lines, i + 1)
      BY <2>6 DEF Blank
    <3>3. i \in 0 .. Len(lines)
      OBVIOUS
    <3>4. \A s \in Good(lines) : s = <<a, i>> \/ i + 2 <= s[1]
      BY <2>1, <3>2, <3>3, StretchEnds DEF Good
    <3>5. CASE next.found = {}
      <4>1. \A s \in Good(lines) : i + 2 <= s[1]
        BY <2>1, <3>1, <3>4, <3>5 DEF Good
      <4>2. Begun(lines, i + 2, i + 1)
        <5>1. (i + 2) - 1 = i + 1 /\ i + 2 \in 1 .. (i + 1) + 1 /\ (i + 2) .. (i + 1) = {}
          OBVIOUS
        <5> QED
          BY <3>2, <5>1 DEF Begun
      <4>3. next.event = DataOf(lines, <<i + 2, i + 1>>)
        <5>1. i + 1 \in Nat /\ (i + 1) + 1 = i + 2
          OBVIOUS
        <5> QED
          BY <3>1, <5>1, NoData
      <4>4. i + 2 \in 1 .. (i + 1) + 1
        OBVIOUS
      <4> HIDE DEF next
      <4> QED
        BY <3>5, <4>1, <4>2, <4>3, <4>4 DEF ReadSoFar, next
    <3>6. CASE next.found # {}
      <4>1. a # i + 1
        <5>1. a = i + 1 => r.event = <<>>
          BY <2>1, NoData
        <5> QED
          BY <3>1, <3>6, <5>1, NothingInNothing
      <4>2. <<a, i>> \in Good(lines)
        BY <2>1, <3>1, <3>2, <3>3, <3>6, <4>1, StretchIs DEF Good
      <4>3. next.found = TryParse(DataOf(lines, <<a, i>>)) /\ \A t \in Good(lines) : <<a, i>>[1] <= t[1]
        BY <2>1, <3>1
      <4> HIDE DEF next
      <4> QED
        BY <3>6, <4>2, <4>3 DEF ReadSoFar, next
    <3> QED
      BY <3>5, <3>6
  <2> QED
    BY <1>1, <2>4, <2>5, <2>6
<1> QED
  BY <1>2, <1>3

LEMMA ReadToTheEnd ==
  ASSUME NEW lines \in Seq(Line)
  PROVE  ReadSoFar(lines, SseLoop(lines)[Len(lines)], Len(lines))
<1> DEFINE n == Len(lines)
           P == {i \in 0 .. n : ReadSoFar(lines, SseLoop(lines)[i], i)}
<1>1. n \in Nat
  OBVIOUS
<1>2. 0 \in P
  <2>1. Begun(lines, 1, 0)
    BY DEF Begun
  <2>2. DataOf(lines, <<1, 0>>) = <<>>
    <3>1. 0 + 1 = 1 /\ 0 \in Nat
      OBVIOUS
    <3> QED
      BY <3>1, NoData
  <2>3. \A s \in Good(lines) : 1 <= s[1]
    BY StretchShape DEF Good
  <2>4. SseLoop(lines)[0].found = {} /\ SseLoop(lines)[0].event = <<>>
    BY SseLoopReads
  <2>5. 1 \in 1 .. 0 + 1
    OBVIOUS
  <2>6. ReadSoFar(lines, SseLoop(lines)[0], 0)
    BY <2>1, <2>2, <2>3, <2>4, <2>5 DEF ReadSoFar
  <2> QED
    BY <1>1, <2>6
<1>3. ASSUME NEW i \in 1 .. n, i - 1 \in P PROVE i \in P
  <2>1. i - 1 \in 0 .. n /\ ReadSoFar(lines, SseLoop(lines)[i - 1], i - 1)
    BY <1>3
  <2>2. i - 1 \in Nat /\ (i - 1) + 1 = i /\ i \in 1 .. Len(lines)
    BY <1>1
  <2>3. SseLoop(lines)[i - 1] \in Reading /\ SseLoop(lines)[i] = SseLine(SseLoop(lines)[i - 1], lines[i])
    BY <2>1, <2>2, SseLoopReads
  <2>4. ReadSoFar(lines, SseLine(SseLoop(lines)[i - 1], lines[(i - 1) + 1]), (i - 1) + 1)
    BY <2>1, <2>2, <2>3, ReadNext
  <2>5. ReadSoFar(lines, SseLoop(lines)[i], i)
    BY <2>2, <2>3, <2>4
  <2> QED
    BY <1>1, <2>5
<1>4. \A i \in 0 .. n : i \in P
  <2> HIDE DEF P, n
  <2> QED
    BY <1>1, <1>2, <1>3, RangeInduction
<1>5. n \in 0 .. n
  BY <1>1
<1> QED
  BY <1>4, <1>5

\* What parse_sse's doc comment says (http.rs:180-182): the loop returns the
\* response of the first event of the body that holds one, for every body.
THEOREM ParsesTheFirst ==
  ASSUME NEW lines \in Seq(Line) PROVE ParseSse(lines) = FirstResponse(lines)
<1> DEFINE n == Len(lines)
           end == SseLoop(lines)[n]
           first == CHOOSE s \in Good(lines) : \A t \in Good(lines) : s[1] <= t[1]
<1>1. ParseSse(lines) = IF end.found # {} THEN end.found ELSE TryParse(end.event)
  BY DEF ParseSse
<1>2. FirstResponse(lines) = IF Good(lines) = {} THEN {} ELSE TryParse(DataOf(lines, first))
  BY DEF FirstResponse, Good
<1>3. ReadSoFar(lines, end, n) /\ n \in Nat /\ n \in 0 .. Len(lines)
  BY ReadToTheEnd
<1>4. ASSUME NEW s \in Good(lines), \A t \in Good(lines) : s[1] <= t[1] PROVE s = first
  <2>1. first \in Good(lines) /\ \A t \in Good(lines) : first[1] <= t[1]
    BY <1>4
  <2> HIDE DEF first
  <2>2. s[1] = first[1]
    <3>1. s[1] <= first[1] /\ first[1] <= s[1]
      BY <1>4, <2>1
    <3>2. s[1] \in Nat /\ first[1] \in Nat
      BY <2>1, StretchShape DEF Good
    <3> QED
      BY <3>1, <3>2
  <2>3. s[2] = first[2]
    <3>1. ASSUME NEW x \in Good(lines), NEW y \in Good(lines), x[1] = y[1], x[2] < y[2] PROVE FALSE
      <4>1. /\ x[1] \in 1 .. n /\ x[2] \in x[1] .. n /\ y[2] \in y[1] .. n
            /\ \A k \in y[1] .. y[2] : ~Blank(lines, k)
            /\ x[2] = n \/ Blank(lines, x[2] + 1)
        BY StretchShape DEF Good
      <4>2. x[2] # n /\ x[2] + 1 \in y[1] .. y[2]
        BY <1>3, <3>1, <4>1
      <4> QED
        BY <4>1, <4>2
    <3>2. s[2] \in Nat /\ first[2] \in Nat
      <4>1. \A x \in Good(lines) : x[1] \in 1 .. n /\ x[2] \in x[1] .. n
        BY StretchShape DEF Good
      <4> QED
        BY <2>1, <4>1
    <3>3. ~(s[2] < first[2]) /\ ~(first[2] < s[2])
      BY <2>1, <2>2, <3>1
    <3> QED
      BY <3>2, <3>3
  <2> QED
    BY <2>1, <2>2, <2>3, StretchShape DEF Good
<1> HIDE DEF end, first, n
<1>5. CASE end.found # {}
  <2>1. PICK s \in Good(lines) : end.found = TryParse(DataOf(lines, s)) /\ \A t \in Good(lines) : s[1] <= t[1]
    BY <1>3, <1>5 DEF ReadSoFar
  <2>2. s = first
    BY <1>4, <2>1
  <2> QED
    BY <1>1, <1>2, <1>5, <2>1, <2>2
<1>6. CASE end.found = {}
  <2>1. PICK a \in 1 .. n + 1 : /\ Begun(lines, a, n) /\ end.event = DataOf(lines, <<a, n>>)
                                /\ \A s \in Good(lines) : a <= s[1]
    BY <1>3, <1>6 DEF ReadSoFar
  <2>2. \A s \in Good(lines) : s = <<a, n>>
    <3>1. ASSUME NEW s \in Good(lines) PROVE s = <<a, n>>
      <4>1. s = <<a, n>> \/ n + 2 <= s[1]
        BY <1>3, <2>1, StretchEnds DEF Good, n
      <4>2. s[1] \in 1 .. n
        BY StretchShape DEF Good, n
      <4> QED
        BY <1>3, <4>1, <4>2
    <3> QED
      BY <3>1
  <2>3. CASE TryParse(end.event) = {}
    <3>1. Good(lines) = {}
      BY <2>1, <2>2, <2>3 DEF Good
    <3> QED
      BY <1>1, <1>2, <1>6, <2>3, <3>1
  <2>4. CASE TryParse(end.event) # {}
    <3>1. a # n + 1
      <4>1. a = n + 1 => end.event = <<>>
        BY <1>3, <2>1, NoData
      <4> QED
        BY <2>4, <4>1, NothingInNothing
    <3>2. <<a, n>> \in Good(lines)
      BY <1>3, <2>1, <2>4, <3>1, StretchIs DEF Good, n
    <3>3. <<a, n>> = first
      BY <1>4, <2>1, <3>2
    <3> QED
      BY <1>1, <1>2, <1>6, <2>1, <3>2, <3>3
  <2> QED
    BY <2>3, <2>4
<1> QED
  BY <1>5, <1>6

-----------------------------------------------------------------------------
(* What request() returns.                                                 *)

LEMMA ReturnInit == Init => FirstResponseReturned
BY DEF Init, FirstResponseReturned

LEMMA ReturnStep == ReceiveInv /\ FirstResponseReturned /\ [Next]_vars => FirstResponseReturned'
<1> SUFFICES ASSUME ReceiveInv, FirstResponseReturned, [Next]_vars PROVE FirstResponseReturned'
  OBVIOUS
<1>1. /\ sent.lines \in Seq(Line) /\ max \in Nat /\ rest \in Seq(Line) /\ body \in Seq(Line)
      /\ Len(rest) \in Nat /\ Len(body) \in Nat
  <2>1. rest \in Seq(Line) /\ body \in Seq(Line) /\ max \in Limits
    BY DEF ReceiveInv, TypeOK
  <2>2. sent.lines \in Seq(Line)
    BY Responded DEF ReceiveInv
  <2> QED
    BY <2>1, <2>2, LimitsAssumption
\* While the body is read, no limit has been passed.
<1>2. ASSUME step = "body"
      PROVE  /\ \A n \in sent.declared : ~(n > max)
             /\ sent.lines = body \o rest /\ Len(sent.lines) - Len(rest) = total
             /\ ~(total > max) /\ total \in Nat /\ Len(sent.lines) = total + Len(rest)
  <2>1. /\ \A n \in sent.declared : ~(n > max)
        /\ sent.lines = body \o rest /\ total = Len(body) /\ total <= max
    BY <1>2 DEF ReceiveInv
  <2>2. Len(sent.lines) = Len(body) + Len(rest)
    BY <1>1, <2>1, ConcatProperties
  <2> QED
    BY <1>1, <2>1, <2>2
<1>3. ASSUME HeadersArrive PROVE FirstResponseReturned'
  <2>1. UNCHANGED <<sent, max, rest, total, body>>
    BY <1>3 DEF HeadersArrive
  <2>2. CASE ~sent.ok
    BY <2>1, <2>2 DEF FirstResponseReturned
  <2>3. CASE \E n \in sent.declared : n > max /\ outcome' = {"large"}
    BY <2>1, <2>3 DEF FirstResponseReturned
  <2>4. CASE step' = "body"
    BY <2>4 DEF FirstResponseReturned
  <2> QED
    BY <1>3, <2>2, <2>3, <2>4 DEF HeadersArrive, Return
<1>4. ASSUME NEW n \in 1 .. Len(rest), ChunkArrives(n) PROVE FirstResponseReturned'
  <2>1. /\ step = "body" /\ UNCHANGED <<sent, max>>
        /\ rest' = SubSeq(rest, n + 1, Len(rest)) /\ total' = total + n
    BY <1>4 DEF ChunkArrives, Counted
  <2>2. n \in 1 .. Len(rest) /\ n \in Nat
    BY <1>1, <1>4
  <2>3. Len(rest') = Len(rest) - n
    BY <1>1, <2>1, <2>2, Split
  <2>4. CASE total' > max /\ outcome' = {"large"}
    <3>1. Len(sent.lines) - Len(rest') > max
      <4>1. total \in Nat /\ Len(sent.lines) = total + Len(rest) /\ Len(rest) \in Nat
        BY <1>1, <1>2, <2>1
      <4>2. \A x, y \in Nat : (x + y) - (y - n) = x + n
        BY <2>2
      <4>3. Len(sent.lines) - Len(rest') = total + n
        BY <2>3, <4>1, <4>2
      <4> QED
        BY <2>1, <2>4, <4>3
    <3> QED
      BY <2>1, <2>4, <3>1 DEF FirstResponseReturned
  <2>5. CASE step' = "body"
    BY <2>5 DEF FirstResponseReturned
  <2> QED
    BY <1>4, <2>1, <2>4, <2>5 DEF ChunkArrives, Return
<1>5. ASSUME BodyEnds PROVE FirstResponseReturned'
  <2>1. /\ step = "body" /\ rest = <<>> /\ outcome' = Decoded(body)
        /\ UNCHANGED <<sent, max, rest, total, body>>
    BY <1>5 DEF BodyEnds, Return
  <2>2. body = sent.lines
    BY <1>1, <1>2, <2>1, ConcatEmptySeq
  <2>3. outcome' \in {{"one"}, {"two"}, {"bare"}, {"decode"}}
    BY <1>1, <2>1, DecodedOne
  <2>4. sent.sse => outcome' = IF Utf8(sent.lines) /\ FirstResponse(sent.lines) # {}
                               THEN FirstResponse(sent.lines) ELSE {"decode"}
    BY <1>1, <2>1, <2>2, ParsesTheFirst DEF Decoded
  <2>5. Utf8(sent'.lines) <=> Utf8(sent.lines)
    BY <2>1
  <2>6. outcome' # {"large"}
    BY <2>3
  <2>7. ~\E n \in sent.declared : n > max
    BY <1>2, <2>1
  <2>8. ~(Len(sent.lines) - Len(rest) > max)
    BY <1>2, <2>1
  <2> QED
    BY <2>1, <2>4, <2>5, <2>6, <2>7, <2>8 DEF FirstResponseReturned
<1>6. ASSUME BodyBreaks PROVE FirstResponseReturned'
  <2>1. step = "body" /\ outcome' = {"read"} /\ UNCHANGED <<sent, max, rest, total, body>>
    BY <1>6 DEF BodyBreaks, Return
  <2>2. ~(\E n \in sent.declared : n > max) /\ ~(Len(sent.lines) - Len(rest) > max)
    BY <1>2, <2>1
  <2> QED
    BY <2>1, <2>2 DEF FirstResponseReturned
<1>7. ASSUME UNCHANGED vars PROVE FirstResponseReturned'
  BY <1>7 DEF vars, FirstResponseReturned
<1> QED
  BY <1>3, <1>4, <1>5, <1>6, <1>7 DEF Next

\* What request() returns of an SSE body (http.rs:131-167) is its first
\* response, whatever the body and however it is cut, and it is called too large
\* only if it is, or says it is.
THEOREM ReturnsTheFirst == Spec => []FirstResponseReturned
<1> QED
  BY Receiving, ReturnInit, ReturnStep, PTL DEF Spec
=============================================================================
