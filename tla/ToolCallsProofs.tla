--------------------------- MODULE ToolCallsProofs ---------------------------
(***************************************************************************)
(* Proofs about ToolCalls, for every set of calls, every option and limit, *)
(* every number of sockets and every fault: type correctness, what a       *)
(* success says, the first click, and that the loop of chunk ends.         *)
(***************************************************************************)
EXTENDS ToolCalls, SequenceTheorems, WellFoundedInduction, TLAPS

-----------------------------------------------------------------------------
(* chunk *)

\* A set of numbers has a first one.
LEMMA FirstOfSet ==
  ASSUME NEW S, S \subseteq Nat, S # {}
  PROVE  Min(S) \in S /\ \A y \in S : Min(S) =< y
<1>1. PICK k \in S : \A j \in S : ~(<<j, k>> \in OpToRel(<, Nat))
  BY NatLessThanWellFounded, WFMin
<1>2. \A j \in S : ~(j < k)
  BY <1>1 DEF OpToRel
<1>3. \A j \in S : k =< j
  BY <1>2
<1> QED
  BY <1>1, <1>3 DEF Min

\* ... and, if it is bounded, a last one.
LEMMA LastOfSet ==
  ASSUME NEW n \in Nat, NEW S, S \subseteq 0 .. n, S # {}
  PROVE  \E x \in S : \A y \in S : x >= y
<1> DEFINE T == {n - x : x \in S}
<1>1. T \subseteq Nat /\ T # {}
  <2>1. \A x \in S : n - x \in Nat
    OBVIOUS
  <2> QED
    BY <2>1
<1>2. PICK k \in T : \A j \in T : k =< j
  <2> HIDE DEF T
  <2> QED
    BY <1>1, FirstOfSet
<1>3. PICK x \in S : k = n - x
  BY <1>2
<1>4. ASSUME NEW y \in S PROVE x >= y
  <2>1. n - y \in T
    OBVIOUS
  <2>2. k =< n - y
    BY <1>2, <2>1
  <2>3. x \in 0 .. n /\ y \in 0 .. n
    OBVIOUS
  <2> HIDE DEF T
  <2> QED
    BY <1>3, <2>2, <2>3
<1> QED
  BY <1>4

\* lastIndexOf finds a place up to the one it starts from, or none.
LEMMA LastIndexInRange ==
  ASSUME NEW n \in Nat, NEW places, places \subseteq 0 .. n
  PROVE  LastIndex(places) \in -1 .. n
<1> DEFINE S == {-1} \cup places
<1>1. PICK x \in S : \A y \in S : x >= y
  <2>1. CASE places = {}
    BY <2>1
  <2>2. CASE places # {}
    <3>1. PICK x \in places : \A y \in places : x >= y
      BY <2>2, LastOfSet
    <3>2. x \in S /\ x >= -1
      BY <3>1
    <3> QED
      BY <3>1, <3>2
  <2> QED
    BY <2>1, <2>2
<1>2. S \subseteq -1 .. n
  OBVIOUS
<1> HIDE DEF S
<1>3. Max(S) \in S
  BY <1>1 DEF Max
<1> QED
  BY <1>2, <1>3 DEF LastIndex, S

\* A rest is cut behind its first character, and within the limit.
LEMMA CutInRange ==
  ASSUME NEW rest, NEW limit \in Nat \ {0}, NEW mode
  PROVE  Cut(rest, limit, mode) \in 1 .. limit
<1> DEFINE char(k) == rest[k + 1]
           para  == LastIndex({k \in 0 .. limit : /\ k + 1 < Len(rest)
                                            /\ char(k) = "\n" /\ char(k + 1) = "\n"})
           line  == LastIndex({k \in 0 .. limit : char(k) = "\n"})
           space == LastIndex({k \in 0 .. limit : char(k) = " "})
<1>1. para \in -1 .. limit /\ line \in -1 .. limit /\ space \in -1 .. limit
  BY LastIndexInRange
<1>2. Cut(rest, limit, mode) =
        IF mode = "length" THEN limit
        ELSE IF 2 * para > limit THEN para
        ELSE IF 2 * line > limit THEN line
        ELSE IF space > 0 THEN space
        ELSE limit
  BY DEF Cut
<1> HIDE DEF para, line, space
<1> QED
  BY <1>1, <1>2

\* The newlines that are skipped are in the text.
LEMMA SkipInRange ==
  ASSUME NEW C, NEW text \in Seq(C), NEW from \in 1 .. Len(text) + 1
  PROVE  SkipNewlines(text, from) \in from .. Len(text) + 1
<1> DEFINE S == {k \in from .. Len(text) : text[k] # "\n"} \cup {Len(text) + 1}
<1>1. Len(text) \in Nat
  BY LenProperties
<1>2. S \subseteq from .. Len(text) + 1 /\ S # {}
  BY <1>1
<1>3. S \subseteq Nat
  BY <1>1, <1>2
<1> HIDE DEF S
<1>4. Min(S) \in S
  BY <1>2, <1>3, FirstOfSet
<1> QED
  BY <1>2, <1>4 DEF SkipNewlines, S
-----------------------------------------------------------------------------
\* What the loop of chunk makes of the rest that begins at from, if later makes
\* the pieces of the rests that begin behind it.
Piece(text, limit, mode, later, from) ==
    LET rest == SubSeq(text, from, Len(text))
        cut  == Cut(rest, limit, mode)
    IN  IF rest = <<>> THEN <<>>
        ELSE IF Len(rest) <= limit THEN <<rest>>
        ELSE <<SubSeq(rest, 1, cut)>> \o later[SkipNewlines(text, from + cut)]

\* The text's last rest is empty; one that is cut leaves a rest behind it, and
\* the piece cut off is not empty and within the limit.
LEMMA CutOff ==
  ASSUME NEW C, NEW text \in Seq(C), NEW limit \in Nat \ {0}, NEW mode,
         NEW from \in 1 .. Len(text) + 1
  PROVE  LET rest == SubSeq(text, from, Len(text))
             cut  == Cut(rest, limit, mode)
         IN  /\ rest \in Seq(C) /\ Len(rest) = Len(text) + 1 - from
             /\ Len(rest) > limit =>
                  /\ SubSeq(rest, 1, cut) \in Seq(C)
                  /\ Len(SubSeq(rest, 1, cut)) \in 1 .. limit
                  /\ SkipNewlines(text, from + cut) \in from + 1 .. Len(text) + 1
<1> DEFINE rest == SubSeq(text, from, Len(text))
           cut  == Cut(rest, limit, mode)
<1>1. Len(text) \in Nat /\ \A i \in 1 .. Len(text) : text[i] \in C
  BY LenProperties, ElementOfSeq
<1>2. rest \in Seq(C) /\ Len(rest) = Len(text) + 1 - from
  <2>1. \A i \in from .. Len(text) : text[i] \in C
    BY <1>1
  <2>2. from \in Int /\ Len(text) \in Int
    BY <1>1
  <2>3. /\ SubSeq(text, from, Len(text)) \in Seq(C)
        /\ Len(SubSeq(text, from, Len(text))) = IF from <= Len(text) THEN Len(text) - from + 1 ELSE 0
    BY <2>1, <2>2, SubSeqProperties
  <2>4. from <= Len(text) + 1
    BY <1>1
  <2> QED
    BY <1>1, <2>3, <2>4
<1>3. cut \in 1 .. limit
  BY CutInRange
<1> HIDE DEF rest, cut
<1>4. ASSUME Len(rest) > limit
      PROVE  /\ SubSeq(rest, 1, cut) \in Seq(C)
             /\ Len(SubSeq(rest, 1, cut)) \in 1 .. limit
             /\ SkipNewlines(text, from + cut) \in from + 1 .. Len(text) + 1
  <2>1. \A i \in 1 .. cut : rest[i] \in C
    BY <1>1, <1>2, <1>3, <1>4, ElementOfSeq
  <2>2. SubSeq(rest, 1, cut) \in Seq(C) /\ Len(SubSeq(rest, 1, cut)) = cut
    <3>1. cut \in Int /\ 1 \in Int /\ 1 <= cut
      BY <1>3
    <3>2. /\ SubSeq(rest, 1, cut) \in Seq(C)
          /\ Len(SubSeq(rest, 1, cut)) = IF 1 <= cut THEN cut - 1 + 1 ELSE 0
      BY <2>1, <3>1, SubSeqProperties
    <3> QED
      BY <3>1, <3>2
  <2>3. from + cut \in 1 .. Len(text) + 1 /\ from + cut >= from + 1
    BY <1>1, <1>2, <1>3, <1>4
  <2>4. SkipNewlines(text, from + cut) \in from + cut .. Len(text) + 1
    BY <2>3, SkipInRange
  <2>5. SkipNewlines(text, from + cut) \in from + 1 .. Len(text) + 1
    BY <1>1, <1>3, <2>3, <2>4
  <2> QED
    BY <1>3, <2>2, <2>5
<1> QED
  BY <1>2, <1>4 DEF rest, cut

\* A piece depends on the rests behind it only.
LEMMA PieceDependsOnLater ==
  ASSUME NEW C, NEW text \in Seq(C), NEW limit \in Nat \ {0}, NEW mode,
         NEW from \in 1 .. Len(text) + 1, NEW f, NEW g,
         \A k \in from + 1 .. Len(text) + 1 : f[k] = g[k]
  PROVE  Piece(text, limit, mode, f, from) = Piece(text, limit, mode, g, from)
<1> DEFINE rest == SubSeq(text, from, Len(text))
           cut  == Cut(rest, limit, mode)
           nxt  == SkipNewlines(text, from + cut)
<1>1. Len(rest) \in Nat /\ (Len(rest) > limit => nxt \in from + 1 .. Len(text) + 1)
  BY CutOff, LenProperties
<1>2. Piece(text, limit, mode, f, from) =
        IF rest = <<>> THEN <<>>
        ELSE IF Len(rest) <= limit THEN <<rest>>
        ELSE <<SubSeq(rest, 1, cut)>> \o f[nxt]
  BY DEF Piece
<1>3. Piece(text, limit, mode, g, from) =
        IF rest = <<>> THEN <<>>
        ELSE IF Len(rest) <= limit THEN <<rest>>
        ELSE <<SubSeq(rest, 1, cut)>> \o g[nxt]
  BY DEF Piece
<1> HIDE DEF rest, cut, nxt
<1>4. Len(rest) > limit => f[nxt] = g[nxt]
  BY <1>1
<1>5. Len(rest) <= limit \/ Len(rest) > limit
  BY <1>1
<1> QED
  BY <1>2, <1>3, <1>4, <1>5

\* The loop ends: the pieces of all rests exist, from the end of the text back.
LEMMA LoopEnds ==
  ASSUME NEW C, NEW text \in Seq(C), NEW limit \in Nat \ {0}, NEW mode
  PROVE  \E f : f = [from \in 1 .. Len(text) + 1 |-> Piece(text, limit, mode, f, from)]
<1> DEFINE L == Len(text)
           Body(f, k) == Piece(text, limit, mode, f, k)
           Has(n) == \E f : f = [k \in L + 1 - n .. L + 1 |-> Body(f, k)]
           Bad == {n \in 0 .. L : ~Has(n)}
<1>1. L \in Nat
  BY LenProperties
<1>2. ASSUME NEW f, NEW g, NEW k \in 1 .. L + 1, \A j \in k + 1 .. L + 1 : f[j] = g[j]
      PROVE  Body(f, k) = Body(g, k)
  BY <1>2, PieceDependsOnLater
<1> HIDE DEF Body, L
<1>3. Has(0)
  <2> DEFINE g == <<>>
             f == [k \in L + 1 - 0 .. L + 1 |-> Body(g, k)]
  <2>1. \A k \in L + 1 - 0 .. L + 1 : Body(g, k) = Body(f, k)
    <3> HIDE DEF f, g
    <3>1. \A k \in L + 1 - 0 .. L + 1 : k = L + 1
      BY <1>1
    <3>2. \A j \in L + 1 + 1 .. L + 1 : f[j] = g[j]
      BY <1>1
    <3>3. L + 1 \in 1 .. L + 1
      BY <1>1
    <3> QED
      BY <1>2, <3>1, <3>2, <3>3
  <2>2. f = [k \in L + 1 - 0 .. L + 1 |-> Body(f, k)]
    BY <2>1
  <2> QED
    BY <2>2
<1>4. ASSUME NEW n \in 1 .. L, Has(n - 1)
      PROVE  Has(n)
  <2> DEFINE m == L + 1 - n
  <2>1. m \in 1 .. L /\ L + 1 - (n - 1) = m + 1
    BY <1>1
  <2>2. PICK f : f = [k \in m + 1 .. L + 1 |-> Body(f, k)]
    BY <1>4, <2>1
  <2> DEFINE g == [k \in m .. L + 1 |-> IF k = m THEN Body(f, k) ELSE f[k]]
  <2> HIDE DEF m
  <2>3. \A k \in m + 1 .. L + 1 : g[k] = f[k]
    BY <1>1, <2>1
  <2>4. \A k \in m .. L + 1 : k \in 1 .. L + 1 /\ k + 1 .. L + 1 \subseteq m + 1 .. L + 1
    BY <1>1, <2>1
  <2>5. \A k \in m .. L + 1 : Body(f, k) = Body(g, k)
    BY <1>2, <2>3, <2>4
  <2>6. ASSUME NEW k \in m .. L + 1 PROVE g[k] = Body(g, k)
    <3>1. CASE k = m
      BY <2>5, <3>1
    <3>2. CASE k # m
      <4>1. k \in m + 1 .. L + 1
        BY <1>1, <2>1, <3>2
      <4>2. f[k] = Body(f, k)
        BY <2>2, <4>1
      <4> QED
        BY <2>3, <2>5, <4>1, <4>2
    <3> QED
      BY <3>1, <3>2
  <2>7. g = [k \in m .. L + 1 |-> g[k]]
    OBVIOUS
  <2> HIDE DEF g
  <2>8. g = [k \in m .. L + 1 |-> Body(g, k)]
    BY <2>6, <2>7
  <2> QED
    BY <2>8 DEF m
<1> HIDE DEF Has
<1>5. Bad = {}
  <2> SUFFICES ASSUME Bad # {} PROVE FALSE
    OBVIOUS
  <2>1. Bad \subseteq Nat
    BY <1>1
  <2>2. Min(Bad) \in Bad /\ \A y \in Bad : Min(Bad) =< y
    <3> HIDE DEF Bad
    <3> QED
      BY <2>1, FirstOfSet
  <2> DEFINE n == Min(Bad)
  <2>3. n \in Bad /\ \A y \in Bad : n =< y
    BY <2>2
  <2> HIDE DEF n
  <2>4. n \in 1 .. L
    BY <1>1, <1>3, <2>3
  <2>5. n - 1 \in 0 .. L /\ ~(n =< n - 1)
    BY <1>1, <2>4
  <2>6. Has(n - 1)
    BY <2>3, <2>5
  <2> QED
    BY <1>4, <2>3, <2>4, <2>6
<1>6. Has(L)
  BY <1>1, <1>5
<1>7. L + 1 - L = 1
  BY <1>1
<1> QED
  BY <1>6, <1>7 DEF Has, Body, L
\* A sequence of one element.
LEMMA OneElement ==
  ASSUME NEW S, NEW e \in S
  PROVE  /\ <<>> \in Seq(S) /\ <<e>> \in Seq(S) /\ <<e>> # <<>>
         /\ DOMAIN <<e>> = {1} /\ <<e>>[1] = e
<1>1. Len(<<e>>) = 1 /\ <<e>> \in Seq(S) /\ <<e>>[1] = e
  OBVIOUS
<1>2. DOMAIN <<e>> = {1}
  BY <1>1
<1> QED
  BY <1>1, <1>2

\* What fits a message: a piece that is not empty and within the limit.
Fitting(C, limit) == {s \in Seq(C) : Len(s) \in 1 .. limit}

\* Every piece that the loop pushes fits.
LEMMA PiecesFit ==
  ASSUME NEW C, NEW text \in Seq(C), NEW limit \in Nat \ {0}, NEW mode, NEW f,
         f = [from \in 1 .. Len(text) + 1 |-> Piece(text, limit, mode, f, from)]
  PROVE  \A from \in 1 .. Len(text) + 1 : f[from] \in Seq(Fitting(C, limit))
<1> DEFINE L == Len(text)
           Bad == {n \in 0 .. L : f[L + 1 - n] \notin Seq(Fitting(C, limit))}
<1>1. L \in Nat
  BY LenProperties
<1>2. ASSUME NEW from \in 1 .. L + 1,
             \A k \in from + 1 .. L + 1 : f[k] \in Seq(Fitting(C, limit))
      PROVE  f[from] \in Seq(Fitting(C, limit))
  <2> DEFINE rest == SubSeq(text, from, Len(text))
             cut  == Cut(rest, limit, mode)
             nxt  == SkipNewlines(text, from + cut)
  <2>1. /\ rest \in Seq(C) /\ Len(rest) \in Nat
        /\ Len(rest) > limit => /\ SubSeq(rest, 1, cut) \in Fitting(C, limit)
                                /\ nxt \in from + 1 .. L + 1
    BY CutOff, LenProperties DEF Fitting
  <2>2. f[from] = IF rest = <<>> THEN <<>>
                  ELSE IF Len(rest) <= limit THEN <<rest>>
                  ELSE <<SubSeq(rest, 1, cut)>> \o f[nxt]
    <3>1. f[from] = Piece(text, limit, mode, f, from)
      OBVIOUS
    <3> QED
      BY <3>1 DEF Piece
  <2> HIDE DEF rest, cut, nxt, L
  <2>3. CASE rest = <<>>
    <3>1. <<>> \in Seq(Fitting(C, limit))
      OBVIOUS
    <3> QED
      BY <2>2, <2>3, <3>1
  <2>4. CASE rest # <<>> /\ Len(rest) <= limit
    <3>1. Len(rest) # 0
      BY <2>1, <2>4, EmptySeq
    <3>2. rest \in Fitting(C, limit)
      BY <2>1, <2>4, <3>1 DEF Fitting
    <3>3. <<rest>> \in Seq(Fitting(C, limit))
      BY <3>2, OneElement
    <3>4. f[from] = <<rest>>
      BY <2>2, <2>4
    <3> QED
      BY <3>3, <3>4
  <2>5. CASE rest # <<>> /\ ~(Len(rest) <= limit)
    <3>1. Len(rest) > limit
      BY <2>1, <2>5
    <3> DEFINE bit == SubSeq(rest, 1, cut)
    <3>2. f[nxt] \in Seq(Fitting(C, limit)) /\ <<bit>> \in Seq(Fitting(C, limit))
      <4>1. bit \in Fitting(C, limit)
        BY <2>1, <3>1
      <4>2. <<bit>> \in Seq(Fitting(C, limit))
        BY <4>1, OneElement
      <4>3. f[nxt] \in Seq(Fitting(C, limit))
        BY <1>2, <2>1, <3>1
      <4> QED
        BY <4>2, <4>3
    <3>3. <<SubSeq(rest, 1, cut)>> \o f[nxt] \in Seq(Fitting(C, limit))
      BY <3>2, ConcatProperties
    <3> QED
      BY <2>2, <2>5, <3>3
  <2> QED
    BY <2>3, <2>4, <2>5
<1> HIDE DEF L
<1>3. Bad = {}
  <2> SUFFICES ASSUME Bad # {} PROVE FALSE
    OBVIOUS
  <2>1. Bad \subseteq Nat
    BY <1>1
  <2> DEFINE n == Min(Bad)
  <2>2. n \in Bad /\ \A y \in Bad : n =< y
    <3> HIDE DEF Bad
    <3> QED
      BY <2>1, FirstOfSet
  <2> HIDE DEF n
  <2>3. n \in 0 .. L /\ f[L + 1 - n] \notin Seq(Fitting(C, limit))
    BY <2>2
  <2>4. ASSUME NEW k \in L + 1 - n + 1 .. L + 1
        PROVE  f[k] \in Seq(Fitting(C, limit))
    <3>1. L + 1 - k \in 0 .. L /\ ~(n =< L + 1 - k) /\ L + 1 - (L + 1 - k) = k
      BY <1>1, <2>3
    <3> QED
      BY <2>2, <3>1
  <2>5. L + 1 - n \in 1 .. L + 1
    BY <1>1, <2>3
  <2> QED
    BY <1>2, <2>3, <2>4, <2>5
<1>4. ASSUME NEW from \in 1 .. L + 1 PROVE f[from] \in Seq(Fitting(C, limit))
  <2>1. L + 1 - from \in 0 .. L /\ L + 1 - (L + 1 - from) = from
    BY <1>1
  <2> QED
    BY <1>3, <2>1
<1> QED
  BY <1>4 DEF L

\* A text is split into chunks of at most the limit, at least one, and none of
\* them is empty unless the text is (chunk, tool-handlers.ts).
LEMMA ChunkFits ==
  ASSUME NEW text \in Texts, NEW limit \in Nat \ {0}, NEW mode
  PROVE  LET chunks == Chunk(text, limit, mode)
         IN  /\ chunks \in Seq(Seq({"\n", " ", "x"})) /\ chunks # <<>>
             /\ \A i \in DOMAIN chunks :
                  Len(chunks[i]) \in (IF text = <<>> THEN 0 ELSE 1) .. limit
<1> DEFINE C == {"\n", " ", "x"}
           chunks == Chunk(text, limit, mode)
<1>1. text \in Seq(C) /\ Len(text) \in Nat
  BY TextsAssumption, LenProperties
<1>4. \A n \in Nat : n <= limit => n \in 0 .. limit /\ (n # 0 => n \in 1 .. limit)
  OBVIOUS
<1>2. CASE Len(text) <= limit
  <2>1. chunks = <<text>>
    BY <1>2 DEF Chunk
  <2>2. text # <<>> => Len(text) # 0
    BY <1>1, EmptySeq
  <2>3. chunks \in Seq(Seq(C)) /\ chunks # <<>> /\ chunks[1] = text /\ DOMAIN chunks = {1}
    <3> HIDE DEF C, chunks
    <3> QED
      BY <1>1, <2>1, OneElement
  <2>4. CASE text = <<>>
    <3>1. Len(text) \in 0 .. limit
      BY <1>1, <1>2, <1>4
    <3> QED
      BY <2>3, <2>4, <3>1
  <2>5. CASE text # <<>>
    <3>1. Len(text) \in 1 .. limit
      BY <1>1, <1>2, <1>4, <2>2, <2>5
    <3> QED
      BY <2>3, <2>5, <3>1
  <2> QED
    BY <2>4, <2>5
<1>3. CASE ~(Len(text) <= limit)
  <2> DEFINE Loop(f) == f = [from \in 1 .. Len(text) + 1 |-> Piece(text, limit, mode, f, from)]
             f == CHOOSE g : Loop(g)
  <2>1. Loop(f)
    BY ZenonT(60), <1>1, LoopEnds
  <2>2. chunks = f[1]
    BY <1>3 DEF Chunk, Piece
  <2> HIDE DEF f, Loop, chunks, C
  <2>3. 1 \in 1 .. Len(text) + 1
    BY <1>1
  <2>4. chunks \in Seq(Fitting(C, limit))
    BY <1>1, <2>1, <2>2, <2>3, PiecesFit DEF Loop
  <2>5. chunks # <<>>
    <3> DEFINE rest == SubSeq(text, 1, Len(text))
               cut  == Cut(rest, limit, mode)
               nxt  == SkipNewlines(text, 1 + cut)
    <3>1. Len(rest) = Len(text) /\ Len(rest) > limit
      BY <1>1, <1>3, <2>3, CutOff
    <3>2. rest # <<>> /\ ~(Len(rest) <= limit) /\ nxt \in 2 .. Len(text) + 1
      BY <1>1, <1>3, <2>3, <3>1, CutOff
    <3>3. f[1] = <<SubSeq(rest, 1, cut)>> \o f[nxt]
      <4>1. f[1] = Piece(text, limit, mode, f, 1)
        BY <2>1, <2>3 DEF Loop
      <4> QED
        BY <3>2, <4>1 DEF Piece
    <3>4. f[nxt] \in Seq(Fitting(C, limit))
      BY SMTT(30), <1>1, <2>1, <3>2, PiecesFit DEF Loop
    <3> HIDE DEF rest, cut, nxt
    <3> QED
      BY <2>2, <3>3, <3>4
  <2>6. ASSUME NEW i \in DOMAIN chunks
        PROVE  chunks[i] \in Seq(C) /\ Len(chunks[i]) \in 1 .. limit
    BY <2>4, ElementOfSeq DEF Fitting
  <2>7. chunks \in Seq(Seq(C))
    <3>1. Fitting(C, limit) \subseteq Seq(C)
      BY DEF Fitting
    <3> QED
      BY <2>4, <3>1
  <2>8. text # <<>>
    BY <1>3
  <2> QED
    BY <2>5, <2>6, <2>7, <2>8 DEF chunks, C
<1> QED
  BY <1>2, <1>3

\* So the chunks of every text fit, for every limit.
THEOREM RepliesFit == ChunksFit
BY ChunkFits, NumbersAssumption DEF ChunksFit, Fit

-----------------------------------------------------------------------------
\* What is skipped are newlines.
LEMMA SkipsNewlines ==
  ASSUME NEW C, NEW text \in Seq(C), NEW from \in 1 .. Len(text) + 1,
         NEW k \in from .. SkipNewlines(text, from) - 1
  PROVE  text[k] = "\n"
<1> DEFINE S == {i \in from .. Len(text) : text[i] # "\n"} \cup {Len(text) + 1}
<1>1. Len(text) \in Nat
  BY LenProperties
<1>2. S \subseteq from .. Len(text) + 1 /\ S # {} /\ S \subseteq Nat
  BY <1>1
<1>3. Min(S) \in S /\ \A y \in S : Min(S) =< y
  <2> HIDE DEF S
  <2> QED
    BY <1>2, FirstOfSet
<1>4. SkipNewlines(text, from) = Min(S)
  BY DEF SkipNewlines
<1>5. k \notin S /\ k \in from .. Len(text)
  <2> HIDE DEF S
  <2>1. Min(S) \in from .. Len(text) + 1
    BY <1>2, <1>3
  <2> QED
    BY <1>1, <1>3, <1>4, <2>1
<1> QED
  BY <1>5

\* Where the chunks of the rest that begins at from stand in the text.
Stands(text, chunks, from, at) ==
    /\ \A i \in DOMAIN chunks :
          /\ at[i] + Len(chunks[i]) <= Len(text)
          /\ chunks[i] = SubSeq(text, at[i] + 1, at[i] + Len(chunks[i]))
    /\ \A i, j \in DOMAIN chunks : i < j => at[i] + Len(chunks[i]) <= at[j]
    /\ \A k \in from .. Len(text) : text[k] # "\n" =>
          \E i \in DOMAIN chunks : k \in at[i] + 1 .. at[i] + Len(chunks[i])

Placed(text, chunks, from) ==
    \E at \in [DOMAIN chunks -> from - 1 .. Len(text)] : Stands(text, chunks, from, at)

\* A piece in front of placed chunks, with newlines between.
LEMMA PutInFront ==
  ASSUME NEW C, NEW text \in Seq(C), NEW chunks \in Seq(Seq(C)),
         NEW from \in 1 .. Len(text) + 1, NEW cut \in 0 .. Len(text) + 1 - from,
         NEW nxt \in from + cut .. Len(text) + 1,
         \A k \in from + cut .. nxt - 1 : text[k] = "\n",
         Placed(text, chunks, nxt)
  PROVE  Placed(text, <<SubSeq(text, from, from + cut - 1)>> \o chunks, from)
<1> DEFINE L   == Len(text)
           bit == SubSeq(text, from, from + cut - 1)
           new == <<bit>> \o chunks
<1>1. L \in Nat /\ Len(chunks) \in Nat /\ \A i \in 1 .. L : text[i] \in C
  BY LenProperties, ElementOfSeq
<1>2. bit \in Seq(C) /\ Len(bit) = cut
  <2>1. \A i \in from .. from + cut - 1 : text[i] \in C
    BY <1>1
  <2>2. from \in Int /\ from + cut - 1 \in Int
    BY <1>1
  <2>3. /\ bit \in Seq(C)
        /\ Len(bit) = IF from <= from + cut - 1 THEN from + cut - 1 - from + 1 ELSE 0
    BY <2>1, <2>2, SubSeqProperties
  <2> HIDE DEF bit, L
  <2> QED
    BY <1>1, <2>3
<1> HIDE DEF bit
<1>3. /\ DOMAIN new = 1 .. Len(chunks) + 1 /\ DOMAIN chunks = 1 .. Len(chunks)
      /\ new[1] = bit
      /\ \A i \in 2 .. Len(chunks) + 1 : new[i] = chunks[i - 1]
  <2>1. <<bit>> \in Seq(Seq(C)) /\ Len(<<bit>>) = 1 /\ <<bit>>[1] = bit
    BY <1>2
  <2>2. /\ Len(new) = 1 + Len(chunks) /\ new \in Seq(Seq(C))
        /\ \A i \in 1 .. 1 + Len(chunks) : new[i] = IF i <= 1 THEN <<bit>>[i] ELSE chunks[i - 1]
    BY <2>1, ConcatProperties
  <2> HIDE DEF new
  <2> QED
    BY SMTT(30), <1>1, <2>1, <2>2, LenProperties
<1>4. PICK at \in [DOMAIN chunks -> nxt - 1 .. L] : Stands(text, chunks, nxt, at)
  BY DEF Placed
<1> DEFINE there == [i \in 1 .. Len(chunks) + 1 |-> IF i = 1 THEN from - 1 ELSE at[i - 1]]
<1> HIDE DEF L, new
<1>5. \A i \in 2 .. Len(chunks) + 1 :
        /\ i - 1 \in DOMAIN chunks /\ there[i] = at[i - 1] /\ there[i] \in nxt - 1 .. L
        /\ Len(new[i]) = Len(chunks[i - 1]) /\ Len(chunks[i - 1]) \in Nat
  <2>1. \A i \in 2 .. Len(chunks) + 1 : i - 1 \in 1 .. Len(chunks) /\ i # 1
    BY <1>1
  <2>2. \A i \in 1 .. Len(chunks) : chunks[i] \in Seq(C) /\ Len(chunks[i]) \in Nat
    BY ElementOfSeq, LenProperties
  <2>3. \A i \in 1 .. Len(chunks) : at[i] \in nxt - 1 .. L
    BY <1>3, <1>4
  <2>4. ASSUME NEW i \in 2 .. Len(chunks) + 1
        PROVE  there[i] = at[i - 1] /\ new[i] = chunks[i - 1]
    <3>1. i # 1 /\ i \in 1 .. Len(chunks) + 1
      BY <1>1
    <3> QED
      BY <1>3, <3>1
  <2> HIDE DEF there
  <2> QED
    BY <1>3, <2>1, <2>2, <2>3, <2>4
<1>6. there[1] = from - 1 /\ Len(new[1]) = cut /\ from - 1 + cut <= nxt - 1
  BY <1>1, <1>2, <1>3 DEF L
<1>7. there \in [DOMAIN new -> from - 1 .. L]
  <2>1. ASSUME NEW i \in 1 .. Len(chunks) + 1 PROVE there[i] \in from - 1 .. L
    <3>1. CASE i = 1
      BY <1>1, <1>6, <3>1 DEF L
    <3>2. CASE i # 1
      <4>1. i \in 2 .. Len(chunks) + 1
        BY <1>1, <3>2
      <4>2. there[i] \in nxt - 1 .. L /\ nxt - 1 \in Int /\ nxt - 1 >= from - 1
        BY <1>1, <1>5, <4>1 DEF L
      <4> HIDE DEF there
      <4> QED
        BY <1>1, <4>2
    <3> QED
      BY <3>1, <3>2
  <2> HIDE DEF there
  <2>2. there = [i \in 1 .. Len(chunks) + 1 |-> there[i]]
    BY DEF there
  <2> QED
    BY <1>3, <2>1, <2>2
<1> HIDE DEF there
<1>8. ASSUME NEW i \in DOMAIN new
      PROVE  /\ there[i] + Len(new[i]) <= L
             /\ new[i] = SubSeq(text, there[i] + 1, there[i] + Len(new[i]))
  <2>1. CASE i = 1
    <3>1. from - 1 + cut <= L /\ from - 1 + 1 = from /\ from - 1 + cut = from + cut - 1
      BY <1>1 DEF L
    <3> QED
      BY <1>3, <1>6, <2>1, <3>1 DEF bit
  <2>2. CASE i # 1
    <3>1. i \in 2 .. Len(chunks) + 1
      BY <1>1, <1>3, <2>2
    <3> QED
      BY <1>3, <1>4, <1>5, <3>1 DEF Stands, L
  <2> QED
    BY <2>1, <2>2
<1>9. ASSUME NEW i \in DOMAIN new, NEW j \in DOMAIN new, i < j
      PROVE  there[i] + Len(new[i]) <= there[j]
  <2>1. j \in 2 .. Len(chunks) + 1
    BY <1>1, <1>3, <1>9
  <2>2. CASE i = 1
    <3>1. there[j] \in nxt - 1 .. L
      BY <1>5, <2>1
    <3> QED
      BY <1>1, <1>6, <2>2, <3>1
  <2>3. CASE i # 1
    <3>1. i \in 2 .. Len(chunks) + 1 /\ i - 1 < j - 1
      BY SMTT(30), <1>1, <1>3, <1>9, <2>3
    <3> QED
      BY <1>4, <1>5, <2>1, <3>1 DEF Stands
  <2> QED
    BY <2>2, <2>3
<1>10. ASSUME NEW k \in from .. L, text[k] # "\n"
       PROVE  \E i \in DOMAIN new : k \in there[i] + 1 .. there[i] + Len(new[i])
  <2>1. CASE k < from + cut
    <3>1. k \in from - 1 + 1 .. from - 1 + cut /\ 1 \in DOMAIN new
      BY <1>1, <1>3, <2>1
    <3> QED
      BY <1>6, <3>1
  <2>2. CASE ~(k < from + cut)
    <3>1. k \in nxt .. L
      BY <1>1, <1>10, <2>2 DEF L
    <3>2. PICK i \in DOMAIN chunks : k \in at[i] + 1 .. at[i] + Len(chunks[i])
      BY <1>4, <1>10, <3>1 DEF Stands, L
    <3>3. i + 1 \in 2 .. Len(chunks) + 1 /\ i + 1 - 1 = i /\ i + 1 \in DOMAIN new
      BY SMTT(30), <1>1, <1>3
    <3>4. there[i + 1] = at[i] /\ Len(new[i + 1]) = Len(chunks[i])
      BY SMTT(30), <1>5, <3>3
    <3> QED
      BY <3>2, <3>3, <3>4
  <2> QED
    BY <2>1, <2>2
<1>11. Stands(text, new, from, there)
  BY <1>8, <1>9, <1>10 DEF Stands, L
<1> QED
  BY <1>7, <1>11 DEF Placed, L, new, bit

\* Nothing is left to say behind the end.
LEMMA NothingLeft ==
  ASSUME NEW C, NEW text \in Seq(C)
  PROVE  <<>> \in Seq(Seq(C)) /\ Placed(text, <<>>, Len(text) + 1)
<1> DEFINE chunks == <<>>
           at == [i \in {} |-> 0]
<1>1. Len(text) \in Nat /\ DOMAIN chunks = {} /\ chunks \in Seq(Seq(C))
  BY LenProperties
<1> HIDE DEF chunks
<1>2. at \in [DOMAIN chunks -> Len(text) + 1 - 1 .. Len(text)]
  BY <1>1
<1>3. Stands(text, chunks, Len(text) + 1, at)
  <2>1. \A k \in Len(text) + 1 .. Len(text) : FALSE
    BY <1>1
  <2> QED
    BY <1>1, <2>1 DEF Stands
<1> HIDE DEF at
<1>4. Placed(text, chunks, Len(text) + 1)
  BY <1>2, <1>3 DEF Placed
<1> QED
  BY <1>1, <1>4 DEF chunks

\* The last piece is the rest itself.
LEMMA LastPiece ==
  ASSUME NEW C, NEW text \in Seq(C), NEW from \in 1 .. Len(text) + 1
  PROVE  Placed(text, <<SubSeq(text, from, Len(text))>>, from)
<1> DEFINE cut == Len(text) + 1 - from
           nxt == Len(text) + 1
           chunks == <<>>
           bit == SubSeq(text, from, Len(text))
<1>1. Len(text) \in Nat /\ \A i \in 1 .. Len(text) : text[i] \in C
  BY LenProperties, ElementOfSeq
<1>2. /\ cut \in 0 .. Len(text) + 1 - from
      /\ nxt \in from + cut .. Len(text) + 1
      /\ \A k \in from + cut .. nxt - 1 : FALSE
      /\ from + cut - 1 = Len(text)
  BY <1>1
<1>3. chunks \in Seq(Seq(C)) /\ Placed(text, chunks, nxt)
  BY NothingLeft
<1>4. <<bit>> \o chunks = <<bit>>
  <2>1. bit \in Seq(C)
    <3>1. \A i \in from .. Len(text) : text[i] \in C
      BY <1>1
    <3>2. from \in Int /\ Len(text) \in Int
      BY <1>1
    <3> QED
      BY <3>1, <3>2, SubSeqProperties
  <2>2. <<bit>> \in Seq(Seq(C))
    BY <2>1, OneElement
  <2> QED
    BY <2>2, ConcatEmptySeq
<1> HIDE DEF cut, nxt, chunks
<1>5. \A k \in from + cut .. nxt - 1 : text[k] = "\n"
  BY <1>2
<1>6. Placed(text, <<SubSeq(text, from, from + cut - 1)>> \o chunks, from)
  BY <1>2, <1>3, <1>5, PutInFront
<1> QED
  BY <1>2, <1>4, <1>6

\* A sequence from its first element to its last is the sequence, and the start of
\* a rest is a part of the text.
LEMMA PartOfRest ==
  ASSUME NEW C, NEW text \in Seq(C), NEW from \in 1 .. Len(text) + 1,
         NEW cut \in 0 .. Len(text) + 1 - from
  PROVE  SubSeq(SubSeq(text, from, Len(text)), 1, cut) = SubSeq(text, from, from + cut - 1)
<1>1. Len(text) \in Nat
  BY LenProperties
<1> QED
  BY <1>1

\* The loop pushes pieces that stand in the text and leaves out newlines only.
LEMMA PiecesPlaced ==
  ASSUME NEW C, NEW text \in Seq(C), NEW limit \in Nat \ {0}, NEW mode, NEW f,
         f = [from \in 1 .. Len(text) + 1 |-> Piece(text, limit, mode, f, from)]
  PROVE  \A from \in 1 .. Len(text) + 1 : Placed(text, f[from], from)
<1> DEFINE L == Len(text)
           Bad == {n \in 0 .. L : ~Placed(text, f[L + 1 - n], L + 1 - n)}
<1>1. L \in Nat
  BY LenProperties
<1>2. ASSUME NEW from \in 1 .. L + 1,
             \A k \in from + 1 .. L + 1 : Placed(text, f[k], k)
      PROVE  Placed(text, f[from], from)
  <2> DEFINE rest == SubSeq(text, from, Len(text))
             cut  == Cut(rest, limit, mode)
             nxt  == SkipNewlines(text, from + cut)
  <2>1. /\ rest \in Seq(C) /\ Len(rest) = L + 1 - from
        /\ Len(rest) > limit => nxt \in from + 1 .. L + 1
    BY CutOff
  <2>2. f[from] = IF rest = <<>> THEN <<>>
                  ELSE IF Len(rest) <= limit THEN <<rest>>
                  ELSE <<SubSeq(rest, 1, cut)>> \o f[nxt]
    <3>1. f[from] = Piece(text, limit, mode, f, from)
      OBVIOUS
    <3> QED
      BY <3>1 DEF Piece
  <2>3. \A k \in 1 .. L + 1 : f[k] \in Seq(Seq(C))
    <3>1. \A k \in 1 .. L + 1 : f[k] \in Seq(Fitting(C, limit))
      BY PiecesFit
    <3>2. Fitting(C, limit) \subseteq Seq(C)
      BY DEF Fitting
    <3> HIDE DEF L
    <3> QED
      BY <3>1, <3>2
  <2>4. cut \in 1 .. limit
    BY CutInRange
  <2>5. CASE rest = <<>>
    <3>1. from = L + 1
      <4>1. Len(rest) = 0
        BY <2>5
      <4> HIDE DEF rest, L
      <4> QED
        BY <1>1, <2>1, <4>1
    <3> QED
      BY <2>2, <2>5, <3>1, NothingLeft
  <2>6. CASE rest # <<>> /\ Len(rest) <= limit
    BY <2>2, <2>6, LastPiece
  <2>7. CASE rest # <<>> /\ ~(Len(rest) <= limit)
    <3>1. Len(rest) > limit
      <4> HIDE DEF rest
      <4> QED
        BY <1>1, <2>1, <2>7
    <3>2. cut \in 0 .. L + 1 - from /\ from + cut \in 1 .. L + 1
      <4> HIDE DEF rest, cut, L
      <4> QED
        BY <1>1, <2>1, <2>4, <3>1
    <3>3. nxt \in from + cut .. L + 1
      BY <3>2, SkipInRange
    <3>4. \A k \in from + cut .. nxt - 1 : text[k] = "\n"
      BY <3>2, SkipsNewlines
    <3>5. nxt \in from + 1 .. L + 1 /\ nxt \in 1 .. L + 1
      <4> HIDE DEF nxt, L, rest, cut
      <4> QED
        BY <1>1, <2>1, <3>1
    <3>6. Placed(text, f[nxt], nxt) /\ f[nxt] \in Seq(Seq(C))
      BY <1>2, <2>3, <3>5
    <3>7. Placed(text, <<SubSeq(text, from, from + cut - 1)>> \o f[nxt], from)
      <4> HIDE DEF nxt, cut, rest
      <4> QED
        BY <3>2, <3>3, <3>4, <3>6, PutInFront
    <3>8. SubSeq(rest, 1, cut) = SubSeq(text, from, from + cut - 1)
      BY <3>2, PartOfRest
    <3> QED
      BY <2>2, <2>7, <3>7, <3>8
  <2> QED
    BY <2>5, <2>6, <2>7
<1> HIDE DEF L
<1>3. Bad = {}
  <2> SUFFICES ASSUME Bad # {} PROVE FALSE
    OBVIOUS
  <2>1. Bad \subseteq Nat
    BY <1>1
  <2> DEFINE n == Min(Bad)
  <2>2. n \in Bad /\ \A y \in Bad : n =< y
    <3> HIDE DEF Bad
    <3> QED
      BY <2>1, FirstOfSet
  <2> HIDE DEF n
  <2>3. n \in 0 .. L /\ ~Placed(text, f[L + 1 - n], L + 1 - n)
    BY <2>2
  <2>4. ASSUME NEW k \in L + 1 - n + 1 .. L + 1
        PROVE  Placed(text, f[k], k)
    <3>1. L + 1 - k \in 0 .. L /\ ~(n =< L + 1 - k) /\ L + 1 - (L + 1 - k) = k
      BY <1>1, <2>3
    <3> QED
      BY <2>2, <3>1
  <2>5. L + 1 - n \in 1 .. L + 1
    BY <1>1, <2>3
  <2> QED
    BY <1>2, <2>3, <2>4, <2>5
<1>4. ASSUME NEW from \in 1 .. L + 1 PROVE Placed(text, f[from], from)
  <2>1. L + 1 - from \in 0 .. L /\ L + 1 - (L + 1 - from) = from
    BY <1>1
  <2> QED
    BY <1>3, <2>1
<1> QED
  BY <1>4 DEF L

\* The chunks of a text are the text, but for newlines between them.
LEMMA ChunksPlaced ==
  ASSUME NEW text \in Texts, NEW limit \in Nat \ {0}, NEW mode
  PROVE  Placed(text, Chunk(text, limit, mode), 1)
<1> DEFINE C == {"\n", " ", "x"}
           chunks == Chunk(text, limit, mode)
<1>1. text \in Seq(C) /\ Len(text) \in Nat
  BY TextsAssumption, LenProperties
<1>2. CASE Len(text) <= limit
  <2>1. chunks = <<text>>
    BY <1>2 DEF Chunk
  <2>2. SubSeq(text, 1, Len(text)) = text
    BY <1>1, SubSeqFull
  <2> HIDE DEF C, chunks
  <2>3. 1 \in 1 .. Len(text) + 1
    BY <1>1
  <2>4. Placed(text, <<SubSeq(text, 1, Len(text))>>, 1)
    BY <1>1, <2>3, LastPiece
  <2> QED
    BY <2>1, <2>2, <2>4 DEF chunks
<1>3. CASE ~(Len(text) <= limit)
  <2> DEFINE Loop(f) == f = [from \in 1 .. Len(text) + 1 |-> Piece(text, limit, mode, f, from)]
             f == CHOOSE g : Loop(g)
  <2>1. Loop(f)
    BY ZenonT(60), <1>1, LoopEnds
  <2>2. chunks = f[1]
    BY <1>3 DEF Chunk, Piece
  <2> HIDE DEF f, Loop, chunks, C
  <2>3. 1 \in 1 .. Len(text) + 1
    BY <1>1
  <2> QED
    BY <1>1, <2>1, <2>2, <2>3, PiecesPlaced DEF Loop, chunks
<1> QED
  BY <1>2, <1>3

\* So the chunks of every text say all of it.
THEOREM RepliesAreWhole == ChunksSayAll
<1> SUFFICES ASSUME NEW text \in Texts, NEW mode \in Modes
             PROVE  SayAll(text, Chunk(text, Limit, mode))
  BY DEF ChunksSayAll
<1> DEFINE C == {"\n", " ", "x"}
           chunks == Chunk(text, Limit, mode)
<1>1. Placed(text, chunks, 1) /\ text \in Seq(C)
  BY ChunksPlaced, NumbersAssumption, TextsAssumption
<1> HIDE DEF C, chunks
<1>2. DOMAIN text = 1 .. Len(text) /\ 1 - 1 = 0
  BY <1>1
<1>3. PICK at \in [DOMAIN chunks -> 0 .. Len(text)] : Stands(text, chunks, 1, at)
  BY <1>1, <1>2 DEF Placed
<1> QED
  BY <1>2, <1>3 DEF SayAll, Stands, chunks

-----------------------------------------------------------------------------
(* The calls *)

\* What is true of an answer o that call c got or is to get.
Good(c, o) ==
    \/ o \in {"error", "timeout"}
    \/ c \in Replies /\ o = "ok" /\ posted[c] = Chunks[c]
    \/ c \in Questions /\ o \in Options /\ o = choice[c]

\* TypeOK, but for the count of chunks.
Types ==
    /\ link \in 1 .. MaxLinks
    /\ linked \in BOOLEAN
    /\ nextId \in Nat \ {0}
    /\ waiting \subseteq (Nat \X Calls)
    /\ outcome \in [Calls -> Outcomes]
    /\ open \subseteq 1 .. link
    /\ lines \subseteq Calls
    /\ results \subseteq [link : 1 .. link, id : Nat, outcome : Outcomes]
    /\ origin \in [Calls -> Nat \X Nat]
    /\ work \in [Calls -> {"none", "sending", "asked", "updating", "over"}]
    /\ pending \subseteq Questions
    /\ choice \in [Questions -> Options \cup {"none"}]
    /\ message \in [Questions -> Options \cup {"none", "live"}]
    /\ DOMAIN posted = Replies

\* A call is made once, and its line is read once.
MadeOnce ==
    \A c \in Calls : /\ outcome[c] = "none" => work[c] = "none" /\ c \notin lines
                     /\ c \in lines => work[c] = "none"

\* Ids are used once on a socket, in their order.
IdsApart ==
    /\ \A c \in Calls : /\ origin[c][1] <= link
                        /\ origin[c][1] = link => origin[c][2] < nextId
    /\ \A c, d \in Calls : origin[c] = origin[d] /\ origin[c][1] > 0 => c = d

\* A call waits under the id it was sent with, on the socket of now.
WaitsForItsOwn ==
    \A e \in waiting : origin[e[2]] = <<link, e[1]>> /\ outcome[e[2]] # "none"

\* A result under way is the good answer of the call that its id was given to.
ResultsGood ==
    \A res \in results : \E c \in Calls :
        origin[c] = <<res.link, res.id>> /\ work[c] = "over" /\ Good(c, res.outcome)

OutcomesGood ==
    \A c \in Calls : outcome[c] \notin {"none", "waiting", "error", "timeout"} =>
        work[c] = "over" /\ Good(c, outcome[c])

\* Where a question stands, and what was clicked.
AskedIsPending ==
    \A q \in Questions :
        /\ work[q] = "asked" <=> q \in pending
        /\ q \in pending => message[q] = "live"
        /\ work[q] = "updating" => choice[q] \in Options
        /\ choice[q] # "none" => work[q] \in {"updating", "over"}

IInv == Types /\ MadeOnce /\ IdsApart /\ WaitsForItsOwn /\ ResultsGood /\ OutcomesGood /\ AskedIsPending
LEMMA IInvFacts ==
  ASSUME IInv
  PROVE  Types /\ MadeOnce /\ IdsApart /\ WaitsForItsOwn /\ ResultsGood /\ OutcomesGood /\ AskedIsPending
BY DEF IInv

\* The fields of a result.
ResultType(l) == [link : 1 .. l, id : Nat, outcome : Outcomes]

LEMMA InitIInv == Init => IInv
<1> SUFFICES ASSUME Init PROVE IInv
  OBVIOUS
<1> USE NumbersAssumption DEF Init
<1>1. Types
  <2>1. "none" \in Outcomes
    BY DEF Outcomes
  <2> QED
    BY <2>1 DEF Types
<1>2. MadeOnce
  BY DEF MadeOnce
<1>3. IdsApart
  BY DEF IdsApart
<1>4. WaitsForItsOwn /\ ResultsGood
  BY DEF WaitsForItsOwn, ResultsGood
<1>5. OutcomesGood
  BY DEF OutcomesGood
<1>6. AskedIsPending
  BY DEF AskedIsPending, Calls
<1> QED
  BY <1>1, <1>2, <1>3, <1>4, <1>5, <1>6 DEF IInv

-----------------------------------------------------------------------------
(* The plugin *)

\* Where the plugin acts, the answers that are good stay so.
LEMMA GoodStays ==
  ASSUME UNCHANGED <<choice, posted>>, NEW c, NEW o
  PROVE  Good(c, o)' <=> Good(c, o)
BY DEF Good, Chunks

LEMMA CallToolStep ==
  ASSUME IInv, NEW c \in Calls, CallTool(c)
  PROVE  IInv'
<1> USE IInvFacts
<1>1. outcome[c] = "none" /\ work[c] = "none" /\ c \notin lines
  BY DEF CallTool, MadeOnce
<1>2. UNCHANGED <<link, linked, open, results, work, pending, choice, message, posted>>
  BY DEF CallTool, discordVars
<1>3. AskedIsPending'
  BY <1>2 DEF AskedIsPending
<1>4. CASE ~linked
  <2>1. /\ outcome' = [outcome EXCEPT ![c] = "error"]
        /\ UNCHANGED <<waiting, nextId, origin, lines>>
    BY <1>4 DEF CallTool
  <2>2. \A d \in Calls : outcome'[d] = IF d = c THEN "error" ELSE outcome[d]
    BY <2>1 DEF Types
  <2>3. Types'
    BY <1>2, <2>1 DEF Types, Outcomes
  <2>4. MadeOnce' /\ IdsApart' /\ WaitsForItsOwn'
    BY <1>1, <1>2, <2>1, <2>2 DEF MadeOnce, IdsApart, WaitsForItsOwn, Types
  <2>5. ResultsGood' /\ OutcomesGood'
    BY <1>2, <2>1, <2>2, GoodStays DEF ResultsGood, OutcomesGood
  <2> QED
    BY <1>3, <2>3, <2>4, <2>5 DEF IInv
<1>5. CASE linked
  <2>1. /\ waiting' = waiting \cup {<<nextId, c>>}
        /\ nextId' = nextId + 1
        /\ origin' = [origin EXCEPT ![c] = <<link, nextId>>]
        /\ lines' = lines \cup {c}
        /\ outcome' = [outcome EXCEPT ![c] = "waiting"]
    BY <1>5 DEF CallTool
  <2>2. \A d \in Calls : /\ outcome'[d] = IF d = c THEN "waiting" ELSE outcome[d]
                         /\ origin'[d] = IF d = c THEN <<link, nextId>> ELSE origin[d]
    BY <2>1 DEF Types
  <2>3. link \in Nat /\ link > 0 /\ nextId \in Nat
    BY NumbersAssumption DEF Types
  <2>4. Types'
    <3>1. outcome' \in [Calls -> Outcomes]
      BY <2>1 DEF Types, Outcomes
    <3>2. origin' \in [Calls -> Nat \X Nat]
      BY <2>1, <2>3 DEF Types
    <3>3. waiting' \subseteq (Nat \X Calls) /\ lines' \subseteq Calls /\ nextId' \in Nat \ {0}
      BY <2>1, <2>3 DEF Types
    <3> QED
      BY <1>2, <3>1, <3>2, <3>3 DEF Types, Outcomes, Calls
  <2>5. MadeOnce'
    BY <1>1, <1>2, <2>1, <2>2 DEF MadeOnce
  <2>6. \A d \in Calls : origin[d] \in Nat \X Nat
    BY DEF Types
  <2>7. IdsApart'
    <3>1. ASSUME NEW d \in Calls
          PROVE  origin'[d][1] <= link /\ (origin'[d][1] = link => origin'[d][2] < nextId')
      BY <2>1, <2>2, <2>3, <2>6 DEF IdsApart
    <3>2. ASSUME NEW d \in Calls, NEW e \in Calls, origin'[d] = origin'[e], origin'[d][1] > 0
          PROVE  d = e
      <4>1. CASE d # c /\ e # c
        BY <2>2, <3>2, <4>1 DEF IdsApart
      <4>2. ASSUME NEW f \in Calls, f # c PROVE origin[f] # <<link, nextId>>
        <5>1. origin[f][1] = link => origin[f][2] < nextId
          BY DEF IdsApart
        <5> QED
          BY <2>3, <2>6, <5>1
      <4>3. CASE d = c \/ e = c
        BY <2>2, <3>2, <4>2, <4>3
      <4> QED
        BY <4>1, <4>3
    <3> QED
      BY <1>2, <3>1, <3>2 DEF IdsApart
  <2>8. WaitsForItsOwn'
    <3> SUFFICES ASSUME NEW e \in waiting'
                 PROVE  origin'[e[2]] = <<link, e[1]>> /\ outcome'[e[2]] # "none"
      BY <1>2 DEF WaitsForItsOwn
    <3>1. CASE e = <<nextId, c>>
      BY <2>2, <3>1
    <3>2. CASE e \in waiting
      BY <1>1, <2>2, <3>2 DEF WaitsForItsOwn, Types
    <3> QED
      BY <2>1, <3>1, <3>2
  <2>9. ResultsGood'
    <3> SUFFICES ASSUME NEW res \in results
                 PROVE  \E d \in Calls : /\ origin'[d] = <<res.link, res.id>>
                                         /\ work'[d] = "over" /\ Good(d, res.outcome)'
      BY <1>2 DEF ResultsGood
    <3>1. PICK d \in Calls : origin[d] = <<res.link, res.id>> /\ work[d] = "over" /\ Good(d, res.outcome)
      BY DEF ResultsGood
    <3>2. d # c
      BY <1>1, <3>1
    <3> QED
      BY <1>2, <2>2, <3>1, <3>2, GoodStays
  <2>10. OutcomesGood'
    BY <1>2, <2>2, GoodStays DEF OutcomesGood
  <2> QED
    BY <1>3, <2>4, <2>5, <2>7, <2>8, <2>9, <2>10 DEF IInv
<1> QED
  BY <1>4, <1>5

\* A step of the plugin that ends waits, or none, and changes nothing else.
LEMMA WaitsEndStep ==
  ASSUME IInv, waiting' \subseteq waiting, results' \subseteq results,
         linked' \in BOOLEAN, outcome' \in [Calls -> Outcomes],
         \A c \in Calls : \/ outcome'[c] = outcome[c]
                          \/ outcome[c] # "none" /\ outcome'[c] \in {"error", "timeout"}
                          \/ outcome[c] # "none" /\ outcome'[c] # "none" /\ work[c] = "over" /\ Good(c, outcome'[c]),
         UNCHANGED <<link, nextId, open, lines, daemonVars, discordVars>>
  PROVE  IInv'
<1> USE IInvFacts
<1>1. UNCHANGED <<link, nextId, open, lines, origin, work, pending, choice, message, posted>>
  BY DEF daemonVars, discordVars
<1>2. Types'
  <2>1. waiting' \subseteq (Nat \X Calls) /\ results' \subseteq ResultType(link)
    BY DEF Types, ResultType
  <2> QED
    BY <1>1, <2>1 DEF Types, ResultType, Outcomes, Calls
<1>3. \A c \in Calls : outcome'[c] = "none" => outcome[c] = "none"
  OBVIOUS
<1>4. MadeOnce' /\ IdsApart' /\ AskedIsPending'
  BY <1>1, <1>3 DEF MadeOnce, IdsApart, AskedIsPending
<1>5. WaitsForItsOwn'
  BY <1>1, <1>3 DEF WaitsForItsOwn, Types
<1>6. ResultsGood'
  BY <1>1, GoodStays DEF ResultsGood
<1>7. OutcomesGood'
  <2> SUFFICES ASSUME NEW c \in Calls, outcome'[c] \notin {"none", "waiting", "error", "timeout"}
               PROVE  work[c] = "over" /\ Good(c, outcome'[c])
    BY <1>1, GoodStays DEF OutcomesGood
  <2> QED
    BY DEF OutcomesGood
<1> QED
  BY <1>2, <1>4, <1>5, <1>6, <1>7 DEF IInv

LEMMA ReceiveResultStep ==
  ASSUME IInv, NEW res \in results, ReceiveResult(res)
  PROVE  IInv'
<1> USE IInvFacts
<1> DEFINE mine == {e \in waiting : e[1] = res.id}
<1>1. /\ res.link = link
      /\ results' = results \ {res} /\ waiting' = waiting \ mine
      /\ outcome' = [c \in Calls |-> IF c \in Entries(mine) THEN res.outcome ELSE outcome[c]]
      /\ UNCHANGED <<link, linked, nextId, open, lines, daemonVars, discordVars>>
  BY DEF ReceiveResult
<1>2. res.outcome \in Outcomes
  BY DEF Types
<1>3. PICK c \in Calls : /\ origin[c] = <<link, res.id>>
                         /\ work[c] = "over" /\ Good(c, res.outcome)
  BY <1>1 DEF ResultsGood
<1>4. ASSUME NEW d \in Calls, d \in Entries(mine)
      PROVE  d = c /\ outcome[d] # "none"
  <2>1. PICK e \in mine : d = e[2]
    BY <1>4 DEF Entries
  <2>2. origin[d] = <<link, res.id>> /\ outcome[d] # "none"
    BY <2>1 DEF WaitsForItsOwn
  <2>3. origin[d][1] = link /\ link > 0
    BY <2>2, NumbersAssumption DEF Types
  <2> QED
    BY <1>3, <2>2, <2>3 DEF IdsApart
<1>5. res.outcome # "none"
  BY <1>3, CallsAssumption DEF Good
<1> HIDE DEF mine
<1>6. outcome' \in [Calls -> Outcomes]
  BY <1>1, <1>2 DEF Types
<1>7. \A d \in Calls : \/ outcome'[d] = outcome[d]
                       \/ /\ outcome[d] # "none" /\ outcome'[d] # "none"
                          /\ work[d] = "over" /\ Good(d, outcome'[d])
  BY <1>1, <1>3, <1>4, <1>5
<1>8. linked' \in BOOLEAN
  BY <1>1 DEF Types
<1> QED
  BY <1>1, <1>6, <1>7, <1>8, WaitsEndStep
LEMMA PluginStep ==
  ASSUME IInv, PluginSeesClose \/ PluginReconnects \/ \E c \in Calls : TimeOut(c)
  PROVE  IInv'
<1> USE IInvFacts
<1>1. ASSUME NEW c \in Entries(waiting) PROVE c \in Calls /\ outcome[c] # "none"
  BY DEF Entries, WaitsForItsOwn, Types
<1>2. ASSUME NEW c \in Calls, TimeOut(c) PROVE IInv'
  <2>1. /\ c \in Entries(waiting)
        /\ waiting' \subseteq waiting
        /\ outcome' = [outcome EXCEPT ![c] = "timeout"]
        /\ UNCHANGED <<link, linked, nextId, wireVars, daemonVars, discordVars>>
    BY <1>2 DEF TimeOut
  <2>2. outcome' \in [Calls -> Outcomes]
    BY <2>1 DEF Types, Outcomes
  <2>3. \A d \in Calls : outcome'[d] = IF d = c THEN "timeout" ELSE outcome[d]
    BY <2>1 DEF Types
  <2>4. linked' \in BOOLEAN /\ results' \subseteq results /\ UNCHANGED <<open, lines>>
    BY <2>1 DEF Types, wireVars
  <2> QED
    BY <1>1, <2>1, <2>2, <2>3, <2>4, WaitsEndStep
<1>3. CASE PluginSeesClose
  <2>1. /\ linked' = FALSE /\ waiting' = {} /\ results' \subseteq results
        /\ outcome' = [c \in Calls |-> IF c \in Entries(waiting) THEN "error" ELSE outcome[c]]
        /\ UNCHANGED <<link, nextId, open, lines, daemonVars, discordVars>>
    BY <1>3 DEF PluginSeesClose
  <2>2. outcome' \in [Calls -> Outcomes]
    BY <2>1 DEF Types, Outcomes
  <2> QED
    BY <1>1, <2>1, <2>2, WaitsEndStep
<1>4. CASE PluginReconnects
  <2>1. /\ link' = link + 1 /\ linked' = TRUE /\ nextId' = 1 /\ waiting' = {}
        /\ open' = open \cup {link + 1} /\ link < MaxLinks
        /\ UNCHANGED <<outcome, lines, results, origin, work, pending, choice, message, posted>>
    BY <1>4 DEF PluginReconnects, daemonVars, discordVars
  <2>2. link \in Nat /\ link > 0 /\ MaxLinks \in Nat
    BY NumbersAssumption DEF Types
  <2>3. \A c \in Calls : origin[c] \in Nat \X Nat
    BY DEF Types
  <2>4. Types'
    <3>1. link' \in 1 .. MaxLinks /\ 1 .. link \subseteq 1 .. link'
      BY <2>1, <2>2
    <3>2. open' \subseteq 1 .. link'
      BY <2>1, <2>2, <3>1 DEF Types
    <3>3. results' \subseteq ResultType(link')
      BY <2>1, <3>1 DEF Types, ResultType
    <3> QED
      BY <2>1, <3>1, <3>2, <3>3 DEF Types, ResultType, Outcomes, Calls
  <2>5. IdsApart'
    BY <2>1, <2>2, <2>3 DEF IdsApart
  <2>6. MadeOnce' /\ WaitsForItsOwn' /\ AskedIsPending'
    BY <2>1 DEF MadeOnce, WaitsForItsOwn, AskedIsPending
  <2>7. ResultsGood' /\ OutcomesGood'
    BY <2>1, GoodStays DEF ResultsGood, OutcomesGood
  <2> QED
    BY <2>4, <2>5, <2>6, <2>7 DEF IInv
<1> QED
  BY <1>2, <1>3, <1>4

-----------------------------------------------------------------------------
(* The daemon *)

\* A handler at work has not answered: nothing said so far depends on it.
LEMMA AnswersDoNotDepend ==
  ASSUME IInv, NEW c \in Calls, work[c] # "over",
         \A d \in Calls : work[d] = "over" => work'[d] = "over",
         \A r \in Replies : r # c => posted'[r] = posted[r],
         \A q \in Questions : q # c => choice'[q] = choice[q],
         UNCHANGED <<pluginVars, origin>>
  PROVE  /\ \A res \in results : \E d \in Calls :
                /\ origin'[d] = <<res.link, res.id>>
                /\ work'[d] = "over" /\ Good(d, res.outcome)'
         /\ OutcomesGood'
<1> USE IInvFacts
<1>1. ASSUME NEW d \in Calls, work[d] = "over", NEW o, Good(d, o) PROVE Good(d, o)'
  BY <1>1 DEF Good, Chunks
<1>2. UNCHANGED <<outcome, origin>>
  BY DEF pluginVars
<1>3. OutcomesGood'
  BY <1>1, <1>2 DEF OutcomesGood
<1> QED
  BY <1>1, <1>2, <1>3 DEF ResultsGood

\* The handler of a call ends with a good answer.
LEMMA RespondStep ==
  ASSUME IInv, NEW c \in Calls, NEW o \in Outcomes, Respond(c, o), Good(c, o),
         work[c] \notin {"none", "over"},
         pending' = pending \ {c},
         message' \in [Questions -> Options \cup {"none", "live"}],
         \A q \in Questions : q # c => message'[q] = message[q],
         UNCHANGED <<pluginVars, open, lines, origin, choice, posted>>
  PROVE  IInv'
<1> USE IInvFacts
<1> DEFINE new == [link |-> origin[c][1], id |-> origin[c][2], outcome |-> o]
<1>1. /\ results' = results \/ (origin[c][1] \in open /\ results' = results \cup {new})
      /\ work' = [work EXCEPT ![c] = "over"]
  BY DEF Respond, Result
<1>2. \A d \in Calls : work'[d] = IF d = c THEN "over" ELSE work[d]
  BY <1>1 DEF Types
<1>3. UNCHANGED <<link, linked, nextId, waiting, outcome>>
  BY DEF pluginVars
<1>4. origin[c] \in Nat \X Nat
  BY DEF Types
<1>5. Types'
  <2>1. results' \subseteq ResultType(link)
    <3>1. origin[c][1] \in open => new \in ResultType(link)
      BY <1>4 DEF Types, ResultType
    <3> QED
      BY <1>1, <3>1 DEF Types, ResultType
  <2>2. work' \in [Calls -> {"none", "sending", "asked", "updating", "over"}]
    BY <1>1 DEF Types
  <2> QED
    BY <1>3, <2>1, <2>2 DEF Types, ResultType, Outcomes, Calls
<1>6. MadeOnce' /\ IdsApart' /\ WaitsForItsOwn'
  BY <1>2, <1>3 DEF MadeOnce, IdsApart, WaitsForItsOwn
<1>7. AskedIsPending'
  <2> SUFFICES ASSUME NEW q \in Questions
               PROVE  /\ work'[q] = "asked" <=> q \in pending'
                      /\ q \in pending' => message'[q] = "live"
                      /\ work'[q] = "updating" => choice[q] \in Options
                      /\ choice[q] # "none" => work'[q] \in {"updating", "over"}
    BY DEF AskedIsPending
  <2>1. q \in Calls
    BY DEF Calls
  <2> QED
    BY <1>2, <2>1 DEF AskedIsPending
<1>8. /\ \A res \in results : \E d \in Calls :
             /\ origin'[d] = <<res.link, res.id>>
             /\ work'[d] = "over" /\ Good(d, res.outcome)'
      /\ OutcomesGood'
  BY <1>2, AnswersDoNotDepend
<1>9. ResultsGood'
  <2>1. work'[c] = "over" /\ Good(c, o)'
    BY <1>2, GoodStays
  <2> SUFFICES ASSUME NEW res \in results'
               PROVE  \E d \in Calls : /\ origin'[d] = <<res.link, res.id>>
                                       /\ work'[d] = "over" /\ Good(d, res.outcome)'
    BY DEF ResultsGood
  <2>2. CASE res \in results
    BY <1>8, <2>2
  <2>3. CASE res = new
    <3>1. origin'[c] = <<res.link, res.id>> /\ res.outcome = o
      BY <1>4, <2>3
    <3> QED
      BY <2>1, <3>1
  <2> QED
    BY <1>1, <2>2, <2>3
<1> QED
  BY <1>5, <1>6, <1>7, <1>8, <1>9 DEF IInv
LEMMA HandlerEndsStep ==
  ASSUME IInv,
         \/ \E r \in Replies : ReplyDelivered(r)
         \/ \E c \in Calls : SendFails(c)
         \/ \E q \in Questions : ClickUpdated(q) \/ Prune(q)
  PROVE  IInv'
<1> USE IInvFacts
<1> USE DEF discordVars
<1>1. \A q \in Questions : work[q] # "asked" => pending \ {q} = pending
  BY DEF AskedIsPending
<1>2. \A r \in Replies : pending \ {r} = pending
  BY CallsAssumption DEF Types
<1>3. message \in [Questions -> Options \cup {"none", "live"}] /\ {"ok", "error"} \subseteq Outcomes
  BY DEF Types, Outcomes
<1>4. ASSUME NEW r \in Replies, ReplyDelivered(r) PROVE IInv'
  <2>1. /\ r \in Calls /\ Respond(r, "ok") /\ work[r] = "sending" /\ posted[r] = Chunks[r]
        /\ UNCHANGED <<pluginVars, open, lines, origin, choice, posted, pending, message>>
    BY <1>4 DEF ReplyDelivered, Calls
  <2>2. Good(r, "ok")
    BY <2>1 DEF Good
  <2> QED
    BY <1>2, <1>3, <2>1, <2>2, RespondStep
<1>5. ASSUME NEW c \in Calls, SendFails(c) PROVE IInv'
  <2>1. /\ Respond(c, "error") /\ work[c] = "sending"
        /\ UNCHANGED <<pluginVars, open, lines, origin, choice, posted, pending, message>>
    BY <1>5 DEF SendFails
  <2>2. Good(c, "error") /\ pending \ {c} = pending
    BY <1>1, <1>2, <2>1 DEF Good, Calls
  <2> QED
    BY <1>3, <2>1, <2>2, RespondStep
<1>6. ASSUME NEW q \in Questions, ClickUpdated(q) PROVE IInv'
  <2>1. /\ q \in Calls /\ Respond(q, choice[q]) /\ work[q] = "updating"
        /\ message' = [message EXCEPT ![q] = choice[q]] \/ message' = message
        /\ UNCHANGED <<pluginVars, open, lines, origin, choice, posted, pending>>
    BY <1>6 DEF ClickUpdated, Calls
  <2>2. choice[q] \in Options /\ pending \ {q} = pending
    BY <1>1, <2>1 DEF AskedIsPending
  <2>3. Good(q, choice[q]) /\ choice[q] \in Outcomes
    BY <2>2 DEF Good, Outcomes
  <2>4. /\ message' \in [Questions -> Options \cup {"none", "live"}]
        /\ \A p \in Questions : p # q => message'[p] = message[p]
    BY <1>3, <2>1, <2>2
  <2> QED
    BY <2>1, <2>2, <2>3, <2>4, RespondStep
<1>7. ASSUME NEW q \in Questions, Prune(q) PROVE IInv'
  <2>1. /\ q \in Calls /\ Respond(q, "error") /\ q \in pending /\ pending' = pending \ {q}
        /\ UNCHANGED <<pluginVars, open, lines, origin, choice, posted, message>>
    BY <1>7 DEF Prune, Calls
  <2>2. Good(q, "error") /\ work[q] = "asked"
    BY <2>1 DEF Good, AskedIsPending
  <2> QED
    BY <1>3, <2>1, <2>2, RespondStep
<1> QED
  BY <1>4, <1>5, <1>6, <1>7

\* A handler goes on: it may post, ask, or take a click.
LEMMA WorkStep ==
  ASSUME IInv, NEW c \in Calls, NEW w \in {"sending", "asked", "updating"},
         work[c] # "over", work' = [work EXCEPT ![c] = w],
         outcome[c] # "none" \/ work[c] # "none",
         lines' = IF work[c] = "none" THEN lines \ {c} ELSE lines,
         DOMAIN posted' = Replies,
         \A r \in Replies : r # c => posted'[r] = posted[r],
         choice' \in [Questions -> Options \cup {"none"}],
         \A q \in Questions : q # c => choice'[q] = choice[q],
         message' \in [Questions -> Options \cup {"none", "live"}],
         \A q \in Questions : q # c => message'[q] = message[q],
         pending' \subseteq Questions,
         \A q \in Questions : q # c => (q \in pending' <=> q \in pending),
         c \in Questions =>
            /\ w = "asked" <=> c \in pending'
            /\ c \in pending' => message'[c] = "live"
            /\ w = "updating" => choice'[c] \in Options
            /\ choice'[c] # "none" => w = "updating",
         UNCHANGED <<pluginVars, open, results, origin>>
  PROVE  IInv'
<1> USE IInvFacts
<1>1. \A d \in Calls : work'[d] = IF d = c THEN w ELSE work[d]
  BY DEF Types
<1>2. UNCHANGED <<link, linked, nextId, waiting, outcome>>
  BY DEF pluginVars
<1>3. Types'
  <2>1. work' \in [Calls -> {"none", "sending", "asked", "updating", "over"}]
    BY DEF Types
  <2>2. lines' \subseteq Calls
    BY DEF Types
  <2> QED
    BY <1>2, <2>1, <2>2 DEF Types, Outcomes, Calls
<1>4. outcome[c] # "none"
  BY DEF MadeOnce
<1>5. MadeOnce'
  BY <1>1, <1>2, <1>4 DEF MadeOnce
<1>6. IdsApart' /\ WaitsForItsOwn'
  BY <1>2 DEF IdsApart, WaitsForItsOwn
<1>7. AskedIsPending'
  <2> SUFFICES ASSUME NEW q \in Questions
               PROVE  /\ work'[q] = "asked" <=> q \in pending'
                      /\ q \in pending' => message'[q] = "live"
                      /\ work'[q] = "updating" => choice'[q] \in Options
                      /\ choice'[q] # "none" => work'[q] \in {"updating", "over"}
    BY DEF AskedIsPending
  <2>1. q \in Calls
    BY DEF Calls
  <2>2. CASE q = c
    BY <1>1, <2>1, <2>2
  <2>3. CASE q # c
    BY <1>1, <2>1, <2>3 DEF AskedIsPending
  <2> QED
    BY <2>2, <2>3
<1>8. ResultsGood' /\ OutcomesGood'
  <2>1. \A d \in Calls : work[d] = "over" => work'[d] = "over"
    BY <1>1
  <2> QED
    BY <2>1, AnswersDoNotDepend DEF ResultsGood
<1> QED
  BY <1>3, <1>5, <1>6, <1>7, <1>8 DEF IInv
LEMMA HandlerStep ==
  ASSUME IInv,
         \/ \E c \in Calls : HandleToolCall(c)
         \/ \E q \in Questions : QuestionAcked(q) \/ \E o \in Options : Click(q, o)
  PROVE  IInv'
<1> USE IInvFacts
<1>1. /\ DOMAIN posted = Replies
      /\ choice \in [Questions -> Options \cup {"none"}]
      /\ message \in [Questions -> Options \cup {"none", "live"}]
      /\ pending \subseteq Questions
  BY DEF Types
<1>2. ASSUME NEW c \in Calls, HandleToolCall(c) PROVE IInv'
  <2>1. /\ c \in lines /\ lines' = lines \ {c}
        /\ work' = [work EXCEPT ![c] = "sending"]
        /\ UNCHANGED <<pluginVars, open, results, origin, pending, choice, message, posted>>
    BY <1>2 DEF HandleToolCall, discordVars
  <2>2. work[c] = "none" /\ outcome[c] # "none"
    BY <2>1 DEF MadeOnce
  <2>3. c \in Questions => c \notin pending /\ choice[c] = "none"
    BY <2>2 DEF AskedIsPending
  <2> QED
    BY <1>1, <2>1, <2>2, <2>3, WorkStep
<1>3. ASSUME NEW q \in Questions, QuestionAcked(q) PROVE IInv'
  <2>1. /\ q \in Calls /\ work[q] = "sending" /\ message[q] = "live"
        /\ pending' = pending \cup {q}
        /\ work' = [work EXCEPT ![q] = "asked"]
        /\ UNCHANGED <<pluginVars, open, lines, results, origin, choice, message, posted>>
    BY <1>3 DEF QuestionAcked, wireVars, discordVars, Calls
  <2>2. choice[q] = "none"
    BY <2>1 DEF AskedIsPending
  <2> QED
    BY <1>1, <2>1, <2>2, WorkStep
<1>4. ASSUME NEW q \in Questions, NEW o \in Options, Click(q, o) PROVE IInv'
  <2>1. /\ q \in Calls /\ q \in pending /\ pending' = pending \ {q}
        /\ choice' = [choice EXCEPT ![q] = o]
        /\ work' = [work EXCEPT ![q] = "updating"]
        /\ UNCHANGED <<pluginVars, open, lines, results, origin, message, posted>>
    BY <1>4 DEF Click, wireVars, discordVars, Calls
  <2>2. work[q] = "asked"
    BY <2>1 DEF AskedIsPending
  <2>3. /\ choice' \in [Questions -> Options \cup {"none"}]
        /\ \A p \in Questions : choice'[p] = IF p = q THEN o ELSE choice[p]
    BY <1>1, <2>1
  <2> QED
    BY <1>1, <2>1, <2>2, <2>3, WorkStep
<1> QED
  BY <1>2, <1>3, <1>4

\* Discord shows a chunk or a question.
LEMMA PostStep ==
  ASSUME IInv,
         \/ \E r \in Replies : ChunkPosted(r)
         \/ \E q \in Questions : QuestionPosted(q)
  PROVE  IInv'
<1> USE IInvFacts
<1>1. ASSUME NEW r \in Replies, ChunkPosted(r) PROVE IInv'
  <2>1. /\ r \in Calls /\ work[r] = "sending"
        /\ posted' = [posted EXCEPT ![r] = @ + 1]
        /\ UNCHANGED <<pluginVars, wireVars, daemonVars, message>>
    BY <1>1 DEF ChunkPosted, Calls
  <2>2. UNCHANGED <<link, linked, nextId, waiting, outcome, open, lines, results,
                    origin, work, pending, choice, message>>
    BY <2>1 DEF pluginVars, wireVars, daemonVars
  <2>3. DOMAIN posted' = Replies /\ \A s \in Replies : s # r => posted'[s] = posted[s]
    BY <2>1 DEF Types
  <2>4. Types'
    BY <2>2, <2>3 DEF Types, Outcomes, Calls
  <2>5. ResultsGood' /\ OutcomesGood'
    BY <2>1, <2>2, <2>3, AnswersDoNotDepend DEF ResultsGood
  <2> QED
    BY <2>2, <2>4, <2>5 DEF IInv, MadeOnce, IdsApart, WaitsForItsOwn, AskedIsPending
<1>2. ASSUME NEW q \in Questions, QuestionPosted(q) PROVE IInv'
  <2>1. /\ q \in Calls /\ work[q] = "sending" /\ message[q] = "none"
        /\ message' = [message EXCEPT ![q] = "live"]
        /\ UNCHANGED <<pluginVars, wireVars, daemonVars, posted>>
    BY <1>2 DEF QuestionPosted, Calls
  <2>2. UNCHANGED <<link, linked, nextId, waiting, outcome, open, lines, results,
                    origin, work, pending, choice, posted>>
    BY <2>1 DEF pluginVars, wireVars, daemonVars
  <2>3. /\ message' \in [Questions -> Options \cup {"none", "live"}]
        /\ \A p \in Questions : message'[p] = IF p = q THEN "live" ELSE message[p]
    BY <2>1 DEF Types
  <2>4. Types'
    BY <2>2, <2>3 DEF Types, Outcomes, Calls
  <2>5. ResultsGood' /\ OutcomesGood'
    BY <2>2, GoodStays DEF ResultsGood, OutcomesGood
  <2>6. AskedIsPending'
    BY <2>2, <2>3 DEF AskedIsPending
  <2> QED
    BY <2>2, <2>4, <2>5, <2>6 DEF IInv, MadeOnce, IdsApart, WaitsForItsOwn
<1> QED
  BY <1>1, <1>2

LEMMA LossStep ==
  ASSUME IInv, DaemonDrops \/ DaemonRestarts \/ UNCHANGED vars
  PROVE  IInv'
<1> USE IInvFacts
<1>1. UNCHANGED <<link, linked, nextId, waiting, outcome, results, origin, choice, message, posted>>
  BY DEF DaemonDrops, DaemonRestarts, vars, pluginVars, wireVars, daemonVars, discordVars
<1>2. CASE DaemonDrops \/ UNCHANGED vars
  <2>1. open' \subseteq open /\ UNCHANGED <<lines, work, pending>>
    BY <1>2 DEF DaemonDrops, vars, wireVars, daemonVars
  <2>2. Types'
    BY <1>1, <2>1 DEF Types, Outcomes, Calls
  <2>3. ResultsGood' /\ OutcomesGood'
    BY <1>1, <2>1, GoodStays DEF ResultsGood, OutcomesGood
  <2> QED
    BY <1>1, <2>1, <2>2, <2>3 DEF IInv, MadeOnce, IdsApart, WaitsForItsOwn, AskedIsPending
<1>3. CASE DaemonRestarts
  <2>1. /\ open' = {} /\ lines' = {} /\ pending' = {}
        /\ work' = [c \in Calls |-> IF work[c] = "none" THEN "none" ELSE "over"]
    BY <1>3 DEF DaemonRestarts
  <2>2. Types'
    BY <1>1, <2>1 DEF Types, Outcomes, Calls
  <2>3. ResultsGood' /\ OutcomesGood'
    BY <1>1, <2>1, GoodStays DEF ResultsGood, OutcomesGood
  <2>4. MadeOnce' /\ IdsApart' /\ WaitsForItsOwn'
    BY <1>1, <2>1 DEF MadeOnce, IdsApart, WaitsForItsOwn
  <2>5. AskedIsPending'
    <3>1. \A q \in Questions : choice[q] # "none" => work[q] # "none"
      BY DEF AskedIsPending
    <3> QED
      BY <1>1, <2>1, <3>1 DEF AskedIsPending, Calls
  <2> QED
    BY <2>2, <2>3, <2>4, <2>5 DEF IInv
<1> QED
  BY <1>2, <1>3

LEMMA StepIInv == IInv /\ [Next]_vars => IInv'
<1> SUFFICES ASSUME IInv, [Next]_vars PROVE IInv'
  OBVIOUS
<1>1. ASSUME NEW c \in Calls, CallTool(c) PROVE IInv'
  BY <1>1, CallToolStep
<1>2. ASSUME NEW res \in results, ReceiveResult(res) PROVE IInv'
  BY <1>2, ReceiveResultStep
<1>3. CASE PluginSeesClose \/ PluginReconnects \/ \E c \in Calls : TimeOut(c)
  BY <1>3, PluginStep
<1>4. CASE \/ \E r \in Replies : ReplyDelivered(r)
           \/ \E c \in Calls : SendFails(c)
           \/ \E q \in Questions : ClickUpdated(q) \/ Prune(q)
  BY <1>4, HandlerEndsStep
<1>5. CASE \/ \E c \in Calls : HandleToolCall(c)
           \/ \E q \in Questions : QuestionAcked(q) \/ \E o \in Options : Click(q, o)
  BY <1>5, HandlerStep
<1>6. CASE \/ \E r \in Replies : ChunkPosted(r)
           \/ \E q \in Questions : QuestionPosted(q)
  BY <1>6, PostStep
<1>7. CASE DaemonDrops \/ DaemonRestarts \/ UNCHANGED vars
  BY <1>7, LossStep
<1> QED
  BY <1>1, <1>2, <1>3, <1>4, <1>5, <1>6, <1>7 DEF Next

-----------------------------------------------------------------------------
\* A success is true of its own call: a reply's chunks are all on Discord, a
\* question's answer is the option that was clicked on it.
THEOREM SuccessesAreTrue == Spec => []SuccessIsTrue
<1>1. IInv => SuccessIsTrue
  <2> SUFFICES ASSUME IInv PROVE SuccessIsTrue
    OBVIOUS
  <2> USE IInvFacts
  <2>1. ASSUME NEW c \in Calls, outcome[c] \notin {"none", "waiting", "error", "timeout"}
        PROVE  Good(c, outcome[c])
    BY <2>1 DEF OutcomesGood
  <2>2. ASSUME NEW r \in Replies
        PROVE  (outcome[r] = "ok" => posted[r] = Chunks[r]) /\ outcome[r] \notin Options
    <3>1. r \in Calls /\ r \notin Questions
      BY CallsAssumption DEF Calls
    <3> QED
      BY <2>1, <3>1, CallsAssumption DEF Good
  <2>3. ASSUME NEW q \in Questions
        PROVE  (outcome[q] \in Options => outcome[q] = choice[q]) /\ outcome[q] # "ok"
    <3>1. q \in Calls /\ q \notin Replies
      BY CallsAssumption DEF Calls
    <3> QED
      BY <2>1, <3>1, CallsAssumption DEF Good
  <2> QED
    BY <2>2, <2>3, RepliesFit, RepliesAreWhole DEF SuccessIsTrue
<1> QED
  BY <1>1, InitIInv, StepIInv, PTL DEF Spec

\* No click changes what an earlier one chose.
THEOREM FirstClicksWin == Spec => FirstClickWins
<1> DEFINE Step == \A q \in Questions : choice[q] # "none" => choice'[q] = choice[q]
<1>1. IInv /\ [Next]_vars => Step
  <2> SUFFICES ASSUME IInv, [Next]_vars, NEW q \in Questions, choice[q] # "none"
               PROVE  choice'[q] = choice[q]
    OBVIOUS
  <2>1. q \notin pending
    BY IInvFacts DEF AskedIsPending
  <2>2. ASSUME NEW p \in Questions, NEW o \in Options, Click(p, o)
        PROVE  choice'[q] = choice[q]
    BY <2>1, <2>2, IInvFacts DEF Click, Types
  <2>3. CASE UNCHANGED choice
    BY <2>3
  <2>4. UNCHANGED choice \/ \E p \in Questions, o \in Options : Click(p, o)
    BY DEF Next, CallTool, TimeOut, HandleToolCall, SendFails, ReceiveResult, PluginSeesClose,
           PluginReconnects, ChunkPosted, ReplyDelivered, QuestionPosted, QuestionAcked,
           ClickUpdated, Prune, DaemonDrops, DaemonRestarts, daemonVars, vars
  <2> QED
    BY <2>2, <2>3, <2>4
<1>2. FirstClickWins <=> [][Step]_vars
  BY DEF FirstClickWins
<1> HIDE DEF Step
<1> QED
  BY <1>1, <1>2, InitIInv, StepIInv, PTL DEF Spec

-----------------------------------------------------------------------------
(* What is shown of a reply *)

\* A reply has a number of chunks, since the loop of chunk ends.
LEMMA ChunksCounted == ASSUME NEW r \in Replies PROVE Chunks[r] \in Nat
<1>1. TextOf[r] \in Texts
  BY TextsAssumption
<1>2. Chunk(TextOf[r], Limit, Mode) \in Seq(Seq({"\n", " ", "x"}))
  BY <1>1, ChunkFits, NumbersAssumption
<1> HIDE DEF Chunk
<1> QED
  BY <1>2, LenProperties DEF Chunks

\* Never more than the chunks of a reply are posted.
PostedInRange == \A r \in Replies : posted[r] \in 0 .. Chunks[r]

LEMMA StepPosted == IInv /\ PostedInRange /\ [Next]_vars => PostedInRange'
<1> SUFFICES ASSUME IInv, PostedInRange, [Next]_vars PROVE PostedInRange'
  OBVIOUS
<1>1. Chunks' = Chunks
  BY DEF Chunks
<1>2. CASE UNCHANGED posted
  BY <1>1, <1>2 DEF PostedInRange
<1>3. ASSUME NEW r \in Replies, ChunkPosted(r) PROVE PostedInRange'
  <2>1. DOMAIN posted = Replies
    BY IInvFacts DEF Types
  <2>2. posted[r] < Chunks[r] /\ posted' = [posted EXCEPT ![r] = posted[r] + 1]
    BY <1>3 DEF ChunkPosted
  <2> SUFFICES ASSUME NEW s \in Replies PROVE posted'[s] \in 0 .. Chunks[s]
    BY <1>1 DEF PostedInRange
  <2> QED
    BY <2>1, <2>2, ChunksCounted DEF PostedInRange
<1>4. UNCHANGED posted \/ \E r \in Replies : ChunkPosted(r)
  BY DEF Next, CallTool, TimeOut, HandleToolCall, SendFails, ReceiveResult, PluginSeesClose,
         PluginReconnects, ReplyDelivered, QuestionPosted, QuestionAcked, Click,
         ClickUpdated, Prune, DaemonDrops, DaemonRestarts, discordVars, vars
<1> QED
  BY <1>2, <1>3, <1>4

\* A question that waits has its entry and its buttons, and every part of the
\* state its type.
THEOREM WaitsCanEnd == Spec => []AskedCanBeClicked
<1>1. Init => PostedInRange
  BY ChunksCounted DEF Init, PostedInRange
<1>2. IInv /\ PostedInRange => AskedCanBeClicked
  BY IInvFacts DEF PostedInRange, AskedCanBeClicked, TypeOK, Types, AskedIsPending
<1> QED
  BY <1>1, <1>2, InitIInv, StepIInv, StepPosted, PTL DEF Spec
=============================================================================
