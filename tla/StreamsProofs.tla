--------------------------- MODULE StreamsProofs ---------------------------
(***************************************************************************)
(* Theorems about Streams, for any transcripts, errors, chats and bounds:  *)
(* the notices of a chat, what the watcher reports, and the lines that a   *)
(* plugin sends.                                                           *)
(***************************************************************************)
EXTENDS Streams, FiniteSetTheorems, FunctionTheorems, SequenceTheorems, WellFoundedInduction, TLAPS

-----------------------------------------------------------------------------
(* Notices *)

\* The inductive invariant: the notices of the current window are one for a chat
\* whose slot is claimed and none for another.
Slots ==
    /\ started \in [Chats -> {0, 1}]
    /\ \A c \in Chats : started[c] = 1 <=> c \in window

\* A burst of failures claims only free slots (ErrorNotifier.notify).
LEMMA NotifyKeepsSlots ==
  ASSUME Slots, NEW C, Notify(C)
  PROVE  Slots'
<1> DEFINE fresh == C \ window
<1>1. /\ window' = window \cup fresh
      /\ started' = [c \in Chats |-> IF c \in fresh THEN started[c] + 1 ELSE started[c]]
  BY DEF Notify
<1>2. ASSUME NEW c \in Chats
      PROVE  started'[c] \in {0, 1} /\ (started'[c] = 1 <=> c \in window')
  <2>1. CASE c \in fresh
    <3>1. started[c] = 0
      BY <2>1 DEF Slots
    <3> QED
      BY <1>1, <2>1, <3>1
  <2>2. CASE c \notin fresh
    BY <1>1, <2>2 DEF Slots
  <2> QED
    BY <2>1, <2>2
<1> QED
  BY <1>1, <1>2 DEF Slots

LEMMA InitSlots == Init => Slots
BY DEF Init, Slots

LEMMA StepSlots ==
  ASSUME Slots, [Next]_vars
  PROVE  Slots'
<1>1. ASSUME UNCHANGED <<window, started>>
      PROVE  Slots'
  BY <1>1 DEF Slots
<1>2. CASE UNCHANGED vars
  BY <1>1, <1>2 DEF vars, noticeVars
<1>3. ASSUME NEW f \in Files,
             \/ WritesLine(f, <<>>) \/ WritesLine(f, <<NL>>) \/ EndsLine(f)
             \/ \E e \in 0 .. Len(file[f]) : Shrinks(f, e)
      PROVE  Slots'
  BY <1>1, <1>3 DEF WritesLine, EndsLine, Shrinks, noticeVars
<1>4. CASE Observe
  BY <1>1, <1>4 DEF Observe, noticeVars
<1>5. CASE Poll
  <2>1. PICK C : Notify(C)
    BY <1>5 DEF Poll, OnApiError
  <2> QED
    BY <2>1, NotifyKeepsSlots
<1>6. ASSUME NEW b \in Bodies, PluginSends(b)
      PROVE  Slots'
  BY <1>1, <1>6 DEF PluginSends, noticeVars
<1>7. ASSUME NEW k \in 1 .. Len(wire), DaemonReads(k)
      PROVE  Slots'
  BY <1>1, <1>7 DEF DaemonReads, noticeVars
<1>8. ASSUME NEW c \in Chats, Inbound(c) \/ NoticeEnds(c)
      PROVE  Slots'
  BY <1>1, <1>8 DEF Inbound, NoticeEnds, noticeVars
<1>9. ASSUME NEW c \in Chats, ReplyEnds(c) \/ TypingCap(c)
      PROVE  Slots'
  <2>1. CASE UNCHANGED noticeVars
    BY <1>1, <2>1 DEF noticeVars
  <2>2. CASE Notify({c})
    BY <2>2, NotifyKeepsSlots
  <2> QED
    BY <1>9, <2>1, <2>2 DEF ReplyEnds, TypingCap
<1>10. ASSUME NEW c \in Chats, WindowEnds(c)
       PROVE  Slots'
  <2>1. window' = window \ {c} /\ started' = [started EXCEPT ![c] = 0]
    BY <1>10 DEF WindowEnds
  <2> QED
    BY <2>1 DEF Slots
<1>11. CASE StopByWorkspace
  BY <1>1, <1>11 DEF StopByWorkspace, noticeVars
<1> QED
  BY <1>2, <1>3, <1>4, <1>5, <1>6, <1>7, <1>8, <1>9, <1>10, <1>11 DEF Next

\* One notice per channel and minute, whatever fails meanwhile and however long a
\* notice takes (ErrorNotifier).
THEOREM OneNoticeAMinute == Spec => []OneNotice
<1>1. Slots => OneNotice
  BY DEF Slots, OneNotice
<1> QED
  BY <1>1, InitSlots, StepSlots, PTL DEF Spec

-----------------------------------------------------------------------------
(* Lines of a sequence of cells *)

\* A set of numbers up to n has a last one.
LEMMA LastOfSet ==
  ASSUME NEW n \in Nat, NEW S, S \subseteq 1 .. n, S # {}
  PROVE  \E x \in S : \A y \in S : y <= x
<1> DEFINE T == {n - x : x \in S}
<1>1. T \subseteq Nat /\ T # {}
  <2>1. \A x \in S : n - x \in Nat
    OBVIOUS
  <2> QED
    BY <2>1
<1>2. PICK k \in T : \A j \in T : ~(<<j, k>> \in OpToRel(<, Nat))
  <2> HIDE DEF T
  <2> QED
    BY <1>1, NatLessThanWellFounded, WFMin
<1>3. PICK x \in S : k = n - x
  BY <1>2
<1>4. ASSUME NEW y \in S PROVE y <= x
  <2>1. n - y \in T
    OBVIOUS
  <2>2. ~(n - y < k)
    <3>1. n - y \in Nat /\ k \in Nat
      BY <1>1, <1>2, <2>1
    <3> HIDE DEF T
    <3> QED
      BY <1>2, <2>1, <3>1 DEF OpToRel
  <2>3. x \in 1 .. n /\ y \in 1 .. n
    OBVIOUS
  <2> HIDE DEF T
  <2> QED
    BY <1>3, <2>2, <2>3
<1> QED
  BY <1>4

\* The last end of a line before a position.
LEMMA EndBeforeIs ==
  ASSUME NEW C, NEW s \in Seq(C), NEW i \in 1 .. Len(s) + 1
  PROVE  /\ EndBefore(s, i) \in 0 .. i - 1
         /\ EndBefore(s, i) # 0 => s[EndBefore(s, i)] = NL
         /\ \A k \in EndBefore(s, i) + 1 .. i - 1 : s[k] # NL
<1> DEFINE before == {e \in Ends(s) : e < i}
<1>1. Len(s) \in Nat /\ DOMAIN s = 1 .. Len(s)
  BY LenProperties
<1>2. EndBefore(s, i) = IF before = {} THEN 0
                        ELSE CHOOSE e \in before : \A j \in before : j <= e
  BY DEF EndBefore
<1>3. before \subseteq 1 .. Len(s)
  BY <1>1 DEF Ends
<1>4. \A k \in 1 .. i - 1 : s[k] = NL => k \in before
  BY <1>1 DEF Ends
<1>5. CASE before = {}
  <2>1. EndBefore(s, i) = 0
    BY <1>2, <1>5
  <2> QED
    BY <1>1, <1>4, <1>5, <2>1
<1>6. CASE before # {}
  <2> DEFINE e == EndBefore(s, i)
  <2>1. e \in before /\ \A j \in before : j <= e
    <3> HIDE DEF before
    <3> QED
      BY <1>1, <1>2, <1>3, <1>6, LastOfSet
  <2>2. e \in 1 .. i - 1 /\ s[e] = NL
    <3> HIDE DEF e
    <3> QED
      BY <1>1, <2>1 DEF Ends
  <2>3. ASSUME NEW k \in e + 1 .. i - 1 PROVE s[k] # NL
    <3> HIDE DEF e
    <3>1. k \in 1 .. i - 1 /\ ~(k <= e)
      BY <1>1, <2>2
    <3> HIDE DEF before
    <3> QED
      BY <1>4, <2>1, <3>1
  <2> HIDE DEF e
  <2> QED
    BY <1>1, <2>2, <2>3 DEF e
<1> QED
  BY <1>5, <1>6

\* It is the only position like that.
LEMMA EndBeforeUnique ==
  ASSUME NEW C, NEW s \in Seq(C), NEW i \in 1 .. Len(s) + 1, NEW b \in 0 .. i - 1,
         b # 0 => s[b] = NL, \A k \in b + 1 .. i - 1 : s[k] # NL
  PROVE  EndBefore(s, i) = b
<1> DEFINE e == EndBefore(s, i)
<1>1. /\ e \in 0 .. i - 1
      /\ e # 0 => s[e] = NL
      /\ \A k \in e + 1 .. i - 1 : s[k] # NL
  BY EndBeforeIs
<1>2. Len(s) \in Nat
  BY LenProperties
<1> HIDE DEF e
<1>3. ~(e < b)
  BY <1>1, <1>2
<1>4. ~(b < e)
  BY <1>1, <1>2
<1> QED
  BY <1>1, <1>2, <1>3, <1>4 DEF e

\* The part of s behind a, up to z.
LEMMA PartIs ==
  ASSUME NEW C, NEW s \in Seq(C), NEW z \in 0 .. Len(s), NEW a \in 0 .. z
  PROVE  LET t == SubSeq(s, a + 1, z)
         IN  t \in Seq(C) /\ Len(t) = z - a /\ \A j \in 1 .. z - a : t[j] = s[a + j]
<1> DEFINE t == SubSeq(s, a + 1, z)
<1>1. Len(s) \in Nat /\ \A i \in 1 .. Len(s) : s[i] \in C
  BY LenProperties, ElementOfSeq
<1>2. /\ t \in Seq(C)
      /\ Len(t) = IF a + 1 <= z THEN z - (a + 1) + 1 ELSE 0
      /\ \A j \in 1 .. z - (a + 1) + 1 : t[j] = s[a + 1 + j - 1]
  <2>1. \A i \in a + 1 .. z : s[i] \in C
    BY <1>1
  <2>2. a + 1 \in Int /\ z \in Int
    BY <1>1
  <2> QED
    BY <2>1, <2>2, SubSeqProperties
<1> HIDE DEF t
<1>3. Len(t) = z - a
  BY <1>1, <1>2
<1>4. ASSUME NEW j \in 1 .. z - a PROVE t[j] = s[a + j]
  <2>1. j \in 1 .. z - (a + 1) + 1 /\ a + 1 + j - 1 = a + j
    BY <1>1
  <2> QED
    BY <1>2, <2>1
<1> QED
  BY <1>2, <1>3, <1>4 DEF t

\* The rest of s: what follows the last newline.
LEMMA RestIs ==
  ASSUME NEW C, NEW s \in Seq(C)
  PROVE  LET b == EndBefore(s, Len(s) + 1)
         IN  /\ b \in 0 .. Len(s) /\ (b # 0 => s[b] = NL)
             /\ Rest(s) \in Seq(C) /\ Len(Rest(s)) = Len(s) - b
             /\ \A j \in 1 .. Len(s) - b : Rest(s)[j] = s[b + j] /\ Rest(s)[j] # NL
<1> DEFINE b == EndBefore(s, Len(s) + 1)
<1>1. Len(s) \in Nat /\ \A i \in 1 .. Len(s) : s[i] \in C
  BY LenProperties, ElementOfSeq
<1>2. b \in 0 .. Len(s) /\ (b # 0 => s[b] = NL) /\ \A k \in b + 1 .. Len(s) : s[k] # NL
  <2>1. Len(s) + 1 \in 1 .. Len(s) + 1 /\ Len(s) + 1 - 1 = Len(s)
    BY <1>1
  <2>2. /\ b \in 0 .. Len(s) + 1 - 1
        /\ b # 0 => s[b] = NL
        /\ \A k \in b + 1 .. Len(s) + 1 - 1 : s[k] # NL
    BY <2>1, EndBeforeIs
  <2> HIDE DEF b
  <2> QED
    BY <2>1, <2>2
<1>3. Rest(s) = SubSeq(s, b + 1, Len(s))
  BY DEF Rest
<1> HIDE DEF b
<1>4. /\ Rest(s) \in Seq(C) /\ Len(Rest(s)) = Len(s) - b
      /\ \A j \in 1 .. Len(s) - b : Rest(s)[j] = s[b + j]
  <2>1. Len(s) \in 0 .. Len(s)
    BY <1>1
  <2> QED
    BY <1>2, <1>3, <2>1, PartIs
<1>5. ASSUME NEW j \in 1 .. Len(s) - b
      PROVE  Rest(s)[j] = s[b + j] /\ Rest(s)[j] # NL
  <2>1. b + j \in b + 1 .. Len(s)
    BY <1>1, <1>2
  <2> QED
    BY <1>2, <1>4, <2>1
<1> QED
  BY <1>2, <1>4, <1>5 DEF b

\* The line that ends at e is the body n.
IsLine(s, n, e) == s[e] = NL /\ s[e - 1] = n /\ (e = 2 \/ s[e - 2] = NL)

\* The lines that a reader of the cells finds are those.
LEMMA LineIs ==
  ASSUME NEW C, NEW s \in Seq(C), NEW n, n # NL, NEW e \in 1 .. Len(s), s[e] = NL
  PROVE  LineAt(s, e) = <<n>> <=> e \in 2 .. Len(s) /\ IsLine(s, n, e)
<1> DEFINE b == EndBefore(s, e)
<1>1. Len(s) \in Nat /\ e \in Int /\ \A i \in 1 .. Len(s) : s[i] \in C
  BY LenProperties, ElementOfSeq
<1>2. b \in 0 .. e - 1 /\ (b # 0 => s[b] = NL) /\ \A k \in b + 1 .. e - 1 : s[k] # NL
  <2>1. e \in 1 .. Len(s) + 1
    BY <1>1
  <2> QED
    BY <2>1, EndBeforeIs
<1>3. LineAt(s, e) = SubSeq(s, b + 1, e - 1)
  BY DEF LineAt
<1> HIDE DEF b
<1> DEFINE t == LineAt(s, e)
<1>4. t \in Seq(C) /\ Len(t) = e - 1 - b /\ \A j \in 1 .. e - 1 - b : t[j] = s[b + j]
  <2>1. e - 1 \in 0 .. Len(s)
    BY <1>1
  <2> QED
    BY <1>2, <1>3, <2>1, PartIs
<1> HIDE DEF t
<1>5. ASSUME t = <<n>>
      PROVE  e \in 2 .. Len(s) /\ IsLine(s, n, e)
  <2>1. Len(t) = 1 /\ t[1] = n
    BY <1>5
  <2>2. e \in 2 .. Len(s) /\ 1 \in 1 .. e - 1 - b /\ b + 1 = e - 1 /\ b = e - 2
    <3>1. b \in Int /\ b >= 0
      BY <1>1, <1>2
    <3>2. e - 1 - b = 1
      BY <1>4, <2>1
    <3>3. b = e - 2
      BY <1>1, <3>1, <3>2
    <3> QED
      BY <1>1, <3>1, <3>3
  <2>3. s[e - 1] = n
    BY <1>4, <2>1, <2>2
  <2> QED
    BY <1>1, <1>2, <2>2, <2>3 DEF IsLine
<1>6. ASSUME e \in 2 .. Len(s), IsLine(s, n, e)
      PROVE  t = <<n>>
  <2>1. b = e - 2
    <3>1. /\ e \in 1 .. Len(s) + 1 /\ e - 2 \in 0 .. e - 1
          /\ e - 2 # 0 => s[e - 2] = NL
          /\ \A k \in e - 2 + 1 .. e - 1 : k = e - 1
      BY <1>1, <1>6 DEF IsLine
    <3>2. \A k \in e - 2 + 1 .. e - 1 : s[k] # NL
      BY <1>6, <3>1 DEF IsLine
    <3> QED
      BY <3>1, <3>2, EndBeforeUnique DEF b
  <2>2. e - 1 - b = 1 /\ 1 \in 1 .. e - 1 - b /\ b + 1 = e - 1
    BY <1>1, <1>6, <2>1
  <2>3. t \in Seq(C) /\ Len(t) = 1 /\ t[1] = n
    BY <1>4, <1>6, <2>2 DEF IsLine
  <2> QED
    BY <2>3
<1> QED
  BY <1>5, <1>6 DEF t

\* A text holds a line exactly if its cells have the body between newlines.
LEMMA HoldsIs ==
  ASSUME NEW C, NEW s \in Seq(C), NEW n, n # NL
  PROVE  Holds(s, n) <=> \E e \in 2 .. Len(s) : IsLine(s, n, e)
<1>1. Len(s) \in Nat /\ DOMAIN s = 1 .. Len(s)
  BY LenProperties
<1>2. \A e : e \in Ends(s) <=> e \in 1 .. Len(s) /\ s[e] = NL
  BY <1>1 DEF Ends
<1>3. \A e \in 2 .. Len(s) : IsLine(s, n, e) => e \in Ends(s)
  BY <1>1, <1>2 DEF IsLine
<1> QED
  BY <1>2, <1>3, LineIs DEF Holds

\* The part of u behind an end of a line, at b, is t.
Continues(u, t, b) ==
    /\ Len(u) = b + Len(t) /\ (b # 0 => u[b] = NL)
    /\ \A j \in 1 .. Len(t) : u[b + j] = t[j]

HoldsBefore(u, n, b) == \E e \in 2 .. b : IsLine(u, n, e)

\* Then u has the rest of t, and the lines of t besides the earlier ones.
LEMMA SplitAtLine ==
  ASSUME NEW C, NEW u \in Seq(C), NEW t \in Seq(C), NEW b \in Nat, Continues(u, t, b)
  PROVE  /\ Rest(u) = Rest(t)
         /\ \A n : n # NL => (Holds(u, n) <=> Holds(t, n) \/ HoldsBefore(u, n, b))
<1> USE DEF Continues, HoldsBefore
<1>1. Len(u) \in Nat /\ Len(t) \in Nat
  BY LenProperties
<1>2. Rest(u) = Rest(t)
  <2> DEFINE bt == EndBefore(t, Len(t) + 1)
             bu == EndBefore(u, Len(u) + 1)
  <2>1. /\ bt \in 0 .. Len(t) /\ (bt # 0 => t[bt] = NL)
        /\ Rest(t) \in Seq(C) /\ Len(Rest(t)) = Len(t) - bt
        /\ \A j \in 1 .. Len(t) - bt : Rest(t)[j] = t[bt + j] /\ Rest(t)[j] # NL
    BY RestIs
  <2>2. /\ Rest(u) \in Seq(C) /\ Len(Rest(u)) = Len(u) - bu
        /\ \A j \in 1 .. Len(u) - bu : Rest(u)[j] = u[bu + j]
    BY RestIs
  <2>3. bu = b + bt
    <3> HIDE DEF bt
    <3>1. b + bt \in 0 .. Len(u) + 1 - 1 /\ Len(u) + 1 \in 1 .. Len(u) + 1
      BY <1>1, <2>1
    <3>2. b + bt # 0 => u[b + bt] = NL
      <4>1. CASE bt = 0
        BY <4>1
      <4>2. CASE bt # 0
        <5>1. bt \in 1 .. Len(t)
          BY <1>1, <2>1, <4>2
        <5> QED
          BY <2>1, <4>2, <5>1
      <4> QED
        BY <4>1, <4>2
    <3>3. ASSUME NEW k \in b + bt + 1 .. Len(u) + 1 - 1 PROVE u[k] # NL
      <4>1. k - b - bt \in 1 .. Len(t) - bt /\ bt + (k - b - bt) = k - b
            /\ k - b \in 1 .. Len(t) /\ b + (k - b) = k
        BY <1>1, <2>1
      <4>2. Rest(t)[k - b - bt] = t[k - b] /\ Rest(t)[k - b - bt] # NL
        BY <2>1, <4>1
      <4> QED
        BY <4>1, <4>2
    <3> DEFINE d == b + bt
               i == Len(u) + 1
    <3>4. /\ i \in 1 .. Len(u) + 1 /\ d \in 0 .. i - 1 /\ (d # 0 => u[d] = NL)
          /\ \A k \in d + 1 .. i - 1 : u[k] # NL
      BY <3>1, <3>2, <3>3
    <3> HIDE DEF d, i
    <3>5. EndBefore(u, i) = d
      BY <3>4, EndBeforeUnique
    <3> QED
      BY <3>5 DEF d, i, bu
  <2> HIDE DEF bt, bu
  <2>4. Len(u) - bu = Len(t) - bt
    BY <1>1, <2>1, <2>3
  <2>5. ASSUME NEW j \in 1 .. Len(t) - bt PROVE Rest(u)[j] = Rest(t)[j]
    <3>1. bu + j = b + (bt + j) /\ bt + j \in 1 .. Len(t)
      BY <1>1, <2>1, <2>3
    <3> QED
      BY <2>1, <2>2, <2>4, <3>1
  <2>6. Len(Rest(u)) = Len(Rest(t)) /\ \A i \in 1 .. Len(Rest(u)) : Rest(u)[i] = Rest(t)[i]
    BY <2>1, <2>2, <2>4, <2>5
  <2> QED
    BY <2>1, <2>2, <2>6, SeqEqual
<1>3. ASSUME NEW n, n # NL
      PROVE  Holds(u, n) <=> Holds(t, n) \/ HoldsBefore(u, n, b)
  <2>1. /\ Holds(u, n) <=> \E e \in 2 .. Len(u) : IsLine(u, n, e)
        /\ Holds(t, n) <=> \E e \in 2 .. Len(t) : IsLine(t, n, e)
    BY <1>3, HoldsIs
  <2>2. ASSUME NEW e \in 2 .. Len(t) PROVE IsLine(u, n, b + e) <=> IsLine(t, n, e)
    <3>1. u[b + e] = t[e] /\ u[b + e - 1] = t[e - 1]
      <4>1. e \in 1 .. Len(t) /\ e - 1 \in 1 .. Len(t) /\ b + (e - 1) = b + e - 1
        BY <1>1
      <4> QED
        BY <4>1
    <3>2. b + e = 2 \/ u[b + e - 2] = NL <=> e = 2 \/ t[e - 2] = NL
      <4>1. CASE e = 2
        <5>1. b + e - 2 = b /\ (b = 0 <=> b + e = 2)
          BY <4>1
        <5> QED
          BY <4>1, <5>1
      <4>2. CASE e # 2
        <5>1. e - 2 \in 1 .. Len(t) /\ b + (e - 2) = b + e - 2 /\ b + e # 2
          BY <1>1, <4>2
        <5> QED
          BY <4>2, <5>1
      <4> QED
        BY <4>1, <4>2
    <3> QED
      BY <3>1, <3>2 DEF IsLine
  <2>3. ASSUME NEW e \in 2 .. Len(u), IsLine(u, n, e), ~(e \in 2 .. b)
        PROVE  e - b \in 2 .. Len(t) /\ b + (e - b) = e
    <3>1. e >= b + 1
      BY <1>1, <2>3
    <3>2. e # b + 1
      <4> SUFFICES ASSUME e = b + 1 PROVE FALSE
        OBVIOUS
      <4>1. e - 1 = b /\ b # 0
        BY <1>1
      <4> QED
        BY <1>3, <2>3, <4>1 DEF IsLine
    <3> QED
      BY <1>1, <3>1, <3>2
  <2>4. ASSUME Holds(u, n) PROVE Holds(t, n) \/ \E e \in 2 .. b : IsLine(u, n, e)
    <3>1. PICK e \in 2 .. Len(u) : IsLine(u, n, e)
      BY <2>1, <2>4
    <3>2. CASE e \in 2 .. b
      BY <3>1, <3>2
    <3>3. CASE ~(e \in 2 .. b)
      <4>1. e - b \in 2 .. Len(t) /\ b + (e - b) = e
        BY <2>3, <3>1, <3>3
      <4>2. IsLine(t, n, e - b)
        BY <2>2, <3>1, <4>1
      <4> QED
        BY <2>1, <4>1, <4>2
    <3> QED
      BY <3>2, <3>3
  <2>5. ASSUME Holds(t, n) PROVE Holds(u, n)
    <3>1. PICK e \in 2 .. Len(t) : IsLine(t, n, e)
      BY <2>1, <2>5
    <3>2. b + e \in 2 .. Len(u)
      BY <1>1
    <3> QED
      BY <2>1, <2>2, <3>1, <3>2
  <2>6. ASSUME NEW e \in 2 .. b, IsLine(u, n, e) PROVE Holds(u, n)
    <3>1. e \in 2 .. Len(u)
      BY <1>1
    <3> QED
      BY <2>1, <2>6, <3>1
  <2> QED
    BY <2>4, <2>5, <2>6
<1> QED
  BY <1>2, <1>3

\* A line is in s \o r if it is in s, or in what r makes of the rest of s; and the
\* rest of that is the rest of all.
LEMMA RestGoesOn ==
  ASSUME NEW C, NEW s \in Seq(C), NEW r \in Seq(C)
  PROVE  /\ Rest(Rest(s) \o r) = Rest(s \o r)
         /\ \A n : n # NL => (Holds(s \o r, n) <=> Holds(s, n) \/ Holds(Rest(s) \o r, n))
<1> DEFINE b == EndBefore(s, Len(s) + 1)
           R == Rest(s)
           t == R \o r
           u == s \o r
<1>1. /\ b \in 0 .. Len(s) /\ (b # 0 => s[b] = NL)
      /\ R \in Seq(C) /\ Len(R) = Len(s) - b
      /\ \A j \in 1 .. Len(s) - b : R[j] = s[b + j] /\ R[j] # NL
  BY RestIs
<1> HIDE DEF b, R
<1>2. Len(s) \in Nat /\ Len(r) \in Nat /\ Len(R) \in Nat
  BY <1>1, LenProperties
<1>3. /\ t \in Seq(C) /\ Len(t) = Len(R) + Len(r)
      /\ \A i \in 1 .. Len(R) + Len(r) : t[i] = IF i <= Len(R) THEN R[i] ELSE r[i - Len(R)]
      /\ u \in Seq(C) /\ Len(u) = Len(s) + Len(r)
      /\ \A i \in 1 .. Len(s) + Len(r) : u[i] = IF i <= Len(s) THEN s[i] ELSE r[i - Len(s)]
  BY <1>1, ConcatProperties
<1> HIDE DEF t, u
<1>4. b \in Nat /\ Len(u) = b + Len(t) /\ Len(s) = b + Len(R)
  BY <1>1, <1>2, <1>3
<1>5. ASSUME NEW j \in 1 .. Len(t) PROVE u[b + j] = t[j]
  <2>1. b + j \in 1 .. Len(s) + Len(r) /\ j \in 1 .. Len(R) + Len(r)
    BY <1>1, <1>2, <1>3, <1>4
  <2>2. CASE j <= Len(R)
    <3>1. b + j <= Len(s) /\ j \in 1 .. Len(s) - b
      BY <1>1, <1>2, <1>4, <2>2
    <3> QED
      BY <1>1, <1>3, <2>1, <2>2, <3>1
  <2>3. CASE ~(j <= Len(R))
    <3>1. ~(b + j <= Len(s)) /\ (b + j) - Len(s) = j - Len(R)
      BY <1>1, <1>2, <1>4, <2>3
    <3>2. u[b + j] = r[(b + j) - Len(s)]
      <4> DEFINE k == b + j
      <4>1. k \in 1 .. Len(s) + Len(r) /\ ~(k <= Len(s))
        BY <2>1, <3>1
      <4> HIDE DEF k
      <4>2. u[k] = r[k - Len(s)]
        BY <1>3, <4>1
      <4> QED
        BY <4>2 DEF k
    <3>3. t[j] = r[j - Len(R)]
      BY <1>3, <2>1, <2>3
    <3> QED
      BY <3>1, <3>2, <3>3
  <2> QED
    BY <2>2, <2>3
<1>6. \A i \in 1 .. Len(s) : u[i] = s[i]
  BY <1>2, <1>3
<1>7. b # 0 => u[b] = NL
  BY <1>1, <1>2, <1>6
<1>8. Continues(u, t, b) /\ Continues(s, R, b)
  BY <1>1, <1>4, <1>5, <1>7 DEF Continues
<1>9. /\ Rest(u) = Rest(t)
      /\ \A n : n # NL => (Holds(u, n) <=> Holds(t, n) \/ HoldsBefore(u, n, b))
      /\ \A n : n # NL => (Holds(s, n) <=> Holds(R, n) \/ HoldsBefore(s, n, b))
  BY <1>1, <1>3, <1>4, <1>8, SplitAtLine
<1>10. ASSUME NEW n, n # NL PROVE ~Holds(R, n)
  <2>1. ASSUME NEW e \in 2 .. Len(R) PROVE R[e] # NL
    <3>1. e \in 1 .. Len(s) - b
      BY <1>1, <1>2
    <3> QED
      BY <1>1, <3>1
  <2> QED
    BY <1>1, <1>10, <2>1, HoldsIs DEF IsLine
<1>11. ASSUME NEW n, NEW e \in 2 .. b PROVE IsLine(s, n, e) <=> IsLine(u, n, e)
  <2>1. e \in 1 .. Len(s) /\ e - 1 \in 1 .. Len(s) /\ (e = 2 \/ e - 2 \in 1 .. Len(s))
    BY <1>1, <1>2
  <2> QED
    BY <1>6, <2>1 DEF IsLine
<1>12. ASSUME NEW n, n # NL PROVE Holds(u, n) <=> Holds(s, n) \/ Holds(t, n)
  <2>1. HoldsBefore(s, n, b) <=> HoldsBefore(u, n, b)
    BY <1>11 DEF HoldsBefore
  <2> QED
    BY <1>9, <1>10, <1>12, <2>1
<1> QED
  BY <1>9, <1>12 DEF t, u, R

-----------------------------------------------------------------------------
(* What the watcher reports *)

\* The bodies of lines that are in a transcript or in its partial line.
Here(f) == ({file[f][i] : i \in DOMAIN file[f]} \cup {partial[f][i] : i \in DOMAIN partial[f]}) \ {NL}

\* Lines are numbered as they are written; a partial line has no newline.
Numbered ==
    /\ file \in [Files -> Seq(0 .. MaxLines)] /\ partial \in [Files -> Seq(0 .. MaxLines)]
    /\ lines \in 0 .. MaxLines
    /\ \A f \in Files : \A i \in DOMAIN file[f] : file[f][i] <= lines
    /\ \A f \in Files : \A i \in DOMAIN partial[f] : partial[f][i] # NL /\ partial[f][i] <= lines

\* No body is twice in a transcript, in its partial line, or in that and in what
\* was not read; none is in two transcripts.
Once ==
    /\ \A f \in Files : \A i, j \in DOMAIN file[f] :
          file[f][i] = file[f][j] => i = j \/ file[f][i] = NL
    /\ \A f \in Files : \A i, j \in DOMAIN partial[f] : partial[f][i] = partial[f][j] => i = j
    /\ \A f \in Files : \A i \in DOMAIN file[f], j \in DOMAIN partial[f] :
          i > offset[f] => file[f][i] # partial[f][j]
    /\ \A f, g \in Files : f # g => Here(f) \cap Here(g) = {}

\* An error is reported at most once, and not while its line is still to be read
\* or to end.
Unsaid ==
    /\ reported \in [1 .. MaxLines -> {0, 1}]
    /\ \A n \in 1 .. MaxLines : n > lines => reported[n] = 0
    /\ \A f \in Files : \A j \in DOMAIN partial[f] : reported[partial[f][j]] = 0
    /\ \A f \in Files : \A i \in DOMAIN file[f] :
          i > offset[f] /\ file[f][i] # NL => reported[file[f][i]] = 0

\* What is watched was read from its base up to its offset, unless the file was
\* cut back; what is not watched was not read.
Watched ==
    /\ tracked \subseteq Files /\ shrunk \subseteq Files
    /\ base \in [Files -> Nat] /\ offset \in [Files -> Nat]
    /\ \A f \in Files \ tracked : base[f] = 0 /\ offset[f] = 0 /\ partial[f] = <<>>
    /\ \A f \in Files \ shrunk :
          /\ base[f] <= offset[f] /\ offset[f] <= Len(file[f])
          /\ partial[f] = Rest(Seen(f))
          /\ \A n \in Errors : (\E i \in DOMAIN file[f] : file[f][i] = n)
                => reported[n] = (IF Holds(Seen(f), n) THEN 1 ELSE 0)

Tails == Numbered /\ Once /\ Unsaid /\ Watched

\* The body of a line that is held is a cell.
LEMMA HoldsMember ==
  ASSUME NEW C, NEW s \in Seq(C), NEW n, n # NL, Holds(s, n)
  PROVE  \E i \in 1 .. Len(s) : s[i] = n
<1>1. PICK e \in 2 .. Len(s) : IsLine(s, n, e)
  BY HoldsIs
<1>2. e - 1 \in 1 .. Len(s) /\ s[e - 1] = n
  BY <1>1, LenProperties DEF IsLine
<1> QED
  BY <1>2

\* What the assumptions say of the constants.
LEMMA Constants ==
  /\ MaxLines \in Nat /\ MaxRead \in Nat \ {0} /\ IsFiniteSet(Files)
  /\ Errors \subseteq 1 .. MaxLines /\ NL = 0 /\ NL \notin Errors /\ NL \notin Bodies
<1>1. IsFiniteSet(Files)
  <2>1. IsFiniteSet({Main})
    BY FS_Singleton
  <2> QED
    BY <2>1, FilesAssumption, FS_Union DEF Files
<1> QED
  BY <1>1, BoundsAssumption, BodiesAssumption DEF NL, Bodies

\* The types of what belongs to a transcript.
LEMMA InFiles ==
  ASSUME Tails, NEW f \in Files
  PROVE  /\ file[f] \in Seq(0 .. MaxLines) /\ Len(file[f]) \in Nat
         /\ DOMAIN file[f] = 1 .. Len(file[f])
         /\ partial[f] \in Seq(0 .. MaxLines) /\ Len(partial[f]) \in Nat
         /\ DOMAIN partial[f] = 1 .. Len(partial[f])
         /\ base[f] \in Nat /\ offset[f] \in Nat /\ lines \in Nat
<1>1. file[f] \in Seq(0 .. MaxLines) /\ partial[f] \in Seq(0 .. MaxLines)
  BY DEF Tails, Numbered
<1>2. base[f] \in Nat /\ offset[f] \in Nat /\ lines \in Nat
  BY Constants DEF Tails, Numbered, Watched
<1> QED
  BY <1>1, <1>2, LenProperties

\* The cells that were read since the file is watched.
LEMMA SeenIs ==
  ASSUME Tails, NEW f \in Files \ shrunk
  PROVE  /\ Seen(f) \in Seq(0 .. MaxLines) /\ Len(Seen(f)) = offset[f] - base[f]
         /\ \A j \in 1 .. offset[f] - base[f] : Seen(f)[j] = file[f][base[f] + j]
<1>1. file[f] \in Seq(0 .. MaxLines) /\ offset[f] \in 0 .. Len(file[f]) /\ base[f] \in 0 .. offset[f]
  BY InFiles DEF Tails, Watched
<1> QED
  BY ZenonT(60), <1>1, PartIs DEF Seen

-----------------------------------------------------------------------------
\* Lines are added, with numbers that were not used before.
Grows ==
    /\ \A g \in Files : Len(file[g]) <= Len(file'[g])
    /\ \A g \in Files : \A i \in 1 .. Len(file[g]) : file'[g][i] = file[g][i]
    /\ \A g \in Files : \A i \in Len(file[g]) + 1 .. Len(file'[g]) :
          file'[g][i] # NL => file'[g][i] \in lines + 1 .. lines'
    /\ \A g \in Files : \A i, j \in Len(file[g]) + 1 .. Len(file'[g]) :
          file'[g][i] = file'[g][j] => i = j \/ file'[g][i] = NL
    /\ \A g, h \in Files :
          g # h /\ Len(file'[g]) # Len(file[g]) => Len(file'[h]) = Len(file[h])

\* New numbers behind the offsets disturb nothing.
LEMMA GrowsKeepsTails ==
  ASSUME Tails, file' \in [Files -> Seq(0 .. MaxLines)], lines' \in lines .. MaxLines,
         Grows, UNCHANGED <<shrunk, tailVars>>
  PROVE  Tails'
<1> USE InFiles
<1>1. UNCHANGED <<shrunk, tracked, base, offset, partial, reported>>
  BY DEF tailVars
<1>2. ASSUME NEW g \in Files
      PROVE  /\ file'[g] \in Seq(0 .. MaxLines) /\ Len(file'[g]) \in Nat
             /\ DOMAIN file'[g] = 1 .. Len(file'[g]) /\ Len(file[g]) <= Len(file'[g])
  BY LenProperties DEF Grows
<1>3. lines \in Nat /\ lines' \in Nat /\ lines <= lines' /\ lines' \in 0 .. MaxLines
  BY Constants DEF Tails, Numbered
\* A cell is an old one, or lies behind the old ones and has a new number.
<1>4. ASSUME NEW g \in Files, NEW i \in 1 .. Len(file'[g])
      PROVE  \/ i \in 1 .. Len(file[g]) /\ file'[g][i] = file[g][i]
             \/ /\ i \in Len(file[g]) + 1 .. Len(file'[g])
                /\ file'[g][i] # NL => file'[g][i] \in lines + 1 .. lines'
  <2>1. CASE i <= Len(file[g])
    <3>1. i \in 1 .. Len(file[g])
      BY <1>2, <2>1
    <3> QED
      BY <3>1 DEF Grows
  <2>2. CASE ~(i <= Len(file[g]))
    <3>1. i \in Len(file[g]) + 1 .. Len(file'[g])
      BY <1>2, <2>2
    <3> QED
      BY <3>1 DEF Grows
  <2> QED
    BY <2>1, <2>2
<1>5. ASSUME NEW g \in Files, NEW i \in 1 .. Len(file[g])
      PROVE  file[g][i] <= lines /\ file[g][i] \in Nat
  <2>1. file[g][i] \in 0 .. MaxLines
    BY ElementOfSeq
  <2> QED
    BY <2>1, Constants DEF Tails, Numbered
<1>6. ASSUME NEW g \in Files, NEW i \in 1 .. Len(partial[g])
      PROVE  /\ partial[g][i] \in 1 .. lines
  <2>1. partial[g][i] \in 0 .. MaxLines
    BY ElementOfSeq
  <2> QED
    BY <2>1, Constants DEF Tails, Numbered
<1>7. Numbered'
  <2>1. ASSUME NEW g \in Files, NEW i \in 1 .. Len(file'[g]) PROVE file'[g][i] <= lines'
    <3>1. CASE i \in 1 .. Len(file[g]) /\ file'[g][i] = file[g][i]
      <4>1. file[g][i] <= lines /\ file[g][i] \in Nat
        BY <1>5, <3>1
      <4> QED
        BY <1>3, <3>1, <4>1
    <3>2. CASE file'[g][i] # NL => file'[g][i] \in lines + 1 .. lines'
      BY <1>3, <3>2, Constants
    <3> QED
      BY <1>4, <3>1, <3>2
  <2>2. ASSUME NEW g \in Files, NEW i \in 1 .. Len(partial[g])
        PROVE  partial[g][i] # NL /\ partial[g][i] <= lines'
    BY <1>3, <1>6, Constants
  <2> QED
    BY <1>1, <1>2, <1>3, <2>1, <2>2 DEF Tails, Numbered
<1>8. ASSUME NEW g \in Files, NEW n \in Here(g)'
      PROVE  n \in Here(g) \/ (n \in lines + 1 .. lines' /\ Len(file'[g]) # Len(file[g]))
  <2>1. n # NL
    BY DEF Here
  <2>2. CASE \E i \in DOMAIN file'[g] : n = file'[g][i]
    <3>1. PICK i \in 1 .. Len(file'[g]) : n = file'[g][i]
      BY <1>2, <2>2
    <3>2. CASE i \in 1 .. Len(file[g])
      BY <1>2, <1>4, <2>1, <3>1, <3>2 DEF Here, Grows
    <3>3. CASE ~(i \in 1 .. Len(file[g]))
      BY <1>2, <1>4, <2>1, <3>1, <3>3
    <3> QED
      BY <3>2, <3>3
  <2>3. CASE \E i \in DOMAIN partial[g] : n = partial[g][i]
    BY <2>1, <2>3 DEF Here
  <2> QED
    BY <1>1, <2>2, <2>3 DEF Here
<1>9. ASSUME NEW g \in Files, NEW n \in Here(g) PROVE n \in 1 .. lines
  <2>1. CASE \E i \in DOMAIN file[g] : n = file[g][i]
    <3>1. n # NL
      BY DEF Here
    <3> QED
      BY <1>3, <1>5, <2>1, <3>1, Constants
  <2>2. CASE \E i \in DOMAIN partial[g] : n = partial[g][i]
    BY <1>6, <2>2
  <2> QED
    BY <2>1, <2>2 DEF Here
<1>10. Once'
  <2>1. ASSUME NEW g \in Files, NEW i \in 1 .. Len(file'[g]), NEW j \in 1 .. Len(file'[g]),
               file'[g][i] = file'[g][j], file'[g][i] # NL
        PROVE  i = j
    <3>1. CASE i \in 1 .. Len(file[g]) /\ j \in 1 .. Len(file[g])
      BY <2>1, <3>1 DEF Tails, Once, Grows
    <3>2. CASE i \notin 1 .. Len(file[g]) /\ j \notin 1 .. Len(file[g])
      <4>1. i \in Len(file[g]) + 1 .. Len(file'[g]) /\ j \in Len(file[g]) + 1 .. Len(file'[g])
        BY <1>4, <3>2
      <4> QED
        BY <2>1, <4>1 DEF Grows
    <3>3. ASSUME NEW k \in 1 .. Len(file'[g]), NEW m \in 1 .. Len(file'[g]),
                 k \in 1 .. Len(file[g]), m \notin 1 .. Len(file[g]), file'[g][m] # NL
          PROVE  file'[g][k] # file'[g][m]
      <4>1. file'[g][k] <= lines
        <5>1. file'[g][k] = file[g][k]
          BY <3>3 DEF Grows
        <5> QED
          BY <1>5, <3>3, <5>1
      <4>2. file'[g][m] \in lines + 1 .. lines'
        BY <1>4, <3>3
      <4> QED
        BY <1>3, <4>1, <4>2
    <3> QED
      BY <2>1, <3>1, <3>2, <3>3
  <2>2. ASSUME NEW g \in Files, NEW i \in 1 .. Len(file'[g]), NEW j \in 1 .. Len(partial[g]),
               i > offset[g]
        PROVE  file'[g][i] # partial[g][j]
    <3>1. CASE i \in 1 .. Len(file[g])
      BY SMTT(30), <2>2, <3>1 DEF Tails, Once, Grows
    <3>2. CASE i \notin 1 .. Len(file[g])
      <4>1. file'[g][i] = NL \/ file'[g][i] \in lines + 1 .. lines'
        BY <1>4, <3>2
      <4>2. partial[g][j] \in 1 .. lines
        BY <1>6
      <4>3. partial[g][j] # NL
        BY SMTT(30), <4>2, Constants
      <4>4. CASE file'[g][i] = NL
        BY <4>3, <4>4
      <4>5. CASE file'[g][i] \in lines + 1 .. lines'
        BY <1>3, <4>2, <4>5
      <4> QED
        BY <4>1, <4>4, <4>5
    <3> QED
      BY <3>1, <3>2
  <2>3. ASSUME NEW g \in Files, NEW h \in Files, g # h, NEW n \in Here(g)', n \in Here(h)'
        PROVE  FALSE
    <3>1. CASE n \in Here(g) /\ n \in Here(h)
      BY <2>3, <3>1 DEF Tails, Once
    <3>2. CASE n \in lines + 1 .. lines'
      <4>1. n \notin Here(g) /\ n \notin Here(h)
        BY <1>3, <1>9, <3>2
      <4>2. Len(file'[g]) # Len(file[g]) /\ Len(file'[h]) # Len(file[h])
        BY <1>8, <2>3, <4>1
      <4> QED
        BY <2>3, <4>2 DEF Grows
    <3> QED
      BY <1>8, <2>3, <3>1, <3>2
  <2>4. \A g, h \in Files : g # h => Here(g)' \cap Here(h)' = {}
    BY <2>3
  <2>5. /\ \A g \in Files : \A i, j \in DOMAIN file'[g] :
              file'[g][i] = file'[g][j] => i = j \/ file'[g][i] = NL
        /\ \A g \in Files : \A i \in DOMAIN file'[g], j \in DOMAIN partial[g] :
              i > offset[g] => file'[g][i] # partial[g][j]
    <3>1. \A g \in Files : DOMAIN file'[g] = 1 .. Len(file'[g])
      BY <1>2
    <3>2. \A g \in Files : DOMAIN partial[g] = 1 .. Len(partial[g])
      OBVIOUS
    <3> QED
      BY ZenonT(60), <2>1, <2>2, <3>1, <3>2
  <2>6. \A g \in Files : \A i, j \in DOMAIN partial[g] : partial[g][i] = partial[g][j] => i = j
    BY DEF Tails, Once
  <2> QED
    BY <1>1, <2>4, <2>5, <2>6 DEF Once
<1>11. Unsaid'
  <2>1. \A n \in 1 .. MaxLines : n > lines' => reported[n] = 0
    BY <1>3, Constants DEF Tails, Unsaid
  <2>2. ASSUME NEW g \in Files, NEW i \in 1 .. Len(file'[g]), i > offset[g], file'[g][i] # NL
        PROVE  reported[file'[g][i]] = 0
    <3>1. CASE i \in 1 .. Len(file[g])
      BY SMTT(30), <2>2, <3>1 DEF Tails, Unsaid, Grows
    <3>2. CASE i \notin 1 .. Len(file[g])
      <4>1. file'[g][i] \in 1 .. MaxLines /\ file'[g][i] > lines
        BY SMTT(30), <1>3, <1>4, <2>2, <3>2, Constants
      <4> QED
        BY <4>1 DEF Tails, Unsaid
    <3> QED
      BY <3>1, <3>2
  <2> QED
    BY <1>1, <1>2, <2>1, <2>2 DEF Tails, Unsaid
<1>12. Watched'
  <2>1. ASSUME NEW g \in Files \ shrunk
        PROVE  offset[g] <= Len(file'[g]) /\ base[g] <= offset[g] /\ Seen(g)' = Seen(g)
    <3>1. base[g] <= offset[g] /\ offset[g] <= Len(file[g])
      BY DEF Tails, Watched
    <3>2. offset[g] \in 0 .. Len(file'[g]) /\ base[g] \in 0 .. offset[g]
      BY <1>2, <3>1
    <3> DEFINE s == file'[g]
               a == base[g]
               z == offset[g]
               t == SubSeq(s, a + 1, z)
    <3>3. /\ t \in Seq(0 .. MaxLines) /\ Len(t) = offset[g] - base[g]
          /\ \A j \in 1 .. offset[g] - base[g] : t[j] = file'[g][base[g] + j]
      <4>1. s \in Seq(0 .. MaxLines) /\ z \in 0 .. Len(s) /\ a \in 0 .. z
        BY <1>2, <3>2
      <4> HIDE DEF s, a, z
      <4> DEFINE C == 0 .. MaxLines
      <4>2. s \in Seq(C)
        BY <4>1
      <4> HIDE DEF C
      <4>3. t \in Seq(C) /\ Len(t) = z - a /\ \A j \in 1 .. z - a : t[j] = s[a + j]
        BY <4>1, <4>2, PartIs
      <4> QED
        BY <4>3 DEF s, a, z, C
    <3>4. \A j \in 1 .. offset[g] - base[g] : base[g] + j \in 1 .. Len(file[g])
      BY <3>1
    <3>5. \A j \in 1 .. offset[g] - base[g] : file'[g][base[g] + j] = file[g][base[g] + j]
      BY <3>4 DEF Grows
    <3>6. Seen(g)' = t
      BY <1>1 DEF Seen
    <3> HIDE DEF t
    <3>7. Len(t) = Len(Seen(g)) /\ \A j \in 1 .. Len(t) : t[j] = Seen(g)[j]
      BY <3>3, <3>5, SeenIs
    <3>8. t = Seen(g)
      BY <3>3, <3>7, SeenIs, SeqEqual
    <3> QED
      BY <3>2, <3>6, <3>8
  <2>2. ASSUME NEW g \in Files \ shrunk, NEW n \in Errors, NEW i \in 1 .. Len(file'[g]), file'[g][i] = n
        PROVE  reported[n] = (IF Holds(Seen(g), n) THEN 1 ELSE 0)
    <3>1. CASE i \in 1 .. Len(file[g])
      <4>1. file[g][i] = n
        BY <2>2, <3>1 DEF Grows
      <4> QED
        BY <3>1, <4>1 DEF Tails, Watched
    <3>2. CASE i \notin 1 .. Len(file[g])
      <4>1. n # NL /\ n \in 1 .. MaxLines /\ n > lines
        <5>1. n # NL /\ n \in 1 .. MaxLines
          BY Constants
        <5>2. n \in lines + 1 .. lines'
          BY <1>4, <2>2, <3>2, <5>1
        <5> QED
          BY <1>3, <5>1, <5>2
      <4>2. reported[n] = 0
        BY <4>1 DEF Tails, Unsaid
      <4>3. ~Holds(Seen(g), n)
        <5> SUFFICES ASSUME Holds(Seen(g), n) PROVE FALSE
          OBVIOUS
        <5>1. PICK j \in 1 .. offset[g] - base[g] : Seen(g)[j] = n
          BY <4>1, SeenIs, HoldsMember
        <5>2. base[g] + j \in 1 .. Len(file[g])
          BY DEF Tails, Watched
        <5>3. n = file[g][base[g] + j]
          BY <5>1, SeenIs
        <5> QED
          BY SMTT(30), <1>3, <1>5, <4>1, <5>2, <5>3
      <4> QED
        BY <4>2, <4>3
    <3> QED
      BY <3>1, <3>2
  <2> QED
    BY <1>1, <1>2, <2>1, <2>2 DEF Tails, Watched
<1> QED
  BY <1>7, <1>10, <1>11, <1>12 DEF Tails

\* Claude Code writes to one transcript: the cells t are those of f and new ones.
LEMMA LongerGrows ==
  ASSUME Tails, NEW f \in Files, NEW t \in Seq(0 .. MaxLines), file' = [file EXCEPT ![f] = t],
         Len(file[f]) <= Len(t), \A i \in 1 .. Len(file[f]) : t[i] = file[f][i],
         \A i \in Len(file[f]) + 1 .. Len(t) : t[i] # NL => t[i] \in lines + 1 .. lines',
         \A i, j \in Len(file[f]) + 1 .. Len(t) : t[i] = t[j] => i = j \/ t[i] = NL
  PROVE  file' \in [Files -> Seq(0 .. MaxLines)] /\ Grows
<1>1. file' \in [Files -> Seq(0 .. MaxLines)]
  BY DEF Tails, Numbered
<1>2. ASSUME NEW g \in Files
      PROVE  file'[g] = IF g = f THEN t ELSE file[g]
  BY DEF Tails, Numbered
<1>3. \A g \in Files : Len(file[g]) \in Nat
  BY InFiles
<1>4. \A g \in Files : Len(file[g]) <= Len(file'[g])
  BY <1>2, <1>3
<1>5. \A g \in Files : \A i \in 1 .. Len(file[g]) : file'[g][i] = file[g][i]
  BY <1>2
<1>6. ASSUME NEW g \in Files, NEW i \in Len(file[g]) + 1 .. Len(file'[g])
      PROVE  g = f /\ file'[g] = t /\ i \in Len(file[f]) + 1 .. Len(t)
  <2>1. CASE g = f
    BY <1>2, <2>1
  <2>2. CASE g # f
    BY <1>2, <1>3, <2>2
  <2> QED
    BY <2>1, <2>2
<1>7. \A g \in Files : \A i \in Len(file[g]) + 1 .. Len(file'[g]) :
         file'[g][i] # NL => file'[g][i] \in lines + 1 .. lines'
  BY <1>6
<1>8. \A g \in Files : \A i, j \in Len(file[g]) + 1 .. Len(file'[g]) :
         file'[g][i] = file'[g][j] => i = j \/ file'[g][i] = NL
  BY <1>6
<1>9. \A g, h \in Files : g # h /\ Len(file'[g]) # Len(file[g]) => Len(file'[h]) = Len(file[h])
  BY <1>2
<1> QED
  BY <1>1, <1>4, <1>5, <1>7, <1>8, <1>9 DEF Grows

\* The next line has the next number.
LEMMA WritesLineKeepsTails ==
  ASSUME Tails, NEW f \in Files, NEW cells \in {<<>>, <<NL>>}, WritesLine(f, cells)
  PROVE  Tails'
<1> DEFINE s == file[f]
           u == s \o <<lines + 1>>
           t == u \o cells
<1>1. s \in Seq(0 .. MaxLines) /\ Len(s) \in Nat /\ lines \in Nat
  BY InFiles
<1>2. /\ lines + 1 \in 0 .. MaxLines /\ lines' = lines + 1 /\ file' = [file EXCEPT ![f] = t]
      /\ UNCHANGED <<shrunk, tailVars>>
  BY <1>1, Constants DEF WritesLine
<1> HIDE DEF s
<1>3. /\ u \in Seq(0 .. MaxLines) /\ Len(u) = Len(s) + 1
      /\ \A i \in 1 .. Len(s) : u[i] = s[i]
      /\ u[Len(s) + 1] = lines + 1
  <2> DEFINE v == <<lines + 1>>
  <2>1. v \in Seq(0 .. MaxLines) /\ Len(v) = 1 /\ v[1] = lines + 1
    BY <1>2
  <2> HIDE DEF v
  <2>2. /\ s \o v \in Seq(0 .. MaxLines) /\ Len(s \o v) = Len(s) + Len(v)
        /\ \A i \in 1 .. Len(s) + Len(v) : (s \o v)[i] = IF i <= Len(s) THEN s[i] ELSE v[i - Len(s)]
    BY <1>1, <2>1, ConcatProperties
  <2>3. Len(s) + 1 \in 1 .. Len(s) + Len(v) /\ ~(Len(s) + 1 <= Len(s)) /\ Len(s) + 1 - Len(s) = 1
    BY <1>1, <2>1
  <2>4. (s \o v)[Len(s) + 1] = lines + 1
    BY <2>1, <2>2, <2>3
  <2>5. u = s \o v
    BY DEF v
  <2> HIDE DEF u
  <2> QED
    BY <1>1, <2>1, <2>2, <2>4, <2>5
<1> HIDE DEF u
<1>4. /\ t \in Seq(0 .. MaxLines) /\ Len(t) = Len(u) + Len(cells)
      /\ \A i \in 1 .. Len(u) + Len(cells) : t[i] = IF i <= Len(u) THEN u[i] ELSE cells[i - Len(u)]
  <2>1. cells \in Seq(0 .. MaxLines)
    <3>1. NL \in 0 .. MaxLines
      BY Constants
    <3>2. <<>> \in Seq(0 .. MaxLines) /\ <<NL>> \in Seq(0 .. MaxLines)
      BY <3>1
    <3> QED
      BY <3>2
  <2> QED
    BY <1>3, <2>1, ConcatProperties
<1> HIDE DEF t
<1>5. Len(cells) \in {0, 1} /\ (Len(cells) = 1 => cells[1] = NL)
  BY DEF NL
<1>6. /\ Len(s) <= Len(t) /\ \A i \in 1 .. Len(s) : t[i] = s[i]
      /\ t[Len(s) + 1] = lines + 1
  BY <1>1, <1>3, <1>4, <1>5
<1>7. ASSUME NEW i \in Len(s) + 1 .. Len(t), i # Len(s) + 1 PROVE t[i] = NL
  <2> DEFINE p == Len(s)
             q == Len(cells)
  <2>1. p \in Nat /\ q \in {0, 1} /\ Len(u) = p + 1 /\ Len(t) = p + 1 + q /\ i \in p + 1 .. Len(t) /\ i # p + 1
    BY <1>1, <1>3, <1>4, <1>5, <1>7
  <2> HIDE DEF p, q
  <2>2. q = 1 /\ i = p + 2
    BY <2>1
  <2>3. i \in 1 .. Len(u) + q /\ ~(i <= Len(u)) /\ i - Len(u) = 1
    BY <2>1, <2>2
  <2> QED
    BY <1>4, <1>5, <2>2, <2>3 DEF q
<1>8. file' \in [Files -> Seq(0 .. MaxLines)] /\ Grows
  <2>1. \A i \in Len(s) + 1 .. Len(t) : t[i] # NL => t[i] \in lines + 1 .. lines'
    BY <1>1, <1>2, <1>6, <1>7
  <2>2. \A i, j \in Len(s) + 1 .. Len(t) : t[i] = t[j] => i = j \/ t[i] = NL
    BY <1>6, <1>7
  <2> QED
    BY <1>2, <1>4, <1>6, <2>1, <2>2, LongerGrows DEF s
<1>9. lines' \in lines .. MaxLines
  BY <1>1, <1>2
<1> QED
  BY <1>2, <1>8, <1>9, GrowsKeepsTails

\* Only a newline is added.
LEMMA EndsLineKeepsTails ==
  ASSUME Tails, NEW f \in Files, EndsLine(f)
  PROVE  Tails'
<1> DEFINE s == file[f]
           t == Append(s, NL)
<1>1. s \in Seq(0 .. MaxLines) /\ Len(s) \in Nat /\ lines \in Nat
  BY InFiles
<1>2. lines' = lines /\ file' = [file EXCEPT ![f] = t] /\ UNCHANGED <<shrunk, tailVars>>
  BY DEF EndsLine
<1> HIDE DEF s
<1>3. /\ t \in Seq(0 .. MaxLines) /\ Len(t) = Len(s) + 1
      /\ \A i \in 1 .. Len(s) : t[i] = s[i]
      /\ t[Len(s) + 1] = NL
  BY <1>1, Constants, AppendProperties
<1> HIDE DEF t
<1>4. \A i \in Len(s) + 1 .. Len(t) : t[i] = NL
  BY <1>1, <1>3
<1>5. file' \in [Files -> Seq(0 .. MaxLines)] /\ Grows
  <2>1. Len(s) <= Len(t)
    BY <1>1, <1>3
  <2> QED
    BY <1>2, <1>3, <1>4, <2>1, LongerGrows DEF s
<1>6. lines' \in lines .. MaxLines
  BY <1>2, Constants DEF Tails, Numbered
<1> QED
  BY <1>2, <1>5, <1>6, GrowsKeepsTails

\* A file that is cut back has no cell it had not before.
LEMMA ShrinksKeepsTails ==
  ASSUME Tails, NEW f \in Files, NEW e \in 0 .. Len(file[f]), Shrinks(f, e)
  PROVE  Tails'
<1> DEFINE s == file[f]
           t == SubSeq(s, 0 + 1, e)
<1>1. /\ file' = [file EXCEPT ![f] = t] /\ shrunk' = shrunk \cup {f}
      /\ UNCHANGED <<lines, tracked, base, offset, partial, reported>>
  BY DEF Shrinks, tailVars
<1>2. s \in Seq(0 .. MaxLines) /\ Len(s) \in Nat
  BY InFiles
<1>3. t \in Seq(0 .. MaxLines) /\ Len(t) = e /\ \A j \in 1 .. e : t[j] = s[j]
  <2> DEFINE a == 0
  <2>1. e \in 0 .. Len(s) /\ a \in 0 .. e
    BY DEF s
  <2> HIDE DEF s, a
  <2>2. /\ SubSeq(s, a + 1, e) \in Seq(0 .. MaxLines) /\ Len(SubSeq(s, a + 1, e)) = e - a
        /\ \A j \in 1 .. e - a : SubSeq(s, a + 1, e)[j] = s[a + j]
    BY <1>2, <2>1, PartIs
  <2>3. e \in Int /\ e - 0 = e /\ \A j \in 1 .. e : 0 + j = j
    BY <1>2, <2>1
  <2> QED
    BY <2>2, <2>3 DEF a
<1>4. Len(t) \in Nat /\ DOMAIN t = 1 .. Len(t)
  BY <1>3, LenProperties
<1> HIDE DEF t
<1>5. ASSUME NEW g \in Files
      PROVE  file'[g] = IF g = f THEN t ELSE file[g]
  BY <1>1 DEF Tails, Numbered
<1>6. file' \in [Files -> Seq(0 .. MaxLines)]
  BY <1>1, <1>3 DEF Tails, Numbered
<1>7. ASSUME NEW g \in Files, NEW i \in DOMAIN file'[g]
      PROVE  i \in DOMAIN file[g] /\ file'[g][i] = file[g][i]
  <2>1. CASE g = f
    <3>1. i \in 1 .. e /\ file'[g] = t
      BY <1>3, <1>4, <1>5, <2>1
    <3>2. i \in 1 .. Len(s)
      BY <1>2, <3>1
    <3> QED
      BY <1>3, <2>1, <3>1, <3>2, InFiles
  <2>2. CASE g # f
    BY <1>5, <2>2
  <2> QED
    BY <2>1, <2>2
<1>8. Numbered'
  BY <1>1, <1>6, <1>7 DEF Tails, Numbered
<1>9. \A g \in Files : Here(g)' \subseteq Here(g)
  BY <1>1, <1>7 DEF Here
<1>10. Once'
  <2>1. /\ \A g \in Files : \A i, j \in DOMAIN file'[g] :
              file'[g][i] = file'[g][j] => i = j \/ file'[g][i] = NL
        /\ \A g \in Files : \A i \in DOMAIN file'[g], j \in DOMAIN partial[g] :
              i > offset[g] => file'[g][i] # partial[g][j]
    BY <1>7 DEF Tails, Once
  <2>2. \A g, h \in Files : g # h => Here(g)' \cap Here(h)' = {}
    BY <1>9 DEF Tails, Once
  <2> QED
    BY <1>1, <2>1, <2>2 DEF Tails, Once
<1>11. Unsaid'
  BY <1>1, <1>7 DEF Tails, Unsaid
<1>12. Watched'
  <2>1. ASSUME NEW g \in Files \ shrunk'
        PROVE  g \in Files \ shrunk /\ file'[g] = file[g] /\ Seen(g)' = Seen(g)
    BY <1>1, <1>5 DEF Seen
  <2> QED
    BY <1>1, <2>1 DEF Tails, Watched
<1> QED
  BY <1>8, <1>10, <1>11, <1>12 DEF Tails

LEMMA NothingHeld ==
  ASSUME NEW s \in Seq(0 .. MaxLines), Len(s) = 0
  PROVE  Rest(s) = <<>> /\ \A n : n # NL => ~Holds(s, n)
<1>1. s = <<>>
  BY EmptySeq
<1>2. Rest(s) = <<>>
  <2> DEFINE b == EndBefore(s, Len(s) + 1)
  <2>1. b \in 0 .. Len(s) /\ Rest(s) \in Seq(0 .. MaxLines) /\ Len(Rest(s)) = Len(s) - b
    BY RestIs
  <2> HIDE DEF b
  <2>2. b = 0
    BY <2>1
  <2>3. Len(Rest(s)) = 0
    BY <2>1, <2>2
  <2> QED
    BY <2>1, <2>3, EmptySeq
<1>3. \A n : n # NL => ~Holds(s, n)
  <2>1. ~\E i \in 1 .. Len(s) : TRUE
    OBVIOUS
  <2> QED
    BY <2>1, HoldsMember
<1> QED
  BY <1>2, <1>3

\* A file is watched from its end on: none of its lines was reported.
LEMMA ObserveKeepsTails ==
  ASSUME Tails, Observe
  PROVE  Tails'
<1> USE InFiles
<1> DEFINE there == IF dirKnown THEN {} ELSE {f \in Subs : Exists(f)}
           new   == ({Main} \cup there) \ tracked
<1>1. /\ tracked' = tracked \cup new
      /\ offset' = [f \in Files |-> IF f \in new THEN Len(file[f]) ELSE offset[f]]
      /\ base' = [f \in Files |-> IF f \in new
                     THEN [g \in Files |-> IF g \in new THEN Len(file[g]) ELSE offset[g]][f]
                     ELSE base[f]]
      /\ UNCHANGED <<file, lines, shrunk, partial, reported>>
  BY DEF Observe, fileVars
<1>2. new \subseteq Files \ tracked
  BY DEF Files
<1> HIDE DEF new
<1>3. ASSUME NEW f \in Files
      PROVE  /\ f \in new => offset'[f] = Len(file[f]) /\ base'[f] = Len(file[f])
             /\ f \notin new => offset'[f] = offset[f] /\ base'[f] = base[f]
             /\ offset'[f] \in Nat /\ base'[f] \in Nat
  BY <1>1
<1>4. ASSUME NEW f \in new
      PROVE  offset[f] = 0 /\ partial[f] = <<>>
  BY <1>2 DEF Tails, Watched
<1>5. ASSUME NEW f \in Files PROVE offset[f] <= offset'[f]
  BY <1>3, <1>4
<1>6. Numbered'
  BY <1>1 DEF Tails, Numbered
<1>7. \A f \in Files : \A i \in 1 .. Len(file[f]) : i > offset'[f] => i > offset[f]
  BY <1>3, <1>5
<1>8. Once'
  <2>1. \A g, h \in Files : g # h => Here(g)' \cap Here(h)' = {}
    <3>1. \A g \in Files : Here(g)' = Here(g)
      BY <1>1 DEF Here
    <3> QED
      BY <3>1 DEF Tails, Once
  <2> QED
    BY <1>1, <1>7, <2>1 DEF Tails, Once
<1>9. Unsaid'
  BY <1>1, <1>7 DEF Tails, Unsaid
<1>10. Watched'
  <2>1. ASSUME NEW f \in Files \ tracked'
        PROVE  base'[f] = 0 /\ offset'[f] = 0 /\ partial'[f] = <<>>
    BY <1>1, <1>3 DEF Tails, Watched
  <2>2. ASSUME NEW f \in Files \ shrunk'
        PROVE  /\ base'[f] <= offset'[f] /\ offset'[f] <= Len(file'[f])
               /\ partial'[f] = Rest(Seen(f)')
               /\ \A n \in Errors : (\E i \in DOMAIN file'[f] : file'[f][i] = n)
                     => reported'[n] = (IF Holds(Seen(f)', n) THEN 1 ELSE 0)
    <3>1. CASE f \in new
      <4> DEFINE s == file[f]
                 z == Len(s)
                 t == SubSeq(s, z + 1, z)
      <4>1. s \in Seq(0 .. MaxLines) /\ z \in 0 .. Len(s) /\ z \in 0 .. z /\ z - z = 0
        OBVIOUS
      <4>2. Seen(f)' = t
        BY <1>1, <1>3, <3>1 DEF Seen
      <4> HIDE DEF s, z
      <4>3. t \in Seq(0 .. MaxLines) /\ Len(t) = 0
        BY <4>1, PartIs
      <4> HIDE DEF t
      <4>4. Rest(t) = <<>> /\ \A n \in Errors : ~Holds(t, n)
        BY <4>3, NothingHeld, Constants
      <4>5. ASSUME NEW n \in Errors, NEW i \in DOMAIN file'[f], file'[f][i] = n
            PROVE  reported'[n] = 0
        <5>1. i \in 1 .. Len(file[f]) /\ file[f][i] = n /\ n # NL
          BY <1>1, <4>5, Constants
        <5>2. i > offset[f]
          BY <1>4, <3>1, <5>1
        <5> QED
          BY <1>1, <5>1, <5>2 DEF Tails, Unsaid
      <4>6. base'[f] = Len(file[f]) /\ offset'[f] = Len(file[f]) /\ file' = file /\ partial'[f] = <<>>
        BY <1>1, <1>3, <1>4, <3>1
      <4> QED
        BY <4>2, <4>4, <4>5, <4>6
    <3>2. CASE f \notin new
      <4>1. base'[f] = base[f] /\ offset'[f] = offset[f] /\ f \in Files \ shrunk
        BY <1>1, <1>3, <3>2
      <4>2. Seen(f)' = Seen(f)
        BY <1>1, <4>1 DEF Seen
      <4> QED
        BY <1>1, <4>1, <4>2 DEF Tails, Watched
    <3> QED
      BY <3>1, <3>2
  <2>3. tracked' \subseteq Files /\ shrunk' \subseteq Files
    BY <1>1, <1>2 DEF Tails, Watched
  <2>4. base' \in [Files -> Nat] /\ offset' \in [Files -> Nat]
    BY <1>1
  <2> QED
    BY <2>1, <2>2, <2>3, <2>4 DEF Watched
<1> QED
  BY <1>6, <1>8, <1>9, <1>10 DEF Tails

\* What a scan reads, and where the offset goes: behind it, or to the end.
LEMMA ReadIs ==
  ASSUME Tails, NEW f \in Files
  PROVE  /\ Read(f) \in Seq(0 .. MaxLines) /\ NewOffset(f) \in Nat
         /\ \A j \in 1 .. Len(Read(f)) :
               offset[f] + j \in 1 .. Len(file[f]) /\ Read(f)[j] = file[f][offset[f] + j]
         /\ \A i \in 1 .. Len(file[f]) : i > NewOffset(f) => i > offset[f] + Len(Read(f))
         /\ offset[f] <= Len(file[f])
               => NewOffset(f) = offset[f] + Len(Read(f)) /\ NewOffset(f) <= Len(file[f])
<1> DEFINE s == file[f]
           o == offset[f]
           z == IF Len(s) <= o + MaxRead THEN Len(s) ELSE o + MaxRead
           r == Read(f)
<1>1. s \in Seq(0 .. MaxLines) /\ Len(s) \in Nat /\ o \in Nat /\ MaxRead \in Nat \ {0}
  BY InFiles, Constants
<1>2. r = SubSeq(s, o + 1, z)
  BY DEF Read
<1>3. NewOffset(f) = IF Len(s) <= o THEN Len(s) ELSE o + Len(r)
  BY DEF NewOffset
<1> HIDE DEF s, o, r
<1>4. CASE Len(s) <= o
  <2>1. z = Len(s)
    BY <1>1, <1>4
  <2> HIDE DEF z
  <2>2. r \in Seq(0 .. MaxLines) /\ Len(r) = 0
    <3>1. o + 1 \in Int /\ z \in Int /\ ~(o + 1 <= z) /\ \A i \in o + 1 .. z : s[i] \in 0 .. MaxLines
      BY <1>1, <1>4, <2>1
    <3> QED
      BY <1>1, <1>2, <3>1, SubSeqProperties
  <2>3. /\ \A j \in 1 .. Len(r) : o + j \in 1 .. Len(s) /\ r[j] = s[o + j]
        /\ \A i \in 1 .. Len(s) : i > NewOffset(f) => i > o + Len(r)
    BY <1>1, <1>3, <1>4, <2>2
  <2>4. NewOffset(f) \in Nat /\ (o <= Len(s) => NewOffset(f) = o + Len(r) /\ NewOffset(f) <= Len(s))
    BY <1>1, <1>3, <1>4, <2>2
  <2> QED
    BY <2>2, <2>3, <2>4 DEF s, o, r
<1>5. CASE ~(Len(s) <= o)
  <2>1. z \in 0 .. Len(s) /\ o \in 0 .. z
    BY <1>1, <1>5
  <2> HIDE DEF z
  <2>2. r \in Seq(0 .. MaxLines) /\ Len(r) = z - o /\ \A j \in 1 .. z - o : r[j] = s[o + j]
    BY ZenonT(60), <1>1, <1>2, <2>1, PartIs
  <2>3. /\ \A j \in 1 .. Len(r) : o + j \in 1 .. Len(s) /\ r[j] = s[o + j]
        /\ \A i \in 1 .. Len(s) : i > NewOffset(f) => i > o + Len(r)
    BY <1>1, <1>3, <1>5, <2>1, <2>2
  <2>4. NewOffset(f) \in Nat /\ NewOffset(f) = o + Len(r) /\ NewOffset(f) <= Len(s)
    BY <1>1, <1>3, <1>5, <2>1, <2>2
  <2> QED
    BY <2>2, <2>3, <2>4 DEF s, o, r
<1> QED
  BY <1>4, <1>5

\* The bodies in the chunk of a scan are in the transcript, were not reported, and
\* are in it once; behind the new offset there are others.
Fresh(f) ==
    /\ \A j \in 1 .. Len(Chunk(f)) : Chunk(f)[j] # NL =>
          Chunk(f)[j] \in Here(f) /\ Chunk(f)[j] \in 1 .. lines /\ reported[Chunk(f)[j]] = 0
    /\ \A i, j \in 1 .. Len(Chunk(f)) :
          Chunk(f)[i] = Chunk(f)[j] => i = j \/ Chunk(f)[i] = NL
    /\ \A i \in 1 .. Len(file[f]), j \in 1 .. Len(Chunk(f)) :
          i > NewOffset(f) /\ file[f][i] = Chunk(f)[j] => file[f][i] = NL

\* That is so in every state of the invariant.
LEMMA ChunkIs ==
  ASSUME Tails, NEW f \in Files
  PROVE  Chunk(f) \in Seq(0 .. MaxLines) /\ Len(Chunk(f)) \in Nat /\ Fresh(f)
<1> DEFINE s == file[f]
           o == offset[f]
           p == partial[f]
           r == Read(f)
           c == Chunk(f)
<1>1. /\ s \in Seq(0 .. MaxLines) /\ Len(s) \in Nat /\ DOMAIN s = 1 .. Len(s)
      /\ p \in Seq(0 .. MaxLines) /\ Len(p) \in Nat /\ DOMAIN p = 1 .. Len(p)
      /\ o \in Nat
  BY InFiles
<1>2. /\ r \in Seq(0 .. MaxLines) /\ NewOffset(f) \in Nat
      /\ \A j \in 1 .. Len(r) : o + j \in 1 .. Len(s) /\ r[j] = s[o + j]
      /\ \A i \in 1 .. Len(s) : i > NewOffset(f) => i > o + Len(r)
  BY ReadIs
<1>3. Len(r) \in Nat
  BY <1>2, LenProperties
<1>4. c = p \o r
  BY DEF Chunk
<1>5. /\ \A i, j \in 1 .. Len(s) : s[i] = s[j] => i = j \/ s[i] = NL
      /\ \A i, j \in 1 .. Len(p) : p[i] = p[j] => i = j
      /\ \A i \in 1 .. Len(s), j \in 1 .. Len(p) : i > o => s[i] # p[j]
  BY <1>1 DEF Tails, Once
<1>6. /\ \A i \in 1 .. Len(s) : s[i] <= lines /\ s[i] \in Nat
      /\ \A j \in 1 .. Len(p) : p[j] <= lines /\ p[j] \in Nat /\ p[j] # NL
  <2>1. /\ \A i \in 1 .. Len(s) : s[i] \in 0 .. MaxLines
        /\ \A j \in 1 .. Len(p) : p[j] \in 0 .. MaxLines
    BY <1>1, ElementOfSeq
  <2>2. \A n \in 0 .. MaxLines : n \in Nat
    BY Constants
  <2>3. /\ \A i \in 1 .. Len(s) : s[i] <= lines
        /\ \A j \in 1 .. Len(p) : p[j] <= lines /\ p[j] # NL
    BY <1>1 DEF Tails, Numbered
  <2> QED
    BY <2>1, <2>2, <2>3
<1>7. /\ \A j \in 1 .. Len(p) : reported[p[j]] = 0
      /\ \A i \in 1 .. Len(s) : i > o /\ s[i] # NL => reported[s[i]] = 0
  BY <1>1 DEF Tails, Unsaid
<1>8. /\ \A i \in 1 .. Len(s) : s[i] # NL => s[i] \in Here(f)
      /\ \A j \in 1 .. Len(p) : p[j] # NL => p[j] \in Here(f)
  BY <1>1 DEF Here
<1> HIDE DEF s, o, p, r, c
<1>9. /\ c \in Seq(0 .. MaxLines) /\ Len(c) = Len(p) + Len(r) /\ Len(c) \in Nat
      /\ \A j \in 1 .. Len(p) + Len(r) : c[j] = IF j <= Len(p) THEN p[j] ELSE r[j - Len(p)]
  BY <1>1, <1>2, <1>3, <1>4, ConcatProperties
\* The place of a cell of the chunk that was read.
<1> DEFINE at(j) == o + (j - Len(p))
<1>10. ASSUME NEW j \in 1 .. Len(c)
       PROVE  \/ j \in 1 .. Len(p) /\ c[j] = p[j]
              \/ /\ ~(j \in 1 .. Len(p)) /\ at(j) \in 1 .. Len(s) /\ c[j] = s[at(j)]
                 /\ at(j) > o /\ at(j) <= o + Len(r)
  <2>1. CASE j <= Len(p)
    BY <1>1, <1>9, <2>1
  <2>2. CASE ~(j <= Len(p))
    <3> DEFINE k == j - Len(p)
    <3>1. k \in 1 .. Len(r) /\ ~(j \in 1 .. Len(p))
      BY <1>1, <1>3, <1>9, <2>2
    <3>2. c[j] = r[k]
      BY <1>9, <2>2
    <3> HIDE DEF k
    <3>3. o + k \in 1 .. Len(s) /\ r[k] = s[o + k] /\ o + k > o /\ o + k <= o + Len(r)
      BY <1>1, <1>2, <1>3, <3>1
    <3> QED
      BY <3>1, <3>2, <3>3 DEF k
  <2> QED
    BY <2>1, <2>2
<1>11. \A i, j \in 1 .. Len(c) : at(i) = at(j) => i = j
  BY <1>1, <1>9
<1> HIDE DEF at
<1>12. ASSUME NEW j \in 1 .. Len(c), c[j] # NL
       PROVE  c[j] \in Here(f) /\ c[j] \in 1 .. lines /\ reported[c[j]] = 0
  <2>1. c[j] <= lines /\ c[j] \in Nat
    BY <1>6, <1>10
  <2>2. c[j] \in 1 .. lines
    BY <1>12, <2>1, Constants DEF Tails, Numbered
  <2>3. c[j] \in Here(f) /\ reported[c[j]] = 0
    BY <1>7, <1>8, <1>10, <1>12
  <2> QED
    BY <2>2, <2>3
<1>13. ASSUME NEW i \in 1 .. Len(c), NEW j \in 1 .. Len(c), c[i] = c[j]
       PROVE  i = j \/ c[i] = NL
  <2>1. CASE i \in 1 .. Len(p) /\ j \in 1 .. Len(p)
    <3>1. p[i] = p[j]
      BY <1>10, <1>13, <2>1
    <3> QED
      BY <1>5, <2>1, <3>1
  <2>2. CASE ~(i \in 1 .. Len(p)) /\ ~(j \in 1 .. Len(p))
    <3>1. at(i) \in 1 .. Len(s) /\ at(j) \in 1 .. Len(s) /\ s[at(i)] = s[at(j)] /\ c[i] = s[at(i)]
      BY <1>10, <1>13, <2>2
    <3> QED
      BY <1>5, <1>11, <3>1
  <2>3. ASSUME NEW k \in 1 .. Len(c), NEW m \in 1 .. Len(c), c[k] = c[m],
               k \in 1 .. Len(p), ~(m \in 1 .. Len(p))
        PROVE  FALSE
    <3>1. at(m) \in 1 .. Len(s) /\ at(m) > o /\ s[at(m)] = p[k]
      BY <1>10, <2>3
    <3> QED
      BY <1>5, <2>3, <3>1
  <2> QED
    BY <1>13, <2>1, <2>2, <2>3
<1>14. ASSUME NEW i \in 1 .. Len(s), NEW j \in 1 .. Len(c), i > NewOffset(f), s[i] = c[j]
       PROVE  s[i] = NL
  <2>1. i > o + Len(r) /\ i > o
    BY <1>1, <1>2, <1>3, <1>14
  <2>2. CASE j \in 1 .. Len(p)
    <3>1. s[i] = p[j]
      BY <1>10, <1>14, <2>2
    <3> QED
      BY <1>5, <2>1, <2>2, <3>1
  <2>3. CASE ~(j \in 1 .. Len(p))
    <3>1. at(j) \in 1 .. Len(s) /\ s[at(j)] = s[i] /\ at(j) <= o + Len(r)
      BY <1>10, <1>14, <2>3
    <3>2. at(j) # i
      BY <1>1, <1>3, <2>1, <3>1
    <3> QED
      BY <1>5, <3>1, <3>2
  <2> QED
    BY <2>2, <2>3
<1>15. Fresh(f)
  BY <1>12, <1>13, <1>14 DEF Fresh, s, c
<1> QED
  BY <1>9, <1>15 DEF c

LEMMA FoundIs ==
  ASSUME Tails, NEW f \in Files, NEW n
  PROVE  Found(f, n) <=> n \in Errors /\ Holds(Chunk(f), n)
BY DEF Found, Holds

\* What a scan finds is in the transcript, behind what was reported.
LEMMA FoundHere ==
  ASSUME Tails, NEW f \in Files, NEW n, Found(f, n)
  PROVE  n \in Here(f) /\ n \in 1 .. lines /\ n \in 1 .. MaxLines /\ reported[n] = 0
<1>1. n \in Errors /\ n # NL /\ n \in 1 .. MaxLines /\ Holds(Chunk(f), n)
  BY FoundIs, Constants
<1>2. PICK j \in 1 .. Len(Chunk(f)) : Chunk(f)[j] = n
  BY <1>1, ChunkIs, HoldsMember
<1> QED
  BY <1>1, <1>2, ChunkIs DEF Fresh

\* No other scan finds an error of this transcript.
LEMMA FoundOnce ==
  ASSUME Tails, NEW f \in Files, NEW g \in Files, NEW n, Found(g, n), n \in Here(f)
  PROVE  f = g
BY FoundHere DEF Tails, Once

\* So a poll tells of an error once at most.
LEMMA ReportedIs ==
  ASSUME Tails, NEW all \in SUBSET Files,
         reported' = [n \in 1 .. MaxLines |->
                         reported[n] + Cardinality({f \in all : Found(f, n)})]
  PROVE  /\ reported' \in [1 .. MaxLines -> {0, 1}]
         /\ \A n \in 1 .. MaxLines :
               reported'[n] = IF \E f \in all : Found(f, n) THEN 1 ELSE reported[n]
<1>1. ASSUME NEW n \in 1 .. MaxLines
      PROVE  /\ reported'[n] = IF \E f \in all : Found(f, n) THEN 1 ELSE reported[n]
             /\ reported'[n] \in {0, 1}
  <2> DEFINE who == {f \in all : Found(f, n)}
  <2>1. reported'[n] = reported[n] + Cardinality(who) /\ reported[n] \in {0, 1}
    BY DEF Tails, Unsaid
  <2>2. CASE \E f \in all : Found(f, n)
    <3>1. PICK f \in all : Found(f, n)
      BY <2>2
    <3>2. \A g \in who : f = g
      BY <3>1, FoundHere, FoundOnce
    <3>3. who = {f}
      BY <3>1, <3>2
    <3>4. Cardinality(who) = 1
      BY <3>3, FS_Singleton
    <3>5. reported[n] = 0
      BY <3>1, FoundHere
    <3> HIDE DEF who
    <3> QED
      BY <2>1, <2>2, <3>4, <3>5
  <2>3. CASE ~\E f \in all : Found(f, n)
    <3>1. who = {}
      BY <2>3
    <3>2. Cardinality(who) = 0
      BY <3>1, FS_EmptySet
    <3> HIDE DEF who
    <3> QED
      BY <2>1, <2>3, <3>2
  <2> QED
    BY <2>2, <2>3
<1> QED
  BY <1>1

\* The rest of a chunk is some of its cells.
LEMMA RestOfChunk ==
  ASSUME Tails, NEW f \in Files
  PROVE  LET r == Rest(Chunk(f))
         IN  /\ r \in Seq(0 .. MaxLines) /\ DOMAIN r = 1 .. Len(r)
             /\ \A j \in DOMAIN r : \E k \in 1 .. Len(Chunk(f)) : r[j] = Chunk(f)[k]
             /\ \A j \in DOMAIN r : r[j] # NL /\ ~Found(f, r[j])
             /\ \A i, j \in DOMAIN r : r[i] = r[j] => i = j
<1> DEFINE c == Chunk(f)
           b == EndBefore(c, Len(c) + 1)
           r == Rest(c)
<1>1. c \in Seq(0 .. MaxLines) /\ Len(c) \in Nat /\ \A i, j \in 1 .. Len(c) : c[i] = c[j] => i = j \/ c[i] = NL
  BY ChunkIs DEF Fresh
<1>2. \A n : Found(f, n) <=> n \in Errors /\ Holds(c, n)
  BY FoundIs
<1> HIDE DEF c
<1>3. /\ b \in 0 .. Len(c) /\ r \in Seq(0 .. MaxLines) /\ Len(r) = Len(c) - b
      /\ \A j \in 1 .. Len(c) - b : r[j] = c[b + j] /\ r[j] # NL
  BY <1>1, RestIs
<1>4. DOMAIN r = 1 .. Len(r)
  BY <1>3, LenProperties
<1> HIDE DEF b, r
<1>5. ASSUME NEW j \in 1 .. Len(r)
      PROVE  b + j \in 1 .. Len(c) /\ r[j] = c[b + j] /\ r[j] # NL
  BY <1>1, <1>3
<1>6. \A i, j \in 1 .. Len(r) : b + i = b + j => i = j
  BY <1>1, <1>3
<1>7. \A i, j \in 1 .. Len(r) : r[i] = r[j] => i = j
  BY <1>1, <1>5, <1>6
<1>8. ASSUME NEW j \in 1 .. Len(r), Found(f, r[j]) PROVE FALSE
  <2>1. r[j] # NL /\ Holds(c, r[j])
    BY <1>2, <1>5, <1>8
  <2>2. PICK e \in 2 .. Len(c) : IsLine(c, r[j], e)
    BY <1>1, <2>1, HoldsIs
  <2>3. e - 1 \in 1 .. Len(c) /\ c[e - 1] = c[b + j] /\ c[e - 1] # NL /\ c[e] = NL
    BY <1>1, <1>5, <2>1, <2>2 DEF IsLine
  <2>4. e - 1 = b + j
    BY <1>1, <1>5, <2>3
  <2>5. e = b + (j + 1) /\ j + 1 \in 1 .. Len(r)
    BY <1>1, <1>3, <2>4
  <2>6. c[e] # NL
    BY <1>5, <2>5
  <2> QED
    BY <2>3, <2>6
<1>9. /\ \A j \in 1 .. Len(r) : \E k \in 1 .. Len(c) : r[j] = c[k]
      /\ \A j \in 1 .. Len(r) : r[j] # NL /\ ~Found(f, r[j])
  BY <1>5, <1>8
<1> QED
  BY <1>3, <1>4, <1>7, <1>9 DEF r, c

LEMMA PollKeepsTails ==
  ASSUME Tails, Poll
  PROVE  Tails'
<1> USE InFiles
<1> DEFINE all == tracked \cup Discovered
<1>1. /\ tracked' = all
      /\ offset' = [f \in Files |-> IF f \in all THEN NewOffset(f) ELSE offset[f]]
      /\ partial' = [f \in Files |-> IF f \in all THEN Rest(Chunk(f)) ELSE partial[f]]
      /\ reported' = [n \in 1 .. MaxLines |->
                         reported[n] + Cardinality({f \in all : Found(f, n)})]
      /\ UNCHANGED <<file, lines, shrunk, base>>
  BY DEF Poll, fileVars
<1>2. all \in SUBSET Files /\ tracked \subseteq all
  BY DEF Discovered, Files, Tails, Watched
<1> HIDE DEF all
<1>3. /\ reported' \in [1 .. MaxLines -> {0, 1}]
      /\ \A n \in 1 .. MaxLines :
            reported'[n] = IF \E f \in all : Found(f, n) THEN 1 ELSE reported[n]
  BY <1>1, <1>2, ReportedIs
\* Only a scan of the transcript that has a line tells of it.
<1>4. ASSUME NEW f \in Files, NEW n \in 1 .. MaxLines, n \in Here(f)
      PROVE  reported'[n] = IF f \in all /\ Found(f, n) THEN 1 ELSE reported[n]
  BY <1>2, <1>3, <1>4, FoundOnce
<1>5. ASSUME NEW f \in Files
      PROVE  /\ f \in all => offset'[f] = NewOffset(f) /\ partial'[f] = Rest(Chunk(f))
             /\ f \notin all => offset'[f] = offset[f] /\ partial'[f] = partial[f]
             /\ offset'[f] \in Nat
  BY <1>1, ReadIs
\* What the new partial lines hold.
<1>6. ASSUME NEW f \in Files
      PROVE  /\ partial'[f] \in Seq(0 .. MaxLines) /\ DOMAIN partial'[f] = 1 .. Len(partial'[f])
             /\ \A j \in DOMAIN partial'[f] :
                   /\ partial'[f][j] # NL /\ partial'[f][j] \in Here(f)
                   /\ partial'[f][j] <= lines /\ partial'[f][j] \in 1 .. MaxLines
                   /\ reported'[partial'[f][j]] = 0
             /\ \A i, j \in DOMAIN partial'[f] : partial'[f][i] = partial'[f][j] => i = j
             /\ \A i \in 1 .. Len(file[f]), j \in DOMAIN partial'[f] :
                   i > offset'[f] => file[f][i] # partial'[f][j]
  <2>1. CASE f \in all
    <3> DEFINE c == Chunk(f)
               r == Rest(Chunk(f))
    <3>1. /\ r \in Seq(0 .. MaxLines) /\ DOMAIN r = 1 .. Len(r)
          /\ \A j \in DOMAIN r : \E k \in 1 .. Len(c) : r[j] = c[k]
          /\ \A j \in DOMAIN r : r[j] # NL /\ ~Found(f, r[j])
          /\ \A i, j \in DOMAIN r : r[i] = r[j] => i = j
      BY RestOfChunk
    <3>2. /\ \A k \in 1 .. Len(c) : c[k] # NL => c[k] \in Here(f) /\ c[k] \in 1 .. lines /\ reported[c[k]] = 0
          /\ \A i \in 1 .. Len(file[f]), k \in 1 .. Len(c) :
                i > NewOffset(f) /\ file[f][i] = c[k] => file[f][i] = NL
      BY ChunkIs DEF Fresh
    <3>3. partial'[f] = r /\ offset'[f] = NewOffset(f)
      BY <1>5, <2>1
    <3> HIDE DEF c, r
    <3>4. ASSUME NEW j \in DOMAIN r
          PROVE  /\ r[j] \in Here(f) /\ r[j] \in 1 .. lines /\ reported[r[j]] = 0
                 /\ \A i \in 1 .. Len(file[f]) : i > NewOffset(f) => file[f][i] # r[j]
      BY <3>1, <3>2
    <3>5. ASSUME NEW j \in DOMAIN r
          PROVE  r[j] <= lines /\ r[j] \in 1 .. MaxLines
      <4>1. lines <= MaxLines
        BY Constants DEF Tails, Numbered
      <4> QED
        BY <3>4, <4>1, Constants
    <3>6. ASSUME NEW j \in DOMAIN r
          PROVE  reported'[r[j]] = 0
      BY <1>4, <3>1, <3>4, <3>5
    <3> QED
      BY <3>1, <3>3, <3>4, <3>5, <3>6
  <2>2. CASE f \notin all
    <3>1. partial'[f] = partial[f] /\ offset'[f] = offset[f]
      BY <1>5, <2>2
    <3>2. ASSUME NEW j \in DOMAIN partial[f]
          PROVE  /\ partial[f][j] # NL /\ partial[f][j] \in Here(f)
                 /\ partial[f][j] <= lines /\ partial[f][j] \in 1 .. MaxLines
                 /\ reported'[partial[f][j]] = 0
      <4>1. /\ partial[f][j] # NL /\ partial[f][j] \in Here(f)
            /\ partial[f][j] <= lines /\ reported[partial[f][j]] = 0
        BY DEF Tails, Numbered, Unsaid, Here
      <4>2. partial[f][j] \in 0 .. MaxLines
        BY ElementOfSeq
      <4>3. partial[f][j] \in 1 .. MaxLines
        BY <4>1, <4>2, Constants
      <4> QED
        BY <1>4, <2>2, <4>1, <4>3
    <3>3. /\ \A i, j \in DOMAIN partial[f] : partial[f][i] = partial[f][j] => i = j
          /\ \A i \in 1 .. Len(file[f]), j \in DOMAIN partial[f] :
                i > offset[f] => file[f][i] # partial[f][j]
      BY DEF Tails, Once
    <3> QED
      BY <3>1, <3>2, <3>3
  <2> QED
    BY <2>1, <2>2
<1>7. Numbered'
  <2>1. partial' \in [Files -> Seq(0 .. MaxLines)]
    BY <1>1, <1>6
  <2> QED
    BY <1>1, <1>6, <2>1 DEF Tails, Numbered
<1>8. Once'
  <2>1. ASSUME NEW f \in Files, NEW n \in Here(f)' PROVE n \in Here(f)
    <3>1. n # NL /\ ((\E i \in DOMAIN file[f] : n = file[f][i]) \/ \E i \in DOMAIN partial'[f] : n = partial'[f][i])
      BY <1>1 DEF Here
    <3>2. CASE \E i \in DOMAIN file[f] : n = file[f][i]
      BY <3>1, <3>2 DEF Here
    <3>3. CASE \E i \in DOMAIN partial'[f] : n = partial'[f][i]
      BY <1>6, <3>3
    <3> QED
      BY <3>1, <3>2, <3>3
  <2>2. \A f, g \in Files : f # g => Here(f)' \cap Here(g)' = {}
    BY <2>1 DEF Tails, Once
  <2>3. /\ \A f \in Files : \A i, j \in DOMAIN partial'[f] : partial'[f][i] = partial'[f][j] => i = j
        /\ \A f \in Files : \A i \in DOMAIN file[f], j \in DOMAIN partial'[f] :
              i > offset'[f] => file[f][i] # partial'[f][j]
    BY <1>6
  <2> QED
    BY <1>1, <2>2, <2>3 DEF Tails, Once
<1>9. Unsaid'
  <2>1. ASSUME NEW n \in 1 .. MaxLines, n > lines PROVE reported'[n] = 0
    <3>1. ~\E f \in all : Found(f, n)
      <4>1. ~(n \in 1 .. lines)
        BY <2>1, Constants DEF Tails, Numbered
      <4> QED
        BY <1>2, <4>1, FoundHere
    <3> QED
      BY <1>3, <2>1, <3>1 DEF Tails, Unsaid
  <2>2. ASSUME NEW f \in Files, NEW i \in 1 .. Len(file[f]), i > offset'[f], file[f][i] # NL
        PROVE  reported'[file[f][i]] = 0
    <3> DEFINE n == file[f][i]
    <3>1. n \in Here(f) /\ n \in 0 .. MaxLines
      <4>1. n \in Here(f)
        BY <2>2 DEF Here
      <4>2. file[f][i] \in 0 .. MaxLines
        BY ElementOfSeq
      <4> QED
        BY <4>1, <4>2
    <3>2. n \in 1 .. MaxLines
      BY <2>2, <3>1, Constants
    <3>3. i > offset[f]
      <4>1. CASE f \in all
        <5>1. i > NewOffset(f) /\ i > offset[f] + Len(Read(f)) /\ Len(Read(f)) \in Nat
          BY <1>5, <2>2, <4>1, ReadIs, LenProperties
        <5> QED
          BY <5>1
      <4>2. CASE f \notin all
        BY <1>5, <2>2, <4>2
      <4> QED
        BY <4>1, <4>2
    <3>4. reported[n] = 0
      BY <2>2, <3>3 DEF Tails, Unsaid
    <3>5. ASSUME f \in all, Found(f, n) PROVE FALSE
      <4>1. Holds(Chunk(f), n)
        BY <3>5, FoundIs
      <4>2. PICK j \in 1 .. Len(Chunk(f)) : Chunk(f)[j] = n
        BY <2>2, <4>1, ChunkIs, HoldsMember
      <4>3. i > NewOffset(f)
        BY <1>5, <2>2, <3>5
      <4> QED
        BY <2>2, <4>2, <4>3, ChunkIs DEF Fresh
    <3> HIDE DEF n
    <3>6. reported'[n] = 0
      BY <1>4, <3>1, <3>2, <3>4, <3>5
    <3> QED
      BY <3>6 DEF n
  <2>3. \A f \in Files : \A j \in DOMAIN partial'[f] : reported'[partial'[f][j]] = 0
    BY <1>6
  <2>4. \A f \in Files : \A i \in DOMAIN file[f] :
           i > offset'[f] /\ file[f][i] # NL => reported'[file[f][i]] = 0
    <3>1. \A f \in Files : DOMAIN file[f] = 1 .. Len(file[f])
      OBVIOUS
    <3> QED
      BY <2>2, <3>1
  <2>5. lines' = lines /\ file' = file
    BY <1>1
  <2>6. \A n \in 1 .. MaxLines : n > lines' => reported'[n] = 0
    BY <2>1, <2>5
  <2>7. \A f \in Files : \A i \in DOMAIN file'[f] :
           i > offset'[f] /\ file'[f][i] # NL => reported'[file'[f][i]] = 0
    BY <2>4, <2>5
  <2>8. reported' \in [1 .. MaxLines -> {0, 1}]
    BY <1>3
  <2> QED
    BY <2>3, <2>6, <2>7, <2>8 DEF Unsaid
<1>10. Watched'
  <2>1. ASSUME NEW f \in Files \ tracked'
        PROVE  base'[f] = 0 /\ offset'[f] = 0 /\ partial'[f] = <<>>
    BY <1>1, <1>2, <1>5 DEF Tails, Watched
  <2>2. ASSUME NEW f \in Files \ shrunk, f \in all
        PROVE  /\ base[f] <= NewOffset(f) /\ NewOffset(f) <= Len(file[f])
               /\ partial'[f] = Rest(Seen(f)')
               /\ \A n : n # NL => (Holds(Seen(f)', n) <=> Holds(Seen(f), n) \/ Holds(Chunk(f), n))
    <3> DEFINE s == file[f]
               a == base[f]
               o == offset[f]
               z == NewOffset(f)
               r == Read(f)
               old == Seen(f)
               t == SubSeq(s, a + 1, z)
    <3>1. /\ s \in Seq(0 .. MaxLines) /\ Len(s) \in Nat /\ a \in Nat /\ o \in Nat
          /\ a <= o /\ o <= Len(s)
      BY DEF Tails, Watched
    <3>2. /\ r \in Seq(0 .. MaxLines) /\ Len(r) \in Nat /\ z = o + Len(r) /\ z <= Len(s)
          /\ \A j \in 1 .. Len(r) : r[j] = s[o + j]
      BY <3>1, ReadIs, LenProperties
    <3>3. /\ old \in Seq(0 .. MaxLines) /\ Len(old) = o - a
          /\ \A j \in 1 .. o - a : old[j] = s[a + j]
      BY SeenIs
    <3>4. Seen(f)' = t
      BY <1>1, <1>5, <2>2 DEF Seen
    <3>5. Chunk(f) = Rest(old) \o r
      BY DEF Chunk, Tails, Watched
    <3> HIDE DEF s, a, o, z, r, old
    <3>6. z \in 0 .. Len(s) /\ a \in 0 .. z
      BY <3>1, <3>2
    <3>7. t \in Seq(0 .. MaxLines) /\ Len(t) = z - a /\ \A j \in 1 .. z - a : t[j] = s[a + j]
      <4> DEFINE C == 0 .. MaxLines
      <4>1. s \in Seq(C)
        BY <3>1
      <4> HIDE DEF C
      <4>2. t \in Seq(C) /\ Len(t) = z - a /\ \A j \in 1 .. z - a : t[j] = s[a + j]
        BY <3>6, <4>1, PartIs
      <4> QED
        BY <4>2 DEF C
    <3> HIDE DEF t
    <3>8. /\ old \o r \in Seq(0 .. MaxLines) /\ Len(old \o r) = Len(old) + Len(r)
          /\ \A j \in 1 .. Len(old) + Len(r) :
                (old \o r)[j] = IF j <= Len(old) THEN old[j] ELSE r[j - Len(old)]
      BY ZenonT(60), <3>2, <3>3, ConcatProperties
    <3>9. ASSUME NEW j \in 1 .. z - a PROVE t[j] = (old \o r)[j]
      <4>1. j \in 1 .. Len(old) + Len(r)
        BY <3>1, <3>2, <3>3
      <4>2. CASE j <= Len(old)
        <5>1. (old \o r)[j] = old[j]
          BY <3>8, <4>1, <4>2
        <5>2. j \in 1 .. o - a
          BY <3>3, <4>2
        <5>3. old[j] = s[a + j]
          BY <3>3, <5>2
        <5> QED
          BY <3>7, <5>1, <5>3
      <4>3. CASE ~(j <= Len(old))
        <5> DEFINE k == j - Len(old)
        <5>1. k \in 1 .. Len(r) /\ o + k = a + j
          <6>1. PICK m \in Nat : m = Len(old)
            BY <3>1, <3>3
          <6>2. PICK q \in Nat : q = Len(r)
            BY <3>2
          <6>3. m = o - a /\ j \in 1 .. m + q /\ ~(j <= m) /\ k = j - m
            BY <3>3, <4>1, <4>3, <6>1, <6>2
          <6> HIDE DEF k
          <6>4. k \in 1 .. q /\ o + k = a + j
            BY <3>1, <6>3
          <6> QED
            BY <6>2, <6>4
        <5>2. (old \o r)[j] = r[k]
          BY <3>8, <4>1, <4>3
        <5> HIDE DEF k
        <5>3. r[k] = s[a + j]
          BY <3>2, <5>1
        <5> QED
          BY <3>7, <5>2, <5>3
      <4> QED
        BY <4>2, <4>3
    <3>10. t = old \o r
      <4>1. Len(t) = Len(old \o r)
        BY <3>1, <3>2, <3>3, <3>7, <3>8
      <4> DEFINE v == old \o r
      <4>2. /\ v \in Seq(0 .. MaxLines) /\ t \in Seq(0 .. MaxLines) /\ Len(t) = Len(v)
            /\ \A j \in 1 .. Len(t) : t[j] = v[j]
        BY <3>7, <3>8, <3>9, <4>1
      <4> HIDE DEF v
      <4>3. t = v
        BY <4>2, SeqEqual
      <4> QED
        BY <4>3 DEF v
    <3>11. /\ Rest(Rest(old) \o r) = Rest(old \o r)
           /\ \A n : n # NL => (Holds(old \o r, n) <=> Holds(old, n) \/ Holds(Rest(old) \o r, n))
      BY <3>2, <3>3, RestGoesOn
    <3>12. partial'[f] = Rest(Chunk(f))
      BY <1>5, <2>2
    <3>13. a <= z
      BY <3>6
    <3> QED
      BY <3>2, <3>4, <3>5, <3>10, <3>11, <3>12, <3>13 DEF s, a, z, old
  <2>3. ASSUME NEW f \in Files \ shrunk
        PROVE  /\ base'[f] <= offset'[f] /\ offset'[f] <= Len(file'[f])
               /\ partial'[f] = Rest(Seen(f)')
               /\ \A n \in Errors : (\E i \in DOMAIN file'[f] : file'[f][i] = n)
                     => reported'[n] = (IF Holds(Seen(f)', n) THEN 1 ELSE 0)
    <3>1. ASSUME NEW n \in Errors, NEW i \in DOMAIN file'[f], file'[f][i] = n
          PROVE  /\ n \in 1 .. MaxLines /\ n # NL /\ n \in Here(f)
                 /\ reported[n] = IF Holds(Seen(f), n) THEN 1 ELSE 0
      BY <1>1, <3>1, Constants DEF Here, Tails, Watched
    <3>2. CASE f \in all
      <4>1. base'[f] = base[f] /\ offset'[f] = NewOffset(f) /\ file' = file
        BY <1>1, <1>5, <3>2
      <4>2. ASSUME NEW n \in Errors, NEW i \in DOMAIN file'[f], file'[f][i] = n
            PROVE  reported'[n] = (IF Holds(Seen(f)', n) THEN 1 ELSE 0)
        <5>1. /\ n \in 1 .. MaxLines /\ n # NL /\ n \in Here(f)
              /\ reported[n] = IF Holds(Seen(f), n) THEN 1 ELSE 0
          BY <3>1, <4>2
        <5>2. reported'[n] = IF Holds(Chunk(f), n) THEN 1 ELSE reported[n]
          BY <1>4, <3>2, <5>1, FoundIs
        <5> QED
          BY <2>2, <3>2, <5>1, <5>2
      <4> QED
        BY <2>2, <3>2, <4>1, <4>2
    <3>3. CASE f \notin all
      <4>1. base'[f] = base[f] /\ offset'[f] = offset[f] /\ file' = file /\ partial'[f] = partial[f]
        BY <1>1, <1>5, <3>3
      <4>2. Seen(f)' = Seen(f)
        BY <4>1 DEF Seen
      <4>3. ASSUME NEW n \in Errors, NEW i \in DOMAIN file'[f], file'[f][i] = n
            PROVE  reported'[n] = (IF Holds(Seen(f)', n) THEN 1 ELSE 0)
        BY <1>4, <3>1, <3>3, <4>2, <4>3
      <4>4. base[f] <= offset[f] /\ offset[f] <= Len(file[f]) /\ partial[f] = Rest(Seen(f))
        BY DEF Tails, Watched
      <4> QED
        BY <4>1, <4>2, <4>3, <4>4
    <3> QED
      BY <3>2, <3>3
  <2>4. tracked' \subseteq Files /\ shrunk' \subseteq Files
    BY <1>1, <1>2 DEF Tails, Watched
  <2>5. base' \in [Files -> Nat] /\ offset' \in [Files -> Nat]
    BY <1>1, <1>5 DEF Tails, Watched
  <2> QED
    BY <1>1, <2>1, <2>3, <2>4, <2>5 DEF Watched
<1> QED
  BY <1>7, <1>8, <1>9, <1>10 DEF Tails

-----------------------------------------------------------------------------
(* Lines of the socket *)

\* The cells s begin the lines with the bodies b behind the first h.
IsTrain(s, b, h) ==
    \A k \in 1 .. Len(b) - h :
       /\ 2 * k - 1 <= Len(s) => s[2 * k - 1] = b[h + k]
       /\ 2 * k <= Len(s) => s[2 * k] = NL

\* The even numbers up to 2k are k.
LEMMA Evens ==
  ASSUME NEW k \in Nat
  PROVE  Cardinality({2 * i : i \in 1 .. k}) = k
<1> DEFINE S == {2 * i : i \in 1 .. k}
           F == [i \in 1 .. k |-> 2 * i]
<1>1. F \in [1 .. k -> S]
  OBVIOUS
<1>2. \A i, j \in 1 .. k : F[i] = F[j] => i = j
  OBVIOUS
<1>3. \A x \in S : \E i \in 1 .. k : F[i] = x
  OBVIOUS
<1> HIDE DEF S, F
<1>4. F \in Bijection(1 .. k, S)
  BY <1>1, <1>2, <1>3, Fun_IsBij
<1>5. ExistsBijection(1 .. k, S)
  BY <1>4, Fun_ExistsBij
<1>6. Cardinality(S) = k
  BY <1>5, FS_CountingElements
<1> QED
  BY <1>6 DEF S

\* The line at an even position of a train.
LEMMA LineOfTrain ==
  ASSUME NEW b \in Seq(Bodies), NEW h \in 0 .. Len(b), NEW s \in Seq(Bodies \cup {NL}),
         IsTrain(s, b, h), Len(s) <= 2 * (Len(b) - h), NEW k \in Nat \ {0}, 2 * k <= Len(s)
  PROVE  2 * k \in Ends(s) /\ LineAt(s, 2 * k) = <<b[h + k]>>
<1> DEFINE C == Bodies \cup {NL}
           e == 2 * k
<1>1. Len(s) \in Nat /\ DOMAIN s = 1 .. Len(s) /\ Len(b) \in Nat /\ h \in Nat
  BY LenProperties
<1>2. k \in 1 .. Len(b) - h /\ e \in 1 .. Len(s) /\ e - 1 = 2 * k - 1 /\ h + k \in 1 .. Len(b)
  BY <1>1
<1>3. s[e] = NL /\ s[2 * k - 1] = b[h + k]
  <2>1. 2 * k - 1 <= Len(s)
    BY <1>1
  <2> QED
    BY <1>2, <2>1 DEF IsTrain
<1>4. b[h + k] # NL
  <2> DEFINE j == h + k
  <2>1. j \in 1 .. Len(b)
    BY <1>2
  <2> HIDE DEF j
  <2>2. b[j] \in Bodies
    BY <2>1, ElementOfSeq
  <2> QED
    BY <2>2, Constants DEF j
<1>5. e = 2 \/ s[e - 2] = NL
  <2>1. CASE k = 1
    BY <2>1
  <2>2. CASE k # 1
    <3>1. k - 1 \in 1 .. Len(b) - h /\ 2 * (k - 1) <= Len(s) /\ e - 2 = 2 * (k - 1)
      BY <1>1, <1>2, <2>2
    <3> QED
      BY <3>1 DEF IsTrain
  <2> QED
    BY <2>1, <2>2
<1>6. e \in 2 .. Len(s) /\ IsLine(s, b[h + k], e)
  <2>1. e >= 2
    BY <1>1
  <2> QED
    BY <1>2, <1>3, <1>5, <2>1 DEF IsLine
<1> DEFINE n == b[h + k]
<1>7. n # NL /\ s \in Seq(C) /\ e \in 1 .. Len(s) /\ s[e] = NL /\ e \in 2 .. Len(s) /\ IsLine(s, n, e)
  BY <1>2, <1>3, <1>4, <1>6
<1> HIDE DEF n, e, C
<1>8. LineAt(s, e) = <<n>>
  BY <1>7, LineIs
<1> QED
  BY <1>1, <1>7, <1>8 DEF Ends, n, e

\* The train s has m lines of b whole.
HasLines(s, b, h, m) ==
    /\ IsTrain(s, b, h)
    /\ \E more \in Nat : Len(b) = h + more /\ Len(s) <= 2 * more
    /\ Len(s) = 2 * m \/ Len(s) = 2 * m + 1

\* These are its lines; a last body is the rest.
LEMMA LinesOfTrain ==
  ASSUME NEW b \in Seq(Bodies), NEW h \in Nat, NEW s \in Seq(Bodies \cup {NL}), NEW m \in Nat,
         HasLines(s, b, h, m)
  PROVE  /\ Lines(s) = [k \in 1 .. m |-> <<b[h + k]>>]
         /\ Rest(s) \in Seq(Bodies \cup {NL}) /\ Len(Rest(s)) = Len(s) - 2 * m
         /\ \A j \in 1 .. Len(Rest(s)) : Rest(s)[j] = s[2 * m + j]
<1> SUFFICES ASSUME NEW more \in Nat, Len(b) = h + more, IsTrain(s, b, h),
                    NEW size \in Nat, Len(s) = size, size <= 2 * more,
                    size = 2 * m \/ size = 2 * m + 1
             PROVE  /\ Lines(s) = [k \in 1 .. m |-> <<b[h + k]>>]
                    /\ Rest(s) \in Seq(Bodies \cup {NL}) /\ Len(Rest(s)) = size - 2 * m
                    /\ \A j \in 1 .. size - 2 * m : Rest(s)[j] = s[2 * m + j]
  <2>1. Len(s) \in Nat
    BY LenProperties
  <2> QED
    BY <2>1 DEF HasLines
<1> DEFINE C == Bodies \cup {NL}
<1>1. DOMAIN s = 1 .. size
  BY LenProperties
<1>2. ASSUME NEW k \in 1 .. m
      PROVE  2 * k \in Ends(s) /\ LineAt(s, 2 * k) = <<b[h + k]>>
  <2>1. k \in Nat \ {0} /\ 2 * k <= size
    OBVIOUS
  <2>2. h \in 0 .. Len(b) /\ Len(b) - h = more
    OBVIOUS
  <2> QED
    BY <2>1, <2>2, LineOfTrain
<1>3. ASSUME NEW e \in Ends(s)
      PROVE  \E k \in 1 .. m : e = 2 * k
  <2>1. e \in 1 .. size /\ s[e] = NL
    BY <1>1 DEF Ends
  <2> DEFINE k == (e + 1) \div 2
  <2>2. k \in Nat /\ (e = 2 * k \/ e = 2 * k - 1) /\ k >= 1
    BY <2>1
  <2> HIDE DEF k
  <2>3. CASE e = 2 * k
    <3>1. k \in 1 .. m
      BY <2>1, <2>2, <2>3
    <3> QED
      BY <2>3, <3>1
  <2>4. CASE e = 2 * k - 1
    <3>1. k \in 1 .. more /\ Len(b) - h = more /\ 2 * k - 1 <= Len(s)
      BY <2>1, <2>2, <2>4
    <3>2. b[h + k] = NL
      BY <2>1, <2>4, <3>1 DEF IsTrain
    <3> DEFINE j == h + k
    <3>3. j \in 1 .. Len(b)
      BY <3>1
    <3> HIDE DEF j
    <3>4. b[j] \in Bodies
      BY <3>3, ElementOfSeq
    <3> QED
      BY <3>2, <3>4, Constants DEF j
  <2> QED
    BY <2>2, <2>3, <2>4
<1>4. Told(s) = {2 * i : i \in 1 .. m}
  <2>1. ASSUME NEW k \in 1 .. m PROVE 2 * k \in Told(s)
    <3> DEFINE e == 2 * k
    <3>1. e \in Ends(s) /\ LineAt(s, e) = <<b[h + k]>>
      BY <1>2
    <3> HIDE DEF e
    <3>2. LineAt(s, e) # <<>>
      BY <3>1
    <3>3. e \in Told(s)
      BY <3>1, <3>2 DEF Told
    <3> QED
      BY <3>3 DEF e
  <2>2. \A e \in Told(s) : \E k \in 1 .. m : e = 2 * k
    BY <1>3 DEF Told
  <2> QED
    BY <2>1, <2>2
<1>5. Cardinality(Told(s)) = m
  BY <1>4, Evens
<1>6. ASSUME NEW i \in 1 .. m
      PROVE  Cardinality({j \in Told(s) : j <= 2 * i}) = i
  <2>1. ASSUME NEW k \in 1 .. i PROVE k \in 1 .. m /\ 2 * k <= 2 * i
    OBVIOUS
  <2>2. ASSUME NEW k \in 1 .. m, 2 * k <= 2 * i PROVE k \in 1 .. i
    BY <2>2
  <2>3. {j \in Told(s) : j <= 2 * i} = {2 * k : k \in 1 .. i}
    BY <1>4, <2>1, <2>2
  <2>4. i \in Nat
    OBVIOUS
  <2> QED
    BY <2>3, <2>4, Evens
<1>7. ASSUME NEW k \in 1 .. m
      PROVE  NthTold(s, k) = 2 * k
  <2> DEFINE P(e) == Cardinality({j \in Told(s) : j <= e}) = k
  <2>1. 2 * k \in Told(s) /\ P(2 * k)
    BY <1>4, <1>6
  <2>2. ASSUME NEW e \in Told(s), P(e) PROVE e = 2 * k
    <3>1. PICK i \in 1 .. m : e = 2 * i
      BY <1>4
    <3>2. i = k
      BY <1>6, <2>2, <3>1
    <3> QED
      BY <3>1, <3>2
  <2>3. NthTold(s, k) = CHOOSE e \in Told(s) : P(e)
    BY DEF NthTold
  <2> HIDE DEF P
  <2> QED
    BY <2>1, <2>2, <2>3
<1>8. Lines(s) = [k \in 1 .. m |-> <<b[h + k]>>]
  <2>1. Lines(s) = [k \in 1 .. m |-> LineAt(s, NthTold(s, k))]
    BY <1>5 DEF Lines
  <2>2. \A k \in 1 .. m : LineAt(s, NthTold(s, k)) = <<b[h + k]>>
    BY <1>2, <1>7
  <2> QED
    BY <2>1, <2>2
\* The last newline is at 2m.
<1> DEFINE i == size + 1
           d == 2 * m
<1>9. EndBefore(s, i) = d
  <2>1. i \in 1 .. size + 1 /\ d \in 0 .. i - 1
    OBVIOUS
  <2>2. d # 0 => s[d] = NL
    <3>1. d # 0 => m \in 1 .. m
      OBVIOUS
    <3> QED
      BY <1>2, <3>1 DEF Ends
  <2>3. ASSUME NEW k \in d + 1 .. i - 1 PROVE s[k] # NL
    <3>1. k \in 1 .. size /\ k > 2 * m
      OBVIOUS
    <3>2. k \notin Ends(s)
      <4>1. \A j \in 1 .. m : k # 2 * j
        BY <3>1
      <4> QED
        BY <1>3, <4>1
    <3> QED
      BY <1>1, <3>1, <3>2 DEF Ends
  <2> HIDE DEF i, d
  <2> QED
    BY <2>1, <2>2, <2>3, EndBeforeUnique
<1>10. Rest(s) \in Seq(C) /\ Len(Rest(s)) = size - d /\ \A j \in 1 .. size - d : Rest(s)[j] = s[d + j]
  <2> DEFINE e == EndBefore(s, Len(s) + 1)
  <2>1. /\ Rest(s) \in Seq(C) /\ Len(Rest(s)) = Len(s) - e
        /\ \A j \in 1 .. Len(s) - e : Rest(s)[j] = s[e + j]
    BY RestIs
  <2>2. e = d
    BY <1>9
  <2> HIDE DEF e, d
  <2> QED
    BY <2>1, <2>2
<1> QED
  BY <1>8, <1>10

\* The first lines that were sent are handled; the cells of the others are in the
\* buffer, at most one of them, and on their way.
Socket ==
    /\ sent \in Seq(Bodies) /\ handled \in Seq(Seq(Bodies))
    /\ wire \in Seq(Bodies \cup {NL}) /\ buf \in Seq(Bodies \cup {NL})
    /\ Len(handled) <= Len(sent)
    /\ \A i \in 1 .. Len(handled) : handled[i] = <<sent[i]>>
    /\ Len(buf) <= 1
    /\ Len(buf \o wire) = 2 * (Len(sent) - Len(handled))
    /\ IsTrain(buf \o wire, sent, Len(handled))

\* The types of the socket, and the cells of the buffer with those on their way.
LEMMA InSocket ==
  ASSUME Socket
  PROVE  /\ Len(sent) \in Nat /\ Len(handled) \in Nat /\ Len(wire) \in Nat /\ Len(buf) \in Nat
         /\ buf \o wire \in Seq(Bodies \cup {NL})
         /\ Len(buf \o wire) = Len(buf) + Len(wire)
         /\ \A i \in 1 .. Len(buf) + Len(wire) :
               (buf \o wire)[i] = IF i <= Len(buf) THEN buf[i] ELSE wire[i - Len(buf)]
<1>1. /\ sent \in Seq(Bodies) /\ handled \in Seq(Seq(Bodies))
      /\ wire \in Seq(Bodies \cup {NL}) /\ buf \in Seq(Bodies \cup {NL})
  BY DEF Socket
<1> QED
  BY <1>1, LenProperties, ConcatProperties

\* The plugin puts a line behind the others.
LEMMA SendsKeepsSocket ==
  ASSUME Socket, NEW b \in Bodies, PluginSends(b)
  PROVE  Socket'
<1> DEFINE C == Bodies \cup {NL}
           v == <<b, NL>>
           u == buf \o wire
           h == Len(handled)
<1>1. /\ sent \in Seq(Bodies) /\ wire \in Seq(C) /\ buf \in Seq(C)
      /\ h <= Len(sent) /\ Len(u) = 2 * (Len(sent) - h)
      /\ IsTrain(u, sent, h)
  BY DEF Socket
<1>2. sent' = Append(sent, b) /\ wire' = wire \o v /\ buf' = buf /\ handled' = handled
  BY DEF PluginSends
<1>3. Len(sent) \in Nat /\ h \in Nat /\ u \in Seq(C) /\ Len(u) \in Nat
  BY InSocket, LenProperties
<1>4. /\ sent' \in Seq(Bodies) /\ Len(sent') = Len(sent) + 1
      /\ \A i \in 1 .. Len(sent) : sent'[i] = sent[i]
      /\ sent'[Len(sent) + 1] = b
  BY <1>1, <1>2, AppendProperties
<1>5. v \in Seq(C) /\ Len(v) = 2 /\ v[1] = b /\ v[2] = NL
  OBVIOUS
<1> HIDE DEF C, v
<1>6. wire' \in Seq(C) /\ buf' \o wire' = u \o v
  <2>1. buf \in Seq(C) /\ wire \in Seq(C) /\ v \in Seq(C)
    BY <1>1, <1>5
  <2>2. wire \o v \in Seq(C)
    BY <2>1, ConcatProperties
  <2>3. (buf \o wire) \o v = buf \o (wire \o v)
    BY SMTT(30), <2>1, ConcatAssociative
  <2> QED
    BY <1>2, <2>2, <2>3
<1> HIDE DEF u
<1>7. /\ Len(u \o v) = Len(u) + 2
      /\ \A i \in 1 .. Len(u) + 2 : (u \o v)[i] = IF i <= Len(u) THEN u[i] ELSE v[i - Len(u)]
  <2>1. /\ Len(u \o v) = Len(u) + Len(v)
        /\ \A i \in 1 .. Len(u) + Len(v) : (u \o v)[i] = IF i <= Len(u) THEN u[i] ELSE v[i - Len(u)]
    BY <1>3, <1>5, ConcatProperties
  <2> QED
    BY <1>5, <2>1
<1> DEFINE w == u \o v
<1> HIDE DEF h
<1>8. IsTrain(w, sent', h)
  <2>1. ASSUME NEW k \in 1 .. Len(sent') - h
        PROVE  w[2 * k - 1] = sent'[h + k] /\ w[2 * k] = NL
    <3>1. CASE k \in 1 .. Len(sent) - h
      <4>1. /\ 2 * k - 1 \in 1 .. Len(u) /\ 2 * k \in 1 .. Len(u) /\ h + k \in 1 .. Len(sent)
        BY <1>1, <1>3, <3>1
      <4>2. u[2 * k - 1] = sent[h + k] /\ u[2 * k] = NL
        BY <1>1, <1>3, <3>1, <4>1 DEF IsTrain
      <4>3. \A i \in 1 .. Len(u) : w[i] = u[i]
        BY <1>3, <1>7
      <4>4. sent'[h + k] = sent[h + k]
        BY <1>4, <4>1
      <4> HIDE DEF w
      <4> QED
        BY <4>1, <4>2, <4>3, <4>4
    <3>2. CASE ~(k \in 1 .. Len(sent) - h)
      <4>1. h + k = Len(sent) + 1 /\ 2 * k - 1 = Len(u) + 1 /\ 2 * k = Len(u) + 2
        <5> DEFINE p == Len(sent)
                   q == Len(u)
        <5>1. p \in Nat /\ h <= p /\ q = 2 * (p - h) /\ k \in 1 .. p + 1 - h /\ ~(k \in 1 .. p - h)
          BY <1>1, <1>3, <1>4, <3>2
        <5> HIDE DEF p, q
        <5>2. k = p + 1 - h
          BY <1>3, <5>1
        <5>3. h + k = p + 1 /\ 2 * k - 1 = q + 1 /\ 2 * k = q + 2
          BY <1>3, <5>1, <5>2
        <5> QED
          BY <5>3 DEF p, q
      <4>2. w[Len(u) + 1] = b /\ w[Len(u) + 2] = NL
        <5>1. /\ Len(u) + 1 \in 1 .. Len(u) + 2 /\ ~(Len(u) + 1 <= Len(u)) /\ Len(u) + 1 - Len(u) = 1
              /\ Len(u) + 2 \in 1 .. Len(u) + 2 /\ ~(Len(u) + 2 <= Len(u)) /\ Len(u) + 2 - Len(u) = 2
          BY <1>3
        <5> QED
          BY <1>5, <1>7, <5>1
      <4> QED
        BY <1>4, <4>1, <4>2
    <3> QED
      BY <3>1, <3>2
  <2> HIDE DEF w
  <2> QED
    BY <2>1 DEF IsTrain
<1>9. h <= Len(sent') /\ Len(w) = 2 * (Len(sent') - h) /\ \A i \in 1 .. h : handled[i] = <<sent'[i]>>
  <2>1. \A i \in 1 .. h : i \in 1 .. Len(sent)
    BY <1>1, <1>3
  <2> QED
    BY <1>1, <1>3, <1>4, <1>7, <2>1 DEF Socket, h
<1> QED
  BY <1>2, <1>4, <1>6, <1>8, <1>9 DEF Socket, C, h

\* Taking m lines from a train takes 2m cells.
LEMMA Twice == \A p, q, m \in Nat : 2 * (p - q) - 2 * m = 2 * (p - (q + m))
OBVIOUS

\* The daemon handles the lines that are whole now; what is left of them and what
\* is on its way is the train of the others.
LEMMA ReadsKeepsSocket ==
  ASSUME Socket, NEW k \in 1 .. Len(wire), DaemonReads(k)
  PROVE  Socket'
<1> DEFINE C == Bodies \cup {NL}
           piece == SubSeq(wire, 0 + 1, k)
           left == SubSeq(wire, k + 1, Len(wire))
           s == buf \o piece
           u == buf \o wire
           h == Len(handled)
<1>1. /\ sent \in Seq(Bodies) /\ handled \in Seq(Seq(Bodies)) /\ wire \in Seq(C) /\ buf \in Seq(C)
      /\ h <= Len(sent) /\ \A i \in 1 .. h : handled[i] = <<sent[i]>>
      /\ Len(buf) <= 1 /\ Len(u) = 2 * (Len(sent) - h)
      /\ IsTrain(u, sent, h)
  BY DEF Socket
<1>2. sent' = sent /\ wire' = left /\ buf' = Rest(s) /\ handled' = handled \o Lines(s)
  BY DEF DaemonReads, Push
<1>3. /\ Len(sent) \in Nat /\ h \in Nat /\ Len(wire) \in Nat /\ Len(buf) \in Nat
      /\ u \in Seq(C) /\ Len(u) = Len(buf) + Len(wire)
      /\ \A i \in 1 .. Len(buf) + Len(wire) : u[i] = IF i <= Len(buf) THEN buf[i] ELSE wire[i - Len(buf)]
  BY InSocket
<1> HIDE DEF C, u
<1>4. piece \in Seq(C) /\ Len(piece) = k /\ \A j \in 1 .. k : piece[j] = wire[j]
  <2> DEFINE a == 0
  <2>1. k \in 0 .. Len(wire) /\ a \in 0 .. k
    BY <1>3
  <2> HIDE DEF a
  <2>2. /\ SubSeq(wire, a + 1, k) \in Seq(C) /\ Len(SubSeq(wire, a + 1, k)) = k - a
        /\ \A j \in 1 .. k - a : SubSeq(wire, a + 1, k)[j] = wire[a + j]
    BY <1>1, <2>1, PartIs
  <2>3. k \in Int /\ k - 0 = k /\ \A j \in 1 .. k : 0 + j = j
    BY <1>3
  <2> QED
    BY <2>2, <2>3 DEF a
<1> HIDE DEF piece
<1>5. left \in Seq(C) /\ Len(left) = Len(wire) - k /\ \A j \in 1 .. Len(wire) - k : left[j] = wire[k + j]
  <2> DEFINE z == Len(wire)
  <2>1. z \in 0 .. Len(wire) /\ k \in 0 .. z
    BY <1>3
  <2> HIDE DEF z
  <2>2. /\ SubSeq(wire, k + 1, z) \in Seq(C) /\ Len(SubSeq(wire, k + 1, z)) = z - k
        /\ \A j \in 1 .. z - k : SubSeq(wire, k + 1, z)[j] = wire[k + j]
    BY <1>1, <2>1, PartIs
  <2> QED
    BY <2>2 DEF z
<1> HIDE DEF left
<1>6. /\ s \in Seq(C) /\ Len(s) = Len(buf) + k /\ Len(s) \in Nat /\ Len(s) <= Len(u)
      /\ \A i \in 1 .. Len(s) : s[i] = u[i]
  <2>1. /\ s \in Seq(C) /\ Len(s) = Len(buf) + Len(piece)
        /\ \A i \in 1 .. Len(buf) + Len(piece) : s[i] = IF i <= Len(buf) THEN buf[i] ELSE piece[i - Len(buf)]
    BY ZenonT(60), <1>1, <1>4, ConcatProperties
  <2>2. Len(s) = Len(buf) + k /\ Len(s) \in Nat /\ Len(s) <= Len(u)
    BY <1>3, <1>4, <2>1
  <2> HIDE DEF s
  <2>3. ASSUME NEW i \in 1 .. Len(s) PROVE s[i] = u[i]
    <3>1. i \in 1 .. Len(buf) + Len(piece) /\ i \in 1 .. Len(buf) + Len(wire)
      BY <1>3, <1>4, <2>2
    <3>2. CASE i <= Len(buf)
      BY <1>3, <2>1, <3>1, <3>2
    <3>3. CASE ~(i <= Len(buf))
      <4>1. i - Len(buf) \in 1 .. k
        BY <1>3, <2>2, <3>3
      <4> QED
        BY <1>3, <1>4, <2>1, <3>1, <3>3, <4>1
    <3> QED
      BY <3>2, <3>3
  <2> QED
    BY <2>1, <2>2, <2>3
<1> HIDE DEF s, h
<1>7. IsTrain(s, sent, h)
  <2>1. ASSUME NEW i \in 1 .. Len(sent) - h
        PROVE  /\ 2 * i - 1 <= Len(s) => s[2 * i - 1] = sent[h + i]
               /\ 2 * i <= Len(s) => s[2 * i] = NL
    <3>1. /\ 2 * i - 1 <= Len(u) => u[2 * i - 1] = sent[h + i]
          /\ 2 * i <= Len(u) => u[2 * i] = NL
      BY <1>1 DEF IsTrain
    <3>2. /\ 2 * i - 1 <= Len(s) => 2 * i - 1 \in 1 .. Len(s) /\ 2 * i - 1 <= Len(u)
          /\ 2 * i <= Len(s) => 2 * i \in 1 .. Len(s) /\ 2 * i <= Len(u)
      BY <1>3, <1>6
    <3> QED
      BY <1>6, <3>1, <3>2
  <2> QED
    BY <2>1 DEF IsTrain
<1>8. PICK m \in Nat : Len(s) = 2 * m \/ Len(s) = 2 * m + 1
  <2> DEFINE m == Len(s) \div 2
  <2>1. m \in Nat /\ (Len(s) = 2 * m \/ Len(s) = 2 * m + 1)
    BY <1>6
  <2> QED
    BY <2>1
<1>9. h \in 0 .. Len(sent) /\ Len(s) <= 2 * (Len(sent) - h) /\ h + m <= Len(sent)
  BY <1>1, <1>3, <1>6, <1>8
<1>10. /\ Lines(s) = [i \in 1 .. m |-> <<sent[h + i]>>]
       /\ Rest(s) \in Seq(C) /\ Len(Rest(s)) = Len(s) - 2 * m
       /\ \A j \in 1 .. Len(Rest(s)) : Rest(s)[j] = s[2 * m + j]
  <2>1. \E more \in Nat : Len(sent) = h + more /\ Len(s) <= 2 * more
    <3>1. Len(sent) - h \in Nat /\ Len(sent) = h + (Len(sent) - h)
      BY <1>3, <1>9
    <3> QED
      BY <1>9, <3>1
  <2>2. HasLines(s, sent, h, m)
    BY <1>7, <1>8, <2>1 DEF HasLines
  <2>3. h \in Nat /\ sent \in Seq(Bodies) /\ s \in Seq(C)
    BY <1>1, <1>3, <1>6
  <2> QED
    BY <2>2, <2>3, LinesOfTrain DEF C
<1> DEFINE L == Lines(s)
           R == Rest(s)
<1>11. L \in Seq(Seq(Bodies)) /\ Len(L) = m /\ \A i \in 1 .. m : L[i] = <<sent[h + i]>>
  <2>1. ASSUME NEW i \in 1 .. m PROVE <<sent[h + i]>> \in Seq(Bodies)
    <3> DEFINE j == h + i
    <3>1. j \in 1 .. Len(sent)
      BY <1>3, <1>8, <1>9
    <3> HIDE DEF j
    <3>2. sent[j] \in Bodies
      BY <1>1, <3>1, ElementOfSeq
    <3> QED
      BY <3>2 DEF j
  <2>2. L \in [1 .. m -> Seq(Bodies)]
    BY <1>10, <2>1
  <2>3. L \in Seq(Seq(Bodies))
    BY <1>8, <2>2, SeqDef
  <2>4. Len(L) = m
    BY <1>8, <2>2, <2>3, LenProperties
  <2> QED
    BY <1>10, <2>3, <2>4
<1> HIDE DEF L, R
<1>12. /\ handled' \in Seq(Seq(Bodies)) /\ Len(handled') = h + m
       /\ \A i \in 1 .. h + m : handled'[i] = <<sent[i]>>
  <2>1. /\ handled \o L \in Seq(Seq(Bodies)) /\ Len(handled \o L) = h + m
        /\ \A i \in 1 .. h + m : (handled \o L)[i] = IF i <= h THEN handled[i] ELSE L[i - h]
    BY <1>1, <1>11, ConcatProperties DEF h
  <2>2. handled' = handled \o L
    BY <1>2 DEF L
  <2>3. ASSUME NEW i \in 1 .. h + m PROVE handled'[i] = <<sent[i]>>
    <3>1. CASE i <= h
      <4>1. i \in 1 .. h
        BY <1>3, <3>1
      <4> QED
        BY <1>1, <2>1, <2>2, <3>1, <4>1
    <3>2. CASE ~(i <= h)
      <4>1. i - h \in 1 .. m /\ h + (i - h) = i
        BY <1>3, <1>8, <3>2
      <4>2. L[i - h] = <<sent[i]>>
        BY <1>11, <4>1
      <4> QED
        BY <2>1, <2>2, <3>2, <4>2
    <3> QED
      BY <3>1, <3>2
  <2> QED
    BY <2>1, <2>2, <2>3
<1>13. R \in Seq(C) /\ Len(R) = Len(s) - 2 * m /\ \A j \in 1 .. Len(R) : R[j] = s[2 * m + j]
  BY <1>10 DEF R
<1> DEFINE w == R \o left
<1>14. /\ w \in Seq(C) /\ Len(w) = Len(R) + Len(left)
       /\ \A j \in 1 .. Len(R) + Len(left) : w[j] = IF j <= Len(R) THEN R[j] ELSE left[j - Len(R)]
  BY <1>5, <1>13, ConcatProperties
<1> HIDE DEF w
<1>15. Len(w) = Len(u) - 2 * m /\ Len(R) <= 1
  BY SMTT(30), <1>3, <1>5, <1>6, <1>8, <1>13, <1>14
<1>16. ASSUME NEW j \in 1 .. Len(w) PROVE w[j] = u[2 * m + j]
  <2>1. CASE j <= Len(R)
    <3>1. j \in 1 .. Len(R) /\ 2 * m + j \in 1 .. Len(s)
      BY <1>6, <1>8, <1>13, <1>15, <2>1
    <3>2. w[j] = R[j] /\ R[j] = s[2 * m + j]
      BY <1>13, <1>14, <2>1, <3>1
    <3> QED
      BY <1>6, <3>1, <3>2
  <2>2. CASE ~(j <= Len(R))
    <3> DEFINE i == j - Len(R)
               p == k + i
               q == 2 * m + j
    <3>1. i \in 1 .. Len(wire) - k /\ q \in 1 .. Len(buf) + Len(wire) /\ ~(q <= Len(buf)) /\ q - Len(buf) = p
      <4> DEFINE lw == Len(wire)
                 lb == Len(buf)
                 ls == Len(s)
                 lr == Len(R)
                 ll == Len(w)
      <4>1. /\ lw \in Nat /\ lb \in Nat /\ k \in 1 .. lw /\ m \in Nat
            /\ ls = lb + k /\ (ls = 2 * m \/ ls = 2 * m + 1) /\ lr = ls - 2 * m
            /\ ll = lr + (lw - k) /\ j \in 1 .. ll /\ ~(j <= lr)
        BY <1>3, <1>5, <1>6, <1>8, <1>13, <1>14, <2>2
      <4> HIDE DEF lw, lb, ls, lr, ll
      <4>2. /\ j - lr \in 1 .. lw - k /\ 2 * m + j \in 1 .. lb + lw
            /\ ~(2 * m + j <= lb) /\ (2 * m + j) - lb = k + (j - lr)
        BY <4>1
      <4> QED
        BY <4>2 DEF lw, lb, lr
    <3>2. w[j] = left[i]
      BY <1>14, <2>2
    <3> HIDE DEF i
    <3>3. left[i] = wire[p]
      BY <1>5, <3>1
    <3> HIDE DEF p, q
    <3>4. u[q] = wire[p]
      BY <1>3, <3>1
    <3> QED
      BY <3>2, <3>3, <3>4 DEF q
  <2> QED
    BY <2>1, <2>2
<1>17. IsTrain(w, sent, h + m)
  <2>1. ASSUME NEW i \in 1 .. Len(sent) - (h + m)
        PROVE  /\ 2 * i - 1 <= Len(w) => w[2 * i - 1] = sent[(h + m) + i]
               /\ 2 * i <= Len(w) => w[2 * i] = NL
    <3> DEFINE j == m + i
    <3>1. /\ j \in 1 .. Len(sent) - h /\ h + j = (h + m) + i
          /\ 2 * j - 1 = 2 * m + (2 * i - 1) /\ 2 * j = 2 * m + 2 * i
      BY <1>3, <1>8, <1>9
    <3>2. /\ 2 * i - 1 <= Len(w) => 2 * i - 1 \in 1 .. Len(w) /\ 2 * j - 1 <= Len(u)
          /\ 2 * i <= Len(w) => 2 * i \in 1 .. Len(w) /\ 2 * j <= Len(u)
      BY <1>3, <1>8, <1>15, <3>1
    <3> HIDE DEF j
    <3>3. /\ 2 * j - 1 <= Len(u) => u[2 * j - 1] = sent[h + j]
          /\ 2 * j <= Len(u) => u[2 * j] = NL
      BY <1>1, <3>1 DEF IsTrain
    <3> QED
      BY <1>16, <3>1, <3>2, <3>3
  <2> QED
    BY <2>1 DEF IsTrain
<1>18. buf' = R /\ buf' \o wire' = w
  BY <1>2 DEF R, w
<1>19. Len(w) = 2 * (Len(sent) - (h + m)) /\ Len(R) <= 1
  <2>1. PICK p \in Nat : p = Len(sent)
    BY <1>3
  <2>2. PICK q \in Nat : q = h
    BY <1>3
  <2>3. Len(w) = 2 * (p - q) - 2 * m
    BY <1>1, <1>15, <2>1, <2>2
  <2>4. 2 * (p - q) - 2 * m = 2 * (p - (q + m))
    BY Twice
  <2>5. Len(w) = 2 * (p - (q + m))
    BY <2>3, <2>4
  <2>6. Len(w) = 2 * (Len(sent) - (h + m))
    BY <2>1, <2>2, <2>5, Zenon
  <2> QED
    BY <1>15, <2>6
<1> QED
  BY <1>1, <1>2, <1>5, <1>9, <1>12, <1>13, <1>17, <1>18, <1>19 DEF Socket, C

\* Whatever is on its way, the lines handled and those still to come are the lines
\* sent.
LEMMA SocketInOrder == Socket => LinesInOrder
<1> SUFFICES ASSUME Socket PROVE LinesInOrder
  OBVIOUS
<1> DEFINE u == buf \o wire
           h == Len(handled)
           L == Lines(u)
<1>1. /\ sent \in Seq(Bodies) /\ handled \in Seq(Seq(Bodies)) /\ h <= Len(sent)
      /\ \A i \in 1 .. h : handled[i] = <<sent[i]>>
      /\ Len(u) = 2 * (Len(sent) - h) /\ IsTrain(u, sent, h)
  BY DEF Socket
<1>2. Len(sent) \in Nat /\ DOMAIN sent = 1 .. Len(sent) /\ h \in Nat /\ u \in Seq(Bodies \cup {NL})
  BY <1>1, InSocket, LenProperties
<1>3. PICK m \in Nat : Len(sent) = h + m
  <2>1. Len(sent) - h \in Nat /\ Len(sent) = h + (Len(sent) - h)
    BY <1>1, <1>2
  <2> QED
    BY <2>1
<1>4. L = [i \in 1 .. m |-> <<sent[h + i]>>]
  <2>1. Len(sent) - h = m
    BY <1>2, <1>3
  <2>2. Len(u) = 2 * m
    BY <1>1, <2>1
  <2> HIDE DEF h, u
  <2>3. HasLines(u, sent, h, m)
    BY <1>1, <1>3, <2>2 DEF HasLines
  <2> QED
    BY ZenonT(60), <1>1, <1>2, <2>3, LinesOfTrain
<1> HIDE DEF L, u
<1>5. L \in Seq(Seq(Bodies)) /\ Len(L) = m
  <2>2. ASSUME NEW i \in 1 .. m PROVE <<sent[h + i]>> \in Seq(Bodies)
    <3> DEFINE j == h + i
    <3>1. j \in 1 .. Len(sent)
      BY <1>2, <1>3
    <3> HIDE DEF j
    <3>2. sent[j] \in Bodies
      BY <1>1, <3>1, ElementOfSeq
    <3> QED
      BY <3>2 DEF j
  <2>3. L \in [1 .. m -> Seq(Bodies)]
    BY <1>4, <2>2
  <2>4. L \in Seq(Seq(Bodies))
    BY <2>3, SeqDef
  <2> QED
    BY <2>3, <2>4, LenProperties
<1> DEFINE all == handled \o L
<1>6. /\ all \in Seq(Seq(Bodies)) /\ Len(all) = Len(sent)
      /\ \A i \in 1 .. Len(sent) : all[i] = IF i <= h THEN handled[i] ELSE L[i - h]
  <2>1. /\ all \in Seq(Seq(Bodies)) /\ Len(all) = h + Len(L)
        /\ \A i \in 1 .. h + Len(L) : all[i] = IF i <= h THEN handled[i] ELSE L[i - h]
    BY <1>1, <1>5, ConcatProperties
  <2>2. h + Len(L) = Len(sent)
    BY <1>5, <1>3
  <2> QED
    BY <2>1, <2>2
<1>7. all \in [1 .. Len(sent) -> Seq(Bodies)]
  BY <1>6, LenProperties
<1> HIDE DEF all, h
<1>8. ASSUME NEW i \in 1 .. Len(sent) PROVE all[i] = <<sent[i]>>
  <2>1. CASE i <= h
    <3>1. i \in 1 .. h
      BY <1>2, <2>1
    <3> QED
      BY <1>1, <1>6, <2>1, <3>1
  <2>2. CASE ~(i <= h)
    <3>1. i - h \in 1 .. m /\ h + (i - h) = i
      BY <1>2, <1>3, <2>2
    <3>2. L[i - h] = <<sent[i]>>
      BY <1>4, <3>1
    <3> QED
      BY <1>6, <2>2, <3>2
  <2> QED
    BY <2>1, <2>2
<1>9. all = [i \in DOMAIN sent |-> <<sent[i]>>]
  BY <1>2, <1>7, <1>8
<1> QED
  BY <1>9 DEF LinesInOrder, all, L, u

-----------------------------------------------------------------------------
(* The inductive invariant *)

Chatting ==
    /\ dirKnown \in BOOLEAN
    /\ awaiting \subseteq Chats /\ replying \subseteq Chats
    /\ window \subseteq Chats /\ sending \subseteq Chats

IInv == Slots /\ Tails /\ Socket /\ Chatting

LEMMA InitTails == Init => Tails
<1> SUFFICES ASSUME Init PROVE Tails
  OBVIOUS
<1>1. /\ file = [f \in Files |-> <<>>] /\ partial = [f \in Files |-> <<>>] /\ lines = 0
      /\ shrunk = {} /\ tracked = {}
      /\ base = [f \in Files |-> 0] /\ offset = [f \in Files |-> 0]
      /\ reported = [n \in 1 .. MaxLines |-> 0]
  BY DEF Init
<1>2. /\ <<>> \in Seq(0 .. MaxLines) /\ Len(<<>>) = 0
      /\ \A i \in DOMAIN <<>> : FALSE
  OBVIOUS
<1>3. Numbered
  BY <1>1, <1>2, Constants DEF Numbered
<1>4. Once
  <2>1. \A f \in Files : Here(f) = {}
    BY <1>1, <1>2 DEF Here
  <2> QED
    BY <1>1, <1>2, <2>1 DEF Once
<1>5. Unsaid
  BY <1>1, <1>2 DEF Unsaid
<1>6. Watched
  <2>1. ASSUME NEW f \in Files
        PROVE  partial[f] = Rest(Seen(f))
    <3> DEFINE s == file[f]
               z == 0
    <3>1. Seen(f) = SubSeq(s, z + 1, z)
      BY <1>1 DEF Seen
    <3>2. s \in Seq(0 .. MaxLines) /\ z \in 0 .. Len(s) /\ z \in 0 .. z /\ z - z = 0
      BY <1>1, <1>2
    <3> HIDE DEF s, z
    <3>3. Seen(f) \in Seq(0 .. MaxLines) /\ Len(Seen(f)) = 0
      BY <3>1, <3>2, PartIs
    <3> QED
      BY <1>1, <3>3, NothingHeld
  <2>2. \A f \in Files : base[f] <= offset[f] /\ offset[f] <= Len(file[f])
    BY <1>1, <1>2
  <2>3. base \in [Files -> Nat] /\ offset \in [Files -> Nat]
    BY <1>1
  <2>4. \A f \in Files : base[f] = 0 /\ offset[f] = 0 /\ partial[f] = <<>>
    BY <1>1
  <2>5. \A f \in Files : ~\E i \in DOMAIN file[f] : TRUE
    BY <1>1, <1>2
  <2> QED
    BY <1>1, <2>1, <2>2, <2>3, <2>4, <2>5 DEF Watched
<1> QED
  BY <1>3, <1>4, <1>5, <1>6 DEF Tails

LEMMA InitSocket == Init => Socket
<1> SUFFICES ASSUME Init PROVE Socket
  OBVIOUS
<1>1. sent = <<>> /\ wire = <<>> /\ buf = <<>> /\ handled = <<>>
  BY DEF Init
<1>2. /\ sent \in Seq(Bodies) /\ handled \in Seq(Seq(Bodies))
      /\ wire \in Seq(Bodies \cup {NL}) /\ buf \in Seq(Bodies \cup {NL})
  BY <1>1
<1>3. Len(sent) = 0 /\ Len(handled) = 0 /\ Len(buf) = 0 /\ Len(wire) = 0
  BY <1>1
<1>4. buf \o wire = <<>> /\ Len(buf \o wire) = 0
  BY <1>1, <1>2, ConcatEmptySeq
<1> QED
  BY <1>2, <1>3, <1>4 DEF Socket, IsTrain

LEMMA StepTails ==
  ASSUME Tails, [Next]_vars
  PROVE  Tails'
<1>1. ASSUME UNCHANGED <<fileVars, tailVars>>
      PROVE  Tails'
  <2>1. UNCHANGED <<file, lines, shrunk, tracked, base, offset, partial, reported>>
    BY <1>1 DEF fileVars, tailVars
  <2>2. Numbered' /\ Unsaid'
    BY <2>1 DEF Tails, Numbered, Unsaid
  <2>3. Once'
    <3>1. \A f \in Files : Here(f)' = Here(f)
      BY <2>1 DEF Here
    <3> QED
      BY <2>1, <3>1 DEF Tails, Once
  <2>4. Watched'
    <3>1. \A f \in Files : Seen(f)' = Seen(f)
      BY <2>1 DEF Seen
    <3> QED
      BY <2>1, <3>1 DEF Tails, Watched
  <2> QED
    BY <2>2, <2>3, <2>4 DEF Tails
<1>2. CASE UNCHANGED vars
  BY <1>1, <1>2 DEF vars
<1>3. ASSUME NEW f \in Files, WritesLine(f, <<>>) \/ WritesLine(f, <<NL>>)
      PROVE  Tails'
  BY <1>3, WritesLineKeepsTails
<1>4. ASSUME NEW f \in Files, EndsLine(f)
      PROVE  Tails'
  BY <1>4, EndsLineKeepsTails
<1>5. ASSUME NEW f \in Files, NEW e \in 0 .. Len(file[f]), Shrinks(f, e)
      PROVE  Tails'
  BY <1>5, ShrinksKeepsTails
<1>6. CASE Observe
  BY <1>6, ObserveKeepsTails
<1>7. CASE Poll
  BY <1>7, PollKeepsTails
<1>8. ASSUME NEW b \in Bodies, PluginSends(b)
      PROVE  Tails'
  BY <1>1, <1>8 DEF PluginSends
<1>9. ASSUME NEW k \in 1 .. Len(wire), DaemonReads(k)
      PROVE  Tails'
  BY <1>1, <1>9 DEF DaemonReads
<1>10. ASSUME NEW c \in Chats,
              Inbound(c) \/ ReplyEnds(c) \/ TypingCap(c) \/ NoticeEnds(c) \/ WindowEnds(c)
       PROVE  Tails'
  BY <1>1, <1>10 DEF Inbound, ReplyEnds, TypingCap, NoticeEnds, WindowEnds
<1>11. CASE StopByWorkspace
  BY <1>1, <1>11 DEF StopByWorkspace
<1> QED
  BY <1>2, <1>3, <1>4, <1>5, <1>6, <1>7, <1>8, <1>9, <1>10, <1>11 DEF Next

LEMMA StepSocket ==
  ASSUME Socket, [Next]_vars
  PROVE  Socket'
<1>1. ASSUME UNCHANGED socketVars
      PROVE  Socket'
  BY <1>1 DEF socketVars, Socket
<1>2. CASE UNCHANGED vars
  BY <1>1, <1>2 DEF vars
<1>3. ASSUME NEW f \in Files,
             \/ WritesLine(f, <<>>) \/ WritesLine(f, <<NL>>) \/ EndsLine(f)
             \/ \E e \in 0 .. Len(file[f]) : Shrinks(f, e)
      PROVE  Socket'
  BY <1>1, <1>3 DEF WritesLine, EndsLine, Shrinks
<1>4. CASE Observe \/ Poll
  BY <1>1, <1>4 DEF Observe, Poll
<1>5. ASSUME NEW b \in Bodies, PluginSends(b)
      PROVE  Socket'
  BY <1>5, SendsKeepsSocket
<1>6. ASSUME NEW k \in 1 .. Len(wire), DaemonReads(k)
      PROVE  Socket'
  BY <1>6, ReadsKeepsSocket
<1>7. ASSUME NEW c \in Chats,
             Inbound(c) \/ ReplyEnds(c) \/ TypingCap(c) \/ NoticeEnds(c) \/ WindowEnds(c)
      PROVE  Socket'
  BY <1>1, <1>7 DEF Inbound, ReplyEnds, TypingCap, NoticeEnds, WindowEnds
<1>8. CASE StopByWorkspace
  BY <1>1, <1>8 DEF StopByWorkspace
<1> QED
  BY <1>2, <1>3, <1>4, <1>5, <1>6, <1>7, <1>8 DEF Next

LEMMA InitChatting == Init => Chatting
BY DEF Init, Chatting

LEMMA StepChatting ==
  ASSUME Chatting, [Next]_vars
  PROVE  Chatting'
<1>1. ASSUME UNCHANGED <<dirKnown, awaiting, replying, noticeVars>>
      PROVE  Chatting'
  BY <1>1 DEF noticeVars, Chatting
<1>2. ASSUME NEW C, C \subseteq Chats, Notify(C)
      PROVE  window' \subseteq Chats /\ sending' \subseteq Chats
  BY <1>2 DEF Notify, Chatting
<1>3. CASE UNCHANGED vars
  BY <1>1, <1>3 DEF vars, tailVars
<1>4. ASSUME NEW f \in Files,
             \/ WritesLine(f, <<>>) \/ WritesLine(f, <<NL>>) \/ EndsLine(f)
             \/ \E e \in 0 .. Len(file[f]) : Shrinks(f, e)
      PROVE  Chatting'
  BY <1>1, <1>4 DEF WritesLine, EndsLine, Shrinks, tailVars
<1>5. CASE Observe
  BY <1>5 DEF Observe, Chatting, noticeVars
<1>6. CASE Poll
  <2>1. PICK C : C \in {{}, awaiting} /\ Notify(C)
    BY <1>6 DEF Poll, OnApiError
  <2>2. C \subseteq Chats
    BY <2>1 DEF Chatting
  <2> QED
    BY <1>2, <1>6, <2>1, <2>2 DEF Poll, Chatting
<1>7. ASSUME NEW b \in Bodies, PluginSends(b)
      PROVE  Chatting'
  BY <1>1, <1>7 DEF PluginSends, tailVars
<1>8. ASSUME NEW k \in 1 .. Len(wire), DaemonReads(k)
      PROVE  Chatting'
  <2>1. replying' \subseteq Chats
    BY <1>8 DEF DaemonReads, Chatting
  <2> QED
    BY <1>8, <2>1 DEF DaemonReads, Chatting, tailVars, noticeVars
<1>9. ASSUME NEW c \in Chats, Inbound(c) \/ NoticeEnds(c) \/ WindowEnds(c)
      PROVE  Chatting'
  BY <1>9 DEF Inbound, NoticeEnds, WindowEnds, Chatting, tailVars, noticeVars
<1>10. ASSUME NEW c \in Chats, ReplyEnds(c)
       PROVE  Chatting'
  <2>1. /\ replying' = replying \ {c} /\ awaiting' = awaiting \ {c} /\ dirKnown' = dirKnown
        /\ UNCHANGED noticeVars \/ Notify({c})
    BY <1>10 DEF ReplyEnds, tailVars
  <2>2. window' \subseteq Chats /\ sending' \subseteq Chats
    BY <1>2, <2>1 DEF noticeVars, Chatting
  <2> QED
    BY <2>1, <2>2 DEF Chatting
<1>11. ASSUME NEW c \in Chats, TypingCap(c)
       PROVE  Chatting'
  <2>1. awaiting' = awaiting \ {c} /\ dirKnown' = dirKnown /\ replying' = replying /\ Notify({c})
    BY <1>11 DEF TypingCap, tailVars
  <2>2. window' \subseteq Chats /\ sending' \subseteq Chats
    BY <1>2, <2>1
  <2> QED
    BY <2>1, <2>2 DEF Chatting
<1>12. CASE StopByWorkspace
  BY <1>12 DEF StopByWorkspace, Chatting, tailVars, noticeVars
<1> QED
  BY <1>3, <1>4, <1>5, <1>6, <1>7, <1>8, <1>9, <1>10, <1>11, <1>12 DEF Next

LEMMA Invariance == Spec => []IInv
<1>1. Init => IInv
  BY InitSlots, InitTails, InitSocket, InitChatting DEF IInv
<1>2. IInv /\ [Next]_vars => IInv'
  BY StepSlots, StepTails, StepSocket, StepChatting DEF IInv
<1> QED
  BY <1>1, <1>2, PTL DEF Spec

LEMMA WellTyped == IInv => TypeOK
<1> SUFFICES ASSUME IInv PROVE TypeOK
  OBVIOUS
<1>1. started \in [Chats -> Nat]
  BY DEF IInv, Slots
<1>2. reported \in [1 .. MaxLines -> Nat]
  BY DEF IInv, Tails, Unsaid
<1>3. /\ file \in [Files -> Seq(0 .. MaxLines)] /\ partial \in [Files -> Seq(0 .. MaxLines)]
      /\ lines \in 0 .. MaxLines /\ shrunk \subseteq Files /\ tracked \subseteq Files
      /\ base \in [Files -> Nat] /\ offset \in [Files -> Nat]
  BY DEF IInv, Tails, Numbered, Watched
<1>4. /\ sent \in Seq(Bodies) /\ handled \in Seq(Seq(Bodies))
      /\ wire \in Seq(Bodies \cup {NL}) /\ buf \in Seq(Bodies \cup {NL})
  BY DEF IInv, Socket
<1> QED
  BY <1>1, <1>2, <1>3, <1>4 DEF TypeOK, IInv, Chatting

\* The errors reported are exactly those whose whole line was read since their
\* transcript is watched, each once, whatever pieces the scans read, whichever
\* files appear and are cut back, and when (TranscriptWatcher.poll, scan).
THEOREM TailsAreExact == Spec => []TailIsExact
<1>1. IInv => TailIsExact
  <2> SUFFICES ASSUME IInv PROVE TailIsExact
    OBVIOUS
  <2>1. tracked \subseteq Files
    BY DEF IInv, Tails, Watched
  <2>2. \A n \in 1 .. MaxLines : reported[n] <= 1
    <3>1. \A n \in 1 .. MaxLines : reported[n] \in {0, 1}
      BY DEF IInv, Tails, Unsaid
    <3> QED
      BY <3>1
  <2>3. \A f \in tracked \ shrunk :
           /\ base[f] <= offset[f] /\ offset[f] <= Len(file[f])
           /\ partial[f] = Rest(Seen(f))
           /\ \A n \in Errors : (\E i \in DOMAIN file[f] : file[f][i] = n)
                 => reported[n] = (IF Holds(Seen(f), n) THEN 1 ELSE 0)
    BY <2>1 DEF IInv, Tails, Watched
  <2> QED
    BY <2>2, <2>3, WellTyped DEF TailIsExact
<1> QED
  BY <1>1, Invariance, PTL

\* The daemon handles what the plugin sent, whole, once and in order, for any
\* lines and any pieces they arrive in (LineBuffer.push).
THEOREM LinesArriveInOrder == Spec => []LinesInOrder
<1>1. IInv => LinesInOrder
  BY SocketInOrder DEF IInv
<1> QED
  BY <1>1, Invariance, PTL

=============================================================================
