--------------------------- MODULE RegistryProofs ---------------------------
(***************************************************************************)
(* Proofs about Registry, for every set of plugins, every assignment of    *)
(* directories and every value of the environment: lists without           *)
(* repetition, the search for a free name, and what every lookup in the    *)
(* registry relies on.                                                     *)
(***************************************************************************)
EXTENDS Registry, SequenceTheorems, FiniteSetTheorems, WellFoundedInduction, TLAPS

-----------------------------------------------------------------------------
(* Lists without repetition *)

Distinct(s) == \A i, j \in DOMAIN s : s[i] = s[j] => i = j

Firsts(s, n) == {s[i] : i \in 1 .. n}

\* What stays when the first n go (EvictTo, Reap).
LEMMA SuffixOfList ==
  ASSUME NEW S, NEW s \in Seq(S), Distinct(s), NEW n \in 0 .. Len(s)
  PROVE  LET t == SubSeq(s, n + 1, Len(s)) IN
         /\ t \in Seq(S) /\ Len(t) = Len(s) - n
         /\ \A i \in 1 .. Len(s) - n : t[i] = s[n + i]
         /\ Distinct(t)
         /\ ToSet(t) = ToSet(s) \ Firsts(s, n)
<1> DEFINE t == SubSeq(s, n + 1, Len(s))
<1>1. Len(s) \in Nat /\ DOMAIN s = 1 .. Len(s)
  BY LenProperties
<1>2. \A i \in n + 1 .. Len(s) : s[i] \in S
  BY <1>1, ElementOfSeq
<1>3. /\ t \in Seq(S)
      /\ Len(t) = Len(s) - n
      /\ \A i \in 1 .. Len(s) - n : t[i] = s[n + i]
  <2>1. n + 1 \in Int /\ Len(s) \in Int
    BY <1>1
  <2>2. /\ SubSeq(s, n + 1, Len(s)) \in Seq(S)
        /\ Len(SubSeq(s, n + 1, Len(s))) = IF n + 1 <= Len(s) THEN Len(s) - (n + 1) + 1 ELSE 0
        /\ \A i \in 1 .. Len(s) - (n + 1) + 1 : SubSeq(s, n + 1, Len(s))[i] = s[n + 1 + i - 1]
    BY <1>2, <2>1, SubSeqProperties
  <2>3. /\ Len(s) - (n + 1) + 1 = Len(s) - n
        /\ (IF n + 1 <= Len(s) THEN Len(s) - (n + 1) + 1 ELSE 0) = Len(s) - n
        /\ \A i \in 1 .. Len(s) - n : n + 1 + i - 1 = n + i
    <3>1. \A k \in Nat : \A m \in 0 .. k :
             /\ k - (m + 1) + 1 = k - m
             /\ (IF m + 1 <= k THEN k - (m + 1) + 1 ELSE 0) = k - m
             /\ \A i \in 1 .. k - m : m + 1 + i - 1 = m + i
      OBVIOUS
    <3> QED
      BY <1>1, <3>1, Zenon
  <2>4. \A i \in 1 .. Len(s) - n : SubSeq(s, n + 1, Len(s))[i] = s[n + i]
    BY <2>2, <2>3, Zenon
  <2> QED
    BY <2>2, <2>3, <2>4, Zenon
<1>4. DOMAIN t = 1 .. Len(s) - n
  BY <1>3, LenProperties
<1> HIDE DEF t
<1>5. Distinct(t)
  <2> SUFFICES ASSUME NEW i \in DOMAIN t, NEW j \in DOMAIN t, t[i] = t[j]
               PROVE  i = j
    BY DEF Distinct
  <2>1. s[n + i] = s[n + j] /\ n + i \in DOMAIN s /\ n + j \in DOMAIN s
    BY <1>1, <1>3, <1>4
  <2>2. n + i = n + j
    BY <2>1 DEF Distinct
  <2> QED
    BY <2>2, <1>4, <1>1
<1>6. ToSet(t) \subseteq ToSet(s) \ Firsts(s, n)
  <2> SUFFICES ASSUME NEW i \in DOMAIN t
               PROVE  t[i] \in ToSet(s) /\ t[i] \notin Firsts(s, n)
    BY DEF ToSet
  <2>1. t[i] = s[n + i] /\ n + i \in DOMAIN s
    BY <1>1, <1>3, <1>4
  <2>2. \A j \in 1 .. n : s[j] # s[n + i]
    <3> SUFFICES ASSUME NEW j \in 1 .. n, s[j] = s[n + i]
                 PROVE  FALSE
      OBVIOUS
    <3>1. j \in DOMAIN s
      BY <1>1
    <3>2. j = n + i
      BY <2>1, <3>1 DEF Distinct
    <3> QED
      BY <3>2, <1>1, <1>4
  <2> QED
    BY <2>1, <2>2 DEF ToSet, Firsts
<1>7. ToSet(s) \ Firsts(s, n) \subseteq ToSet(t)
  <2> SUFFICES ASSUME NEW i \in DOMAIN s, s[i] \notin Firsts(s, n)
               PROVE  s[i] \in ToSet(t)
    BY DEF ToSet
  <2>1. i \notin 1 .. n
    BY DEF Firsts
  <2>2. i - n \in 1 .. Len(s) - n /\ n + (i - n) = i
    BY <1>1, <2>1
  <2>3. t[i - n] = s[i] /\ i - n \in DOMAIN t
    BY <1>3, <1>4, <2>2
  <2> QED
    BY <2>3 DEF ToSet
<1>8. /\ t \in Seq(S) /\ Len(t) = Len(s) - n
      /\ \A i \in 1 .. Len(s) - n : t[i] = s[n + i]
      /\ Distinct(t)
      /\ ToSet(t) = ToSet(s) \ Firsts(s, n)
  BY <1>3, <1>5, <1>6, <1>7
<1> QED
  BY <1>8 DEF t

\* What a session that enters adds.
LEMMA ExtensionOfList ==
  ASSUME NEW S, NEW s \in Seq(S), Distinct(s), NEW p \in S, p \notin ToSet(s)
  PROVE  /\ Append(s, p) \in Seq(S) /\ Len(Append(s, p)) = Len(s) + 1
         /\ Distinct(Append(s, p))
         /\ ToSet(Append(s, p)) = ToSet(s) \cup {p}
<1>1. Len(s) \in Nat /\ DOMAIN s = 1 .. Len(s)
  BY LenProperties
<1>2. /\ Append(s, p) \in Seq(S)
      /\ Len(Append(s, p)) = Len(s) + 1
      /\ \A i \in 1 .. Len(s) : Append(s, p)[i] = s[i]
      /\ Append(s, p)[Len(s) + 1] = p
  BY AppendProperties
<1>3. DOMAIN Append(s, p) = 1 .. Len(s) + 1
  BY <1>2, LenProperties
<1>4. \A i \in 1 .. Len(s) : s[i] # p
  BY <1>1 DEF ToSet
<1>5. Distinct(Append(s, p))
  <2> SUFFICES ASSUME NEW i \in 1 .. Len(s) + 1, NEW j \in 1 .. Len(s) + 1,
                      Append(s, p)[i] = Append(s, p)[j]
               PROVE  i = j
    BY <1>3 DEF Distinct
  <2>1. CASE i \in 1 .. Len(s) /\ j \in 1 .. Len(s)
    BY <1>1, <1>2, <2>1 DEF Distinct
  <2>2. CASE i = Len(s) + 1 \/ j = Len(s) + 1
    BY <1>1, <1>2, <1>4, <2>2
  <2> QED
    BY <1>1, <2>1, <2>2
<1>6. ToSet(Append(s, p)) = ToSet(s) \cup {p}
  <2>1. ToSet(Append(s, p)) \subseteq ToSet(s) \cup {p}
    <3> SUFFICES ASSUME NEW i \in 1 .. Len(s) + 1
                 PROVE  Append(s, p)[i] \in ToSet(s) \cup {p}
      BY <1>3 DEF ToSet
    <3> QED
      BY <1>1, <1>2 DEF ToSet
  <2>2. ASSUME NEW i \in 1 .. Len(s) PROVE s[i] \in ToSet(Append(s, p))
    <3>1. i \in 1 .. Len(s) + 1 /\ Append(s, p)[i] = s[i]
      BY <1>1, <1>2
    <3> QED
      BY <1>3, <3>1 DEF ToSet
  <2>3. p \in ToSet(Append(s, p))
    <3>1. Len(s) + 1 \in 1 .. Len(s) + 1
      BY <1>1
    <3> QED
      BY <1>2, <1>3, <3>1 DEF ToSet
  <2> QED
    BY <1>1, <2>1, <2>2, <2>3 DEF ToSet
<1> QED
  BY <1>2, <1>5, <1>6

\* What stays when one session leaves (Map.delete).
LEMMA RemovalFromList ==
  ASSUME NEW S, NEW s \in Seq(S), Distinct(s), NEW p \in ToSet(s)
  PROVE  /\ Without(s, p) \in Seq(S) /\ Len(Without(s, p)) = Len(s) - 1
         /\ Distinct(Without(s, p))
         /\ ToSet(Without(s, p)) = ToSet(s) \ {p}
<1>1. Len(s) \in Nat /\ DOMAIN s = 1 .. Len(s)
  BY LenProperties
<1>2. PICK k \in 1 .. Len(s) : s[k] = p /\ k = (CHOOSE i \in DOMAIN s : s[i] = p)
  BY <1>1 DEF ToSet
<1> DEFINE u == SubSeq(s, 1, k - 1)
           v == SubSeq(s, k + 1, Len(s))
           w == u \o v
<1>3. Without(s, p) = w
  BY <1>2 DEF Without, RemoveAt
<1>4. u \in Seq(S) /\ Len(u) = k - 1 /\ \A i \in 1 .. k - 1 : u[i] = s[i]
  <2>1. k - 1 \in Int /\ \A i \in 1 .. k - 1 : s[i] \in S
    BY <1>1, ElementOfSeq
  <2>2. /\ SubSeq(s, 1, k - 1) \in Seq(S)
        /\ Len(SubSeq(s, 1, k - 1)) = IF 1 <= k - 1 THEN k - 1 - 1 + 1 ELSE 0
        /\ \A i \in 1 .. k - 1 - 1 + 1 : SubSeq(s, 1, k - 1)[i] = s[1 + i - 1]
    BY <2>1, SubSeqProperties
  <2>3. /\ k - 1 - 1 + 1 = k - 1 /\ (IF 1 <= k - 1 THEN k - 1 - 1 + 1 ELSE 0) = k - 1
        /\ \A i \in 1 .. k - 1 : 1 + i - 1 = i
    BY <1>1
  <2>4. \A i \in 1 .. k - 1 : SubSeq(s, 1, k - 1)[i] = s[i]
    BY <2>2, <2>3, Zenon
  <2> QED
    BY <2>2, <2>3, <2>4, Zenon
<1>5. v \in Seq(S) /\ Len(v) = Len(s) - k /\ \A i \in 1 .. Len(s) - k : v[i] = s[k + i]
  <2>1. k \in 0 .. Len(s)
    BY <1>1
  <2> QED
    BY <2>1, SuffixOfList
<1> HIDE DEF u, v
<1>6. /\ w \in Seq(S) /\ Len(w) = Len(s) - 1
      /\ \A i \in 1 .. Len(s) - 1 : w[i] = IF i < k THEN s[i] ELSE s[i + 1]
  <2>1. /\ w \in Seq(S) /\ Len(w) = Len(u) + Len(v)
        /\ \A i \in 1 .. Len(u) + Len(v) : w[i] = IF i <= Len(u) THEN u[i] ELSE v[i - Len(u)]
    BY <1>4, <1>5, ConcatProperties
  <2>2. Len(u) + Len(v) = Len(s) - 1
    BY <1>1, <1>4, <1>5
  <2>3. ASSUME NEW i \in 1 .. Len(s) - 1
        PROVE  w[i] = IF i < k THEN s[i] ELSE s[i + 1]
    <3> DEFINE x == w[i]
    <3>1. x = IF i <= k - 1 THEN u[i] ELSE v[i - (k - 1)]
      BY <1>4, <2>1, <2>2
    <3>2. CASE i < k
      <4>1. i <= k - 1 /\ i \in 1 .. k - 1
        BY <1>1, <3>2
      <4> QED
        BY <1>4, <3>1, <3>2, <4>1
    <3>3. CASE ~(i < k)
      <4>1. ~(i <= k - 1) /\ i - (k - 1) \in 1 .. Len(s) - k /\ k + (i - (k - 1)) = i + 1
        BY <1>1, <3>3
      <4>2. v[i - (k - 1)] = s[i + 1]
        BY <1>5, <4>1
      <4> QED
        BY <3>1, <3>3, <4>1, <4>2
    <3> QED
      BY <3>2, <3>3
  <2> QED
    BY <2>1, <2>2, <2>3
<1>7. DOMAIN w = 1 .. Len(s) - 1
  BY <1>6, LenProperties
<1> HIDE DEF w
<1>8. \A i \in DOMAIN s : s[i] = p => i = k
  BY <1>1, <1>2 DEF Distinct
<1>9. Distinct(w)
  <2> SUFFICES ASSUME NEW i \in 1 .. Len(s) - 1, NEW j \in 1 .. Len(s) - 1, w[i] = w[j]
               PROVE  i = j
    BY <1>7 DEF Distinct
  <2> DEFINE at(m) == IF m < k THEN m ELSE m + 1
  <2>1. /\ w[i] = s[at(i)] /\ at(i) \in DOMAIN s
        /\ w[j] = s[at(j)] /\ at(j) \in DOMAIN s
    BY <1>1, <1>6
  <2>2. at(i) = at(j)
    BY <2>1 DEF Distinct
  <2> QED
    BY <1>1, <2>2
<1>10. ToSet(w) = ToSet(s) \ {p}
  <2>1. ASSUME NEW i \in 1 .. Len(s) - 1 PROVE w[i] \in ToSet(s) \ {p}
    <3> DEFINE m == IF i < k THEN i ELSE i + 1
    <3>1. w[i] = s[m] /\ m \in DOMAIN s /\ m # k
      BY <1>1, <1>6
    <3> QED
      BY <1>8, <3>1 DEF ToSet
  <2>2. ASSUME NEW i \in DOMAIN s, s[i] # p PROVE s[i] \in ToSet(w)
    <3> DEFINE m == IF i < k THEN i ELSE i - 1
    <3>1. i # k
      BY <1>2, <2>2
    <3>2. m \in 1 .. Len(s) - 1 /\ (IF m < k THEN m ELSE m + 1) = i
      BY <1>1, <3>1
    <3>3. w[m] = s[i]
      BY <1>6, <3>2
    <3> QED
      BY <1>7, <3>2, <3>3 DEF ToSet
  <2> QED
    BY <1>7, <2>1, <2>2 DEF ToSet
<1> QED
  BY <1>3, <1>6, <1>9, <1>10
-----------------------------------------------------------------------------
(* The operators of the registry *)

LEMMA CapTypes ==
  /\ Cap \in Nat /\ 0 < Cap
  /\ Trim \in Nat /\ 0 < Trim
<1>1. CapEnv # Unset => CapEnv \in Nat
  BY CapAssumption
<1>2. Cap \in Nat /\ 0 < Cap
  BY <1>1, CapAssumption DEF Cap, ReadEnvInt
<1>3. TrimEnv # Unset => TrimEnv \in Nat
  BY CapAssumption
<1>4. Trim \in Nat /\ 0 < Trim
  BY <1>2, <1>3, CapAssumption DEF Trim, ReadEnvInt
<1> QED
  BY <1>2, <1>4

\* An eviction leaves the Trim most recently active connections, or all.
LEMMA EvictionOfList ==
  ASSUME NEW S, NEW s \in Seq(S), Distinct(s)
  PROVE  /\ EvictTo(s) \in Seq(S) /\ Distinct(EvictTo(s))
         /\ ToSet(EvictTo(s)) \subseteq ToSet(s)
         /\ Len(EvictTo(s)) <= Len(s)
         /\ Len(s) > Trim => Len(EvictTo(s)) = Trim
<1> DEFINE n == SliceEnd(Len(s), Len(s) - Trim)
<1>1. Len(s) \in Nat /\ Trim \in Nat
  BY LenProperties, CapTypes
<1>2. n \in 0 .. Len(s) /\ (Len(s) > Trim => n = Len(s) - Trim)
  <2>1. \A k, t \in Nat : /\ SliceEnd(k, k - t) \in 0 .. k
                          /\ k > t => SliceEnd(k, k - t) = k - t
    BY DEF SliceEnd
  <2> QED
    BY <1>1, <2>1
<1> HIDE DEF n
<1>3. LET t == SubSeq(s, n + 1, Len(s)) IN
         /\ t \in Seq(S) /\ Len(t) = Len(s) - n
         /\ Distinct(t)
         /\ ToSet(t) = ToSet(s) \ Firsts(s, n)
  BY <1>2, SuffixOfList
<1>4. EvictTo(s) = SubSeq(s, n + 1, Len(s))
  BY DEF EvictTo, n
<1>5. Len(EvictTo(s)) <= Len(s) /\ (Len(s) > Trim => Len(EvictTo(s)) = Trim)
  BY <1>1, <1>2, <1>3, <1>4
<1> QED
  BY <1>3, <1>4, <1>5

\* There is a name that no member has, with one of the first Len(recency) + 1
\* numbers: the search of handleRegister ends.
LEMMA FreeNumber ==
  ASSUME recency \in Seq(Plugins), NEW b
  PROVE  \E k \in 1 .. Len(recency) + 1 : ~Taken(b, k) /\ \A j \in 1 .. k - 1 : Taken(b, j)
<1>1. Len(recency) \in Nat /\ DOMAIN recency = 1 .. Len(recency)
  BY LenProperties
<1> DEFINE L == Len(recency)
           T == {k \in 1 .. L + 1 : ~Taken(b, k)}
<1>2. T # {}
  <2> SUFFICES ASSUME \A k \in 1 .. L + 1 : Taken(b, k) PROVE FALSE
    OBVIOUS
  <2> DEFINE g == [k \in 1 .. L + 1 |-> CHOOSE i \in 1 .. L : name[recency[i]] = <<b, k>>]
  <2>1. ASSUME NEW k \in 1 .. L + 1
        PROVE  g[k] \in 1 .. L /\ name[recency[g[k]]] = <<b, k>>
    <3>1. \E i \in 1 .. L : name[recency[i]] = <<b, k>>
      BY <1>1 DEF Taken, Members, ToSet
    <3> QED
      BY <3>1
  <2>2. g \in [1 .. L + 1 -> 1 .. L]
    BY <2>1
  <2>3. /\ IsFiniteSet(1 .. L) /\ IsFiniteSet(1 .. L + 1)
        /\ Cardinality(1 .. L) < Cardinality(1 .. L + 1)
    <3>1. L \in Int /\ L + 1 \in Int /\ 1 \in Int /\ L \in Nat
      BY <1>1
    <3>2. /\ IsFiniteSet(1 .. L) /\ Cardinality(1 .. L) = IF 1 > L THEN 0 ELSE L - 1 + 1
          /\ IsFiniteSet(1 .. L + 1) /\ Cardinality(1 .. L + 1) = IF 1 > L + 1 THEN 0 ELSE L + 1 - 1 + 1
      BY <3>1, FS_Interval
    <3> HIDE DEF L
    <3> QED
      BY <3>1, <3>2
  <2> HIDE DEF g
  <2>4. PICK x, y \in 1 .. L + 1 : x # y /\ g[x] = g[y]
    BY <2>2, <2>3, FS_PigeonHole
  <2>5. <<b, x>> = <<b, y>>
    BY <2>1, <2>4
  <2> QED
    BY <2>4, <2>5
<1>3. T \subseteq Nat
  BY <1>1
<1>4. PICK k \in T : \A j \in T : ~(<<j, k>> \in OpToRel(<, Nat))
  <2> HIDE DEF T
  <2> QED
    BY <1>2, <1>3, NatLessThanWellFounded, WFMin
<1>5. \A j \in T : ~(j < k)
  BY <1>3, <1>4 DEF OpToRel
<1>6. \A j \in 1 .. k - 1 : j \in 1 .. L + 1 /\ j < k
  BY <1>1
<1> QED
  BY <1>5, <1>6

\* A connection is named like no other (handleRegister, auto-suffix).
LEMMA FreeNameIsFree ==
  ASSUME recency \in Seq(Plugins), NEW p \in Plugins
  PROVE  /\ FreeName(p) \in Names
         /\ \A q \in Members : name[q] # FreeName(p)
<1> DEFINE b == BaseOf[CwdOf[p]]
           k == CHOOSE m \in 1 .. Len(recency) + 1 :
                   ~Taken(b, m) /\ \A j \in 1 .. m - 1 : Taken(b, j)
<1>1. k \in 1 .. Len(recency) + 1 /\ ~Taken(b, k)
  BY FreeNumber
<1>2. FreeName(p) = <<b, k>>
  BY DEF FreeName
<1>3. k \in Nat
  BY <1>1, LenProperties
<1> HIDE DEF k
<1>4. <<b, k>> \in Names
  BY <1>3 DEF Names
<1>5. \A q \in Members : name[q] # <<b, k>>
  BY <1>1 DEF Taken
<1> QED
  BY <1>2, <1>4, <1>5
-----------------------------------------------------------------------------
(* The registry is sound *)

MembersNamed == \A p \in Members : name[p] \in Names

\* What holds even while a shutdown has closed connections that are still listed.
Coherent ==
    /\ TypeOK /\ NamesUnique /\ MembersNamed
    /\ \A p \in Plugins : /\ conn[p] = "registered" => p \in Members
                          /\ conn[p] = "accepted" => p \notin Members

\* The inductive invariant: what RegistrySound says but for the cap, and that
\* members have names.
Sound == TypeOK /\ NamesUnique /\ ListedAreOpen /\ MembersNamed

LEMMA SoundIsCoherent == Sound <=> Coherent /\ ListedAreOpen
BY DEF Sound, Coherent, ListedAreOpen

Listing == recency \in Seq(Plugins) /\ Distinct(recency)

LEMMA TypeLists == TypeOK => Listing /\ Members \subseteq Plugins
<1> SUFFICES ASSUME TypeOK PROVE Listing /\ Members \subseteq Plugins
  OBVIOUS
<1>1. Listing
  BY DEF TypeOK, Listing, Distinct
<1>2. \A i \in DOMAIN recency : recency[i] \in Plugins
  BY <1>1, LenProperties, ElementOfSeq DEF Listing
<1> QED
  BY <1>1, <1>2 DEF Members, ToSet

\* The changes that remove members: the others keep names and connections.
LEMMA RemovalKeepsCoherent ==
  ASSUME Coherent, NEW gone, Listing', Members' = Members \ gone,
         alive' = alive, up' = up,
         conn' \in [Plugins -> {"none", "accepted", "registered", "closed"}],
         \A q \in Plugins : /\ conn'[q] = "registered" => conn[q] = "registered" /\ q \notin gone
                            /\ conn'[q] = "accepted" => conn[q] = "accepted",
         name' = Unnamed(name, gone) \/ name' = name
  PROVE  Coherent'
<1>1. \A q \in Plugins : /\ name'[q] \in Names \cup {NoName}
                         /\ q \notin gone => name'[q] = name[q]
  BY DEF Unnamed, Coherent, TypeOK
<1>2. name' \in [Plugins -> Names \cup {NoName}]
  BY <1>1 DEF Unnamed, Coherent, TypeOK
<1>3. Members \subseteq Plugins
  BY TypeLists DEF Coherent
<1>4. \A q \in Members' : name'[q] = name[q] /\ q \in Members
  BY <1>1, <1>3
<1>5. TypeOK'
  BY <1>2 DEF Coherent, TypeOK, Listing, Distinct
<1>6. NamesUnique' /\ MembersNamed'
  BY <1>4 DEF Coherent, NamesUnique, MembersNamed
<1> QED
  BY <1>5, <1>6 DEF Coherent

\* What a registration does: the newcomer enters, and the evicted leave with
\* their names and connections (handleRegister, evictTo).
LEMMA RegisterStep ==
  ASSUME Coherent, NEW p \in Plugins, HandleRegister(p)
  PROVE  /\ p \notin Members
         /\ Listing' /\ Members' \subseteq Members \cup {p}
         /\ (Trim <= Cap /\ CapHolds) => CapHolds'
         /\ alive' = alive /\ up' = up
         /\ conn' \in [Plugins -> {"none", "accepted", "registered", "closed"}]
         /\ name' \in [Plugins -> Names \cup {NoName}]
         /\ \A q \in Plugins : /\ conn'[q] = "registered" => q \in Members'
                               /\ conn'[q] = "accepted" => q \notin Members'
         /\ ListedAreOpen => ListedAreOpen'
         /\ \A q \in Members' :
               name'[q] = IF q = p THEN FreeName(p) ELSE name[q]
<1>1. p \notin Members /\ conn[p] = "accepted"
  BY DEF HandleRegister, Coherent
<1>2. Listing /\ Members \subseteq Plugins
  BY TypeLists DEF Coherent
<1> DEFINE all  == Append(recency, p)
           kept == IF Len(all) > Cap THEN EvictTo(all) ELSE all
           gone == ToSet(all) \ ToSet(kept)
<1>3. /\ name' = Unnamed([name EXCEPT ![p] = FreeName(p)], gone)
      /\ conn' = Shut([conn EXCEPT ![p] = "registered"], gone)
      /\ recency' = kept
      /\ alive' = alive /\ up' = up
  BY DEF HandleRegister
<1>4. /\ all \in Seq(Plugins) /\ Len(all) = Len(recency) + 1
      /\ Distinct(all)
      /\ ToSet(all) = Members \cup {p}
  BY <1>1, <1>2, ExtensionOfList DEF Listing, Members
<1>5. /\ EvictTo(all) \in Seq(Plugins) /\ Distinct(EvictTo(all))
      /\ ToSet(EvictTo(all)) \subseteq ToSet(all)
      /\ Len(EvictTo(all)) <= Len(all)
      /\ Len(all) > Trim => Len(EvictTo(all)) = Trim
  BY <1>4, EvictionOfList
<1> HIDE DEF all
<1>6. kept \in Seq(Plugins) /\ Distinct(kept) /\ ToSet(kept) \subseteq ToSet(all)
  BY <1>4, <1>5
<1>7. Trim <= Cap => Len(kept) <= Cap
  <2>1. Len(all) \in Nat /\ Len(EvictTo(all)) \in Nat
    BY <1>4, <1>5, LenProperties
  <2> QED
    BY <1>5, <2>1, CapTypes
<1> HIDE DEF kept
<1>8. Listing' /\ Members' = ToSet(kept)
  BY <1>3, <1>6 DEF Listing, Members
<1>9. \A q \in Plugins :
         /\ q \in gone => name'[q] = NoName
         /\ q \notin gone => name'[q] = IF q = p THEN FreeName(p) ELSE name[q]
  BY <1>3 DEF Unnamed, Coherent, TypeOK
<1>10. FreeName(p) \in Names
  BY <1>2, FreeNameIsFree DEF Listing
<1>11. name' \in [Plugins -> Names \cup {NoName}]
  BY <1>3, <1>9, <1>10 DEF Unnamed, Coherent, TypeOK
<1> DEFINE open == [conn EXCEPT ![p] = "registered"]
<1>12. \A q \in Plugins : /\ open[q] = IF q = p THEN "registered" ELSE conn[q]
                          /\ open[q] \in {"none", "accepted", "registered", "closed"}
  BY DEF Coherent, TypeOK
<1>13. \A q \in Plugins :
          conn'[q] = IF q \in gone /\ open[q] = "registered" THEN "closed" ELSE open[q]
  BY <1>3 DEF Shut
<1>14. conn' \in [Plugins -> {"none", "accepted", "registered", "closed"}]
  <2>1. conn' = [q \in Plugins |-> conn'[q]]
    BY <1>3 DEF Shut
  <2> HIDE DEF open
  <2> QED
    BY <2>1, <1>12, <1>13
<1>15. ASSUME NEW q \in Plugins
       PROVE  /\ conn'[q] = "registered" => q \in Members'
              /\ conn'[q] = "accepted" => q \notin Members'
              /\ ListedAreOpen /\ q \in Members' => conn'[q] = "registered"
  <2>1. /\ open[q] = "registered" => q \in ToSet(all)
        /\ open[q] = "accepted" => q \notin ToSet(all)
        /\ ListedAreOpen /\ q \in ToSet(all) => open[q] = "registered"
    BY <1>4, <1>12 DEF Coherent, ListedAreOpen
  <2>2. q \in Members' <=> q \in ToSet(all) /\ q \notin gone
    BY <1>6, <1>8
  <2> HIDE DEF open, gone
  <2> QED
    BY <1>13, <2>1, <2>2
<1>16. ASSUME NEW q \in Members'
       PROVE  name'[q] = IF q = p THEN FreeName(p) ELSE name[q]
  <2>1. q \in ToSet(kept) /\ q \in Plugins /\ q \notin gone
    BY <1>2, <1>4, <1>6, <1>8
  <2> HIDE DEF gone
  <2> QED
    BY <2>1, <1>9
<1>17. Trim <= Cap => CapHolds'
  BY <1>3, <1>7, <1>8 DEF CapHolds, Cap, ReadEnvInt
<1>18. Members' \subseteq Members \cup {p}
  BY <1>4, <1>6, <1>8
<1>19. ListedAreOpen => ListedAreOpen'
  BY <1>15 DEF ListedAreOpen
<1> QED
  BY <1>1, <1>3, <1>8, <1>11, <1>14, <1>15, <1>16, <1>17, <1>18, <1>19

LEMMA RegisterKeepsCoherent ==
  ASSUME Coherent, NEW p \in Plugins, HandleRegister(p)
  PROVE  Coherent'
<1>1. /\ p \notin Members
      /\ Listing' /\ Members' \subseteq Members \cup {p}
      /\ alive' = alive /\ up' = up
      /\ conn' \in [Plugins -> {"none", "accepted", "registered", "closed"}]
      /\ name' \in [Plugins -> Names \cup {NoName}]
      /\ \A q \in Plugins : /\ conn'[q] = "registered" => q \in Members'
                            /\ conn'[q] = "accepted" => q \notin Members'
      /\ \A q \in Members' : name'[q] = IF q = p THEN FreeName(p) ELSE name[q]
  BY RegisterStep
<1>2. FreeName(p) \in Names /\ \A q \in Members : name[q] # FreeName(p)
  BY TypeLists, FreeNameIsFree DEF Coherent, Listing
<1>3. TypeOK'
  BY <1>1 DEF Coherent, TypeOK, Listing, Distinct
<1>4. NamesUnique'
  <2> SUFFICES ASSUME NEW q \in Members', NEW r \in Members', name'[q] = name'[r]
               PROVE  q = r
    BY DEF NamesUnique
  <2>1. CASE q = p \/ r = p
    BY <1>1, <1>2, <2>1
  <2>2. CASE q # p /\ r # p
    BY <1>1, <2>2 DEF Coherent, NamesUnique
  <2> QED
    BY <2>1, <2>2
<1>5. MembersNamed'
  BY <1>1, <1>2 DEF Coherent, MembersNamed
<1> QED
  BY <1>1, <1>3, <1>4, <1>5 DEF Coherent

\* What a close, a reap and a line do to the list.
LEMMA CloseStep ==
  ASSUME Coherent, NEW p \in Plugins, SocketCloses(p)
  PROVE  /\ Listing' /\ Members' = IF conn[p] = "registered" THEN Members \ {p} ELSE Members
         /\ Len(recency') <= Len(recency)
         /\ alive' = alive /\ up' = up
         /\ conn' = [conn EXCEPT ![p] = "none"]
         /\ IF conn[p] = "registered" THEN name' = Unnamed(name, {p}) ELSE name' = name
<1>1. Listing /\ (conn[p] = "registered" => p \in Members)
  BY TypeLists DEF Coherent
<1>2. Len(recency) \in Nat
  BY <1>1, LenProperties DEF Listing
<1>3. CASE conn[p] = "registered"
  <2>1. recency' = Without(recency, p) /\ name' = Unnamed(name, {p})
    BY <1>3 DEF SocketCloses
  <2>2. /\ Without(recency, p) \in Seq(Plugins) /\ Len(Without(recency, p)) = Len(recency) - 1
        /\ Distinct(Without(recency, p))
        /\ ToSet(Without(recency, p)) = ToSet(recency) \ {p}
    BY <1>1, <1>3, RemovalFromList DEF Listing, Members
  <2>3. Listing' /\ Members' = Members \ {p} /\ Len(recency') <= Len(recency)
    BY <1>2, <2>1, <2>2 DEF Listing, Members
  <2> QED
    BY <1>1, <1>3, <2>1, <2>3 DEF SocketCloses
<1>4. CASE conn[p] # "registered"
  <2>1. recency' = recency /\ name' = name
    BY <1>4 DEF SocketCloses
  <2>2. Listing' /\ Members' = Members /\ Len(recency') <= Len(recency)
    BY <1>1, <1>2, <1>4, <2>1 DEF Listing, Members
  <2> QED
    BY <1>1, <1>4, <2>1, <2>2 DEF SocketCloses
<1> QED
  BY <1>3, <1>4

LEMMA ReapStep ==
  ASSUME Coherent, NEW n \in 1 .. Len(recency), Reap(n)
  PROVE  /\ Listing' /\ Members' = Members \ Firsts(recency, n)
         /\ Len(recency') <= Len(recency)
         /\ alive' = alive /\ up' = up
         /\ conn' = Shut(conn, Firsts(recency, n))
         /\ name' = Unnamed(name, Firsts(recency, n))
         /\ Firsts(recency, n) \subseteq Members
<1>1. Listing
  BY TypeLists DEF Coherent
<1>2. Len(recency) \in Nat /\ DOMAIN recency = 1 .. Len(recency)
  BY <1>1, LenProperties DEF Listing
<1>3. /\ recency' = SubSeq(recency, n + 1, Len(recency))
      /\ conn' = Shut(conn, Firsts(recency, n)) /\ name' = Unnamed(name, Firsts(recency, n))
      /\ alive' = alive /\ up' = up
  BY DEF Reap, Firsts
<1>4. n \in 0 .. Len(recency)
  BY <1>2
<1>5. /\ recency' \in Seq(Plugins) /\ Len(recency') = Len(recency) - n
      /\ Distinct(recency')
      /\ ToSet(recency') = ToSet(recency) \ Firsts(recency, n)
  BY <1>1, <1>3, <1>4, SuffixOfList DEF Listing
<1>6. Len(recency') <= Len(recency)
  BY <1>2, <1>4, <1>5
<1>7. Firsts(recency, n) \subseteq Members
  BY <1>2 DEF Firsts, Members, ToSet
<1> QED
  BY <1>3, <1>5, <1>6, <1>7 DEF Listing, Members

LEMMA LineStep ==
  ASSUME Coherent, NEW p \in Plugins, HandleLine(p)
  PROVE  /\ p \in Members
         /\ Listing' /\ Members' = Members /\ Len(recency') = Len(recency)
         /\ UNCHANGED <<alive, up, conn, name>>
<1>1. Listing /\ p \in Members
  BY TypeLists DEF Coherent, HandleLine
<1> DEFINE s == Without(recency, p)
<1>2. /\ s \in Seq(Plugins) /\ Len(s) = Len(recency) - 1
      /\ Distinct(s)
      /\ ToSet(s) = Members \ {p}
  BY <1>1, RemovalFromList DEF Listing, Members
<1>3. recency' = Append(s, p) /\ UNCHANGED <<alive, up, conn, name>>
  BY DEF HandleLine
<1> HIDE DEF s
<1>4. /\ recency' \in Seq(Plugins) /\ Len(recency') = Len(s) + 1
      /\ Distinct(recency')
      /\ ToSet(recency') = ToSet(s) \cup {p}
  BY <1>2, <1>3, ExtensionOfList
<1>5. Len(recency) \in Nat
  BY <1>1, LenProperties DEF Listing
<1> QED
  BY <1>1, <1>2, <1>3, <1>4, <1>5 DEF Listing, Members

LEMMA RestartStep ==
  ASSUME DaemonRestarts
  PROVE  /\ Listing' /\ Members' = {} /\ Len(recency') = 0
         /\ alive' = alive /\ up' = up
         /\ conn' \in [Plugins -> {"none", "closed"}]
         /\ name' = [p \in Plugins |-> NoName]
<1>1. /\ recency' = <<>> /\ name' = Unnamed(name, Plugins) /\ alive' = alive /\ up' = up
      /\ conn' = [p \in Plugins |-> IF p \in up THEN "closed" ELSE "none"]
  BY DEF DaemonRestarts
<1>2. Listing' /\ Members' = {} /\ Len(recency') = 0
  BY <1>1, EmptySeq DEF Listing, Members, Distinct, ToSet
<1>3. name' = [p \in Plugins |-> NoName]
  BY <1>1 DEF Unnamed
<1> QED
  BY <1>1, <1>2, <1>3

\* The steps of a plugin, which do not touch the registry.  It connects once
\* the registry does not list it any more.
LEMMA PluginStepKeepsCoherent ==
  ASSUME Coherent, NEW p \in Plugins,
         \/ PluginStarts(p) \/ PluginSeesClose(p) \/ PluginExits(p)
         \/ PluginConnects(p) /\ p \notin Members
  PROVE  /\ Coherent'
         /\ Members' = Members /\ UNCHANGED <<name, recency>>
         /\ \A q \in Plugins : conn'[q] = "registered" <=> conn[q] = "registered"
         /\ ListedAreOpen => ListedAreOpen'
<1>1. UNCHANGED <<name, recency>> /\ Members' = Members
  BY DEF PluginStarts, PluginConnects, PluginSeesClose, PluginExits, Members
<1>2. alive' \subseteq Plugins /\ up' \subseteq alive'
  BY DEF PluginStarts, PluginConnects, PluginSeesClose, PluginExits, Coherent, TypeOK
<1>3. /\ conn' \in [Plugins -> {"none", "accepted", "registered", "closed"}]
      /\ \A q \in Plugins : conn'[q] = "registered" <=> conn[q] = "registered"
      /\ \A q \in Plugins : conn'[q] = "accepted" => q \notin Members
  BY DEF PluginStarts, PluginConnects, PluginSeesClose, PluginExits, Coherent, TypeOK
<1>4. TypeOK'
  BY <1>1, <1>2, <1>3 DEF Coherent, TypeOK
<1>5. NamesUnique' /\ MembersNamed'
  BY <1>1 DEF Coherent, NamesUnique, MembersNamed
<1>6. Coherent'
  BY <1>1, <1>3, <1>4, <1>5 DEF Coherent
<1> QED
  BY <1>1, <1>3, <1>6 DEF ListedAreOpen

LEMMA RegistryStepKeepsCoherent ==
  ASSUME Coherent, NEW p \in Plugins, HandleRegister(p) \/ HandleLine(p) \/ SocketCloses(p)
  PROVE  Coherent' /\ (ListedAreOpen => ListedAreOpen')
<1>1. CASE HandleRegister(p)
  BY <1>1, RegisterKeepsCoherent, RegisterStep
<1>2. CASE HandleLine(p)
  <2>1. Listing' /\ Members' = Members /\ UNCHANGED <<alive, up, conn, name>>
    BY <1>2, LineStep
  <2>2. TypeOK'
    BY <2>1 DEF Coherent, TypeOK, Listing, Distinct
  <2> QED
    BY <2>1, <2>2 DEF Coherent, NamesUnique, MembersNamed, ListedAreOpen
<1>3. CASE SocketCloses(p)
  <2> DEFINE gone == IF conn[p] = "registered" THEN {p} ELSE {}
  <2>1. /\ Listing' /\ Members' = Members \ gone
        /\ alive' = alive /\ up' = up
        /\ conn' = [conn EXCEPT ![p] = "none"]
        /\ name' = Unnamed(name, gone) \/ name' = name
    <3>1. /\ Listing' /\ Members' = IF conn[p] = "registered" THEN Members \ {p} ELSE Members
          /\ alive' = alive /\ up' = up
          /\ conn' = [conn EXCEPT ![p] = "none"]
          /\ IF conn[p] = "registered" THEN name' = Unnamed(name, {p}) ELSE name' = name
      BY <1>3, CloseStep
    <3> QED
      BY <3>1
  <2>2. \A q \in Plugins : conn'[q] = IF q = p THEN "none" ELSE conn[q]
    BY <2>1 DEF Coherent, TypeOK
  <2>3. conn' \in [Plugins -> {"none", "accepted", "registered", "closed"}]
    BY <2>1 DEF Coherent, TypeOK
  <2>4. \A q \in Plugins : /\ conn'[q] = "registered" => conn[q] = "registered" /\ q \notin gone
                           /\ conn'[q] = "accepted" => conn[q] = "accepted"
    BY <2>2
  <2>5. ListedAreOpen => ListedAreOpen'
    BY <2>1, <2>2 DEF ListedAreOpen
  <2> HIDE DEF gone
  <2> QED
    BY <2>1, <2>3, <2>4, <2>5, RemovalKeepsCoherent
<1> QED
  BY <1>1, <1>2, <1>3

LEMMA ReapKeepsCoherent ==
  ASSUME Coherent, NEW n \in 1 .. Len(recency), Reap(n)
  PROVE  Coherent' /\ (ListedAreOpen => ListedAreOpen')
<1> DEFINE gone == Firsts(recency, n)
<1>1. /\ Listing' /\ Members' = Members \ gone
      /\ alive' = alive /\ up' = up
      /\ conn' = Shut(conn, gone) /\ name' = Unnamed(name, gone)
  BY ReapStep
<1> HIDE DEF gone
<1>2. \A q \in Plugins :
         conn'[q] = IF q \in gone /\ conn[q] = "registered" THEN "closed" ELSE conn[q]
  BY <1>1 DEF Shut
<1>3. conn' \in [Plugins -> {"none", "accepted", "registered", "closed"}]
  BY <1>1, <1>2 DEF Shut, Coherent, TypeOK
<1>4. \A q \in Plugins : /\ conn'[q] = "registered" => conn[q] = "registered" /\ q \notin gone
                         /\ conn'[q] = "accepted" => conn[q] = "accepted"
  BY <1>2
<1>5. ListedAreOpen => ListedAreOpen'
  BY <1>1, <1>2 DEF ListedAreOpen
<1> QED
  BY <1>1, <1>3, <1>4, <1>5, RemovalKeepsCoherent

LEMMA RestartKeepsSound ==
  ASSUME Coherent, DaemonRestarts
  PROVE  Sound'
<1>1. /\ Listing' /\ Members' = {}
      /\ alive' = alive /\ up' = up
      /\ conn' \in [Plugins -> {"none", "closed"}]
      /\ name' = [p \in Plugins |-> NoName]
  BY RestartStep
<1>2. TypeOK'
  BY <1>1 DEF Coherent, TypeOK, Listing, Distinct
<1> QED
  BY <1>1, <1>2 DEF Sound, NamesUnique, MembersNamed, ListedAreOpen

\* The same, for a registry in which the listed connections are open.
LEMMA StepsKeepSound ==
  ASSUME Sound,
         \/ \E p \in Plugins :
               \/ PluginStarts(p) \/ PluginConnects(p) \/ PluginSeesClose(p) \/ PluginExits(p)
               \/ HandleRegister(p) \/ HandleLine(p) \/ SocketCloses(p)
         \/ \E n \in 1 .. Len(recency) : Reap(n)
         \/ DaemonRestarts
  PROVE  Sound'
<1>1. Coherent /\ ListedAreOpen
  BY SoundIsCoherent
<1>2. ASSUME Coherent' /\ (ListedAreOpen => ListedAreOpen') PROVE Sound'
  BY <1>1, <1>2 DEF Sound, Coherent
<1>3. ASSUME NEW p \in Plugins,
             PluginStarts(p) \/ PluginConnects(p) \/ PluginSeesClose(p) \/ PluginExits(p)
      PROVE  Sound'
  <2>1. PluginConnects(p) => p \notin Members
    BY <1>1 DEF PluginConnects, ListedAreOpen
  <2> QED
    BY <1>1, <1>2, <1>3, <2>1, PluginStepKeepsCoherent
<1>4. ASSUME NEW p \in Plugins, HandleRegister(p) \/ HandleLine(p) \/ SocketCloses(p)
      PROVE  Sound'
  BY <1>1, <1>2, <1>4, RegistryStepKeepsCoherent
<1>5. ASSUME NEW n \in 1 .. Len(recency), Reap(n) PROVE Sound'
  BY <1>1, <1>2, <1>5, ReapKeepsCoherent
<1>6. CASE DaemonRestarts
  BY <1>1, <1>6, RestartKeepsSound
<1> QED
  BY <1>3, <1>4, <1>5, <1>6

LEMMA InitSound == Init => Sound /\ CapHolds
<1> SUFFICES ASSUME Init PROVE Sound /\ CapHolds
  OBVIOUS
<1>1. recency \in Seq(Plugins) /\ Len(recency) = 0 /\ DOMAIN recency = {}
  BY EmptySeq DEF Init
<1>2. Members = {}
  BY <1>1 DEF Members, ToSet
<1>3. TypeOK
  BY <1>1 DEF Init, TypeOK
<1> QED
  BY <1>1, <1>2, <1>3, CapTypes
     DEF Init, Sound, CapHolds, NamesUnique, MembersNamed, ListedAreOpen

\* The steps of the registry keep it within its cap where the trim target is.
LEMMA StepsKeepCap ==
  ASSUME Coherent, Trim <= Cap, CapHolds,
         \/ UNCHANGED recency
         \/ \E p \in Plugins : HandleRegister(p) \/ HandleLine(p) \/ SocketCloses(p)
         \/ \E n \in 1 .. Len(recency) : Reap(n)
         \/ DaemonRestarts
  PROVE  CapHolds'
<1> USE DEF CapHolds
<1>1. Cap \in Nat /\ Cap' = Cap
  BY CapTypes DEF Cap, ReadEnvInt
<1>2. Len(recency) \in Nat
  BY TypeLists, LenProperties DEF Coherent, Listing
<1>3. CASE UNCHANGED recency
  BY <1>1, <1>3
<1>4. ASSUME NEW p \in Plugins, HandleRegister(p) \/ HandleLine(p) \/ SocketCloses(p)
      PROVE  CapHolds'
  <2>1. CASE HandleRegister(p)
    BY <2>1, RegisterStep
  <2>2. CASE HandleLine(p)
    BY <1>1, <2>2, LineStep
  <2>3. CASE SocketCloses(p)
    <3>1. Listing' /\ Len(recency') <= Len(recency)
      BY <2>3, CloseStep
    <3>2. Len(recency') \in Nat
      BY <3>1, LenProperties DEF Listing
    <3> QED
      BY <1>1, <1>2, <3>1, <3>2
  <2> QED
    BY <1>4, <2>1, <2>2, <2>3
<1>5. ASSUME NEW n \in 1 .. Len(recency), Reap(n)
      PROVE  CapHolds'
  <2>1. Listing' /\ Len(recency') <= Len(recency)
    BY <1>5, ReapStep
  <2>2. Len(recency') \in Nat
    BY <2>1, LenProperties DEF Listing
  <2> QED
    BY <1>1, <1>2, <2>1, <2>2
<1>6. CASE DaemonRestarts
  BY <1>1, <1>6, RestartStep
<1> QED
  BY <1>3, <1>4, <1>5, <1>6

LEMMA StepSound == Sound /\ [Next]_vars => Sound'
<1> SUFFICES ASSUME Sound, [Next]_vars PROVE Sound'
  OBVIOUS
<1>1. CASE Next
  BY <1>1, StepsKeepSound DEF Next
<1>2. CASE UNCHANGED vars
  BY <1>2 DEF vars, Sound, TypeOK, NamesUnique, ListedAreOpen, MembersNamed, Members, Names
<1> QED
  BY <1>1, <1>2

LEMMA StepCap == Sound /\ Trim <= Cap /\ CapHolds /\ [Next]_vars => CapHolds'
<1> SUFFICES ASSUME Sound, Trim <= Cap, CapHolds, [Next]_vars PROVE CapHolds'
  OBVIOUS
<1>1. \/ UNCHANGED recency
      \/ \E p \in Plugins : HandleRegister(p) \/ HandleLine(p) \/ SocketCloses(p)
      \/ \E n \in 1 .. Len(recency) : Reap(n)
      \/ DaemonRestarts
  BY DEF Next, vars, PluginStarts, PluginConnects, PluginSeesClose, PluginExits
<1> QED
  BY <1>1, SoundIsCoherent, StepsKeepCap

\* Whatever the environment says: a name belongs to one live connection, and the
\* registry lists the open registered connections and no other
\* (socket-server.ts:302-306, registry.ts:92-146, 171-201).
THEOREM NamesBelongToOne == Spec => [](TypeOK /\ NamesUnique /\ ListedAreOpen)
<1>1. Init => Sound
  BY InitSound
<1>2. Sound => TypeOK /\ NamesUnique /\ ListedAreOpen
  BY DEF Sound
<1> QED
  BY <1>1, <1>2, StepSound, PTL DEF Spec

\* Where the trim target is within the cap, the registry holds at most its cap
\* too (README.md:287).  The assumption is needed: a default trim target is not
\* compared with a cap that is set below it, which the run registry_lowcap shows.
THEOREM RegistryIsSound == ASSUME Trim <= Cap PROVE Spec => []RegistrySound
<1>1. Init => Sound /\ CapHolds
  BY InitSound
<1>2. Sound /\ CapHolds /\ [Next]_vars => (Sound /\ CapHolds)'
  BY StepSound, StepCap
<1>3. Sound /\ CapHolds => RegistrySound
  BY DEF Sound, RegistrySound
<1> QED
  BY <1>1, <1>2, <1>3, PTL DEF Spec

\* A trim target that is set in the range, or a cap that is not below the default
\* one, is enough.
LEMMA TrimWithinCap ==
  ASSUME \/ TrimEnv # Unset /\ CapMin <= TrimEnv /\ TrimEnv <= Cap
         \/ DefaultTrim <= Cap
  PROVE  Trim <= Cap
<1>1. CASE TrimEnv # Unset /\ CapMin <= TrimEnv /\ TrimEnv <= Cap
  BY <1>1 DEF Trim, ReadEnvInt
<1>2. CASE DefaultTrim <= Cap
  BY <1>2 DEF Trim, ReadEnvInt
<1> QED
  BY <1>1, <1>2
=============================================================================
