---------------------------- MODULE AccessProofs ----------------------------
(***************************************************************************)
(* Proofs about Access, for every set of senders, channels, codes and      *)
(* commands, every limit and every setting: type correctness, what becomes *)
(* of changes when processes overlap, the limits of pairing, the gate and  *)
(* the greeting.                                                           *)
(***************************************************************************)
EXTENDS Access, FiniteSetTheorems, TLAPS

Procs == Clis \cup {Daemon}

Fields == {"phase", "next", "means", "missed", "arg", "due"}

\* The phases in which a process has read the file and is about to write or decide.
Holding == {"pruning", "gating", "writing"}

\* Which phases process p passes, and what it carries in them.
RecordOK(p, r) ==
    /\ DOMAIN r = Fields
    /\ IsAccess(r.next) /\ r.means \subseteq Items /\ r.missed \subseteq Items
    /\ r.due \in {"letIn", "putBack", "refused"}
    /\ p = Daemon =>
          /\ r.phase \in {"none", "pruning", "gating"}
          /\ r.arg \in Message \cup {None}
          /\ r.phase # "none" => r.arg \in Message
          /\ r.phase = "gating" => r.means = {}
    /\ p \in Clis =>
          /\ r.phase \in {"none", "writing", "written", "created", "over"}
          /\ r.arg \in Senders \cup {None}
          /\ r.phase \in {"written", "created"} => r.arg \in Senders

Shape == DOMAIN proc = Procs /\ \A p \in Procs : RecordOK(p, proc[p])

\* The limits of an access: codes, and codes of one sender.
Small(a) ==
    /\ IsFiniteSet(PendingIn(a)) /\ Cardinality(PendingIn(a)) <= MaxPending
    /\ \A c, d \in PendingIn(a) : a[c].from = a[d].from => c = d

\* What a process holds is the file but for what it means or missed, its codes
\* were sent and those it means are to go, and it keeps the limits.
Consistent(r) ==
    r.phase \in Holding =>
        /\ \A i \in Items \ (r.means \cup r.missed) : r.next[i] = file[i]
        /\ \A c \in Codes : c \in r.means => r.next[c] = None /\ told[c] > 0
        /\ \A c \in Codes : r.next[c] # None => told[c] > 0
        /\ Small(r.next)

Held == \A p \in Procs : Consistent(proc[p])

\* A code that is on file or used was sent.
Drawn == \A c \in Codes : file[c] # None \/ c \in spent => told[c] > 0

\* The replies on record are those that were sent.
Counted ==
    \A c \in Codes \ loose : /\ file[c] # None => file[c].replies = told[c]
                             /\ told[c] <= 2

\* From the first read on a message that the gate lets in was to be let in, or a
\* write had put back what the gate goes by.
Judged ==
    LET d == proc[Daemon]
    IN  (d.phase # "none" /\ Admits(d.next, d.arg)) => d.due # "refused"

\* Whoever is about to make the sender's file has paired it.
ApprovedLast == \A p \in Clis : proc[p].phase \in {"written", "created"} => proc[p].arg \in paired

\* The inductive invariant.  AsAsked needs Held, that an unwritten access differs
\* from the file only where its process means it or missed a change; the limit of
\* two replies needs Drawn, that a code cannot come back once it was sent.
IInv ==
    /\ TypeOK /\ Shape
    /\ Held /\ AsAsked
    /\ Drawn /\ Counted /\ Small(file)
    /\ Judged
    /\ ApprovedLast /\ GreetedWasPaired

-----------------------------------------------------------------------------
(* Accesses *)

\* The items of an access are of the kinds they are.
LEMMA ItemKinds ==
    /\ "dm" \in Items /\ "guild" \in Items
    /\ Senders \subseteq Items /\ Channels \subseteq Items /\ Codes \subseteq Items
BY DEF Items

LEMMA SetCode ==
  ASSUME NEW a, IsAccess(a), NEW c \in Codes, NEW v \in Pending \cup {None}
  PROVE  IsAccess([a EXCEPT ![c] = v])
BY DistinctAssumption, ItemKinds DEF IsAccess

LEMMA SetSender ==
  ASSUME NEW a, IsAccess(a), NEW s \in Senders, NEW v \in BOOLEAN
  PROVE  IsAccess([a EXCEPT ![s] = v])
BY DistinctAssumption, ItemKinds DEF IsAccess

LEMMA SetChannel ==
  ASSUME NEW a, IsAccess(a), NEW ch \in Channels, NEW v \in Group \cup {None}
  PROVE  IsAccess([a EXCEPT ![ch] = v])
BY DistinctAssumption, ItemKinds DEF IsAccess

LEMMA SetDm ==
  ASSUME NEW a, IsAccess(a), NEW v \in Modes
  PROVE  IsAccess([a EXCEPT !["dm"] = v])
BY DistinctAssumption, PoliciesAssumption, ItemKinds DEF IsAccess

\* Pruning sets expired codes to None and changes nothing else.
LEMMA PrunedItems ==
  ASSUME NEW a, IsAccess(a)
  PROVE  /\ IsAccess(Pruned(a))
         /\ Outdated(a) \subseteq Codes
         /\ \A c \in Outdated(a) : a[c] # None /\ Pruned(a)[c] = None
         /\ \A i \in Items \ Outdated(a) : Pruned(a)[i] = a[i]
<1>1. Outdated(a) \subseteq Codes /\ \A c \in Outdated(a) : a[c] # None
  BY DEF Outdated, PendingIn
<1>2. /\ DOMAIN Pruned(a) = Items
      /\ \A c \in Outdated(a) : Pruned(a)[c] = None
      /\ \A i \in Items \ Outdated(a) : Pruned(a)[i] = a[i]
  BY <1>1, ItemKinds DEF Pruned
<1>3. IsAccess(Pruned(a))
  BY <1>1, <1>2, DistinctAssumption, ItemKinds DEF IsAccess
<1> QED
  BY <1>1, <1>2, <1>3

LEMMA DefaultIsAccess ==
    /\ IsAccess(Default)
    /\ \A c \in Codes : Default[c] = None
<1>1. /\ DOMAIN Default = Items /\ Default["dm"] = "pairing" /\ Default["guild"] = "open"
  BY ItemKinds, DistinctAssumption DEF Default
<1>2. \A s \in Senders : Default[s] = FALSE
  BY ItemKinds, DistinctAssumption DEF Default
<1>3. \A i \in Channels \cup Codes : Default[i] = None
  BY ItemKinds, DistinctAssumption DEF Default
<1> QED
  BY <1>1, <1>2, <1>3 DEF IsAccess

\* Fewer codes keep the limits.
LEMMA SmallLess ==
  ASSUME NEW a, Small(a), NEW b, \A c \in Codes : b[c] # None => b[c] = a[c]
  PROVE  Small(b)
<1>1. PendingIn(b) \subseteq PendingIn(a) /\ \A c \in PendingIn(b) : b[c] = a[c]
  BY DEF PendingIn
<1>2. IsFiniteSet(PendingIn(b)) /\ Cardinality(PendingIn(b)) <= Cardinality(PendingIn(a))
  BY <1>1, FS_Subset DEF Small
<1>3. Cardinality(PendingIn(b)) \in Nat /\ Cardinality(PendingIn(a)) \in Nat
  BY <1>2, FS_CardinalityType DEF Small
<1> QED
  BY <1>1, <1>2, <1>3, BoundsAssumption DEF Small

\* So does the answer of the gate.
LEMMA SmallPairs ==
  ASSUME NEW a, IsAccess(a), Small(a), NEW m, NEW c \in Codes, NEW n, Pairs(a, m, c)
  PROVE  Small([a EXCEPT ![c] = [from |-> m.from, replies |-> n]])
<1> DEFINE b == [a EXCEPT ![c] = [from |-> m.from, replies |-> n]]
           own == {d \in PendingIn(a) : a[d].from = m.from}
<1>1. b[c].from = m.from /\ \A d \in Codes \ {c} : b[d] = a[d]
  BY ItemKinds DEF IsAccess
<1>2. PendingIn(b) \subseteq PendingIn(a) \cup {c} /\ PendingIn(b) \subseteq Codes
  BY <1>1 DEF PendingIn
<1>3. Cardinality(PendingIn(a)) \in Nat /\ MaxPending \in Nat
  BY FS_CardinalityType, BoundsAssumption DEF Small
<1> SUFFICES Small(b)
  OBVIOUS
<1> HIDE DEF b
<1>4. CASE c \in own
  <2>1. PendingIn(b) \subseteq PendingIn(a) /\ a[c].from = m.from /\ c \in PendingIn(a)
    BY <1>2, <1>4
  <2>2. IsFiniteSet(PendingIn(b)) /\ Cardinality(PendingIn(b)) <= Cardinality(PendingIn(a))
    BY <2>1, FS_Subset DEF Small
  <2>3. Cardinality(PendingIn(b)) \in Nat
    BY <2>2, FS_CardinalityType
  <2>4. \A d \in PendingIn(b) : d \in PendingIn(a) /\ b[d].from = a[d].from
    BY <1>1, <1>2, <2>1
  <2>5. \A d, e \in PendingIn(b) : b[d].from = b[e].from => d = e
    BY <2>4 DEF Small
  <2>6. Cardinality(PendingIn(b)) <= MaxPending
    BY <1>3, <2>2, <2>3 DEF Small
  <2> QED
    BY <2>2, <2>5, <2>6 DEF Small
<1>5. CASE own = {} /\ Cardinality(PendingIn(a)) < MaxPending
  <2>0. IsFiniteSet(PendingIn(a) \cup {c})
        /\ Cardinality(PendingIn(a) \cup {c}) =
              IF c \in PendingIn(a) THEN Cardinality(PendingIn(a)) ELSE Cardinality(PendingIn(a)) + 1
    <3>1. IsFiniteSet(PendingIn(a))
      BY DEF Small
    <3> QED
      BY <3>1, FS_AddElement
  <2>1. IsFiniteSet(PendingIn(a) \cup {c})
        /\ Cardinality(PendingIn(a) \cup {c}) <= Cardinality(PendingIn(a)) + 1
    BY <1>3, <2>0
  <2>2. IsFiniteSet(PendingIn(b))
        /\ Cardinality(PendingIn(b)) <= Cardinality(PendingIn(a) \cup {c})
    BY <1>2, <2>1, FS_Subset
  <2>3. Cardinality(PendingIn(b)) \in Nat /\ Cardinality(PendingIn(a) \cup {c}) \in Nat
    BY <2>1, <2>2, FS_CardinalityType
  <2>4. Cardinality(PendingIn(b)) <= MaxPending
    BY <1>3, <1>5, <2>1, <2>2, <2>3
  <2>5. \A d \in PendingIn(b) \ {c} : d \in PendingIn(a) /\ b[d] = a[d] /\ a[d].from # m.from
    BY <1>1, <1>2, <1>5
  <2>6. \A d, e \in PendingIn(b) : b[d].from = b[e].from => d = e
    BY <1>1, <2>5 DEF Small
  <2> QED
    BY <2>2, <2>4, <2>6 DEF Small
<1> QED
  BY <1>4, <1>5 DEF Pairs

-----------------------------------------------------------------------------
(* Steps *)

\* A process that is idle or done holds nothing.
LEMMA AtRest ==
  ASSUME NEW p \in Procs
  PROVE  /\ RecordOK(p, Idle) /\ Consistent(Idle) /\ Idle.phase = "none"
         /\ p \in Clis => RecordOK(p, Over) /\ Consistent(Over) /\ Over.phase = "over"
<1>1. /\ DOMAIN Idle = Fields /\ Idle.phase = "none" /\ Idle.next = Default /\ Idle.means = {}
      /\ Idle.missed = {} /\ Idle.arg = None /\ Idle.due = "letIn"
  BY DEF Idle, Fields
<1>2. /\ DOMAIN Over = Fields /\ Over.phase = "over" /\ Over.next = Default /\ Over.means = {}
      /\ Over.missed = {} /\ Over.arg = None /\ Over.due = "letIn"
  BY DEF Over, Idle, Fields
<1> QED
  BY <1>1, <1>2, DefaultIsAccess, NamesAssumption DEF RecordOK, Consistent, Holding

LEMMA InitIInv == Init => IInv
<1> SUFFICES ASSUME Init PROVE IInv
  OBVIOUS
<1>1. PICK g \in GroupPolicies :
         file = [i \in Items |-> IF i = "guild" THEN g
                                 ELSE IF i \in Allowed THEN TRUE ELSE Default[i]]
  BY DEF Init
<1>2. IsAccess(file) /\ \A c \in Codes : file[c] = None
  BY <1>1, ItemKinds, DefaultIsAccess, DistinctAssumption, NamesAssumption, PoliciesAssumption
     DEF IsAccess
<1>3. /\ expired = {} /\ spent = {} /\ loose = {} /\ paired = {} /\ restarts = 0 /\ asked = file
      /\ proc = [p \in Procs |-> Idle] /\ approved = [s \in Senders |-> "no"]
      /\ greeting = [s \in Senders |-> 0] /\ told = [c \in Codes |-> 0]
  BY DEF Init, Procs
<1>4. Shape /\ Held
  BY <1>3, AtRest DEF Shape, Held
<1>5. TypeOK
  BY <1>2, <1>3, <1>4, BoundsAssumption, AtRest DEF TypeOK, Shape, RecordOK, Procs
<1>6. Small(file)
  <2>1. PendingIn(file) = {}
    BY <1>2 DEF PendingIn
  <2> QED
    BY <2>1, FS_EmptySet, BoundsAssumption DEF Small
<1>7. AsAsked /\ Drawn /\ Counted
  BY <1>2, <1>3 DEF AsAsked, Drawn, Counted
<1>8. Judged /\ ApprovedLast /\ GreetedWasPaired
  BY <1>3, AtRest DEF Judged, ApprovedLast, GreetedWasPaired, Procs
<1> QED
  BY <1>4, <1>5, <1>6, <1>7, <1>8 DEF IInv

\* A step of p that leaves the file alone.
LEMMA GoesKeeps ==
  ASSUME IInv, NEW p \in Procs, NEW after, Goes(p, after), RecordOK(p, after), Consistent(after),
         told' = told, spent' = spent
  PROVE  /\ Shape' /\ Held' /\ AsAsked' /\ Drawn' /\ Counted' /\ Small(file)'
         /\ proc'[p] = after /\ \A q \in Procs \ {p} : proc'[q] = proc[q]
<1>1. /\ DOMAIN proc' = Procs /\ proc'[p] = after /\ \A q \in Procs \ {p} : proc'[q] = proc[q]
      /\ file' = file /\ asked' = asked /\ loose' = loose
  BY DEF IInv, Shape, Goes
<1>2. Shape'
  BY <1>1 DEF IInv, Shape
<1>3. Held'
  <2> SUFFICES ASSUME NEW q \in Procs PROVE Consistent(proc[q])'
    BY DEF Held
  <2>1. CASE q = p
    BY <1>1, <2>1 DEF Consistent
  <2>2. CASE q # p
    BY <1>1, <2>2 DEF IInv, Held, Consistent
  <2> QED
    BY <2>1, <2>2
<1> QED
  BY <1>1, <1>2, <1>3 DEF IInv, AsAsked, Drawn, Counted, Small, PendingIn

\* A step of p that replaces the file: whoever read before is told what it missed.
LEMMA WriteKeeps ==
  ASSUME IInv, NEW p \in Procs, proc[p].phase \in Holding,
         NEW next, IsAccess(next), Small(next), NEW means \in SUBSET Items, NEW after,
         Write(p, next, means, after), RecordOK(p, after),
         \A i \in Items \ (means \cup proc[p].missed) : next[i] = file[i],
         \A c \in Codes : told[c] > 0 => told'[c] > 0,
         after.phase \in Holding => /\ after.next = next /\ after.means = {}
                                    /\ \A c \in Codes : next[c] # None => told'[c] > 0
  PROVE  /\ Shape' /\ Held' /\ Small(file)' /\ file' = next
         /\ IsAccess(asked') /\ loose' \subseteq Items
         /\ \A i \in Items \ loose' : file'[i] = asked'[i]
         /\ \A c \in Codes \ loose' : /\ c \notin loose /\ c \notin proc[p].missed
                                      /\ c \notin means => file'[c] = file[c]
         /\ proc'[p] = after
         /\ \A q \in Procs \ {p} : /\ proc'[q].phase = proc[q].phase /\ proc'[q].arg = proc[q].arg
                                   /\ proc'[q].next = proc[q].next /\ proc'[q].due = proc[q].due
<1> DEFINE touched == {i \in Items : next[i] # file[i]}
<1>1. /\ file' = next
      /\ asked' = [i \in Items |-> IF i \in means THEN next[i] ELSE asked[i]]
      /\ loose' = (loose \cup proc[p].missed) \ (means \ Codes)
      /\ proc' = [q \in DOMAIN proc |->
                    IF q = p THEN after
                    ELSE IF proc[q].phase \in {"pruning", "gating", "writing"}
                         THEN [proc[q] EXCEPT !.missed = @ \cup touched] ELSE proc[q]]
  BY DEF Write
<1>2. /\ DOMAIN proc = Procs /\ \A q \in Procs : DOMAIN proc[q] = Fields /\ RecordOK(q, proc[q])
      /\ IsAccess(file) /\ IsAccess(asked) /\ loose \subseteq Items
  BY DEF IInv, Shape, RecordOK, TypeOK
<1>3. DOMAIN proc' = Procs /\ proc'[p] = after
  BY <1>1, <1>2
<1>4. ASSUME NEW q \in Procs \ {p}
      PROVE  /\ DOMAIN proc'[q] = Fields
             /\ proc'[q].phase = proc[q].phase /\ proc'[q].arg = proc[q].arg
             /\ proc'[q].next = proc[q].next /\ proc'[q].due = proc[q].due
             /\ proc'[q].means = proc[q].means
             /\ proc'[q].missed \subseteq proc[q].missed \cup touched
             /\ proc[q].phase \in Holding => proc'[q].missed = proc[q].missed \cup touched
  <2>1. CASE proc[q].phase \in Holding
    <3>1. proc'[q] = [proc[q] EXCEPT !.missed = @ \cup touched]
      BY <1>1, <1>2, <2>1 DEF Holding
    <3> HIDE DEF touched
    <3> QED
      BY <1>2, <3>1 DEF Fields
  <2>2. CASE proc[q].phase \notin Holding
    <3>1. proc'[q] = proc[q]
      BY <1>1, <1>2, <2>2 DEF Holding
    <3> QED
      BY <1>2, <2>2, <3>1
  <2> QED
    BY <2>1, <2>2
<1>5. Shape'
  <2>1. ASSUME NEW q \in Procs \ {p} PROVE RecordOK(q, proc'[q])
    <3>1. RecordOK(q, proc[q]) /\ touched \subseteq Items
      BY <1>2
    <3> HIDE DEF touched
    <3> QED
      BY <1>4, <3>1 DEF RecordOK
  <2> QED
    BY <1>3, <2>1 DEF Shape
<1>6. Held'
  <2> SUFFICES ASSUME NEW q \in Procs, proc'[q].phase \in Holding PROVE Consistent(proc[q])'
    BY DEF Held, Consistent
  <2>1. CASE q = p
    BY <1>1, <1>3, <2>1 DEF Consistent
  <2>2. CASE q # p
    <3>1. /\ proc[q].phase \in Holding /\ Consistent(proc[q])
          /\ proc'[q].next = proc[q].next /\ proc'[q].means = proc[q].means
          /\ proc'[q].missed = proc[q].missed \cup touched
      BY <1>4, <2>2 DEF IInv, Held
    <3>2. \A i \in Items \ (proc'[q].means \cup proc'[q].missed) : proc'[q].next[i] = file'[i]
      BY <1>1, <3>1 DEF Consistent
    <3> HIDE DEF touched
    <3>3. /\ \A c \in Codes : c \in proc'[q].means => proc'[q].next[c] = None /\ told'[c] > 0
          /\ \A c \in Codes : proc'[q].next[c] # None => told'[c] > 0
          /\ Small(proc'[q].next)
      BY <3>1 DEF Consistent
    <3> QED
      BY <3>2, <3>3 DEF Consistent
  <2> QED
    BY <2>1, <2>2
<1>7. IsAccess(asked')
  <2>1. DOMAIN asked' = Items /\ \A i \in Items : asked'[i] = IF i \in means THEN next[i] ELSE asked[i]
    BY <1>1
  <2> QED
    BY <1>2, <2>1, ItemKinds DEF IsAccess
<1>8. \A i \in Items \ loose' : file'[i] = asked'[i]
  <2> SUFFICES ASSUME NEW i \in Items, i \notin loose' PROVE file'[i] = asked'[i]
    OBVIOUS
  <2>1. CASE i \in means
    BY <1>1, <2>1
  <2>2. CASE i \notin means
    <3>1. i \notin loose /\ i \notin proc[p].missed
      BY <1>1, <2>2
    <3>2. next[i] = file[i] /\ file[i] = asked[i]
      BY <2>2, <3>1 DEF IInv, AsAsked
    <3> QED
      BY <1>1, <2>2, <3>2
  <2> QED
    BY <2>1, <2>2
<1>9. \A c \in Codes \ loose' : /\ c \notin loose /\ c \notin proc[p].missed
                                /\ c \notin means => file'[c] = file[c]
  BY <1>1, ItemKinds
<1>10. loose' \subseteq Items
  BY <1>1, <1>2 DEF RecordOK
<1>11. Small(file)'
  BY <1>1 DEF Small, PendingIn
<1> HIDE DEF touched
<1> QED
  BY <1>1, <1>3, <1>4, <1>5, <1>6, <1>7, <1>8, <1>9, <1>10, <1>11

\* A write that draws no code.  The codes it means are gone, and may be spent.
LEMMA PlainWrite ==
  ASSUME IInv, NEW p \in Procs, proc[p].phase \in Holding, NEW after,
         Write(p, proc[p].next, proc[p].means, after), RecordOK(p, after),
         after.phase \in Holding => after.next = proc[p].next /\ after.means = {},
         told' = told, spent' \subseteq spent \cup (proc[p].means \cap Codes)
  PROVE  /\ Shape' /\ Held' /\ Small(file)' /\ IsAccess(file') /\ IsAccess(asked')
         /\ loose' \subseteq Items /\ AsAsked' /\ Drawn' /\ Counted'
         /\ proc'[p] = after
         /\ \A q \in Procs \ {p} : /\ proc'[q].phase = proc[q].phase /\ proc'[q].arg = proc[q].arg
                                   /\ proc'[q].next = proc[q].next /\ proc'[q].due = proc[q].due
<1> DEFINE next == proc[p].next
           means == proc[p].means
<1>1. /\ IsAccess(next) /\ means \in SUBSET Items
      /\ Small(next)
      /\ \A i \in Items \ (means \cup proc[p].missed) : next[i] = file[i]
      /\ \A c \in Codes : c \in means => next[c] = None /\ told[c] > 0
      /\ \A c \in Codes : next[c] # None => told[c] > 0
  BY DEF IInv, Shape, RecordOK, Held, Consistent
<1> HIDE DEF next, means
<1>2. /\ Shape' /\ Held' /\ Small(file)' /\ file' = next
      /\ IsAccess(asked') /\ loose' \subseteq Items
      /\ \A i \in Items \ loose' : file'[i] = asked'[i]
      /\ \A c \in Codes \ loose' : /\ c \notin loose /\ c \notin proc[p].missed
                                   /\ c \notin means => file'[c] = file[c]
      /\ proc'[p] = after
      /\ \A q \in Procs \ {p} : /\ proc'[q].phase = proc[q].phase /\ proc'[q].arg = proc[q].arg
                                /\ proc'[q].next = proc[q].next /\ proc'[q].due = proc[q].due
  <2>1. Write(p, next, means, after) /\ (after.phase \in Holding => after.next = next)
    BY DEF next, means
  <2>2. \A c \in Codes : told[c] > 0 => told'[c] > 0
    OBVIOUS
  <2> QED
    BY <1>1, <2>1, <2>2, WriteKeeps
<1>3. \A c \in Codes \ loose' : file'[c] # None => c \notin means /\ file'[c] = file[c]
  BY <1>1, <1>2
<1>4. AsAsked'
  <2>1. \A c \in spent' \ loose' : file'[c] = None
    <3> SUFFICES ASSUME NEW c \in spent', c \notin loose', file'[c] # None PROVE FALSE
      OBVIOUS
    <3>1. c \in Codes /\ c \notin loose
      BY <1>2 DEF IInv, TypeOK
    <3>2. c \notin means /\ file[c] # None
      BY <1>3, <3>1
    <3>3. c \in spent
      BY <3>2 DEF means
    <3> QED
      BY <3>1, <3>2, <3>3 DEF IInv, AsAsked
  <2> QED
    BY <1>2, <2>1 DEF AsAsked
<1>5. Drawn'
  BY <1>1, <1>2 DEF IInv, Drawn, means
<1>6. Counted'
  BY <1>2, <1>3 DEF IInv, Counted
<1> QED
  BY <1>1, <1>2, <1>4, <1>5, <1>6

\* What the shape of a record says of its types.
LEMMA RecordTypes ==
  ASSUME NEW p \in Procs, NEW r, RecordOK(p, r)
  PROVE  /\ r.phase \in {"none", "pruning", "gating", "writing", "written", "created", "over"}
         /\ IsAccess(r.next) /\ r.means \subseteq Items /\ r.missed \subseteq Items
         /\ r.arg \in Message \cup Senders \cup {None}
         /\ r.due \in {"letIn", "putBack", "refused"}
BY DEF RecordOK, Procs

\* The gate's answer depends on the items of Concerns.
LEMMA AdmitsSame ==
  ASSUME NEW a, NEW b, NEW m, Admits(a, m), \A i \in Concerns(m) : a[i] = b[i]
  PROVE  Admits(b, m)
<1>1. CASE m.chan = Dm
  BY <1>1 DEF Admits, Concerns
<1>2. CASE m.chan # Dm
  BY <1>2 DEF Admits, Concerns, PolicyFor
<1> QED
  BY <1>1, <1>2

LEMMA ReceiveIInv ==
  ASSUME IInv, NEW m \in Message, Receive(m)
  PROVE  IInv'
<1> DEFINE r == [phase |-> IF Outdated(file) = {} THEN "gating" ELSE "pruning",
                 next |-> Pruned(file), means |-> Outdated(file), missed |-> {}, arg |-> m,
                 due |-> Standing(m)]
<1>1. /\ Goes(Daemon, r) /\ Daemon \in Procs /\ IsAccess(file)
      /\ UNCHANGED <<expired, approved, greeting, told, spent, paired, restarts, file, asked, loose>>
  BY DEF Receive, Goes, Procs, IInv, TypeOK
<1>2. /\ DOMAIN r = Fields /\ r.next = Pruned(file) /\ r.means = Outdated(file) /\ r.missed = {}
      /\ r.arg = m
      /\ r.phase \in {"gating", "pruning"} /\ (r.phase = "gating" => Outdated(file) = {})
  BY DEF Fields
<1>d. r.due = Standing(m) /\ Standing(m) \in {"letIn", "putBack", "refused"}
  BY DEF Standing
<1> HIDE DEF r
<1>3. /\ IsAccess(Pruned(file)) /\ Outdated(file) \subseteq Codes
      /\ \A c \in Outdated(file) : file[c] # None /\ Pruned(file)[c] = None
      /\ \A i \in Items \ Outdated(file) : Pruned(file)[i] = file[i]
  BY <1>1, PrunedItems
<1>4. RecordOK(Daemon, r)
  <2>1. r.means \subseteq Items /\ r.missed \subseteq Items /\ Daemon \notin Clis
    BY <1>2, <1>3, ItemKinds, NamesAssumption
  <2>2. r.phase = "gating" => r.means = {}
    BY <1>2
  <2>3. r.arg \in Message /\ IsAccess(r.next)
    BY <1>2, <1>3
  <2> QED
    BY <1>2, <1>d, <2>1, <2>2, <2>3 DEF RecordOK
<1>5. Consistent(r)
  <2>1. \A c \in Codes : Pruned(file)[c] # None => Pruned(file)[c] = file[c] /\ file[c] # None
    BY <1>3, ItemKinds
  <2>2. Small(Pruned(file))
    BY <2>1, SmallLess DEF IInv
  <2> QED
    BY <1>2, <1>3, <2>1, <2>2 DEF IInv, Drawn, Consistent
<1>6. /\ Shape' /\ Held' /\ AsAsked' /\ Drawn' /\ Counted' /\ Small(file)'
      /\ proc'[Daemon] = r /\ \A q \in Procs \ {Daemon} : proc'[q] = proc[q]
  BY <1>1, <1>4, <1>5, GoesKeeps
<1>7. TypeOK'
  BY <1>1, <1>6, RecordTypes DEF IInv, TypeOK, Shape, Procs
<1>8. Judged'
  <2> SUFFICES ASSUME Admits(Pruned(file), m), Concerns(m) \cap loose = {}
               PROVE  Admits(asked, m)
    BY <1>1, <1>2, <1>d, <1>6 DEF Judged, Standing
  <2>1. Concerns(m) \subseteq Items \ Codes
    BY DistinctAssumption, ItemKinds DEF Concerns, Message
  <2>2. \A i \in Concerns(m) : Pruned(file)[i] = asked[i]
    BY <1>3, <2>1 DEF IInv, AsAsked
  <2> QED
    BY <2>2, AdmitsSame
<1>9. ApprovedLast' /\ GreetedWasPaired'
  BY <1>1, <1>6, NamesAssumption DEF IInv, ApprovedLast, GreetedWasPaired, Procs
<1> QED
  BY <1>6, <1>7, <1>8, <1>9 DEF IInv

LEMMA PruneIInv ==
  ASSUME IInv, PruneWritten
  PROVE  IInv'
<1> DEFINE d == proc[Daemon]
           after == [d EXCEPT !.phase = "gating", !.means = {}]
<1>1. /\ Write(Daemon, d.next, d.means, after) /\ d.phase = "pruning" /\ Daemon \in Procs
      /\ UNCHANGED <<expired, approved, greeting, told, spent, paired, restarts>>
  BY DEF PruneWritten, Procs
<1>2. RecordOK(Daemon, d)
  BY <1>1 DEF IInv, Shape
<1>3. /\ DOMAIN after = Fields /\ after.next = d.next /\ after.means = {} /\ after.missed = d.missed
      /\ after.arg = d.arg /\ after.due = d.due /\ after.phase = "gating"
  BY <1>2 DEF RecordOK, Fields
<1> HIDE DEF after
<1>4. RecordOK(Daemon, after)
  BY <1>1, <1>2, <1>3, NamesAssumption DEF RecordOK
<1>5. d.phase \in Holding
  BY <1>1 DEF Holding
<1>6. /\ Shape' /\ Held' /\ Small(file)' /\ IsAccess(file') /\ IsAccess(asked')
      /\ loose' \subseteq Items /\ AsAsked' /\ Drawn' /\ Counted'
      /\ proc'[Daemon] = after
      /\ \A q \in Procs \ {Daemon} :
            /\ proc'[q].phase = proc[q].phase /\ proc'[q].arg = proc[q].arg
            /\ proc'[q].next = proc[q].next /\ proc'[q].due = proc[q].due
  BY <1>1, <1>3, <1>4, <1>5, PlainWrite
<1>7. TypeOK'
  BY <1>1, <1>6, RecordTypes DEF IInv, TypeOK, Shape, Procs
<1>8. Judged'
  BY <1>1, <1>3, <1>6 DEF IInv, Judged
<1>9. ApprovedLast' /\ GreetedWasPaired'
  BY <1>1, <1>6, NamesAssumption DEF IInv, ApprovedLast, GreetedWasPaired, Procs
<1> QED
  BY <1>6, <1>7, <1>8, <1>9 DEF IInv

LEMMA GatedIInv ==
  ASSUME IInv, Gated
  PROVE  IInv'
<1> DEFINE d == proc[Daemon]
           m == d.arg
<1>1. /\ d.phase = "gating" /\ d.phase \in Holding /\ Daemon \in Procs /\ Daemon \notin Clis
      /\ UNCHANGED <<expired, approved, greeting, spent, paired, restarts>>
  BY NamesAssumption DEF Gated, Procs, Holding
<1>2. /\ IsAccess(d.next) /\ m \in Message /\ m.from \in Senders /\ d.means = {}
      /\ d.missed \subseteq Items
  BY <1>1 DEF IInv, Shape, RecordOK, Message
<1>3. /\ \A i \in Items \ d.missed : d.next[i] = file[i]
      /\ \A c \in Codes : d.next[c] # None => told[c] > 0
      /\ Small(d.next)
  BY <1>1, <1>2 DEF IInv, Held, Consistent
<1>4. RecordOK(Daemon, Idle) /\ Consistent(Idle) /\ Idle.phase = "none"
  BY <1>1, AtRest
<1>5. CASE Goes(Daemon, Idle) /\ told' = told
  <2>1. /\ Shape' /\ Held' /\ AsAsked' /\ Drawn' /\ Counted' /\ Small(file)'
        /\ proc'[Daemon] = Idle /\ \A q \in Procs \ {Daemon} : proc'[q] = proc[q]
    BY <1>1, <1>4, <1>5, GoesKeeps
  <2>2. TypeOK'
    BY <1>1, <1>5, <2>1, RecordTypes DEF IInv, TypeOK, Shape, Procs, Goes
  <2>3. Judged' /\ ApprovedLast' /\ GreetedWasPaired'
    BY <1>1, <1>4, <2>1 DEF IInv, Judged, ApprovedLast, GreetedWasPaired, Procs
  <2> QED
    BY <2>1, <2>2, <2>3 DEF IInv
<1>6. ASSUME NEW c \in Codes, NEW n,
             n = IF d.next[c] = None THEN 1 ELSE d.next[c].replies + 1,
             Pairs(d.next, m, c),
             Write(Daemon, [d.next EXCEPT ![c] = [from |-> m.from, replies |-> n]], {c}, Idle),
             told' = [told EXCEPT ![c] = @ + 1]
      PROVE  IInv'
  <2> DEFINE next == [d.next EXCEPT ![c] = [from |-> m.from, replies |-> n]]
  <2>1. told \in [Codes -> Nat]
    BY DEF IInv, TypeOK
  <2>2. /\ told' \in [Codes -> Nat] /\ told'[c] = told[c] + 1
        /\ \A e \in Codes \ {c} : told'[e] = told[e]
    BY <1>6, <2>1
  <2>3. \/ d.next[c] # None /\ d.next[c].replies < 2
        \/ d.next[c] = None /\ told[c] = 0
    BY <1>3, <1>6 DEF Pairs, PendingIn
  <2>4. n \in 1 .. 2
    <3>1. d.next[c] \in Pending \cup {None}
      BY <1>2 DEF IsAccess
    <3>2. CASE d.next[c] # None
      <4>1. d.next[c].replies \in 1 .. 2
        BY <3>1, <3>2 DEF Pending
      <4> QED
        BY <1>6, <2>3, <3>2, <4>1
    <3>3. CASE d.next[c] = None
      BY <1>6, <3>3
    <3> QED
      BY <3>2, <3>3
  <2>5. IsAccess(next)
    <3>1. [from |-> m.from, replies |-> n] \in Pending
      BY <1>2, <2>4 DEF Pending
    <3> QED
      BY <1>2, <3>1, SetCode
  <2>6. Small(next)
    BY <1>2, <1>3, <1>6, SmallPairs
  <2>7. /\ next[c].replies = n /\ \A i \in Items \ {c} : next[i] = d.next[i]
    BY <1>2, ItemKinds DEF IsAccess
  <2>8. Write(Daemon, next, {c}, Idle)
    BY <1>6
  <2> HIDE DEF next
  <2>9. /\ Shape' /\ Held' /\ Small(file)' /\ file' = next
        /\ IsAccess(asked') /\ loose' \subseteq Items
        /\ \A i \in Items \ loose' : file'[i] = asked'[i]
        /\ \A e \in Codes \ loose' : /\ e \notin loose /\ e \notin d.missed
                                     /\ e \notin {c} => file'[e] = file[e]
        /\ proc'[Daemon] = Idle
        /\ \A q \in Procs \ {Daemon} :
              /\ proc'[q].phase = proc[q].phase /\ proc'[q].arg = proc[q].arg
              /\ proc'[q].next = proc[q].next /\ proc'[q].due = proc[q].due
    <3>1. \A i \in Items \ ({c} \cup d.missed) : next[i] = file[i]
      BY <1>3, <2>7
    <3>2. \A e \in Codes : told[e] > 0 => told'[e] > 0
      BY <2>1, <2>2
    <3>3. {c} \in SUBSET Items
      BY ItemKinds
    <3>4. Idle.phase \notin Holding
      BY <1>4 DEF Holding
    <3> QED
      BY <1>1, <1>4, <2>5, <2>6, <2>8, <3>1, <3>2, <3>3, <3>4, WriteKeeps
  <2>10. ASSUME c \notin loose'
         PROVE  /\ c \notin spent /\ n = told'[c]
    <3>1. c \notin loose /\ c \notin d.missed /\ d.next[c] = file[c]
      BY <1>3, <2>9, <2>10, ItemKinds
    <3>2. CASE d.next[c] # None
      BY <1>6, <2>2, <3>1, <3>2 DEF IInv, AsAsked, Counted
    <3>3. CASE d.next[c] = None
      <4>1. told[c] = 0
        BY <2>3, <3>3
      <4>2. c \notin spent
        BY <4>1 DEF IInv, Drawn
      <4> QED
        BY <1>6, <2>2, <3>3, <4>1, <4>2
    <3> QED
      BY <3>2, <3>3
  <2>11. AsAsked'
    <3>1. \A e \in spent' \ loose' : file'[e] = None
      <4> SUFFICES ASSUME NEW e \in spent, e \notin loose' PROVE file'[e] = None
        BY <1>1
      <4>1. e \in Codes /\ e # c
        BY <2>10 DEF IInv, TypeOK
      <4>2. file'[e] = file[e] /\ e \notin loose
        BY <2>9, <4>1
      <4> QED
        BY <4>2 DEF IInv, AsAsked
    <3> QED
      BY <2>9, <3>1 DEF AsAsked
  <2>12. Drawn'
    <3> SUFFICES ASSUME NEW e \in Codes, file'[e] # None \/ e \in spent PROVE told'[e] > 0
      BY <1>1 DEF Drawn
    <3>1. CASE e = c
      BY <2>1, <2>2, <3>1
    <3>2. CASE e # c
      <4>1. file'[e] = d.next[e]
        BY <2>7, <2>9, <3>2, ItemKinds
      <4> QED
        BY <1>3, <2>2, <3>2, <4>1 DEF IInv, Drawn
    <3> QED
      BY <3>1, <3>2
  <2>13. Counted'
    <3> SUFFICES ASSUME NEW e \in Codes, e \notin loose'
                 PROVE  (file'[e] # None => file'[e].replies = told'[e]) /\ told'[e] <= 2
      BY DEF Counted
    <3>1. CASE e = c
      BY <2>4, <2>7, <2>9, <2>10, <3>1
    <3>2. CASE e # c
      <4>1. file'[e] = file[e] /\ e \notin loose /\ told'[e] = told[e]
        BY <2>2, <2>9, <3>2
      <4> QED
        BY <4>1 DEF IInv, Counted
    <3> QED
      BY <3>1, <3>2
  <2>14. TypeOK'
    BY <1>1, <2>2, <2>5, <2>9, RecordTypes DEF IInv, TypeOK, Shape, Procs
  <2>15. Judged' /\ ApprovedLast' /\ GreetedWasPaired'
    BY <1>1, <1>4, <2>9 DEF IInv, Judged, ApprovedLast, GreetedWasPaired, Procs
  <2> QED
    BY <2>9, <2>11, <2>12, <2>13, <2>14, <2>15 DEF IInv
<1> QED
  BY <1>5, <1>6 DEF Gated

\* A command's first step: what it holds is the file but for the items it means,
\* and the codes among these are to go.
LEMMA ReadsIInv ==
  ASSUME IInv, NEW p \in Clis, NEW next, IsAccess(next), NEW means \in SUBSET Items,
         NEW who \in Senders \cup {None}, Reads(p, next, means, who),
         \A i \in Items \ means : next[i] = file[i],
         \A c \in Codes : c \in means => next[c] = None /\ file[c] # None
  PROVE  IInv'
<1> DEFINE r == [Idle EXCEPT !.phase = "writing", !.next = next, !.means = means, !.arg = who]
<1>1. /\ Goes(p, r) /\ p \in Procs /\ p # Daemon
      /\ UNCHANGED <<expired, approved, greeting, told, spent, paired, restarts, file, asked, loose>>
  BY NamesAssumption DEF Reads, Goes, Procs
<1>2. /\ DOMAIN r = Fields /\ r.phase = "writing" /\ r.next = next /\ r.means = means
      /\ r.missed = {} /\ r.arg = who /\ r.due = "letIn"
  BY DEF Idle, Fields
<1> HIDE DEF r
<1>3. RecordOK(p, r)
  BY <1>1, <1>2 DEF RecordOK
<1>4. Consistent(r)
  <2>1. \A c \in Codes : next[c] # None => next[c] = file[c] /\ file[c] # None
    BY ItemKinds
  <2>2. Small(next)
    BY <2>1, SmallLess DEF IInv
  <2> QED
    BY <1>2, <2>1, <2>2 DEF IInv, Drawn, Consistent
<1>5. /\ Shape' /\ Held' /\ AsAsked' /\ Drawn' /\ Counted' /\ Small(file)'
      /\ proc'[p] = r /\ \A q \in Procs \ {p} : proc'[q] = proc[q]
  BY <1>1, <1>3, <1>4, GoesKeeps
<1>6. TypeOK'
  BY <1>1, <1>5, RecordTypes DEF IInv, TypeOK, Shape, Procs
<1>7. Judged' /\ ApprovedLast' /\ GreetedWasPaired'
  BY <1>1, <1>2, <1>5 DEF IInv, Judged, ApprovedLast, GreetedWasPaired, Procs
<1> QED
  BY <1>5, <1>6, <1>7 DEF IInv

LEMMA CommandIInv ==
  ASSUME IInv, NEW p \in Clis, Command(p)
  PROVE  IInv'
<1>1. IsAccess(file)
  BY DEF IInv, TypeOK
<1>2. ASSUME NEW c \in Codes, CmdPair(p, c)
      PROVE  IInv'
  <2> DEFINE a == Pruned(file)
             s == a[c].from
             next == [a EXCEPT ![s] = TRUE, ![c] = None]
  <2>1. /\ IsAccess(a) /\ Outdated(file) \subseteq Codes
        /\ \A d \in Outdated(file) : file[d] # None /\ a[d] = None
        /\ \A i \in Items \ Outdated(file) : a[i] = file[i]
    BY <1>1, PrunedItems
  <2>2. a[c] # None /\ Reads(p, next, Outdated(file) \cup {s, c}, s)
    BY <1>2 DEF CmdPair
  <2> HIDE DEF a
  <2>3. s \in Senders /\ file[c] # None
    BY <2>1, <2>2, ItemKinds DEF IsAccess, Pending
  <2> HIDE DEF s
  <2>4. /\ DOMAIN a = Items /\ s \in Items /\ c \in Items /\ s \notin Codes
    BY <2>1, <2>3, ItemKinds, DistinctAssumption DEF IsAccess
  <2>5. /\ next = [[a EXCEPT ![s] = TRUE] EXCEPT ![c] = None]
        /\ next[c] = None /\ \A i \in Items \ {s, c} : next[i] = a[i]
    BY <2>4
  <2>6. IsAccess(next)
    <3>1. IsAccess([a EXCEPT ![s] = TRUE])
      BY <2>1, <2>3, SetSender
    <3> QED
      BY <2>5, <3>1, SetCode
  <2> HIDE DEF next
  <2>7. \A i \in Items \ (Outdated(file) \cup {s, c}) : next[i] = file[i]
    BY <2>1, <2>5
  <2>8. \A d \in Codes : d \in Outdated(file) \cup {s, c} => next[d] = None /\ file[d] # None
    BY <2>1, <2>3, <2>4, <2>5, ItemKinds
  <2>9. Outdated(file) \cup {s, c} \in SUBSET Items
    BY <2>1, <2>4, ItemKinds
  <2> QED
    BY <2>2, <2>3, <2>6, <2>7, <2>8, <2>9, ReadsIInv
<1>3. ASSUME NEW c \in Codes, CmdDeny(p, c)
      PROVE  IInv'
  <2> DEFINE next == [file EXCEPT ![c] = None]
  <2>1. file[c] # None /\ Reads(p, next, {c}, None)
    BY <1>3 DEF CmdDeny
  <2>2. IsAccess(next)
    BY <1>1, SetCode
  <2>3. {c} \in SUBSET Items /\ next[c] = None /\ \A i \in Items \ {c} : next[i] = file[i]
    BY <1>1, ItemKinds DEF IsAccess
  <2> HIDE DEF next
  <2>4. \A d \in Codes : d \in {c} => next[d] = None /\ file[d] # None
    BY <2>1, <2>3
  <2> QED
    BY <2>1, <2>2, <2>3, <2>4, ReadsIInv
<1>4. ASSUME NEW i \in Items, i \notin Codes, NEW v, IsAccess([file EXCEPT ![i] = v]),
             Reads(p, [file EXCEPT ![i] = v], {i}, None)
      PROVE  IInv'
  <2>1. \A j \in Items \ {i} : [file EXCEPT ![i] = v][j] = file[j]
    BY <1>1 DEF IsAccess
  <2>2. {i} \in SUBSET Items /\ \A c \in Codes : c \notin {i}
    BY <1>4
  <2> QED
    BY <1>4, <2>1, <2>2, ReadsIInv
<1>5. ASSUME NEW s \in Senders, CmdAllow(p, s) \/ CmdRemove(p, s)
      PROVE  IInv'
  <2>1. PICK v \in BOOLEAN : Reads(p, [file EXCEPT ![s] = v], {s}, None)
    BY <1>5 DEF CmdAllow, CmdRemove
  <2> QED
    BY <1>1, <1>4, <2>1, SetSender, ItemKinds, DistinctAssumption
<1>6. ASSUME NEW mode \in Modes, CmdPolicy(p, mode)
      PROVE  IInv'
  <2>1. Reads(p, [file EXCEPT !["dm"] = mode], {"dm"}, None)
    BY <1>6 DEF CmdPolicy
  <2> QED
    BY <1>1, <1>4, <2>1, SetDm, ItemKinds, DistinctAssumption
<1>7. ASSUME NEW ch \in Channels,
             CmdGroupRm(p, ch) \/ \E group \in Groups : CmdGroupAdd(p, ch, group)
      PROVE  IInv'
  <2>1. PICK v \in Group \cup {None} : Reads(p, [file EXCEPT ![ch] = v], {ch}, None)
    BY <1>7, PoliciesAssumption DEF CmdGroupRm, CmdGroupAdd
  <2> QED
    BY <1>1, <1>4, <2>1, SetChannel, ItemKinds, DistinctAssumption
<1>8. ASSUME CmdSet(p)
      PROVE  IInv'
  BY <1>1, <1>8, ReadsIInv DEF CmdSet
<1> QED
  BY <1>2, <1>3, <1>5, <1>6, <1>7, <1>8 DEF Command

LEMMA CmdWritesIInv ==
  ASSUME IInv, NEW p \in Clis, CmdWrites(p)
  PROVE  IInv'
<1> DEFINE k == proc[p]
           after == IF k.arg = None THEN Over
                    ELSE [Idle EXCEPT !.phase = "written", !.arg = k.arg]
<1>1. /\ k.phase = "writing" /\ k.phase \in Holding /\ p \in Procs /\ p # Daemon
      /\ Write(p, k.next, k.means, after)
      /\ spent' = spent \cup (k.means \cap Codes)
      /\ paired' = IF k.arg = None THEN paired ELSE paired \cup {k.arg}
      /\ UNCHANGED <<expired, approved, greeting, told, restarts>>
  BY NamesAssumption DEF CmdWrites, Procs, Holding
<1>2. k.arg \in Senders \cup {None}
  BY <1>1 DEF IInv, Shape, RecordOK
<1>3. /\ RecordOK(p, after) /\ after.phase \in {"written", "over"}
      /\ after.phase = "written" => k.arg # None /\ after.arg = k.arg
  <2>1. CASE k.arg = None
    BY <1>1, <2>1, AtRest
  <2>2. CASE k.arg # None
    <3>1. after = [Idle EXCEPT !.phase = "written", !.arg = k.arg]
      BY <2>2
    <3> HIDE DEF after
    <3>2. /\ DOMAIN after = Fields /\ after.phase = "written" /\ after.arg = k.arg
          /\ after.next = Default /\ after.means = {} /\ after.missed = {}
          /\ after.due = "letIn"
      BY <3>1 DEF Idle, Fields
    <3> QED
      BY <1>1, <1>2, <2>2, <3>2, DefaultIsAccess DEF RecordOK
  <2> QED
    BY <2>1, <2>2
<1> HIDE DEF after
<1>4. /\ Shape' /\ Held' /\ Small(file)' /\ IsAccess(file') /\ IsAccess(asked')
      /\ loose' \subseteq Items /\ AsAsked' /\ Drawn' /\ Counted'
      /\ proc'[p] = after
      /\ \A q \in Procs \ {p} : /\ proc'[q].phase = proc[q].phase /\ proc'[q].arg = proc[q].arg
                                /\ proc'[q].next = proc[q].next /\ proc'[q].due = proc[q].due
  <2>1. after.phase \notin Holding
    BY <1>3 DEF Holding
  <2> QED
    BY <1>1, <1>3, <2>1, PlainWrite
<1>5. paired \subseteq paired' /\ paired' \subseteq Senders
  BY <1>1, <1>2 DEF IInv, TypeOK
<1>6. TypeOK'
  BY <1>1, <1>4, <1>5, RecordTypes DEF IInv, TypeOK, Shape, Procs
<1>7. Judged' /\ GreetedWasPaired'
  BY <1>1, <1>4, <1>5 DEF IInv, Judged, GreetedWasPaired, Procs
<1>8. ApprovedLast'
  BY <1>1, <1>3, <1>4, <1>5 DEF IInv, ApprovedLast, Procs
<1> QED
  BY <1>4, <1>6, <1>7, <1>8 DEF IInv

\* The steps that leave file and codes alone and take a process on.
LEMMA PassesKeeps ==
  ASSUME IInv, NEW p \in Procs, NEW after, Goes(p, after), RecordOK(p, after),
         after.phase \notin Holding, after.phase \in {"written", "created"} => after.arg \in paired,
         UNCHANGED <<expired, told, spent, paired>>,
         approved' \in [Senders -> {"no", "empty", "full"}],
         greeting' \in [Senders -> 0 .. MaxGreetings], restarts' \in 0 .. MaxRestarts,
         \A s \in Senders : greeting'[s] > 0 \/ approved'[s] # "no" => s \in paired
  PROVE  IInv'
<1>1. Consistent(after)
  BY DEF Consistent
<1>2. /\ Shape' /\ Held' /\ AsAsked' /\ Drawn' /\ Counted' /\ Small(file)'
      /\ proc'[p] = after /\ \A q \in Procs \ {p} : proc'[q] = proc[q]
  BY <1>1, GoesKeeps
<1>3. TypeOK'
  BY <1>2, RecordTypes DEF IInv, TypeOK, Shape, Procs, Goes
<1>4. Judged'
  <2>1. CASE p = Daemon
    <3>1. after.phase = "none"
      BY <2>1 DEF RecordOK, Holding
    <3> QED
      BY <1>2, <2>1, <3>1 DEF Judged
  <2>2. CASE p # Daemon
    BY <1>2, <2>2 DEF IInv, Judged, Procs
  <2> QED
    BY <2>1, <2>2
<1>5. ApprovedLast' /\ GreetedWasPaired'
  BY <1>2 DEF IInv, ApprovedLast, GreetedWasPaired, Procs
<1> QED
  BY <1>2, <1>3, <1>4, <1>5 DEF IInv

\* Every step keeps the inductive invariant.
LEMMA StepIInv == IInv /\ [Next]_vars => IInv'
<1> SUFFICES ASSUME IInv, [Next]_vars
             PROVE  IInv'
  OBVIOUS
<1>0. /\ approved \in [Senders -> {"no", "empty", "full"}]
      /\ greeting \in [Senders -> 0 .. MaxGreetings] /\ restarts \in 0 .. MaxRestarts
      /\ \A s \in Senders : greeting[s] > 0 \/ approved[s] # "no" => s \in paired
      /\ MaxGreetings \in Nat /\ MaxRestarts \in Nat
  BY BoundsAssumption DEF IInv, TypeOK, GreetedWasPaired
<1>1. ASSUME NEW m \in Message, Receive(m) PROVE IInv'
  BY <1>1, ReceiveIInv
<1>2. CASE PruneWritten
  BY <1>2, PruneIInv
<1>3. CASE Gated
  BY <1>3, GatedIInv
<1>4. CASE DaemonRestarts
  <2>1. /\ Goes(Daemon, Idle) /\ Daemon \in Procs /\ RecordOK(Daemon, Idle)
        /\ Idle.phase = "none" /\ UNCHANGED <<expired, approved, told, spent, paired>>
    BY <1>4, AtRest DEF DaemonRestarts, Procs
  <2>2. /\ restarts' \in 0 .. MaxRestarts /\ greeting' \in [Senders -> 0 .. MaxGreetings]
        /\ \A s \in Senders : greeting'[s] = 0
    BY <1>0, <1>4 DEF DaemonRestarts
  <2>3. Idle.phase \notin Holding /\ Idle.phase \notin {"written", "created"}
    BY <2>1 DEF Holding
  <2> QED
    BY <1>0, <2>1, <2>2, <2>3, PassesKeeps
<1>5. ASSUME NEW c \in Codes, Expire(c) PROVE IInv'
  <2>1. /\ expired' \subseteq Codes
        /\ UNCHANGED <<file, proc, approved, greeting, told, asked, loose, spent, paired, restarts>>
    BY <1>5 DEF Expire, IInv, TypeOK
  <2>2. TypeOK'
    BY <2>1 DEF IInv, TypeOK
  <2> QED
    BY <2>1, <2>2 DEF IInv, Shape, Held, Consistent, AsAsked, Drawn, Counted, Small,
                      PendingIn, Judged, ApprovedLast, GreetedWasPaired
<1>6. ASSUME NEW p \in Clis, Command(p) PROVE IInv'
  BY <1>6, CommandIInv
<1>7. ASSUME NEW p \in Clis, CmdWrites(p) PROVE IInv'
  BY <1>7, CmdWritesIInv
<1>8. ASSUME NEW p \in Clis, CliDies(p) \/ ApprovalCreated(p) \/ ApprovalFilled(p) PROVE IInv'
  <2>1. /\ p \in Procs /\ p # Daemon /\ RecordOK(p, Over) /\ Over.phase = "over"
        /\ proc[p].phase \in {"written", "created"} /\ RecordOK(p, proc[p])
        /\ proc[p].arg \in Senders /\ proc[p].arg \in paired
        /\ UNCHANGED <<expired, told, spent, paired, greeting, restarts>>
    BY <1>8, AtRest, NamesAssumption
       DEF CliDies, ApprovalCreated, ApprovalFilled, Procs, IInv, Shape, RecordOK, ApprovedLast
  <2>2. /\ approved' \in [Senders -> {"no", "empty", "full"}]
        /\ \A s \in Senders : greeting'[s] > 0 \/ approved'[s] # "no" => s \in paired
    BY <1>0, <1>8, <2>1 DEF CliDies, ApprovalCreated, ApprovalFilled
  <2>3. CASE Goes(p, Over)
    <3>1. Over.phase \notin Holding /\ Over.phase \notin {"written", "created"}
      BY <2>1 DEF Holding
    <3> QED
      BY <1>0, <2>1, <2>2, <2>3, <3>1, PassesKeeps
  <2>4. CASE Goes(p, [proc[p] EXCEPT !.phase = "created"])
    <3> DEFINE after == [proc[p] EXCEPT !.phase = "created"]
    <3>1. /\ DOMAIN after = Fields /\ after.phase = "created" /\ after.arg = proc[p].arg
          /\ after.next = proc[p].next /\ after.means = proc[p].means
          /\ after.missed = proc[p].missed /\ after.due = proc[p].due
      BY <2>1 DEF RecordOK, Fields
    <3>2. Goes(p, after)
      BY <2>4
    <3> HIDE DEF after
    <3>3. RecordOK(p, after) /\ after.phase \notin Holding
      BY <2>1, <3>1 DEF RecordOK, Holding
    <3> QED
      BY <1>0, <2>1, <2>2, <3>1, <3>2, <3>3, PassesKeeps
  <2> QED
    BY <1>8, <2>3, <2>4 DEF CliDies, ApprovalCreated, ApprovalFilled
<1>9. ASSUME NEW s \in Senders, Look(s) \/ Greeted(s) PROVE IInv'
  <2>1. UNCHANGED <<file, expired, proc, told, asked, loose, spent, paired, restarts>>
    BY <1>9 DEF Look, Greeted
  <2>2. /\ approved' \in [Senders -> {"no", "empty", "full"}]
        /\ greeting' \in [Senders -> 0 .. MaxGreetings]
    BY <1>0, <1>9 DEF Look, Greeted
  <2>3. \A t \in Senders : greeting'[t] > 0 \/ approved'[t] # "no" => t \in paired
    BY <1>0, <1>9 DEF Look, Greeted
  <2>4. TypeOK'
    BY <2>1, <2>2 DEF IInv, TypeOK
  <2> QED
    BY SMTT(30), <2>1, <2>3, <2>4
       DEF IInv, Shape, Held, Consistent, AsAsked, Drawn, Counted, Small, PendingIn,
           Judged, ApprovedLast, GreetedWasPaired
<1>10. CASE UNCHANGED vars
  <2>1. UNCHANGED <<file, expired, proc, approved, greeting, told, asked, loose, spent, paired,
                    restarts>>
    BY <1>10 DEF vars
  <2>2. TypeOK' /\ Shape' /\ AsAsked'
    BY <2>1 DEF IInv, TypeOK, Shape, AsAsked
  <2>3. Held' /\ Drawn' /\ Counted' /\ Small(file)'
    BY <2>1 DEF IInv, Held, Consistent, Drawn, Counted, Small, PendingIn
  <2> QED
    BY <2>1, <2>2, <2>3 DEF IInv, Judged, ApprovedLast, GreetedWasPaired
<1> QED
  BY <1>1, <1>2, <1>3, <1>4, <1>5, <1>6, <1>7, <1>8, <1>9, <1>10 DEF Next

LEMMA Invariance == Spec => []IInv
<1> QED
  BY InitIInv, StepIInv, PTL DEF Spec

-----------------------------------------------------------------------------
\* Every variable stays in its type (access.json, approved/ and their processes).
THEOREM TypeCorrect == Spec => []TypeOK
<1>1. IInv => TypeOK
  BY DEF IInv
<1> QED
  BY <1>1, Invariance, PTL

\* A change to access.json is lost only to a process that had read it before, and
\* a used code does not come back (persist of access-mutate.ts, writeAccessFile of
\* access-control.ts).
THEOREM ChangesKept == Spec => []AsAsked
<1>1. IInv => AsAsked
  BY DEF IInv
<1> QED
  BY <1>1, Invariance, PTL

\* Whatever the overlap of daemon and commands, no more than MaxPending codes are
\* pending and no sender has two; and a code is sent twice at most as long as no
\* process has put an old count of it back.  One whose count was put back can be
\* sent more often (gate, writeAccessFile, persist of access-mutate.ts).
THEOREM LimitsOfPairing == Spec => []PairingLimits
<1>1. IInv => PairingLimits
  BY DEF IInv, Small, Counted, PairingLimits
<1> QED
  BY <1>1, Invariance, PTL

\* What the gate lets in was to be let in when the message came, unless a process had
\* put back an item the gate goes by, such as a removed sender; and it can be
\* answered where it came from, unless it came from a channel that is let in for want
\* of any setting (gate, handle, fetchTextChannel).
THEOREM GateIsCurrent == Spec => []DeliveredWasDue
<1>1. ASSUME NEW a, NEW m, Admits(a, m), ~MayAnswer(a, m)
      PROVE  m.chan # Dm /\ a[m.chan] = None /\ GroupDefaults = None
  <2>1. m.chan # Dm /\ a[m.chan] = None /\ PolicyFor(a, m.chan) # {}
    BY <1>1 DEF Admits, MayAnswer
  <2>2. a["guild"] = "open"
    BY <2>1 DEF PolicyFor
  <2> QED
    BY <1>1, <2>1, <2>2 DEF MayAnswer
<1>2. IInv => DeliveredWasDue
  <2> SUFFICES ASSUME IInv, proc[Daemon].phase = "gating",
                      Admits(proc[Daemon].next, proc[Daemon].arg)
               PROVE  /\ proc[Daemon].due \in {"letIn", "putBack"}
                      /\ \/ MayAnswer(proc[Daemon].next, proc[Daemon].arg)
                         \/ /\ proc[Daemon].arg.chan # Dm
                            /\ proc[Daemon].next[proc[Daemon].arg.chan] = None
                            /\ GroupDefaults = None
    BY DEF DeliveredWasDue
  <2>1. proc[Daemon].due \in {"letIn", "putBack", "refused"}
    BY DEF IInv, TypeOK
  <2>2. proc[Daemon].due # "refused"
    BY DEF IInv, Judged
  <2> QED
    BY <1>1, <2>1, <2>2
<1> QED
  BY <1>2, Invariance, PTL

\* Nobody is greeted who was not paired, if the command is interrupted or the
\* daemon restarts (cmdPair, ApprovalWatcher.tick).
THEOREM GreetingAfterPairing == Spec => []GreetedWasPaired
<1>1. IInv => GreetedWasPaired
  BY DEF IInv
<1> QED
  BY <1>1, Invariance, PTL
=============================================================================
