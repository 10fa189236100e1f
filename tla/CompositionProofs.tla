-------------------------- MODULE CompositionProofs --------------------------
(***************************************************************************)
(* Proofs about the two compositions of the registry: Sessions, with what  *)
(* the daemon keeps per workspace, and Lifecycle, with the choices of /use *)
(* and the shutdown.  Both rest on the lemmas of RegistryProofs.           *)
(***************************************************************************)
EXTENDS Sessions, Lifecycle, RegistryProofs

-----------------------------------------------------------------------------
(* Sessions: the order of registration *)

\* B orders M.
Orders(B, M) ==
    /\ B \subseteq M \X M
    /\ \A p, q \in M : p # q => (<<p, q>> \in B <=> <<q, p>> \notin B)
    /\ \A p, q, r \in M : {<<p, q>>, <<q, r>>} \subseteq B => <<p, r>> \in B

LEMMA OrderOfRest ==
  ASSUME NEW B, NEW M, NEW N, Orders(B, M), N \subseteq M
  PROVE  Orders(B \cap (N \X N), N)
<1> DEFINE C == B \cap (N \X N)
<1>1. \A p, q \in N : <<p, q>> \in C <=> <<p, q>> \in B
  OBVIOUS
<1>2. \A p, q \in N : p # q => (<<p, q>> \in C <=> <<q, p>> \notin C)
  BY <1>1 DEF Orders
<1>3. ASSUME NEW p \in N, NEW q \in N, NEW r \in N, <<p, q>> \in C, <<q, r>> \in C
      PROVE  <<p, r>> \in C
  BY <1>1, <1>3 DEF Orders
<1> QED
  BY <1>2, <1>3 DEF Orders

LEMMA OrderWithNewcomer ==
  ASSUME NEW B, NEW M, NEW p, Orders(B, M), p \notin M
  PROVE  Orders(B \cup (M \X {p}), M \cup {p})
<1> DEFINE C == B \cup (M \X {p})
           N == M \cup {p}
<1>1. C \subseteq N \X N
  BY DEF Orders
<1>2. \A q, r \in M : <<q, r>> \in C <=> <<q, r>> \in B
  OBVIOUS
<1>3. \A q \in M : <<q, p>> \in C /\ <<p, q>> \notin C
  BY DEF Orders
<1>4. <<p, p>> \notin C
  BY DEF Orders
<1>5. ASSUME NEW q \in N, NEW r \in N, q # r
      PROVE  <<q, r>> \in C <=> <<r, q>> \notin C
  <2>1. CASE q \in M /\ r \in M
    BY <1>2, <1>5, <2>1 DEF Orders
  <2>2. CASE q = p \/ r = p
    BY <1>3, <1>5, <2>2
  <2> QED
    BY <2>1, <2>2
<1>6. ASSUME NEW q \in N, NEW r \in N, NEW s \in N, <<q, r>> \in C, <<r, s>> \in C
      PROVE  <<q, s>> \in C
  <2>1. q \in M /\ r \in M
    BY <1>3, <1>4, <1>6
  <2>2. CASE s = p
    BY <1>3, <2>1, <2>2
  <2>3. CASE s \in M
    BY <1>2, <1>6, <2>1, <2>3 DEF Orders
  <2> QED
    BY <2>2, <2>3
<1> QED
  BY <1>1, <1>5, <1>6 DEF Orders

-----------------------------------------------------------------------------
(* Sessions: the buffers of /recent *)

Exchange == {"in", "out"}

\* RingBuffer.push keeps the last RingCap entries: one is shifted out.
LEMMA ShiftedIsLast ==
  ASSUME NEW s \in Seq(Exchange), Len(s) <= RingCap + 1
  PROVE  /\ Shifted(s) = LastOf(s, RingCap)
         /\ Shifted(s) \in Seq(Exchange)
         /\ Len(Shifted(s)) <= RingCap
<1>1. Len(s) \in Nat /\ RingCap \in Nat /\ RingCap > 0
  BY LenProperties, RingAssumption
<1>2. CASE Len(s) > RingCap
  <2>1. Len(s) = RingCap + 1 /\ Len(s) - RingCap + 1 = 2
    BY <1>1, <1>2
  <2>2. s # <<>>
    BY <1>1, <1>2, EmptySeq
  <2>3. Shifted(s) = Tail(s) /\ LastOf(s, RingCap) = SubSeq(s, 2, Len(s))
    BY <1>2, <2>1 DEF Shifted, LastOf
  <2>4. Tail(s) = SubSeq(s, 2, Len(s)) /\ Tail(s) \in Seq(Exchange) /\ Len(Tail(s)) = Len(s) - 1
    BY <2>2, TailIsSubSeq, HeadTailProperties
  <2> QED
    BY <1>1, <2>1, <2>3, <2>4
<1>3. CASE ~(Len(s) > RingCap)
  <2>1. Shifted(s) = s /\ LastOf(s, RingCap) = SubSeq(s, 1, Len(s))
    BY <1>3 DEF Shifted, LastOf
  <2> QED
    BY <1>1, <1>3, <2>1, SubSeqFull
<1> QED
  BY <1>2, <1>3

\* The buffer of the watched name holds what was exchanged, its last entries.
Recent == ring = log /\ ring \in Seq(Exchange) /\ Len(ring) <= RingCap

LEMMA PushKeepsRecent ==
  ASSUME Recent, NEW n, NEW e \in Exchange, Push(n, e)
  PROVE  Recent'
<1>1. CASE n # Watched
  BY <1>1 DEF Push, Recent
<1>2. CASE n = Watched
  <2> DEFINE s == Append(ring, e)
  <2>1. s \in Seq(Exchange) /\ Len(s) = Len(ring) + 1 /\ Len(ring) \in Nat
    BY AppendProperties, LenProperties DEF Recent
  <2>2. Len(s) <= RingCap + 1
    BY <2>1, RingAssumption DEF Recent
  <2>3. ring' = Shifted(s) /\ log' = LastOf(s, RingCap)
    BY <1>2 DEF Push, Recent
  <2> HIDE DEF s
  <2> QED
    BY <2>1, <2>2, <2>3, ShiftedIsLast DEF Recent
<1> QED
  BY <1>1, <1>2
-----------------------------------------------------------------------------
(* Sessions: the inductive invariant *)

TypingKnown == typing \subseteq {name[p] : p \in Members}

\* A call whose connection is registered is of a member and carries its name.
HereIsMember == \A c \in calls : c.here => c.from \in Members /\ c.name = name[c.from]

SInv == Sound /\ Recent /\ SessionsTypeOK /\ TypingKnown /\ HereIsMember

\* The types that depend on the members, and those that do not.
MemberParts == active \subseteq Members /\ calls \subseteq Call /\ TypingKnown /\ HereIsMember

OtherParts ==
    /\ asked \in [Plugins -> Names \cup {NoName}]
    /\ stops \subseteq Plugins
    /\ exchanges \in 0 .. MaxExchanges

LEMMA SInvParts ==
  ASSUME Sound
  PROVE  SInv <=> Recent /\ Orders(before, Members) /\ MemberParts /\ OtherParts
<1>1. TypingKnown => typing \subseteq Names
  BY DEF Sound, MembersNamed, TypingKnown
<1> QED
  BY <1>1 DEF SInv, SessionsTypeOK, Orders, MemberParts, OtherParts, Recent, Exchange

LEMMA SInvFromParts ==
  ASSUME Sound', Recent', Orders(before, Members)', MemberParts', OtherParts'
  PROVE  SInv'
<1>1. (typing \subseteq Names)'
  BY DEF Sound, MembersNamed, MemberParts, TypingKnown
<1> QED
  BY <1>1 DEF SInv, SessionsTypeOK, Orders, MemberParts, OtherParts, Recent, Exchange

\* notifyRemoved leaves nothing of those who go.
LEMMA RemovedStep ==
  ASSUME SInv, NEW gone, NotifyRemoved(gone),
         \A q \in Members \ gone : q \in Members' /\ name'[q] = name[q]
  PROVE  MemberParts' /\ UNCHANGED <<asked, stops, exchanges>>
<1>1. /\ typing' = typing \ {name[p] : p \in gone}
      /\ active' = active \ gone
      /\ calls' = {[c EXCEPT !.here = @ /\ c.from \notin gone] : c \in calls}
      /\ UNCHANGED <<asked, stops, exchanges>>
  BY DEF NotifyRemoved
<1>2. active' \subseteq Members'
  BY <1>1 DEF SInv, SessionsTypeOK
<1>3. TypingKnown'
  <2> SUFFICES ASSUME NEW t \in typing' PROVE \E q \in Members' : t = name'[q]
    BY DEF TypingKnown
  <2>1. PICK q \in Members : t = name[q]
    BY <1>1 DEF SInv, TypingKnown
  <2>2. q \notin gone
    BY <1>1, <2>1
  <2> QED
    BY <2>1, <2>2
<1>4. ASSUME NEW d \in calls'
      PROVE  d \in Call /\ (d.here => d.from \in Members' /\ d.name = name'[d.from])
  <2>1. PICK c \in calls : d = [c EXCEPT !.here = @ /\ c.from \notin gone]
    BY <1>1
  <2>2. c \in Call
    BY DEF SInv, SessionsTypeOK
  <2>3. /\ c = [from |-> c.from, name |-> c.name, chat |-> c.chat, here |-> c.here]
        /\ c.from \in Plugins /\ c.name \in Names /\ c.chat \in Names /\ c.here \in BOOLEAN
    BY <2>2 DEF Call
  <2>4. /\ d.from = c.from /\ d.name = c.name /\ d.chat = c.chat
        /\ d.here <=> (c.here /\ c.from \notin gone)
    BY <2>1, <2>3
  <2>5. d \in Call
    <3>1. (c.here /\ c.from \notin gone) \in BOOLEAN
      BY <2>3
    <3>2. d = [from |-> c.from, name |-> c.name, chat |-> c.chat,
               here |-> (c.here /\ c.from \notin gone)]
      BY <2>1, <2>3
    <3> QED
      BY <2>3, <3>1, <3>2 DEF Call
  <2>6. c.here => c.from \in Members /\ c.name = name[c.from]
    BY DEF SInv, HereIsMember
  <2> QED
    BY <2>4, <2>5, <2>6
<1>5. calls' \subseteq Call /\ HereIsMember'
  BY <1>4 DEF HereIsMember
<1> QED
  BY <1>1, <1>2, <1>3, <1>5 DEF MemberParts

\* A registration and the evictions that come with it.
LEMMA SessionRegistersStep ==
  ASSUME SInv, NEW p \in Plugins, SessionRegisters(p)
  PROVE  SInv'
<1>1. HandleRegister(p) /\ Sound
  BY DEF SessionRegisters, SInv
<1>2. /\ p \notin Members
      /\ Members' \subseteq Members \cup {p}
      /\ \A q \in Plugins : q \in Members' <=> conn'[q] = "registered"
      /\ \A q \in Members' : name'[q] = IF q = p THEN FreeName(p) ELSE name[q]
  <2>1. Coherent /\ ListedAreOpen
    BY <1>1, SoundIsCoherent
  <2>2. ListedAreOpen'
    BY <1>1, <2>1, RegisterStep
  <2> QED
    BY <1>1, <2>1, <2>2, RegisterStep DEF ListedAreOpen
<1>3. Members \subseteq Plugins
  BY <1>1, TypeLists DEF Sound
<1> DEFINE gone == {q \in Members : conn'[q] # "registered"}
<1>4. NotifyRemoved(gone) /\ NotifyEvicted(gone)
  BY DEF SessionRegisters
<1>5. \A q \in Members \ gone : q \in Members' /\ name'[q] = name[q]
  BY <1>2, <1>3
<1> HIDE DEF gone
<1>6. MemberParts' /\ UNCHANGED <<asked, stops, exchanges>>
  BY <1>4, <1>5, RemovedStep
<1>7. Recent'
  <2>1. \/ ring' = <<>> /\ log' = <<>>
        \/ UNCHANGED <<ring, log>>
    BY <1>4 DEF NotifyEvicted
  <2>2. <<>> \in Seq(Exchange) /\ Len(<<>>) = 0 /\ 0 <= RingCap
    BY EmptySeq, RingAssumption
  <2>3. Recent
    BY DEF SInv
  <2> QED
    BY <2>1, <2>2, <2>3 DEF Recent
<1>8. Orders(before, Members)'
  <2>1. Orders(before, Members)
    BY <1>1, SInvParts
  <2>2. Orders(before \cup (Members \X {p}), Members \cup {p})
    BY <1>2, <2>1, OrderWithNewcomer
  <2>3. Orders((before \cup (Members \X {p})) \cap (Members' \X Members'), Members')
    BY <1>2, <2>2, OrderOfRest
  <2> QED
    BY <2>3 DEF SessionRegisters, Orders
<1>9. Sound'
  BY <1>1, StepsKeepSound
<1>10. OtherParts'
  BY <1>6, <1>1, SInvParts DEF OtherParts, Names
<1> QED
  BY <1>6, <1>7, <1>8, <1>9, <1>10, SInvFromParts
\* Members that go without an eviction: a close and a reap.
LEMMA SessionsRemovedStep ==
  ASSUME SInv, Sound', NEW gone, NotifyRemoved(gone), UNCHANGED <<ring, log>>,
         Members' = Members \ gone, name' = Unnamed(name, gone) \/ name' = name,
         before' = before \cap (Members' \X Members')
  PROVE  SInv'
<1>1. Members \subseteq Plugins /\ Sound
  BY TypeLists DEF SInv, Sound
<1>2. \A q \in Members \ gone : q \in Members' /\ name'[q] = name[q]
  BY <1>1 DEF Unnamed
<1>3. MemberParts' /\ UNCHANGED <<asked, stops, exchanges>>
  BY <1>2, RemovedStep
<1>4. Orders(before, Members)'
  BY <1>1, SInvParts, OrderOfRest DEF Orders
<1>5. Recent'
  BY DEF SInv, Recent
<1>6. OtherParts'
  BY <1>1, <1>3, SInvParts DEF OtherParts, Names
<1> QED
  BY <1>3, <1>4, <1>5, <1>6, SInvFromParts

LEMMA SessionClosesStep ==
  ASSUME SInv, NEW p \in Plugins, SessionCloses(p)
  PROVE  SInv'
<1>1. SocketCloses(p) /\ Sound
  BY DEF SessionCloses, SInv
<1>2. /\ Members' = Members \ {p}
      /\ IF p \in Members THEN name' = Unnamed(name, {p}) ELSE name' = name
  BY <1>1, SoundIsCoherent, CloseStep DEF ListedAreOpen
<1> DEFINE gone == {p} \cap Members
<1>3. NotifyRemoved(gone) /\ UNCHANGED <<ring, log>> /\ before' = before \cap (Members' \X Members')
  BY DEF SessionCloses
<1>4. Members' = Members \ gone /\ (name' = Unnamed(name, gone) \/ name' = name)
  <2>1. CASE p \in Members
    <3>1. gone = {p}
      BY <2>1
    <3> QED
      BY <1>2, <2>1, <3>1
  <2>2. CASE p \notin Members
    BY <1>2, <2>2
  <2> QED
    BY <2>1, <2>2
<1>5. Sound'
  BY <1>1, StepsKeepSound
<1> HIDE DEF gone
<1> QED
  BY <1>3, <1>4, <1>5, SessionsRemovedStep

LEMMA SessionsReapedStep ==
  ASSUME SInv, NEW n \in 1 .. Len(recency), SessionsReaped(n)
  PROVE  SInv'
<1>1. Reap(n) /\ Sound
  BY DEF SessionsReaped, SInv
<1>2. Members' = Members \ Firsts(recency, n) /\ name' = Unnamed(name, Firsts(recency, n))
  BY <1>1, SoundIsCoherent, ReapStep
<1>3. /\ NotifyRemoved(Firsts(recency, n)) /\ UNCHANGED <<ring, log>>
      /\ before' = before \cap (Members' \X Members')
  BY DEF SessionsReaped, Firsts
<1>4. Sound'
  BY <1>1, StepsKeepSound
<1> QED
  BY <1>2, <1>3, <1>4, SessionsRemovedStep

LEMMA DaemonForgetsStep ==
  ASSUME SInv, DaemonForgets
  PROVE  SInv'
<1>1. DaemonRestarts /\ Sound
  BY DEF DaemonForgets, SInv
<1>2. Members' = {}
  BY <1>1, RestartStep
<1>3. Sound'
  BY <1>1, StepsKeepSound
<1>4. /\ before' = {} /\ active' = {} /\ calls' = {} /\ stops' = {} /\ typing' = {}
      /\ ring' = <<>> /\ log' = <<>>
      /\ UNCHANGED <<asked, exchanges>>
  BY DEF DaemonForgets
<1>5. Orders(before, Members)'
  BY <1>2, <1>4 DEF Orders
<1>6. MemberParts'
  BY <1>4 DEF MemberParts, TypingKnown, HereIsMember
<1>7. Recent'
  BY <1>4, EmptySeq, RingAssumption DEF Recent
<1>8. OtherParts'
  BY <1>1, <1>4, SInvParts DEF OtherParts, Names
<1> QED
  BY <1>3, <1>5, <1>6, <1>7, <1>8, SInvFromParts

\* The steps that leave membership and names: what they change is in order.
LEMMA QuietStep ==
  ASSUME SInv, Sound', Members' = Members, name' = name, before' = before,
         Recent', OtherParts',
         active' \subseteq Members, calls' \subseteq Call,
         typing' \subseteq {name[p] : p \in Members},
         \A c \in calls' : c.here => c.from \in Members /\ c.name = name[c.from]
  PROVE  SInv'
<1>1. Orders(before, Members)'
  BY SInvParts DEF SInv, Orders
<1>2. MemberParts'
  BY DEF MemberParts, TypingKnown, HereIsMember, Call, Names
<1> QED
  BY <1>1, <1>2, SInvFromParts

LEMMA SInvFacts ==
  ASSUME SInv
  PROVE  /\ Sound /\ Recent /\ OtherParts
         /\ Members \subseteq Plugins
         /\ active \subseteq Members /\ calls \subseteq Call
         /\ typing \subseteq {name[p] : p \in Members}
         /\ \A c \in calls : c.here => c.from \in Members /\ c.name = name[c.from]
<1>1. Sound
  BY DEF SInv
<1>2. Recent /\ OtherParts /\ MemberParts
  BY <1>1, SInvParts
<1> QED
  BY <1>1, <1>2, TypeLists DEF Sound, MemberParts, TypingKnown, HereIsMember

\* A step of a plugin or a line of it, with what the daemon keeps unchanged.
LEMMA ForeignStep ==
  ASSUME SInv, NEW p \in Plugins,
         (PluginStarts(p) \/ PluginConnects(p) \/ PluginSeesClose(p) \/ HandleLine(p))
            /\ UNCHANGED keptVars
  PROVE  SInv'
<1>1. Sound' /\ Members' = Members /\ name' = name
  <2>1. Sound'
    BY SInvFacts, StepsKeepSound
  <2>2. HandleLine(p) => Members' = Members /\ name' = name
    BY SInvFacts, SoundIsCoherent, LineStep
  <2>3. ~HandleLine(p) => Members' = Members /\ name' = name
    BY DEF PluginStarts, PluginConnects, PluginSeesClose, Members
  <2> QED
    BY <2>1, <2>2, <2>3
<1>2. UNCHANGED keptVars
  OBVIOUS
<1>3. Recent' /\ OtherParts'
  BY <1>2, SInvFacts DEF keptVars, Recent, OtherParts, Names
<1> QED
  BY <1>1, <1>2, <1>3, SInvFacts, QuietStep DEF keptVars

LEMMA SessionEndsStep ==
  ASSUME SInv, NEW p \in Plugins, SessionEnds(p)
  PROVE  SInv'
<1>1. Sound' /\ Members' = Members /\ name' = name
  <2>1. PluginExits(p)
    BY DEF SessionEnds
  <2> QED
    BY <2>1, SInvFacts, StepsKeepSound DEF PluginExits, Members
<1>2. /\ asked' = [asked EXCEPT ![p] = NoName]
      /\ UNCHANGED <<before, active, calls, stops, typing, ring, log, exchanges>>
  BY DEF SessionEnds
<1>3. Recent' /\ OtherParts'
  BY <1>2, SInvFacts DEF Recent, OtherParts, Names
<1> QED
  BY <1>1, <1>2, <1>3, SInvFacts, QuietStep

\* What an exchange does to the buffers, and that it leaves the registry alone.
LEMMA RegistryUnchanged ==
  ASSUME Sound, UNCHANGED vars
  PROVE  Sound' /\ Members' = Members /\ name' = name /\ Names' = Names
BY DEF vars, Sound, TypeOK, NamesUnique, ListedAreOpen, MembersNamed, Members, Names

LEMMA InboundStep ==
  ASSUME SInv, NEW p \in Plugins, Inbound(p)
  PROVE  SInv'
<1>1. Sound' /\ Members' = Members /\ name' = name
  BY SInvFacts, RegistryUnchanged DEF Inbound
<1>2. /\ exchanges < MaxExchanges /\ p \in Members
      /\ exchanges' = exchanges + 1
      /\ active' = active \cup {p}
      /\ typing' = typing \cup {name[p]}
      /\ asked' = IF p \in up THEN [asked EXCEPT ![p] = name[p]] ELSE asked
      /\ Push(name[p], "in")
      /\ UNCHANGED <<before, calls, stops>>
  BY DEF Inbound
<1>3. Recent'
  BY <1>2, SInvFacts, PushKeepsRecent DEF Exchange
<1>4. name[p] \in Names
  BY <1>2, SInvFacts DEF Sound, MembersNamed
<1>5. OtherParts'
  <2>1. exchanges' \in 0 .. MaxExchanges
    BY <1>2, SInvFacts, RingAssumption DEF OtherParts
  <2>2. asked' \in [Plugins -> Names \cup {NoName}] /\ stops' \subseteq Plugins
    BY <1>2, <1>4, SInvFacts DEF OtherParts
  <2> QED
    BY <2>1, <2>2 DEF OtherParts, Names
<1> QED
  BY <1>1, <1>2, <1>3, <1>5, SInvFacts, QuietStep
LEMMA ReplyStep ==
  ASSUME SInv, NEW p \in Plugins, Reply(p)
  PROVE  SInv'
<1>1. HandleLine(p) /\ Sound
  BY SInvFacts DEF Reply
<1>2. Sound' /\ Members' = Members /\ name' = name /\ p \in Members
  BY <1>1, SoundIsCoherent, StepsKeepSound, LineStep
<1> DEFINE call == [from |-> p, name |-> name[p], chat |-> asked[p], here |-> TRUE]
<1>3. /\ exchanges < MaxExchanges /\ asked[p] # NoName
      /\ exchanges' = exchanges + 1
      /\ calls' = calls \cup {call}
      /\ UNCHANGED <<before, active, asked, stops, typing, ring, log>>
  BY DEF Reply
<1>4. name[p] \in Names /\ asked[p] \in Names
  BY <1>2, <1>3, SInvFacts DEF Sound, MembersNamed, OtherParts
<1>5. call \in Call /\ call.from = p /\ call.name = name[p]
  BY <1>4 DEF Call
<1> HIDE DEF call
<1>6. calls' \subseteq Call
  BY <1>3, <1>5, SInvFacts
<1>7. \A c \in calls' : c.here => c.from \in Members /\ c.name = name[c.from]
  BY <1>2, <1>3, <1>5, SInvFacts
<1>8. Recent' /\ OtherParts'
  <2>1. exchanges' \in 0 .. MaxExchanges
    BY <1>3, SInvFacts, RingAssumption DEF OtherParts
  <2>2. Recent'
    BY <1>3, SInvFacts DEF Recent
  <2> QED
    BY <1>3, <2>1, <2>2, SInvFacts DEF OtherParts, Names
<1>9. active' \subseteq Members /\ typing' \subseteq {name[q] : q \in Members}
  BY <1>3, SInvFacts
<1> QED
  BY <1>2, <1>3, <1>6, <1>7, <1>8, <1>9, QuietStep

\* A call ends, delivered or not; a hook speaks and is heard.
LEMMA CallsAndStopsStep ==
  ASSUME SInv,
         \/ \E c \in calls : ReplyDelivered(c) \/ ReplyFails(c)
         \/ \E p \in Plugins : CcStops(p) \/ HandleStop(p)
  PROVE  SInv'
<1>1. Sound' /\ Members' = Members /\ name' = name /\ before' = before /\ exchanges' = exchanges
  BY SInvFacts, RegistryUnchanged DEF ReplyDelivered, ReplyFails, CcStops, HandleStop
<1>2. active' \subseteq active /\ calls' \subseteq calls /\ typing' \subseteq typing
  BY DEF ReplyDelivered, ReplyFails, CcStops, HandleStop
<1>3. asked' \in [Plugins -> Names \cup {NoName}] /\ stops' \subseteq Plugins
  BY SInvFacts DEF ReplyDelivered, ReplyFails, CcStops, HandleStop, OtherParts
<1>4. OtherParts'
  BY <1>1, <1>3, SInvFacts DEF OtherParts, Names
<1>5. Recent'
  <2>1. ASSUME NEW c \in calls, ReplyDelivered(c) PROVE Recent'
    BY <2>1, SInvFacts, PushKeepsRecent DEF ReplyDelivered, Exchange
  <2>2. ASSUME UNCHANGED <<ring, log>> PROVE Recent'
    BY <2>2, SInvFacts DEF Recent
  <2> QED
    BY <2>1, <2>2 DEF ReplyFails, CcStops, HandleStop
<1>6. /\ active' \subseteq Members /\ calls' \subseteq Call
      /\ typing' \subseteq {name[p] : p \in Members}
      /\ \A c \in calls' : c.here => c.from \in Members /\ c.name = name[c.from]
  BY <1>2, SInvFacts
<1> QED
  BY <1>1, <1>4, <1>5, <1>6, QuietStep

LEMMA InitSInv == SessionsInit => SInv
<1> SUFFICES ASSUME SessionsInit PROVE SInv
  OBVIOUS
<1>1. Sound
  BY InitSound DEF SessionsInit
<1>2. Members = {}
  BY DEF SessionsInit, Init, Members, ToSet
<1>3. Recent
  BY EmptySeq, RingAssumption DEF SessionsInit, Recent
<1>4. Orders(before, Members)
  BY <1>2 DEF SessionsInit, Orders
<1>5. MemberParts
  BY DEF SessionsInit, MemberParts, TypingKnown, HereIsMember
<1>6. OtherParts
  BY RingAssumption DEF SessionsInit, OtherParts
<1> QED
  BY <1>1, <1>3, <1>4, <1>5, <1>6, SInvParts

LEMMA StepSInv == SInv /\ [SessionsNext]_sessionVars => SInv'
<1> SUFFICES ASSUME SInv, [SessionsNext]_sessionVars PROVE SInv'
  OBVIOUS
<1>1. ASSUME NEW p \in Plugins,
             (PluginStarts(p) \/ PluginConnects(p) \/ PluginSeesClose(p) \/ HandleLine(p))
                /\ UNCHANGED keptVars
      PROVE  SInv'
  BY <1>1, ForeignStep
<1>2. ASSUME NEW p \in Plugins, SessionEnds(p) \/ SessionRegisters(p) \/ SessionCloses(p)
      PROVE  SInv'
  BY <1>2, SessionEndsStep, SessionRegistersStep, SessionClosesStep
<1>3. ASSUME NEW p \in Plugins, Inbound(p) \/ Reply(p) PROVE SInv'
  BY <1>3, InboundStep, ReplyStep
<1>4. ASSUME NEW p \in Plugins, CcStops(p) \/ HandleStop(p) PROVE SInv'
  BY <1>4, CallsAndStopsStep
<1>5. ASSUME NEW c \in calls, ReplyDelivered(c) \/ ReplyFails(c) PROVE SInv'
  BY <1>5, CallsAndStopsStep
<1>6. ASSUME NEW n \in 1 .. Len(recency), SessionsReaped(n) PROVE SInv'
  BY <1>6, SessionsReapedStep
<1>7. CASE DaemonForgets
  BY <1>7, DaemonForgetsStep
<1>8. CASE UNCHANGED sessionVars
  <2>1. UNCHANGED vars /\ UNCHANGED keptVars
    BY <1>8 DEF sessionVars
  <2>2. Sound' /\ Members' = Members /\ name' = name
    BY <2>1, SInvFacts, RegistryUnchanged
  <2>3. Recent' /\ OtherParts'
    BY <2>1, SInvFacts DEF keptVars, Recent, OtherParts, Names
  <2> QED
    BY <2>1, <2>2, <2>3, SInvFacts, QuietStep DEF keptVars
<1> QED
  BY <1>1, <1>2, <1>3, <1>4, <1>5, <1>6, <1>7, <1>8 DEF SessionsNext

-----------------------------------------------------------------------------
(* Sessions: the theorems *)

\* What the daemon does with the sessions is, for the registry, what the
\* registry allows: the composition implements Registry.
THEOREM SessionsImplementRegistry == SessionsSpec => Spec
<1>1. SessionsInit => Init
  BY DEF SessionsInit
<1>2. [SessionsNext]_sessionVars => [Next]_vars
  <2> SUFFICES ASSUME SessionsNext \/ UNCHANGED sessionVars PROVE Next \/ UNCHANGED vars
    OBVIOUS
  <2>1. ASSUME NEW p \in Plugins,
               \/ PluginStarts(p) \/ PluginConnects(p) \/ PluginSeesClose(p) \/ HandleLine(p)
               \/ SessionEnds(p) \/ SessionRegisters(p) \/ SessionCloses(p) \/ Reply(p)
        PROVE  Next
    BY <2>1 DEF Next, SessionEnds, SessionRegisters, SessionCloses, Reply
  <2>2. ASSUME NEW n \in 1 .. Len(recency), SessionsReaped(n) PROVE Next
    BY <2>2 DEF Next, SessionsReaped
  <2>3. CASE DaemonForgets
    BY <2>3 DEF Next, DaemonForgets
  <2>4. ASSUME \/ \E p \in Plugins : Inbound(p) \/ CcStops(p) \/ HandleStop(p)
               \/ \E c \in calls : ReplyDelivered(c) \/ ReplyFails(c)
               \/ UNCHANGED sessionVars
        PROVE  UNCHANGED vars
    BY <2>4 DEF Inbound, CcStops, HandleStop, ReplyDelivered, ReplyFails, sessionVars
  <2> QED
    BY <2>1, <2>2, <2>3, <2>4 DEF SessionsNext
<1> QED
  BY <1>1, <1>2, PTL DEF SessionsSpec, Spec

\* So the registry is sound in the daemon too, whatever its listeners do.
THEOREM SessionsRegistrySound ==
  ASSUME Trim <= Cap PROVE SessionsSpec => []RegistrySound
BY SessionsImplementRegistry, RegistryIsSound, PTL

\* No typing dot outlives the session it is shown for: registrations, evictions,
\* reaps, closes, restarts and late replies, in any order (index.ts:103-107).
THEOREM NoDotOutlivesItsSession == SessionsSpec => []TypingHasSession
<1>1. SInv => TypingHasSession
  BY DEF SInv, TypingHasSession, TypingKnown
<1> QED
  BY <1>1, InitSInv, StepSInv, PTL DEF SessionsSpec

\* The buffer behind /recent is the last RingCap exchanges delivered under its
\* name since that name was last evicted, the late reply of an evicted session
\* included (ring-buffer.ts:5-8).
THEOREM RecentShowsLatest == SessionsSpec => []RecentIsLatest
<1>1. SInv => RecentIsLatest
  BY DEF SInv, Recent, RecentIsLatest
<1> QED
  BY <1>1, InitSInv, StepSInv, PTL DEF SessionsSpec
\* The members whose turn is ended though their connection lasts.
Ended(p) == p \in Members /\ p \in active /\ p \notin active' /\ conn'[p] = "registered"

Cause(p) ==
    \/ \E c \in calls \ calls' : c.from = p \/ (c.name = name[p] /\ ~c.here)
    \/ \E q \in stops \ stops' : CwdOf[q] = CwdOf[p]

\* Who leaves the registry is not registered any more.
LEMMA RemovalEndsNoOther ==
  ASSUME SInv,
         \/ \E p \in Plugins : SessionRegisters(p) \/ SessionCloses(p)
         \/ \E n \in 1 .. Len(recency) : SessionsReaped(n)
         \/ DaemonForgets
  PROVE  \A q \in Plugins : ~Ended(q)
<1> SUFFICES ASSUME NEW q \in Plugins, Ended(q) PROVE FALSE
  OBVIOUS
<1>1. Sound /\ q \in Members /\ q \in active /\ q \notin active' /\ conn'[q] = "registered"
  BY SInvFacts DEF Ended
<1>2. ASSUME NEW p \in Plugins, SessionRegisters(p) PROVE FALSE
  <2>1. active' = active \ {r \in Members : conn'[r] # "registered"}
    BY <1>2 DEF SessionRegisters, NotifyRemoved
  <2> QED
    BY <1>1, <2>1
<1>3. ASSUME NEW p \in Plugins, SessionCloses(p) PROVE FALSE
  <2>1. active' = active \ ({p} \cap Members)
    BY <1>3 DEF SessionCloses, NotifyRemoved
  <2>2. q = p
    BY <1>1, <2>1
  <2>3. conn' = [conn EXCEPT ![p] = "none"]
    BY <1>3 DEF SessionCloses, SocketCloses
  <2>4. conn'[p] = "none"
    BY <2>3, <1>1 DEF Sound, TypeOK
  <2> QED
    BY <1>1, <2>2, <2>4
<1>4. ASSUME NEW n \in 1 .. Len(recency), SessionsReaped(n) PROVE FALSE
  <2>1. active' = active \ Firsts(recency, n) /\ conn' = Shut(conn, Firsts(recency, n))
    BY <1>4 DEF SessionsReaped, NotifyRemoved, Reap, Firsts
  <2>2. q \in Firsts(recency, n)
    BY <1>1, <2>1
  <2> QED
    BY <1>1, <2>1, <2>2 DEF Shut
<1>5. ASSUME DaemonForgets PROVE FALSE
  <2>1. conn' \in [Plugins -> {"none", "closed"}]
    BY <1>1, <1>5, RestartStep DEF DaemonForgets
  <2> QED
    BY <1>1, <2>1
<1> QED
  BY <1>2, <1>3, <1>4, <1>5

\* A reply ends the turn of the session that has the name of its call: its own,
\* or that of a lost connection.
LEMMA DeliveryEndsItsTurn ==
  ASSUME SInv, NEW c \in calls, ReplyDelivered(c), NEW p \in Members, Ended(p)
  PROVE  Cause(p)
<1>1. /\ calls' = calls \ {c}
      /\ active' = active \ {q \in Members : name[q] = c.name}
  BY DEF ReplyDelivered
<1>2. name[p] = c.name
  BY <1>1 DEF Ended
<1>3. c.here => c.from \in Members /\ c.name = name[c.from]
  BY SInvFacts
<1>4. c.here => c.from = p
  BY <1>2, <1>3 DEF SInv, Sound, NamesUnique
<1>5. c \in calls \ calls'
  BY <1>1
<1>6. c.here \in BOOLEAN
  BY SInvFacts DEF Call
<1> QED
  BY <1>2, <1>4, <1>5, <1>6 DEF Cause

LEMMA StopEndsItsTurn ==
  ASSUME SInv, NEW q \in Plugins, HandleStop(q), NEW p \in Members, Ended(p)
  PROVE  Cause(p)
<1>1. q \in stops /\ stops' = stops \ {q}
  BY DEF HandleStop
<1>2. CwdOf[q] = CwdOf[p]
  <2>1. active' # active
    BY DEF Ended
  <2>2. PICK first \in Matching(q) : active' = active \ {first}
    BY <2>1 DEF HandleStop
  <2>3. first = p
    BY <2>2 DEF Ended
  <2> QED
    BY <2>2, <2>3 DEF Matching
<1> QED
  BY <1>1, <1>2 DEF Cause

LEMMA StepEnds ==
  ASSUME SInv, [SessionsNext]_sessionVars, NEW p \in Members, Ended(p)
  PROVE  Cause(p)
<1>1. p \in Plugins
  BY SInvFacts
<1>2. ASSUME NEW q \in Plugins, SessionRegisters(q) \/ SessionCloses(q) PROVE FALSE
  BY <1>1, <1>2, RemovalEndsNoOther
<1>3. ASSUME NEW n \in 1 .. Len(recency), SessionsReaped(n) PROVE FALSE
  BY <1>1, <1>3, RemovalEndsNoOther
<1>4. ASSUME DaemonForgets PROVE FALSE
  BY <1>1, <1>4, RemovalEndsNoOther
<1>5. ASSUME NEW c \in calls, ReplyDelivered(c) PROVE Cause(p)
  BY <1>5, DeliveryEndsItsTurn
<1>6. ASSUME NEW q \in Plugins, HandleStop(q) PROVE Cause(p)
  BY <1>6, StopEndsItsTurn
<1>7. ASSUME \/ \E q \in Plugins :
                   \/ (PluginStarts(q) \/ PluginConnects(q) \/ PluginSeesClose(q) \/ HandleLine(q))
                         /\ UNCHANGED keptVars
                   \/ SessionEnds(q) \/ Inbound(q) \/ Reply(q) \/ CcStops(q)
             \/ \E c \in calls : ReplyFails(c)
             \/ UNCHANGED sessionVars
      PROVE  FALSE
  <2>1. active \subseteq active'
    BY <1>7 DEF keptVars, sessionVars, SessionEnds, Inbound, Reply, CcStops, ReplyFails
  <2> QED
    BY <2>1 DEF Ended
<1> QED
  BY <1>2, <1>3, <1>4, <1>5, <1>6, <1>7 DEF SessionsNext

\* The turn of a session whose connection lasts ends with its own reply, a Stop
\* hook from its directory, or a late reply of a lost connection that had its
\* name, and with nothing else (index.ts:149-154, 207-220).
THEOREM NoOtherTurnEnds == SessionsSpec => OthersTurnsStand
<1> DEFINE Step == \A p \in Members :
                      (p \in active /\ p \notin active' /\ conn'[p] = "registered") =>
                          \/ \E c \in calls \ calls' : c.from = p \/ (c.name = name[p] /\ ~c.here)
                          \/ \E q \in stops \ stops' : CwdOf[q] = CwdOf[p]
<1>1. SInv /\ [SessionsNext]_sessionVars => Step
  BY StepEnds DEF Ended, Cause
<1>2. OthersTurnsStand <=> [][Step]_sessionVars
  BY DEF OthersTurnsStand
<1> HIDE DEF Step
<1> QED
  BY <1>1, <1>2, InitSInv, StepSInv, PTL DEF SessionsSpec
-----------------------------------------------------------------------------
(* Lifecycle: the inductive invariant *)

\* The parts of LifecycleTypeOK that are not about the registry.
OwnTypes ==
    /\ life \in {"up", "closing", "down"}
    /\ hooks \subseteq Hooks /\ strays \subseteq Plugins

SlashTypes ==
    /\ phase \in {"starting", "first", "subscribed"}
    /\ {lastRegistered, choices} \cup puts \subseteq SUBSET Names
    /\ debounce \in BOOLEAN
    /\ stale \subseteq Lapses
    /\ debounce => phase = "subscribed"
    /\ phase = "starting" => puts = {}

\* What the latest PUT and the choices say of the registry, as far as nothing is
\* under way and nothing was missed.
Fresh ==
    /\ phase = "subscribed" /\ ~debounce /\ "missed" \notin stale => lastRegistered = Listed
    /\ phase = "first" => puts = {lastRegistered}
    /\ phase = "first" /\ "missed" \notin stale => lastRegistered = Listed
    /\ "overtaken" \notin stale /\ puts # {} => puts = {lastRegistered}
    /\ phase = "subscribed" /\ "overtaken" \notin stale /\ puts = {} => choices = lastRegistered

\* A daemon that is up lists the open connections; one that is closing may list
\* closed ones; one that is down has none.
ByLife ==
    /\ life = "up" => ListedAreOpen
    /\ life = "down" => /\ Members = {}
                        /\ \A p \in Plugins : conn[p] \notin {"accepted", "registered"}

LInv == Coherent /\ ByLife /\ OwnTypes /\ SlashTypes /\ Fresh

LEMMA LInvTypes == LInv => LifecycleTypeOK
BY DEF LInv, LifecycleTypeOK, Coherent, OwnTypes, SlashTypes

LEMMA ListedAreNames == Coherent => Listed \subseteq Names
BY DEF Coherent, MembersNamed, Listed

LEMMA ListedStays ==
  ASSUME Members' = Members, \A p \in Members : name'[p] = name[p]
  PROVE  Listed' = Listed
BY DEF Listed

\* Where the list and what was made of it are left alone.
LEMMA SlashStays ==
  ASSUME SlashTypes, Fresh, Listed' = Listed, UNCHANGED slashVars
  PROVE  SlashTypes' /\ Fresh'
<1>1. UNCHANGED <<phase, lastRegistered, debounce, puts, choices, stale>>
  BY DEF slashVars
<1>2. SlashTypes'
  BY <1>1 DEF SlashTypes, Names, Lapses
<1> QED
  BY <1>1, <1>2 DEF Fresh

\* After a change of the registry the timer runs, or the change is known to be
\* missed (onChange is subscribed after the first PUT).
LEMMA NotifyChangeStep ==
  ASSUME SlashTypes, Fresh, NotifyChange
  PROVE  SlashTypes' /\ Fresh' /\ UNCHANGED <<life, hooks, strays>>
<1>1. /\ debounce' = (debounce \/ phase = "subscribed")
      /\ stale' = CASE phase = "first" -> stale \cup {"missed"}
                    [] phase = "subscribed" -> stale \ {"missed"}
                    [] OTHER -> stale
      /\ UNCHANGED <<life, hooks, strays, phase, lastRegistered, puts, choices>>
  BY DEF NotifyChange
<1>2. /\ phase = "first" => stale' = stale \cup {"missed"}
      /\ phase = "subscribed" => stale' = stale \ {"missed"}
      /\ phase = "starting" => stale' = stale
  BY <1>1
<1>3. stale' \subseteq Lapses /\ ("overtaken" \in stale' <=> "overtaken" \in stale)
  BY <1>2 DEF SlashTypes, Lapses
<1>4. SlashTypes'
  BY <1>1, <1>3 DEF SlashTypes, Names, Lapses
<1>5. Fresh'
  <2>1. phase' = "subscribed" => debounce'
    BY <1>1
  <2>2. phase' = "first" => "missed" \in stale'
    BY <1>1, <1>2
  <2> QED
    BY <1>1, <1>3, <2>1, <2>2 DEF Fresh
<1> QED
  BY <1>1, <1>4, <1>5

LEMMA GraceEndsStep ==
  ASSUME LInv, GraceEnds
  PROVE  SlashTypes' /\ Fresh'
<1>1. /\ phase' = "first" /\ lastRegistered' = Listed /\ puts' = {Listed}
      /\ UNCHANGED <<vars, debounce, choices, stale>>
  BY DEF GraceEnds
<1>2. Listed' = Listed /\ Listed \subseteq Names
  BY <1>1, ListedAreNames DEF vars, Listed, Members, LInv
<1>3. SlashTypes'
  <2>1. ~debounce
    BY DEF GraceEnds, LInv, SlashTypes
  <2> QED
    BY <1>1, <1>2, <2>1 DEF LInv, SlashTypes, Names, Lapses
<1> QED
  BY <1>1, <1>2, <1>3 DEF Fresh

LEMMA PutEndsStep ==
  ASSUME LInv, NEW list \in puts, PutEnds(list)
  PROVE  SlashTypes' /\ Fresh'
<1>1. /\ puts' = puts \ {list} /\ phase' = "subscribed"
      /\ \/ /\ choices' = list
            /\ stale' = IF puts = {lastRegistered} THEN stale \ {"overtaken"} ELSE stale
         \/ choices' = choices /\ stale' = stale \cup {"overtaken"}
      /\ UNCHANGED <<vars, lastRegistered, debounce>>
  BY DEF PutEnds
<1>2. Listed' = Listed
  BY <1>1 DEF vars, Listed, Members
<1>3. phase \in {"first", "subscribed"} /\ (phase = "first" => ~debounce)
  BY DEF LInv, SlashTypes
<1>4. stale' \subseteq Lapses /\ ("missed" \in stale' <=> "missed" \in stale)
  BY <1>1 DEF LInv, SlashTypes, Lapses
<1>5. SlashTypes'
  <2>1. choices' \in SUBSET Names
    BY <1>1 DEF LInv, SlashTypes
  <2> QED
    BY <1>1, <1>4, <2>1 DEF LInv, SlashTypes, Names, Lapses
<1>6. ~debounce' /\ "missed" \notin stale' => lastRegistered' = Listed'
  BY <1>1, <1>2, <1>3, <1>4 DEF LInv, Fresh
<1>7. "overtaken" \notin stale' => puts = {lastRegistered} /\ choices' = list
  BY <1>1 DEF LInv, Fresh
<1>8. "overtaken" \notin stale' => puts' = {} /\ choices' = lastRegistered'
  BY <1>1, <1>7
<1> QED
  BY <1>1, <1>5, <1>6, <1>8 DEF Fresh

LEMMA DebounceFiresStep ==
  ASSUME LInv, DebounceFires
  PROVE  SlashTypes' /\ Fresh'
<1>1. /\ debounce' = FALSE /\ UNCHANGED <<vars, phase, choices>>
      /\ IF lastRegistered # Listed
         THEN /\ lastRegistered' = Listed
              /\ puts' = puts \cup {Listed}
              /\ stale' = IF puts = {} THEN stale ELSE stale \cup {"overtaken"}
         ELSE UNCHANGED <<lastRegistered, puts, stale>>
  BY DEF DebounceFires, WorkspaceListChanged
<1>2. Listed' = Listed /\ Listed \subseteq Names
  BY <1>1, ListedAreNames DEF vars, Listed, Members, LInv
<1>3. phase = "subscribed"
  BY DEF DebounceFires, LInv, SlashTypes
<1>4. lastRegistered' = Listed'
  BY <1>1, <1>2
<1>5. stale' \subseteq Lapses
  BY <1>1 DEF LInv, SlashTypes, Lapses
<1>6. SlashTypes'
  <2>1. {lastRegistered', choices'} \cup puts' \subseteq SUBSET Names
    BY <1>1, <1>2 DEF LInv, SlashTypes
  <2> QED
    BY <1>1, <1>3, <1>5, <2>1 DEF SlashTypes, Names, Lapses
<1>7. "overtaken" \notin stale' /\ puts' # {} => puts' = {lastRegistered'}
  BY <1>1 DEF LInv, Fresh
<1>8. "overtaken" \notin stale' /\ puts' = {} => choices' = lastRegistered'
  BY <1>1, <1>3 DEF LInv, Fresh
<1> QED
  BY <1>1, <1>3, <1>4, <1>6, <1>7, <1>8 DEF Fresh

\* A new process starts from nothing.
LEMMA ForgetsStep ==
  ASSUME SlashTypes, Forgets
  PROVE  SlashTypes' /\ Fresh' /\ hooks' = {} /\ strays' = {}
<1>1. /\ hooks' = {} /\ strays' = {}
      /\ phase' = "starting" /\ lastRegistered' = {} /\ debounce' = FALSE
      /\ puts' = {} /\ stale' = {} /\ choices' \in puts \cup {choices}
  BY DEF Forgets
<1>2. choices' \subseteq Names
  BY <1>1 DEF SlashTypes
<1>3. Names' = Names
  BY DEF Names
<1>4. \A l \in {lastRegistered', choices'} \cup puts' : l \subseteq Names'
  BY <1>1, <1>2, <1>3
<1>5. {} \subseteq Lapses'
  OBVIOUS
<1>6. SlashTypes'
  BY <1>1, <1>4, <1>5 DEF SlashTypes
<1> QED
  BY <1>1, <1>6 DEF Fresh
\* A plugin's own steps.
LEMMA PluginStepsStep ==
  ASSUME LInv, NEW p \in Plugins, PluginSteps(p)
  PROVE  LInv'
<1>1. /\ PluginStarts(p) \/ PluginSeesClose(p) \/ PluginExits(p) \/ (life = "up" /\ PluginConnects(p))
      /\ UNCHANGED <<life, hooks, strays, slashVars>>
  BY DEF PluginSteps
<1>2. PluginConnects(p) /\ life = "up" => p \notin Members
  BY DEF PluginConnects, LInv, ByLife, ListedAreOpen
<1>3. Coherent
  BY DEF LInv
<1>4. /\ Coherent' /\ Members' = Members /\ name' = name
      /\ ListedAreOpen => ListedAreOpen'
  BY <1>1, <1>2, <1>3, PluginStepKeepsCoherent
<1>5. ByLife'
  <2>1. life = "down" => \A q \in Plugins : conn'[q] \notin {"accepted", "registered"}
    BY <1>1, <1>3 DEF LInv, ByLife, PluginStarts, PluginSeesClose, PluginExits, Coherent, TypeOK
  <2> QED
    BY <1>1, <1>4, <2>1 DEF LInv, ByLife
<1>6. SlashTypes' /\ Fresh'
  BY <1>1, <1>4, ListedStays, SlashStays DEF LInv
<1> QED
  BY <1>1, <1>4, <1>5, <1>6 DEF LInv, OwnTypes

LEMMA RegistersStep ==
  ASSUME LInv, NEW p \in Plugins, Registers(p)
  PROVE  LInv'
<1>1. Coherent /\ HandleRegister(p) /\ NotifyChange /\ life # "down"
  BY DEF LInv, Registers
<1>2. SlashTypes' /\ Fresh' /\ UNCHANGED <<life, hooks, strays>>
  BY <1>1, NotifyChangeStep DEF LInv
<1>3. Coherent' /\ (ListedAreOpen => ListedAreOpen')
  BY <1>1, RegistryStepKeepsCoherent
<1> QED
  BY <1>1, <1>2, <1>3 DEF LInv, ByLife, OwnTypes

LEMMA ClosesStep ==
  ASSUME LInv, NEW p \in Plugins, Closes(p)
  PROVE  LInv'
<1>1. Coherent /\ SocketCloses(p)
  BY DEF LInv, Closes
<1>2. Coherent' /\ (ListedAreOpen => ListedAreOpen')
  BY <1>1, RegistryStepKeepsCoherent
<1>3. /\ Members' = IF conn[p] = "registered" THEN Members \ {p} ELSE Members
      /\ conn' = [conn EXCEPT ![p] = "none"]
      /\ IF conn[p] = "registered" THEN name' = Unnamed(name, {p}) ELSE name' = name
  BY <1>1, CloseStep
<1>4. SlashTypes' /\ Fresh' /\ UNCHANGED <<life, hooks, strays>>
  <2>1. CASE conn[p] = "registered"
    <3>1. NotifyChange
      BY <2>1 DEF Closes
    <3> QED
      BY <3>1, NotifyChangeStep DEF LInv
  <2>2. CASE conn[p] # "registered"
    <3>1. UNCHANGED <<life, hooks, strays, slashVars>>
      BY <2>2 DEF Closes
    <3>2. Listed' = Listed
      BY <1>3, <2>2, ListedStays
    <3> QED
      BY <3>1, <3>2, SlashStays DEF LInv
  <2> QED
    BY <2>1, <2>2
<1>5. \A q \in Plugins : conn'[q] = IF q = p THEN "none" ELSE conn[q]
  BY <1>1, <1>3 DEF Coherent, TypeOK
<1>6. ByLife'
  BY <1>2, <1>3, <1>4, <1>5 DEF LInv, ByLife
<1> QED
  BY <1>2, <1>4, <1>6 DEF LInv, OwnTypes

LEMMA LineAndReapStep ==
  ASSUME LInv,
         \/ \E p \in Plugins : HandleLine(p) /\ UNCHANGED <<life, hooks, strays, slashVars>>
         \/ \E n \in 1 .. Len(recency) : Reaped(n)
  PROVE  LInv'
<1>1. ASSUME NEW p \in Plugins, HandleLine(p), UNCHANGED <<life, hooks, strays, slashVars>>
      PROVE  LInv'
  <2>1. Coherent /\ life # "down"
    BY <1>1 DEF LInv, ByLife, HandleLine
  <2>2. Coherent' /\ (ListedAreOpen => ListedAreOpen')
    BY <1>1, <2>1, RegistryStepKeepsCoherent
  <2>3. Listed' = Listed
    BY <1>1, <2>1, LineStep, ListedStays
  <2>4. SlashTypes' /\ Fresh'
    BY <1>1, <2>3, SlashStays DEF LInv
  <2> QED
    BY <1>1, <2>1, <2>2, <2>4 DEF LInv, ByLife, OwnTypes
<1>2. ASSUME NEW n \in 1 .. Len(recency), Reaped(n)
      PROVE  LInv'
  <2>1. Coherent /\ Reap(n) /\ NotifyChange /\ life = "up"
    BY <1>2 DEF LInv, Reaped
  <2>2. Coherent' /\ (ListedAreOpen => ListedAreOpen')
    BY <2>1, ReapKeepsCoherent
  <2>3. SlashTypes' /\ Fresh' /\ UNCHANGED <<life, hooks, strays>>
    BY <2>1, NotifyChangeStep DEF LInv
  <2> QED
    BY <2>1, <2>2, <2>3 DEF LInv, ByLife, OwnTypes
<1> QED
  BY <1>1, <1>2

\* Where the registry is left alone.
LEMMA RegistryStays ==
  ASSUME Coherent, UNCHANGED vars
  PROVE  Coherent' /\ Listed' = Listed /\ Members' = Members /\ conn' = conn
         /\ (ListedAreOpen => ListedAreOpen')
BY DEF vars, Coherent, TypeOK, NamesUnique, ListedAreOpen, MembersNamed, Members, Names, Listed

LEMMA SlashStep ==
  ASSUME LInv, GraceEnds \/ DebounceFires \/ \E list \in puts : PutEnds(list)
  PROVE  LInv'
<1>1. SlashTypes' /\ Fresh'
  BY GraceEndsStep, DebounceFiresStep, PutEndsStep
<1>2. UNCHANGED vars /\ UNCHANGED <<life, hooks, strays>>
  BY DEF GraceEnds, DebounceFires, PutEnds
<1>3. Coherent' /\ Members' = Members /\ conn' = conn /\ (ListedAreOpen => ListedAreOpen')
  BY <1>2, RegistryStays DEF LInv
<1> QED
  BY <1>1, <1>2, <1>3 DEF LInv, ByLife, OwnTypes

LEMMA HooksAndStartStep ==
  ASSUME LInv, DaemonStarts \/ \E h \in Hooks : HookAsks(h) \/ HookEnds(h)
  PROVE  LInv'
<1>1. UNCHANGED vars /\ UNCHANGED slashVars /\ UNCHANGED strays
  BY DEF DaemonStarts, HookAsks, HookEnds
<1>2. /\ Coherent' /\ Listed' = Listed /\ Members' = Members /\ conn' = conn
      /\ ListedAreOpen => ListedAreOpen'
  BY <1>1, RegistryStays DEF LInv
<1>3. SlashTypes' /\ Fresh'
  BY <1>1, <1>2, SlashStays DEF LInv
<1>4. OwnTypes'
  BY <1>1 DEF DaemonStarts, HookAsks, HookEnds, LInv, OwnTypes
<1>5. ByLife'
  <2>1. CASE DaemonStarts
    <3>1. ListedAreOpen
      BY <2>1 DEF DaemonStarts, LInv, ByLife, ListedAreOpen
    <3> QED
      BY <1>2, <2>1, <3>1 DEF DaemonStarts, ByLife
  <2>2. CASE life' = life
    BY <1>2, <2>2 DEF LInv, ByLife
  <2> QED
    BY <2>1, <2>2 DEF HookAsks, HookEnds
<1> QED
  BY <1>2, <1>3, <1>4, <1>5 DEF LInv

\* onShutdown closes what is registered and leaves it listed.
LEMMA ShutdownStep ==
  ASSUME LInv, Shutdown
  PROVE  LInv'
<1>1. /\ life' = "closing" /\ strays' \subseteq Plugins
      /\ conn' = Shut(conn, Members)
      /\ UNCHANGED <<alive, up, name, recency, hooks, slashVars>>
  BY DEF Shutdown
<1>2. Coherent /\ Listing
  BY TypeLists DEF LInv, Coherent
<1>3. \A q \in Plugins :
         conn'[q] = IF q \in Members /\ conn[q] = "registered" THEN "closed" ELSE conn[q]
  BY <1>1 DEF Shut
<1>4. conn' \in [Plugins -> {"none", "accepted", "registered", "closed"}]
  BY <1>1, <1>2, <1>3 DEF Shut, Coherent, TypeOK
<1> DEFINE gone == {}
<1>5. \A q \in Plugins : /\ conn'[q] = "registered" => conn[q] = "registered" /\ q \notin gone
                         /\ conn'[q] = "accepted" => conn[q] = "accepted"
  BY <1>3
<1>6. Listing' /\ Members' = Members \ gone /\ Members' = Members
  BY <1>1, <1>2 DEF Listing, Members
<1> HIDE DEF gone
<1>7. Coherent'
  BY <1>1, <1>2, <1>4, <1>5, <1>6, RemovalKeepsCoherent
<1>8. SlashTypes' /\ Fresh'
  BY <1>1, <1>6, ListedStays, SlashStays DEF LInv
<1>9. ByLife' /\ OwnTypes'
  BY <1>1 DEF LInv, ByLife, OwnTypes
<1> QED
  BY <1>7, <1>8, <1>9 DEF LInv

LEMMA DaemonEndsStep ==
  ASSUME LInv, DaemonExits \/ DaemonKilled
  PROVE  LInv'
<1>1. /\ SlashTypes' /\ Fresh' /\ hooks' = {} /\ strays' = {}
  BY ForgetsStep DEF DaemonExits, DaemonKilled, LInv
<1>2. CASE DaemonExits
  <2>1. /\ recency' = <<>> /\ name' = Unnamed(name, Plugins) /\ life' = "down"
        /\ UNCHANGED <<alive, up, conn>>
        /\ \A p \in Plugins : conn[p] \notin {"accepted", "registered"}
    BY <1>2 DEF DaemonExits
  <2>2. Listing' /\ Members' = {}
    BY <2>1, EmptySeq DEF Listing, Members, Distinct, ToSet
  <2>3. name' = [p \in Plugins |-> NoName]
    BY <2>1 DEF Unnamed
  <2>4. TypeOK'
    BY <2>1, <2>2, <2>3 DEF LInv, Coherent, TypeOK, Listing, Distinct
  <2>5. Coherent'
    BY <2>1, <2>2, <2>4 DEF Coherent, NamesUnique, MembersNamed
  <2>6. ByLife'
    BY <2>1, <2>2 DEF ByLife
  <2> QED
    BY <1>1, <2>1, <2>5, <2>6 DEF LInv, OwnTypes
<1>3. CASE DaemonKilled
  <2>1. Sound' /\ life' = "up"
    BY <1>3, RestartKeepsSound DEF DaemonKilled, LInv
  <2>2. Coherent' /\ ByLife'
    BY <2>1 DEF Sound, Coherent, ListedAreOpen, ByLife
  <2> QED
    BY <1>1, <2>1, <2>2 DEF LInv, OwnTypes
<1> QED
  BY <1>2, <1>3

LEMMA InitLInv == LifecycleInit => LInv
<1> SUFFICES ASSUME LifecycleInit PROVE LInv
  OBVIOUS
<1>1. Coherent /\ ListedAreOpen
  BY InitSound, SoundIsCoherent DEF LifecycleInit
<1> QED
  BY <1>1 DEF LifecycleInit, LInv, ByLife, OwnTypes, SlashTypes, Fresh

LEMMA StepLInv == LInv /\ [LifecycleNext]_lifecycleVars => LInv'
<1> SUFFICES ASSUME LInv, [LifecycleNext]_lifecycleVars PROVE LInv'
  OBVIOUS
<1>1. ASSUME NEW p \in Plugins, PluginSteps(p) \/ Registers(p) \/ Closes(p) PROVE LInv'
  BY <1>1, PluginStepsStep, RegistersStep, ClosesStep
<1>2. CASE \/ \E p \in Plugins : HandleLine(p) /\ UNCHANGED <<life, hooks, strays, slashVars>>
           \/ \E n \in 1 .. Len(recency) : Reaped(n)
  BY <1>2, LineAndReapStep
<1>3. CASE GraceEnds \/ DebounceFires \/ \E list \in puts : PutEnds(list)
  BY <1>3, SlashStep
<1>4. CASE DaemonStarts \/ \E h \in Hooks : HookAsks(h) \/ HookEnds(h)
  BY <1>4, HooksAndStartStep
<1>5. CASE Shutdown
  BY <1>5, ShutdownStep
<1>6. CASE DaemonExits \/ DaemonKilled
  BY <1>6, DaemonEndsStep
<1>7. CASE UNCHANGED lifecycleVars
  <2>1. UNCHANGED vars /\ UNCHANGED slashVars /\ UNCHANGED <<life, hooks, strays>>
    BY <1>7 DEF lifecycleVars
  <2>2. /\ Coherent' /\ Listed' = Listed /\ Members' = Members /\ conn' = conn
        /\ ListedAreOpen => ListedAreOpen'
    BY <2>1, RegistryStays DEF LInv
  <2>3. SlashTypes' /\ Fresh'
    BY <2>1, <2>2, SlashStays DEF LInv
  <2> QED
    BY <2>1, <2>2, <2>3 DEF LInv, ByLife, OwnTypes
<1> QED
  BY <1>1, <1>2, <1>3, <1>4, <1>5, <1>6, <1>7 DEF LifecycleNext

-----------------------------------------------------------------------------
(* Lifecycle: the theorems *)

\* Once no PUT and no timer is under way Discord offers what the registry holds,
\* unless a change fell into the first registration or a PUT failed or was
\* overtaken (index.ts:305-326).
THEOREM ChoicesSettle == LifecycleSpec => []SettledIsRight
<1>1. LInv => SettledIsRight
  BY LInvTypes DEF LInv, Fresh, SettledIsRight
<1> QED
  BY <1>1, InitLInv, StepLInv, PTL DEF LifecycleSpec

\* A daemon that is up lists the open registered connections and no other, and
\* even while it closes no two of those it lists have a name in common.
THEOREM UpListsOpen == LifecycleSpec => [](NamesUnique /\ (life = "up" => ListedAreOpen))
<1>1. LInv => NamesUnique /\ (life = "up" => ListedAreOpen)
  BY DEF LInv, Coherent, ByLife
<1> QED
  BY <1>1, InitLInv, StepLInv, PTL DEF LifecycleSpec
=============================================================================
