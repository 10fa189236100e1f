----------------------------- MODULE TurnProofs -----------------------------
(***************************************************************************)
(* Proofs about Turn, for every set of chats, every bound and every choice *)
(* of Habits: type correctness, the sunset timer, the scope of a cancel,   *)
(* the cached trace thread, and the turns while nothing comes before its   *)
(* time.                                                                   *)
(***************************************************************************)
EXTENDS Turn, TLAPS

\* Claude Code at work has taken a message: it replies and stops for a turn.
BusyTook == busy => taken > 0

\* The thread of a trace is made when its opening ends, not before.
MadeWhenOpened == \A i \in Traces : i \in made => trace[i] \in {"posting", "over"}

\* The inductive invariant.  That the archived threads exist (TypeOK) rests on
\* CachedThreadIsLive, and this on MadeWhenOpened: a thread that is cached late,
\* by an opening that outlived its turn, cannot have been archived before.
IInv ==
    /\ TypeOK
    /\ BusyTook
    /\ MadeWhenOpened
    /\ TimerMeansSunset
    /\ CancelHitsItsTurn
    /\ CachedThreadIsLive

LEMMA InitIInv == Init => IInv
<1> SUFFICES ASSUME Init PROVE IInv
  OBVIOUS
<1> USE BoundsAssumption
<1>1. inbounds \in Seq(Chats) /\ Len(inbounds) = 0
  BY DEF Init
<1>2. 0 \in 0 .. MaxInbounds /\ taken \in 0 .. Len(inbounds)
  BY <1>1 DEF Init
<1>3. /\ trace \in [Traces -> {"unborn", "sent", "opening", "orphaned", "posting", "over"}]
      /\ traceTurn \in [Traces -> 0 .. MaxInbounds]
      /\ into \in [Traces -> Traces \cup {0}]
  BY <1>2 DEF Init
<1>4. TypeOK
  <2>1. Len(inbounds) <= MaxInbounds
    BY <1>1
  <2>2. /\ turnState = "idle" /\ timer = FALSE /\ cancelPending = FALSE /\ chat = NoChat
        /\ thread = 0 /\ typing = {} /\ cancelAt = 0 /\ busy = FALSE
        /\ replying = {} /\ replied = {} /\ stopping = {} /\ made = {} /\ archiving = {} /\ archived = {} /\ calm = TRUE
    BY DEF Init
  <2> QED
    BY <1>1, <1>2, <1>3, <2>1, <2>2 DEF TypeOK
<1> QED
  BY <1>4 DEF Init, IInv, BusyTook, MadeWhenOpened, TimerMeansSunset, CancelHitsItsTurn,
              CachedThreadIsLive, View, IsInTurn, Traces

\* The sequence of inbounds only grows, by one chat.
LEMMA InboundType ==
  ASSUME TypeOK, NEW c \in Chats, Inbound(c)
  PROVE  /\ inbounds' \in Seq(Chats)
         /\ Len(inbounds') = Len(inbounds) + 1
         /\ Len(inbounds') <= MaxInbounds
<1>1. /\ inbounds \in Seq(Chats) /\ Len(inbounds) \in Nat /\ Len(inbounds) < MaxInbounds
      /\ inbounds' = Append(inbounds, c)
  BY DEF TypeOK, Inbound
<1> QED
  BY <1>1, BoundsAssumption

\* Every step keeps the inductive invariant.
LEMMA StepIInv == IInv /\ [Next]_vars => IInv'
<1> SUFFICES ASSUME IInv, [Next]_vars
             PROVE  IInv'
  OBVIOUS
<1> USE BoundsAssumption DEF IInv, connVars, ccVars, traceVars, closing
<1>0. /\ Len(inbounds) \in Nat /\ MaxInbounds \in Nat /\ taken \in Nat
      /\ taken <= Len(inbounds) /\ Len(inbounds) <= MaxInbounds
      /\ busy => taken \in Turns
  BY DEF TypeOK, BusyTook, Turns
<1>1. ASSUME NEW c \in Chats, Inbound(c)
      PROVE  IInv'
  <2>1. inbounds' \in Seq(Chats) /\ Len(inbounds') <= MaxInbounds /\ taken \in 0 .. Len(inbounds')
    BY <1>0, <1>1, InboundType
  <2>2. typing' \subseteq Chats
    BY <1>1 DEF TypeOK, Inbound
  <2>3. TypeOK'
    BY <1>1, <2>1, <2>2 DEF TypeOK, Inbound, StartTurn
  <2> QED
    BY <1>1, <2>3 DEF Inbound, StartTurn, BusyTook, MadeWhenOpened, TimerMeansSunset,
                      CancelHitsItsTurn, CachedThreadIsLive, View, IsInTurn
<1>2. ASSUME NEW c \in Chats, TypingCap(c)
      PROVE  IInv'
  BY <1>2 DEF TypingCap, TypeOK, BusyTook, MadeWhenOpened, TimerMeansSunset,
              CancelHitsItsTurn, CachedThreadIsLive, View, IsInTurn
<1>3. CASE HandleCancel
  BY <1>0, <1>3 DEF HandleCancel, TypeOK, BusyTook, MadeWhenOpened, TimerMeansSunset,
              CancelHitsItsTurn, CachedThreadIsLive, View, IsInTurn
<1>4. CASE SunsetEnds
  BY <1>4 DEF SunsetEnds, TypeOK, BusyTook, MadeWhenOpened, TimerMeansSunset,
              CancelHitsItsTurn, CachedThreadIsLive, View, IsInTurn
<1>5. CASE CcTakes \/ CcReplies \/ CcStops
  <2>1. TypeOK' /\ BusyTook'
    <3>1. CASE CcTakes
      BY <1>0, <3>1 DEF CcTakes, TypeOK, BusyTook
    <3>2. CASE CcReplies
      BY <1>0, <3>2 DEF CcReplies, TypeOK, BusyTook
    <3>3. CASE CcStops
      BY <1>0, <3>3 DEF CcStops, TypeOK, BusyTook
    <3> QED
      BY <1>5, <3>1, <3>2, <3>3
  <2>2. UNCHANGED <<connVars, inbounds, cancelAt, traceVars, closing>>
    BY <1>5 DEF CcTakes, CcReplies, CcStops
  <2> QED
    BY <2>1, <2>2 DEF MadeWhenOpened, TimerMeansSunset, CancelHitsItsTurn, CachedThreadIsLive,
                      View, IsInTurn
<1>6. ASSUME NEW i \in Traces, CcRunsTool(i)
      PROVE  IInv'
  <2>1. TypeOK'
    BY <1>6 DEF CcRunsTool, TypeOK
  <2>2. MadeWhenOpened'
    BY <1>6 DEF CcRunsTool, TypeOK, MadeWhenOpened
  <2> QED
    BY <1>6, <2>1, <2>2 DEF CcRunsTool, BusyTook, TimerMeansSunset, CancelHitsItsTurn,
                            CachedThreadIsLive, View, IsInTurn
<1>7. ASSUME NEW i \in Traces, HandleTrace(i)
      PROVE  IInv'
  <2>1. TypeOK'
    <3>1. traceTurn' \in [Traces -> 0 .. MaxInbounds]
      BY <1>0, <1>7 DEF HandleTrace, TypeOK
    <3>2. trace' \in [Traces -> {"unborn", "sent", "opening", "orphaned", "posting", "over"}]
      BY <1>7, SMTT(30) DEF HandleTrace, TypeOK
    <3>3. into' \in [Traces -> Traces \cup {0}]
      <4>1. into' \in {into, [into EXCEPT ![i] = thread]}
        BY <1>7 DEF HandleTrace
      <4> QED
        BY <4>1 DEF TypeOK
    <3> QED
      BY <1>7, <3>1, <3>2, <3>3 DEF HandleTrace, TypeOK
  <2>2. MadeWhenOpened'
    BY <1>7 DEF HandleTrace, TypeOK, MadeWhenOpened
  <2> QED
    BY <1>7, <2>1, <2>2 DEF HandleTrace, BusyTook, TimerMeansSunset, CancelHitsItsTurn,
                            CachedThreadIsLive, View, IsInTurn
<1>8. ASSUME NEW i \in Traces, ThreadOpened(i)
      PROVE  IInv'
  <2>1. TypeOK'
    BY <1>8 DEF ThreadOpened, TypeOK
  <2>2. MadeWhenOpened'
    BY <1>8 DEF ThreadOpened, TypeOK, MadeWhenOpened
  <2>3. i \notin made /\ i \notin archiving \cup archived
    BY <1>8 DEF ThreadOpened, TypeOK, MadeWhenOpened
  <2>4. CachedThreadIsLive'
    BY <1>8, <2>3 DEF ThreadOpened, CachedThreadIsLive
  <2> QED
    BY <1>8, <2>1, <2>2, <2>4 DEF ThreadOpened, BusyTook, TimerMeansSunset, CancelHitsItsTurn,
                                  View, IsInTurn
<1>13. ASSUME NEW i \in Traces, OpeningFails(i) \/ TracePosted(i) \/ ThreadArchived(i)
       PROVE  IInv'
  <2>1. CASE OpeningFails(i)
    <3>1. TypeOK'
      BY <2>1 DEF OpeningFails, TypeOK
    <3>2. MadeWhenOpened'
      BY <2>1 DEF OpeningFails, TypeOK, MadeWhenOpened
    <3> QED
      BY <2>1, <3>1, <3>2 DEF OpeningFails, BusyTook, TimerMeansSunset, CancelHitsItsTurn,
                              CachedThreadIsLive, View, IsInTurn
  <2>2. CASE TracePosted(i)
    <3>1. TypeOK'
      BY <2>2 DEF TracePosted, TypeOK
    <3>2. MadeWhenOpened'
      BY <2>2 DEF TracePosted, TypeOK, MadeWhenOpened
    <3>3. archived' \subseteq archived
      BY <2>2 DEF TracePosted
    <3> QED
      BY <2>2, <3>1, <3>2, <3>3 DEF TracePosted, BusyTook, TimerMeansSunset, CancelHitsItsTurn,
                                    CachedThreadIsLive, View, IsInTurn
  <2>3. CASE ThreadArchived(i)
    <3>1. archiving' \cup archived' \subseteq archiving \cup archived
      BY <2>3 DEF ThreadArchived
    <3>2. TypeOK'
      BY <2>3, <3>1 DEF ThreadArchived, TypeOK
    <3> QED
      BY <2>3, <3>1, <3>2 DEF ThreadArchived, BusyTook, MadeWhenOpened, TimerMeansSunset,
                              CancelHitsItsTurn, CachedThreadIsLive, View, IsInTurn
  <2> QED
    BY <1>13, <2>1, <2>2, <2>3
<1>9. ASSUME NEW n \in Turns, ReplyDelivered(n) \/ ReplyFails(n)
      PROVE  IInv'
  <2>1. TypeOK'
    <3>1. typing' \subseteq Chats
      BY <1>9 DEF ReplyDelivered, ReplyFails, TypeOK
    <3>2. CASE ReplyDelivered(n)
      BY <3>1, <3>2 DEF ReplyDelivered, StartSunset, TypeOK
    <3>3. CASE ReplyFails(n)
      BY <3>1, <3>3 DEF ReplyFails, TypeOK
    <3> QED
      BY <1>9, <3>2, <3>3
  <2>2. CASE ReplyDelivered(n)
    BY <2>1, <2>2 DEF ReplyDelivered, StartSunset, BusyTook, MadeWhenOpened, TimerMeansSunset,
                      CancelHitsItsTurn, CachedThreadIsLive, View, IsInTurn
  <2>3. CASE ReplyFails(n)
    BY <2>1, <2>3 DEF ReplyFails, BusyTook, MadeWhenOpened, TimerMeansSunset,
                      CancelHitsItsTurn, CachedThreadIsLive, View, IsInTurn
  <2> QED
    BY <1>9, <2>2, <2>3
<1>10. ASSUME NEW n \in Turns, HandleStop(n)
       PROVE  IInv'
  <2>1. archiving' \cup archived' \subseteq made
    BY <1>10 DEF HandleStop, ArchiveThread, TypeOK, CachedThreadIsLive
  <2>2. TypeOK'
    BY <1>10, <2>1 DEF HandleStop, ArchiveThread, ClearTurn, TypeOK
  <2> QED
    BY <1>10, <2>2 DEF HandleStop, ArchiveThread, ClearTurn, BusyTook, MadeWhenOpened, TimerMeansSunset,
                       CancelHitsItsTurn, CachedThreadIsLive, View, IsInTurn
<1>11. CASE Reconnect
  <2>1. trace' \in [Traces -> {"unborn", "sent", "opening", "orphaned", "posting", "over"}]
    BY <1>11 DEF Reconnect, TypeOK
  <2>2. TypeOK'
    BY <1>11, <2>1 DEF Reconnect, ClearTurn, TypeOK
  <2>3. MadeWhenOpened'
    BY <1>11 DEF Reconnect, TypeOK, MadeWhenOpened
  <2> QED
    BY <1>11, <2>2, <2>3 DEF Reconnect, ClearTurn, BusyTook, TimerMeansSunset,
                             CancelHitsItsTurn, CachedThreadIsLive, View, IsInTurn
<1>12. CASE UNCHANGED vars
  BY <1>12 DEF vars, TypeOK, BusyTook, MadeWhenOpened, TimerMeansSunset, CancelHitsItsTurn,
               CachedThreadIsLive, View, IsInTurn
<1> QED
  BY <1>1, <1>2, <1>3, <1>4, <1>5, <1>6, <1>7, <1>8, <1>9, <1>10, <1>11, <1>12, <1>13 DEF Next

LEMMA Invariance == Spec => []IInv
<1> QED
  BY InitIInv, StepIInv, PTL DEF Spec

\* The state of a turn stays well typed, and only existing threads are archived.
THEOREM TypeCorrect == Spec => []TypeOK
<1>1. IInv => TypeOK
  BY DEF IInv
<1> QED
  BY <1>1, Invariance, PTL

\* The sunset timer (connection.ts:121-130) is armed exactly in the sunset: no
\* timer of an old turn can end a new one, and every sunset has its end.
THEOREM TimerFitsState == Spec => []TimerMeansSunset
<1>1. IInv => TimerMeansSunset
  BY DEF IInv
<1> QED
  BY <1>1, Invariance, PTL

\* A /cancel denies tools of the turn it was given in and of no later one
\* (connection.ts:108-111), however replies, stops and inbounds interleave.
THEOREM CancelScoped == Spec => []CancelHitsItsTurn
<1>1. IInv => CancelHitsItsTurn
  BY DEF IInv
<1> QED
  BY <1>1, Invariance, PTL

\* The thread cached for tool traces exists, no Stop hook has archived it and none
\* is about to, also when it was opened by a trace of an earlier turn.  A post that
\* began before the Stop can still come after it (see CachedThreadIsLive).
THEOREM ThreadLive == Spec => []CachedThreadIsLive
<1>1. IInv => CachedThreadIsLive
  BY DEF IInv
<1> QED
  BY <1>1, Invariance, PTL

-----------------------------------------------------------------------------
(* Turns while nothing comes before its time *)

Latest == Len(inbounds)

\* Claude Code is in the turn of the latest message or has still to take it, with
\* one trace at a time on its way.
Serial ==
    /\ Latest <= taken + 1
    /\ taken < Latest => ~busy /\ stopping = {} /\ replying = {}
    /\ busy => stopping = {}
    /\ \A i \in Outstanding : busy /\ trace[i] # "orphaned"
    /\ \A i, j \in Outstanding : i = j
    /\ \A n \in replying \cup stopping : n = Latest

\* That turn has its chat, and is not over before it was replied to.
TurnKept ==
    /\ Latest > 0 => chat = inbounds[Latest]
    /\ (turnState # "active" /\ (busy \/ taken < Latest)) => Latest \in replied

\* The cached thread is that of the turn, and as long as none is cached the turn
\* has none.
ThreadKept ==
    /\ thread # 0 => traceTurn[thread] = Latest
    /\ \A i \in Traces : trace[i] = "opening" => thread = 0 /\ traceTurn[i] = Latest
    /\ (thread = 0 /\ (busy \/ taken < Latest)) => \A i \in made : traceTurn[i] # Latest
    /\ \A i \in made : traceTurn[i] <= Latest
    /\ \A i \in Traces : into[i] \in made \cup {0}
    /\ \A i \in Traces : trace[i] \in {"unborn", "sent", "opening"} => into[i] = 0

\* CalmTurns with what makes it inductive.
CalmInv == Serial /\ TurnKept /\ ThreadKept /\ OneThreadPerTurn

LEMMA CalmFacts ==
  ASSUME IInv
  PROVE  /\ Latest \in Nat /\ taken \in Nat /\ taken <= Latest /\ MaxInbounds \in Nat
         /\ thread \in Traces \cup {0} /\ made \subseteq Traces /\ 0 \notin Traces
         /\ DOMAIN trace = Traces /\ DOMAIN traceTurn = Traces /\ DOMAIN into = Traces
BY BoundsAssumption DEF IInv, TypeOK, Latest, Traces

\* A message comes when Claude Code is done with all before it.
LEMMA CalmInbound ==
  ASSUME IInv, CalmInv, calm', NEW c \in Chats, Inbound(c)
  PROVE  CalmInv'
<1>1. /\ Quiet /\ turnState' = "active" /\ chat' = c /\ thread' = 0 /\ inbounds' = Append(inbounds, c)
      /\ UNCHANGED <<taken, busy, replying, replied, stopping, trace, traceTurn, into, made>>
  BY DEF Inbound, StartTurn, ccVars, traceVars
<1>2. Latest' = Latest + 1 /\ inbounds'[Latest'] = c
  BY <1>1 DEF Latest, IInv, TypeOK
<1>3. Serial'
  BY <1>1, <1>2, CalmFacts DEF Serial, CalmInv, Quiet, Outstanding, Latest
<1>4. TurnKept'
  BY <1>1, <1>2 DEF TurnKept
<1>5. ThreadKept'
  <2>1. \A i \in made : traceTurn[i] <= Latest /\ traceTurn[i] \in Nat
    BY CalmFacts DEF CalmInv, ThreadKept, IInv, TypeOK
  <2>2. \A i \in Traces : trace[i] # "opening"
    BY <1>1 DEF Quiet, Outstanding
  <2> QED
    BY <1>1, <1>2, <2>1, <2>2, CalmFacts DEF ThreadKept, CalmInv
<1> QED
  BY <1>1, <1>3, <1>4, <1>5 DEF CalmInv, OneThreadPerTurn

\* What Claude Code does, and the end of its work.
LEMMA CalmCc ==
  ASSUME IInv, CalmInv, calm', CcTakes \/ CcReplies \/ CcStops
  PROVE  CalmInv'
<1>1. UNCHANGED <<turnState, chat, thread, inbounds, replied, trace, traceTurn, into, made>>
  BY DEF CcTakes, CcReplies, CcStops, connVars, traceVars
<1>2. Latest' = Latest
  BY <1>1 DEF Latest
<1>3. CASE CcTakes
  <2>1. /\ ~busy /\ taken < Latest /\ busy' /\ taken' = taken + 1
        /\ UNCHANGED <<replying, stopping>>
    BY <1>3 DEF CcTakes, Latest
  <2> QED
    BY <1>1, <1>2, <2>1, CalmFacts
       DEF CalmInv, Serial, TurnKept, ThreadKept, OneThreadPerTurn, Outstanding
<1>4. CASE CcReplies
  <2>1. busy /\ replying' = replying \cup {taken} /\ UNCHANGED <<taken, busy, stopping>>
    BY <1>4 DEF CcReplies
  <2>2. taken = Latest
    BY <2>1, CalmFacts DEF CalmInv, Serial
  <2> QED
    BY <1>1, <1>2, <2>1, <2>2, CalmFacts
       DEF CalmInv, Serial, TurnKept, ThreadKept, OneThreadPerTurn, Outstanding
<1>5. CASE CcStops
  <2>1. /\ busy /\ ~busy' /\ Outstanding = {} /\ UNCHANGED <<taken, replying>>
        /\ stopping' \in {stopping, stopping \cup {taken}}
    BY <1>5 DEF CcStops
  <2>2. taken = Latest
    BY <2>1, CalmFacts DEF CalmInv, Serial
  <2> QED
    BY <1>1, <1>2, <2>1, <2>2, CalmFacts
       DEF CalmInv, Serial, TurnKept, ThreadKept, OneThreadPerTurn, Outstanding
<1> QED
  BY <1>3, <1>4, <1>5

\* A trace is sent when the one before is posted, and opens a thread only if the
\* turn has none.
LEMMA CalmTraces ==
  ASSUME IInv, CalmInv, calm', NEW i \in Traces,
         \/ CcRunsTool(i) \/ HandleTrace(i)
         \/ ThreadOpened(i) \/ OpeningFails(i) \/ TracePosted(i)
  PROVE  CalmInv'
<1>1. UNCHANGED <<turnState, chat, inbounds, taken, busy, replying, replied, stopping>>
  BY DEF CcRunsTool, HandleTrace, ThreadOpened, OpeningFails, TracePosted, connVars, ccVars
<1>2. Latest' = Latest /\ TurnKept'
  BY <1>1 DEF Latest, CalmInv, TurnKept
<1>3. CASE CcRunsTool(i)
  <2>1. /\ busy /\ trace[i] = "unborn" /\ Outstanding = {} /\ trace' = [trace EXCEPT ![i] = "sent"]
        /\ UNCHANGED <<thread, traceTurn, into, made>>
    BY <1>3 DEF CcRunsTool, connVars
  <2>2. /\ \A j \in Traces \ {i} : trace'[j] = trace[j]
        /\ trace'[i] = "sent"
    BY <2>1, CalmFacts
  <2>3. Serial'
    BY <1>1, <1>2, <2>1, <2>2 DEF CalmInv, Serial, Outstanding
  <2> QED
    BY <1>2, <1>1, <2>1, <2>2, <2>3 DEF CalmInv, ThreadKept, OneThreadPerTurn
<1>4. CASE HandleTrace(i)
  <2>1. trace[i] = "sent" /\ UNCHANGED <<thread, made>>
    BY <1>4 DEF HandleTrace, connVars
  <2>2. \/ trace' = [trace EXCEPT ![i] = "over"] /\ UNCHANGED <<traceTurn, into>>
        \/ /\ thread # 0 /\ trace' = [trace EXCEPT ![i] = "posting"]
           /\ traceTurn' = [traceTurn EXCEPT ![i] = Latest]
           /\ into' = [into EXCEPT ![i] = thread]
        \/ /\ thread = 0 /\ trace' = [trace EXCEPT ![i] = "opening"] /\ into' = into
           /\ traceTurn' = [traceTurn EXCEPT ![i] = Latest]
    BY <1>4 DEF HandleTrace, Latest
  <2>3. /\ \A j \in Traces \ {i} : /\ trace'[j] = trace[j] /\ traceTurn'[j] = traceTurn[j]
                                   /\ into'[j] = into[j]
        /\ trace'[i] \in {"over", "posting", "opening"}
        /\ trace'[i] = "over" => traceTurn'[i] = traceTurn[i] /\ into'[i] = into[i]
        /\ trace'[i] # "over" => traceTurn'[i] = Latest
        /\ trace'[i] = "opening" => thread = 0 /\ into'[i] = into[i]
        /\ trace'[i] = "posting" => thread # 0 /\ into'[i] = thread
    BY <2>1, <2>2, CalmFacts
  <2>4. i \notin made /\ busy /\ into[i] = 0 /\ i \in Outstanding
    BY <2>1 DEF IInv, MadeWhenOpened, CalmInv, Serial, ThreadKept, Outstanding
  <2>5. Serial'
    BY <1>1, <1>2, <2>1, <2>3, <2>4 DEF CalmInv, Serial, Outstanding
  <2>6. thread # 0 => thread \in made
    BY DEF IInv, CachedThreadIsLive
  <2>7. ThreadKept'
    BY <1>1, <1>2, <2>1, <2>3, <2>4, <2>6, CalmFacts DEF CalmInv, ThreadKept
  <2>8. OneThreadPerTurn'
    BY <2>1, <2>3, <2>4, <2>6, CalmFacts DEF CalmInv, ThreadKept, OneThreadPerTurn
  <2> QED
    BY <1>2, <2>5, <2>7, <2>8 DEF CalmInv
<1>5. CASE ThreadOpened(i)
  <2>1. /\ i \in Outstanding /\ trace' = [trace EXCEPT ![i] = "posting"] /\ UNCHANGED traceTurn
        /\ made' = made \cup {i} /\ into' = [into EXCEPT ![i] = i]
        /\ trace[i] = "opening" => thread' = i
    BY <1>5 DEF ThreadOpened, Outstanding
  <2>2. trace[i] = "opening"
    BY <1>5 DEF ThreadOpened, CalmInv, Serial, Outstanding
  <2>3. /\ busy /\ thread = 0 /\ traceTurn[i] = Latest /\ i \notin made /\ i # 0
        /\ \A j \in made : traceTurn[j] # Latest
    BY <2>1, <2>2, CalmFacts DEF CalmInv, Serial, ThreadKept, IInv, MadeWhenOpened
  <2>4. /\ \A j \in Traces \ {i} : trace'[j] = trace[j] /\ into'[j] = into[j]
        /\ trace'[i] = "posting" /\ thread' = i /\ into'[i] = i
    BY <2>1, <2>2, CalmFacts
  <2>5. Serial'
    BY <1>1, <1>2, <2>1, <2>4 DEF CalmInv, Serial, Outstanding
  <2>6. ThreadKept'
    <3>1. \A j \in Traces : trace'[j] # "opening"
      BY <2>1, <2>4 DEF CalmInv, Serial, Outstanding
    <3>2. thread' # 0 => traceTurn'[thread'] = Latest'
      BY <1>2, <2>1, <2>3, <2>4
    <3>3. \A j \in made' : traceTurn'[j] <= Latest'
      BY <1>2, <2>1, <2>3, CalmFacts DEF CalmInv, ThreadKept
    <3>4. \A j \in Traces : into'[j] \in made' \cup {0}
      BY <2>1, <2>4 DEF CalmInv, ThreadKept
    <3>5. \A j \in Traces : trace'[j] \in {"unborn", "sent", "opening"} => into'[j] = 0
      BY <2>4 DEF CalmInv, ThreadKept
    <3> QED
      BY <2>3, <2>4, <3>1, <3>2, <3>3, <3>4, <3>5 DEF ThreadKept
  <2>7. OneThreadPerTurn'
    BY <2>1, <2>3, <2>4, CalmFacts DEF CalmInv, OneThreadPerTurn
  <2> QED
    BY <1>2, <2>5, <2>6, <2>7 DEF CalmInv
<1>6. CASE OpeningFails(i)
  <2>1. /\ i \in Outstanding /\ trace[i] = "opening" /\ UNCHANGED <<thread, into, made>>
        /\ trace' = [trace EXCEPT ![i] = "over"] /\ traceTurn' = [traceTurn EXCEPT ![i] = 0]
    BY <1>6 DEF OpeningFails, Outstanding, CalmInv, Serial, connVars
  <2>2. i \notin made /\ thread = 0 /\ into[i] = 0
    BY <2>1 DEF IInv, MadeWhenOpened, CalmInv, ThreadKept
  <2>3. /\ \A j \in Traces \ {i} : trace'[j] = trace[j] /\ traceTurn'[j] = traceTurn[j]
        /\ trace'[i] = "over"
    BY <2>1, CalmFacts
  <2>4. Serial'
    BY <1>1, <1>2, <2>1, <2>3 DEF CalmInv, Serial, Outstanding
  <2>5. ThreadKept'
    BY <1>1, <1>2, <2>1, <2>2, <2>3, CalmFacts DEF CalmInv, ThreadKept
  <2>6. OneThreadPerTurn'
    BY <2>1, <2>2, <2>3, CalmFacts DEF CalmInv, ThreadKept, OneThreadPerTurn
  <2> QED
    BY <1>2, <2>4, <2>5, <2>6 DEF CalmInv
<1>7. CASE TracePosted(i)
  <2>1. /\ trace[i] = "posting" /\ trace' = [trace EXCEPT ![i] = "over"]
        /\ UNCHANGED <<thread, traceTurn, into, made>>
    BY <1>7 DEF TracePosted, connVars
  <2>2. /\ \A j \in Traces \ {i} : trace'[j] = trace[j]
        /\ trace'[i] = "over"
    BY <2>1, CalmFacts
  <2>3. Serial'
    BY <1>1, <1>2, <2>1, <2>2 DEF CalmInv, Serial, Outstanding
  <2>4. ThreadKept'
    BY <1>1, <1>2, <2>1, <2>2, CalmFacts DEF CalmInv, ThreadKept
  <2>5. OneThreadPerTurn'
    BY <2>1, <2>2 DEF CalmInv, OneThreadPerTurn
  <2> QED
    BY <1>2, <2>3, <2>4, <2>5 DEF CalmInv
<1> QED
  BY <1>3, <1>4, <1>5, <1>6, <1>7

\* A reply, a Stop hook and the timer end the turn of the latest message, and
\* only when it was replied to or its work is over.
LEMMA CalmEnds ==
  ASSUME IInv, CalmInv,
         SunsetEnds \/ \E n \in Turns : ReplyDelivered(n) \/ ReplyFails(n) \/ HandleStop(n)
  PROVE  CalmInv'
<1>1. UNCHANGED <<chat, inbounds, taken, busy, trace, traceTurn, into, made>>
  BY DEF SunsetEnds, ReplyDelivered, ReplyFails, HandleStop, connVars, ccVars, traceVars
<1>2. Latest' = Latest
  BY <1>1 DEF Latest
<1>3. /\ replying' \subseteq replying /\ stopping' \subseteq stopping
      /\ replied \subseteq replied'
  BY DEF SunsetEnds, ReplyDelivered, ReplyFails, HandleStop, ccVars
<1>4. Serial'
  BY <1>1, <1>2, <1>3 DEF CalmInv, Serial, Outstanding
<1>5. CASE UNCHANGED thread /\ (turnState = "active" => turnState' = "active" \/ Latest \in replied')
  BY <1>1, <1>2, <1>3, <1>4, <1>5 DEF CalmInv, TurnKept, ThreadKept, OneThreadPerTurn
<1>6. CASE SunsetEnds
  <2>1. turnState = "sunset" /\ UNCHANGED thread
    BY <1>6 DEF SunsetEnds, IInv, TimerMeansSunset
  <2> QED
    BY <1>5, <2>1
<1>7. ASSUME NEW n \in Turns, ReplyDelivered(n)
      PROVE  CalmInv'
  <2>1. n = Latest /\ n \in replied' /\ UNCHANGED thread
    BY <1>7 DEF ReplyDelivered, CalmInv, Serial
  <2> QED
    BY <1>5, <2>1
<1>8. ASSUME NEW n \in Turns, ReplyFails(n)
      PROVE  CalmInv'
  BY <1>5, <1>8 DEF ReplyFails, connVars
<1>9. ASSUME NEW n \in Turns, HandleStop(n)
      PROVE  CalmInv'
  <2>1. n \in stopping /\ thread' = 0
    BY <1>9 DEF HandleStop
  <2>2. ~busy /\ ~(taken < Latest) /\ Outstanding = {}
    BY <2>1 DEF CalmInv, Serial
  <2> QED
    BY <1>1, <1>2, <1>4, <2>1, <2>2
       DEF CalmInv, TurnKept, ThreadKept, OneThreadPerTurn, Outstanding
<1> QED
  BY <1>6, <1>7, <1>8, <1>9

LEMMA StepCalm == IInv /\ (calm => CalmInv) /\ [Next]_vars => (calm' => CalmInv')
<1> SUFFICES ASSUME IInv, calm => CalmInv, [Next]_vars, calm'
             PROVE  CalmInv'
  OBVIOUS
<1>1. ASSUME UNCHANGED <<turnState, chat, thread, inbounds, taken, busy, replying, replied,
                         stopping, trace, traceTurn, into, made, calm>>
      PROVE  CalmInv'
  BY <1>1 DEF CalmInv, Serial, TurnKept, ThreadKept, OneThreadPerTurn, Latest, Outstanding
<1>2. ASSUME NEW c \in Chats, Inbound(c)
      PROVE  CalmInv'
  BY <1>2, CalmInbound DEF Inbound
<1>3. ASSUME NEW c \in Chats, TypingCap(c)
      PROVE  CalmInv'
  BY <1>1, <1>3 DEF TypingCap, connVars, ccVars, traceVars
<1>4. CASE HandleCancel \/ UNCHANGED vars
  BY <1>1, <1>4 DEF HandleCancel, vars, connVars, ccVars, traceVars
<1>5. CASE CcTakes \/ CcReplies \/ CcStops
  BY <1>5, CalmCc DEF CcTakes, CcReplies, CcStops
<1>6. ASSUME NEW i \in Traces,
             \/ CcRunsTool(i) \/ HandleTrace(i)
             \/ ThreadOpened(i) \/ OpeningFails(i) \/ TracePosted(i)
      PROVE  CalmInv'
  BY <1>6, CalmTraces DEF CcRunsTool, HandleTrace, ThreadOpened, OpeningFails, TracePosted
<1>9. ASSUME NEW t \in Traces, ThreadArchived(t)
      PROVE  CalmInv'
  BY <1>1, <1>9 DEF ThreadArchived, connVars, ccVars, traceVars
<1>7. CASE SunsetEnds \/ \E n \in Turns : ReplyDelivered(n) \/ ReplyFails(n) \/ HandleStop(n)
  BY <1>7, CalmEnds DEF SunsetEnds, ReplyDelivered, ReplyFails, HandleStop
<1>8. CASE Reconnect
  BY <1>8 DEF Reconnect
<1> QED
  BY <1>2, <1>3, <1>4, <1>5, <1>6, <1>7, <1>8, <1>9 DEF Next

\* While no message, tool or Stop comes before its time, the turn of the latest
\* message stays open, its prompts go to its chat, and its traces into one thread
\* of its own, whatever is lost or late (startTurn, startSunset, clearTurn,
\* ToolTraceRelay.handle).
THEOREM CalmTurnsKept == Spec => []CalmTurns
<1>1. Init => (calm => CalmInv)
  <2> SUFFICES ASSUME Init PROVE CalmInv
    OBVIOUS
  <2>1. /\ Latest = 0 /\ taken = 0 /\ ~busy /\ replying = {} /\ stopping = {} /\ made = {}
        /\ thread = 0 /\ \A i \in Traces : trace[i] = "unborn" /\ into[i] = 0
    BY DEF Init, Latest
  <2> QED
    BY <2>1 DEF CalmInv, Serial, TurnKept, ThreadKept, OneThreadPerTurn, Outstanding
<1>2. IInv /\ (calm => CalmInv) => CalmTurns
  <2> SUFFICES ASSUME IInv, CalmInv
               PROVE  LatestTurnIsOpen /\ PromptGoesToItsSource /\ OneThreadPerTurn
    BY DEF CalmTurns
  <2>1. LatestTurnIsOpen
    BY DEF CalmInv, TurnKept, LatestTurnIsOpen, IsInTurn, Latest
  <2>2. busy => taken = Latest /\ Latest > 0
    BY CalmFacts DEF CalmInv, Serial, IInv, BusyTook
  <2>3. PromptGoesToItsSource
    BY <2>2 DEF CalmInv, TurnKept, PromptGoesToItsSource, Latest
  <2> QED
    BY <2>1, <2>3 DEF CalmInv
<1> QED
  BY <1>1, <1>2, StepCalm, Invariance, PTL DEF Spec
-----------------------------------------------------------------------------
(* The typing dots *)

\* A reply is one to a message that Claude Code has taken.
AnswersWhatItTook == replying \cup replied \subseteq 1 .. taken

\* TypingIsOwed with what makes it inductive: the message that starts the dots
\* cannot have been answered before it came.
Dots == AnswersWhatItTook /\ TypingIsOwed

LEMMA StepDots ==
  ASSUME IInv, Dots, [Next]_vars
  PROVE  Dots'
<1>0. /\ inbounds \in Seq(Chats) /\ taken \in 0 .. Len(inbounds) /\ DOMAIN inbounds = 1 .. Len(inbounds)
      /\ replying \cup replied \subseteq 1 .. taken
  BY DEF IInv, TypeOK, Dots, AnswersWhatItTook
<1>1. ASSUME UNCHANGED <<inbounds, replied>>, typing' \subseteq typing, taken' \in {taken, taken + 1},
             replying' \subseteq replying \cup {taken'}, replying' = replying \/ taken > 0
      PROVE  Dots'
  <2>1. AnswersWhatItTook'
    BY <1>0, <1>1 DEF AnswersWhatItTook
  <2> QED
    BY <1>1, <2>1 DEF Dots, TypingIsOwed
<1>2. ASSUME NEW c \in Chats, Inbound(c)
      PROVE  Dots'
  <2>1. /\ typing' = typing \cup {c} /\ inbounds' = Append(inbounds, c)
        /\ UNCHANGED <<replied, replying, taken>>
    BY <1>2 DEF Inbound, ccVars
  <2>2. /\ \A n \in DOMAIN inbounds : n \in DOMAIN inbounds' /\ inbounds'[n] = inbounds[n]
        /\ Len(inbounds) + 1 \in DOMAIN inbounds' /\ inbounds'[Len(inbounds) + 1] = c
        /\ Len(inbounds) + 1 \notin replied
    BY <1>0, <2>1
  <2>3. TypingIsOwed'
    BY <2>1, <2>2 DEF Dots, TypingIsOwed
  <2> QED
    BY <2>1, <2>3 DEF Dots, AnswersWhatItTook
<1>3. ASSUME NEW n \in Turns, ReplyDelivered(n)
      PROVE  Dots'
  <2>1. /\ n \in replying /\ replying' = replying \ {n} /\ replied' = replied \cup {n}
        /\ typing' = typing \ {inbounds[n]} /\ UNCHANGED <<inbounds, taken>>
    BY <1>3 DEF ReplyDelivered
  <2>2. TypingIsOwed'
    BY <2>1 DEF Dots, TypingIsOwed
  <2> QED
    BY <1>0, <2>1, <2>2 DEF Dots, AnswersWhatItTook
<1>4. ASSUME NEW n \in Turns, ReplyFails(n) \/ HandleStop(n)
      PROVE  Dots'
  BY <1>0, <1>1, <1>4 DEF ReplyFails, HandleStop
<1>5. CASE CcReplies
  BY <1>0, <1>1, <1>5 DEF CcReplies, IInv, BusyTook
<1>6. CASE CcTakes \/ CcStops
  BY <1>0, <1>1, <1>6 DEF CcTakes, CcStops
<1>7. ASSUME NEW c \in Chats, TypingCap(c)
      PROVE  Dots'
  BY <1>0, <1>1, <1>7 DEF TypingCap, ccVars
<1>8. ASSUME NEW i \in Traces,
             \/ CcRunsTool(i) \/ HandleTrace(i) \/ ThreadOpened(i)
             \/ OpeningFails(i) \/ TracePosted(i) \/ ThreadArchived(i)
      PROVE  Dots'
  BY <1>0, <1>1, <1>8 DEF CcRunsTool, HandleTrace, ThreadOpened, OpeningFails, TracePosted,
                          ThreadArchived, ccVars
<1>9. CASE SunsetEnds \/ HandleCancel \/ Reconnect \/ UNCHANGED vars
  BY <1>0, <1>1, <1>9 DEF SunsetEnds, HandleCancel, Reconnect, vars, ccVars
<1> QED
  BY <1>2, <1>3, <1>4, <1>5, <1>6, <1>7, <1>8, <1>9 DEF Next

\* The dots stand for a message that nobody has answered, whichever of several
\* overlapping turns a reply, a failure or a Stop hook belongs to
\* (typing-heartbeat.ts, the stop in onReplyDelivered).
THEOREM DotsAreOwed == Spec => []TypingIsOwed
<1>1. Init => Dots
  BY DEF Init, Dots, AnswersWhatItTook, TypingIsOwed
<1>2. Dots => TypingIsOwed
  BY DEF Dots
<1> QED
  BY <1>1, <1>2, StepDots, Invariance, PTL DEF Spec
=============================================================================
