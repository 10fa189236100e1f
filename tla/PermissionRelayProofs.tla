----------------------- MODULE PermissionRelayProofs -----------------------
(***************************************************************************)
(* Proofs about PermissionRelay, for every set of requests, users and      *)
(* tools: type correctness, at most one answer per request, and the        *)
(* implementation of OneShotDecision.  The last two assume that a rejected *)
(* send posted nothing; without it they are false (see the README).        *)
(***************************************************************************)
EXTENDS PermissionRelay, TLAPS

-----------------------------------------------------------------------------
(* Type correctness *)

\* The rule of an always click is one of the rules that can be in settings.
LEMMA RuleType == \A r \in HookReqs : DeriveAllowRule(r) \in Rule
  BY DEF DeriveAllowRule, Rule

\* Writing an answer keeps the history of answers well typed.
LEMMA DispatchType ==
  ASSUME TypeOK, NEW r \in Reqs, NEW a \in Answers, DispatchToTarget(r, a)
  PROVE  wire' \in [Reqs -> Seq(Answers)]
  BY DEF DispatchToTarget, TypeOK

\* Setting one message of one request keeps the messages well typed.
LEMMA MsgType ==
  ASSUME TypeOK, NEW r \in Reqs, NEW c \in Chats,
         NEW s \in {"absent", "live", "allowed", "denied", "stale"},
         msg' = msg \/ msg' = [msg EXCEPT ![r][c] = s]
  PROVE  msg' \in [Reqs -> [Chats -> {"absent", "live", "allowed", "denied", "stale"}]]
<1> DEFINE States == {"absent", "live", "allowed", "denied", "stale"}
<1>1. msg \in [Reqs -> [Chats -> States]]
  BY DEF TypeOK
<1>2. [msg[r] EXCEPT ![c] = s] \in [Chats -> States]
  BY <1>1
<1>3. CASE msg' = [msg EXCEPT ![r][c] = s]
  BY <1>1, <1>2, <1>3
<1> QED
  BY <1>1, <1>3

\* Choosing the next recipient keeps the state of the send loop well typed.
LEMMA RecipientType ==
  ASSUME TypeOK, NEW r \in Reqs, NEW S \in SUBSET Users, NextRecipient(r, S)
  PROVE  /\ cur' \in [Reqs -> Chats \cup {NoChat}]
         /\ todo' \in [Reqs -> SUBSET Users]
  BY DEF NextRecipient, TypeOK, Chats

\* The synchronous part of handleRequest keeps the types it touches.
LEMMA HandleRequestType ==
  ASSUME TypeOK, NEW r \in Reqs, NEW b \in BOOLEAN, HandleRequest(r, b), r \in opened'
  PROVE  /\ pending' \subseteq pending \cup {r}
         /\ cur' \in [Reqs -> Chats \cup {NoChat}]
         /\ todo' \in [Reqs -> SUBSET Users]
         /\ wire' \in [Reqs -> Seq(Answers)]
<1>1. CASE allowFrom = {}
  <2>1. DispatchToTarget(r, "deny") /\ UNCHANGED <<pending, cur, todo>>
    BY <1>1 DEF HandleRequest
  <2> QED
    BY <2>1, DispatchType DEF TypeOK, Answers
<1>2. CASE allowFrom # {} /\ b = TRUE
  <2>1. /\ pending' = pending \cup {r} /\ wire' = wire
        /\ cur' = [cur EXCEPT ![r] = Source] /\ todo' = [todo EXCEPT ![r] = allowFrom]
    BY <1>2, Zenon DEF HandleRequest
  <2> QED
    BY <2>1 DEF TypeOK, Chats
<1>3. CASE allowFrom # {} /\ b = FALSE
  <2>1. NextRecipient(r, allowFrom)
    BY <1>3 DEF HandleRequest
  <2>2. allowFrom \in SUBSET Users
    BY DEF TypeOK
  <2>3. wire' = wire /\ pending' = pending \cup {r}
    BY <1>3 DEF HandleRequest
  <2> QED
    BY <2>1, <2>2, <2>3, RecipientType DEF TypeOK
<1> QED
  BY <1>1, <1>2, <1>3

\* Every step keeps the type invariant.
LEMMA TypeStep == TypeOK /\ [Next]_vars => TypeOK'
<1> SUFFICES ASSUME TypeOK, [Next]_vars
             PROVE  TypeOK'
  OBVIOUS
<1> USE DEF peers, files, posting, strip, Reqs
<1>1. ASSUME NEW r \in HookReqs, HookStep(r)
      PROVE  TypeOK'
  <2>1. CASE HookAutoAllow(r) \/ HookAsks(r) \/ HookTimeout(r) \/ HookLosesDaemon(r)
    BY <2>1 DEF TypeOK, HookAutoAllow, HookAsks, HookTimeout, HookLosesDaemon, Verdicts
  <2>2. CASE HookReads(r)
    <3>1. Head(wire[r]) \in Answers
      BY <2>2 DEF TypeOK, HookReads
    <3>2. Emitted(Head(wire[r])) \in Verdicts
      BY <3>1 DEF Emitted, Answers, Verdicts
    <3> QED
      BY <2>2, <3>2 DEF TypeOK, HookReads
  <2> QED
    BY <1>1, <2>1, <2>2 DEF HookStep
<1>2. ASSUME NEW r \in HookReqs, NEW view \in Views, HandleCcRequest(r, view)
      PROVE  TypeOK'
  <2>1. opened' = opened \cup {r} /\ UNCHANGED <<files, refs, msg, strip, peers>>
    BY <1>2 DEF HandleCcRequest
  <2>2. /\ pending' \subseteq pending \cup {r}
        /\ cur' \in [Reqs -> Chats \cup {NoChat}]
        /\ todo' \in [Reqs -> SUBSET Users]
        /\ wire' \in [Reqs -> Seq(Answers)]
    <3>1. CASE view = "idle" \/ view = "cancelled"
      BY <1>2, <3>1, DispatchType DEF HandleCcRequest, TypeOK, Answers
    <3>2. CASE view = "active" \/ view = "unmatched"
      BY <1>2, <2>1, <3>2, HandleRequestType DEF HandleCcRequest
    <3> QED
      BY <3>1, <3>2 DEF Views
  <2> QED
    BY <2>1, <2>2 DEF TypeOK
<1>3. ASSUME NEW r \in PluginReqs, HandlePluginRequest(r)
      PROVE  TypeOK'
  <2>1. opened' = opened \cup {r} /\ UNCHANGED <<files, refs, msg, strip, peers>>
    BY <1>3 DEF HandlePluginRequest
  <2>2. /\ pending' \subseteq pending \cup {r}
        /\ cur' \in [Reqs -> Chats \cup {NoChat}]
        /\ todo' \in [Reqs -> SUBSET Users]
        /\ wire' \in [Reqs -> Seq(Answers)]
    BY <1>3, <2>1, HandleRequestType DEF HandlePluginRequest
  <2> QED
    BY <2>1, <2>2 DEF TypeOK
<1>4. ASSUME NEW r \in Reqs, Posting(r)
      PROVE  TypeOK'
  <2>1. CASE SendDelivered(r)
    BY <2>1 DEF SendDelivered, TypeOK
  <2>2. CASE SendAcked(r)
    <3>1. /\ cur' \in [Reqs -> Chats \cup {NoChat}]
          /\ todo' \in [Reqs -> SUBSET Users]
      BY <2>2, RecipientType DEF SendAcked, TypeOK
    <3>2. refs' \in [Reqs -> SUBSET Chats]
      BY <2>2 DEF SendAcked, TypeOK
    <3> QED
      BY <2>2, <3>1, <3>2 DEF SendAcked, TypeOK
  <2>3. CASE SendFailed(r)
    <3>1. /\ cur' \in [Reqs -> Chats \cup {NoChat}]
          /\ todo' \in [Reqs -> SUBSET Users]
      BY <2>3, RecipientType DEF SendFailed, TypeOK
    <3>2. wire' \in [Reqs -> Seq(Answers)] /\ pending' \subseteq pending
      BY <2>3, DispatchType DEF SendFailed, TypeOK, Answers
    <3> QED
      BY <2>3, <3>1, <3>2 DEF SendFailed, TypeOK
  <2> QED
    BY <1>4, <2>1, <2>2, <2>3 DEF Posting
<1>5. ASSUME NEW r \in Reqs, Answered(r)
      PROVE  TypeOK'
  <2>1. ASSUME NEW c \in Chats, NEW u \in Users, NEW b \in {"allow", "always", "deny"},
               HandleButton(r, c, u, b)
        PROVE  TypeOK'
    <3>1. Effective(b) \in Answers /\ Label(Effective(b)) \in {"allowed", "denied"}
      BY DEF Effective, Label, Answers
    <3>2. wire' \in [Reqs -> Seq(Answers)]
      BY <2>1, <3>1, DispatchType DEF HandleButton
    <3>3. settings' \subseteq Rule
      <4>1. CASE b = "always"
        <5>1. settings' \in {settings, settings \cup {DeriveAllowRule(r)}} /\ r \in HookReqs
          BY <2>1, <4>1 DEF HandleButton, Clickable
        <5> QED
          BY <5>1, RuleType DEF TypeOK
      <4>2. CASE b # "always"
        BY <2>1, <4>2 DEF HandleButton, TypeOK
      <4> QED
        BY <4>1, <4>2
    <3>4. msg' \in [Reqs -> [Chats -> {"absent", "live", "allowed", "denied", "stale"}]]
      <4>1. msg' = msg \/ msg' = [msg EXCEPT ![r][c] = Label(Effective(b))]
        BY <2>1, Zenon DEF HandleButton
      <4>2. Label(Effective(b)) \in {"absent", "live", "allowed", "denied", "stale"}
        BY <3>1
      <4> QED
        BY <4>1, <4>2, MsgType
    <3> QED
      BY <2>1, <3>2, <3>3, <3>4 DEF HandleButton, TypeOK
  <2>2. ASSUME NEW u \in Users, NEW a \in {"allow", "deny"}, HandleTextResponse(r, u, a)
        PROVE  TypeOK'
    <3>1. wire' \in [Reqs -> Seq(Answers)]
      BY <2>2, DispatchType DEF HandleTextResponse, Answers
    <3> QED
      BY <2>2, <3>1 DEF HandleTextResponse, TypeOK
  <2> QED
    BY <1>5, <2>1, <2>2 DEF Answered
<1>6. ASSUME NEW r \in Reqs, Prune(r)
      PROVE  TypeOK'
  <2>1. wire' \in [Reqs -> Seq(Answers)]
    BY <1>6, DispatchType DEF Prune, Answers
  <2> QED
    BY <1>6, <2>1 DEF Prune, TypeOK
<1>7. ASSUME NEW r \in HookReqs, HandleHookGiveup(r) \/ EditRef(r) \/ EditDone(r)
      PROVE  TypeOK'
  <2>1. CASE HandleHookGiveup(r)
    BY <2>1 DEF HandleHookGiveup, TypeOK
  <2>2. CASE EditRef(r)
    <3>1. PICK c \in refs[r] \ edited[r] :
            /\ edited' = [edited EXCEPT ![r] = @ \cup {c}]
            /\ msg' = [msg EXCEPT ![r][c] = "stale"] \/ msg' = msg
      BY <2>2 DEF EditRef
    <3>2. c \in Chats
      BY DEF TypeOK
    <3>3. msg' \in [Reqs -> [Chats -> {"absent", "live", "allowed", "denied", "stale"}]]
      BY <3>1, <3>2, MsgType
    <3>4. edited' \in [Reqs -> SUBSET Chats]
      BY <3>1, <3>2 DEF TypeOK
    <3> QED
      BY <2>2, <3>3, <3>4 DEF EditRef, TypeOK
  <2>3. CASE EditDone(r)
    BY <2>3 DEF EditDone, TypeOK
  <2> QED
    BY <1>7, <2>1, <2>2, <2>3
<1>8. CASE AccessEdited \/ PluginDrops \/ PluginRegisters
  BY <1>8 DEF AccessEdited, PluginDrops, PluginRegisters, TypeOK
<1>9. CASE DaemonCrash
  BY <1>9 DEF DaemonCrash, TypeOK
<1>10. CASE UNCHANGED vars
  BY <1>10 DEF vars, TypeOK
<1> QED
  BY <1>1, <1>2, <1>3, <1>4, <1>5, <1>6, <1>7, <1>8, <1>9, <1>10 DEF Next

\* The relay's state keeps its types.
THEOREM TypeCorrect == Spec => []TypeOK
<1>1. Init => TypeOK
  BY DEF Init, TypeOK, Reqs
<1> QED
  BY <1>1, TypeStep, PTL DEF Spec

-----------------------------------------------------------------------------
(* At most one answer *)

\* A request whose line was not handled yet has no answer and no message.
Fresh(r) ==
    r \notin opened => /\ wire[r] = <<>>
                       /\ cur[r] = NoChat
                       /\ \A c \in Chats : msg[r][c] = "absent"

\* A pending request waits for its first answer.
Open(r) ==
    r \in pending => wire[r] = <<>> /\ (r \in HookReqs => conn[r] = "open")

\* A message of a pending request is recorded, or its send is still awaited.
Posted(r) ==
    r \in pending => \A c \in Chats : msg[r][c] # "absent" => c \in refs[r] \/ c = cur[r]

\* While nothing is recorded the request can only have left the pending map by
\* an answer given to the message just posted, or because the hook went away.
Unrecorded(r) ==
    (cur[r] # NoChat /\ refs[r] = {} /\ r \notin pending)
        => msg[r][cur[r]] # "absent" \/ (r \in HookReqs /\ conn[r] = "closed")

\* A hook process that has not started has no connection and no request.
Unborn(r) ==
    (r \in HookReqs /\ hook[r] = "unborn") => r \notin opened /\ conn[r] = "none"

\* A recorded message was posted.
Recorded(r) == \A c \in refs[r] : msg[r][c] # "absent"

Once(r) == Len(wire[r]) <= 1

RInv(r) == /\ Fresh(r) /\ Open(r) /\ Posted(r) /\ Unrecorded(r)
           /\ Unborn(r) /\ Recorded(r) /\ Once(r)

IInv == TypeOK /\ \A r \in Reqs : RInv(r)

\* Sequences of at most one answer.
LEMMA Singleton ==
  ASSUME NEW a
  PROVE  Append(<<>>, a) = <<a>> /\ Len(<<a>>) = 1 /\ Len(<<a>>) <= 1 /\ Len(<<>>) <= 1
  OBVIOUS

\* Changing the answers of one request leaves those of the others alone.
LEMMA Others ==
  ASSUME TypeOK, NEW r \in Reqs, NEW a,
         wire' = wire \/ wire' = [wire EXCEPT ![r] = <<a>>]
  PROVE  /\ \A q \in Reqs : q # r => wire'[q] = wire[q]
         /\ wire[r] = <<>> => wire'[r] = <<>> \/ wire'[r] = <<a>>
         /\ wire[r] = <<>> => Len(wire'[r]) <= 1
<1>1. \A q \in Reqs : q # r => wire'[q] = wire[q]
  BY DEF TypeOK
<1>2. wire[r] = <<>> => wire'[r] = <<>> \/ wire'[r] = <<a>>
  BY DEF TypeOK
<1> QED
  BY <1>1, <1>2, Singleton

\* An answer to a requester that has none, or is gone, is its first or lost.
LEMMA FirstAnswer ==
  ASSUME TypeOK, NEW r \in Reqs, NEW a \in Answers, DispatchToTarget(r, a),
         wire[r] = <<>> \/ ~Reachable(r)
  PROVE  wire' = wire \/ (wire[r] = <<>> /\ wire' = [wire EXCEPT ![r] = <<a>>])
<1>1. CASE Reachable(r)
  <2>1. wire[r] = <<>> /\ Append(wire[r], a) = <<a>>
    BY <1>1, Singleton
  <2> QED
    BY <1>1, <2>1 DEF DispatchToTarget
<1>2. CASE ~Reachable(r)
  BY <1>2 DEF DispatchToTarget
<1> QED
  BY <1>1, <1>2

\* A request keeps its part of the invariant while its own state stands still.
LEMMA Still ==
  ASSUME IInv, NEW q \in Reqs,
         q \in opened' <=> q \in opened, q \in pending' <=> q \in pending,
         wire'[q] = wire[q], msg'[q] = msg[q], cur'[q] = cur[q], refs'[q] = refs[q],
         q \in HookReqs => conn'[q] = conn[q] /\ hook'[q] = hook[q]
  PROVE  RInv(q)'
  BY DEF IInv, RInv, Fresh, Open, Posted, Unrecorded, Unborn, Recorded, Once

\* The synchronous part of handleRequest, on a fresh request.
LEMMA HandleRequestInv ==
  ASSUME IInv, NEW r \in Reqs, r \notin opened, NEW b \in BOOLEAN, HandleRequest(r, b),
         opened' = opened \cup {r}, UNCHANGED <<refs, msg, conn, hook>>,
         r \in HookReqs => conn[r] = "open",
         NEW q \in Reqs
  PROVE  RInv(q)'
<1> USE DEF IInv, RInv
<1>1. /\ wire[r] = <<>> /\ cur[r] = NoChat /\ \A c \in Chats : msg[r][c] = "absent"
      /\ r \notin pending
  BY DEF Fresh, TypeOK
<1>2. CASE allowFrom = {}
  <2>1. DispatchToTarget(r, "deny") /\ UNCHANGED <<pending, cur, todo>>
    BY <1>2 DEF HandleRequest
  <2>2. wire' = wire \/ wire' = [wire EXCEPT ![r] = <<"deny">>]
    BY <1>1, <2>1, FirstAnswer DEF Answers
  <2>3. CASE q = r
    BY <1>1, <2>1, <2>2, <2>3, Others DEF Fresh, Open, Posted, Unrecorded, Unborn, Recorded, Once
  <2>4. CASE q # r
    <3>1. wire'[q] = wire[q]
      BY <2>2, <2>4, Others
    <3> QED
      BY <2>1, <2>4, <3>1, Still
  <2> QED
    BY <2>3, <2>4
<1>3. CASE allowFrom # {}
  <2>1. /\ pending' = pending \cup {r} /\ wire' = wire
        /\ \E c \in Chats : cur' = [cur EXCEPT ![r] = c]
    <3>1. CASE b = TRUE
      BY <1>3, <3>1, Zenon DEF HandleRequest, Chats
    <3>2. CASE b = FALSE
      <4>1. pending' = pending \cup {r} /\ wire' = wire /\ NextRecipient(r, allowFrom)
        BY <1>3, <3>2 DEF HandleRequest
      <4> QED
        BY <4>1 DEF NextRecipient, TypeOK, Chats
    <3> QED
      BY <3>1, <3>2
  <2>2. CASE q = r
    BY <1>1, <2>1, <2>2 DEF Fresh, Open, Posted, Unrecorded, Unborn, Recorded, Once
  <2>3. CASE q # r
    BY <2>1, <2>3, Still
  <2> QED
    BY <2>2, <2>3
<1> QED
  BY <1>2, <1>3

\* Leaving the pending map by an answer, with no send rejected afterwards.
LEMMA ClaimInv ==
  ASSUME IInv, NEW r \in pending, NEW a \in Answers,
         pending' = pending \ {r}, DispatchToTarget(r, a),
         UNCHANGED <<opened, posting, conn, hook>>,
         \A q \in Reqs : q # r => msg'[q] = msg[q],
         \A c \in Chats : msg[r][c] # "absent" => msg'[r][c] # "absent",
         cur[r] = NoChat \/ refs[r] # {} \/ msg[r][cur[r]] # "absent",
         NEW q \in Reqs
  PROVE  RInv(q)'
<1> USE DEF IInv, RInv, posting
<1>1. r \in Reqs /\ r \in opened /\ wire[r] = <<>>
  BY DEF TypeOK, Open
<1>2. wire' = wire \/ wire' = [wire EXCEPT ![r] = <<a>>]
  BY <1>1, FirstAnswer
<1>3. CASE q = r
  <2>1. Len(wire'[r]) <= 1
    BY <1>1, <1>2, Others
  <2>2. cur[r] # NoChat => cur[r] \in Chats
    BY <1>1 DEF TypeOK
  <2> QED
    BY <1>1, <1>3, <2>1, <2>2 DEF Fresh, Open, Posted, Unrecorded, Unborn, Recorded, Once, TypeOK
<1>4. CASE q # r
  <2>1. wire'[q] = wire[q]
    BY <1>1, <1>2, <1>4, Others
  <2> QED
    BY <1>4, <2>1, Still
<1> QED
  BY <1>3, <1>4

\* Where every rejected send posted nothing, every step keeps the invariant.
LEMMA InvStep ==
  ASSUME "lostAck" \notin Faults, IInv, [Next]_vars
  PROVE  IInv'
<1> USE DEF posting, strip, peers, files
<1> SUFFICES ASSUME NEW q \in Reqs
             PROVE  RInv(q)'
  BY TypeStep DEF IInv
<1> TypeOK /\ RInv(q)
  BY DEF IInv
<1>1. ASSUME NEW r \in HookReqs, HookStep(r)
      PROVE  RInv(q)'
  <2>1. UNCHANGED <<opened, pending, posting, msg, wire>>
    BY <1>1 DEF HookStep, HookAutoAllow, HookAsks, HookReads, HookTimeout, HookLosesDaemon
  <2>2. CASE q # r
    <3>1. q \in HookReqs => conn'[q] = conn[q] /\ hook'[q] = hook[q]
      BY <1>1, <2>2 DEF HookStep, HookAutoAllow, HookAsks, HookReads, HookTimeout,
                        HookLosesDaemon, TypeOK
    <3> QED
      BY <2>1, <3>1, Still
  <2>3. CASE q = r /\ conn' = conn
    <3>1. hook'[r] # "unborn"
      <4>1. CASE HookReads(r)
        <5>1. Head(wire[r]) \in Answers
          BY <4>1 DEF TypeOK, HookReads, Reqs
        <5> QED
          BY <4>1, <5>1 DEF HookReads, Emitted, Answers, TypeOK
      <4>2. CASE ~HookReads(r)
        BY <1>1, <4>2 DEF HookStep, HookAutoAllow, HookAsks, HookTimeout, HookLosesDaemon, TypeOK
      <4> QED
        BY <4>1, <4>2
    <3> QED
      BY <2>1, <2>3, <3>1 DEF RInv, Fresh, Open, Posted, Unrecorded, Unborn, Recorded, Once
  <2>4. CASE q = r /\ HookAsks(r)
    BY <2>1, <2>4 DEF HookAsks, RInv, Fresh, Open, Posted, Unrecorded, Unborn, Recorded, Once, TypeOK
  <2> QED
    BY <1>1, <2>2, <2>3, <2>4 DEF HookStep, HookAutoAllow, HookAsks, HookReads, HookTimeout,
                                  HookLosesDaemon
<1>2. ASSUME NEW r \in HookReqs, NEW view \in Views, HandleCcRequest(r, view)
      PROVE  RInv(q)'
  <2>1. /\ r \in Reqs /\ r \notin opened /\ conn[r] = "open" /\ opened' = opened \cup {r}
        /\ UNCHANGED <<refs, msg, conn, hook>>
    BY <1>2 DEF HandleCcRequest, Reqs
  <2>2. CASE view = "active" \/ view = "unmatched"
    BY <1>2, <2>1, <2>2, HandleRequestInv DEF HandleCcRequest
  <2>3. CASE view = "idle" \/ view = "cancelled"
    <3>1. PICK a \in Answers : DispatchToTarget(r, a) /\ UNCHANGED <<pending, cur, todo>>
      BY <1>2, <2>3 DEF HandleCcRequest, Answers
    <3>2. wire[r] = <<>> /\ r \notin pending /\ cur[r] = NoChat
      BY <2>1 DEF IInv, RInv, Fresh, TypeOK
    <3>3. wire' = wire \/ wire' = [wire EXCEPT ![r] = <<a>>]
      BY <2>1, <3>1, <3>2, FirstAnswer
    <3>4. CASE q = r
      BY <2>1, <3>1, <3>2, <3>3, <3>4, Others
         DEF RInv, Fresh, Open, Posted, Unrecorded, Unborn, Recorded, Once
    <3>5. CASE q # r
      <4>1. wire'[q] = wire[q]
        BY <2>1, <3>3, <3>5, Others
      <4> QED
        BY <2>1, <3>1, <3>5, <4>1, Still
    <3> QED
      BY <3>4, <3>5
  <2> QED
    BY <2>2, <2>3 DEF Views
<1>3. ASSUME NEW r \in PluginReqs, HandlePluginRequest(r)
      PROVE  RInv(q)'
  BY <1>3, HandleRequestInv, ReqsAssumption DEF HandlePluginRequest, Reqs
<1>4. ASSUME NEW r \in Reqs, Posting(r)
      PROVE  RInv(q)'
  <2>0. /\ r \in opened /\ cur[r] \in Chats /\ cur[r] # NoChat /\ RInv(r)
        /\ UNCHANGED <<opened, conn, hook>>
    BY <1>4 DEF Posting, SendDelivered, SendAcked, SendFailed, IInv, RInv, Fresh, TypeOK
  <2>1. CASE SendDelivered(r)
    <3>1. \A p \in Reqs : p # r => msg'[p] = msg[p]
      BY <2>1 DEF SendDelivered, TypeOK
    <3>2. \A c \in Chats : msg'[r][c] = IF c = cur[r] THEN "live" ELSE msg[r][c]
      BY <2>1 DEF SendDelivered, TypeOK
    <3>3. CASE q = r
      BY <2>0, <2>1, <3>2, <3>3
         DEF SendDelivered, RInv, Fresh, Open, Posted, Unrecorded, Unborn, Recorded, Once
    <3>4. CASE q # r
      BY <2>0, <2>1, <3>1, <3>4, Still DEF SendDelivered
    <3> QED
      BY <3>3, <3>4
  <2>2. CASE SendAcked(r)
    <3>1. /\ UNCHANGED <<pending, msg, wire>> /\ msg[r][cur[r]] # "absent"
          /\ \A p \in Reqs : p # r => cur'[p] = cur[p] /\ refs'[p] = refs[p]
          /\ refs'[r] = refs[r] \cup {cur[r]}
      BY <2>2 DEF SendAcked, NextRecipient, TypeOK
    <3>2. CASE q = r
      BY <2>0, <3>1, <3>2 DEF RInv, Fresh, Open, Posted, Unrecorded, Unborn, Recorded, Once
    <3>3. CASE q # r
      BY <2>0, <3>1, <3>3, Still
    <3> QED
      BY <3>2, <3>3
  <2>3. CASE SendFailed(r)
    <3>1. /\ msg[r][cur[r]] = "absent"
          /\ UNCHANGED <<refs, msg>>
          /\ \A p \in Reqs : p # r => cur'[p] = cur[p]
      BY <2>3 DEF SendFailed, Rejected, NextRecipient, TypeOK
    <3>2. CASE UNCHANGED <<pending, wire>>
      <4>1. CASE q = r
        <5>1. cur'[r] = NoChat \/ cur'[r] \in Chats
          BY <2>3, RecipientType DEF SendFailed, TypeOK
        <5>2. CASE cur'[r] # NoChat
          <6>1. todo[r] # {}
            BY <2>3, <5>2 DEF SendFailed, TypeOK
          <6> QED
            BY <2>0, <3>1, <3>2, <4>1, <5>1
               DEF RInv, Fresh, Open, Posted, Unrecorded, Unborn, Recorded, Once, TypeOK
        <5>3. CASE cur'[r] = NoChat
          BY <2>0, <3>1, <3>2, <4>1, <5>3
             DEF RInv, Fresh, Open, Posted, Unrecorded, Unborn, Recorded, Once, TypeOK
        <5> QED
          BY <5>2, <5>3
      <4>2. CASE q # r
        BY <2>0, <3>1, <3>2, <4>2, Still
      <4> QED
        BY <4>1, <4>2
    <3>3. CASE ~UNCHANGED <<pending, wire>>
      <4>1. /\ refs[r] = {} /\ cur' = [cur EXCEPT ![r] = NoChat]
            /\ pending' = pending \ {r} /\ DispatchToTarget(r, "deny")
        BY <2>3, <3>3 DEF SendFailed
      <4>2. wire[r] = <<>> \/ ~Reachable(r)
        BY <2>0, <3>1, <4>1, ChatsAssumption DEF RInv, Open, Unrecorded, Reachable
      <4>3. wire' = wire \/ (wire[r] = <<>> /\ wire' = [wire EXCEPT ![r] = <<"deny">>])
        BY <4>1, <4>2, FirstAnswer DEF Answers
      <4>4. Len(wire'[r]) <= 1
        BY <2>0, <4>3, Others DEF RInv, Once
      <4>5. cur'[r] = NoChat /\ r \notin pending'
        BY <4>1 DEF TypeOK
      <4>6. CASE q = r
        BY <2>0, <3>1, <4>4, <4>5, <4>6 DEF RInv, Fresh, Open, Posted, Unrecorded, Unborn, Recorded, Once
      <4>7. CASE q # r
        <5>1. wire'[q] = wire[q] /\ (q \in pending' <=> q \in pending)
          BY <4>1, <4>3, <4>7, Others
        <5> QED
          BY <2>0, <3>1, <4>7, <5>1, Still
      <4> QED
        BY <4>6, <4>7
    <3> QED
      BY <3>2, <3>3
  <2> QED
    BY <1>4, <2>1, <2>2, <2>3 DEF Posting
<1>5. ASSUME NEW r \in Reqs, Answered(r)
      PROVE  RInv(q)'
  <2>0. ASSUME r \in pending, \E c \in Chats : msg[r][c] # "absent"
        PROVE  cur[r] = NoChat \/ refs[r] # {} \/ msg[r][cur[r]] # "absent"
    BY <2>0 DEF IInv, RInv, Posted
  <2>1. ASSUME NEW c \in Chats, NEW u \in Users, NEW b \in {"allow", "always", "deny"},
               HandleButton(r, c, u, b)
        PROVE  RInv(q)'
    <3>1. /\ Effective(b) \in Answers /\ Label(Effective(b)) # "absent"
      BY DEF Effective, Answers, Label
    <3>2. /\ r \in pending /\ pending' = pending \ {r} /\ DispatchToTarget(r, Effective(b))
          /\ UNCHANGED <<opened, posting, conn, hook>> /\ msg[r][c] # "absent"
      BY <2>1 DEF HandleButton, Clickable
    <3>3. msg' = msg \/ msg' = [msg EXCEPT ![r][c] = Label(Effective(b))]
      BY <2>1, Zenon DEF HandleButton
    <3>4. /\ \A p \in Reqs : p # r => msg'[p] = msg[p]
          /\ \A d \in Chats : msg[r][d] # "absent" => msg'[r][d] # "absent"
      BY <3>1, <3>3 DEF TypeOK
    <3> QED
      BY <2>0, <3>1, <3>2, <3>4, ClaimInv
  <2>2. ASSUME NEW u \in Users, NEW a \in {"allow", "deny"}, HandleTextResponse(r, u, a)
        PROVE  RInv(q)'
    <3>1. /\ r \in pending /\ pending' = pending \ {r} /\ DispatchToTarget(r, a)
          /\ UNCHANGED <<opened, posting, msg, conn, hook>> /\ a \in Answers
          /\ \E c \in Chats : msg[r][c] # "absent"
      BY <2>2 DEF HandleTextResponse, Answers
    <3> QED
      BY <2>0, <3>1, ClaimInv
  <2> QED
    BY <1>5, <2>1, <2>2 DEF Answered
<1>6. ASSUME NEW r \in Reqs, Prune(r)
      PROVE  RInv(q)'
  <2>1. /\ r \in pending /\ pending' = pending \ {r} /\ DispatchToTarget(r, "deny")
        /\ UNCHANGED <<opened, posting, msg, conn, hook>> /\ cur[r] = NoChat /\ "deny" \in Answers
    BY <1>6 DEF Prune, Answers
  <2> QED
    BY <2>1, ClaimInv
<1>7. ASSUME NEW r \in HookReqs, HandleHookGiveup(r)
      PROVE  RInv(q)'
  <2>1. /\ r \in opened /\ pending' = pending \ {r} /\ conn' = [conn EXCEPT ![r] = "closed"]
        /\ hook[r] \in Verdicts
        /\ UNCHANGED <<opened, posting, msg, wire, hook>>
    BY <1>7 DEF HandleHookGiveup
  <2>2. CASE q = r
    BY <2>1, <2>2 DEF RInv, Fresh, Open, Posted, Unrecorded, Unborn, Recorded, Once, TypeOK
  <2>3. CASE q # r
    BY <2>1, <2>3, Still DEF TypeOK
  <2> QED
    BY <2>2, <2>3
<1>8. ASSUME NEW r \in HookReqs, EditRef(r) \/ EditDone(r)
      PROVE  RInv(q)'
  <2>1. UNCHANGED <<opened, pending, posting, wire, conn, hook>>
    BY <1>8 DEF EditRef, EditDone
  <2>2. msg' = msg \/ \E c \in refs[r] : msg' = [msg EXCEPT ![r][c] = "stale"]
    BY <1>8 DEF EditRef, EditDone
  <2>3. \A c \in Chats : (msg'[q][c] = "absent") <=> (msg[q][c] = "absent")
    <3>1. CASE msg' = msg
      BY <3>1
    <3>2. ASSUME NEW d \in refs[r], msg' = [msg EXCEPT ![r][d] = "stale"]
          PROVE  \A c \in Chats : (msg'[q][c] = "absent") <=> (msg[q][c] = "absent")
      <4>1. r \in Reqs
        BY DEF Reqs
      <4>2. msg[r][d] # "absent"
        BY <4>1 DEF IInv, RInv, Recorded
      <4> QED
        BY <3>2, <4>1, <4>2 DEF TypeOK
    <3> QED
      BY <2>2, <3>1, <3>2
  <2> QED
    BY <2>1, <2>3 DEF RInv, Fresh, Open, Posted, Unrecorded, Unborn, Recorded, Once, TypeOK
<1>9. CASE AccessEdited \/ PluginDrops \/ PluginRegisters \/ UNCHANGED vars
  BY <1>9, Still DEF AccessEdited, PluginDrops, PluginRegisters, vars
<1>10. CASE DaemonCrash
  <2>1. /\ UNCHANGED <<opened, msg, wire, hook>>
        /\ pending' = {} /\ cur'[q] = NoChat /\ refs'[q] = {}
        /\ q \in HookReqs => conn'[q] = "none" <=> conn[q] = "none"
    BY <1>10 DEF DaemonCrash, TypeOK
  <2> QED
    BY <2>1 DEF RInv, Fresh, Open, Posted, Unrecorded, Unborn, Recorded, Once, TypeOK
<1> QED
  BY <1>1, <1>2, <1>3, <1>4, <1>5, <1>6, <1>7, <1>8, <1>9, <1>10 DEF Next

LEMMA Invariance ==
  ASSUME "lostAck" \notin Faults
  PROVE  Spec => []IInv
<1>1. Init => IInv
  BY Singleton DEF Init, IInv, RInv, Fresh, Open, Posted, Unrecorded, Unborn, Recorded, Once,
                   TypeOK, Reqs
<1>2. IInv /\ [Next]_vars => IInv'
  BY InvStep
<1> QED
  BY <1>1, <1>2, PTL DEF Spec

\* A requester gets at most one answer when rejected sends posted nothing:
\* every claim, prune, giveup and failed fan-out settles a request for good.
THEOREM AnsweredOnce ==
  ASSUME "lostAck" \notin Faults
  PROVE  Spec => []AtMostOneAnswer
<1>1. IInv => AtMostOneAnswer
  BY DEF IInv, RInv, Once, AtMostOneAnswer
<1> QED
  BY <1>1, Invariance, PTL

\* A request in the pending map has a requester that waits, so that a claim
\* never answers a hook that is gone or one that was answered before.
THEOREM PendingWaits ==
  ASSUME "lostAck" \notin Faults
  PROVE  Spec => []PendingIsOpen
<1>1. IInv => PendingIsOpen
  BY DEF IInv, RInv, Open, PendingIsOpen, TypeOK
<1> QED
  BY <1>1, Invariance, PTL

-----------------------------------------------------------------------------
(* The relay implements OneShotDecision *)

\* A step that leaves the pending map, the opened requests and the answers
\* alone is a stuttering step of OneShotDecision.
LEMMA StutterStep ==
  ASSUME UNCHANGED <<opened, pending, wire>>
  PROVE  UNCHANGED OneShot!vars
  BY DEF OneShot!vars, Phase

\* A request that leaves the pending map, or never enters it, with one answer
\* or none, is settled.
LEMMA SettleStep ==
  ASSUME TypeOK, NEW r \in Reqs, NEW a \in Answers,
         r \in pending \/ r \notin opened,
         opened' = opened \cup {r}, pending' = pending \ {r},
         wire' = wire \/ wire' = [wire EXCEPT ![r] = <<a>>]
  PROVE  OneShot!Next
<1>1. Phase(r) # "settled"
  BY DEF Phase
<1>2. [q \in Reqs |-> Phase(q)]' = [[q \in Reqs |-> Phase(q)] EXCEPT ![r] = "settled"]
  BY DEF Phase
<1> QED
  BY <1>1, <1>2 DEF OneShot!Next, OneShot!Settle

\* A fresh request that enters the pending map is asked.
LEMMA AskStep ==
  ASSUME TypeOK, NEW r \in Reqs, r \notin opened,
         opened' = opened \cup {r}, pending' = pending \cup {r}, wire' = wire
  PROVE  OneShot!Next
<1>1. Phase(r) = "unseen"
  BY DEF Phase, TypeOK
<1>2. [q \in Reqs |-> Phase(q)]' = [[q \in Reqs |-> Phase(q)] EXCEPT ![r] = "asked"]
  BY DEF Phase
<1> QED
  BY <1>1, <1>2 DEF OneShot!Next, OneShot!Ask

\* handleRequest on a fresh request asks the user or settles the request.
LEMMA HandleRequestStep ==
  ASSUME IInv, NEW r \in Reqs, r \notin opened, NEW b \in BOOLEAN, HandleRequest(r, b),
         opened' = opened \cup {r}
  PROVE  OneShot!Next
<1>1. TypeOK /\ wire[r] = <<>> /\ r \notin pending
  BY DEF IInv, RInv, Fresh, TypeOK
<1>2. CASE allowFrom = {}
  <2>1. DispatchToTarget(r, "deny") /\ pending' = pending \ {r} /\ "deny" \in Answers
    BY <1>1, <1>2 DEF HandleRequest, Answers
  <2> QED
    BY <1>1, <2>1, FirstAnswer, SettleStep
<1>3. CASE allowFrom # {}
  <2>1. pending' = pending \cup {r} /\ wire' = wire
    BY <1>3 DEF HandleRequest
  <2> QED
    BY <1>1, <2>1, AskStep
<1> QED
  BY <1>2, <1>3

\* Every step of the relay is a step of OneShotDecision or a stuttering step.
LEMMA OneShotStep ==
  ASSUME "lostAck" \notin Faults, IInv, [Next]_vars
  PROVE  [OneShot!Next]_(OneShot!vars)
<1> TypeOK
  BY DEF IInv
<1>1. ASSUME NEW r \in HookReqs, HookStep(r)
      PROVE  UNCHANGED <<opened, pending, wire>>
  BY <1>1 DEF HookStep, HookAutoAllow, HookAsks, HookReads, HookTimeout, HookLosesDaemon
<1>2. ASSUME NEW r \in HookReqs, NEW view \in Views, HandleCcRequest(r, view)
      PROVE  OneShot!Next
  <2>1. r \in Reqs /\ r \notin opened /\ opened' = opened \cup {r}
    BY <1>2 DEF HandleCcRequest, Reqs
  <2>2. CASE view = "active" \/ view = "unmatched"
    BY <1>2, <2>1, <2>2, HandleRequestStep DEF HandleCcRequest
  <2>3. CASE view = "idle" \/ view = "cancelled"
    <3>1. wire[r] = <<>> /\ r \notin pending
      BY <2>1 DEF IInv, RInv, Fresh, TypeOK
    <3>2. PICK a \in Answers : DispatchToTarget(r, a) /\ pending' = pending \ {r}
      BY <1>2, <2>3, <3>1 DEF HandleCcRequest, Answers
    <3> QED
      BY <2>1, <3>1, <3>2, FirstAnswer, SettleStep
  <2> QED
    BY <2>2, <2>3 DEF Views
<1>3. ASSUME NEW r \in PluginReqs, HandlePluginRequest(r)
      PROVE  OneShot!Next
  BY <1>3, HandleRequestStep DEF HandlePluginRequest, Reqs
<1>4. ASSUME NEW r \in Reqs, Posting(r)
      PROVE  [OneShot!Next]_(OneShot!vars)
  <2>1. CASE UNCHANGED <<opened, pending, wire>>
    BY <2>1, StutterStep
  <2>2. CASE ~UNCHANGED <<opened, pending, wire>>
    <3>1. /\ cur[r] # NoChat /\ refs[r] = {} /\ msg[r][cur[r]] = "absent"
          /\ opened' = opened /\ pending' = pending \ {r} /\ DispatchToTarget(r, "deny")
          /\ "deny" \in Answers
      BY <1>4, <2>2 DEF Posting, SendDelivered, SendAcked, SendFailed, Rejected, Answers
    <3>2. r \in opened /\ opened' = opened \cup {r}
      BY <3>1 DEF IInv, RInv, Fresh
    <3>3. CASE r \in pending
      <4>1. wire[r] = <<>>
        BY <3>3 DEF IInv, RInv, Open
      <4> QED
        BY <3>1, <3>2, <3>3, <4>1, FirstAnswer, SettleStep
    <3>4. CASE r \notin pending
      <4>1. ~Reachable(r)
        BY <3>1, <3>4 DEF IInv, RInv, Unrecorded, Reachable
      <4>2. UNCHANGED <<opened, pending, wire>>
        BY <3>1, <3>4, <4>1 DEF DispatchToTarget
      <4> QED
        BY <2>2, <4>2
    <3> QED
      BY <3>3, <3>4
  <2> QED
    BY <2>1, <2>2
<1>5. ASSUME NEW r \in Reqs, Answered(r) \/ Prune(r)
      PROVE  OneShot!Next
  <2>1. PICK a \in Answers : /\ r \in pending /\ pending' = pending \ {r} /\ opened' = opened
                             /\ DispatchToTarget(r, a)
    <3>1. \A b : Effective(b) \in Answers \/ b \notin {"allow", "always", "deny"}
      BY DEF Effective, Answers
    <3> QED
      BY <1>5, <3>1 DEF Answered, HandleButton, HandleTextResponse, Prune, Answers
  <2>2. wire[r] = <<>> /\ r \in opened /\ opened' = opened \cup {r}
    BY <2>1 DEF IInv, RInv, Open, TypeOK
  <2> QED
    BY <2>1, <2>2, FirstAnswer, SettleStep
<1>6. ASSUME NEW r \in HookReqs, HandleHookGiveup(r)
      PROVE  [OneShot!Next]_(OneShot!vars)
  <2>1. /\ r \in Reqs /\ opened' = opened \cup {r} /\ pending' = pending \ {r} /\ wire' = wire
        /\ opened' = opened
    BY <1>6 DEF HandleHookGiveup, Reqs
  <2>2. CASE r \in pending
    BY <2>1, <2>2, SettleStep DEF Answers
  <2>3. CASE r \notin pending
    BY <2>1, <2>3, StutterStep
  <2> QED
    BY <2>2, <2>3
<1>7. ASSUME NEW r \in HookReqs, EditRef(r) \/ EditDone(r)
      PROVE  UNCHANGED <<opened, pending, wire>>
  BY <1>7 DEF EditRef, EditDone
<1>8. CASE AccessEdited \/ PluginDrops \/ PluginRegisters \/ UNCHANGED vars
  BY <1>8, StutterStep DEF AccessEdited, PluginDrops, PluginRegisters, vars
<1>9. CASE DaemonCrash
  <2>1. pending' = {} /\ UNCHANGED <<opened, wire>>
    BY <1>9 DEF DaemonCrash
  <2>2. [q \in Reqs |-> Phase(q)]'
           = [q \in Reqs |-> IF [p \in Reqs |-> Phase(p)][q] = "asked" THEN "settled"
                             ELSE [p \in Reqs |-> Phase(p)][q]]
    BY <2>1 DEF Phase, TypeOK
  <2> QED
    BY <2>1, <2>2 DEF OneShot!Next, OneShot!Forget
<1> QED
  BY <1>1, <1>2, <1>3, <1>4, <1>5, <1>6, <1>7, <1>8, <1>9, StutterStep DEF Next

\* The relay, its fan-out, giveups, prunes and crashes included, behaves for
\* its requesters like the one-shot decision procedure of OneShotDecision.
THEOREM RelayIsOneShot ==
  ASSUME "lostAck" \notin Faults
  PROVE  Spec => ImplementsOneShot
<1>1. Init => IInv
  BY Singleton DEF Init, IInv, RInv, Fresh, Open, Posted, Unrecorded, Unborn, Recorded,
                   Once, TypeOK, Reqs
<1>2. IInv /\ [Next]_vars => IInv'
  BY InvStep
<1>3. Init => OneShot!Init
  BY DEF Init, OneShot!Init, Phase
<1>4. IInv /\ [Next]_vars => [OneShot!Next]_(OneShot!vars)
  BY OneShotStep
<1> QED
  BY <1>1, <1>2, <1>3, <1>4, PTL DEF Spec, ImplementsOneShot, OneShot!Spec
-----------------------------------------------------------------------------
(* What the user is told, and what is written to settings.json *)

\* The daemon has seen the hook leave without an answer: it never gets one.
Abandoned(r) == wire[r] = <<>> /\ conn[r] = "closed"

\* Buttons are stripped, and the stale note is set, of such requests only.
StrippedWhenAbandoned ==
    \A r \in HookReqs : (r \in editing \/ \E c \in Chats : msg[r][c] = "stale") => Abandoned(r)

\* LabelTruthful with what makes it inductive.
LInv == StrippedWhenAbandoned /\ LabelTruthful

\* Only the first answer is written, while the connection is open.
LEMMA WireStep ==
  ASSUME "lostAck" \notin Faults, IInv, [Next]_vars, NEW r \in HookReqs
  PROVE  \/ wire'[r] = wire[r]
         \/ wire[r] = <<>> /\ conn[r] # "closed" /\ \E a \in Answers : wire'[r] = <<a>>
<1> TypeOK /\ IInv'
  BY InvStep DEF IInv
<1>1. ASSUME NEW p \in Reqs, NEW a \in Answers, DispatchToTarget(p, a)
      PROVE  wire'[r] = wire[r] \/ (conn[r] # "closed" /\ wire'[r] = Append(wire[r], a))
  BY <1>1 DEF DispatchToTarget, Reachable, TypeOK, Reqs
<1>2. wire' = wire \/ \E p \in Reqs, a \in Answers : DispatchToTarget(p, a)
  <2>1. ASSUME NEW p \in Reqs, NEW b \in BOOLEAN, HandleRequest(p, b)
        PROVE  wire' = wire \/ \E a \in Answers : DispatchToTarget(p, a)
    BY <2>1 DEF HandleRequest, Answers
  <2>2. ASSUME NEW p \in HookReqs, NEW view \in Views, HandleCcRequest(p, view)
        PROVE  wire' = wire \/ \E a \in Answers : DispatchToTarget(p, a)
    BY <2>1, <2>2 DEF HandleCcRequest, Answers, Reqs
  <2>3. ASSUME NEW p \in PluginReqs, HandlePluginRequest(p)
        PROVE  wire' = wire \/ \E a \in Answers : DispatchToTarget(p, a)
    BY <2>1, <2>3 DEF HandlePluginRequest, Reqs
  <2>4. ASSUME NEW p \in Reqs, Posting(p)
        PROVE  wire' = wire \/ \E a \in Answers : DispatchToTarget(p, a)
    BY <2>4 DEF Posting, SendDelivered, SendAcked, SendFailed, Answers
  <2>5. ASSUME NEW p \in Reqs, Answered(p) \/ Prune(p)
        PROVE  \E a \in Answers : DispatchToTarget(p, a)
    <3>1. \A b : Effective(b) \in Answers \/ b \notin {"allow", "always", "deny"}
      BY DEF Effective, Answers
    <3> QED
      BY <2>5, <3>1 DEF Answered, HandleButton, HandleTextResponse, Prune, Answers
  <2>6. ASSUME NEW p \in HookReqs,
               HookStep(p) \/ HandleHookGiveup(p) \/ EditRef(p) \/ EditDone(p)
        PROVE  wire' = wire
    BY <2>6 DEF HookStep, HookAutoAllow, HookAsks, HookReads, HookTimeout, HookLosesDaemon,
                HandleHookGiveup, EditRef, EditDone
  <2>7. CASE AccessEdited \/ PluginDrops \/ PluginRegisters \/ DaemonCrash \/ UNCHANGED vars
    BY <2>7 DEF AccessEdited, PluginDrops, PluginRegisters, DaemonCrash, vars
  <2> QED
    BY <2>2, <2>3, <2>4, <2>5, <2>6, <2>7 DEF Next, Reqs
<1>3. wire'[r] = wire[r] \/ (conn[r] # "closed" /\ \E a \in Answers : wire'[r] = Append(wire[r], a))
  BY <1>1, <1>2
<1>4. ASSUME NEW a \in Answers, wire'[r] = Append(wire[r], a)
      PROVE  wire[r] = <<>> /\ wire'[r] = <<a>>
  <2>1. r \in Reqs /\ wire[r] \in Seq(Answers)
    BY DEF TypeOK, Reqs
  <2>2. Len(wire'[r]) <= 1
    BY <2>1 DEF IInv, RInv, Once
  <2>3. Len(wire[r]) \in Nat /\ Len(wire'[r]) = Len(wire[r]) + 1
    BY <1>4, <2>1
  <2>4. wire[r] = <<>>
    BY <2>1, <2>2, <2>3
  <2> QED
    BY <1>4, <2>4, Singleton
<1> QED
  BY <1>3, <1>4

\* A connection that was closed stays closed: a hook process connects once.
LEMMA ConnStep ==
  ASSUME IInv, [Next]_vars, NEW r \in HookReqs, conn[r] = "closed"
  PROVE  conn'[r] = "closed"
<1> TypeOK /\ Unborn(r)
  BY DEF IInv, RInv, Reqs
<1>1. ASSUME NEW p \in HookReqs, HookStep(p)
      PROVE  conn'[r] = "closed"
  <2>1. CASE HookAsks(p)
    <3>1. p # r
      BY <2>1 DEF HookAsks, Unborn
    <3> QED
      BY <2>1, <3>1 DEF HookAsks, TypeOK
  <2> QED
    BY <1>1, <2>1 DEF HookStep, HookAutoAllow, HookReads, HookTimeout, HookLosesDaemon
<1>2. ASSUME NEW p \in HookReqs, HandleHookGiveup(p)
      PROVE  conn'[r] = "closed"
  BY <1>2 DEF HandleHookGiveup, TypeOK
<1>3. CASE DaemonCrash
  BY <1>3 DEF DaemonCrash, TypeOK
<1>4. CASE \/ \E p \in HookReqs, view \in Views : HandleCcRequest(p, view)
           \/ \E p \in PluginReqs : HandlePluginRequest(p)
           \/ \E p \in Reqs : Posting(p) \/ Answered(p) \/ Prune(p)
           \/ \E p \in HookReqs : EditRef(p) \/ EditDone(p)
           \/ AccessEdited \/ PluginDrops \/ PluginRegisters \/ UNCHANGED vars
  BY <1>4 DEF HandleCcRequest, HandlePluginRequest, Posting, SendDelivered, SendAcked, SendFailed,
              Answered, HandleButton, HandleTextResponse, Prune, EditRef, EditDone,
              AccessEdited, PluginDrops, PluginRegisters, vars, peers
<1> QED
  BY <1>1, <1>2, <1>3, <1>4 DEF Next

\* An answered click of allow or always is what the hook is told first.
LEMMA ClickTells ==
  ASSUME IInv, NEW r \in HookReqs, NEW c \in Chats, NEW u \in Users,
         NEW b \in {"allow", "always", "deny"}, HandleButton(r, c, u, b)
  PROVE  wire[r] = <<>> /\ conn[r] = "open" /\ wire'[r] = <<Effective(b)>>
<1>1. r \in Reqs /\ TypeOK /\ Open(r)
  BY DEF IInv, RInv, Reqs
<1>2. wire[r] = <<>> /\ conn[r] = "open" /\ DispatchToTarget(r, Effective(b))
  BY <1>1 DEF HandleButton, Open
<1>3. Append(wire[r], Effective(b)) = <<Effective(b)>>
  BY <1>2, Singleton
<1> QED
  BY <1>1, <1>2, <1>3 DEF DispatchToTarget, Reachable, TypeOK

LEMMA StepLabels ==
  ASSUME "lostAck" \notin Faults, IInv, LInv, [Next]_vars
  PROVE  LInv'
<1> TypeOK /\ HookReqs \subseteq Reqs
  BY DEF IInv, Reqs
<1>w. \A r \in HookReqs : /\ wire[r] # <<>> => wire'[r] = wire[r]
                          /\ Abandoned(r) => Abandoned(r)'
  BY WireStep, ConnStep DEF Abandoned
\* A message that keeps its text, or is a new one, and a loop that was running.
<1>1. ASSUME NEW r \in HookReqs, NEW c \in Chats, msg'[r][c] = msg[r][c] \/ msg'[r][c] = "live"
      PROVE  /\ msg'[r][c] = "allowed" => wire'[r] # <<>> /\ Head(wire'[r]) = "allow"
             /\ msg'[r][c] = "denied" => wire'[r] # <<>> /\ Head(wire'[r]) = "deny"
             /\ msg'[r][c] = "stale" => Abandoned(r)'
  BY <1>1, <1>w DEF LInv, LabelTruthful, StrippedWhenAbandoned
<1>2. ASSUME NEW r \in HookReqs, r \in editing
      PROVE  Abandoned(r)'
  BY <1>2, <1>w DEF LInv, StrippedWhenAbandoned
\* What a step makes of messages and loops, if it makes more of them.
<1>3. \/ \A r \in HookReqs, c \in Chats : msg'[r][c] = msg[r][c] \/ msg'[r][c] = "live"
      \/ \E r \in Reqs, c \in Chats, u \in Users, b \in {"allow", "always", "deny"} :
            HandleButton(r, c, u, b) /\ msg' = [msg EXCEPT ![r][c] = Label(Effective(b))]
      \/ \E r \in HookReqs, c \in Chats : r \in editing /\ msg' = [msg EXCEPT ![r][c] = "stale"]
  <2>1. ASSUME NEW r \in Reqs, Posting(r)
        PROVE  \A q \in HookReqs, c \in Chats : msg'[q][c] = msg[q][c] \/ msg'[q][c] = "live"
    <3>1. CASE SendDelivered(r)
      <4>1. msg' = [msg EXCEPT ![r][cur[r]] = "live"]
        BY <3>1 DEF SendDelivered
      <4> QED
        BY <4>1 DEF TypeOK
    <3>2. CASE SendAcked(r) \/ SendFailed(r)
      BY <3>2 DEF SendAcked, SendFailed
    <3> QED
      BY <2>1, <3>1, <3>2 DEF Posting
  <2>2. ASSUME NEW r \in Reqs, Answered(r)
        PROVE  \/ msg' = msg
               \/ \E c \in Chats, u \in Users, b \in {"allow", "always", "deny"} :
                     HandleButton(r, c, u, b) /\ msg' = [msg EXCEPT ![r][c] = Label(Effective(b))]
    <3>1. ASSUME NEW c \in Chats, NEW u \in Users, NEW b \in {"allow", "always", "deny"},
                 HandleButton(r, c, u, b)
          PROVE  msg' = msg \/ msg' = [msg EXCEPT ![r][c] = Label(Effective(b))]
      BY <3>1, Zenon DEF HandleButton
    <3> QED
      BY <2>2, <3>1 DEF Answered, HandleTextResponse
  <2>3. ASSUME NEW r \in HookReqs, EditRef(r)
        PROVE  msg' = msg \/ \E c \in Chats : r \in editing /\ msg' = [msg EXCEPT ![r][c] = "stale"]
    <3>1. refs[r] \subseteq Chats
      BY DEF TypeOK
    <3> QED
      BY <2>3, <3>1 DEF EditRef
  <2>4. CASE \/ \E r \in HookReqs : HookStep(r) \/ HandleHookGiveup(r) \/ EditDone(r)
             \/ \E r \in HookReqs, view \in Views : HandleCcRequest(r, view)
             \/ \E r \in PluginReqs : HandlePluginRequest(r)
             \/ \E r \in Reqs : Prune(r)
             \/ AccessEdited \/ PluginDrops \/ PluginRegisters \/ DaemonCrash \/ UNCHANGED vars
    BY <2>4 DEF HookStep, HookAutoAllow, HookAsks, HookReads, HookTimeout, HookLosesDaemon,
                HandleHookGiveup, EditDone, HandleCcRequest, HandlePluginRequest, Prune,
                AccessEdited, PluginDrops, PluginRegisters, DaemonCrash, vars
  <2> QED
    BY <2>1, <2>2, <2>3, <2>4 DEF Next
<1>4. \A r \in HookReqs : r \in editing' => r \in editing \/ Abandoned(r)'
  <2>1. ASSUME NEW p \in HookReqs, HandleHookGiveup(p), NEW r \in HookReqs, r \in editing', r \notin editing
        PROVE  Abandoned(r)'
    <3>1. r = p /\ p \in pending /\ wire' = wire /\ conn' = [conn EXCEPT ![p] = "closed"]
      BY <2>1 DEF HandleHookGiveup
    <3>2. wire[p] = <<>>
      BY <3>1 DEF IInv, RInv, Open
    <3> QED
      BY <3>1, <3>2 DEF Abandoned, TypeOK
  <2>2. CASE ~\E p \in HookReqs : HandleHookGiveup(p)
    <3>1. editing' \subseteq editing
      BY <2>2 DEF Next, HookStep, HookAutoAllow, HookAsks, HookReads, HookTimeout, HookLosesDaemon,
                  HandleCcRequest, HandlePluginRequest, Posting, SendDelivered, SendAcked, SendFailed,
                  Answered, HandleButton, HandleTextResponse, Prune, EditRef, EditDone,
                  AccessEdited, PluginDrops, PluginRegisters, DaemonCrash, vars, strip
    <3> QED
      BY <3>1
  <2> QED
    BY <2>1, <2>2
<1>5. \A r \in HookReqs, c \in Chats :
        /\ msg'[r][c] = "allowed" => wire'[r] # <<>> /\ Head(wire'[r]) = "allow"
        /\ msg'[r][c] = "denied" => wire'[r] # <<>> /\ Head(wire'[r]) = "deny"
        /\ msg'[r][c] = "stale" => Abandoned(r)'
  <2> SUFFICES ASSUME NEW r \in HookReqs, NEW c \in Chats
               PROVE  /\ msg'[r][c] = "allowed" => wire'[r] # <<>> /\ Head(wire'[r]) = "allow"
                      /\ msg'[r][c] = "denied" => wire'[r] # <<>> /\ Head(wire'[r]) = "deny"
                      /\ msg'[r][c] = "stale" => Abandoned(r)'
    OBVIOUS
  <2>1. CASE msg'[r][c] = msg[r][c] \/ msg'[r][c] = "live"
    BY <1>1, <2>1
  <2>2. ASSUME NEW p \in Reqs, NEW d \in Chats, NEW u \in Users, NEW b \in {"allow", "always", "deny"},
               HandleButton(p, d, u, b), msg' = [msg EXCEPT ![p][d] = Label(Effective(b))],
               p = r, d = c
        PROVE  /\ msg'[r][c] = "allowed" => wire'[r] # <<>> /\ Head(wire'[r]) = "allow"
               /\ msg'[r][c] = "denied" => wire'[r] # <<>> /\ Head(wire'[r]) = "deny"
               /\ msg'[r][c] # "stale"
    <3>1. msg'[r][c] = Label(Effective(b))
      BY <2>2 DEF TypeOK
    <3>2. wire'[r] = <<Effective(b)>>
      BY <2>2, ClickTells
    <3>3. wire'[r] # <<>> /\ Head(wire'[r]) = Effective(b)
      BY <3>2
    <3> QED
      BY <3>1, <3>3 DEF Label, Effective
  <2>3. ASSUME NEW p \in HookReqs, NEW d \in Chats, p \in editing,
               msg' = [msg EXCEPT ![p][d] = "stale"], p = r, d = c
        PROVE  msg'[r][c] = "stale" /\ Abandoned(r)'
    BY <1>2, <2>3 DEF TypeOK
  <2>4. ASSUME NEW p \in Reqs, NEW d \in Chats, NEW t, msg' = [msg EXCEPT ![p][d] = t],
               ~(p = r /\ d = c)
        PROVE  msg'[r][c] = msg[r][c]
    BY <2>4 DEF TypeOK
  <2>5. CASE \E p \in Reqs, d \in Chats, u \in Users, b \in {"allow", "always", "deny"} :
                HandleButton(p, d, u, b) /\ msg' = [msg EXCEPT ![p][d] = Label(Effective(b))]
    <3>1. PICK p \in Reqs, d \in Chats, u \in Users, b \in {"allow", "always", "deny"} :
                 HandleButton(p, d, u, b) /\ msg' = [msg EXCEPT ![p][d] = Label(Effective(b))]
      BY <2>5
    <3>2. CASE p = r /\ d = c
      BY <2>2, <3>1, <3>2
    <3>3. CASE ~(p = r /\ d = c)
      BY <2>1, <2>4, <3>1, <3>3
    <3> QED
      BY <3>2, <3>3
  <2>6. CASE \E p \in HookReqs, d \in Chats : p \in editing /\ msg' = [msg EXCEPT ![p][d] = "stale"]
    <3>1. PICK p \in HookReqs, d \in Chats : p \in editing /\ msg' = [msg EXCEPT ![p][d] = "stale"]
      BY <2>6
    <3>2. CASE p = r /\ d = c
      <4>1. msg'[r][c] = "stale" /\ Abandoned(r)'
        BY <2>3, <3>1, <3>2
      <4> QED
        BY <4>1
    <3>3. CASE ~(p = r /\ d = c)
      BY <2>1, <2>4, <3>1, <3>3
    <3> QED
      BY <3>2, <3>3
  <2> QED
    BY <1>3, <2>1, <2>5, <2>6
<1>6. StrippedWhenAbandoned'
  BY <1>2, <1>4, <1>5 DEF StrippedWhenAbandoned
<1> QED
  BY <1>5, <1>6 DEF LInv, LabelTruthful, Abandoned

\* What the messages in Discord say of a hook's request, also of one whose hook
\* left while the fan-out went on, is what the hook was told first
\* (permission-relay.ts, handleButton and editAllRefs).
THEOREM LabelsAreTruthful ==
  ASSUME "lostAck" \notin Faults
  PROVE  Spec => []LabelTruthful
<1>1. Init => LInv
  BY DEF Init, LInv, StrippedWhenAbandoned, LabelTruthful, Reqs
<1>2. IInv /\ LInv /\ [Next]_vars => LInv'
  BY StepLabels
<1>3. LInv => LabelTruthful
  BY DEF LInv
<1> QED
  BY <1>1, <1>2, <1>3, Invariance, PTL DEF Spec

\* A rule reaches settings.json only with a request that the same step allows,
\* and it is the rule of that request (persistAllowRule after the claim).
THEOREM RulesAllowed ==
  ASSUME "lostAck" \notin Faults
  PROVE  Spec => RulesWereAllowed
<1>1. ASSUME IInv, [Next]_vars
      PROVE  [\A q \in settings' \ settings : \E r \in HookReqs :
                 q = DeriveAllowRule(r) /\ wire'[r] # <<>> /\ Head(wire'[r]) = "allow"]_vars
  <2>1. ASSUME NEW r \in Reqs, NEW c \in Chats, NEW u \in Users, NEW b \in {"allow", "always", "deny"},
               HandleButton(r, c, u, b), settings' # settings
        PROVE  /\ r \in HookReqs /\ settings' = settings \cup {DeriveAllowRule(r)}
               /\ wire'[r] # <<>> /\ Head(wire'[r]) = "allow"
    <3>1. b = "always"
      BY <2>1 DEF HandleButton
    <3>2. r \in HookReqs /\ settings' = settings \cup {DeriveAllowRule(r)}
      BY <2>1, <3>1 DEF HandleButton, Clickable
    <3>3. wire'[r] = <<"allow">>
      BY <1>1, <2>1, <3>1, <3>2, ClickTells DEF Effective
    <3> QED
      BY <3>2, <3>3
  <2>2. CASE ~\E r \in Reqs, c \in Chats, u \in Users, b \in {"allow", "always", "deny"} :
                 HandleButton(r, c, u, b)
    <3>1. settings' = settings
      BY <1>1, <2>2 DEF Next, HookStep, HookAutoAllow, HookAsks, HookReads, HookTimeout, HookLosesDaemon,
                  HandleCcRequest, HandlePluginRequest, Posting, SendDelivered, SendAcked, SendFailed,
                  Answered, HandleTextResponse, Prune, HandleHookGiveup, EditRef, EditDone,
                  AccessEdited, PluginDrops, PluginRegisters, DaemonCrash, vars, files
    <3> QED
      BY <3>1
  <2> QED
    BY <2>1, <2>2
<1> QED
  BY <1>1, Invariance, PTL DEF Spec, RulesWereAllowed, Init, IInv
=============================================================================
