-------------------------- MODULE PermissionRelay --------------------------
(***************************************************************************)
(* The permission relay of the daemon (src/daemon/permission-relay.ts)     *)
(* with the PreToolUse hook process that asks it (src/cli/permission-      *)
(* hook.ts) and the Discord messages it posts.                             *)
(*                                                                         *)
(* A request is identified by its five letter request_id.  It comes from a *)
(* one-shot hook process over an anonymous connection, or from a           *)
(* registered plugin.  The relay posts a button message, to the chat the   *)
(* turn came from or by DM to every user of allowFrom, and the first       *)
(* authorised button click or text reply claims the pending entry and is   *)
(* dispatched to the requester.                                            *)
(*                                                                         *)
(* Every await of handleRequest is a point where other handlers run, so    *)
(* the send loop is split at the awaits: the message reaches Discord       *)
(* (SendDelivered) and the promise settles (SendAcked, SendFailed).        *)
(* Request ids are unique: a collision of two of the 25^5 ids is left out. *)
(***************************************************************************)
EXTENDS Naturals, Sequences

CONSTANTS
    HookReqs,    \* requests of PreToolUse hook processes
    PluginReqs,  \* requests of the registered plugin
    Users,       \* Discord users that may appear in access.allowFrom
    Source,      \* the chat of the turn's inbound, as a destination
    NoChat,      \* no send is being awaited
    ToolOf,      \* tool_name of each hook request
    ArgOf,       \* the argument deriveAllowRule takes from its input
    Narrowed,    \* tools whose rule is narrowed to the argument
    AnyArg,      \* the argument of a bare tool rule
    Faults       \* what may go wrong, a subset of FaultKinds

Reqs  == HookReqs \cup PluginReqs
Chats == Users \cup {Source}

FaultKinds ==
    {"sendFails",   \* a send is rejected and nothing was posted
     "lostAck",     \* a send is rejected although the message was posted
     "editFails",   \* an edit of a posted message is rejected
     "pluginDrop",  \* the plugin's socket closes, and registers again
     "crash"}       \* the daemon dies and is restarted by the supervisor

ASSUME ReqsAssumption == HookReqs \cap PluginReqs = {}
ASSUME ChatsAssumption == Source \notin Users /\ NoChat \notin Chats
ASSUME FaultsAssumption == Faults \subseteq FaultKinds

VARIABLES
    allowFrom,  \* access.json: users whose answers count
    settings,   \* ~/.claude/settings.json: rules in permissions.allow
    opened,     \* requests whose line the daemon has handled
    pending,    \* keys of PermissionRelay.pending
    cur,        \* the chat whose send handleRequest awaits, or NoChat
    todo,       \* allowFrom users the fan-out has still to reach
    refs,       \* entry.messageRefs, by chat
    msg,        \* what Discord shows for the request in each chat
    editing,    \* requests whose editAllRefs loop is running
    edited,     \* the refs that loop has done
    wire,       \* every answer written to the requester, in order
    hook,       \* the hook process: unborn, waiting, or what it emitted
    conn,       \* the daemon's end of the hook's connection
    pluginUp    \* registry.get(workspace) finds the plugin

vars == <<allowFrom, settings, opened, pending, cur, todo, refs, msg,
          editing, edited, wire, hook, conn, pluginUp>>

posting == <<cur, todo, refs>>
strip   == <<editing, edited>>
peers   == <<hook, conn, pluginUp>>
files   == <<allowFrom, settings>>

Answers  == {"allow", "deny", "defer"}
Verdicts == {"allow", "deny", "ask", "silent"}
\* What handleCcRequest finds when it looks the hook's cwd up: no workspace,
\* one outside a Discord turn, one in a turn, one whose turn was cancelled.
Views    == {"unmatched", "idle", "active", "cancelled"}

Rule == [tool : {ToolOf[r] : r \in HookReqs},
         arg  : {ArgOf[r] : r \in HookReqs} \cup {AnyArg}]

TypeOK ==
    /\ allowFrom \subseteq Users
    /\ settings \subseteq Rule
    /\ opened \subseteq Reqs
    /\ pending \subseteq opened
    /\ cur \in [Reqs -> Chats \cup {NoChat}]
    /\ todo \in [Reqs -> SUBSET Users]
    /\ refs \in [Reqs -> SUBSET Chats]
    /\ msg \in [Reqs -> [Chats -> {"absent", "live", "allowed", "denied", "stale"}]]
    /\ editing \subseteq HookReqs
    /\ edited \in [Reqs -> SUBSET Chats]
    /\ wire \in [Reqs -> Seq(Answers)]
    /\ hook \in [HookReqs -> {"unborn", "waiting"} \cup Verdicts]
    /\ conn \in [HookReqs -> {"none", "open", "closed"}]
    /\ pluginUp \in BOOLEAN

\* settings.json may hold rules of earlier requests.
Init ==
    /\ allowFrom \in SUBSET Users
    /\ settings \in SUBSET Rule
    /\ opened = {}
    /\ pending = {}
    /\ cur = [r \in Reqs |-> NoChat]
    /\ todo = [r \in Reqs |-> {}]
    /\ refs = [r \in Reqs |-> {}]
    /\ msg = [r \in Reqs |-> [c \in Chats |-> "absent"]]
    /\ editing = {}
    /\ edited = [r \in Reqs |-> {}]
    /\ wire = [r \in Reqs |-> <<>>]
    /\ hook = [r \in HookReqs |-> "unborn"]
    /\ conn = [r \in HookReqs |-> "none"]
    /\ pluginUp = TRUE

-----------------------------------------------------------------------------
(* Helpers *)

\* deriveAllowRule: narrow to the argument where the tool has one.
DeriveAllowRule(r) ==
    [tool |-> ToolOf[r],
     arg  |-> IF ToolOf[r] \in Narrowed THEN ArgOf[r] ELSE AnyArg]

\* settingsAllows: the bare name, or any rule of the form Tool(...).
SettingsAllows(r) == \E q \in settings : q.tool = ToolOf[r]

\* Connection.send writes unless the connection is closed; a plugin is looked
\* up by name when the answer is dispatched.
Reachable(r) == IF r \in HookReqs THEN conn[r] # "closed" ELSE pluginUp

\* dispatchToTarget, and the direct conn.send of handleCcRequest.
DispatchToTarget(r, answer) ==
    wire' = IF Reachable(r) THEN [wire EXCEPT ![r] = Append(@, answer)] ELSE wire

\* The next iteration of the fan-out loop over allowFrom.
NextRecipient(r, users) ==
    \E u \in users : /\ cur'  = [cur EXCEPT ![r] = u]
                     /\ todo' = [todo EXCEPT ![r] = users \ {u}]

-----------------------------------------------------------------------------
(* Requests arrive *)

\* The tool is already allowed in settings.json: the hook does not connect.
HookAutoAllow(r) ==
    /\ hook[r] = "unborn"
    /\ SettingsAllows(r)
    /\ hook' = [hook EXCEPT ![r] = "allow"]
    /\ UNCHANGED <<files, opened, pending, posting, msg, strip, wire, conn, pluginUp>>

\* The hook connects and writes its cc_permission_request.
HookAsks(r) ==
    /\ hook[r] = "unborn"
    /\ ~SettingsAllows(r)
    /\ hook' = [hook EXCEPT ![r] = "waiting"]
    /\ conn' = [conn EXCEPT ![r] = "open"]
    /\ UNCHANGED <<files, opened, pending, posting, msg, strip, wire, pluginUp>>

\* handleRequest up to its first await.
HandleRequest(r, toSource) ==
    \/ /\ allowFrom = {}
       /\ DispatchToTarget(r, "deny")
       /\ UNCHANGED <<pending, cur, todo>>
    \/ /\ allowFrom # {}
       /\ pending' = pending \cup {r}
       /\ IF toSource
          THEN /\ cur'  = [cur EXCEPT ![r] = Source]
               /\ todo' = [todo EXCEPT ![r] = allowFrom]
          ELSE NextRecipient(r, allowFrom)
       /\ wire' = wire

\* The daemon reads the hook's line.  The hook may have exited meanwhile: its
\* data is read before the end of the stream.
HandleCcRequest(r, view) ==
    /\ conn[r] = "open"
    /\ r \notin opened
    /\ opened' = opened \cup {r}
    /\ \/ view = "idle" /\ DispatchToTarget(r, "defer") /\ UNCHANGED <<pending, cur, todo>>
       \/ view = "cancelled" /\ DispatchToTarget(r, "deny") /\ UNCHANGED <<pending, cur, todo>>
       \/ view = "active" /\ HandleRequest(r, TRUE)
       \/ view = "unmatched" /\ HandleRequest(r, FALSE)
    /\ UNCHANGED <<files, refs, msg, strip, peers>>

\* A registered plugin relays CC's permission_request.
HandlePluginRequest(r) ==
    /\ pluginUp
    /\ r \notin opened
    /\ opened' = opened \cup {r}
    /\ HandleRequest(r, FALSE)
    /\ UNCHANGED <<files, refs, msg, strip, peers>>

-----------------------------------------------------------------------------
(* handleRequest after its awaits *)

\* Discord posts the message; the daemon does not know yet.
SendDelivered(r) ==
    /\ cur[r] # NoChat
    /\ msg[r][cur[r]] = "absent"
    /\ msg' = [msg EXCEPT ![r][cur[r]] = "live"]
    /\ UNCHANGED <<files, opened, pending, posting, strip, wire, peers>>

\* The send's promise resolves: record the ref, go on with the fan-out.
SendAcked(r) ==
    /\ cur[r] # NoChat
    /\ msg[r][cur[r]] # "absent"
    /\ refs' = [refs EXCEPT ![r] = @ \cup {cur[r]}]
    /\ IF cur[r] = Source \/ todo[r] = {}
       THEN cur' = [cur EXCEPT ![r] = NoChat] /\ todo' = [todo EXCEPT ![r] = {}]
       ELSE NextRecipient(r, todo[r])
    /\ UNCHANGED <<files, opened, pending, msg, strip, wire, peers>>

\* A send may be rejected before or, with a lost answer, after the posting.
Rejected(r) ==
    \/ "sendFails" \in Faults /\ msg[r][cur[r]] = "absent"
    \/ "lostAck" \in Faults /\ msg[r][cur[r]] # "absent"

\* Mutated form: an unreachable request is dropped and not denied.
SendFailed_NoDeny(r) ==
    /\ cur[r] # NoChat
    /\ Rejected(r)
    /\ \/ todo[r] # {} /\ NextRecipient(r, todo[r])
       \/ todo[r] = {} /\ cur' = [cur EXCEPT ![r] = NoChat] /\ todo' = todo
    /\ pending' = IF todo[r] = {} /\ refs[r] = {} THEN pending \ {r} ELSE pending
    /\ UNCHANGED <<files, opened, refs, msg, strip, wire, peers>>

\* Mutated form: a failing last send denies although another one succeeded.
SendFailed_AlwaysDenies(r) ==
    /\ cur[r] # NoChat
    /\ Rejected(r)
    /\ \/ todo[r] # {} /\ NextRecipient(r, todo[r]) /\ UNCHANGED <<pending, wire>>
       \/ /\ todo[r] = {}
          /\ cur' = [cur EXCEPT ![r] = NoChat]
          /\ todo' = todo
          /\ pending' = pending \ {r}
          /\ DispatchToTarget(r, "deny")
    /\ UNCHANGED <<files, opened, refs, msg, strip, peers>>

\* The send's promise rejects: fall back to the DMs or go on with them, and
\* deny when nobody could be reached.
SendFailed(r) ==
    /\ cur[r] # NoChat
    /\ Rejected(r)
    /\ \/ /\ todo[r] # {}
          /\ NextRecipient(r, todo[r])
          /\ UNCHANGED <<pending, wire>>
       \/ /\ todo[r] = {}
          /\ cur' = [cur EXCEPT ![r] = NoChat]
          /\ IF refs[r] = {}
             THEN pending' = pending \ {r} /\ DispatchToTarget(r, "deny")
             ELSE UNCHANGED <<pending, wire>>
          /\ todo' = todo
    /\ UNCHANGED <<files, opened, refs, msg, strip, peers>>

-----------------------------------------------------------------------------
(* The user answers *)

Label(answer) == IF answer = "allow" THEN "allowed" ELSE "denied"

Clickable(r, c, u, button) ==
    /\ msg[r][c] # "absent" /\ (c = Source \/ c = u)
    /\ button = "always" => r \in HookReqs
    /\ u \in allowFrom

Effective(button) == IF button = "always" THEN "allow" ELSE button

\* Mutated forms of HandleButton: the raw behavior of the button is sent; the
\* entry is read but not claimed; a click on a settled request is labelled;
\* the rule is persisted before the claim.
HandleButton_Raw(r, c, u, button) ==
    /\ Clickable(r, c, u, button) /\ r \in pending
    /\ pending' = pending \ {r}
    /\ DispatchToTarget(r, button)
    /\ UNCHANGED <<files, opened, posting, msg, strip, peers>>

HandleButton_NoClaim(r, c, u, button) ==
    /\ Clickable(r, c, u, button) /\ r \in pending
    /\ DispatchToTarget(r, Effective(button))
    /\ UNCHANGED <<files, opened, pending, posting, msg, strip, peers>>

HandleButton_AlwaysLabels(r, c, u, button) ==
    /\ Clickable(r, c, u, button)
    /\ pending' = pending \ {r}
    /\ IF r \in pending THEN DispatchToTarget(r, Effective(button)) ELSE wire' = wire
    /\ msg' = [msg EXCEPT ![r][c] = Label(Effective(button))]
    /\ UNCHANGED <<files, opened, posting, strip, peers>>

HandleButton_PersistFirst(r, c, u, button) ==
    /\ Clickable(r, c, u, button)
    /\ pending' = pending \ {r}
    /\ IF r \in pending THEN DispatchToTarget(r, Effective(button)) ELSE wire' = wire
    /\ settings' = IF button = "always" THEN settings \cup {DeriveAllowRule(r)} ELSE settings
    /\ UNCHANGED <<allowFrom, opened, posting, msg, strip, peers>>

\* A click on allow, always or deny; the message was posted, it may have
\* changed since the click.  A click by a user outside allowFrom, on a request
\* that is no longer pending, or on See more (a peek) changes nothing.  The
\* rule of an always click may fail to be written, and so may the label.
HandleButton(r, c, u, button) ==
    /\ Clickable(r, c, u, button)
    /\ r \in pending
    /\ pending' = pending \ {r}
    /\ DispatchToTarget(r, Effective(button))
    /\ settings' \in IF button = "always"
                     THEN {settings, settings \cup {DeriveAllowRule(r)}}
                     ELSE {settings}
    /\ \/ msg' = [msg EXCEPT ![r][c] = Label(Effective(button))]
       \/ "editFails" \in Faults /\ msg' = msg
    /\ UNCHANGED <<allowFrom, opened, posting, strip, peers>>

\* `yes xxxxx` or `no xxxxx` typed by a user who has seen the id.
HandleTextResponse(r, u, answer) ==
    /\ \E c \in Chats : msg[r][c] # "absent"
    /\ u \in allowFrom
    /\ r \in pending
    /\ pending' = pending \ {r}
    /\ DispatchToTarget(r, answer)
    /\ UNCHANGED <<files, opened, posting, msg, strip, peers>>

-----------------------------------------------------------------------------
(* Nobody answers *)

\* The prune timer denies an entry older than PENDING_TTL_MS.  The sends of a
\* request are over long before: the REST client gives up within minutes.
Prune(r) ==
    /\ r \in pending
    /\ cur[r] = NoChat
    /\ pending' = pending \ {r}
    /\ DispatchToTarget(r, "deny")
    /\ UNCHANGED <<files, opened, posting, msg, strip, peers>>

\* Mutated form: nothing listens to the hook's close event.
HandleHookGiveup_KeepsEntry(r) ==
    /\ conn[r] = "open" /\ hook[r] \in Verdicts /\ r \in opened
    /\ conn' = [conn EXCEPT ![r] = "closed"]
    /\ UNCHANGED <<files, opened, pending, posting, msg, strip, wire, hook, pluginUp>>

\* Mutated form: editAllRefs also runs for a request that was answered.
HandleHookGiveup_Unclaimed(r) ==
    /\ conn[r] = "open" /\ hook[r] \in Verdicts /\ r \in opened
    /\ conn' = [conn EXCEPT ![r] = "closed"]
    /\ pending' = pending \ {r}
    /\ editing' = IF refs[r] # {} THEN editing \cup {r} ELSE editing
    /\ UNCHANGED <<files, opened, posting, msg, edited, wire, hook, pluginUp>>

\* The daemon sees the hook's socket close.  If the entry is pending it is
\* dropped and editAllRefs starts; on no refs its loop ends at once.
HandleHookGiveup(r) ==
    /\ conn[r] = "open" /\ hook[r] \in Verdicts /\ r \in opened
    /\ conn' = [conn EXCEPT ![r] = "closed"]
    /\ pending' = pending \ {r}
    /\ editing' = IF r \in pending /\ refs[r] # {} THEN editing \cup {r} ELSE editing
    /\ UNCHANGED <<files, opened, posting, msg, edited, wire, hook, pluginUp>>

\* One iteration of editAllRefs: strip the buttons of a recorded message.
\* The loop walks the live messageRefs array, so it meets a ref pushed while
\* it runs.
EditRef(r) ==
    /\ r \in editing
    /\ \E c \in refs[r] \ edited[r] :
          /\ edited' = [edited EXCEPT ![r] = @ \cup {c}]
          /\ \/ msg' = [msg EXCEPT ![r][c] = "stale"]
             \/ "editFails" \in Faults /\ msg' = msg
    /\ UNCHANGED <<files, opened, pending, posting, editing, wire, peers>>

\* Mutated form: the loop returns after its first message.
EditDone_AfterFirst(r) ==
    /\ r \in editing
    /\ edited[r] # {}
    /\ editing' = editing \ {r}
    /\ UNCHANGED <<files, opened, pending, posting, msg, edited, wire, peers>>

\* The loop finds no further ref.
EditDone(r) ==
    /\ r \in editing
    /\ refs[r] \subseteq edited[r]
    /\ editing' = editing \ {r}
    /\ UNCHANGED <<files, opened, pending, posting, msg, edited, wire, peers>>

-----------------------------------------------------------------------------
(* The hook process *)

\* What main() prints for the first answer it reads.
Emitted(answer) == IF answer = "defer" THEN "ask" ELSE answer

\* The hook reads its answer, ends the socket and prints the decision.
HookReads(r) ==
    /\ hook[r] = "waiting"
    /\ wire[r] # <<>>
    /\ hook' = [hook EXCEPT ![r] = Emitted(Head(wire[r]))]
    /\ UNCHANGED <<files, opened, pending, posting, msg, strip, wire, conn, pluginUp>>

\* Three minutes pass, or the process is interrupted: CC's own prompt decides.
HookTimeout(r) ==
    /\ hook[r] = "waiting"
    /\ hook' = [hook EXCEPT ![r] = "ask"]
    /\ UNCHANGED <<files, opened, pending, posting, msg, strip, wire, conn, pluginUp>>

\* The daemon's end is gone and the stream ends.  No handler is installed for
\* that and the timer is unref'd: the event loop drains and the process exits.
HookLosesDaemon(r) ==
    /\ hook[r] = "waiting"
    /\ conn[r] = "closed"
    /\ wire[r] = <<>>
    /\ hook' = [hook EXCEPT ![r] = "silent"]
    /\ UNCHANGED <<files, opened, pending, posting, msg, strip, wire, conn, pluginUp>>

-----------------------------------------------------------------------------
(* The surroundings *)

\* `/claude-discord:access allow` or `remove` rewrites access.json.
AccessEdited ==
    /\ \E u \in Users : allowFrom' \in {allowFrom \cup {u}, allowFrom \ {u}}
    /\ UNCHANGED <<settings, opened, pending, posting, msg, strip, wire, peers>>

PluginDrops ==
    /\ "pluginDrop" \in Faults
    /\ pluginUp
    /\ pluginUp' = FALSE
    /\ UNCHANGED <<files, opened, pending, posting, msg, strip, wire, hook, conn>>

PluginRegisters ==
    /\ ~pluginUp
    /\ pluginUp' = TRUE
    /\ UNCHANGED <<files, opened, pending, posting, msg, strip, wire, hook, conn>>

\* The daemon process dies: the pending map and every continuation are lost,
\* every socket is closed.  A line not yet read is lost with its connection.
DaemonCrash ==
    /\ "crash" \in Faults
    /\ pending' = {}
    /\ cur' = [r \in Reqs |-> NoChat]
    /\ todo' = [r \in Reqs |-> {}]
    /\ refs' = [r \in Reqs |-> {}]
    /\ editing' = {}
    /\ edited' = [r \in Reqs |-> {}]
    /\ conn' = [r \in HookReqs |-> IF conn[r] = "open" THEN "closed" ELSE conn[r]]
    /\ pluginUp' = FALSE
    /\ UNCHANGED <<files, opened, msg, wire, hook>>

-----------------------------------------------------------------------------
Posting(r) == SendDelivered(r) \/ SendAcked(r) \/ SendFailed(r)

Answered(r) ==
    \/ \E c \in Chats, u \in Users, b \in {"allow", "always", "deny"} : HandleButton(r, c, u, b)
    \/ \E u \in Users, a \in {"allow", "deny"} : HandleTextResponse(r, u, a)

HookStep(r) ==
    \/ HookAutoAllow(r)
    \/ HookAsks(r)
    \/ HookReads(r)
    \/ HookTimeout(r)
    \/ HookLosesDaemon(r)

Next ==
    \/ \E r \in HookReqs : HookStep(r)
    \/ \E r \in HookReqs, view \in Views : HandleCcRequest(r, view)
    \/ \E r \in PluginReqs : HandlePluginRequest(r)
    \/ \E r \in Reqs : Posting(r)
    \/ \E r \in Reqs : Answered(r)
    \/ \E r \in Reqs : Prune(r)
    \/ \E r \in HookReqs : HandleHookGiveup(r) \/ EditRef(r) \/ EditDone(r)
    \/ AccessEdited
    \/ PluginDrops
    \/ PluginRegisters
    \/ DaemonCrash

Spec == Init /\ [][Next]_vars

\* The event loop runs every settled promise and every timer; that much of it is
\* assumed as the properties below need: the sends and the prune timer of a
\* plugin's request, the edits of a hook's.  Users owe nothing, nor do the hook
\* processes, the plugins or access.json.
Fairness ==
    /\ \A r \in PluginReqs : WF_vars(Posting(r)) /\ WF_vars(Prune(r))
    /\ \A r \in HookReqs : WF_vars(EditRef(r) \/ EditDone(r))

LiveSpec == Spec /\ Fairness

-----------------------------------------------------------------------------
(* Safety *)

\* The requester gets at most one answer, whatever clicks, typed replies,
\* giveups, prunes and failing sends interleave with the fan-out (the atomic
\* claim of permission-relay.ts:349).  It needs sends whose rejection means
\* that nothing was posted: see the README.
AtMostOneAnswer == \A r \in Reqs : Len(wire[r]) <= 1

\* An entry in the pending map has a requester that still waits: no answer was
\* written to it and the daemon has not seen its connection close.
PendingIsOpen ==
    \A r \in pending : /\ wire[r] = <<>>
                       /\ r \in HookReqs => conn[r] = "open"

\* What a labelled message tells the user is what the hook was first told, and the
\* stale note means that it was told nothing.
LabelTruthful ==
    \A r \in HookReqs, c \in Chats :
        /\ msg[r][c] = "allowed" => wire[r] # <<>> /\ Head(wire[r]) = "allow"
        /\ msg[r][c] = "denied" => wire[r] # <<>> /\ Head(wire[r]) = "deny"
        /\ msg[r][c] = "stale" => wire[r] = <<>>

\* A rule reaches settings.json only with a request that was allowed, and no
\* wider than what deriveAllowRule makes of that request.
RulesWereAllowed ==
    [][\A q \in settings' \ settings : \E r \in HookReqs :
          q = DeriveAllowRule(r) /\ wire'[r] # <<>> /\ Head(wire'[r]) = "allow"]_vars

\* The relay is a one-shot decision procedure: a request that left the pending
\* map never comes back and its answer never changes.
Phase(r) == IF r \in pending THEN "asked" ELSE IF r \in opened THEN "settled" ELSE "unseen"

OneShot == INSTANCE OneShotDecision WITH
    Requests <- Reqs, phase <- [r \in Reqs |-> Phase(r)], given <- wire

ImplementsOneShot == OneShot!Spec

-----------------------------------------------------------------------------
(* Liveness *)

\* Every pending plugin request is answered, if only by the prune timer ("so CC isn't
\* left hanging", permission-relay.ts:78), unless its plugin is away just when the
\* answer comes: that answer is dropped (permission-relay.ts:461-465).
PluginAnswered ==
    \A r \in PluginReqs : r \in pending ~> (wire[r] # <<>> \/ (r \notin pending /\ ~pluginUp))

\* Once the loop of editAllRefs runs, every message recorded in messageRefs
\* loses its buttons, also one that is recorded while the loop runs.
RecordedRefsStripped ==
    \A r \in HookReqs, c \in Chats :
        (r \in editing /\ c \in refs[r]) ~> msg[r][c] # "live"

-----------------------------------------------------------------------------
(* A statement of the repository that the code does not keep *)

\* permission-hook.ts:15 and :21: the decision is on stdout "always", "On any
\* I/O failure: output 'ask'".
HookSpeaks == \A r \in HookReqs : hook[r] # "silent"
=============================================================================
