-------------------------------- MODULE Turn --------------------------------
(***************************************************************************)
(* The Discord turn of one workspace connection (src/daemon/connection.ts, *)
(* deltas 35 to 37): what an inbound message, a delivered reply, the Stop  *)
(* hook, /cancel, the sunset timer and the tool traces do to it, and with  *)
(* it the typing heartbeat and the per-turn trace thread.                  *)
(*                                                                         *)
(* Claude Code is outside the repository.  It is modelled from what its    *)
(* hooks and its plugin tell the daemon: it takes the inbound messages one *)
(* after the other, runs tools (each leaves a PostToolUse hook process),   *)
(* replies, and ends with a Stop hook process.  The hooks are processes of *)
(* their own with sockets of their own, so what they say can reach the     *)
(* daemon after later messages of the plugin.                              *)
(***************************************************************************)
EXTENDS Naturals, Sequences

CONSTANTS
    Chats,        \* Discord chats bound to the workspace
    DMs,          \* those that are DMs and host no thread
    NoChat,       \* no inbound was seen on this connection
    MaxInbounds,  \* bound: inbound messages in a behaviour
    MaxTraces,    \* bound: tool traces in a behaviour
    Habits        \* what may happen, a subset of HabitKinds

HabitKinds ==
    {"overlap",    \* a message arrives while Claude Code is still at work
     "fastTools",  \* Claude Code goes on before the daemon is done with a trace
     "slowReply",  \* a reply outlives the plugin's 60 s tool-call timeout
     "stopLost",   \* the Stop hook misses its 200 ms, or never runs
     "reconnect"}  \* the plugin's socket is replaced by a new one

ASSUME ChatsAssumption == NoChat \notin Chats /\ DMs \subseteq Chats
ASSUME BoundsAssumption == MaxInbounds \in Nat /\ MaxTraces \in Nat
ASSUME HabitsAssumption == Habits \subseteq HabitKinds

Turns  == 1 .. MaxInbounds
\* A trace thread is named after the trace that opened it; 0 is no thread.
Traces == 1 .. MaxTraces

VARIABLES
    turnState,      \* Connection.turnState
    timer,          \* Connection.sunsetTimer is armed
    cancelPending,  \* Connection.cancelPending
    chat,           \* Connection.lastInboundChatId
    thread,         \* Connection.activeTraceThreadId
    typing,         \* chats with a running typing heartbeat
    inbounds,       \* chats of the inbound messages so far
    cancelAt,       \* number of inbounds at the last /cancel
    taken,          \* the inbound Claude Code works on, or worked on last
    busy,           \* Claude Code is at work
    replying,       \* turns with a reply on its way through Discord
    replied,        \* turns with a delivered reply
    stopping,       \* turns with a Stop hook on its way
    trace,          \* per trace: where it is
    traceTurn,      \* per trace with a thread to be posted in: number of inbounds
                    \* when the daemon handled it
    into,           \* per trace: the thread chosen for it
    made,           \* threads created
    archiving,      \* threads an archiveThread is at work on
    archived,       \* threads archived
    calm            \* history: no turn, trace or reconnect came before its time so far

connVars   == <<turnState, timer, cancelPending, chat, thread>>
ccVars     == <<taken, busy, replying, replied, stopping>>
traceVars  == <<trace, traceTurn, into, made>>
closing    == <<archiving, archived>>
vars == <<connVars, typing, inbounds, cancelAt, ccVars, traceVars, closing, calm>>

TypeOK ==
    /\ turnState \in {"idle", "active", "sunset"}
    /\ timer \in BOOLEAN
    /\ cancelPending \in BOOLEAN
    /\ chat \in Chats \cup {NoChat}
    /\ thread \in Traces \cup {0}
    /\ typing \subseteq Chats
    /\ inbounds \in Seq(Chats) /\ Len(inbounds) <= MaxInbounds
    /\ cancelAt \in 0 .. MaxInbounds
    /\ taken \in 0 .. Len(inbounds)
    /\ busy \in BOOLEAN
    /\ replying \subseteq Turns
    /\ replied \subseteq Turns
    /\ stopping \subseteq Turns
    /\ trace \in [Traces -> {"unborn", "sent", "opening", "orphaned", "posting", "over"}]
    /\ traceTurn \in [Traces -> 0 .. MaxInbounds]
    /\ into \in [Traces -> Traces \cup {0}]
    /\ made \subseteq Traces
    /\ archiving \cup archived \subseteq made
    /\ calm \in BOOLEAN

Init ==
    /\ turnState = "idle"
    /\ timer = FALSE
    /\ cancelPending = FALSE
    /\ chat = NoChat
    /\ thread = 0
    /\ typing = {}
    /\ inbounds = <<>>
    /\ cancelAt = 0
    /\ taken = 0
    /\ busy = FALSE
    /\ replying = {}
    /\ replied = {}
    /\ stopping = {}
    /\ trace = [i \in Traces |-> "unborn"]
    /\ traceTurn = [i \in Traces |-> 0]
    /\ into = [i \in Traces |-> 0]
    /\ made = {}
    /\ archiving = {}
    /\ archived = {}
    /\ calm = TRUE

-----------------------------------------------------------------------------
(* Connection *)

IsInTurn == turnState # "idle"

\* What handleCcRequest makes of the workspace (see Views in PermissionRelay).
View == IF ~IsInTurn THEN "idle" ELSE IF cancelPending THEN "cancelled" ELSE "active"

\* Mutated forms: a cancelled turn stays cancelled; the timer of the last turn
\* runs on; the chat of the first message stays.
StartTurn_KeepsCancel(c) ==
    /\ turnState' = "active"
    /\ timer' = FALSE
    /\ chat' = c
    /\ UNCHANGED cancelPending

StartTurn_KeepsTimer(c) ==
    /\ turnState' = "active"
    /\ chat' = c
    /\ cancelPending' = FALSE
    /\ UNCHANGED timer

StartTurn_KeepsChat(c) ==
    /\ turnState' = "active"
    /\ timer' = FALSE
    /\ chat' = IF chat = NoChat THEN c ELSE chat
    /\ cancelPending' = FALSE

StartTurn(c) ==
    /\ turnState' = "active"
    /\ timer' = FALSE
    /\ chat' = c
    /\ cancelPending' = FALSE

\* Mutated form: no timer is set.
StartSunset_Unarmed ==
    IF turnState = "idle" THEN UNCHANGED <<turnState, timer>>
    ELSE turnState' = "sunset" /\ timer' = FALSE

StartSunset ==
    IF turnState = "idle" THEN UNCHANGED <<turnState, timer>>
    ELSE turnState' = "sunset" /\ timer' = TRUE

ClearTurn ==
    /\ turnState' = "idle"
    /\ timer' = FALSE
    /\ cancelPending' = FALSE

\* The callback of the sunset timer.  cancelPending stays: it is read in a
\* turn only, and startTurn resets it.
SunsetEnds ==
    /\ timer
    /\ timer' = FALSE
    /\ turnState' = "idle"
    /\ UNCHANGED <<cancelPending, chat, thread, typing, inbounds, cancelAt, calm, ccVars,
                   traceVars, closing>>

-----------------------------------------------------------------------------
(* Discord *)

\* Traces whose thread is still to be chosen; one that is being posted has its own.
Outstanding == {i \in Traces : trace[i] \in {"sent", "opening", "orphaned"}}

\* Claude Code has finished everything it was sent and its hooks were handled.
Quiet == ~busy /\ taken = Len(inbounds) /\ stopping = {} /\ replying = {} /\ Outstanding = {}

\* Mutated form: the new turn keeps the thread of the last one.
Inbound_KeepsThread(c) ==
    /\ Len(inbounds) < MaxInbounds
    /\ "overlap" \in Habits \/ Quiet
    /\ calm' = (calm /\ Quiet)
    /\ StartTurn(c)
    /\ typing' = typing \cup {c}
    /\ inbounds' = Append(inbounds, c)
    /\ UNCHANGED <<thread, cancelAt, ccVars, traceVars, closing>>

\* A message is delivered to the workspace (inbound-router, the deliver path).
Inbound(c) ==
    /\ Len(inbounds) < MaxInbounds
    /\ "overlap" \in Habits \/ Quiet
    /\ calm' = (calm /\ Quiet)
    /\ StartTurn(c)
    /\ thread' = 0
    /\ typing' = typing \cup {c}
    /\ inbounds' = Append(inbounds, c)
    /\ UNCHANGED <<cancelAt, ccVars, traceVars, closing>>

\* /cancel in a bound channel.
HandleCancel ==
    /\ IsInTurn
    /\ ~cancelPending
    /\ cancelPending' = TRUE
    /\ cancelAt' = Len(inbounds)
    /\ UNCHANGED <<turnState, timer, chat, thread, typing, inbounds, calm, ccVars, traceVars, closing>>

\* The five minute cap of a typing heartbeat.
TypingCap(c) ==
    /\ c \in typing
    /\ typing' = typing \ {c}
    /\ UNCHANGED <<connVars, inbounds, cancelAt, calm, ccVars, traceVars, closing>>

-----------------------------------------------------------------------------
(* Claude Code *)

CcTakes ==
    /\ ~busy
    /\ taken < Len(inbounds)
    /\ busy' = TRUE
    /\ taken' = taken + 1
    /\ UNCHANGED <<connVars, typing, inbounds, cancelAt, calm, replying, replied, stopping,
                   traceVars, closing>>

\* A tool has run: its PostToolUse hook sends cc_tool_trace and exits.
CcRunsTool(i) ==
    /\ busy
    /\ trace[i] = "unborn" /\ (\A j \in 1 .. i - 1 : trace[j] # "unborn")
    /\ "fastTools" \in Habits \/ Outstanding = {}
    /\ calm' = (calm /\ Outstanding = {})
    /\ trace' = [trace EXCEPT ![i] = "sent"]
    /\ UNCHANGED <<connVars, typing, inbounds, cancelAt, ccVars, traceTurn, into, made, closing>>

\* A reply-class tool call reaches the daemon.
CcReplies ==
    /\ busy
    /\ taken \notin replying
    /\ replying' = replying \cup {taken}
    /\ UNCHANGED <<connVars, typing, inbounds, cancelAt, calm, taken, busy, replied, stopping,
                   traceVars, closing>>

\* The turn is over.  Claude Code waits for the result of its reply, at most
\* until the plugin's timeout; the Stop hook is sent, or gets lost.
CcStops ==
    /\ busy
    /\ taken \notin replying \/ "slowReply" \in Habits
    /\ "fastTools" \in Habits \/ Outstanding = {}
    /\ calm' = (calm /\ Outstanding = {})
    /\ busy' = FALSE
    /\ \/ stopping' = stopping \cup {taken}
       \/ "stopLost" \in Habits /\ stopping' = stopping
    /\ UNCHANGED <<connVars, typing, inbounds, cancelAt, taken, replying, replied,
                   traceVars, closing>>

-----------------------------------------------------------------------------
(* What Claude Code did reaches the daemon *)

\* Mutated form: the typing dots go on.
ReplyDelivered_KeepsTyping(n) ==
    /\ n \in replying
    /\ replying' = replying \ {n}
    /\ replied' = replied \cup {n}
    /\ StartSunset
    /\ cancelPending' = FALSE
    /\ UNCHANGED <<chat, thread, typing, inbounds, cancelAt, calm, taken, busy, stopping, traceVars, closing>>

\* toolReply, toolEditMessage or toolThreadReply succeeded: onReplyDelivered.
ReplyDelivered(n) ==
    /\ n \in replying
    /\ replying' = replying \ {n}
    /\ replied' = replied \cup {n}
    /\ typing' = typing \ {inbounds[n]}
    /\ StartSunset
    /\ cancelPending' = FALSE
    /\ UNCHANGED <<chat, thread, inbounds, cancelAt, calm, taken, busy, stopping, traceVars, closing>>

\* Mutated form: a reply that failed starts the sunset as well.
ReplyFails_StartsSunset(n) ==
    /\ n \in replying
    /\ replying' = replying \ {n}
    /\ typing' \in {typing, typing \ {inbounds[n]}}
    /\ StartSunset
    /\ UNCHANGED <<cancelPending, chat, thread, inbounds, cancelAt, calm, taken, busy, replied, stopping,
                   traceVars, closing>>

\* It failed, at the send (typing stops) or before it (typing goes on).
ReplyFails(n) ==
    /\ n \in replying
    /\ replying' = replying \ {n}
    /\ typing' \in {typing, typing \ {inbounds[n]}}
    /\ UNCHANGED <<connVars, inbounds, cancelAt, calm, taken, busy, replied, stopping, traceVars, closing>>

\* archiveThread is called and not awaited; 0 is no thread.
ArchiveThread(t) == archiving' = archiving \cup ({t} \ {0})

\* Mutated form: the archived thread stays cached.
HandleStop_KeepsThread(n) ==
    /\ n \in stopping
    /\ stopping' = stopping \ {n}
    /\ typing' = {}
    /\ ClearTurn
    /\ ArchiveThread(thread)
    /\ UNCHANGED <<chat, thread, inbounds, cancelAt, calm, taken, busy, replying, replied,
                   traceVars, archived>>

\* ccStopHandler: end the turn, drop the typing dots, archive the thread.
HandleStop(n) ==
    /\ n \in stopping
    /\ stopping' = stopping \ {n}
    /\ typing' = {}
    /\ ClearTurn
    /\ thread' = 0
    /\ ArchiveThread(thread)
    /\ UNCHANGED <<chat, inbounds, cancelAt, calm, taken, busy, replying, replied,
                   traceVars, archived>>

\* The end of archiveThread, whose failures are ignored.
ThreadArchived(t) ==
    /\ t \in archiving
    /\ archiving' = archiving \ {t}
    /\ archived' \in {archived, archived \cup {t}}
    /\ UNCHANGED <<connVars, typing, inbounds, cancelAt, calm, ccVars, traceVars>>

\* ToolTraceRelay.handle up to its first await: drop the trace outside a turn,
\* begin to post it into the cached thread, or begin to open one.
HandleTrace(i) ==
    /\ trace[i] = "sent"
    /\ \/ /\ ~IsInTurn \/ chat = NoChat \/ (thread = 0 /\ chat \in DMs)
          /\ trace' = [trace EXCEPT ![i] = "over"]
          /\ UNCHANGED <<traceTurn, into>>
       \/ /\ IsInTurn /\ chat # NoChat /\ thread # 0
          /\ trace' = [trace EXCEPT ![i] = "posting"]
          /\ traceTurn' = [traceTurn EXCEPT ![i] = Len(inbounds)]
          /\ into' = [into EXCEPT ![i] = thread]
       \/ /\ IsInTurn /\ chat \notin DMs \cup {NoChat} /\ thread = 0
          /\ trace' = [trace EXCEPT ![i] = "opening"]
          /\ traceTurn' = [traceTurn EXCEPT ![i] = Len(inbounds)]
          /\ UNCHANGED into
    /\ UNCHANGED <<connVars, typing, inbounds, cancelAt, calm, ccVars, made, closing>>

\* Mutated form: the thread is cached before it is known to exist.
OpeningFails_Cached(i) ==
    /\ trace[i] \in {"opening", "orphaned"}
    /\ trace' = [trace EXCEPT ![i] = "over"]
    /\ thread' = IF trace[i] = "opening" THEN i ELSE thread
    /\ traceTurn' = [traceTurn EXCEPT ![i] = 0]
    /\ UNCHANGED <<turnState, timer, cancelPending, chat, typing, inbounds, cancelAt, calm, ccVars,
                   into, made, closing>>

\* openTraceThread found no thread to post in: the trace is dropped.
OpeningFails(i) ==
    /\ trace[i] \in {"opening", "orphaned"}
    /\ trace' = [trace EXCEPT ![i] = "over"]
    /\ traceTurn' = [traceTurn EXCEPT ![i] = 0]
    /\ UNCHANGED <<connVars, typing, inbounds, cancelAt, calm, ccVars, into, made, closing>>

\* Mutated form: the thread is not cached.
ThreadOpened_Uncached(i) ==
    /\ trace[i] \in {"opening", "orphaned"}
    /\ trace' = [trace EXCEPT ![i] = "posting"]
    /\ into' = [into EXCEPT ![i] = i]
    /\ made' = made \cup {i}
    /\ UNCHANGED <<connVars, typing, inbounds, cancelAt, calm, ccVars, traceTurn, closing>>

\* openTraceThread resolves: the thread is cached on the connection, whatever
\* happened to it since, and the trace is going to be posted in it.
ThreadOpened(i) ==
    /\ trace[i] \in {"opening", "orphaned"}
    /\ trace' = [trace EXCEPT ![i] = "posting"]
    /\ into' = [into EXCEPT ![i] = i]
    /\ made' = made \cup {i}
    /\ thread' = IF trace[i] = "opening" THEN i ELSE thread
    /\ UNCHANGED <<turnState, timer, cancelPending, chat, typing, inbounds, cancelAt, calm, ccVars,
                   traceTurn, closing>>

\* Mutated form: the thread is looked up again after the awaits.
TracePosted_LooksAgain(i) ==
    /\ trace[i] = "posting"
    /\ trace' = [trace EXCEPT ![i] = "over"]
    /\ into' = [into EXCEPT ![i] = thread]
    /\ archived' = archived \ {thread}
    /\ UNCHANGED <<connVars, typing, inbounds, cancelAt, calm, ccVars, traceTurn, made, archiving>>

\* The end of postTraceEmbed, after the fetch of the thread, the rendering of a
\* diff and the send.  Any of them may fail.  A message sent into an archived
\* thread reopens it.
TracePosted(i) ==
    /\ trace[i] = "posting"
    /\ trace' = [trace EXCEPT ![i] = "over"]
    /\ archived' \in {archived, archived \ {into[i]}}
    /\ UNCHANGED <<connVars, typing, inbounds, cancelAt, calm, ccVars, traceTurn, into, made,
                   archiving>>

\* The plugin's connection is dropped and it registers again under its name: a
\* new Connection, and the removal from the registry stopped the heartbeats.
\* Between the two nothing below finds the workspace, as in an idle one.  A
\* thread being opened is cached on the old object.
Reconnect ==
    /\ "reconnect" \in Habits
    /\ calm' = FALSE
    /\ ClearTurn
    /\ chat' = NoChat
    /\ thread' = 0
    /\ typing' = {}
    /\ trace' = [i \in Traces |-> IF trace[i] = "opening" THEN "orphaned" ELSE trace[i]]
    /\ UNCHANGED <<inbounds, cancelAt, ccVars, traceTurn, into, made, closing>>

-----------------------------------------------------------------------------
Next ==
    \/ \E c \in Chats : Inbound(c) \/ TypingCap(c)
    \/ HandleCancel
    \/ SunsetEnds
    \/ CcTakes \/ CcReplies \/ CcStops
    \/ \E i \in Traces : CcRunsTool(i) \/ HandleTrace(i)
    \/ \E i \in Traces : ThreadOpened(i) \/ OpeningFails(i) \/ TracePosted(i) \/ ThreadArchived(i)
    \/ \E n \in Turns : ReplyDelivered(n) \/ ReplyFails(n) \/ HandleStop(n)
    \/ Reconnect

Spec == Init /\ [][Next]_vars

\* The timers of the daemon fire, what was sent to it is handled, and Claude
\* Code takes its messages and ends its turns.
Fairness ==
    /\ WF_vars(SunsetEnds)
    /\ WF_vars(CcTakes)
    /\ WF_vars(CcStops)
    /\ \A n \in Turns : WF_vars(ReplyDelivered(n) \/ ReplyFails(n)) /\ WF_vars(HandleStop(n))
    /\ \A i \in Traces :
           /\ WF_vars(HandleTrace(i))
           /\ WF_vars(ThreadOpened(i) \/ OpeningFails(i))
           /\ WF_vars(TracePosted(i)) /\ WF_vars(ThreadArchived(i))

LiveSpec == Spec /\ Fairness

-----------------------------------------------------------------------------
(* What holds whatever overlaps *)

\* The sunset timer is armed exactly in the sunset state: a timer that
\* outlived its sunset would end a later turn, a sunset without one would
\* never end (connection.ts:95-130).
TimerMeansSunset == timer <=> turnState = "sunset"

\* A /cancel never denies a tool of a turn that began after it.
CancelHitsItsTurn == View = "cancelled" => cancelAt = Len(inbounds)

\* The cached thread exists and no archiveThread of a Stop has closed it or is
\* at work on it: neither a late opening nor a late archiving leaves the turn
\* with a closed thread (tool-trace.ts:80-84, index.ts:216-220).  It says nothing
\* of a post that is already under way: a Stop can close its thread before the
\* send, which then reopens it (TracePosted).
CachedThreadIsLive == thread # 0 => thread \in made /\ thread \notin archiving \cup archived

\* The typing dots are shown to a chat that waits for an answer, never to one
\* whose messages were all answered (typing-heartbeat.ts, stop on delivery).
TypingIsOwed ==
    \A c \in typing : \E n \in DOMAIN inbounds : inbounds[n] = c /\ n \notin replied

\* When Claude Code is done and its last reply was delivered or its Stop hook
\* reaches the daemon, prompts go back to the terminal.
TurnEnds ==
    (~busy /\ taken = Len(inbounds) /\ taken \in replied \cup stopping)
        ~> (~IsInTurn \/ busy \/ taken < Len(inbounds))

-----------------------------------------------------------------------------
(* What holds when a user waits for the end of a turn and Claude Code for its
   hooks, and fails otherwise *)

\* The latest message keeps its turn until it is replied to or its work ends.
\* connection.ts:95-97: a new inbound starts a turn that "a tail-of-previous-
\* turn race doesn't drop ... back to idle".
LatestTurnIsOpen ==
    LET n == Len(inbounds) IN
    (n > 0 /\ n \notin replied /\ (busy \/ taken < n)) => IsInTurn

\* A prompt goes to the chat of the message Claude Code works on
\* (connection.ts:44-46, permission-relay.ts:122-124).
PromptGoesToItsSource == (busy /\ View = "active") => chat = inbounds[taken]

\* Turns and trace threads correspond: a turn opens one thread and its traces are
\* posted into it, also those on their way to it (tool-trace.ts:9-11; "each turn
\* gets a fresh thread", connection.ts:55-57).
OneThreadPerTurn ==
    /\ \A i, j \in made : traceTurn[i] = traceTurn[j] => i = j
    /\ \A i \in Traces : into[i] # 0 => traceTurn[i] = traceTurn[into[i]]

\* All three, as long as nothing came before its time: the daemon's handlers
\* alone, with lost Stop hooks and late replies, never mix up two turns.
CalmTurns == calm => LatestTurnIsOpen /\ PromptGoesToItsSource /\ OneThreadPerTurn
=============================================================================
