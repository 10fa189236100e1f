----------------------------- MODULE ToolCalls -----------------------------
(***************************************************************************)
(* Tool calls from Claude Code to Discord and back: the plugin's           *)
(* ToolBridge (src/plugin/tool-handlers.ts) and its reconnects, the        *)
(* daemon's dispatch of tool_call lines, the reply tool with its chunks,   *)
(* and the question relay (src/daemon/ask-question-relay.ts) behind        *)
(* discord_ask_question.                                                   *)
(*                                                                         *)
(* A question is posted by a send that is awaited: Discord shows it first  *)
(* (QuestionPosted) and the relay has its entry later (QuestionAcked).     *)
(* Links are the successive sockets of the plugin.  A line that the daemon *)
(* never reads stays in lines, a result that is never read in results.     *)
(* A text is a sequence of characters, told apart as newlines, spaces and  *)
(* others.                                                                 *)
(***************************************************************************)
EXTENDS Integers, SequencesExt

CONSTANTS
    Questions,   \* calls of discord_ask_question
    Replies,     \* calls of reply
    Options,     \* the choices of a question
    Texts,       \* what a reply may say
    TextOf,      \* what each reply says
    Limit,       \* textChunkLimit, at most 2000
    Mode,        \* chunkMode, one of Modes
    MaxLinks,    \* bound: sockets of the plugin
    Faults       \* what may go wrong, a subset of FaultKinds

FaultKinds ==
    {"loss",       \* the daemon drops the plugin's socket
     "restart",    \* the daemon ends and is started again
     "sendFails",  \* Discord, or a check before it, refuses a message
     "lostAck",    \* Discord posts a message whose send it rejects
     "editFails"}  \* Discord refuses to update a clicked message

Outcomes == Options \cup {"none", "waiting", "ok", "error", "timeout"}

ASSUME CallsAssumption ==
    /\ Questions \cap Replies = {}
    /\ Options \cap {"none", "waiting", "ok", "error", "timeout", "live"} = {}
Modes == {"length", "newline"}

ASSUME TextsAssumption ==
    /\ \A t \in Texts : t \in Seq({"\n", " ", "x"})
    /\ TextOf \in [Replies -> Texts]
    /\ Mode \in Modes
ASSUME NumbersAssumption == Limit \in Nat \ {0} /\ MaxLinks \in Nat \ {0}
ASSUME FaultsAssumption == Faults \subseteq FaultKinds

Calls == Questions \cup Replies

-----------------------------------------------------------------------------
(* chunk *)

\* lastIndexOf: the last of the places where the sought text is found, or -1.
LastIndex(places) == Max({-1} \cup places)

\* Where a rest longer than the limit is cut: at a paragraph or a line in its
\* second half, at a space, or at the limit.
Cut(rest, limit, mode) ==
    LET char(k) == rest[k + 1]
        para  == LastIndex({k \in 0 .. limit : /\ k + 1 < Len(rest)
                                         /\ char(k) = "\n" /\ char(k + 1) = "\n"})
        line  == LastIndex({k \in 0 .. limit : char(k) = "\n"})
        space == LastIndex({k \in 0 .. limit : char(k) = " "})
    IN  IF mode = "length" THEN limit
        ELSE IF 2 * para > limit THEN para
        ELSE IF 2 * line > limit THEN line
        ELSE IF space > 0 THEN space
        ELSE limit

\* Where a rest that begins at from starts once its leading newlines are gone.
SkipNewlines(text, from) ==
    Min({k \in from .. Len(text) : text[k] # "\n"} \cup {Len(text) + 1})

\* Mutated form: the rest of the text is not pushed.
Chunk_NoRest(text, limit, mode) ==
    LET pieces[from \in 1 .. Len(text) + 1] ==
            LET rest == SubSeq(text, from, Len(text))
                cut  == Cut(rest, limit, mode)
            IN  IF Len(rest) <= limit THEN <<>>
                ELSE <<SubSeq(rest, 1, cut)>> \o pieces[from + cut]
    IN  IF Len(text) <= limit THEN <<text>> ELSE pieces[1]

\* The pieces of a text, without the newlines at the start of a rest.
Chunk(text, limit, mode) ==
    LET pieces[from \in 1 .. Len(text) + 1] ==
            LET rest == SubSeq(text, from, Len(text))
                cut  == Cut(rest, limit, mode)
            IN  IF rest = <<>> THEN <<>>
                ELSE IF Len(rest) <= limit THEN <<rest>>
                ELSE <<SubSeq(rest, 1, cut)>> \o pieces[SkipNewlines(text, from + cut)]
    IN  IF Len(text) <= limit THEN <<text>> ELSE pieces[1]

Chunks == [r \in Replies |-> Len(Chunk(TextOf[r], Limit, Mode))]

-----------------------------------------------------------------------------
VARIABLES
    link,      \* the plugin's latest socket
    linked,    \* state.bridge is there
    nextId,    \* ToolBridge.nextId
    waiting,   \* ToolBridge.pending, as pairs of an id and its call
    outcome,   \* what Claude Code was told
    open,      \* links the daemon can write to
    lines,     \* tool_call lines on their way to the daemon
    results,   \* tool_result lines on their way to the plugin
    origin,    \* per call: the connection and the id its handler answers to
    work,      \* per call: where the daemon's handler stands
    pending,   \* AskQuestionRelay.pending
    choice,    \* per question: the option of the click that was taken
    message,   \* per question: what Discord shows, buttons or the choice
    posted     \* per reply: how many of its chunks Discord shows

pluginVars  == <<link, linked, nextId, waiting, outcome>>
wireVars    == <<open, lines, results>>
daemonVars  == <<origin, work, pending, choice>>
discordVars == <<message, posted>>
vars == <<pluginVars, wireVars, daemonVars, discordVars>>

TypeOK ==
    /\ link \in 1 .. MaxLinks
    /\ linked \in BOOLEAN
    /\ nextId \in Nat \ {0}
    /\ waiting \subseteq (Nat \X Calls)
    /\ outcome \in [Calls -> Outcomes]
    /\ open \subseteq 1 .. link
    /\ lines \subseteq Calls
    /\ results \subseteq [link : 1 .. link, id : Nat, outcome : Outcomes]
    /\ origin \in [Calls -> Nat \X Nat]
    /\ work \in [Calls -> {"none", "sending", "asked", "updating", "over"}]
    /\ pending \subseteq Questions
    /\ choice \in [Questions -> Options \cup {"none"}]
    /\ message \in [Questions -> Options \cup {"none", "live"}]
    /\ \A r \in Replies : posted[r] \in 0 .. Chunks[r]

Init ==
    /\ link = 1
    /\ linked = TRUE
    /\ nextId = 1
    /\ waiting = {}
    /\ outcome = [c \in Calls |-> "none"]
    /\ open = {1}
    /\ lines = {}
    /\ results = {}
    /\ origin = [c \in Calls |-> <<0, 0>>]
    /\ work = [c \in Calls |-> "none"]
    /\ pending = {}
    /\ choice = [q \in Questions |-> "none"]
    /\ message = [q \in Questions |-> "none"]
    /\ posted = [r \in Replies |-> 0]

-----------------------------------------------------------------------------
(* The plugin *)

Entries(set) == {e[2] : e \in set}

\* Claude Code calls a tool: at once refused without a bridge, otherwise
\* entered under the next id and sent.
CallTool(c) ==
    /\ outcome[c] = "none"
    /\ \/ /\ linked
          /\ waiting' = waiting \cup {<<nextId, c>>}
          /\ nextId' = nextId + 1
          /\ origin' = [origin EXCEPT ![c] = <<link, nextId>>]
          /\ lines' = lines \cup {c}
          /\ outcome' = [outcome EXCEPT ![c] = "waiting"]
       \/ /\ ~linked
          /\ outcome' = [outcome EXCEPT ![c] = "error"]
          /\ UNCHANGED <<waiting, nextId, origin, lines>>
    /\ UNCHANGED <<link, linked, open, results, work, pending, choice, discordVars>>

\* receiveResult: a result of this socket goes to the call that waits under its
\* id, if one still does.
ReceiveResult(res) ==
    /\ linked /\ res.link = link
    /\ results' = results \ {res}
    /\ LET mine == {e \in waiting : e[1] = res.id}
       IN  /\ waiting' = waiting \ mine
           /\ outcome' = [c \in Calls |-> IF c \in Entries(mine) THEN res.outcome ELSE outcome[c]]
    /\ UNCHANGED <<link, linked, nextId, open, lines, daemonVars, discordVars>>

\* The 60 s timer of a call.
TimeOut(c) ==
    /\ c \in Entries(waiting)
    /\ waiting' = {e \in waiting : e[2] # c}
    /\ outcome' = [outcome EXCEPT ![c] = "timeout"]
    /\ UNCHANGED <<link, linked, nextId, wireVars, daemonVars, discordVars>>

\* Mutated form: rejectAll clears the map and calls nobody back.
PluginSeesClose_Clears ==
    /\ linked /\ link \notin open
    /\ linked' = FALSE
    /\ waiting' = {}
    /\ results' = {res \in results : res.link # link}
    /\ UNCHANGED <<link, nextId, outcome, open, lines, daemonVars, discordVars>>

\* onClose: rejectAll fails every waiting call, and what the socket still held
\* is gone.
PluginSeesClose ==
    /\ linked /\ link \notin open
    /\ linked' = FALSE
    /\ waiting' = {}
    /\ outcome' = [c \in Calls |-> IF c \in Entries(waiting) THEN "error" ELSE outcome[c]]
    /\ results' = {res \in results : res.link # link}
    /\ UNCHANGED <<link, nextId, open, lines, daemonVars, discordVars>>

\* connectLoop: a new socket with a new bridge, whose ids start again.
PluginReconnects ==
    /\ ~linked /\ link < MaxLinks
    /\ link' = link + 1
    /\ linked' = TRUE
    /\ nextId' = 1
    /\ waiting' = {}
    /\ open' = open \cup {link + 1}
    /\ UNCHANGED <<outcome, lines, results, daemonVars, discordVars>>

-----------------------------------------------------------------------------
(* The daemon *)

Result(l, c, o) == [link |-> l, id |-> origin[c][2], outcome |-> o]

\* Mutated form: the result goes to the connection the workspace has by now.
Respond_ByName(c, o) ==
    /\ results' = IF link \in open THEN results \cup {Result(link, c, o)} ELSE results
    /\ work' = [work EXCEPT ![c] = "over"]

\* The end of handleToolCallMsg: the result goes out on the connection the
\* call came by, unless that is closed.
Respond(c, o) ==
    /\ results' = IF origin[c][1] \in open THEN results \cup {Result(origin[c][1], c, o)}
                  ELSE results
    /\ work' = [work EXCEPT ![c] = "over"]

\* A tool_call line is read: its handler runs to its first await.
HandleToolCall(c) ==
    /\ c \in lines
    /\ lines' = lines \ {c}
    /\ work' = [work EXCEPT ![c] = "sending"]
    /\ UNCHANGED <<pluginVars, open, results, origin, pending, choice, discordVars>>

\* Mutated form: the loop runs once too often.
ChunkPosted_OneMore(r) ==
    /\ work[r] = "sending"
    /\ posted[r] <= Chunks[r]
    /\ posted' = [posted EXCEPT ![r] = @ + 1]
    /\ UNCHANGED <<pluginVars, wireVars, daemonVars, message>>

\* toolReply: Discord posts the next chunk.
ChunkPosted(r) ==
    /\ work[r] = "sending"
    /\ posted[r] < Chunks[r]
    /\ posted' = [posted EXCEPT ![r] = @ + 1]
    /\ UNCHANGED <<pluginVars, wireVars, daemonVars, message>>

\* Mutated form: the loop over the chunks ends early.
ReplyDelivered_Early(r) ==
    /\ work[r] = "sending"
    /\ posted[r] > 0
    /\ Respond(r, "ok")
    /\ UNCHANGED <<pluginVars, open, lines, origin, pending, choice, discordVars>>

\* toolReply: the last send has resolved.
ReplyDelivered(r) ==
    /\ work[r] = "sending"
    /\ posted[r] = Chunks[r]
    /\ Respond(r, "ok")
    /\ UNCHANGED <<pluginVars, open, lines, origin, pending, choice, discordVars>>

\* A check, a fetch or a send fails: the caller is told, and whatever was
\* posted before stays.
SendFails(c) ==
    /\ "sendFails" \in Faults
    /\ work[c] = "sending"
    /\ "lostAck" \in Faults \/ (c \in Questions => message[c] = "none")
    /\ "lostAck" \in Faults \/ (c \in Replies => posted[c] < Chunks[c])
    /\ Respond(c, "error")
    /\ UNCHANGED <<pluginVars, open, lines, origin, pending, choice, discordVars>>

\* ask: Discord shows the question.
QuestionPosted(q) ==
    /\ work[q] = "sending"
    /\ message[q] = "none"
    /\ message' = [message EXCEPT ![q] = "live"]
    /\ UNCHANGED <<pluginVars, wireVars, daemonVars, posted>>

\* ask: the send resolves, and the question gets its entry.
QuestionAcked(q) ==
    /\ work[q] = "sending"
    /\ message[q] = "live"
    /\ pending' = pending \cup {q}
    /\ work' = [work EXCEPT ![q] = "asked"]
    /\ UNCHANGED <<pluginVars, wireVars, origin, choice, discordVars>>

\* Mutated form: the entry is deleted after the message was updated.
Click_KeepsEntry(q, o) ==
    /\ message[q] = "live"
    /\ q \in pending
    /\ choice' = [choice EXCEPT ![q] = o]
    /\ work' = [work EXCEPT ![q] = "updating"]
    /\ UNCHANGED <<pluginVars, wireVars, origin, pending, discordVars>>

\* handleButton up to its await: the click takes the entry.  A click that finds
\* none, too early, too late or second, is told that the question expired.
Click(q, o) ==
    /\ message[q] = "live"
    /\ q \in pending
    /\ pending' = pending \ {q}
    /\ choice' = [choice EXCEPT ![q] = o]
    /\ work' = [work EXCEPT ![q] = "updating"]
    /\ UNCHANGED <<pluginVars, wireVars, origin, discordVars>>

\* handleButton after its await: the message shows the choice, if Discord took
\* the update, and the asker gets it.
ClickUpdated(q) ==
    /\ work[q] = "updating"
    /\ \/ message' = [message EXCEPT ![q] = choice[q]]
       \/ "editFails" \in Faults /\ message' = message
    /\ Respond(q, choice[q])
    /\ UNCHANGED <<pluginVars, open, lines, origin, pending, choice, posted>>

\* Mutated form: the entry is dropped and its promise forgotten.
Prune_Silent(q) ==
    /\ q \in pending
    /\ pending' = pending \ {q}
    /\ UNCHANGED <<pluginVars, wireVars, origin, work, choice, discordVars>>

\* prune: nobody has clicked for 30 min.  The buttons stay.
Prune(q) ==
    /\ q \in pending
    /\ pending' = pending \ {q}
    /\ Respond(q, "error")
    /\ UNCHANGED <<pluginVars, open, lines, origin, choice, discordVars>>

\* An eviction, the reaper, or a broken socket: the daemon's end is closed.
DaemonDrops ==
    /\ "loss" \in Faults
    /\ link \in open
    /\ open' = open \ {link}
    /\ UNCHANGED <<pluginVars, lines, results, daemonVars, discordVars>>

\* The daemon is gone, by a signal or a crash.  stop() of the relay resolves
\* its questions, but their results come after the sockets were closed in the
\* same turn of the event loop.
DaemonRestarts ==
    /\ "restart" \in Faults
    /\ open' = {}
    /\ lines' = {}
    /\ pending' = {}
    /\ work' = [c \in Calls |-> IF work[c] = "none" THEN "none" ELSE "over"]
    /\ UNCHANGED <<pluginVars, results, origin, choice, discordVars>>

-----------------------------------------------------------------------------
Next ==
    \/ \E c \in Calls : CallTool(c) \/ TimeOut(c) \/ HandleToolCall(c) \/ SendFails(c)
    \/ \E res \in results : ReceiveResult(res)
    \/ PluginSeesClose \/ PluginReconnects
    \/ \E r \in Replies : ChunkPosted(r) \/ ReplyDelivered(r)
    \/ \E q \in Questions : QuestionPosted(q) \/ QuestionAcked(q) \/ ClickUpdated(q) \/ Prune(q)
    \/ \E q \in Questions, o \in Options : Click(q, o)
    \/ DaemonDrops \/ DaemonRestarts

Spec == Init /\ [][Next]_vars

\* Timers fire and a closed socket is noticed; the prune timer comes round.
\* Nobody has to click, and Discord may keep a send waiting.
Fairness ==
    /\ \A c \in Calls : WF_vars(TimeOut(c))
    /\ \A q \in Questions : WF_vars(Prune(q)) /\ WF_vars(ClickUpdated(q))
    /\ WF_vars(PluginSeesClose)

LiveSpec == Spec /\ Fairness

-----------------------------------------------------------------------------
\* Every chunk is within the limit and says something, if the text does ...
Fit(text, chunks) ==
    /\ chunks # <<>>
    /\ \A i \in DOMAIN chunks : Len(chunks[i]) \in (IF text = <<>> THEN 0 ELSE 1) .. Limit

\* ... and together they say what the text says: each stands in the text, behind
\* its first at[i] characters and behind the chunk before it, and only newlines
\* get lost.
SayAll(text, chunks) ==
    \E at \in [DOMAIN chunks -> 0 .. Len(text)] :
        LET end(i) == at[i] + Len(chunks[i]) IN
        /\ \A i \in DOMAIN chunks :
              end(i) <= Len(text) /\ chunks[i] = SubSeq(text, at[i] + 1, end(i))
        /\ \A i, j \in DOMAIN chunks : i < j => end(i) <= at[j]
        /\ \A k \in DOMAIN text : text[k] # "\n" =>
              \E i \in DOMAIN chunks : k \in at[i] + 1 .. end(i)

ChunksFit == \A text \in Texts, mode \in Modes : Fit(text, Chunk(text, Limit, mode))
ChunksSayAll == \A text \in Texts, mode \in Modes : SayAll(text, Chunk(text, Limit, mode))

\* What Claude Code is told of a success is true of its own call: every chunk of
\* the reply is on Discord, and they are the whole text; the option is the one
\* that was clicked on this question.  Ids start again with every socket,
\* timeouts free them while the daemon is still at work, results arrive in any
\* order, and a text is cut anywhere.  No chunk is empty, but one of
\* blanks only counts as saying something.
SuccessIsTrue ==
    /\ ChunksFit /\ ChunksSayAll
    /\ \A r \in Replies : outcome[r] = "ok" => posted[r] = Chunks[r]
    /\ \A q \in Questions : outcome[q] \in Options => outcome[q] = choice[q]
    /\ \A r \in Replies : outcome[r] \notin Options
    /\ \A q \in Questions : outcome[q] # "ok"

\* Of several clicks on one question the first is taken, and no other changes
\* what was chosen (ask-question-relay.ts:208-211).
FirstClickWins ==
    [][\A q \in Questions : choice[q] # "none" => choice'[q] = choice[q]]_vars

\* A handler that waits for a click has its entry and its buttons, so the wait
\* can end by a click, and no entry outlives the handler it would answer.
AskedCanBeClicked ==
    TypeOK /\ \A q \in Questions :
        /\ work[q] = "asked" <=> q \in pending
        /\ q \in pending => message[q] = "live"

\* Every call of Claude Code returns: by its result, its timeout, or the loss of
\* the socket.  And no question waits in the daemon for good
\* (ask-question-relay.ts:8-10).
CallsEnd ==
    /\ \A c \in Calls : outcome[c] = "waiting" ~> outcome[c] # "waiting"
    /\ \A q \in Questions : work[q] = "asked" ~> work[q] # "asked"

-----------------------------------------------------------------------------
(* A statement of the repository that the code does not keep *)

\* mcp-server.ts:186: discord_ask_question blocks until the user clicks and
\* returns the chosen option.  So what Discord shows as chosen is not answered
\* with anything else, as long as the socket lasts.
ChoiceIsReturned ==
    \A q \in Questions :
        (message[q] \in Options /\ link \in open) => outcome[q] \in {"waiting", message[q]}
=============================================================================
