# TLA+ model of claude-discord

claude-discord puts a Discord bot in front of Claude Code sessions. A **daemon**
(`src/src/daemon`) holds the Discord gateway and a unix socket. Every Claude
Code session has a **plugin** (`src/src/plugin`) that registers with the daemon
over the socket as a *workspace*, and one-shot **hooks** (`src/src/cli/*-hook.ts`)
that connect, say one thing, and leave. Paths below are relative to `src/src/`.

## 1. Inventory

| Part | State | Operations | What makes it correct |
|---|---|---|---|
| permission relay, `daemon/permission-relay.ts` | `pending` by request id: target, expiry, `messageRefs` | requests of hook and plugin, fan-out of button messages, button, typed answer, prune, giveup | every request is answered at most once and, if its requester stays, at least once; messages tell what happened |
| permission hook, `cli/permission-hook.ts` | one socket, one timer | auto-allow, ask, read, time out | always prints one decision |
| connection and turn, `daemon/connection.ts` | `turnState`, sunset timer, `cancelPending`, `lastInboundChatId`, `activeTraceThreadId` | startTurn, startSunset, clearTurn, timer | a turn is open from its message to its end; nothing of one turn acts in the next |
| inbound router, `daemon/inbound-router.ts` | none of its own | gate, pair, hint, deliver | a message goes to the workspace its channel is bound to |
| tool trace, `daemon/tool-trace.ts` | the thread cached on the connection | handle, openTraceThread | one fresh thread per turn |
| typing heartbeat, `daemon/typing-heartbeat.ts` | timer per workspace and chat | start, stop, stopAll | dots end with the turn |
| registry, `daemon/registry.ts` | Map name to connection, LRU by activity | register, unregister, evictTo, listeners | unique names, open connections, the cap |
| socket server, `daemon/socket-server.ts` | the sockets, the reaper | accept, register, dispatch of lines, close | registry and sockets agree |
| plugin, `plugin/*` | socket, `ToolBridge.pending` | connectLoop, tool calls, orphan watch | comes back after any disconnect; each call resolves once |
| slash commands, `daemon/slash-commands.ts` | `lastRegistered`, debounce timer; routing | registration of choices, /use, use-move, /last, /cancel, /list, /recent | the choices follow the registry; channel and workspace are bound 1:1 |
| daemon wiring, `daemon/index.ts` | the stores, the listeners, the shutdown flag | clientReady, onChange, onReplyDelivered, ccStopHandler, onApiError, onShutdown | every event reaches the right session; a shutdown ends |
| routing table, `daemon/routing.ts`, `workspace-indicator.ts` | `routing.json` and its copy, `lastSelfWriteAt` | set, unset, reload, indicator ids | memory and file agree; no write is lost |
| access control, `daemon/access-control.ts`, `cli/access-mutate.ts`, `approval-watcher.ts` | `access.json`, `approved/` | gate, pairing, CLI mutators, approvals | at most three codes, one "Paired!", no update lost |
| question relay, `daemon/ask-question-relay.ts` | `pending` by id | ask, button, prune, stop | the asker gets one result |
| transcript watcher, `daemon/transcript-watcher.ts`, `error-notice.ts` | offset and partial line per file, throttle slot per chat | observe, poll, notify | every new error once, no old one; one notice a minute |
| ring buffer, `daemon/ring-buffer.ts` | the last exchanges of a workspace | push, recent, delete | /recent shows the latest |
| line protocol, `protocol/ndjson.ts` | the unfinished line of a socket | push | lines arrive whole and in order |
| formatting, images, installer, service commands | - | - | sequential or pure I/O; not modelled |

How they interact: the daemon is one event loop. Handlers run to their next
`await`; what is read before an await and used after it can be stale. Hooks are
processes of their own with sockets of their own, so their lines are not ordered
with those of the plugin. The relay and the traces look a workspace up in the
registry by the hook's `cwd`; tool calls and answers look it up by name. Two
files, `access.json` and `settings.json`, are written by several processes.

Hard parts: the settlement races of the permission relay, the overlap of turns,
the reconnects of plugins, the debounced registration, and the timeouts of
different length on the two ends of a call. `PROJECT.json` lists them, at their
lines, as hazards, with the properties that cover them.

## 2. Modules

| Module | Models | Runs |
|---|---|---|
| `OneShotDecision` | what the permission relay promises (abstract) | property of `permissionrelay_safety` |
| `PermissionRelay` | `permission-relay.ts` with the hook process and the Discord messages | `permissionrelay_*` |
| `PermissionRelayProofs` | theorems about it | |
| `Turn` | `connection.ts` with its users: inbound, replies, Stop hook, /cancel, traces, typing | `turn_*` |
| `TurnProofs` | theorems about it | |
| `Registry` | `registry.ts`, the socket server's register, close and reaper, the plugins' connections | `registry_lowcap`, and within the next two |
| `RegistryProofs` | theorems about it | |
| `Sessions` | composes `Registry` with what the daemon keeps per workspace: turns, typing dots, ring buffers | `sessions_all` |
| `Lifecycle` | composes `Registry` with a daemon from start to shutdown: the choices of /use, waiting hooks, the closing of the server | `lifecycle_all` |
| `CompositionProofs` | theorems about `Sessions` and `Lifecycle`; that `Sessions` implements `Registry` | |
| `ToolCalls` | a tool call and back: the plugin's bridge, the daemon's reply tool with the cutting of its text, the question relay | `toolcalls_*` |
| `ToolCallsProofs` | theorems about it | |
| `Routing` | `routing.json` and its copy, /use, /last, the move button, the indicators | `routing_all` |
| `RoutingProofs` | theorems about it | |
| `Access` | `access.json` between daemon and CLI, the gates of messages and replies, pairing, `approved/` | `access_all` |
| `AccessProofs` | theorems about it | |
| `Streams` | the transcripts and the socket as streams read in pieces, and the failure notices | `streams_all` |
| `StreamsProofs` | theorems about it | |

`MC*` modules give the constants values.

### PermissionRelay

State: `pending` is the keys of the map; `refs` the `messageRefs` of an entry;
`cur` and `todo` where `handleRequest` stands in its loop of sends; `msg` what
Discord shows in each chat; `wire` every answer written to the requester;
`hook` and `conn` the hook process and the daemon's end of its socket.
A send is two actions, because a click can come between them: `SendDelivered`
(Discord posts) and `SendAcked` or `SendFailed` (the promise settles).
`handleRequest` up to its first await belongs to the handler that calls it.
`editAllRefs` is a loop with an await, one `EditRef` per message, on the live
array as in the code. `HandleButton` is the whole claim, dispatch, rule and label.
What `handleCcRequest` finds for the hook's workspace is the parameter `view`;
`Turn!View` is where it comes from.

Left out: texts, *See more* (it answers nothing), the collision of two random
ids, and the width of `PENDING_TTL_MS`: `Prune` may fire whenever the sends of
its request are over, since the REST client gives up within minutes and the
TTL is longer.

### Turn

State: the fields of `Connection`; `typing` the chats with a heartbeat; `inbounds`
the messages so far, so turn *n* is that of message *n*; where Claude Code is (`taken`,
`busy`), and what is on its way to the daemon (`replying`, `stopping`, `trace`).
Claude Code is outside the repository. It takes one message after the other, runs
tools, replies, stops; the constant `Habits` says what else may happen: messages that
`overlap`, tools that do not wait for the trace (`fastTools`), a reply that
outlives the plugin's 60 s (`slowReply`), a lost Stop hook (`stopLost`), and a
`reconnect`. A trace is cut at its awaits. `HandleTrace` drops it, chooses the cached thread
(`into`) or begins to open one; `ThreadOpened` caches the new thread and chooses it, or
`OpeningFails`; `TracePosted` is the end of `postTraceEmbed`, a send that may fail and that
reopens an archived thread. After a reconnect an opening writes to the
old connection object (`orphaned`). A Stop begins the archiving (`ArchiveThread`) and nobody
waits for its end (`ThreadArchived`). `calm` is a history variable: it is true as long as no message,
tool, reply or Stop came before its time, so that `CalmTurns` says what the daemon's handlers
alone must keep while the other properties hold under any overlap.

### Registry

State: `conn` the daemon's end and `up` the plugin's end of each socket, `recency`
the entries of the Map by activity, `name` the assigned name as base and number. `SliceEnd` is
the meaning of `Array.slice(0, end)` for any `end`, negative ones included, and
`ReadEnvInt` the fallback rule: `Cap` and `Trim` follow from the two environment
variables as in the constructor. `Reap(n)` drops the *n* longest silent
connections, since a reaper pass takes all that are over the limit; `EvictTo` and `Without` say what
stays of the list. A connection that was taken
out of the map keeps no name (`Unnamed`), so a lookup by name cannot find it.

### Sessions

Extends `Registry`; each of its actions that removes connections is taken with the listeners
it calls (`NotifyRemoved`: typing dots, `NotifyEvicted`: ring buffers), in the order of the
code. `before` is the Map's order of registration, which `list().find` walks, as a relation; `recency` is the order by activity. A Stop hook
finds the first of the sessions of its directory (`Matching`), a delivered reply by name (`ReplyDelivered`). A
call remembers whether its own connection is still registered (`here`). The ring buffer of one
name is followed; `log` is what it should hold. A message is `Inbound`, its answer `Reply` and
`ReplyDelivered` or `ReplyFails`, with removals and registrations in between.

### Lifecycle

Extends `Registry`. `life` is up, closing (`server.close` waits) or down; `phase`, `lastRegistered`,
`debounce`, `puts` and `choices` are the registration of the /use choices: the first one after a
grace period, before the listener exists, the next ones debounced, none of them queued
behind another. `hooks` are sockets of permission hooks that wait for an answer. `Shutdown` closes
registered connections and stops the reaper; `DaemonExits` needs that no socket is left.
`stale` and `strays` remember what may go wrong, so the properties say what holds otherwise:
`stale`, that a change fell into the first registration, or that a PUT failed or overlapped another;
`strays`, the plugins that were connected and unregistered when the shutdown began.

### ToolCalls

State: on the plugin's side the latest socket `link`, whether a bridge is `linked`,
`nextId`, the `waiting` calls by id and each call's `outcome`; `lines` and `results` are the
lines in the sockets; in the daemon `origin` is the connection object and id a handler
answers to, `work` where it stands, `pending` and `choice` the question relay; `message` and
`posted` what Discord shows. A question is posted by `QuestionPosted` and entered by
`QuestionAcked`, a click is taken by `Click` and answered by `ClickUpdated`. A call that
`TimeOut` ended goes on in the daemon. `Chunk` is the splitting of a reply's text,
a sequence of characters of which a newline and a space matter: a recursive function on the place in the
text that is reached. `SayAll` says that the chunks, put in their places, leave out nothing but newlines between them. `DaemonRestarts` answers nobody: `stop()` resolves
the questions with "daemon shutting down", but the sockets are closed in the same turn of
the event loop, before the handlers run on.

### Routing

State: `data` and `file`; `edit`, an external edit that the watcher has still to
see or took for an echo; per command where it stands (`cmd`), with the channel whose
indicator it works on; `shown`, the indicators. A command is cut at its awaits: `HandleUse`,
`MoveClicked` and `HandleLast` run up to the work on an indicator, `ClearDone` and
`ApplyDone` follow it. `loose` and `muddled` remember which channels were bound without the
check, by hand or during a move, and whose indicator was worked on twice or refused; the
properties say what holds of all others.

### Access

`access.json` is a function of its items: the two policies, each sender (allowed or
not), each channel's group, each code's entry. Every process keeps in `proc` the access
it read and will write, and what others changed since (`missed`). A command is
`Cmd...` (read, check, change) and `CmdWrites`; the daemon's handler is `Receive`,
`PruneWritten` if something expired, and `Gated`. Within the daemon nothing comes
between, but the CLI is another process. `asked` is the file as it would be if no write put
anything back, `loose` the items that a late write put back. `pair` makes its file of
`approved/` in two calls (`ApprovalCreated`, `ApprovalFilled`); the watcher's `Look` may
meet it in between. The settings that `cmdSet` writes are left out; that it puts the rest
back is not. The gate of messages is `Admits` and `Pairs`; `MayAnswer` is the gate of replies, which
`tool-handlers.ts` writes anew over the same file.

### Streams

A stream is a sequence of cells, where a line is a cell for its body and one for its newline: a
piece can end before or after the newline. `Told` are the newlines that end a line, `Lines` the texts
they end, for the watcher and for `LineBuffer` alike. `file` is what Claude Code wrote, `offset` and
`partial` are the entry of the watcher, `base` the offset it began with; `sent`, `wire`, `buf` and
`handled` are a plugin's lines from end to end. `Poll` is one pass: discovery, a scan of every entry, and `OnApiError`
for what it found. `Notify` claims a chat's throttle slot and sends; its callers are a poll, a reply that
fails and the typing cap. `awaiting` are the chats with a heartbeat.

## 3. Runs

| Run | Shows |
|---|---|
| `permissionrelay_safety` | no request is answered twice, a pending entry always has a waiting requester, labels, stale notes and rules match what was answered; `OneShotDecision` is implemented |
| `permissionrelay_live` | whatever sends fail, a plugin's request is answered, or settled while its plugin is away, and recorded messages are stripped |
| `permissionrelay_crash` | *violated*: a hook whose daemon dies exits without a decision |
| `turn_overlap` | under any overlap: the timer fits the state, a cancel hits its own turn, no thread that a Stop archives is cached, typing dots are owed to someone, turns end; and while nothing came before its time (`CalmTurns`) the latest turn stays open, prompts go to its chat, turns and threads correspond |
| `sessions_all` | unique names, registry and sockets agree, the cap; no dot outlives its workspace, /recent is the latest delivered under its name since its eviction, a turn is ended by its own session or in one of two named ways |
| `registry_lowcap` | *violated*: a cap below the default trim target does not evict |
| `lifecycle_all` | Discord ends up with the registry's list, a running plugin comes back, a shutdown ends |
| `toolcalls_all` | a reported success is true, complete and of the caller's own call, a waiting question can be clicked, the first click decides, every call returns, every question ends |
| `toolcalls_lateclick` | *violated*: a click after the plugin's 60 s is shown in Discord and reaches nobody |
| `routing_all` | memory and file agree, a workspace has two channels only by /last, an edit or a move that was overlapped, indicators follow the table |
| `access_all` | changes are lost only to a process that read before them; but for what such a process put back, used codes are gone, a code is sent twice at most and the gate follows the file as asked for; the limit of pending codes holds; what is let in can be answered, but from a channel nothing is said of; only the paired are greeted |
| `streams_all` | each API error is reported once and none of the past, a plugin's lines are handled whole and in order, one notice per chat and minute, the watcher catches up |

Every property of a passing run has a mutant in `PROJECT.json`: a form of one action
with a plausible bug, defined next to the action, under which the run fails.

### Bounds, and why they are enough

* *PermissionRelay*: requests touch each other only through `settings`, `allowFrom`, the
  plugin's connection and a crash, so one of each kind has every race on a request; two users make a fan-out
  that fails in the middle, and a click by one user while the other's message is sent.
  Users are symmetric in the safety run; the liveness run has no symmetry; in it sends fail and the plugin comes and goes.
* *Turn*: two messages are a turn and its successor; two traces, a channel and a DM.
* *Sessions*: three plugins, two of them of one directory, all of one basename; the
  cap is 2 and the trim target 1, so one registration evicts two. The real 50 and 45 differ
  only in size; `SliceEnd` is total. Three exchanges overflow a ring of two, or are a call that
  meets a successor of its session. The sessions of one directory are symmetric.
* *Lifecycle*: two plugins with room for one, so a registration evicts, and one hook; PUTs may
  fail and overlap. Liveness is checked, so there is no symmetry.
* *ToolCalls*: a question with two options and a reply of two chunks, three sockets: an
  id of one socket is given again on the next while the first call is at work. Texts of up to
  six characters with a limit of three meet every branch of `Chunk`: no break, one at the limit, one too early to use.
* *Routing*: three commands are a move, one that overlaps it and one between; two guild
  channels and a DM; one edit or restart. The history is cut at one entry instead of ten.
  Channels, workspaces and commands are symmetric as far as their kinds are.
* *Access*: the daemon with any number of messages beside two commands, in every
  order of their reads and writes; two senders, two codes, and room for one pending
  code, so that the limit is met. A third pending code meets the same guard; that no sender has
  two codes is shown by the proof, since there is room for one. The group policy is `open` without
  defaults, so a channel without an entry is let in unanswerable.
  Each command can follow or overlap each other. Codes and commands are symmetric.
* *Streams*: the main transcript and one of a sub-agent, two lines in all, either of them an
  error; reads of three cells take a line and a half, so scans end in the middle of a line and of a file. Two
  lines in the socket arrive in any pieces. One chat, since chats do not touch each other's slots.

Runs with `CHECK_DEADLOCK FALSE` stop because a bound on messages or changes
is used up, and a session that is over has nothing left to do.

### Fairness

What the event loops do is weakly fair: settled promises, timers,
readable sockets, and a plugin's reconnect loop. `HandleRegister` is strongly fair: a daemon
that restarts again and again still reads a register line at times (`LifecycleFairness`). Its
timers, its requests to Discord and the hooks' own timers are fair; nobody has to end or start
it. In `Streams` only the poll timer is fair. In `PermissionRelay` only what its two
properties need is assumed: the sends and the prune timer of a plugin's request, the edits of a hook's.
In `Turn`, Claude
Code takes its messages and ends its turns. In `ToolCalls` the timers of calls and questions
are fair, and a closed socket is noticed; no click, no send and no reconnect is owed. Users, new sessions,
tools, and all faults owe nothing.

## 4. What is proved

`PermissionRelayProofs`, for any sets of requests, users and tools:

* `TypeCorrect`: `TypeOK` is an invariant.
* `AnsweredOnce`: at most one answer per request, assuming `"lostAck" \notin Faults`:
  Discord posted nothing when it rejects a send. The assumption is needed: with
  a lost acknowledgement, the claim of a click and the deny of the failed fan-out
  (`permission-relay.ts:288-292`, which does not claim) both answer.
  `AtMostOneAnswer` is not inductive. The strengthening `RInv` says of each request
  that while it is pending its wire is empty and its connection open (`Open`), that
  every message of it is recorded or is the one whose send is awaited (`Posted`), and
  that a fan-out that runs on without a recorded message belongs to a request that is
  still pending, or whose latest message was posted, or whose hook is gone
  (`Unrecorded`): so the deny of a failed fan-out meets no earlier answer.
* `PendingWaits`: under the same assumption, a pending request has a requester that waits.
* `RelayIsOneShot`: under the same assumption every step is a step or a stutter of
  `OneShotDecision`: a request leaves `asked` once and its answer never changes.
* `LabelsAreTruthful`: under the same assumption `LabelTruthful` is an invariant. It needs
  `StrippedWhenAbandoned`: buttons are stripped, and the stale note set, only of requests whose hook
  left without an answer and never gets one.
* `RulesAllowed`: under the same assumption, `RulesWereAllowed`, an action property.

`TurnProofs`, for any chats, bounds and habits:

* `TypeCorrect`: `TypeOK` is an invariant. That only existing threads are archived
  (part of it) needs `CachedThreadIsLive`, and this needs `MadeWhenOpened`: a thread is
  made when its opening ends, so one that is cached late cannot have been archived before.
* `TimerFitsState`: the sunset timer is armed exactly in the sunset state.
* `CancelScoped`: a cancel is visible only in the turn it was made in.
* `ThreadLive`: the cached thread exists, and no Stop has archived it or is archiving it. It speaks of
  the cache: a post that had chosen its thread before the Stop may still be sent after it.
* `CalmTurnsKept`: `CalmTurns` is an invariant. `CalmInv` makes it inductive: as long as nothing
  came before its time Claude Code is in the turn of the latest message or has still to take it,
  with one trace on its way (`Serial`); that turn has its chat and is over only if it was replied to or
  its work is over (`TurnKept`); and while no thread is cached the turn has none (`ThreadKept`).
* `DotsAreOwed`: `TypingIsOwed` is an invariant, with `AnswersWhatItTook`: a reply is one to a
  message that Claude Code took, so the message that starts the dots was not answered before it came.

`RegistryProofs`, for any plugins, directories, names and limits:

* `NamesBelongToOne`: every reachable registry is well typed, names are unique and listed
  connections are open. A free number for a name exists since those in use are finitely many (`FreeNumber`);
  the rest rests on what the lemmas say of `Without` and `EvictTo` on a list without repetition.
* `RegistryIsSound`: with the cap, `RegistrySound`, assuming `Trim <= Cap`. This is the condition
  that `registry_lowcap` shows the code not to establish; the other parts do not need it.

`CompositionProofs`, for any constants; it extends both compositions and the proofs about `Registry`:

* `SessionsImplementRegistry`: `SessionsSpec => Spec`, step by step: what the listeners and the
  turns do changes nothing of the registry. `SessionsRegistrySound` follows.
* `NoDotOutlivesItsSession` and `RecentShowsLatest`: `TypingHasSession` and `RecentIsLatest` are
  invariants. The ring holds what was delivered under the name since it was last evicted, a late reply of
  an evicted session included. `SInv` adds that a call whose connection is still registered carries its name
  (`HereIsMember`), and that the ring is the log.
* `NoOtherTurnEnds`: `OthersTurnsStand`, an action property, from `SInv`.
* `ChoicesSettle`: `SettledIsRight` is an invariant. `LInv` says of each phase of the registration what
  the latest PUT and the choices are worth (`Fresh`). While a shutdown goes on, closed connections
  may still be listed, so it has only the part of the registry's invariant that survives
  this (`Coherent`). `UpListsOpen`: a daemon that is up lists open ones only.

`ToolCallsProofs`, for any questions, options, replies, texts, limits and bounds:

* `RepliesFit`: `chunk` ends, for every text, limit and mode, and no chunk is over the limit.
  `RepliesAreWhole`: its chunks say the whole text. `Pieces` is a recursive function; that it
  is what its equation says is proved by a smallest counterexample (`WFMin` of the library's well-founded
  induction, which needs no operator parameter), and so is what its chunks say.
* `SuccessesAreTrue`: `SuccessIsTrue` is an invariant. By `IInv` an id is used once on a socket
  (`IdsApart`), a call waits under its own id on the socket of now (`WaitsForItsOwn`), and a result
  under way is that of the call its id was given to (`ResultsGood`): this is why an answer to a lost
  socket cannot resolve the call that has the same id on the next one.
* `WaitsCanEnd`: `AskedCanBeClicked` is an invariant, by `AskedIsPending`.
* `FirstClicksWin`: `FirstClickWins`, an action property.

`RoutingProofs`, for any channels, workspaces, commands, faults and length of history:

* `NothingUnsaved`: `MemoryIsFile` is an invariant.
* `TwoChannelsAreLoose`: `OneToOne` is an invariant: of two channels of one workspace one is `loose`, bound by
  /last, by an edit or by a move that another command overlapped. It is not inductive: the last step of a
  move binds without a look at the table. `MoveKnows` says why it may: the channels
  that have the workspace of a move are its target, the one it clears, and its list, until
  another command binds that workspace; then the move counts as `loose`.
  `BoundToWorkspace` exempts what /last bound from it.
* `TypesHold`: `TypeOK` is an invariant, with the limit of a history.
* `IndicatorsFollow`: `IndicatorFollows` is an invariant. `FInv` says what the commands that work on an
  indicator know meanwhile (`Kept`): one that sets it has the channel's workspace, and both
  know whether a message is pinned, as long as the channel is not `muddled`.

`AccessProofs`, for any senders, channels, codes, commands, limits and settings, from the
assumptions that the names of the items are distinct:

* `TypeCorrect`: `TypeOK` is an invariant.
* `ChangesKept`: `AsAsked` is an invariant. It rests on `Held`: what a process is about
  to write is the file, except for the items it means to change and those that
  another write changed after its read.
* `LimitsOfPairing`: `PairingLimits` is an invariant. Every access that is held keeps the
  limits on pending codes, so any order of writes does. That a code is sent at most twice, unless
  its count was put back (`loose`), rests on `Counted`, the replies on record are those sent, and `Drawn`, a code that was
  sent is not drawn again.
* `GateIsCurrent`: `DeliveredWasDue` is an invariant, by `AsAsked` at the time of the read, and by
  cases of the two gates. A message is let in that was not to be only by an item that was put back.
* `GreetingAfterPairing`: `GreetedWasPaired` is an invariant, by `ApprovedLast`.

`StreamsProofs`, for any transcripts, chats and bounds:

* `OneNoticeAMinute`: `OneNotice` is an invariant. `Slots` is inductive: a chat has one
  notice in its window exactly if its slot is claimed; so it matters that `notify` claims before it sends.
* `TailsAreExact`: `TailIsExact` is an invariant. `Tails` is inductive: what was read of a transcript is the part
  from its base to its offset, the partial line is the rest of it, and an error is reported exactly if this part
  holds its whole line (`Watched`); lines are written once (`Numbered`, `Once`), and nothing is reported whose line
  is still to be read (`Unsaid`), so none is reported twice after a file was cut back. The lemma it turns on is
  `RestGoesOn`: reading on from a partial line finds the lines that a reading of the whole would.
* `LinesArriveInOrder`: `LinesInOrder` is an invariant. `Socket`: the buffer, which is empty or one body, and the
  cells on their way are the lines that are not handled yet, each a body and a newline (`IsTrain`). The lemma
  `LinesOfTrain` says what `push` takes out of such a train wherever a piece ends.

Only model-checked: liveness, which is everything under fairness (`PluginAnswered`, `RecordedRefsStripped`, `TurnEnds`,
`ChoicesStayLive`, `Reconnects`, `ShutdownEnds`, `CallsEnd`, `ErrorsSurface`): it needs ENABLED, which the prover
does not have. Every safety property of a passing run is a theorem, six of them under an
assumption on the constants: `"lostAck" \notin Faults`, which `permissionrelay_safety` makes too, and
`Trim <= Cap` for the cap.

## 5. What the code does not do as it says

The three violated runs above are the findings in `PROJECT.json`. Weaker remarks, which
the same modules show when a constant is changed:

* `turn_overlap` without `calm`: the late reply or Stop of one message
  ends the turn of the next (`LatestTurnIsOpen`), a second chat takes over the prompts of
  the first (`PromptGoesToItsSource`), and a thread being opened is cached for the
  new turn (`OneThreadPerTurn`).
* `lifecycle_all` without `stale`: the choices can stay wrong until the
  next change (`ChoicesStayLive`): the listener is installed after the first
  PUT was awaited, a failed PUT is not repeated, and PUTs can overtake each other.
* `lifecycle_all` without `strays`: a plugin that connected before the shutdown and registers
  during it is served by a daemon that is closing and holds `server.close` up until it leaves (`ShutdownEnds`).
* `sessions_all` without the exemptions of `OthersTurnsStand`: the late reply of a lost connection
  starts the sunset of the session that has its name by now (`index.ts:150`), and the Stop hook of one
  of two sessions of a directory ends the turn of the one that is first in the map (`index.ts:208`).
* A trace that has chosen its thread is sent after two awaits (`tool-trace.ts:145, 185, 204`). A Stop that
  archives the thread meanwhile is undone by the send, which reopens it; nothing archives it again,
  though `index.ts:204-206` wants it out of the active threads (`TracePosted`).
* `sessions_all`: the reply of a session that was evicted while it was sent enters the ring of its name
  after the eviction emptied it (`index.ts:67`), so /recent shows it to the session that has the name next.
* The gates of messages and replies differ, though `src/README.md:342` calls them symmetric: in the
  default configuration (`open`, no `groupPolicyDefaults`) a mention in a channel without an entry is
  delivered and its reply refused (`DeliveredWasDue` exempts it), and with the DM policy
  `disabled`, or the group policy `disabled` and an entry, a reply passes to where nothing is let in from.
* A hook that gives up while one of its messages is on the way to Discord leaves the
  buttons of that message live: `messageRefs` gets it after `editAllRefs` has ended
  (`permission-relay.ts:210-214` says nobody is "left clicking a dead control").
* `settingsAllows` takes a narrowed rule for the whole tool: after `Bash(git:*)` the hook
  allows every Bash call (`permission-hook.ts:83`; `SettingsAllows` in `PermissionRelay`).
* `turn_overlap` with `"fastTools"`: two traces that find no cached thread open one each
  (`OneThreadPerTurn`, `tool-trace.ts:80`).
* Of two evicted sessions of one directory the one that reconnects first takes the name
  of the other (`socket-server.ts:309`), though `registry.ts:12-13` says "the same workspace name".
* `routing_all` without the exemptions: /last, an edit of the file and a move that another
  command overlaps leave a workspace with two channels (`OneToOne`). Two moves of one workspace to different channels are
  such an overlap: both clear the old channel, both bind. A move unbinds a channel of its
  list even if it was bound anew during the await; an edit within 200 ms of an own write
  is never loaded and overwritten by the next.
* `access_all` without `loose`: the daemon and a command, or two commands, put back what
  the other changed; a removed sender can be back and is let in, a used code pending, a code whose
  count is put back is sent a third time. A file of `approved/`
  that the watcher meets empty is removed and the greeting lost, as it is
  if `pair` is interrupted after `access.json`. A spoilt `access.json` reads as the
  default, so `disabled` becomes `pairing`.
* `permissionrelay_live`: an answer to a plugin that is just reconnecting is dropped and never
  repeated; `PluginAnswered` exempts it.

## 6. Not modelled

* Installer, service management, `start`, `stop`, `logs`, `status`: file and process operations run by hand, one after the other.
* `trace-formatter.ts`, `diff-image-renderer.ts`: pure formatting.
* The gateway: a wrapper of discord.js, whose sends are actions that succeed, fail or lose their answer.
* Connect policy, orphan watcher, whoami: decisions about the environment of a process.
* Within modelled parts: *See more*, embeds and files, the tools that only read, the redirect of old
  trace threads, the check of attachments, the widths of random ids, a file spoilt by hand, a read of a transcript that
  ends inside a character.

## 7. Plan

1. Proofs: that `Lifecycle` implements `Registry` while the daemon is up.
2. Abstract specifications: a 1:1 binding for `Routing`, a call that resolves once for
   `ToolCalls`, an atomic access list for `Access`, each with its refinement.
3. Compositions: the traces of `Turn` and the prompts of `PermissionRelay` over the lookups of `Sessions`.
