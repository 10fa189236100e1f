------------------------------- MODULE Access -------------------------------
(***************************************************************************)
(* Who may write to the bot: access.json, read and written by the daemon   *)
(* for every message (src/daemon/access-control.ts, inbound-router.ts) and *)
(* by the commands typed in a terminal (src/cli/access-mutate.ts), each a  *)
(* process of its own; and the files of approved/, by which the command    *)
(* `pair` has the daemon greet a sender (src/daemon/approval-watcher.ts).  *)
(*                                                                         *)
(* A step is what a process does between two calls on the file system.     *)
(* access.json is replaced as a whole, by a rename, so a process that read *)
(* before another wrote puts back what it read.  The file is a function of *)
(* the items below.  A file spoilt by hand, the other settings, and what   *)
(* follows the gate (the route, the turn) are left out.                    *)
(***************************************************************************)
EXTENDS Naturals, FiniteSets

CONSTANTS
    Senders,       \* users of Discord
    Channels,      \* guild channels
    Dm,            \* a sender's DM with the bot
    Codes,         \* bound: pairing codes, each drawn once; then the gate drops
    None,          \* no entry
    Daemon,        \* the daemon
    Clis,          \* bound: commands in a behaviour
    MaxPending,    \* codes pending at once, 3 in the code
    MaxGreetings,  \* bound: greetings of one sender at work at once
    MaxRestarts,   \* bound: restarts of the daemon
    GroupPolicies, \* values of groupPolicy at the start
    Modes,         \* values `policy` is given
    Groups,        \* what `group add` is given
    GroupDefaults, \* groupPolicyDefaults, a group or None
    Allowed        \* senders allowed at the start

ASSUME NamesAssumption == Allowed \subseteq Senders /\ Dm \notin Channels /\ Daemon \notin Clis
ASSUME DistinctAssumption ==
    /\ Senders \cap Channels = {} /\ Senders \cap Codes = {} /\ Channels \cap Codes = {}
    /\ {"dm", "guild"} \cap (Senders \cup Channels \cup Codes) = {}
ASSUME BoundsAssumption == MaxPending \in Nat /\ MaxGreetings \in Nat /\ MaxRestarts \in Nat
Group == [mention : BOOLEAN, allow : SUBSET Senders]

ASSUME PoliciesAssumption ==
    /\ Groups \subseteq Group
    /\ GroupDefaults \in Group \cup {None}
    /\ Modes \subseteq {"pairing", "allowlist", "disabled"}
    /\ GroupPolicies \subseteq {"open", "opt-in", "disabled"}

VARIABLES
    file,      \* access.json
    expired,   \* codes more than an hour old
    proc,      \* per process: where it stands
    approved,  \* per sender: its file in approved/
    greeting,  \* per sender: calls of the approval handler at work
    told,      \* per code: times it was sent
    asked,     \* every item as the last write that meant it left it
    loose,     \* items a write put back to a value it had read too early
    spent,     \* codes paired or denied
    paired,    \* senders whose pairing was written
    restarts   \* restarts so far

vars == <<file, expired, proc, approved, greeting, told, asked, loose, spent, paired, restarts>>

Items == {"dm", "guild"} \cup Senders \cup Channels \cup Codes
Pending == [from : Senders, replies : 1 .. 2]
Message == [from : Senders, chan : {Dm}, mention : {FALSE}]
           \cup [from : Senders, chan : Channels, mention : BOOLEAN]

IsAccess(a) ==
    /\ DOMAIN a = Items
    /\ a["dm"] \in {"pairing", "allowlist", "disabled"}
    /\ a["guild"] \in {"open", "opt-in", "disabled"}
    /\ \A s \in Senders : a[s] \in BOOLEAN
    /\ \A ch \in Channels : a[ch] \in Group \cup {None}
    /\ \A c \in Codes : a[c] \in Pending \cup {None}

\* A missing file.
Default == [i \in Items |-> CASE i = "dm" -> "pairing" [] i = "guild" -> "open"
                              [] i \in Senders -> FALSE [] OTHER -> None]

\* next is the access a process is about to write, means the items it changes,
\* missed those others changed since it read, arg the message it handles or the
\* sender it pairs, due how the message stood when it came (Standing).
Idle == [phase |-> "none", next |-> Default, means |-> {}, missed |-> {}, arg |-> None,
         due |-> "letIn"]
Over == [Idle EXCEPT !.phase = "over"]

TypeOK ==
    /\ IsAccess(file) /\ IsAccess(asked)
    /\ expired \subseteq Codes /\ spent \subseteq Codes
    /\ loose \subseteq Items /\ paired \subseteq Senders
    /\ \A p \in Clis \cup {Daemon} :
          /\ proc[p].phase \in {"none", "pruning", "gating",
                                "writing", "written", "created", "over"}
          /\ IsAccess(proc[p].next)
          /\ proc[p].means \subseteq Items /\ proc[p].missed \subseteq Items
          /\ proc[p].arg \in Message \cup Senders \cup {None}
          /\ proc[p].due \in {"letIn", "putBack", "refused"}
    /\ approved \in [Senders -> {"no", "empty", "full"}]
    /\ greeting \in [Senders -> 0 .. MaxGreetings]
    /\ told \in [Codes -> Nat]
    /\ restarts \in 0 .. MaxRestarts

Init ==
    /\ \E g \in GroupPolicies :
          file = [i \in Items |-> IF i = "guild" THEN g
                                  ELSE IF i \in Allowed THEN TRUE ELSE Default[i]]
    /\ expired = {} /\ spent = {} /\ loose = {} /\ paired = {}
    /\ proc = [p \in Clis \cup {Daemon} |-> Idle]
    /\ approved = [s \in Senders |-> "no"]
    /\ greeting = [s \in Senders |-> 0]
    /\ told = [c \in Codes |-> 0]
    /\ asked = file
    /\ restarts = 0

-----------------------------------------------------------------------------
(* The file *)

PendingIn(a) == {c \in Codes : a[c] # None}

Outdated(a) == PendingIn(a) \cap expired

\* pruneExpired
Pruned(a) == [i \in Items |-> IF i \in Outdated(a) THEN None ELSE a[i]]

\* Mutated form: the defaults are merged over the access.
Write_DefaultsLast(p, next, means, after) ==
    /\ file' = Default
    /\ asked' = [i \in Items |-> IF i \in means THEN next[i] ELSE asked[i]]
    /\ loose' = (loose \cup proc[p].missed) \ (means \ Codes)
    /\ proc' = [proc EXCEPT ![p] = after]

\* Process p replaces the file by next, meaning to change some items, and goes on
\* as after.
Write(p, next, means, after) ==
    LET touched == {i \in Items : next[i] # file[i]}
    IN  /\ file' = next
        /\ asked' = [i \in Items |-> IF i \in means THEN next[i] ELSE asked[i]]
        /\ loose' = (loose \cup proc[p].missed) \ (means \ Codes)
        /\ proc' = [q \in DOMAIN proc |->
                      IF q = p THEN after
                      ELSE IF proc[q].phase \in {"pruning", "gating", "writing"}
                           THEN [proc[q] EXCEPT !.missed = @ \cup touched] ELSE proc[q]]

Goes(p, after) == proc' = [proc EXCEPT ![p] = after] /\ UNCHANGED <<file, asked, loose>>

-----------------------------------------------------------------------------
(* The gate *)

\* The policy of channels an open access says nothing of.
Unlisted == IF GroupDefaults # None THEN GroupDefaults ELSE [mention |-> TRUE, allow |-> {}]

PolicyFor(a, ch) ==
    IF a[ch] # None THEN {a[ch]} ELSE IF a["guild"] = "open" THEN {Unlisted} ELSE {}

\* gate delivers the message.
Admits(a, m) ==
    /\ a["dm"] # "disabled"
    /\ \/ m.chan = Dm /\ a[m.from]
       \/ /\ m.chan # Dm /\ a["guild"] # "disabled"
          /\ \E pol \in PolicyFor(a, m.chan) : /\ pol.allow # {} => m.from \in pol.allow
                                               /\ pol.mention => m.mention

\* Mutated form: the reply has to be to a listed channel.
MayAnswer_Listed(a, m) == m.chan # Dm /\ a[m.chan] # None

\* fetchTextChannel, asked for the channel a message came from: a DM by its
\* recipient, a guild channel by its entry or, in an open access, the defaults.
MayAnswer(a, m) ==
    \/ m.chan = Dm /\ a[m.from]
    \/ m.chan # Dm /\ (a[m.chan] # None \/ (a["guild"] = "open" /\ GroupDefaults # None))

\* Mutated form: off by one in the limit of pending codes.
Pairs_OneMoreCode(a, m, c) ==
    /\ m.chan = Dm /\ a["dm"] = "pairing" /\ ~a[m.from]
    /\ LET own == {d \in PendingIn(a) : a[d].from = m.from}
       IN  \/ c \in own /\ a[c].replies < 2
           \/ own = {} /\ Cardinality(PendingIn(a)) <= MaxPending /\ told[c] = 0

\* Mutated form: off by one in the limit of replies.
Pairs_OneMoreReply(a, m, c) ==
    /\ m.chan = Dm /\ a["dm"] = "pairing" /\ ~a[m.from]
    /\ LET own == {d \in PendingIn(a) : a[d].from = m.from}
       IN  \/ c \in own /\ a[c].replies <= 2
           \/ own = {} /\ Cardinality(PendingIn(a)) < MaxPending /\ told[c] = 0

\* gate answers the message with code c, which it adds or counts in the access.
Pairs(a, m, c) ==
    /\ m.chan = Dm /\ a["dm"] = "pairing" /\ ~a[m.from]
    /\ LET own == {d \in PendingIn(a) : a[d].from = m.from}
       IN  \/ c \in own /\ a[c].replies < 2
           \/ own = {} /\ Cardinality(PendingIn(a)) < MaxPending /\ told[c] = 0

\* The items the gate's answer depends on.
Concerns(m) == IF m.chan = Dm THEN {"dm", m.from} ELSE {"dm", "guild", m.chan}

\* A message by the access as it was asked for: to be let in, to be refused, or to
\* be refused where a write has put back an item the answer depends on.
Standing(m) ==
    IF Admits(asked, m) THEN "letIn"
    ELSE IF Concerns(m) \cap loose = {} THEN "refused" ELSE "putBack"

-----------------------------------------------------------------------------
(* The daemon *)

\* Mutated form: the file is read when the daemon starts, and not again.
Receive_ReadAtStart(m) ==
    /\ proc[Daemon].phase = "none"
    /\ LET first == [i \in Items |-> IF i = "guild" THEN CHOOSE g \in GroupPolicies : TRUE
                                    ELSE IF i \in Allowed THEN TRUE ELSE Default[i]]
       IN  Goes(Daemon, [phase |-> "gating", next |-> first, means |-> {}, missed |-> {},
                         arg |-> m, due |-> Standing(m)])
    /\ UNCHANGED <<expired, approved, greeting, told, spent, paired, restarts>>

\* handle: the file is read and pruned.
Receive(m) ==
    /\ proc[Daemon].phase = "none"
    /\ Goes(Daemon, [phase |-> IF Outdated(file) = {} THEN "gating" ELSE "pruning",
                     next |-> Pruned(file), means |-> Outdated(file), missed |-> {}, arg |-> m,
                     due |-> Standing(m)])
    /\ UNCHANGED <<expired, approved, greeting, told, spent, paired, restarts>>

\* If there was something to prune the file is written.
PruneWritten ==
    LET d == proc[Daemon]
    IN  /\ d.phase = "pruning"
        /\ Write(Daemon, d.next, d.means, [d EXCEPT !.phase = "gating", !.means = {}])
        /\ UNCHANGED <<expired, approved, greeting, told, spent, paired, restarts>>

\* Mutated form: a second reply is not counted.
Gated_Uncounted ==
    LET d == proc[Daemon]
        m == d.arg
    IN  /\ d.phase = "gating"
        /\ \/ /\ ~ \E c \in Codes : Pairs(d.next, m, c)
              /\ Goes(Daemon, Idle)
              /\ told' = told
           \/ \E c \in Codes :
                 /\ Pairs(d.next, m, c)
                 /\ LET n == IF d.next[c] = None THEN 1 ELSE d.next[c].replies
                    IN  Write(Daemon, [d.next EXCEPT ![c] = [from |-> m.from, replies |-> n]],
                              {c}, Idle)
                 /\ told' = [told EXCEPT ![c] = @ + 1]
        /\ UNCHANGED <<expired, approved, greeting, spent, paired, restarts>>

\* The message is delivered or dropped, or a code's entry is written and sent.  An
\* answer to a permission prompt ends here too.
Gated ==
    LET d == proc[Daemon]
        m == d.arg
    IN  /\ d.phase = "gating"
        /\ \/ /\ ~ \E c \in Codes : Pairs(d.next, m, c)
              /\ Goes(Daemon, Idle)
              /\ told' = told
           \/ \E c \in Codes :
                 /\ Pairs(d.next, m, c)
                 /\ LET n == IF d.next[c] = None THEN 1 ELSE d.next[c].replies + 1
                    IN  Write(Daemon, [d.next EXCEPT ![c] = [from |-> m.from, replies |-> n]],
                              {c}, Idle)
                 /\ told' = [told EXCEPT ![c] = @ + 1]
        /\ UNCHANGED <<expired, approved, greeting, spent, paired, restarts>>

\* An hour has passed since the code was made.
Expire(c) ==
    /\ c \notin expired /\ \E a \in {file} \cup {proc[p].next : p \in DOMAIN proc} : a[c] # None
    /\ expired' = expired \cup {c}
    /\ UNCHANGED <<file, proc, approved, greeting, told, asked, loose, spent, paired, restarts>>

-----------------------------------------------------------------------------
(* Commands *)

\* A command has read the file and is about to write.
Reads(p, next, means, who) ==
    /\ proc[p].phase = "none"
    /\ Goes(p, [Idle EXCEPT !.phase = "writing", !.next = next, !.means = means, !.arg = who])
    /\ UNCHANGED <<expired, approved, greeting, told, spent, paired, restarts>>

\* Mutated form: the code stays pending.
CmdPair_KeepsCode(p, c) ==
    LET a == Pruned(file)
    IN  /\ a[c] # None
        /\ Reads(p, [a EXCEPT ![a[c].from] = TRUE], Outdated(file) \cup {a[c].from, c}, a[c].from)

\* Commands that find nothing to change end without a write.
CmdPair(p, c) ==
    LET a == Pruned(file)
    IN  /\ a[c] # None
        /\ Reads(p, [a EXCEPT ![a[c].from] = TRUE, ![c] = None],
                 Outdated(file) \cup {a[c].from, c}, a[c].from)

\* cmdDeny, which does not prune.
CmdDeny(p, c) == file[c] # None /\ Reads(p, [file EXCEPT ![c] = None], {c}, None)

CmdAllow(p, s) == ~file[s] /\ Reads(p, [file EXCEPT ![s] = TRUE], {s}, None)

CmdRemove(p, s) == file[s] /\ Reads(p, [file EXCEPT ![s] = FALSE], {s}, None)

CmdPolicy(p, mode) == Reads(p, [file EXCEPT !["dm"] = mode], {"dm"}, None)

CmdGroupAdd(p, ch, group) == Reads(p, [file EXCEPT ![ch] = group], {ch}, None)

CmdGroupRm(p, ch) == file[ch] # None /\ Reads(p, [file EXCEPT ![ch] = None], {ch}, None)

\* cmdSet: another setting, the rest is put back as read.
CmdSet(p) == Reads(p, file, {}, None)

\* The command writes; `pair` goes on to the sender's file.
CmdWrites(p) ==
    LET k == proc[p]
    IN  /\ k.phase = "writing"
        /\ Write(p, k.next, k.means,
                 IF k.arg = None THEN Over ELSE [Idle EXCEPT !.phase = "written", !.arg = k.arg])
        /\ spent' = spent \cup (k.means \cap Codes)
        /\ paired' = IF k.arg = None THEN paired ELSE paired \cup {k.arg}
        /\ UNCHANGED <<expired, approved, greeting, told, restarts>>

\* Mutated form: the sender's file is made before access.json is written.
ApprovalCreated_First(p) ==
    /\ proc[p].phase \in {"writing", "written"} /\ proc[p].arg # None
    /\ approved' = [approved EXCEPT ![proc[p].arg] = "empty"]
    /\ Goes(p, [proc[p] EXCEPT !.phase = "created"])
    /\ UNCHANGED <<expired, greeting, told, spent, paired, restarts>>

\* writeFileSync makes the file, or empties it ...
ApprovalCreated(p) ==
    /\ proc[p].phase = "written"
    /\ approved' = [approved EXCEPT ![proc[p].arg] = "empty"]
    /\ Goes(p, [proc[p] EXCEPT !.phase = "created"])
    /\ UNCHANGED <<expired, greeting, told, spent, paired, restarts>>

\* ... and writes to it, which is lost if it was removed in between.
ApprovalFilled(p) ==
    /\ proc[p].phase = "created"
    /\ approved' = [approved EXCEPT ![proc[p].arg] = IF @ = "no" THEN "no" ELSE "full"]
    /\ Goes(p, Over)
    /\ UNCHANGED <<expired, greeting, told, spent, paired, restarts>>

\* The command is interrupted; before its write that leaves no trace.
CliDies(p) ==
    /\ proc[p].phase \in {"written", "created"}
    /\ Goes(p, Over)
    /\ UNCHANGED <<expired, approved, greeting, told, spent, paired, restarts>>

-----------------------------------------------------------------------------
(* The approval watcher *)

\* tick comes to the file of s, every five seconds, even while the handler it
\* called before is at work.
Look(s) ==
    /\ \/ approved[s] = "empty" /\ approved' = [approved EXCEPT ![s] = "no"] /\ greeting' = greeting
       \/ /\ approved[s] = "full" /\ greeting[s] < MaxGreetings
          /\ greeting' = [greeting EXCEPT ![s] = @ + 1]
          /\ approved' = approved
    /\ UNCHANGED <<file, expired, proc, told, asked, loose, spent, paired, restarts>>

\* "Paired!" is sent, or was refused, and the file removed.
Greeted(s) ==
    /\ greeting[s] > 0
    /\ greeting' = [greeting EXCEPT ![s] = @ - 1]
    /\ approved' = [approved EXCEPT ![s] = "no"]
    /\ UNCHANGED <<file, expired, proc, told, asked, loose, spent, paired, restarts>>

\* Restarts of an idle daemon, which change nothing, are not counted.
DaemonRestarts ==
    /\ restarts < MaxRestarts
    /\ proc[Daemon].phase \in {"pruning", "gating"} \/ \E s \in Senders : greeting[s] > 0
    /\ restarts' = restarts + 1
    /\ Goes(Daemon, Idle)
    /\ greeting' = [s \in Senders |-> 0]
    /\ UNCHANGED <<expired, approved, told, spent, paired>>

-----------------------------------------------------------------------------
Command(p) ==
    \/ \E c \in Codes : CmdPair(p, c) \/ CmdDeny(p, c)
    \/ \E s \in Senders : CmdAllow(p, s) \/ CmdRemove(p, s)
    \/ \E mode \in Modes : CmdPolicy(p, mode)
    \/ \E ch \in Channels : CmdGroupRm(p, ch) \/ \E group \in Groups : CmdGroupAdd(p, ch, group)
    \/ CmdSet(p)

Next ==
    \/ \E m \in Message : Receive(m)
    \/ PruneWritten \/ Gated \/ DaemonRestarts
    \/ \E c \in Codes : Expire(c)
    \/ \E p \in Clis : Command(p) \/ CmdWrites(p) \/ CliDies(p)
    \/ \E p \in Clis : ApprovalCreated(p) \/ ApprovalFilled(p)
    \/ \E s \in Senders : Look(s) \/ Greeted(s)

Spec == Init /\ [][Next]_vars

-----------------------------------------------------------------------------
\* Every item of the file is as the last write that meant to change it left it,
\* whatever else was written since, unless that other process had read the file
\* before; and a code that was paired or denied is not pending again
\* (access-control.ts:10, access-mutate.ts:22-26, 67, 80).
AsAsked ==
    /\ \A i \in Items \ loose : file[i] = asked[i]
    /\ \A c \in spent \ loose : file[c] = None

\* At most MaxPending codes are pending and no sender has two, even where processes
\* overlap; a code is sent twice at most, but for one whose count a process put back:
\* that one is sent again (access-control.ts:8, 149-156).
PairingLimits ==
    /\ Cardinality(PendingIn(file)) <= MaxPending
    /\ \A c, d \in PendingIn(file) : file[c].from = file[d].from => c = d
    /\ \A c \in Codes \ loose : told[c] <= 2

\* A message is delivered only if the access, as asked for when it was received,
\* lets its sender in, the file being read for every message (inbound-router.ts:
\* 68-69) - or if a process that had read the file too early had put back an item
\* the answer depends on: a sender removed meanwhile is then let in.
\* And by the access that delivers it a reply may go back where it came from, "parity
\* with inbound" (tool-handlers.ts:274) - except to a channel that an open access
\* without defaults says nothing of: its mentions are delivered, replies to them
\* refused, "gated symmetrically" (README.md:342) or not.
DeliveredWasDue ==
    LET d == proc[Daemon]
        m == d.arg
    IN  (d.phase = "gating" /\ Admits(d.next, m)) =>
            /\ d.due \in {"letIn", "putBack"}
            /\ \/ MayAnswer(d.next, m)
               \/ m.chan # Dm /\ d.next[m.chan] = None /\ GroupDefaults = None

\* A sender is greeted only after the pairing was written (access-mutate.ts:68-72),
\* even if the command is interrupted.
GreetedWasPaired == \A s \in Senders : (greeting[s] > 0 \/ approved[s] # "no") => s \in paired
=============================================================================
