------------------------------ MODULE Routing ------------------------------
(***************************************************************************)
(* The routing table (src/daemon/routing.ts), in memory and as             *)
(* routing.json; the commands that bind channels to workspaces (/use with  *)
(* its confirmation button, /last, src/daemon/slash-commands.ts); and the  *)
(* indicator in each channel, a topic or in a DM a pinned message          *)
(* (src/daemon/workspace-indicator.ts).                                    *)
(*                                                                         *)
(* A command runs to its next await.  What it waits for is the work on an  *)
(* indicator: the clearing of one before its channel is unbound, or the    *)
(* setting of one after a bind.  The workspaces are those that are online; *)
(* commands for others are refused.  Pins that an old version left in      *)
(* guild channels, switched_at and /recent are left out.                   *)
(***************************************************************************)
EXTENDS Naturals, Sequences

CONSTANTS
    Channels,     \* Discord channels
    DMs,          \* those that are DMs
    Workspaces,   \* workspaces
    None,         \* no workspace
    Cmds,         \* bound: commands in a behaviour
    Boot,         \* the reconciliation at clientReady
    HistoryMax,   \* entries of a history, 10 in the code
    MaxTroubles,  \* bound: external edits and restarts
    Faults        \* what may go wrong, a subset of FaultKinds

FaultKinds ==
    {"edit",     \* routing.json is edited by hand
     "restart",  \* the daemon ends and is started again
     "refuse"}   \* Discord refuses the work on an indicator

ASSUME NamesAssumption == /\ DMs \subseteq Channels /\ Boot \notin Cmds
                          /\ None \notin Channels \cup Workspaces
ASSUME BoundsAssumption == HistoryMax \in Nat \ {0} /\ MaxTroubles \in Nat
ASSUME FaultsAssumption == Faults \subseteq FaultKinds

VARIABLES
    data,      \* RoutingTable.data
    file,      \* routing.json
    edit,      \* an external edit: none, unseen, or ignored by the watcher
    cmd,       \* per command: where it stands
    shown,     \* per channel: the workspace its indicator shows
    loose,     \* channels bound by /last, by an edit, or by a raced move
    muddled,   \* channels whose indicator was worked on twice at once, or not
    troubles   \* edits and restarts so far

vars == <<data, file, edit, cmd, shown, loose, muddled, troubles>>

Entry == [ws : Workspaces, history : Seq(Workspaces), pin : BOOLEAN]
Unbound == [ws |-> None, history |-> <<>>, pin |-> FALSE]

\* todo are the channels still to be cleared or reconciled, at is the one whose
\* indicator is worked on, pin whether it had a message when the work began.
Command ==
    [phase : {"none", "prompted", "clearing", "applying", "over"},
     to : Channels \cup {None}, ws : Workspaces \cup {None},
     todo : SUBSET Channels, at : Channels \cup {None}, pin : BOOLEAN, raced : BOOLEAN]

Idle == [phase |-> "none", to |-> None, ws |-> None, todo |-> {}, at |-> None,
         pin |-> FALSE, raced |-> FALSE]
Over == [Idle EXCEPT !.phase = "over"]

TypeOK ==
    /\ {data[c] : c \in Channels} \cup {file[c] : c \in Channels} \subseteq Entry \cup {Unbound}
    /\ \A c \in Channels : Len(data[c].history) <= HistoryMax
    /\ edit \in {"none", "unseen", "ignored"}
    /\ cmd \in [Cmds \cup {Boot} -> Command]
    /\ shown \in [Channels -> Workspaces \cup {None}]
    /\ loose \subseteq Channels /\ muddled \subseteq Channels
    /\ troubles \in 0 .. MaxTroubles

\* The table of an earlier day, its indicators in place.
Init ==
    /\ shown \in [Channels -> Workspaces \cup {None}]
    /\ \A c, d \in Channels : shown[c] = shown[d] => c = d \/ shown[c] = None
    /\ data = [c \in Channels |-> IF shown[c] = None THEN Unbound
                                  ELSE [ws |-> shown[c], history |-> <<>>, pin |-> c \in DMs]]
    /\ file = data
    /\ edit = "none"
    /\ cmd = [k \in Cmds \cup {Boot} |-> Idle]
    /\ loose = {}
    /\ muddled = {}
    /\ troubles = 0

-----------------------------------------------------------------------------
(* RoutingTable *)

IsBound(c) == data[c] # Unbound

ChannelsFor(w) == {c \in Channels : data[c].ws = w}

\* Mutated form: memory is changed and not written.
Persist_Unsaved(table) == data' = table /\ UNCHANGED <<file, edit>>

\* A write takes the whole table to the file, over an edit not yet loaded.
Persist(table) ==
    /\ data' = table
    /\ file' = table
    /\ edit' = "none"

Keep == UNCHANGED <<data, file, edit>>

\* filter: a history without the workspace w.
Others(history, w) ==
    LET kept[i \in 0 .. Len(history)] ==
            IF i = 0 THEN <<>>
            ELSE IF history[i] = w THEN kept[i - 1]
            ELSE Append(kept[i - 1], history[i])
    IN  kept[Len(history)]

\* Mutated form: the history is not cut.
AfterSet_Uncut(c, w) ==
    LET prev == data[c]
    IN  [ws |-> w, pin |-> prev.pin,
         history |-> IF prev = Unbound THEN <<>>
                     ELSE <<prev.ws>> \o Others(prev.history, prev.ws)]

\* set: the workspace that is left heads the history, and the pinned message is
\* taken over.
AfterSet(c, w) ==
    LET prev == data[c]
        all  == <<prev.ws>> \o Others(prev.history, prev.ws)
    IN  [ws |-> w, pin |-> prev.pin,
         history |-> IF prev = Unbound THEN <<>>
                     ELSE SubSeq(all, 1, IF Len(all) < HistoryMax THEN Len(all) ELSE HistoryMax)]

Changed == {c \in Channels : data[c] # file[c]}

\* Somebody edits routing.json: a channel is bound or unbound, or the file is
\* spoilt and reads as empty.  Within 200 ms of an own write the watcher takes
\* the edit for its echo.
ExternalEdit ==
    /\ "edit" \in Faults /\ troubles < MaxTroubles
    /\ troubles' = troubles + 1
    /\ \/ \E c \in Channels, w \in Workspaces :
             file' = [file EXCEPT ![c] = [ws |-> w, history |-> <<>>, pin |-> FALSE]]
       \/ \E c \in Channels : file' = [file EXCEPT ![c] = Unbound]
       \/ file' = [c \in Channels |-> Unbound]
    /\ edit' \in {"unseen", "ignored"}
    /\ UNCHANGED <<data, cmd, shown, loose, muddled>>

\* The watcher reloads the file.
Reload ==
    /\ edit = "unseen"
    /\ data' = file
    /\ edit' = "none"
    /\ loose' = loose \cup Changed
    /\ muddled' = muddled \cup Changed
    /\ cmd' = [k \in DOMAIN cmd |-> IF cmd[k].phase = "clearing"
                                    THEN [cmd[k] EXCEPT !.raced = TRUE] ELSE cmd[k]]
    /\ UNCHANGED <<file, shown, troubles>>

-----------------------------------------------------------------------------
(* Commands *)

\* Another command than k works on the indicator of c.
Working(c, k) == \E j \in DOMAIN cmd \ {k} : cmd[j].at = c

\* bindChannelToWorkspace up to its await, in a table from which a move has
\* taken the bindings of others.
Bind(k, c, w, careless, table, mud) ==
    /\ Persist([table EXCEPT ![c] = AfterSet(c, w)])
    /\ loose' = IF careless THEN loose \cup {c} ELSE loose \ {c}
    /\ muddled' = IF Working(c, k) THEN mud \cup {c} ELSE mud \ {c}
    /\ cmd' = [j \in DOMAIN cmd |->
                 IF j = k THEN [Idle EXCEPT !.phase = "applying", !.ws = w, !.at = c,
                                            !.pin = data[c].pin]
                 ELSE IF cmd[j].phase = "clearing" /\ cmd[j].ws = w
                      THEN [cmd[j] EXCEPT !.raced = TRUE] ELSE cmd[j]]

\* clearWorkspaceIndicator up to its await, for the next channel of a move.
StartClear(k, others, mud) ==
    \E c \in others :
        /\ cmd' = [cmd EXCEPT ![k].phase = "clearing", ![k].at = c, ![k].pin = data[c].pin,
                              ![k].todo = others \ {c}]
        /\ muddled' = IF Working(c, k) THEN mud \cup {c} ELSE mud

\* Mutated form: /use does not look at the other channels.
HandleUse_Unasked(k, c, w) ==
    /\ cmd[k].phase = "none"
    /\ Bind(k, c, w, FALSE, data, muddled)
    /\ UNCHANGED <<shown, troubles>>

\* /use: bind, or ask first if another channel has the workspace.
HandleUse(k, c, w) ==
    /\ cmd[k].phase = "none"
    /\ \/ /\ ChannelsFor(w) \subseteq {c}
          /\ Bind(k, c, w, FALSE, data, muddled)
       \/ /\ ~(ChannelsFor(w) \subseteq {c})
          /\ cmd' = [cmd EXCEPT ![k] = [Idle EXCEPT !.phase = "prompted", !.to = c, !.ws = w]]
          /\ Keep /\ UNCHANGED <<loose, muddled>>
    /\ UNCHANGED <<shown, troubles>>

\* The button "Move it here": the other channels are looked up again.
MoveClicked(k) ==
    /\ cmd[k].phase = "prompted"
    /\ LET others == ChannelsFor(cmd[k].ws) \ {cmd[k].to}
       IN  \/ others = {} /\ Bind(k, cmd[k].to, cmd[k].ws, FALSE, data, muddled)
           \/ StartClear(k, others, muddled) /\ Keep /\ loose' = loose
    /\ UNCHANGED <<shown, troubles>>

\* /last: bind the workspace before this one, without a look at other channels.
HandleLast(k, c) ==
    /\ cmd[k].phase = "none"
    /\ IsBound(c) /\ data[c].history # <<>>
    /\ Bind(k, c, data[c].history[1], TRUE, data, muddled)
    /\ UNCHANGED <<shown, troubles>>

\* Mutated form: the channel is unbound first, so the clearing finds no entry.
ClearDone_UnsetsFirst(k) ==
    /\ cmd[k].phase = "clearing"
    /\ LET c == cmd[k].at
           table == [data EXCEPT ![c] = Unbound]
       IN  /\ cmd[k].todo = {}
           /\ Bind(k, cmd[k].to, cmd[k].ws, cmd[k].raced, table,
                   IF Working(c, k) THEN muddled \cup {c} ELSE muddled)
    /\ UNCHANGED <<shown, troubles>>

\* The indicator of a channel is cleared, or Discord refused: the channel is
\* unbound, whatever it is bound to by now, and the move goes on.  Channels of
\* the list that are not bound any more are passed over.
ClearDone(k) ==
    /\ cmd[k].phase = "clearing"
    /\ LET c     == cmd[k].at
           rest  == {d \in cmd[k].todo : IsBound(d)}
           table == [data EXCEPT ![c] = Unbound]
       IN  \E refused \in IF "refuse" \in Faults THEN BOOLEAN ELSE {FALSE} :
             LET mud == IF refused \/ Working(c, k) THEN muddled \cup {c} ELSE muddled
             IN  /\ shown' = IF refused \/ (c \in DMs /\ ~cmd[k].pin) THEN shown
                             ELSE [shown EXCEPT ![c] = None]
                 /\ \/ /\ rest = {}
                       /\ Bind(k, cmd[k].to, cmd[k].ws, cmd[k].raced, table, mud)
                    \/ /\ StartClear(k, rest, mud)
                       /\ IF IsBound(c) THEN Persist(table) ELSE Keep
                       /\ loose' = loose
    /\ UNCHANGED troubles

\* The reconciliation goes to the next channel that is bound; a command is over.
NextApply(k, table) ==
    LET rest == {d \in cmd[k].todo : table[d] # Unbound}
    IN  \/ rest = {} /\ cmd' = [cmd EXCEPT ![k] = IF k = Boot THEN Idle ELSE Over]
        \/ \E d \in rest :
              cmd' = [cmd EXCEPT ![k].at = d, ![k].ws = table[d].ws, ![k].pin = table[d].pin,
                                 ![k].todo = rest \ {d}]

\* applyWorkspaceIndicator after its awaits: the channel shows the workspace it
\* was called for.  A DM's message is edited if it is known and there, otherwise
\* found or sent, and recorded with the entry, if that is still there.
ApplyDone(k) ==
    /\ cmd[k].phase = "applying"
    /\ NextApply(k, data)
    /\ LET c == cmd[k].at
       IN  \/ /\ shown' = [shown EXCEPT ![c] = cmd[k].ws]
              /\ IF c \notin DMs \/ (cmd[k].pin /\ shown[c] # None) \/ ~IsBound(c) \/ data[c].pin
                 THEN Keep ELSE Persist([data EXCEPT ![c].pin = TRUE])
              /\ muddled' = {d \in muddled : d # cmd'[k].at \/ Working(d, k)}
           \/ /\ "refuse" \in Faults
              /\ muddled' = {d \in muddled : d # cmd'[k].at \/ Working(d, k)} \cup {c}
              /\ Keep /\ shown' = shown
    /\ UNCHANGED <<loose, troubles>>

\* The daemon starts anew: the file is read, and at clientReady every bound
\* channel's indicator is set again.  A prompt keeps its button.
DaemonRestarts ==
    /\ "restart" \in Faults /\ troubles < MaxTroubles
    /\ troubles' = troubles + 1
    /\ data' = file
    /\ edit' = "none"
    /\ loose' = loose \cup Changed
    /\ LET bound  == {c \in Channels : file[c] # Unbound}
           halted == {cmd[k].at : k \in DOMAIN cmd} \ {None}
           left   == [k \in Cmds |-> IF cmd[k].phase \in {"clearing", "applying"} THEN Over
                                     ELSE cmd[k]]
       IN  \/ /\ bound = {}
              /\ cmd' = [k \in DOMAIN cmd |-> IF k = Boot THEN Idle ELSE left[k]]
              /\ muddled' = muddled \cup Changed \cup halted
           \/ \E c \in bound :
                 /\ cmd' = [k \in DOMAIN cmd |->
                              IF k = Boot
                              THEN [Idle EXCEPT !.phase = "applying", !.ws = file[c].ws, !.at = c,
                                                !.pin = file[c].pin, !.todo = bound \ {c}]
                              ELSE left[k]]
                 /\ muddled' = (muddled \cup Changed \cup halted) \ {c}
    /\ UNCHANGED <<file, shown>>

-----------------------------------------------------------------------------
Next ==
    \/ ExternalEdit \/ Reload \/ DaemonRestarts
    \/ \E k \in Cmds, c \in Channels : HandleLast(k, c) \/ \E w \in Workspaces : HandleUse(k, c, w)
    \/ \E k \in Cmds : MoveClicked(k) \/ ClearDone(k)
    \/ \E k \in Cmds \cup {Boot} : ApplyDone(k)

Spec == Init /\ [][Next]_vars

-----------------------------------------------------------------------------
\* Memory and file agree except for an external edit that was not loaded: a
\* restart loses no binding, whatever the commands are waiting for
\* (routing.ts:119-120, 147-148, 169-170).
MemoryIsFile == edit = "none" => data = file

\* Where a workspace has two channels, one of them was bound without the look of
\* /use at who holds the workspace: by /last, by an edit of the file, or at the
\* end of a move that had looked before its awaits, during which another command
\* bound the same workspace or an edit was loaded.  That other command may be a
\* move too: two moves of one workspace to two channels both clear its old
\* channel and then both bind, and it has two, against the strict 1:1 of
\* slash-commands.ts:289-291.  Without such an overlap /use and its button keep it.
OneToOne ==
    \A c, d \in Channels :
        (c # d /\ IsBound(c) /\ data[c].ws = data[d].ws) => {c, d} \cap loose # {}

\* An indicator that is not being worked on shows the channel's workspace, and a
\* DM's message is on record so that it can be removed, unless two commands met
\* on it, Discord refused, or the file was edited: unbinding clears it first,
\* a restart repairs it (workspace-indicator.ts:190-226).
IndicatorFollows ==
    \A c \in Channels \ muddled :
        (\A k \in DOMAIN cmd : cmd[k].at # c) =>
            /\ shown[c] = data[c].ws
            /\ c \in DMs => data[c].pin = IsBound(c)
=============================================================================
