--------------------------- MODULE RoutingProofs ---------------------------
(***************************************************************************)
(* Proofs about Routing, for every set of channels, workspaces, commands   *)
(* and faults and every length of history: memory and file agree, the      *)
(* binding of channels and workspaces is one to one but for the loose, the *)
(* types hold, and the indicators follow the table but for the muddled.    *)
(***************************************************************************)
EXTENDS Routing, SequenceTheorems, WellFoundedInduction, TLAPS

-----------------------------------------------------------------------------
(* The table *)

RowFields == {"ws", "history", "pin"}
CommandFields == {"phase", "to", "ws", "todo", "at", "pin", "raced"}

\* The table in memory and in the file have a row for each channel.
Tables ==
    /\ DOMAIN data = Channels /\ DOMAIN file = Channels
    /\ \A c \in Channels : DOMAIN data[c] = RowFields /\ DOMAIN file[c] = RowFields

\* A prompt and a move know a workspace and the channel to bind it to.
Commands ==
    /\ DOMAIN cmd = Cmds \cup {Boot}
    /\ \A k \in Cmds \cup {Boot} :
          /\ DOMAIN cmd[k] = CommandFields /\ cmd[k].raced \in BOOLEAN
          /\ cmd[k].phase \in {"prompted", "clearing"} =>
                cmd[k].ws \in Workspaces /\ cmd[k].to \in Channels
          /\ cmd[k].phase = "clearing" => cmd[k].at \in Channels /\ cmd[k].todo \subseteq Channels

\* What a history holds is known of no more than what /last took from it.
BoundToWorkspace ==
    \A c \in Channels : data[c] = Unbound \/ data[c].ws \in Workspaces \/ c \in loose

\* The list of a move is complete for as long as no other command has bound its
\* workspace: the channels that have it are the one it is moved to, the one it
\* clears, and those to be cleared.
MoveKnows ==
    \A k \in Cmds \cup {Boot} : cmd[k].phase = "clearing" /\ ~cmd[k].raced =>
        \A c \in Channels : data[c].ws = cmd[k].ws => c \in {cmd[k].to, cmd[k].at} \cup cmd[k].todo

\* The inductive invariant.  OneToOne alone is not inductive: the last step of a
\* move binds without a look at the table, on the word of MoveKnows.
IInv ==
    /\ Tables
    /\ Commands
    /\ BoundToWorkspace
    /\ MoveKnows
    /\ OneToOne
    /\ MemoryIsFile

LEMMA InitIInv == Init => IInv
<1> SUFFICES ASSUME Init PROVE IInv
  OBVIOUS
<1>1. \A c \in Channels : /\ data[c] = IF shown[c] = None THEN Unbound
                                       ELSE [ws |-> shown[c], history |-> <<>>, pin |-> c \in DMs]
                          /\ shown[c] \in Workspaces \cup {None}
  BY DEF Init
<1>w. \A c \in Channels : shown[c] # None => data[c].ws = shown[c]
  <2> SUFFICES ASSUME NEW c \in Channels, shown[c] # None PROVE data[c].ws = shown[c]
    OBVIOUS
  <2>1. data[c] = [ws |-> shown[c], history |-> <<>>, pin |-> c \in DMs]
    BY <1>1
  <2> QED
    BY <2>1
<1>u. \A c \in Channels : shown[c] = None => data[c] = Unbound
  BY <1>1
<1>2. Tables /\ MemoryIsFile
  BY <1>1 DEF Init, Tables, MemoryIsFile, Unbound, RowFields
<1>3. Commands /\ MoveKnows
  BY DEF Init, Commands, MoveKnows, Idle, CommandFields
<1>4. BoundToWorkspace
  BY <1>1, <1>w, <1>u DEF BoundToWorkspace
<1>5. OneToOne
  <2> SUFFICES ASSUME NEW c \in Channels, NEW d \in Channels, c # d, IsBound(c),
                      data[c].ws = data[d].ws
               PROVE  FALSE
    BY DEF OneToOne
  <2>1. shown[c] # None /\ data[c].ws = shown[c]
    BY <1>w, <1>u DEF IsBound
  <2>2. data[d].ws = shown[d]
    BY <1>w, <1>u DEF Unbound
  <2> QED
    BY <2>1, <2>2 DEF Init
<1> QED
  BY <1>2, <1>3, <1>4, <1>5 DEF IInv

\* An unbound channel has no workspace.
LEMMA UnboundRow == DOMAIN Unbound = RowFields /\ Unbound.ws = None /\ None \notin Workspaces
BY NamesAssumption DEF Unbound, RowFields

\* Where rows are only unbound, or changed in pin alone, no list becomes incomplete
\* and no workspace gets a second channel.
LEMMA Shrink ==
  ASSUME IInv, Tables', loose' = loose,
         \A c \in Channels : data'[c] = Unbound \/ data'[c] = data[c]
                             \/ (IsBound(c) /\ data'[c].ws = data[c].ws)
  PROVE  BoundToWorkspace' /\ OneToOne'
<1>1. BoundToWorkspace'
  BY DEF IInv, BoundToWorkspace, IsBound
<1>2. OneToOne'
  <2> SUFFICES ASSUME NEW c \in Channels, NEW d \in Channels, c # d, data'[c] # Unbound,
                      data'[c].ws = data'[d].ws, c \notin loose, d \notin loose
               PROVE  FALSE
    BY DEF OneToOne, IsBound
  <2>1. IsBound(c) /\ data'[c].ws = data[c].ws
    BY DEF IsBound
  <2>2. data[c].ws \in Workspaces
    BY <2>1 DEF IInv, BoundToWorkspace, IsBound
  <2>3. data'[d] # Unbound
    BY <2>1, <2>2, UnboundRow
  <2>4. data'[d].ws = data[d].ws
    BY <2>3
  <2> QED
    BY <2>1, <2>4 DEF IInv, OneToOne
<1> QED
  BY <1>1, <1>2

\* A bind keeps the invariant, if no other channel has the workspace or the
\* channel is counted as loose.
LEMMA BindIInv ==
  ASSUME IInv, NEW k \in Cmds \cup {Boot}, NEW c \in Channels, NEW w, NEW careless \in BOOLEAN,
         NEW table, NEW mud, Bind(k, c, w, careless, table, mud),
         DOMAIN table = Channels,
         \A d \in Channels : table[d] = data[d] \/ table[d] = Unbound,
         careless \/ (w \in Workspaces /\ \A d \in Channels \ {c} : table[d].ws # w)
  PROVE  IInv'
<1>1. /\ data' = [table EXCEPT ![c] = AfterSet(c, w)] /\ file' = data' /\ edit' = "none"
      /\ loose' = IF careless THEN loose \cup {c} ELSE loose \ {c}
      /\ cmd' = [j \in DOMAIN cmd |->
                  IF j = k THEN [Idle EXCEPT !.phase = "applying", !.ws = w, !.at = c,
                                             !.pin = data[c].pin]
                  ELSE IF cmd[j].phase = "clearing" /\ cmd[j].ws = w
                       THEN [cmd[j] EXCEPT !.raced = TRUE] ELSE cmd[j]]
  BY DEF Bind, Persist
<1>2. DOMAIN AfterSet(c, w) = RowFields /\ AfterSet(c, w).ws = w
  BY DEF AfterSet, RowFields
<1>3. /\ data'[c].ws = w
      /\ \A d \in Channels \ {c} : data'[d] = table[d]
  BY <1>1, <1>2
<1>4. Tables'
  BY <1>1, <1>2 DEF IInv, Tables, Unbound, RowFields
<1>5. Commands'
  BY <1>1 DEF IInv, Commands, Idle, CommandFields
<1>6. BoundToWorkspace'
  BY <1>1, <1>3 DEF IInv, BoundToWorkspace
<1>7. MoveKnows'
  <2> SUFFICES ASSUME NEW j \in Cmds \cup {Boot}, cmd'[j].phase = "clearing", ~cmd'[j].raced,
                      NEW d \in Channels, data'[d].ws = cmd'[j].ws
               PROVE  d \in {cmd'[j].to, cmd'[j].at} \cup cmd'[j].todo
    BY DEF MoveKnows
  <2>1. j # k
    BY <1>1 DEF IInv, Commands, Idle
  <2>2. cmd'[j] = cmd[j] /\ cmd[j].ws # w
    BY <1>1, <2>1 DEF IInv, Commands, CommandFields
  <2>3. d # c /\ cmd[j].ws \in Workspaces
    BY <1>3, <2>2 DEF IInv, Commands
  <2>4. table[d] = data[d]
    BY <1>3, <2>2, <2>3, NamesAssumption DEF Unbound
  <2> QED
    BY <1>3, <2>2, <2>3, <2>4 DEF IInv, MoveKnows
<1>8. OneToOne'
  <2> SUFFICES ASSUME NEW a \in Channels, NEW b \in Channels, a # b, data'[a] # Unbound,
                      data'[a].ws = data'[b].ws, a \notin loose', b \notin loose'
               PROVE  FALSE
    BY DEF OneToOne, IsBound
  <2>1. CASE careless
    <3>1. a # c /\ b # c /\ a \notin loose /\ b \notin loose
      BY <1>1, <2>1
    <3>2. data'[a] = data[a] /\ data[a] # Unbound
      BY <1>3, <3>1
    <3>3. data[a].ws \in Workspaces
      BY <3>1, <3>2 DEF IInv, BoundToWorkspace
    <3>4. data'[b] = data[b]
      BY <1>3, <3>1, <3>2, <3>3, NamesAssumption DEF Unbound
    <3> QED
      BY <3>1, <3>2, <3>4 DEF IInv, OneToOne, IsBound
  <2>2. CASE ~careless
    <3>1. a # c /\ b # c
      BY <1>3, <2>2
    <3>2. data'[a] = data[a] /\ data[a] # Unbound /\ a \notin loose /\ b \notin loose
      BY <1>1, <1>3, <2>2, <3>1
    <3>3. data[a].ws \in Workspaces
      BY <3>2 DEF IInv, BoundToWorkspace
    <3>4. data'[b] = data[b]
      BY <1>3, <3>1, <3>2, <3>3, NamesAssumption DEF Unbound
    <3> QED
      BY <3>1, <3>2, <3>4 DEF IInv, OneToOne, IsBound
  <2> QED
    BY <2>1, <2>2
<1>9. MemoryIsFile'
  BY <1>1 DEF MemoryIsFile
<1> QED
  BY <1>4, <1>5, <1>6, <1>7, <1>8, <1>9 DEF IInv

\* Every step keeps the inductive invariant.
LEMMA StepIInv == IInv /\ [Next]_vars => IInv'
<1> SUFFICES ASSUME IInv, [Next]_vars
             PROVE  IInv'
  OBVIOUS
<1>0. /\ DOMAIN data = Channels /\ DOMAIN file = Channels /\ DOMAIN cmd = Cmds \cup {Boot}
      /\ Cmds \subseteq Cmds \cup {Boot} /\ Boot \in Cmds \cup {Boot}
  BY DEF IInv, Tables, Commands
<1>1. CASE ExternalEdit
  <2>1. /\ DOMAIN file' = Channels /\ \A c \in Channels : DOMAIN file'[c] = RowFields
    <3>1. ASSUME NEW c \in Channels, NEW w \in Workspaces,
                 file' = [file EXCEPT ![c] = [ws |-> w, history |-> <<>>, pin |-> FALSE]]
          PROVE  DOMAIN file' = Channels /\ \A d \in Channels : DOMAIN file'[d] = RowFields
      BY <3>1 DEF IInv, Tables, RowFields
    <3>2. ASSUME NEW c \in Channels, file' = [file EXCEPT ![c] = Unbound]
          PROVE  DOMAIN file' = Channels /\ \A d \in Channels : DOMAIN file'[d] = RowFields
      BY <3>2, UnboundRow DEF IInv, Tables
    <3>3. CASE file' = [c \in Channels |-> Unbound]
      BY <3>3, UnboundRow
    <3> QED
      BY <1>1, <3>1, <3>2, <3>3 DEF ExternalEdit
  <2>2. edit' # "none" /\ UNCHANGED <<data, cmd, loose>>
    BY <1>1 DEF ExternalEdit
  <2> QED
    BY <2>1, <2>2 DEF IInv, Tables, Commands, BoundToWorkspace, MoveKnows, OneToOne, IsBound,
                      MemoryIsFile
<1>2. ASSUME data' = file, file' = file, loose' = loose \cup Changed
      PROVE  Tables' /\ BoundToWorkspace' /\ OneToOne' /\ MemoryIsFile'
  <2>1. Tables' /\ MemoryIsFile'
    BY <1>2 DEF IInv, Tables, MemoryIsFile
  <2>2. \A c \in Channels : c \notin loose' => c \notin loose /\ data'[c] = data[c]
    BY <1>2 DEF Changed
  <2>3. BoundToWorkspace'
    BY <2>2 DEF IInv, BoundToWorkspace
  <2>4. OneToOne'
    BY <2>2 DEF IInv, OneToOne, IsBound
  <2> QED
    BY <2>1, <2>3, <2>4
<1>3. CASE Reload
  <2>1. /\ data' = file /\ file' = file /\ loose' = loose \cup Changed
        /\ cmd' = [k \in DOMAIN cmd |-> IF cmd[k].phase = "clearing"
                                        THEN [cmd[k] EXCEPT !.raced = TRUE] ELSE cmd[k]]
    BY <1>3 DEF Reload
  <2>2. Commands' /\ MoveKnows'
    BY ZenonT(60), <2>1 DEF IInv, Commands, MoveKnows, CommandFields
  <2> QED
    BY <1>2, <2>1, <2>2 DEF IInv
<1>4. CASE DaemonRestarts
  <2>1. data' = file /\ file' = file /\ loose' = loose \cup Changed
    BY <1>4 DEF DaemonRestarts
  <2>2. /\ DOMAIN cmd' = Cmds \cup {Boot}
        /\ \A k \in Cmds : cmd'[k] = Over \/ (cmd'[k] = cmd[k] /\ cmd[k].phase # "clearing")
        /\ cmd'[Boot] = Idle
              \/ \E c \in Channels : \E t : cmd'[Boot] =
                    [Idle EXCEPT !.phase = "applying", !.ws = file[c].ws, !.at = c,
                                 !.pin = file[c].pin, !.todo = t]
    BY <1>0, <1>4, NamesAssumption DEF DaemonRestarts
  <2>3. \A k \in Cmds : /\ DOMAIN cmd'[k] = CommandFields /\ cmd'[k].raced \in BOOLEAN
                        /\ cmd'[k].phase # "clearing"
                        /\ cmd'[k].phase = "prompted" =>
                              cmd'[k].ws \in Workspaces /\ cmd'[k].to \in Channels
    <3>1. DOMAIN Over = CommandFields /\ Over.raced = FALSE /\ Over.phase = "over"
      BY DEF Over, Idle, CommandFields
    <3> QED
      BY <2>2, <3>1 DEF IInv, Commands
  <2>4. /\ DOMAIN cmd'[Boot] = CommandFields /\ cmd'[Boot].raced = FALSE
        /\ cmd'[Boot].phase \notin {"prompted", "clearing"}
    <3>1. CASE cmd'[Boot] = Idle
      BY <3>1 DEF Idle, CommandFields
    <3>2. ASSUME NEW c \in Channels, NEW t,
                 cmd'[Boot] = [Idle EXCEPT !.phase = "applying", !.ws = file[c].ws, !.at = c,
                                           !.pin = file[c].pin, !.todo = t]
          PROVE  /\ DOMAIN cmd'[Boot] = CommandFields /\ cmd'[Boot].raced = FALSE
                 /\ cmd'[Boot].phase \notin {"prompted", "clearing"}
      BY <3>2 DEF Idle, CommandFields
    <3> QED
      BY <2>2, <3>1, <3>2
  <2>5. Commands' /\ MoveKnows'
    BY <2>2, <2>3, <2>4 DEF Commands, MoveKnows
  <2> QED
    BY <1>2, <2>1, <2>5 DEF IInv
<1>5. ASSUME NEW k \in Cmds, NEW c \in Channels, HandleLast(k, c)
      PROVE  IInv'
  <2>1. Bind(k, c, data[c].history[1], TRUE, data, muddled)
    BY <1>5 DEF HandleLast
  <2> QED
    BY <1>0, <2>1, BindIInv
<1>6. ASSUME NEW k \in Cmds, NEW c \in Channels, NEW w \in Workspaces, HandleUse(k, c, w)
      PROVE  IInv'
  <2>1. CASE ChannelsFor(w) \subseteq {c} /\ Bind(k, c, w, FALSE, data, muddled)
    <3>1. \A d \in Channels \ {c} : data[d].ws # w
      BY <2>1 DEF ChannelsFor
    <3> QED
      BY <1>0, <2>1, <3>1, BindIInv
  <2>2. CASE /\ cmd' = [cmd EXCEPT ![k] = [Idle EXCEPT !.phase = "prompted", !.to = c, !.ws = w]]
             /\ Keep /\ UNCHANGED <<loose, muddled>>
    BY <2>2 DEF IInv, Keep, Tables, Commands, BoundToWorkspace, MoveKnows, OneToOne, IsBound,
                MemoryIsFile, Idle, CommandFields
  <2> QED
    BY <1>6, <2>1, <2>2 DEF HandleUse
<1>7. ASSUME NEW k \in Cmds, MoveClicked(k)
      PROVE  IInv'
  <2> DEFINE others == ChannelsFor(cmd[k].ws) \ {cmd[k].to}
  <2>1. cmd[k].ws \in Workspaces /\ cmd[k].to \in Channels /\ DOMAIN cmd[k] = CommandFields
    BY <1>7 DEF IInv, Commands, MoveClicked
  <2>2. CASE others = {} /\ Bind(k, cmd[k].to, cmd[k].ws, FALSE, data, muddled)
    <3>1. \A d \in Channels \ {cmd[k].to} : data[d].ws # cmd[k].ws
      BY <2>2 DEF ChannelsFor
    <3> QED
      BY <1>0, <2>1, <2>2, <3>1, BindIInv
  <2>3. CASE StartClear(k, others, muddled) /\ Keep /\ loose' = loose
    <3>1. PICK c \in others :
             cmd' = [cmd EXCEPT ![k].phase = "clearing", ![k].at = c, ![k].pin = data[c].pin,
                                ![k].todo = others \ {c}]
      BY <2>3 DEF StartClear
    <3>2. /\ DOMAIN cmd' = Cmds \cup {Boot} /\ \A j \in Cmds \cup {Boot} : j # k => cmd'[j] = cmd[j]
          /\ DOMAIN cmd'[k] = CommandFields /\ cmd'[k].ws = cmd[k].ws /\ cmd'[k].to = cmd[k].to
          /\ cmd'[k].at = c /\ cmd'[k].todo = others \ {c} /\ cmd'[k].raced = cmd[k].raced
      BY <1>0, <2>1, <3>1 DEF CommandFields
    <3>3. others \subseteq Channels
      BY DEF ChannelsFor
    <3>4. Commands'
      BY <2>1, <3>2, <3>3 DEF IInv, Commands
    <3>5. MoveKnows'
      BY <2>3, <3>2 DEF IInv, Commands, MoveKnows, Keep, ChannelsFor
    <3> QED
      BY <2>3, <3>4, <3>5 DEF IInv, Keep, Tables, BoundToWorkspace, OneToOne, IsBound, MemoryIsFile
  <2> QED
    BY <1>7, <2>2, <2>3 DEF MoveClicked
<1>8. ASSUME NEW k \in Cmds, ClearDone(k)
      PROVE  IInv'
  <2> DEFINE c     == cmd[k].at
             to    == cmd[k].to
             w     == cmd[k].ws
             rest  == {d \in cmd[k].todo : IsBound(d)}
             table == [data EXCEPT ![c] = Unbound]
  <2>1. /\ w \in Workspaces /\ to \in Channels /\ c \in Channels /\ cmd[k].todo \subseteq Channels
        /\ DOMAIN cmd[k] = CommandFields /\ cmd[k].raced \in BOOLEAN /\ cmd[k].phase = "clearing"
    BY <1>8 DEF IInv, Commands, ClearDone
  <2>2. /\ DOMAIN table = Channels /\ table[c] = Unbound
        /\ \A d \in Channels : table[d] = data[d] \/ table[d] = Unbound
    BY <1>0, <2>1
  <2>3. PICK mud : \/ rest = {} /\ Bind(k, to, w, cmd[k].raced, table, mud)
                   \/ /\ StartClear(k, rest, mud)
                      /\ IF IsBound(c) THEN Persist(table) ELSE Keep
                      /\ loose' = loose
    BY <1>8 DEF ClearDone
  <2>4. CASE rest = {} /\ Bind(k, to, w, cmd[k].raced, table, mud)
    <3>1. ASSUME ~cmd[k].raced, NEW d \in Channels \ {to}, table[d].ws = w
          PROVE  FALSE
      <4>1. d # c /\ table[d] = data[d]
        BY <2>1, <2>2, <3>1, UnboundRow
      <4>2. IsBound(d)
        BY <2>1, <3>1, <4>1, UnboundRow DEF IsBound
      <4>3. d \in cmd[k].todo
        BY <2>1, <3>1, <4>1 DEF IInv, MoveKnows
      <4> QED
        BY <2>4, <4>2, <4>3
    <3> HIDE DEF table, c, to, w
    <3> QED
      BY <2>1, <2>2, <2>4, <3>1, BindIInv
  <2>5. CASE /\ StartClear(k, rest, mud)
             /\ IF IsBound(c) THEN Persist(table) ELSE Keep
             /\ loose' = loose
    <3>1. PICK e \in rest :
             cmd' = [cmd EXCEPT ![k].phase = "clearing", ![k].at = e, ![k].pin = data[e].pin,
                                ![k].todo = rest \ {e}]
      BY <2>5 DEF StartClear
    <3>2. /\ DOMAIN cmd' = Cmds \cup {Boot} /\ \A j \in Cmds \cup {Boot} : j # k => cmd'[j] = cmd[j]
          /\ DOMAIN cmd'[k] = CommandFields /\ cmd'[k].ws = cmd[k].ws /\ cmd'[k].to = cmd[k].to
          /\ cmd'[k].at = e /\ cmd'[k].todo = rest \ {e} /\ cmd'[k].raced = cmd[k].raced
      BY <1>0, <2>1, <3>1 DEF CommandFields
    <3>3. /\ DOMAIN data' = Channels /\ data'[c] = Unbound
          /\ \A d \in Channels : data'[d] = Unbound \/ data'[d] = data[d]
      BY <1>0, <2>2, <2>5 DEF Persist, Keep, IsBound
    <3>4. Tables'
      BY <2>5, <3>3, UnboundRow DEF IInv, Tables, Persist, Keep
    <3>5. BoundToWorkspace' /\ OneToOne'
      BY <2>5, <3>3, <3>4, Shrink
    <3>6. MemoryIsFile'
      BY <2>5 DEF IInv, MemoryIsFile, Persist, Keep
    <3>7. Commands'
      BY <2>1, <3>2 DEF IInv, Commands
    <3>8. MoveKnows'
      <4> SUFFICES ASSUME NEW j \in Cmds \cup {Boot}, cmd'[j].phase = "clearing", ~cmd'[j].raced,
                          NEW d \in Channels, data'[d].ws = cmd'[j].ws
                   PROVE  d \in {cmd'[j].to, cmd'[j].at} \cup cmd'[j].todo
        BY DEF MoveKnows
      <4>1. cmd'[j].ws \in Workspaces
        BY <3>7 DEF Commands
      <4>2. data'[d] = data[d] /\ d # c /\ IsBound(d)
        BY <3>3, <4>1, UnboundRow DEF IsBound
      <4>3. CASE j = k
        BY <2>1, <3>2, <4>2, <4>3 DEF IInv, MoveKnows
      <4>4. CASE j # k
        BY <3>2, <4>2, <4>4 DEF IInv, MoveKnows
      <4> QED
        BY <4>3, <4>4
    <3> QED
      BY <3>4, <3>5, <3>6, <3>7, <3>8 DEF IInv
  <2> QED
    BY <2>3, <2>4, <2>5
<1>9. ASSUME NEW k \in Cmds \cup {Boot}, ApplyDone(k)
      PROVE  IInv'
  <2> DEFINE c == cmd[k].at
  <2>1. /\ DOMAIN cmd[k] = CommandFields /\ cmd[k].raced \in BOOLEAN /\ cmd[k].phase = "applying"
        /\ NextApply(k, data) /\ loose' = loose
        /\ Keep \/ (IsBound(c) /\ Persist([data EXCEPT ![c].pin = TRUE]))
    BY <1>9 DEF IInv, Commands, ApplyDone
  <2>2. /\ DOMAIN cmd' = Cmds \cup {Boot}
        /\ \A j \in Cmds \cup {Boot} : j # k => cmd'[j] = cmd[j]
        /\ DOMAIN cmd'[k] = CommandFields /\ cmd'[k].raced \in BOOLEAN
        /\ cmd'[k].phase \notin {"prompted", "clearing"}
    <3>0. \/ cmd' = [cmd EXCEPT ![k] = IF k = Boot THEN Idle ELSE Over]
          \/ \E d, t : cmd' = [cmd EXCEPT ![k].at = d, ![k].ws = data[d].ws, ![k].pin = data[d].pin,
                                          ![k].todo = t]
      BY <2>1 DEF NextApply
    <3>1. CASE cmd' = [cmd EXCEPT ![k] = IF k = Boot THEN Idle ELSE Over]
      BY <1>0, <3>1 DEF Idle, Over, CommandFields
    <3>2. ASSUME NEW d, NEW t,
                 cmd' = [cmd EXCEPT ![k].at = d, ![k].ws = data[d].ws, ![k].pin = data[d].pin,
                                    ![k].todo = t]
          PROVE  /\ DOMAIN cmd' = Cmds \cup {Boot}
                 /\ \A j \in Cmds \cup {Boot} : j # k => cmd'[j] = cmd[j]
                 /\ DOMAIN cmd'[k] = CommandFields /\ cmd'[k].raced \in BOOLEAN
                 /\ cmd'[k].phase \notin {"prompted", "clearing"}
      BY <1>0, <2>1, <3>2 DEF CommandFields
    <3> QED
      BY <3>0, <3>1, <3>2
  <2>3. Commands'
    BY <2>2 DEF IInv, Commands
  <2>4. CASE Keep
    BY <2>1, <2>2, <2>3, <2>4 DEF IInv, Keep, Tables, BoundToWorkspace, MoveKnows, OneToOne,
                                  IsBound, MemoryIsFile
  <2>5. CASE IsBound(c) /\ Persist([data EXCEPT ![c].pin = TRUE])
    <3>1. /\ DOMAIN data' = Channels /\ file' = data'
          /\ \A d \in Channels : /\ DOMAIN data'[d] = RowFields /\ data'[d].ws = data[d].ws
                                 /\ data'[d] = data[d] \/ IsBound(d)
      BY <1>0, <2>5 DEF IInv, Tables, RowFields, Persist
    <3>2. Tables' /\ MemoryIsFile'
      BY <3>1 DEF Tables, MemoryIsFile
    <3>3. BoundToWorkspace' /\ OneToOne'
      BY <2>1, <3>1, <3>2, Shrink
    <3>4. MoveKnows'
      BY <2>2, <3>1 DEF IInv, MoveKnows
    <3> QED
      BY <2>3, <3>2, <3>3, <3>4 DEF IInv
  <2> QED
    BY <2>1, <2>4, <2>5
<1>10. CASE UNCHANGED vars
  BY <1>10 DEF vars, IInv, Tables, Commands, BoundToWorkspace, MoveKnows, OneToOne, IsBound,
               MemoryIsFile
<1> QED
  BY <1>1, <1>3, <1>4, <1>5, <1>6, <1>7, <1>8, <1>9, <1>10 DEF Next

LEMMA Invariance == Spec => []IInv
<1> QED
  BY InitIInv, StepIInv, PTL DEF Spec

\* Memory and file agree unless the file was edited from outside: no wait of a
\* command leaves a binding unsaved (RoutingTable.persist).
THEOREM NothingUnsaved == Spec => []MemoryIsFile
<1>1. IInv => MemoryIsFile
  BY DEF IInv
<1> QED
  BY <1>1, Invariance, PTL

\* Of two channels of one workspace one was bound by /last, by an edit, or by a
\* move during whose awaits an edit was loaded or another command bound that
\* workspace; that command may itself be a move (handleUse, handleUseMoveButton, handleLast).
THEOREM TwoChannelsAreLoose == Spec => []OneToOne
<1>1. IInv => OneToOne
  BY DEF IInv
<1> QED
  BY <1>1, Invariance, PTL

-----------------------------------------------------------------------------
(* Types *)

\* A set of numbers has a first one.
LEMMA FirstOfSet ==
  ASSUME NEW S, S \subseteq Nat, S # {}
  PROVE  \E k \in S : \A j \in S : k =< j
<1>1. PICK k \in S : \A j \in S : ~(<<j, k>> \in OpToRel(<, Nat))
  BY NatLessThanWellFounded, WFMin
<1>2. \A j \in S : ~(j < k)
  BY <1>1 DEF OpToRel
<1> QED
  BY <1>2

\* The filter of a history keeps what is in it.
LEMMA OthersAreKept ==
  ASSUME NEW S, NEW h \in Seq(S), NEW w
  PROVE  Others(h, w) \in Seq(S)
<1> DEFINE L == Len(h)
           Body(f, i) == IF i = 0 THEN <<>>
                         ELSE IF h[i] = w THEN f[i - 1] ELSE Append(f[i - 1], h[i])
           Has(n) == \E f : f = [i \in 0 .. n |-> Body(f, i)]
           Bad == {n \in 0 .. L : ~Has(n)}
<1>1. L \in Nat /\ \A i \in 1 .. L : h[i] \in S
  BY LenProperties, ElementOfSeq
<1>2. \A f, g, i : (i = 0 \/ f[i - 1] = g[i - 1]) => Body(f, i) = Body(g, i)
  OBVIOUS
<1>3. \A f : Body(f, 0) = <<>>
  OBVIOUS
<1>4. \A f, i : /\ i # 0 /\ i \in 1 .. L /\ f[i - 1] \in Seq(S)
                => Body(f, i) \in Seq(S)
  <2> SUFFICES ASSUME NEW f, NEW i \in 1 .. L, f[i - 1] \in Seq(S)
               PROVE  Body(f, i) \in Seq(S)
    OBVIOUS
  <2>1. Append(f[i - 1], h[i]) \in Seq(S)
    BY <1>1, AppendProperties
  <2>2. i # 0
    BY <1>1
  <2> QED
    BY <2>1, <2>2
<1> HIDE DEF L, Body
<1>5. Has(0)
  <2> DEFINE g == <<>>
             f == [i \in 0 .. 0 |-> Body(g, i)]
  <2>1. \A i \in 0 .. 0 : Body(g, i) = Body(f, i)
    <3>1. \A i \in 0 .. 0 : i = 0
      OBVIOUS
    <3> HIDE DEF f, g
    <3> QED
      BY <1>2, <3>1
  <2>2. f = [i \in 0 .. 0 |-> Body(f, i)]
    BY <2>1
  <2> QED
    BY <2>2
<1>6. ASSUME NEW n \in 1 .. L, Has(n - 1)
      PROVE  Has(n)
  <2>1. PICK f : f = [i \in 0 .. n - 1 |-> Body(f, i)]
    BY <1>6
  <2> DEFINE g == [i \in 0 .. n |-> IF i = n THEN Body(f, i) ELSE f[i]]
  <2>2. \A i \in 0 .. n - 1 : g[i] = f[i]
    BY <1>1
  <2>3. \A i \in 0 .. n : i = 0 \/ i - 1 \in 0 .. n - 1
    BY <1>1
  <2>4. \A i \in 0 .. n : Body(f, i) = Body(g, i)
    <3> HIDE DEF g
    <3> QED
      BY <1>2, <2>2, <2>3
  <2>5. ASSUME NEW i \in 0 .. n PROVE g[i] = Body(g, i)
    <3>1. CASE i = n
      BY <2>4, <3>1
    <3>2. CASE i # n
      <4>1. i \in 0 .. n - 1
        BY <1>1, <3>2
      <4>2. f[i] = Body(f, i)
        BY <2>1, <4>1
      <4> QED
        BY <2>2, <2>4, <4>1, <4>2
    <3> QED
      BY <3>1, <3>2
  <2>6. g = [i \in 0 .. n |-> g[i]]
    OBVIOUS
  <2> HIDE DEF g
  <2>7. g = [i \in 0 .. n |-> Body(g, i)]
    BY <2>5, <2>6
  <2> QED
    BY <2>7
<1> HIDE DEF Has
<1>7. Bad = {}
  <2> SUFFICES ASSUME Bad # {} PROVE FALSE
    OBVIOUS
  <2>1. Bad \subseteq Nat
    BY <1>1
  <2>2. PICK n \in Bad : \A m \in Bad : n =< m
    <3> HIDE DEF Bad
    <3> QED
      BY <2>1, FirstOfSet
  <2>3. n \in 1 .. L /\ n - 1 \in 0 .. L /\ ~(n =< n - 1)
    BY <1>1, <1>5
  <2> QED
    BY <1>6, <2>2, <2>3
<1>8. Has(L)
  BY <1>1, <1>7
<1> DEFINE Is(f) == f = [i \in 0 .. L |-> Body(f, i)]
           kept == CHOOSE f : Is(f)
<1>9. Is(kept)
  BY <1>8 DEF Has
<1>10. Others(h, w) = kept[L]
  BY DEF Others, Body, L
<1> HIDE DEF kept
<1> DEFINE Off == {n \in 0 .. L : kept[n] \notin Seq(S)}
<1>11. Off = {}
  <2> SUFFICES ASSUME Off # {} PROVE FALSE
    OBVIOUS
  <2>1. Off \subseteq Nat
    BY <1>1
  <2>2. PICK n \in Off : \A m \in Off : n =< m
    <3> HIDE DEF Off
    <3> QED
      BY <2>1, FirstOfSet
  <2>3. kept[n] = Body(kept, n)
    BY <1>9
  <2>4. CASE n = 0
    <3>1. Body(kept, n) = <<>>
      BY <1>3, <2>4
    <3>2. <<>> \in Seq(S)
      OBVIOUS
    <3> QED
      BY <2>3, <3>1, <3>2
  <2>5. CASE n # 0
    <3>1. n \in 1 .. L /\ n - 1 \in 0 .. L /\ ~(n =< n - 1)
      BY <1>1, <2>5
    <3>2. kept[n - 1] \in Seq(S)
      BY <2>2, <3>1
    <3> QED
      BY <1>4, <2>3, <3>1, <3>2
  <2> QED
    BY <2>4, <2>5
<1> QED
  BY <1>1, <1>10, <1>11
\* A row of the table: its history is within the bound.
Rows == {r \in Entry \cup {Unbound} : Len(r.history) <= HistoryMax}

\* Whether a row has a pinned message.
Pins == BOOLEAN

LEMMA RowFacts ==
  ASSUME NEW r \in Rows
  PROVE  /\ r \in Entry \cup {Unbound} /\ Len(r.history) <= HistoryMax
         /\ r.ws \in Workspaces \cup {None} /\ r.pin \in Pins /\ r.history \in Seq(Workspaces)
         /\ r # Unbound => r.ws \in Workspaces /\ r \in Entry
         /\ r # Unbound <=> r.ws # None
<1>1. CASE r = Unbound
  BY <1>1 DEF Rows, Unbound, Pins
<1>2. CASE r # Unbound
  BY <1>2, NamesAssumption DEF Rows, Entry, Pins
<1> QED
  BY <1>1, <1>2

LEMMA UnboundIsRow == Unbound \in Rows /\ Unbound.ws = None /\ Unbound.pin = FALSE
<1>1. Unbound.history = <<>> /\ Len(<<>>) = 0
  BY DEF Unbound
<1> QED
  BY <1>1, BoundsAssumption DEF Rows, Unbound

\* A new entry has an empty history.
LEMMA NewRow ==
  ASSUME NEW w \in Workspaces, NEW p \in BOOLEAN
  PROVE  [ws |-> w, history |-> <<>>, pin |-> p] \in Rows
<1> DEFINE r == [ws |-> w, history |-> <<>>, pin |-> p]
<1>1. r.history = <<>> /\ Len(<<>>) = 0 /\ r \in Entry
  BY DEF Entry
<1> QED
  BY <1>1, BoundsAssumption DEF Rows

\* set keeps a row a row.
LEMMA SetIsRow ==
  ASSUME NEW c, data[c] \in Rows, NEW w \in Workspaces
  PROVE  /\ AfterSet(c, w) \in Rows /\ AfterSet(c, w) # Unbound
         /\ AfterSet(c, w).ws = w /\ AfterSet(c, w).pin = data[c].pin
<1> DEFINE prev == data[c]
           all  == <<prev.ws>> \o Others(prev.history, prev.ws)
           cut  == SubSeq(all, 1, IF Len(all) < HistoryMax THEN Len(all) ELSE HistoryMax)
           h    == IF prev = Unbound THEN <<>> ELSE cut
<1>1. AfterSet(c, w) = [ws |-> w, pin |-> prev.pin, history |-> h]
  BY DEF AfterSet
<1>2. h \in Seq(Workspaces) /\ Len(h) <= HistoryMax
  <2>1. CASE prev = Unbound
    <3>1. <<>> \in Seq(Workspaces) /\ Len(<<>>) = 0
      OBVIOUS
    <3> QED
      BY <2>1, <3>1, BoundsAssumption
  <2>2. CASE prev # Unbound
    <3>1. prev.ws \in Workspaces /\ prev.history \in Seq(Workspaces)
      BY <2>2, RowFacts
    <3>2. Others(prev.history, prev.ws) \in Seq(Workspaces)
      BY <3>1, OthersAreKept
    <3>3. all \in Seq(Workspaces) /\ Len(all) \in Nat
      BY <3>1, <3>2, ConcatProperties, LenProperties
    <3> DEFINE m == IF Len(all) < HistoryMax THEN Len(all) ELSE HistoryMax
    <3> HIDE DEF all
    <3>4. m \in Nat /\ m <= Len(all) /\ m <= HistoryMax
      BY <3>3, BoundsAssumption
    <3>5. \A i \in 1 .. m : all[i] \in Workspaces
      BY <3>3, <3>4, ElementOfSeq
    <3> HIDE DEF m
    <3>6. /\ SubSeq(all, 1, m) \in Seq(Workspaces)
          /\ Len(SubSeq(all, 1, m)) = IF 1 <= m THEN m - 1 + 1 ELSE 0
      BY <3>4, <3>5, SubSeqProperties
    <3>7. Len(SubSeq(all, 1, m)) <= HistoryMax
      BY <3>4, <3>6, BoundsAssumption
    <3> QED
      BY <2>2, <3>6, <3>7 DEF m
  <2> QED
    BY <2>1, <2>2
<1> HIDE DEF h
<1>3. prev.pin \in BOOLEAN
  BY RowFacts DEF Pins
<1>4. AfterSet(c, w) \in Entry /\ AfterSet(c, w).history = h
  BY <1>1, <1>2, <1>3 DEF Entry
<1>5. AfterSet(c, w).ws = w /\ w # None
  BY <1>1, NamesAssumption
<1> QED
  BY <1>1, <1>2, <1>4, <1>5 DEF Rows, Unbound
\* A command where it may stand: one that works on an indicator has a workspace,
\* and a move does not clear the channel it goes to, nor one twice.
Standing ==
    {r \in Command :
        /\ r.at # None <=> r.phase \in {"clearing", "applying"}
        /\ r.phase \in {"prompted", "clearing"} => r.to \in Channels
        /\ r.phase \in {"prompted", "clearing", "applying"} => r.ws \in Workspaces
        /\ r.phase = "clearing" => r.at # r.to /\ {r.at, r.to} \cap r.todo = {}}

LEMMA StandingStill ==
  /\ Idle \in Standing /\ Over \in Standing
  /\ Idle.phase = "none" /\ Over.phase = "over" /\ Idle.at = None /\ Over.at = None
<1>1. Over = [Idle EXCEPT !.phase = "over"]
  BY DEF Over
<1> QED
  BY <1>1 DEF Idle, Standing, Command

\* What a command becomes: a prompt, the setting of an indicator, that of the
\* reconciliation, the clearing of one, and the setting of the next.
Prompt(c, w) == [Idle EXCEPT !.phase = "prompted", !.to = c, !.ws = w]
Setting(c, w, p) == [Idle EXCEPT !.phase = "applying", !.ws = w, !.at = c, !.pin = p]
Reconciling(c, w, p, T) ==
    [Idle EXCEPT !.phase = "applying", !.ws = w, !.at = c, !.pin = p, !.todo = T]
Raced(r) == [r EXCEPT !.raced = TRUE]
Clearing(r, c, p, T) == [r EXCEPT !.phase = "clearing", !.at = c, !.pin = p, !.todo = T]
SettingNext(r, d, w, p, T) == [r EXCEPT !.at = d, !.ws = w, !.pin = p, !.todo = T]

LEMMA PromptStands ==
  ASSUME NEW c \in Channels, NEW w \in Workspaces
  PROVE  Prompt(c, w) \in Standing /\ Prompt(c, w).at = None
BY NamesAssumption DEF Prompt, Idle, Standing, Command

LEMMA SettingStands ==
  ASSUME NEW c \in Channels, NEW w \in Workspaces, NEW p \in Pins
  PROVE  /\ Setting(c, w, p) \in Standing /\ Setting(c, w, p).phase = "applying"
         /\ Setting(c, w, p).at = c /\ Setting(c, w, p).ws = w /\ Setting(c, w, p).pin = p
BY NamesAssumption DEF Setting, Idle, Standing, Command, Pins

LEMMA ReconcilingStands ==
  ASSUME NEW c \in Channels, NEW w \in Workspaces, NEW p \in Pins, NEW T \in SUBSET Channels
  PROVE  LET r == Reconciling(c, w, p, T)
         IN  r \in Standing /\ r.phase = "applying" /\ r.at = c /\ r.ws = w /\ r.pin = p
BY NamesAssumption DEF Reconciling, Idle, Standing, Command, Pins

LEMMA RacedStands ==
  ASSUME NEW r \in Standing
  PROVE  /\ Raced(r) \in Standing /\ Raced(r).phase = r.phase /\ Raced(r).at = r.at
         /\ Raced(r).ws = r.ws /\ Raced(r).pin = r.pin
BY DEF Raced, Standing, Command

LEMMA ClearingStands ==
  ASSUME NEW r \in Standing, r.phase \in {"prompted", "clearing"}, NEW c \in Channels \ {r.to},
         NEW p \in Pins, NEW T \in SUBSET (Channels \ {c, r.to})
  PROVE  LET s == Clearing(r, c, p, T)
         IN  s \in Standing /\ s.phase = "clearing" /\ s.at = c /\ s.ws = r.ws /\ s.pin = p
<1> DEFINE s == Clearing(r, c, p, T)
<1>1. /\ r \in Command /\ r.to \in Channels /\ r.ws \in Workspaces /\ c # None
      /\ c \in Channels /\ c # r.to
  BY NamesAssumption DEF Standing
<1>2. /\ s.phase = "clearing" /\ s.at = c /\ s.ws = r.ws /\ s.pin = p /\ s.todo = T
      /\ s.to = r.to /\ s \in Command
  BY <1>1 DEF Command, Pins, Clearing
<1>3. {c, r.to} \cap T = {}
  OBVIOUS
<1> HIDE DEF s
<1>4. s \in Standing
  BY <1>1, <1>2, <1>3 DEF Standing
<1> QED
  BY <1>2, <1>4 DEF s

LEMMA SettingNextStands ==
  ASSUME NEW r \in Standing, r.phase = "applying", NEW d \in Channels, NEW w \in Workspaces,
         NEW p \in Pins, NEW T \in SUBSET Channels
  PROVE  LET s == SettingNext(r, d, w, p, T)
         IN  s \in Standing /\ s.phase = "applying" /\ s.at = d /\ s.ws = w /\ s.pin = p
<1> DEFINE s == SettingNext(r, d, w, p, T)
<1>1. r \in Command /\ d # None
  BY NamesAssumption DEF Standing
<1>2. /\ s.phase = "applying" /\ s.at = d /\ s.ws = w /\ s.pin = p /\ s \in Command
  BY <1>1 DEF Command, Pins, SettingNext
<1> HIDE DEF s
<1>3. s \in Standing
  BY <1>1, <1>2 DEF Standing
<1> QED
  BY <1>2, <1>3 DEF s

AllCmds == Cmds \cup {Boot}

\* The types, more narrowly than TypeOK, as the steps need them.
Types ==
    /\ data \in [Channels -> Rows] /\ file \in [Channels -> Rows]
    /\ edit \in {"none", "unseen", "ignored"}
    /\ cmd \in [AllCmds -> Standing]
    /\ shown \in [Channels -> Workspaces \cup {None}]
    /\ loose \subseteq Channels /\ muddled \subseteq Channels
    /\ troubles \in 0 .. MaxTroubles

LEMMA TypesImplyTypeOK == Types => TypeOK
<1> SUFFICES ASSUME Types PROVE TypeOK
  OBVIOUS
<1>1. \A c \in Channels : /\ data[c] \in Entry \cup {Unbound} /\ file[c] \in Entry \cup {Unbound}
                          /\ Len(data[c].history) <= HistoryMax
  BY DEF Types, Rows
<1>2. cmd \in [Cmds \cup {Boot} -> Command]
  BY DEF Types, AllCmds, Standing
<1> QED
  BY <1>1, <1>2 DEF Types, TypeOK

LEMMA InitTypes == Init => Types
<1> SUFFICES ASSUME Init PROVE Types
  OBVIOUS
<1>1. \A c \in Channels : data[c] \in Rows
  <2> SUFFICES ASSUME NEW c \in Channels PROVE data[c] \in Rows
    OBVIOUS
  <2>1. CASE shown[c] = None
    BY <2>1, UnboundIsRow DEF Init
  <2>2. CASE shown[c] # None
    <3>1. shown[c] \in Workspaces /\ (c \in DMs) \in BOOLEAN
      BY <2>2 DEF Init
    <3>2. data[c] = [ws |-> shown[c], history |-> <<>>, pin |-> c \in DMs]
      BY <2>2 DEF Init
    <3> QED
      BY <3>1, <3>2, NewRow
  <2> QED
    BY <2>1, <2>2
<1>2. data \in [Channels -> Rows]
  BY <1>1 DEF Init
<1> QED
  BY <1>2, StandingStill, BoundsAssumption DEF Init, Types, AllCmds
-----------------------------------------------------------------------------
(* Indicators *)

\* The indicator of c agrees with the table.
Agree(c) == shown[c] = data[c].ws /\ (c \in DMs => data[c].pin = IsBound(c))

\* What the commands that work on the indicator of c know: the one that sets it
\* has the channel's workspace, and both know of the pinned message.
Kept(c) ==
    /\ \A k \in AllCmds : cmd[k].at = c /\ cmd[k].phase = "applying" =>
          /\ cmd[k].ws = data[c].ws /\ IsBound(c)
          /\ cmd[k].pin => data[c].pin
    /\ \A k \in AllCmds : cmd[k].at = c /\ cmd[k].phase = "clearing" =>
          (c \in DMs => cmd[k].pin = data[c].pin /\ data[c].pin = IsBound(c))
    /\ (\A k \in AllCmds : cmd[k].at = c => cmd[k].phase = "clearing") => Agree(c)

\* IndicatorFollows is not inductive: when the work on an indicator ends, what it
\* shows is what the command knew when the work began.
FInv == Types /\ \A c \in Channels \ muddled : Kept(c)

LEMMA FInvFacts ==
  ASSUME FInv
  PROVE  Types /\ (\A c \in Channels \ muddled : Kept(c)) /\ DOMAIN cmd = AllCmds
         /\ \A c \in Channels : data[c] \in Rows
BY DEF FInv, Types

\* A channel that a step does not touch is kept.
LEMMA KeptStays ==
  ASSUME NEW c \in Channels, Kept(c), data'[c] = data[c], shown'[c] = shown[c],
         \A k \in AllCmds : /\ cmd'[k].at = c <=> cmd[k].at = c
                            /\ cmd[k].at = c => /\ cmd'[k].phase = cmd[k].phase
                                                /\ cmd'[k].ws = cmd[k].ws
                                                /\ cmd'[k].pin = cmd[k].pin
  PROVE  Kept(c)'
BY DEF Kept, Agree, IsBound, AllCmds

\* A channel that nobody works on any more is kept, if it agrees.
LEMMA KeptAlone ==
  ASSUME NEW c \in Channels, Agree(c)', \A k \in AllCmds : cmd'[k].at # c
  PROVE  Kept(c)'
BY DEF Kept, AllCmds

\* What a move leaves of a channel d before it goes on: it was kept and the move
\* does not work on it, or the move alone did and it agrees with what is left.
Left(d, k, row) ==
    \/ d \notin muddled /\ row = data[d] /\ shown'[d] = shown[d] /\ cmd[k].at # d
    \/ ~Working(d, k) /\ shown'[d] = row.ws /\ (d \in DMs => row.pin = (row # Unbound))

LEMMA BindFInv ==
  ASSUME FInv, NEW k \in AllCmds, NEW c \in Channels, NEW w \in Workspaces, NEW careless \in BOOLEAN,
         NEW table \in [Channels -> Rows], NEW mud \in SUBSET Channels,
         Bind(k, c, w, careless, table, mud),
         shown' \in [Channels -> Workspaces \cup {None}], troubles' = troubles,
         \A d \in Channels \ (mud \cup {c}) : Left(d, k, table[d])
  PROVE  FInv'
<1> USE FInvFacts
<1>1. /\ data' = [table EXCEPT ![c] = AfterSet(c, w)] /\ file' = data' /\ edit' = "none"
      /\ loose' = (IF careless THEN loose \cup {c} ELSE loose \ {c})
      /\ muddled' = (IF Working(c, k) THEN mud \cup {c} ELSE mud \ {c})
      /\ cmd' = [j \in DOMAIN cmd |->
                  IF j = k THEN [Idle EXCEPT !.phase = "applying", !.ws = w, !.at = c,
                                             !.pin = data[c].pin]
                  ELSE IF cmd[j].phase = "clearing" /\ cmd[j].ws = w
                       THEN [cmd[j] EXCEPT !.raced = TRUE] ELSE cmd[j]]
  BY DEF Bind, Persist
<1>2. data[c].pin \in Pins
  BY RowFacts
<1>3. /\ AfterSet(c, w) \in Rows /\ AfterSet(c, w) # Unbound
      /\ AfterSet(c, w).ws = w /\ AfterSet(c, w).pin = data[c].pin
  BY SetIsRow
<1>4. /\ data'[c] = AfterSet(c, w) /\ \A d \in Channels \ {c} : data'[d] = table[d]
      /\ data' \in [Channels -> Rows]
  BY <1>1, <1>3
<1>5. /\ cmd'[k] \in Standing /\ cmd'[k].phase = "applying" /\ cmd'[k].at = c
      /\ cmd'[k].ws = w /\ cmd'[k].pin = data[c].pin
  <2>1. cmd'[k] = Setting(c, w, data[c].pin)
    BY <1>1 DEF Setting
  <2> QED
    BY <1>2, <2>1, SettingStands
<1>6. ASSUME NEW j \in AllCmds, j # k
      PROVE  /\ cmd'[j] \in Standing /\ cmd'[j].phase = cmd[j].phase /\ cmd'[j].at = cmd[j].at
             /\ cmd'[j].ws = cmd[j].ws /\ cmd'[j].pin = cmd[j].pin
  <2>1. cmd[j] \in Standing
    BY DEF Types
  <2>2. cmd'[j] = Raced(cmd[j]) \/ cmd'[j] = cmd[j]
    BY <1>1, <1>6 DEF Raced
  <2> QED
    BY <2>1, <2>2, RacedStands
<1>7. Types'
  <2>1. cmd' \in [AllCmds -> Standing]
    BY <1>1, <1>5, <1>6
  <2> QED
    BY <1>1, <1>4, <2>1 DEF Types, AllCmds
<1>8. ASSUME NEW d \in Channels \ muddled' PROVE Kept(d)'
  <2>1. CASE d = c
    <3>1. ~Working(c, k)
      BY <1>1, <1>8, <2>1
    <3>2. \A j \in AllCmds : cmd'[j].at = c => j = k
      BY <1>6, <3>1 DEF Working, AllCmds
    <3> QED
      BY <1>3, <1>4, <1>5, <2>1, <3>2 DEF Kept, IsBound, AllCmds
  <2>2. CASE d # c
    <3>1. Left(d, k, table[d]) /\ data'[d] = table[d]
      BY <1>1, <1>4, <1>8, <2>2
    <3>2. \A j \in AllCmds : cmd'[j].at = d <=> cmd[j].at = d /\ j # k
      BY <1>5, <1>6, <2>2
    <3>3. CASE d \notin muddled /\ table[d] = data[d] /\ shown'[d] = shown[d] /\ cmd[k].at # d
      <4>1. \A j \in AllCmds : /\ cmd'[j].at = d <=> cmd[j].at = d
                               /\ cmd[j].at = d => /\ cmd'[j].phase = cmd[j].phase
                                                   /\ cmd'[j].ws = cmd[j].ws
                                                   /\ cmd'[j].pin = cmd[j].pin
        BY <1>6, <3>2, <3>3
      <4>2. Kept(d) /\ data'[d] = data[d]
        BY <3>1, <3>3
      <4> QED
        BY <3>3, <4>1, <4>2, KeptStays
    <3>4. CASE ~Working(d, k) /\ shown'[d] = table[d].ws /\ (d \in DMs => table[d].pin = (table[d] # Unbound))
      <4>1. \A j \in AllCmds : cmd'[j].at # d
        BY <3>2, <3>4 DEF Working
      <4>2. Agree(d)'
        BY <3>1, <3>4 DEF Agree, IsBound
      <4> QED
        BY <4>1, <4>2, KeptAlone
    <3> QED
      BY <3>1, <3>3, <3>4 DEF Left
  <2> QED
    BY <2>1, <2>2
<1> QED
  BY <1>7, <1>8 DEF FInv
\* A move goes on to the next channel that it clears.
LEMMA StartClearFInv ==
  ASSUME FInv, NEW k \in AllCmds, cmd[k].phase \in {"prompted", "clearing"},
         NEW others \in SUBSET (Channels \ {cmd[k].to}), NEW mud \in SUBSET Channels,
         StartClear(k, others, mud), loose' = loose, troubles' = troubles,
         shown' \in [Channels -> Workspaces \cup {None}],
         data' \in [Channels -> Rows], file' \in [Channels -> Rows],
         edit' \in {"none", "unseen", "ignored"},
         \A d \in others : data'[d] = data[d],
         \A d \in Channels \ mud : Left(d, k, data'[d])
  PROVE  FInv'
<1> USE FInvFacts
<1>1. PICK c \in others :
         /\ cmd' = [cmd EXCEPT ![k].phase = "clearing", ![k].at = c, ![k].pin = data[c].pin,
                               ![k].todo = others \ {c}]
         /\ muddled' = IF Working(c, k) THEN mud \cup {c} ELSE mud
  BY DEF StartClear
<1>2. data[c].pin \in Pins /\ c \in Channels \ {cmd[k].to} /\ data'[c] = data[c]
  BY <1>1, RowFacts
<1>3. /\ cmd'[k] \in Standing /\ cmd'[k].phase = "clearing" /\ cmd'[k].at = c
      /\ cmd'[k].pin = data[c].pin
      /\ \A j \in AllCmds : j # k => cmd'[j] = cmd[j]
      /\ DOMAIN cmd' = AllCmds /\ cmd' = [j \in AllCmds |-> cmd'[j]]
  <2> DEFINE T == others \ {c}
  <2>1. cmd[k] \in Standing /\ T \in SUBSET (Channels \ {c, cmd[k].to})
    BY <1>1 DEF Types
  <2>2. cmd'[k] = Clearing(cmd[k], c, data[c].pin, T)
    BY <1>1 DEF Clearing
  <2>3. cmd'[k] \in Standing /\ cmd'[k].phase = "clearing" /\ cmd'[k].at = c
        /\ cmd'[k].pin = data[c].pin
    <3> HIDE DEF T
    <3> QED
      BY <1>2, <2>1, <2>2, ClearingStands
  <2>4. /\ \A j \in AllCmds : j # k => cmd'[j] = cmd[j]
        /\ DOMAIN cmd' = AllCmds /\ cmd' = [j \in AllCmds |-> cmd'[j]]
    BY <1>1 DEF Types
  <2> QED
    BY <2>3, <2>4
<1>4. Types'
  <2>1. \A j \in AllCmds : cmd'[j] \in Standing
    BY <1>3 DEF Types
  <2>2. cmd' \in [AllCmds -> Standing]
    BY <1>3, <2>1
  <2>3. muddled' \subseteq Channels
    BY <1>1
  <2> QED
    BY <2>2, <2>3 DEF Types
<1>5. ASSUME NEW d \in Channels \ muddled' PROVE Kept(d)'
  <2>1. Left(d, k, data'[d])
    BY <1>1, <1>5
  <2>2. CASE d = c
    <3>1. ~Working(c, k)
      BY <1>1, <1>5, <2>2
    <3>2. \A j \in AllCmds : cmd'[j].at = c => j = k
      BY <1>3, <3>1 DEF Working
    <3>3. Agree(c)'
      <4>1. CASE c \notin muddled /\ shown'[c] = shown[c] /\ cmd[k].at # c
        <5>1. \A j \in AllCmds : cmd[j].at # c
          BY <3>1, <4>1 DEF Working
        <5>2. Agree(c)
          BY <1>2, <4>1, <5>1 DEF Kept
        <5> QED
          BY <1>2, <4>1, <5>2 DEF Agree, IsBound
      <4>2. CASE shown'[c] = data'[c].ws /\ (c \in DMs => data'[c].pin = (data'[c] # Unbound))
        BY <4>2 DEF Agree, IsBound
      <4> QED
        BY <2>1, <2>2, <4>1, <4>2 DEF Left
    <3> QED
      BY <1>2, <1>3, <2>2, <3>2, <3>3 DEF Kept, AllCmds, Agree
  <2>3. CASE d # c
    <3>1. \A j \in AllCmds : cmd'[j].at = d <=> cmd[j].at = d /\ j # k
      BY <1>3, <2>3
    <3>2. CASE d \notin muddled /\ data'[d] = data[d] /\ shown'[d] = shown[d] /\ cmd[k].at # d
      <4>1. \A j \in AllCmds : /\ cmd'[j].at = d <=> cmd[j].at = d
                               /\ cmd[j].at = d => /\ cmd'[j].phase = cmd[j].phase
                                                   /\ cmd'[j].ws = cmd[j].ws
                                                   /\ cmd'[j].pin = cmd[j].pin
        BY <1>3, <3>1, <3>2
      <4>2. Kept(d)
        BY <3>2
      <4> QED
        BY <3>2, <4>1, <4>2, KeptStays
    <3>3. CASE /\ ~Working(d, k) /\ shown'[d] = data'[d].ws
               /\ (d \in DMs => data'[d].pin = (data'[d] # Unbound))
      <4>1. \A j \in AllCmds : cmd'[j].at # d
        BY <3>1, <3>3 DEF Working
      <4>2. Agree(d)'
        BY <3>3 DEF Agree, IsBound
      <4> QED
        BY <4>1, <4>2, KeptAlone
    <3> QED
      BY <2>1, <3>2, <3>3 DEF Left
  <2> QED
    BY <2>2, <2>3
<1> QED
  BY <1>4, <1>5 DEF FInv

\* A command that has no indicator to work on yet binds, or asks first.
LEMMA CommandFInv ==
  ASSUME FInv, NEW k \in Cmds, NEW c \in Channels,
         HandleLast(k, c) \/ (\E w \in Workspaces : HandleUse(k, c, w)) \/ MoveClicked(k)
  PROVE  FInv'
<1> USE FInvFacts
<1>0. k \in AllCmds /\ muddled \in SUBSET Channels /\ data \in [Channels -> Rows]
      /\ cmd[k] \in Standing
  BY DEF AllCmds, Types
<1>1. cmd[k].phase \in {"none", "prompted"} /\ cmd[k].at = None /\ UNCHANGED <<shown, troubles>>
  BY <1>0 DEF HandleLast, HandleUse, MoveClicked, Standing
<1>2. \A d \in Channels : d \notin muddled /\ shown' = shown => Left(d, k, data[d])
  BY <1>1, NamesAssumption DEF Left
<1>3. shown' \in [Channels -> Workspaces \cup {None}]
  BY <1>1 DEF Types
<1>4. ASSUME NEW e \in Channels, NEW w \in Workspaces, NEW careless \in BOOLEAN,
             Bind(k, e, w, careless, data, muddled)
      PROVE  FInv'
  <2>1. \A d \in Channels \ (muddled \cup {e}) : Left(d, k, data[d])
    BY <1>1, <1>2
  <2> QED
    BY <1>0, <1>1, <1>3, <1>4, <2>1, BindFInv
<1>5. CASE HandleLast(k, c)
  <2>1. data[c].history[1] \in Workspaces
    <3>1. data[c].history \in Seq(Workspaces) /\ data[c].history # <<>>
      BY <1>5, RowFacts DEF HandleLast
    <3> QED
      BY <3>1
  <2> QED
    BY <1>4, <1>5, <2>1 DEF HandleLast
<1>6. ASSUME NEW w \in Workspaces, HandleUse(k, c, w)
      PROVE  FInv'
  <2>1. CASE Bind(k, c, w, FALSE, data, muddled)
    BY <1>4, <2>1
  <2>2. CASE /\ cmd' = [cmd EXCEPT ![k] = [Idle EXCEPT !.phase = "prompted", !.to = c, !.ws = w]]
             /\ Keep /\ UNCHANGED <<loose, muddled>>
    <3>1. cmd'[k] \in Standing /\ cmd'[k].at = None /\ \A j \in AllCmds : j # k => cmd'[j] = cmd[j]
      <4>1. cmd'[k] = Prompt(c, w)
        BY <1>0, <2>2 DEF Prompt
      <4> QED
        BY <1>0, <2>2, <4>1, PromptStands
    <3>2. Types'
      BY <1>1, <2>2, <3>1 DEF Types, Keep
    <3>3. ASSUME NEW d \in Channels \ muddled' PROVE Kept(d)'
      <4>1. Kept(d) /\ data'[d] = data[d] /\ shown'[d] = shown[d] /\ d # None
        BY <1>1, <2>2, NamesAssumption DEF Keep
      <4>2. \A j \in AllCmds : /\ cmd'[j].at = d <=> cmd[j].at = d
                               /\ cmd[j].at = d => /\ cmd'[j].phase = cmd[j].phase
                                                   /\ cmd'[j].ws = cmd[j].ws
                                                   /\ cmd'[j].pin = cmd[j].pin
        BY <1>1, <3>1, <4>1
      <4> QED
        BY <4>1, <4>2, KeptStays
    <3> QED
      BY <3>2, <3>3 DEF FInv
  <2> QED
    BY <1>6, <2>1, <2>2 DEF HandleUse
<1>7. CASE MoveClicked(k)
  <2> DEFINE others == ChannelsFor(cmd[k].ws) \ {cmd[k].to}
  <2>1. cmd[k].phase = "prompted" /\ cmd[k].ws \in Workspaces /\ cmd[k].to \in Channels
    BY <1>0, <1>7 DEF MoveClicked, Standing
  <2>2. CASE Bind(k, cmd[k].to, cmd[k].ws, FALSE, data, muddled)
    BY <1>4, <2>1, <2>2
  <2>3. CASE StartClear(k, others, muddled) /\ Keep /\ loose' = loose
    <3>1. others \in SUBSET (Channels \ {cmd[k].to})
      BY DEF ChannelsFor
    <3>2. UNCHANGED <<data, file, edit, loose, shown, troubles>>
      BY <1>1, <2>3 DEF Keep
    <3>3. \A d \in Channels \ muddled : Left(d, k, data'[d])
      BY <1>1, <1>2, <3>2
    <3> HIDE DEF others
    <3> QED
      BY <1>0, <2>1, <2>3, <3>1, <3>2, <3>3, StartClearFInv DEF Types
  <2> QED
    BY <1>7, <2>2, <2>3 DEF MoveClicked
<1> QED
  BY <1>5, <1>6, <1>7
\* A move leaves its channel bare and unbound.
LEMMA ClearDoneFInv ==
  ASSUME FInv, NEW k \in Cmds, ClearDone(k)
  PROVE  FInv'
<1> USE FInvFacts
<1> DEFINE c     == cmd[k].at
           rest  == {d \in cmd[k].todo : IsBound(d)}
           table == [data EXCEPT ![c] = Unbound]
<1>1. /\ k \in AllCmds /\ cmd[k] \in Standing /\ cmd[k].phase = "clearing"
      /\ data \in [Channels -> Rows] /\ shown \in [Channels -> Workspaces \cup {None}]
      /\ muddled \subseteq Channels
  BY DEF AllCmds, Types, ClearDone
<1>2. /\ c \in Channels /\ cmd[k].to \in Channels /\ cmd[k].ws \in Workspaces
      /\ cmd[k].raced \in BOOLEAN /\ rest \in SUBSET (Channels \ {cmd[k].to}) /\ c \notin rest
  BY <1>1 DEF Standing, Command
<1>3. PICK refused \in BOOLEAN, mud \in SUBSET Channels :
         /\ mud = IF refused \/ Working(c, k) THEN muddled \cup {c} ELSE muddled
         /\ shown' = IF refused \/ (c \in DMs /\ ~cmd[k].pin) THEN shown
                     ELSE [shown EXCEPT ![c] = None]
         /\ \/ /\ rest = {}
               /\ Bind(k, cmd[k].to, cmd[k].ws, cmd[k].raced, table, mud)
            \/ /\ StartClear(k, rest, mud)
               /\ IF IsBound(c) THEN Persist(table) ELSE Keep
               /\ loose' = loose
  <2> DEFINE Mud(r) == IF r \/ Working(c, k) THEN muddled \cup {c} ELSE muddled
  <2>1. \A r : Mud(r) \in SUBSET Channels
    BY <1>1, <1>2
  <2>2. \E refused \in BOOLEAN :
         /\ shown' = IF refused \/ (c \in DMs /\ ~cmd[k].pin) THEN shown
                     ELSE [shown EXCEPT ![c] = None]
         /\ \/ /\ rest = {}
               /\ Bind(k, cmd[k].to, cmd[k].ws, cmd[k].raced, table, Mud(refused))
            \/ /\ StartClear(k, rest, Mud(refused))
               /\ IF IsBound(c) THEN Persist(table) ELSE Keep
               /\ loose' = loose
    BY DEF ClearDone
  <2> HIDE DEF rest, table, c
  <2> QED
    BY <2>1, <2>2
<1>4. shown' \in [Channels -> Workspaces \cup {None}] /\ troubles' = troubles
  BY <1>1, <1>2, <1>3 DEF ClearDone
<1>5. /\ table \in [Channels -> Rows] /\ table[c] = Unbound
      /\ \A d \in Channels \ {c} : table[d] = data[d] /\ shown'[d] = shown[d]
  BY <1>1, <1>2, <1>3, UnboundIsRow
<1>6. ASSUME NEW d \in Channels \ mud PROVE Left(d, k, table[d])
  <2>1. CASE d # c
    BY <1>3, <1>5, <1>6, <2>1 DEF Left
  <2>2. CASE d = c
    <3>1. ~refused /\ ~Working(c, k) /\ c \notin muddled
      BY <1>3, <1>6, <2>2
    <3>2. Agree(c) /\ (c \in DMs => cmd[k].pin = data[c].pin /\ data[c].pin = IsBound(c))
      <4>1. Kept(c)
        BY <1>2, <3>1
      <4>2. \A j \in AllCmds : cmd[j].at = c => cmd[j].phase = "clearing"
        BY <1>1, <3>1 DEF Working
      <4> QED
        BY <1>1, <4>1, <4>2 DEF Kept
    <3>3. shown'[c] = None
      <4>1. CASE c \in DMs /\ ~cmd[k].pin
        <5>1. data[c] = Unbound /\ shown' = shown
          BY <1>3, <3>2, <4>1 DEF IsBound
        <5> QED
          BY <3>2, <5>1, UnboundIsRow DEF Agree
      <4>2. CASE ~(c \in DMs /\ ~cmd[k].pin)
        BY <1>1, <1>2, <1>3, <3>1, <4>2
      <4> QED
        BY <4>1, <4>2
    <3> QED
      BY <1>5, <2>2, <3>1, <3>3, UnboundIsRow DEF Left
  <2> QED
    BY <2>1, <2>2
<1>7. CASE Bind(k, cmd[k].to, cmd[k].ws, cmd[k].raced, table, mud)
  <2> HIDE DEF table, c, rest
  <2>1. \A d \in Channels \ (mud \cup {cmd[k].to}) : Left(d, k, table[d])
    BY <1>6
  <2> QED
    BY <1>1, <1>2, <1>4, <1>5, <1>7, <2>1, BindFInv
<1>8. CASE /\ StartClear(k, rest, mud)
           /\ IF IsBound(c) THEN Persist(table) ELSE Keep
           /\ loose' = loose
  <2>1. \A d \in Channels : data'[d] = table[d]
    BY <1>1, <1>2, <1>5, <1>8 DEF Persist, Keep, IsBound
  <2>2. /\ data' \in [Channels -> Rows] /\ file' \in [Channels -> Rows]
        /\ edit' \in {"none", "unseen", "ignored"}
    <3> HIDE DEF table
    <3> QED
      BY <1>1, <1>5, <1>8 DEF Persist, Keep, Types
  <2>3. \A d \in rest : data'[d] = data[d]
    BY <1>2, <1>5, <2>1
  <2>4. \A d \in Channels \ mud : Left(d, k, data'[d])
    BY <1>6, <2>1
  <2> HIDE DEF table, c, rest
  <2> QED
    BY <1>1, <1>2, <1>3, <1>4, <1>8, <2>2, <2>3, <2>4, StartClearFInv
<1> QED
  BY <1>3, <1>7, <1>8

\* An indicator that was set shows the workspace of its channel.
LEMMA ApplyDoneFInv ==
  ASSUME FInv, NEW k \in AllCmds, ApplyDone(k), NEW c, c = cmd[k].at
  PROVE  FInv'
<1> USE FInvFacts
<1>1. /\ cmd[k] \in Standing /\ cmd[k].phase = "applying" /\ NextApply(k, data)
      /\ UNCHANGED <<loose, troubles>>
      /\ data \in [Channels -> Rows] /\ shown \in [Channels -> Workspaces \cup {None}]
      /\ muddled \subseteq Channels
  BY DEF Types, ApplyDone
<1>2. c \in Channels /\ cmd[k].ws \in Workspaces /\ cmd[k].todo \subseteq Channels
  BY <1>1 DEF Standing, Command
<1>3. /\ cmd' \in [AllCmds -> Standing]
      /\ \A j \in AllCmds : j # k => cmd'[j] = cmd[j]
      /\ \/ cmd'[k].at = None
         \/ \E d \in Channels : /\ cmd'[k].phase = "applying" /\ cmd'[k].at = d
                                /\ cmd'[k].ws = data[d].ws /\ cmd'[k].pin = data[d].pin
                                /\ IsBound(d)
  <2>1. CASE cmd' = [cmd EXCEPT ![k] = IF k = Boot THEN Idle ELSE Over]
    BY <2>1, StandingStill DEF Types
  <2>2. ASSUME NEW d \in {e \in cmd[k].todo : data[e] # Unbound}, NEW T \in SUBSET Channels,
               cmd' = [cmd EXCEPT ![k].at = d, ![k].ws = data[d].ws, ![k].pin = data[d].pin,
                                  ![k].todo = T]
        PROVE  <1>3!:
    <3>1. d \in Channels /\ IsBound(d) /\ data[d].ws \in Workspaces /\ data[d].pin \in Pins
      BY <1>2, RowFacts DEF IsBound
    <3>2. cmd'[k] = SettingNext(cmd[k], d, data[d].ws, data[d].pin, T)
      BY <2>2 DEF SettingNext
    <3>3. /\ cmd'[k] \in Standing /\ cmd'[k].phase = "applying" /\ cmd'[k].at = d
          /\ cmd'[k].ws = data[d].ws /\ cmd'[k].pin = data[d].pin
      BY <1>1, <3>1, <3>2, SettingNextStands
    <3>4. /\ \A j \in AllCmds : j # k => cmd'[j] = cmd[j]
          /\ DOMAIN cmd' = AllCmds /\ cmd' = [j \in AllCmds |-> cmd'[j]]
      BY <2>2 DEF Types
    <3>5. \A j \in AllCmds : cmd'[j] \in Standing
      BY <3>3, <3>4 DEF Types
    <3>6. cmd' \in [AllCmds -> Standing]
      BY <3>4, <3>5
    <3> QED
      BY <3>1, <3>3, <3>4, <3>6
  <2>3. \A d : {e \in cmd[k].todo : data[e] # Unbound} \ {d} \in SUBSET Channels
    BY <1>2
  <2>4. \/ cmd' = [cmd EXCEPT ![k] = IF k = Boot THEN Idle ELSE Over]
        \/ \E d \in {e \in cmd[k].todo : data[e] # Unbound}, T \in SUBSET Channels :
              cmd' = [cmd EXCEPT ![k].at = d, ![k].ws = data[d].ws, ![k].pin = data[d].pin,
                                 ![k].todo = T]
    <3> DEFINE rest == {e \in cmd[k].todo : data[e] # Unbound}
    <3>1. \/ cmd' = [cmd EXCEPT ![k] = IF k = Boot THEN Idle ELSE Over]
          \/ \E d \in rest :
                cmd' = [cmd EXCEPT ![k].at = d, ![k].ws = data[d].ws, ![k].pin = data[d].pin,
                                   ![k].todo = rest \ {d}]
      BY <1>1 DEF NextApply
    <3>2. \A d : rest \ {d} \in SUBSET Channels
      BY <2>3
    <3> HIDE DEF rest
    <3>3. \/ cmd' = [cmd EXCEPT ![k] = IF k = Boot THEN Idle ELSE Over]
          \/ \E d \in rest, T \in SUBSET Channels :
                cmd' = [cmd EXCEPT ![k].at = d, ![k].ws = data[d].ws, ![k].pin = data[d].pin,
                                   ![k].todo = T]
      BY <3>1, <3>2
    <3> QED
      BY <3>3 DEF rest
  <2> QED
    BY <2>1, <2>2, <2>4
<1>4. PICK refused \in BOOLEAN :
         /\ muddled' = {d \in muddled : d # cmd'[k].at \/ Working(d, k)}
                         \cup IF refused THEN {c} ELSE {}
         /\ refused => Keep /\ shown' = shown
         /\ ~refused => /\ shown' = [shown EXCEPT ![c] = cmd[k].ws]
                        /\ IF c \notin DMs \/ (cmd[k].pin /\ shown[c] # None) \/ ~IsBound(c) \/ data[c].pin
                           THEN Keep ELSE Persist([data EXCEPT ![c].pin = TRUE])
  BY DEF ApplyDone
<1>5. /\ data' \in [Channels -> Rows] /\ file' \in [Channels -> Rows]
      /\ edit' \in {"none", "unseen", "ignored"}
      /\ \A d \in Channels \ {c} : data'[d] = data[d]
      /\ data'[c] = data[c] \/ (IsBound(c) /\ c \in DMs /\ ~data[c].pin)
      /\ data'[c].ws = data[c].ws /\ (IsBound(c) => IsBound(c)')
      /\ data[c].pin => data'[c].pin
  <2>1. CASE Keep
    BY <2>1 DEF Keep, Types, IsBound
  <2>2. CASE IsBound(c) /\ c \in DMs /\ ~data[c].pin /\ Persist([data EXCEPT ![c].pin = TRUE])
    <3>1. data[c] \in Entry /\ Len(data[c].history) <= HistoryMax
      BY <1>1, <1>2, <2>2, RowFacts DEF IsBound
    <3>2. /\ [data[c] EXCEPT !.pin = TRUE] \in Entry
          /\ [data[c] EXCEPT !.pin = TRUE].history = data[c].history
          /\ [data[c] EXCEPT !.pin = TRUE].ws = data[c].ws
      BY <3>1 DEF Entry
    <3>3. [data[c] EXCEPT !.pin = TRUE] \in Rows
      BY <3>1, <3>2 DEF Rows
    <3>4. data' = [data EXCEPT ![c] = [data[c] EXCEPT !.pin = TRUE]] /\ file' = data' /\ edit' = "none"
      BY <1>1, <1>2, <2>2 DEF Persist
    <3>5. data'[c] # Unbound
      BY <1>1, <1>2, <3>1, <3>2, <3>4, NamesAssumption DEF Entry, Unbound
    <3> QED
      BY <1>1, <1>2, <2>2, <3>2, <3>3, <3>4, <3>5 DEF IsBound
  <2> QED
    BY <1>4, <2>1, <2>2
<1>6. shown' \in [Channels -> Workspaces \cup {None}] /\ muddled' \subseteq Channels
      /\ \A d \in Channels \ {c} : shown'[d] = shown[d]
  BY <1>1, <1>2, <1>4
<1>7. Types'
  BY <1>1, <1>3, <1>5, <1>6 DEF Types
<1>8. ASSUME NEW e \in Channels \ muddled' PROVE Kept(e)'
  <2>1. e # None
    BY NamesAssumption
  <2>2. CASE e # c /\ e # cmd'[k].at
    <3>1. e \notin muddled /\ Kept(e)
      BY <1>4, <1>8, <2>2
    <3>2. \A j \in AllCmds : /\ cmd'[j].at = e <=> cmd[j].at = e
                             /\ cmd[j].at = e => /\ cmd'[j].phase = cmd[j].phase
                                                 /\ cmd'[j].ws = cmd[j].ws
                                                 /\ cmd'[j].pin = cmd[j].pin
      BY <1>3, <2>2
    <3> QED
      BY <1>5, <1>6, <2>2, <3>1, <3>2, KeptStays
  <2>3. CASE e = cmd'[k].at
    <3>1. /\ cmd'[k].phase = "applying" /\ cmd'[k].ws = data[e].ws /\ cmd'[k].pin = data[e].pin
          /\ IsBound(e)
      BY <1>3, <2>1, <2>3
    <3>2. data'[e].ws = data[e].ws /\ IsBound(e)' /\ (data[e].pin => data'[e].pin)
      BY <1>5, <3>1 DEF IsBound
    <3>3. Working(e, k) => Kept(e)
      BY <1>4, <1>8
    <3>4. ASSUME NEW j \in AllCmds, j # k, cmd'[j].at = e
          PROVE  /\ cmd'[j].phase = "applying" => /\ cmd'[j].ws = data'[e].ws
                                                  /\ cmd'[j].pin => data'[e].pin
                 /\ cmd'[j].phase = "clearing" =>
                      (e \in DMs => cmd'[j].pin = data'[e].pin /\ data'[e].pin = IsBound(e)')
      <4>1. cmd'[j] = cmd[j] /\ Kept(e)
        BY <1>3, <3>3, <3>4 DEF Working
      <4>2. cmd[j].phase = "clearing" /\ e \in DMs => data[e].pin /\ data'[e] = data[e]
        BY <1>5, <3>1, <3>4, <4>1 DEF Kept
      <4> QED
        BY <3>2, <3>4, <4>1, <4>2 DEF Kept, IsBound
    <3> QED
      BY <2>3, <3>1, <3>2, <3>4 DEF Kept, AllCmds
  <2>4. CASE e = c /\ e # cmd'[k].at
    <3>1. ~refused /\ e \notin muddled /\ Kept(e)
      BY <1>4, <1>8, <2>4
    <3>2. cmd[k].ws = data[e].ws /\ IsBound(e) /\ (cmd[k].pin => data[e].pin)
      BY <1>1, <2>4, <3>1 DEF Kept
    <3>3. e \in DMs => data'[e].pin = TRUE
      <4>1. CASE e \in DMs /\ data[e].pin
        <5>1. data'[e] = data[e]
          BY <1>5, <2>4, <4>1
        <5>2. data[e].pin \in BOOLEAN
          BY RowFacts DEF Pins
        <5> QED
          BY <4>1, <5>1, <5>2
      <4>2. CASE e \in DMs /\ ~data[e].pin
        <5>1. data' = [data EXCEPT ![c].pin = TRUE]
          BY <1>4, <2>4, <3>1, <3>2, <4>2 DEF Persist
        <5>2. data[c] \in Entry
          BY <2>4, <3>2, RowFacts DEF IsBound
        <5> QED
          BY <1>1, <2>4, <5>1, <5>2 DEF Entry
      <4> QED
        BY <4>1, <4>2
    <3>4. data'[e].ws = data[e].ws /\ IsBound(e)' /\ (data[e].pin => data'[e].pin)
      BY <1>5, <2>4, <3>2 DEF IsBound
    <3>5. Agree(e)'
      BY <1>1, <1>2, <1>4, <2>4, <3>1, <3>2, <3>3, <3>4 DEF Agree
    <3>6. \A j \in AllCmds : cmd'[j].at = e => j # k /\ cmd'[j] = cmd[j]
      BY <1>3, <2>4
    <3>7. ASSUME NEW j \in AllCmds, cmd'[j].at = e
          PROVE  /\ cmd'[j].phase = "applying" => /\ cmd'[j].ws = data'[e].ws
                                                  /\ cmd'[j].pin => data'[e].pin
                 /\ cmd'[j].phase = "clearing" =>
                      (e \in DMs => cmd'[j].pin = data'[e].pin /\ data'[e].pin = IsBound(e)')
      <4>1. cmd'[j] = cmd[j]
        BY <3>6, <3>7
      <4>2. cmd[j].phase = "clearing" /\ e \in DMs => data[e].pin /\ data'[e] = data[e]
        BY <1>5, <2>4, <3>1, <3>2, <3>7, <4>1 DEF Kept
      <4> QED
        BY <3>1, <3>4, <3>7, <4>1, <4>2 DEF Kept, IsBound
    <3> QED
      BY <3>4, <3>5, <3>7 DEF Kept, AllCmds
  <2> QED
    BY <2>2, <2>3, <2>4
<1> QED
  BY <1>7, <1>8 DEF FInv
\* The file is edited, or read again: the channels that differ count as muddled.
LEMMA FileFInv ==
  ASSUME FInv, ExternalEdit \/ Reload
  PROVE  FInv'
<1> USE FInvFacts
<1>1. CASE ExternalEdit
  <2>1. /\ file' \in [Channels -> Rows] /\ edit' \in {"none", "unseen", "ignored"}
        /\ troubles' \in 0 .. MaxTroubles /\ UNCHANGED <<data, cmd, shown, loose, muddled>>
    <3>1. ASSUME NEW c \in Channels, NEW w \in Workspaces,
                 file' = [file EXCEPT ![c] = [ws |-> w, history |-> <<>>, pin |-> FALSE]]
          PROVE  file' \in [Channels -> Rows]
      BY <3>1, NewRow DEF Types
    <3>2. ASSUME NEW c \in Channels, file' = [file EXCEPT ![c] = Unbound]
          PROVE  file' \in [Channels -> Rows]
      BY <3>2, UnboundIsRow DEF Types
    <3>3. ASSUME file' = [c \in Channels |-> Unbound]
          PROVE  file' \in [Channels -> Rows]
      BY <3>3, UnboundIsRow
    <3>4. file' \in [Channels -> Rows]
      BY <1>1, <3>1, <3>2, <3>3 DEF ExternalEdit
    <3> QED
      BY <1>1, <3>4, BoundsAssumption DEF ExternalEdit, Types
  <2>2. Types'
    BY <2>1 DEF Types
  <2>3. ASSUME NEW c \in Channels \ muddled' PROVE Kept(c)'
    BY <2>1, KeptStays
  <2> QED
    BY <2>2, <2>3 DEF FInv
<1>2. CASE Reload
  <2>1. /\ data' = file /\ edit' = "none" /\ loose' = loose \cup Changed
        /\ muddled' = muddled \cup Changed /\ UNCHANGED <<file, shown, troubles>>
        /\ cmd' = [k \in DOMAIN cmd |-> IF cmd[k].phase = "clearing"
                                        THEN [cmd[k] EXCEPT !.raced = TRUE] ELSE cmd[k]]
    BY <1>2 DEF Reload
  <2>2. ASSUME NEW k \in AllCmds
        PROVE  /\ cmd'[k] \in Standing /\ cmd'[k].phase = cmd[k].phase /\ cmd'[k].at = cmd[k].at
               /\ cmd'[k].ws = cmd[k].ws /\ cmd'[k].pin = cmd[k].pin
    <3>1. cmd[k] \in Standing
      BY DEF Types
    <3>2. cmd'[k] = Raced(cmd[k]) \/ cmd'[k] = cmd[k]
      BY <2>1 DEF Raced
    <3> QED
      BY <3>1, <3>2, RacedStands
  <2>3. Types'
    <3>1. cmd' \in [AllCmds -> Standing]
      BY <2>1, <2>2
    <3> QED
      BY <2>1, <3>1 DEF Types, Changed
  <2>4. ASSUME NEW c \in Channels \ muddled' PROVE Kept(c)'
    <3>1. Kept(c) /\ data'[c] = data[c] /\ shown'[c] = shown[c]
      BY <2>1 DEF Changed
    <3> QED
      BY <2>2, <3>1, KeptStays
  <2> QED
    BY <2>3, <2>4 DEF FInv
<1> QED
  BY <1>1, <1>2

\* A restart ends the work on every indicator, and begins it on the first.
LEMMA RestartFInv ==
  ASSUME FInv, DaemonRestarts
  PROVE  FInv'
<1> USE FInvFacts
<1> DEFINE bound  == {c \in Channels : file[c] # Unbound}
           halted == {cmd[k].at : k \in DOMAIN cmd} \ {None}
           left   == [k \in Cmds |-> IF cmd[k].phase \in {"clearing", "applying"} THEN Over
                                     ELSE cmd[k]]
<1>1. /\ data' = file /\ edit' = "none" /\ loose' = loose \cup Changed
      /\ UNCHANGED <<file, shown>> /\ troubles' \in 0 .. MaxTroubles
  <2>1. /\ data' = file /\ edit' = "none" /\ loose' = loose \cup Changed
        /\ UNCHANGED <<file, shown>> /\ troubles' = troubles + 1 /\ troubles < MaxTroubles
    BY DEF DaemonRestarts
  <2>2. troubles' \in 0 .. MaxTroubles
    BY <2>1, BoundsAssumption DEF Types
  <2> QED
    BY <2>1, <2>2
<1>2. \A k \in Cmds : left[k] \in Standing /\ left[k].at = None
  <2> SUFFICES ASSUME NEW k \in Cmds PROVE left[k] \in Standing /\ left[k].at = None
    OBVIOUS
  <2>1. cmd[k] \in Standing
    BY DEF Types, AllCmds
  <2> QED
    BY <2>1, StandingStill DEF Standing
<1>3. halted \subseteq Channels
  <2>1. \A k \in AllCmds : cmd[k].at \in Channels \cup {None}
    BY DEF Types, Standing, Command
  <2> QED
    BY <2>1
<1>4. Changed \subseteq Channels
  BY DEF Changed
<1>5. ASSUME NEW c \in Channels, c \notin muddled, c \notin Changed, c \notin halted
      PROVE  Agree(c)'
  <2>1. Kept(c) /\ data'[c] = data[c] /\ shown'[c] = shown[c]
    BY <1>1, <1>5 DEF Changed
  <2>2. \A k \in AllCmds : cmd[k].at # c
    BY <1>5, NamesAssumption
  <2> QED
    BY <2>1, <2>2 DEF Kept, Agree, IsBound
<1>6. CASE /\ cmd' = [k \in DOMAIN cmd |-> IF k = Boot THEN Idle ELSE left[k]]
           /\ muddled' = muddled \cup Changed \cup halted
  <2>1. \A k \in AllCmds : cmd'[k] \in Standing /\ cmd'[k].at = None
    <3> HIDE DEF left
    <3> QED
      BY <1>2, <1>6, StandingStill DEF AllCmds
  <2>2. cmd' \in [AllCmds -> Standing]
    BY <1>6, <2>1
  <2>3. Types'
    <3> HIDE DEF halted
    <3> QED
      BY <1>1, <1>3, <1>4, <1>6, <2>2 DEF Types
  <2>4. ASSUME NEW c \in Channels \ muddled' PROVE Kept(c)'
    BY <1>5, <1>6, <2>1, KeptAlone, NamesAssumption
  <2> QED
    BY <2>3, <2>4 DEF FInv
<1>7. ASSUME NEW c \in bound,
             cmd' = [k \in DOMAIN cmd |->
                       IF k = Boot
                       THEN [Idle EXCEPT !.phase = "applying", !.ws = file[c].ws, !.at = c,
                                         !.pin = file[c].pin, !.todo = bound \ {c}]
                       ELSE left[k]],
             muddled' = (muddled \cup Changed \cup halted) \ {c}
      PROVE  FInv'
  <2>1. c \in Channels /\ file[c] \in Rows /\ file[c].ws \in Workspaces /\ file[c].pin \in Pins
        /\ file[c] # Unbound
    BY RowFacts DEF Types
  <2>2. cmd'[Boot] = Reconciling(c, file[c].ws, file[c].pin, bound \ {c})
    BY <1>7 DEF Reconciling, AllCmds
  <2>3. /\ cmd'[Boot] \in Standing /\ cmd'[Boot].phase = "applying" /\ cmd'[Boot].at = c
        /\ cmd'[Boot].ws = file[c].ws /\ cmd'[Boot].pin = file[c].pin
    <3>1. bound \ {c} \in SUBSET Channels
      OBVIOUS
    <3> HIDE DEF bound
    <3> QED
      BY <2>1, <2>2, <3>1, ReconcilingStands
  <2>4. \A k \in AllCmds : k # Boot => cmd'[k] \in Standing /\ cmd'[k].at = None
    <3> HIDE DEF left, bound
    <3> QED
      BY <1>2, <1>7 DEF AllCmds
  <2>5. cmd' \in [AllCmds -> Standing]
    BY <1>7, <2>3, <2>4
  <2>6. Types'
    <3> HIDE DEF halted, bound
    <3> QED
      BY <1>1, <1>3, <1>4, <1>7, <2>5 DEF Types
  <2>7. ASSUME NEW d \in Channels \ muddled' PROVE Kept(d)'
    <3>1. CASE d = c
      BY <1>1, <2>1, <2>3, <2>4, <3>1, NamesAssumption DEF Kept, IsBound, AllCmds
    <3>2. CASE d # c
      <4>1. \A k \in AllCmds : cmd'[k].at # d
        BY <2>3, <2>4, <3>2, NamesAssumption
      <4>2. d \notin muddled /\ d \notin Changed /\ d \notin halted
        <5> HIDE DEF halted
        <5> QED
          BY <1>7, <2>7, <3>2
      <4> QED
        BY <1>5, <4>1, <4>2, KeptAlone
    <3> QED
      BY <3>1, <3>2
  <2> QED
    BY <2>6, <2>7 DEF FInv
<1> QED
  BY <1>6, <1>7 DEF DaemonRestarts

LEMMA InitFInv == Init => FInv
<1> SUFFICES ASSUME Init PROVE FInv
  OBVIOUS
<1>1. Types
  BY InitTypes
<1>2. ASSUME NEW c \in Channels PROVE Kept(c)
  <2>1. \A k \in AllCmds : cmd[k].at = None /\ cmd[k].phase = "none"
    BY StandingStill DEF Init, AllCmds
  <2>2. CASE shown[c] = None
    <3>1. data[c] = Unbound
      BY <2>2 DEF Init
    <3> QED
      BY <2>1, <2>2, <3>1, UnboundIsRow, NamesAssumption DEF Kept, Agree, IsBound
  <2>3. CASE shown[c] # None
    <3>1. data[c] = [ws |-> shown[c], history |-> <<>>, pin |-> c \in DMs]
      BY <2>3 DEF Init
    <3>2. data[c].ws = shown[c] /\ data[c].pin = (c \in DMs) /\ data[c] # Unbound
      BY <2>3, <3>1 DEF Unbound
    <3> QED
      BY <2>1, <3>2, NamesAssumption DEF Kept, Agree, IsBound
  <2> QED
    BY <2>2, <2>3
<1> QED
  BY <1>1, <1>2 DEF FInv

LEMMA StepFInv == FInv /\ [Next]_vars => FInv'
<1> SUFFICES ASSUME FInv, [Next]_vars PROVE FInv'
  OBVIOUS
<1>1. CASE ExternalEdit \/ Reload
  BY <1>1, FileFInv
<1>2. CASE DaemonRestarts
  BY <1>2, RestartFInv
<1>3. ASSUME NEW k \in Cmds, NEW c \in Channels,
             HandleLast(k, c) \/ \E w \in Workspaces : HandleUse(k, c, w)
      PROVE  FInv'
  BY <1>3, CommandFInv
<1>4. ASSUME NEW k \in Cmds, MoveClicked(k) PROVE FInv'
  <2>1. cmd[k].to \in Channels
    BY <1>4, FInvFacts DEF MoveClicked, Types, Standing, AllCmds
  <2> QED
    BY <1>4, <2>1, CommandFInv
<1>5. ASSUME NEW k \in Cmds, ClearDone(k) PROVE FInv'
  BY <1>5, ClearDoneFInv
<1>6. ASSUME NEW k \in Cmds \cup {Boot}, ApplyDone(k) PROVE FInv'
  BY <1>6, ApplyDoneFInv DEF AllCmds
<1>7. CASE UNCHANGED vars
  BY <1>7 DEF vars, FInv, Types, Kept, Agree, IsBound
<1> QED
  BY <1>1, <1>2, <1>3, <1>4, <1>5, <1>6, <1>7 DEF Next

\* Every part of the state has its type: histories stay within their bound, in
\* memory and in the file, and a command has what its next step needs.
THEOREM TypesHold == Spec => []TypeOK
<1>1. FInv => TypeOK
  BY TypesImplyTypeOK DEF FInv
<1> QED
  BY <1>1, InitFInv, StepFInv, PTL DEF Spec

\* An indicator that nobody works on shows its channel's workspace, whatever
\* commands, clicks, restarts and the reconciliation did before, unless two of
\* them met on it, Discord refused, or the file was edited.
THEOREM IndicatorsFollow == Spec => []IndicatorFollows
<1>1. FInv => IndicatorFollows
  BY FInvFacts DEF IndicatorFollows, Kept, Agree
<1> QED
  BY <1>1, InitFInv, StepFInv, PTL DEF Spec
=============================================================================
