----------------------------- MODULE Lifecycle ------------------------------
(***************************************************************************)
(* A daemon from its start to its end (src/daemon/index.ts), composed with *)
(* the registry: the choices it publishes for /use when the membership of  *)
(* the registry changes, and a shutdown that waits for the connections of  *)
(* plugins and of permission hooks.                                        *)
(*                                                                         *)
(* Every registerSlashCommands call makes a REST client of its own, so two *)
(* PUTs are not queued behind one another.  The cap of 25 choices is left  *)
(* out: an instance has fewer workspaces.  A connection that is destroyed  *)
(* does not hold up the server; one that is open does, whoever opened it.  *)
(***************************************************************************)
EXTENDS Registry

CONSTANTS
    Hooks,   \* permission hooks that wait for an answer on their own socket
    Faults   \* what may happen, a subset of FaultKinds

FaultKinds ==
    {"putFails",  \* a PUT is rejected
     "putSlow"}   \* a PUT is still under way when the next one starts

ASSUME FaultsAssumption == Faults \subseteq FaultKinds

VARIABLES
    life,            \* up, closing (server.close waits) or down
    hooks,           \* hooks that wait
    strays,          \* history: connected and not registered when closing began
    phase,           \* starting, first (its PUT is awaited), subscribed
    lastRegistered,  \* the list of the latest PUT
    debounce,        \* debounceTimer is set
    puts,            \* the lists of the PUTs under way
    choices,         \* what Discord offers
    stale            \* history: why the choices may be old, subset of Lapses

Lapses ==
    {"missed",     \* a change fell into the first registration
     "overtaken"}  \* a PUT failed, or ran beside another one

slashVars == <<phase, lastRegistered, debounce, puts, choices, stale>>
lifecycleVars == <<vars, life, hooks, strays, slashVars>>

\* currentWorkspaces: what the registry holds, whatever became of its sockets.
Listed == {name[p] : p \in Members}

LifecycleTypeOK ==
    /\ TypeOK
    /\ life \in {"up", "closing", "down"}
    /\ hooks \subseteq Hooks
    /\ strays \subseteq Plugins
    /\ phase \in {"starting", "first", "subscribed"}
    /\ {lastRegistered, choices} \cup puts \subseteq SUBSET Names
    /\ debounce \in BOOLEAN
    /\ stale \subseteq Lapses
    /\ debounce => phase = "subscribed"
    /\ phase = "starting" => puts = {}

LifecycleInit ==
    /\ Init
    /\ life = "up"
    /\ hooks = {}
    /\ strays = {}
    /\ phase = "starting"
    /\ lastRegistered = {}
    /\ debounce = FALSE
    /\ puts = {}
    /\ choices = {}
    /\ stale = {}

-----------------------------------------------------------------------------
(* Changes of the registry *)

\* Mutated form: the listener is installed before the first registration.
NotifyChange_Early ==
    /\ debounce' = TRUE
    /\ UNCHANGED <<life, hooks, strays, phase, lastRegistered, puts, choices, stale>>

\* notifyChange: the listener sets the debounce timer, once it is installed.
NotifyChange ==
    /\ debounce' = (debounce \/ phase = "subscribed")
    /\ stale' = CASE phase = "first" -> stale \cup {"missed"}
                  [] phase = "subscribed" -> stale \ {"missed"}
                  [] OTHER -> stale
    /\ UNCHANGED <<life, hooks, strays, phase, lastRegistered, puts, choices>>

Registers(p) ==
    /\ life # "down"
    /\ HandleRegister(p)
    /\ NotifyChange

\* Mutated form: unregisterByConnection calls no listener.
Closes_Silent(p) ==
    /\ SocketCloses(p)
    /\ UNCHANGED <<life, hooks, strays, slashVars>>

Closes(p) ==
    /\ SocketCloses(p)
    /\ IF conn[p] = "registered" THEN NotifyChange ELSE UNCHANGED <<life, hooks, strays, slashVars>>

\* The reaper is cleared when a shutdown begins.
Reaped(n) ==
    /\ life = "up"
    /\ Reap(n)
    /\ NotifyChange

\* The socket is there while the daemon listens; what a plugin does on its own
\* leaves the daemon alone.
PluginSteps(p) ==
    /\ \/ PluginStarts(p) \/ PluginSeesClose(p) \/ PluginExits(p)
       \/ life = "up" /\ PluginConnects(p)
    /\ UNCHANGED <<life, hooks, strays, slashVars>>

-----------------------------------------------------------------------------
(* The choices of /use *)

\* workspaceListChanged: equal lengths and equal sorted lists mean no change.
\* Mutated form: the lengths are compared only.
WorkspaceListChanged_Shrunk(prev, curr) == ~(curr \subseteq prev)

WorkspaceListChanged(prev, curr) == prev # curr

\* The grace period after clientReady is over: the first registration.
GraceEnds ==
    /\ life # "down" /\ phase = "starting"
    /\ phase' = "first"
    /\ lastRegistered' = Listed
    /\ puts' = {Listed}
    /\ UNCHANGED <<vars, life, hooks, strays, debounce, choices, stale>>

\* A PUT succeeds or fails; a failure is logged.  The first one is awaited, and
\* only then does the daemon subscribe to the registry.
PutEnds(list) ==
    /\ list \in puts
    /\ puts' = puts \ {list}
    /\ \/ /\ choices' = list
          /\ stale' = IF puts = {lastRegistered} THEN stale \ {"overtaken"} ELSE stale
       \/ /\ "putFails" \in Faults
          /\ choices' = choices
          /\ stale' = stale \cup {"overtaken"}
    /\ phase' = "subscribed"
    /\ UNCHANGED <<vars, life, hooks, strays, lastRegistered, debounce>>

\* 500 ms after the first of a flurry of changes: PUT the list if it changed.
DebounceFires ==
    /\ debounce
    /\ "putSlow" \in Faults \/ puts = {}
    /\ debounce' = FALSE
    /\ IF WorkspaceListChanged(lastRegistered, Listed)
       THEN /\ lastRegistered' = Listed
            /\ puts' = puts \cup {Listed}
            /\ stale' = IF puts = {} THEN stale ELSE stale \cup {"overtaken"}
       ELSE UNCHANGED <<lastRegistered, puts, stale>>
    /\ UNCHANGED <<vars, life, hooks, strays, phase, choices>>

-----------------------------------------------------------------------------
(* The end of the daemon *)

HookAsks(h) ==
    /\ life = "up"
    /\ h \notin hooks
    /\ hooks' = hooks \cup {h}
    /\ UNCHANGED <<vars, life, strays, slashVars>>

\* A hook is answered, loses its patience, or is killed.
HookEnds(h) ==
    /\ h \in hooks
    /\ hooks' = hooks \ {h}
    /\ UNCHANGED <<vars, life, strays, slashVars>>

\* Mutated form: the plugins are told and keep their connections.
Shutdown_ByeOnly ==
    /\ life = "up"
    /\ life' = "closing"
    /\ strays' = {p \in Plugins : conn[p] = "accepted"}
    /\ UNCHANGED <<vars, hooks, slashVars>>

\* onShutdown, for the first signal: the registered connections are told and
\* closed, which leaves them in the registry, and the server stops listening.
\* The timers it clears first are not part of this model.
Shutdown ==
    /\ life = "up"
    /\ life' = "closing"
    /\ strays' = {p \in Plugins : conn[p] = "accepted"}
    /\ conn' = Shut(conn, Members)
    /\ UNCHANGED <<alive, up, name, recency, hooks, slashVars>>

\* A new process knows nothing.  A PUT under way may have got through.
Forgets ==
    /\ hooks' = {}
    /\ strays' = {}
    /\ phase' = "starting"
    /\ lastRegistered' = {}
    /\ debounce' = FALSE
    /\ puts' = {}
    /\ choices' \in puts \cup {choices}
    /\ stale' = {}

\* server.close calls back when no connection is left, and the process ends.
DaemonExits ==
    /\ life = "closing"
    /\ hooks = {}
    /\ \A p \in Plugins : conn[p] \notin {"accepted", "registered"}
    /\ life' = "down"
    /\ name' = Unnamed(name, Plugins)
    /\ recency' = <<>>
    /\ Forgets
    /\ UNCHANGED <<alive, up, conn>>

DaemonStarts ==
    /\ life = "down"
    /\ life' = "up"
    /\ UNCHANGED <<vars, hooks, strays, slashVars>>

\* The process is killed and started again.
DaemonKilled ==
    /\ life # "down"
    /\ DaemonRestarts
    /\ Forgets
    /\ life' = "up"

-----------------------------------------------------------------------------
LifecycleNext ==
    \/ \E p \in Plugins : PluginSteps(p) \/ Registers(p) \/ Closes(p)
    \/ \E p \in Plugins : HandleLine(p) /\ UNCHANGED <<life, hooks, strays, slashVars>>
    \/ \E n \in 1 .. Len(recency) : Reaped(n)
    \/ GraceEnds \/ DebounceFires
    \/ \E list \in puts : PutEnds(list)
    \/ \E h \in Hooks : HookAsks(h) \/ HookEnds(h)
    \/ Shutdown \/ DaemonExits \/ DaemonStarts \/ DaemonKilled

LifecycleSpec == LifecycleInit /\ [][LifecycleNext]_lifecycleVars

\* A plugin that runs connects and notices a closed socket; a daemon that is
\* restarted over and over reads the register lines at times (SF).  Timers
\* fire, requests to Discord end, and a hook ends by its own timer.  Nobody has
\* to end the daemon, or to start it again.
LifecycleFairness ==
    /\ \A p \in Plugins :
          /\ WF_lifecycleVars(life = "up" /\ PluginConnects(p) /\ PluginSteps(p))
          /\ WF_lifecycleVars(PluginSeesClose(p) /\ PluginSteps(p))
          /\ SF_lifecycleVars(Registers(p))
          /\ WF_lifecycleVars(Closes(p))
    /\ WF_lifecycleVars(GraceEnds)
    /\ WF_lifecycleVars(DebounceFires)
    /\ WF_lifecycleVars(\E list \in puts : PutEnds(list))
    /\ \A h \in Hooks : WF_lifecycleVars(HookEnds(h))
    /\ WF_lifecycleVars(DaemonExits)

LifecycleLiveSpec == LifecycleSpec /\ LifecycleFairness

-----------------------------------------------------------------------------
\* Once nothing is under way, Discord offers what the registry holds, unless a
\* change fell into the first registration, or a PUT failed or was overtaken.
SettledIsRight ==
    LifecycleTypeOK
    /\ ((phase = "subscribed" /\ ~debounce /\ puts = {} /\ stale = {}) => choices = Listed)

\* index.ts:310-313: the commands are registered again when the workspaces
\* change, "so /use's static choices stay live".  In a daemon that stays, when
\* the registry settles so do the choices.
ChoicesStayLive ==
    (/\ <>[][Listed' = Listed]_lifecycleVars
     /\ <>[](life = "up" /\ phase = "subscribed" /\ stale = {})) => <>[](choices = Listed)

\* A plugin that runs is registered again and again, evictions, stalls and
\* restarts notwithstanding, as long as there is a daemon.
Reconnects ==
    \A p \in Plugins :
        (p \in alive /\ life = "up") ~> (conn[p] = "registered" \/ p \notin alive \/ life # "up")

\* A shutdown ends: it waits for the hooks that wait for an answer, which no
\* user can give any more, until they give up, and for no plugin, except one that
\* had connected and not yet registered when it began (socket-server.ts:139-153).
ShutdownEnds ==
    life = "closing" ~> (life # "closing" \/ \E p \in strays : conn[p] = "registered")
=============================================================================
