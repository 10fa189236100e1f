------------------------------ MODULE Registry ------------------------------
(***************************************************************************)
(* The registry of workspaces (src/daemon/registry.ts) with the handlers   *)
(* of the socket server that fill and empty it (register, close, reaper)   *)
(* and the plugins that connect, lose their connection and come back.      *)
(*                                                                         *)
(* A plugin has at most one socket.  conn is the daemon's end of it, up    *)
(* the plugin's.  The registry's Map is the sequence recency, its entries  *)
(* by their last activity.  The ring buffers and typing heartbeats that    *)
(* the registry's listeners clean up are not modelled here.  A daemon has  *)
(* far fewer connections than the 999 names of a basename.                 *)
(***************************************************************************)
EXTENDS Integers, SequencesExt

CONSTANTS
    Plugins,      \* plugin processes, one per Claude Code session
    CwdOf,        \* their working directories
    BaseOf,       \* the last component of a working directory
    CapEnv,       \* CLAUDE_DISCORD_WORKSPACE_CAP, or Unset
    TrimEnv,      \* CLAUDE_DISCORD_WORKSPACE_TRIM_TARGET, or Unset
    Unset,        \* an environment variable that is not set
    DefaultCap, DefaultTrim, CapMin, CapMax,
    Troubles      \* what may go wrong, a subset of TroubleKinds

TroubleKinds ==
    {"stall",    \* connections are silent for longer than the timeout
     "restart"}  \* the daemon ends and is started again

ASSUME CapAssumption ==
    /\ {DefaultCap, DefaultTrim, CapMin, CapMax} \subseteq Nat
    /\ 0 < CapMin /\ CapMin <= DefaultTrim
    /\ DefaultTrim <= DefaultCap /\ DefaultCap <= CapMax
    /\ {CapEnv, TrimEnv} \subseteq Nat \cup {Unset} /\ Unset \notin Int
ASSUME TroublesAssumption == Troubles \subseteq TroubleKinds

VARIABLES
    alive,    \* plugin processes that run
    up,       \* plugins that hold a socket
    conn,     \* the daemon's end: none, accepted, registered or closed
    name,     \* Connection.workspace while registered, as <<basename, number>>
    recency   \* byName: the registered plugins, least recently active first

vars == <<alive, up, conn, name, recency>>

Members == ToSet(recency)

\* The bare basename is number 1, basename-2 is number 2, and so on.
Names == {BaseOf[CwdOf[p]] : p \in Plugins} \X Nat
NoName == <<>>

TypeOK ==
    /\ alive \subseteq Plugins
    /\ up \subseteq alive
    /\ conn \in [Plugins -> {"none", "accepted", "registered", "closed"}]
    /\ name \in [Plugins -> Names \cup {NoName}]
    /\ recency \in Seq(Plugins)
    /\ \A i, j \in DOMAIN recency : recency[i] = recency[j] => i = j

Init ==
    /\ alive = {}
    /\ up = {}
    /\ conn = [p \in Plugins |-> "none"]
    /\ name = [p \in Plugins |-> NoName]
    /\ recency = <<>>

-----------------------------------------------------------------------------
(* WorkspaceRegistry *)

\* readEnvInt: a value out of range is replaced by the fallback, an unset one
\* too, and the fallback is not compared with the range.
ReadEnvInt(value, fallback, min, max) ==
    IF value # Unset /\ min <= value /\ value <= max THEN value ELSE fallback

Cap  == ReadEnvInt(CapEnv, DefaultCap, CapMin, CapMax)
Trim == ReadEnvInt(TrimEnv, DefaultTrim, CapMin, Cap)

\* The end of Array.slice(0, end) on an array of length len: a negative end
\* counts from the end of the array.
SliceEnd(len, end) ==
    IF end >= 0 THEN IF end <= len THEN end ELSE len
    ELSE IF len + end > 0 THEN len + end ELSE 0

\* Mutated forms: the most recently active go first; one too few goes.
EvictTo_Newest(s) == SubSeq(s, 1, Len(s) - SliceEnd(Len(s), Len(s) - Trim))

EvictTo_OneLess(s) == SubSeq(s, SliceEnd(Len(s), Len(s) - Cap - 1) + 1, Len(s))

\* evictTo: what stays of s, the connections by activity.
EvictTo(s) == SubSeq(s, SliceEnd(Len(s), Len(s) - Trim) + 1, Len(s))

Without(s, p) == RemoveAt(s, CHOOSE i \in DOMAIN s : s[i] = p)

\* Connection.close of those in gone.
Shut(f, gone) ==
    [p \in Plugins |-> IF p \in gone /\ f[p] = "registered" THEN "closed" ELSE f[p]]

\* Nobody reads the name of a Connection that left the registry.
Unnamed(f, gone) == [p \in Plugins |-> IF p \in gone THEN NoName ELSE f[p]]

\* handleRegister's search for a name that no live connection has.
Taken(b, k) == \E p \in Members : name[p] = <<b, k>>

\* Mutated form: no suffix.
FreeName_Bare(p) == <<BaseOf[CwdOf[p]], 1>>

FreeName(p) ==
    LET base == BaseOf[CwdOf[p]] IN
    <<base, CHOOSE k \in 1 .. Len(recency) + 1 :
            ~Taken(base, k) /\ \A j \in 1 .. k - 1 : Taken(base, j)>>

-----------------------------------------------------------------------------
(* Plugins *)

\* Claude Code starts and spawns the plugin.
PluginStarts(p) ==
    /\ p \notin alive
    /\ conn[p] = "none"
    /\ alive' = alive \cup {p}
    /\ UNCHANGED <<up, conn, name, recency>>

\* connectLoop: connect and send the register line.
PluginConnects(p) ==
    /\ p \in alive /\ p \notin up
    /\ conn[p] = "none"
    /\ up' = up \cup {p}
    /\ conn' = [conn EXCEPT ![p] = "accepted"]
    /\ UNCHANGED <<alive, name, recency>>

\* onClose: the daemon closed the socket, connectLoop starts again.
PluginSeesClose(p) ==
    /\ p \in up
    /\ conn[p] = "closed"
    /\ up' = up \ {p}
    /\ conn' = [conn EXCEPT ![p] = "none"]
    /\ UNCHANGED <<alive, name, recency>>

\* Claude Code ends, and with it the plugin.
PluginExits(p) ==
    /\ p \in alive
    /\ alive' = alive \ {p}
    /\ up' = up \ {p}
    /\ UNCHANGED <<conn, name, recency>>

-----------------------------------------------------------------------------
(* The socket server *)

\* Mutated form: the guard against a second register is missing.
HandleRegister_Twice(p) ==
    /\ conn[p] \in {"accepted", "registered"}
    /\ LET all  == Append(recency, p)
           kept == IF Len(all) > Cap THEN EvictTo(all) ELSE all
           gone == ToSet(all) \ ToSet(kept)
       IN  /\ name' = Unnamed([name EXCEPT ![p] = FreeName(p)], gone)
           /\ conn' = Shut([conn EXCEPT ![p] = "registered"], gone)
           /\ recency' = kept
    /\ UNCHANGED <<alive, up>>

\* The register line: name the connection and enter it in the registry, which
\* evicts when it is over its cap.  The free name makes the replacement of an
\* entry of the same name in register() unreachable.
HandleRegister(p) ==
    /\ conn[p] = "accepted"
    /\ LET all  == Append(recency, p)
           kept == IF Len(all) > Cap THEN EvictTo(all) ELSE all
           gone == ToSet(all) \ ToSet(kept)
       IN  /\ name' = Unnamed([name EXCEPT ![p] = FreeName(p)], gone)
           /\ conn' = Shut([conn EXCEPT ![p] = "registered"], gone)
           /\ recency' = kept
    /\ UNCHANGED <<alive, up>>

\* Any other line of a registered plugin: handleLine touches the connection.
HandleLine(p) ==
    /\ conn[p] = "registered"
    /\ p \in up
    /\ recency' = Append(Without(recency, p), p)
    /\ UNCHANGED <<alive, up, conn, name>>

\* The 'close' event of a socket whose plugin is gone.  A connection that was
\* closed by the daemon is not looked for in the registry.
SocketCloses(p) ==
    /\ p \notin up
    /\ conn[p] # "none"
    /\ conn' = [conn EXCEPT ![p] = "none"]
    /\ IF conn[p] = "registered"
       THEN name' = Unnamed(name, {p}) /\ recency' = Without(recency, p)
       ELSE UNCHANGED <<name, recency>>
    /\ UNCHANGED <<alive, up>>

\* Mutated form: the connection is closed, which its close event takes for
\* one that left the registry already.
Reap_ClosesOnly(n) ==
    /\ "stall" \in Troubles
    /\ n \in 1 .. Len(recency)
    /\ conn' = [p \in Plugins |-> IF p \in {recency[i] : i \in 1 .. n} THEN "closed" ELSE conn[p]]
    /\ UNCHANGED <<alive, up, name, recency>>

\* The reaper closes the connections that were silent for more than 30 s: the
\* n least recently active.
Reap(n) ==
    /\ "stall" \in Troubles
    /\ n \in 1 .. Len(recency)
    /\ LET gone == {recency[i] : i \in 1 .. n}
       IN  /\ conn' = Shut(conn, gone)
           /\ name' = Unnamed(name, gone)
           /\ recency' = SubSeq(recency, n + 1, Len(recency))
    /\ UNCHANGED <<alive, up>>

DaemonRestarts ==
    /\ "restart" \in Troubles
    /\ recency' = <<>>
    /\ conn' = [p \in Plugins |-> IF p \in up THEN "closed" ELSE "none"]
    /\ name' = Unnamed(name, Plugins)
    /\ UNCHANGED <<alive, up>>

-----------------------------------------------------------------------------
Next ==
    \/ \E p \in Plugins :
          \/ PluginStarts(p) \/ PluginConnects(p) \/ PluginSeesClose(p) \/ PluginExits(p)
          \/ HandleRegister(p) \/ HandleLine(p) \/ SocketCloses(p)
    \/ \E n \in 1 .. Len(recency) : Reap(n)
    \/ DaemonRestarts

Spec == Init /\ [][Next]_vars

-----------------------------------------------------------------------------
\* A workspace name belongs to one live connection, whatever sessions start
\* in the same directory, reconnect, or are evicted (socket-server.ts:302-306).
NamesUnique == \A p, q \in Members : name[p] = name[q] => p = q

\* The registry holds the open registered connections and no other: an entry
\* whose socket is closed would swallow messages and keep its name from its
\* own plugin.
ListedAreOpen == \A p \in Plugins : p \in Members <=> conn[p] = "registered"

\* The registry never holds more than CLAUDE_DISCORD_WORKSPACE_CAP entries
\* (README.md:287).
CapHolds == Len(recency) <= Cap

\* What every lookup in the registry relies on.
RegistrySound == TypeOK /\ NamesUnique /\ ListedAreOpen /\ CapHolds
=============================================================================
