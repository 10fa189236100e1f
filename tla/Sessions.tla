------------------------------ MODULE Sessions ------------------------------
(***************************************************************************)
(* What the daemon keeps per workspace, composed with the registry: the    *)
(* turns of the connections, the typing heartbeats, the ring buffers of    *)
(* /recent, and the two lookups by which an event finds its session, by    *)
(* name (a delivered reply) and by directory (a Stop hook).                *)
(*                                                                         *)
(* Registry says who is connected under which name; every action of it     *)
(* that removes connections is taken here with its listeners.  A chat is   *)
(* bound to one workspace and stands for its name.  Traces, cancels and    *)
(* overlapping messages of one session are the subject of Turn; a sunset    *)
(* counts as the end of a turn here.                                       *)
(***************************************************************************)
EXTENDS Registry

CONSTANTS
    RingCap,       \* CAP of ring-buffer.ts
    Watched,       \* a name, whose ring buffer is followed; all have the same
    MaxExchanges   \* bound: messages and replies in a behaviour

ASSUME RingAssumption == RingCap \in Nat \ {0} /\ MaxExchanges \in Nat

VARIABLES
    before,     \* the order of byName, a Map: pairs of sessions by registration
    active,     \* registered sessions whose turnState is active
    asked,      \* the chat whose message a session works on
    calls,      \* reply calls the daemon works on
    stops,      \* sessions whose Stop hook has sent its line
    typing,     \* TypingHeartbeat.timers: chats, each tagged with its workspace
    ring,       \* the ring buffer of the watched name, an absent one as empty
    log,        \* history: its last RingCap exchanges since it was evicted
    exchanges   \* messages and replies so far

keptVars == <<before, active, asked, calls, stops, typing, ring, log, exchanges>>
sessionVars == <<vars, keptVars>>

\* here: the connection of the call is still registered.
Call == [from : Plugins, name : Names, chat : Names, here : BOOLEAN]

SessionsTypeOK ==
    /\ before \subseteq Members \X Members
    /\ \A p, q \in Members : p # q => (<<p, q>> \in before <=> <<q, p>> \notin before)
    /\ \A p, q, r \in Members : {<<p, q>>, <<q, r>>} \subseteq before => <<p, r>> \in before
    /\ active \subseteq Members
    /\ asked \in [Plugins -> Names \cup {NoName}]
    /\ calls \subseteq Call
    /\ stops \subseteq Plugins
    /\ typing \subseteq Names
    /\ {ring, log} \subseteq Seq({"in", "out"})
    /\ exchanges \in 0 .. MaxExchanges

SessionsInit ==
    /\ Init
    /\ before = {}
    /\ active = {}
    /\ asked = [p \in Plugins |-> NoName]
    /\ calls = {}
    /\ stops = {}
    /\ typing = {}
    /\ ring = <<>>
    /\ log = <<>>
    /\ exchanges = 0

-----------------------------------------------------------------------------
(* The registry's changes with their listeners *)

\* Mutated forms: the listeners of the heartbeats are not called.
NotifyRemoved_Silent(gone) ==
    /\ active' = active \ gone
    /\ calls' = {[c EXCEPT !.here = @ /\ c.from \notin gone] : c \in calls}
    /\ UNCHANGED <<typing, asked, stops, exchanges>>

\* notifyRemoved, for the sessions that left the registry: their heartbeats
\* stop.  Their Connections are out of reach of every lookup.
NotifyRemoved(gone) ==
    /\ typing' = typing \ {name[p] : p \in gone}
    /\ active' = active \ gone
    /\ calls' = {[c EXCEPT !.here = @ /\ c.from \notin gone] : c \in calls}
    /\ UNCHANGED <<asked, stops, exchanges>>

\* Mutated form: an eviction keeps the buffers.
NotifyEvicted_Keeps(gone) ==
    /\ log' = IF \E p \in gone : name[p] = Watched THEN <<>> ELSE log
    /\ UNCHANGED ring

\* The eviction listener: the ring buffers of the evicted names are deleted.
NotifyEvicted(gone) ==
    IF \E p \in gone : name[p] = Watched THEN ring' = <<>> /\ log' = <<>>
    ELSE UNCHANGED <<ring, log>>

SessionRegisters(p) ==
    /\ HandleRegister(p)
    /\ before' = (before \cup (Members \X {p})) \cap (Members' \X Members')
    /\ LET gone == {q \in Members : conn'[q] # "registered"}
       IN  NotifyRemoved(gone) /\ NotifyEvicted(gone)

SessionCloses(p) ==
    /\ SocketCloses(p)
    /\ before' = before \cap (Members' \X Members')
    /\ NotifyRemoved({p} \cap Members)
    /\ UNCHANGED <<ring, log>>

SessionsReaped(n) ==
    /\ Reap(n)
    /\ before' = before \cap (Members' \X Members')
    /\ NotifyRemoved({recency[i] : i \in 1 .. n})
    /\ UNCHANGED <<ring, log>>

\* The daemon starts again with nothing; a hook that cannot connect gives up.
DaemonForgets ==
    /\ DaemonRestarts
    /\ before' = {}
    /\ active' = {}
    /\ calls' = {}
    /\ stops' = {}
    /\ typing' = {}
    /\ ring' = <<>>
    /\ log' = <<>>
    /\ UNCHANGED <<asked, exchanges>>

\* Claude Code ends with what it worked on.
SessionEnds(p) ==
    /\ PluginExits(p)
    /\ asked' = [asked EXCEPT ![p] = NoName]
    /\ UNCHANGED <<before, active, calls, stops, typing, ring, log, exchanges>>

-----------------------------------------------------------------------------
(* Messages, replies and Stop hooks *)

\* RingBuffer.push: the oldest entry goes when there are more than RingCap.
\* Mutated form: it goes one entry too late.
Shifted_Late(s) == IF Len(s) > RingCap + 1 THEN Tail(s) ELSE s

Shifted(s) == IF Len(s) > RingCap THEN Tail(s) ELSE s

LastOf(s, k) == SubSeq(s, IF Len(s) > k THEN Len(s) - k + 1 ELSE 1, Len(s))

Push(n, e) ==
    IF n # Watched THEN UNCHANGED <<ring, log>>
    ELSE /\ ring' = Shifted(Append(ring, e))
         /\ log' = LastOf(Append(log, e), RingCap)

\* A message in the chat bound to the workspace of p is delivered.  A plugin
\* that has just gone does not read it.
Inbound(p) ==
    /\ exchanges < MaxExchanges
    /\ p \in Members
    /\ exchanges' = exchanges + 1
    /\ active' = active \cup {p}
    /\ typing' = typing \cup {name[p]}
    /\ asked' = IF p \in up THEN [asked EXCEPT ![p] = name[p]] ELSE asked
    /\ Push(name[p], "in")
    /\ UNCHANGED <<vars, before, calls, stops>>

\* Claude Code calls reply; one call at a time is enough here.
Reply(p) ==
    /\ exchanges < MaxExchanges
    /\ asked[p] # NoName
    /\ \A c \in calls : c.from # p
    /\ HandleLine(p)
    /\ exchanges' = exchanges + 1
    /\ calls' = calls \cup {[from |-> p, name |-> name[p], chat |-> asked[p], here |-> TRUE]}
    /\ UNCHANGED <<before, active, asked, stops, typing, ring, log>>

\* Mutated form: the session of the calling process is looked up anew.
ReplyDelivered_BySession(c) ==
    /\ c \in calls
    /\ calls' = calls \ {c}
    /\ typing' = typing \ {c.chat}
    /\ Push(c.name, "out")
    /\ active' = active \ {p \in Members : CwdOf[p] = CwdOf[c.from]}
    /\ UNCHANGED <<vars, before, asked, stops, exchanges>>

\* toolReply and onReplyDelivered.  The workspace is the name the connection
\* had when it called, whoever has it now.
ReplyDelivered(c) ==
    /\ c \in calls
    /\ calls' = calls \ {c}
    /\ typing' = typing \ {c.chat}
    /\ Push(c.name, "out")
    /\ active' = active \ {p \in Members : name[p] = c.name}
    /\ UNCHANGED <<vars, before, asked, stops, exchanges>>

\* A reply fails at its send, where typing stops, or before it.
ReplyFails(c) ==
    /\ c \in calls
    /\ calls' = calls \ {c}
    /\ typing' \in {typing, typing \ {c.chat}}
    /\ UNCHANGED <<vars, before, active, asked, stops, ring, log, exchanges>>

\* Claude Code is done; its Stop hook sends the directory it runs in.
CcStops(p) ==
    /\ asked[p] # NoName
    /\ asked' = [asked EXCEPT ![p] = NoName]
    /\ stops' = stops \cup {p}
    /\ UNCHANGED <<vars, before, active, calls, typing, ring, log, exchanges>>

\* Mutated form: the session is looked up by the name of the directory.
Matching_ByBase(p) == {q \in Members : BaseOf[CwdOf[q]] = BaseOf[CwdOf[p]]}

\* registry.list() filtered by the directory of a hook.
Matching(p) == {q \in Members : CwdOf[q] = CwdOf[p]}

\* ccStopHandler: the first session of that directory is taken for the one that
\* stopped.
HandleStop(p) ==
    /\ p \in stops
    /\ stops' = stops \ {p}
    /\ \/ Matching(p) = {} /\ UNCHANGED <<active, typing>>
       \/ \E first \in Matching(p) :
             /\ \A q \in Matching(p) \ {first} : <<first, q>> \in before
             /\ active' = active \ {first}
             /\ typing' = typing \ {name[first]}
    /\ UNCHANGED <<vars, before, asked, calls, ring, log, exchanges>>

-----------------------------------------------------------------------------
SessionsNext ==
    \/ \E p \in Plugins :
          \/ (PluginStarts(p) \/ PluginConnects(p) \/ PluginSeesClose(p) \/ HandleLine(p))
                /\ UNCHANGED keptVars
          \/ SessionEnds(p) \/ SessionRegisters(p) \/ SessionCloses(p)
          \/ Inbound(p) \/ Reply(p) \/ CcStops(p) \/ HandleStop(p)
    \/ \E n \in 1 .. Len(recency) : SessionsReaped(n)
    \/ DaemonForgets
    \/ \E c \in calls : ReplyDelivered(c) \/ ReplyFails(c)

SessionsSpec == SessionsInit /\ [][SessionsNext]_sessionVars

-----------------------------------------------------------------------------
\* The daemon shows "typing" only for a session it could hear a reply from:
\* evictions, stalls, closed sockets and late replies leave no dot behind for a
\* workspace that is gone (index.ts:103-107).
TypingHasSession == SessionsTypeOK /\ typing \subseteq {name[p] : p \in Members}

\* /recent holds, in order, exactly the last RingCap exchanges delivered under the
\* name since it was last evicted, however often the sessions behind it changed
\* (ring-buffer.ts:5-8).  "Since" is the time of delivery: the reply of a session
\* that was evicted while it was being sent is among them (index.ts:149-154).
RecentIsLatest == ring = log

\* The turn of a session whose connection lasts is ended by its own reply, by a
\* Stop hook from its directory, or by a late reply of a lost connection that had
\* its name, and by nothing else: the lookups by name and by directory reach no
\* further into the other sessions (index.ts:149-154, 207-220).
OthersTurnsStand ==
    [][\A p \in Members :
          (p \in active /\ p \notin active' /\ conn'[p] = "registered") =>
              \/ \E c \in calls \ calls' : c.from = p \/ (c.name = name[p] /\ ~c.here)
              \/ \E q \in stops \ stops' : CwdOf[q] = CwdOf[p]]_sessionVars
=============================================================================
