------------------------------ MODULE Streams ------------------------------
(***************************************************************************)
(* The two streams of lines the daemon reads in pieces, and the notices    *)
(* that follow from them: the socket of a plugin (LineBuffer of            *)
(* src/protocol/ndjson.ts) and the transcripts of its session, a main one  *)
(* and those of its sub-agents (src/daemon/transcript-watcher.ts), which   *)
(* tell of the API errors of Claude Code.  A chat that waits for a reply   *)
(* is told of an error once per throttle window (src/daemon/error-         *)
(* notice.ts).                                                             *)
(*                                                                         *)
(* A stream is a sequence of cells.  A newline is a cell; the rest of a    *)
(* line is one cell, its body, so a piece may end before or after the      *)
(* newline.  A file that does not exist is one without cells: a watched    *)
(* file that is empty starts at offset 0 either way.  A change of a file   *)
(* between the stat and the read of a scan amounts to one before or after  *)
(* the poll: the read takes what is there and moves the offset by it.      *)
(***************************************************************************)
EXTENDS Naturals, Sequences, FiniteSets

CONSTANTS
    Main,      \* the transcript of the session
    Subs,      \* the transcripts of its sub-agents
    MaxLines,  \* bound: lines written to the transcripts; line n is the nth
    Errors,    \* those that record an API error
    MaxRead,   \* MAX_READ_BYTES, in cells
    Chats,     \* chats bound to the workspace
    Beat,      \* the body of a heartbeat; that of a reply is its chat
    MaxSent,   \* bound: lines the plugin sends
    Faults     \* what may go wrong, a subset of FaultKinds

FaultKinds ==
    {"shrink",      \* a transcript is cut back to an earlier end of a line
     "replyFails"}  \* a reply is refused

Files == {Main} \cup Subs
NL == 0

ASSUME FilesAssumption == Main \notin Subs /\ IsFiniteSet(Subs)
ASSUME BoundsAssumption == {MaxLines, MaxSent} \subseteq Nat /\ MaxRead \in Nat \ {0}
ASSUME BodiesAssumption == Errors \subseteq 1 .. MaxLines /\ NL \notin Chats \cup {Beat}
ASSUME FaultsAssumption == Faults \subseteq FaultKinds

VARIABLES
    file,      \* what each transcript holds
    lines,     \* lines written so far
    shrunk,    \* transcripts that were cut back
    dirKnown,  \* the subagents directory is in subagentDirs
    tracked,   \* transcripts with an entry
    base,      \* the offset an entry began with
    offset,    \* Entry.offset
    partial,   \* Entry.partial
    reported,  \* onApiError calls, by line
    sent,      \* bodies of the lines the plugin sent
    wire,      \* cells on their way to the daemon
    buf,       \* LineBuffer.buf
    handled,   \* texts of the lines handed to handleLine
    awaiting,  \* chats with a typing heartbeat for the workspace
    replying,  \* chats to which a reply is on its way
    window,    \* chats whose throttle slot is claimed
    started,   \* notices sent in the current window, by chat
    sending    \* chats with a notice on its way

fileVars   == <<file, lines, shrunk>>
tailVars   == <<dirKnown, tracked, base, offset, partial, reported>>
socketVars == <<sent, wire, buf, handled>>
noticeVars == <<window, started, sending>>
vars == <<fileVars, tailVars, socketVars, awaiting, replying, noticeVars>>

Bodies == Chats \cup {Beat}

TypeOK ==
    /\ file \in [Files -> Seq(0 .. MaxLines)]
    /\ lines \in 0 .. MaxLines
    /\ shrunk \subseteq Files
    /\ dirKnown \in BOOLEAN
    /\ tracked \subseteq Files
    /\ base \in [Files -> Nat]
    /\ offset \in [Files -> Nat]
    /\ partial \in [Files -> Seq(0 .. MaxLines)]
    /\ reported \in [1 .. MaxLines -> Nat]
    /\ sent \in Seq(Bodies)
    /\ wire \in Seq(Bodies \cup {NL})
    /\ buf \in Seq(Bodies \cup {NL})
    /\ handled \in Seq(Seq(Bodies))
    /\ awaiting \subseteq Chats
    /\ replying \subseteq Chats
    /\ window \subseteq Chats
    /\ started \in [Chats -> Nat]
    /\ sending \subseteq Chats

\* The session may have written to its transcripts before the daemon starts.
Init ==
    /\ file = [f \in Files |-> <<>>]
    /\ lines = 0
    /\ shrunk = {}
    /\ dirKnown = FALSE
    /\ tracked = {}
    /\ base = [f \in Files |-> 0]
    /\ offset = [f \in Files |-> 0]
    /\ partial = [f \in Files |-> <<>>]
    /\ reported = [n \in 1 .. MaxLines |-> 0]
    /\ sent = <<>>
    /\ wire = <<>>
    /\ buf = <<>>
    /\ handled = <<>>
    /\ awaiting = {}
    /\ replying = {}
    /\ window = {}
    /\ started = [c \in Chats |-> 0]
    /\ sending = {}

-----------------------------------------------------------------------------
(* Lines of a sequence of cells *)

Ends(s) == {i \in DOMAIN s : s[i] = NL}

\* The last end of a line before position i, or 0.
EndBefore(s, i) ==
    LET before == {e \in Ends(s) : e < i} IN
    IF before = {} THEN 0 ELSE CHOOSE e \in before : \A j \in before : j <= e

\* The text of the line that ends at e, and what follows the last newline.
LineAt(s, e) == SubSeq(s, EndBefore(s, e) + 1, e - 1)
Rest(s) == SubSeq(s, EndBefore(s, Len(s) + 1) + 1, Len(s))

\* The texts of the complete lines but the blank ones, in order.
Told(s) == {e \in Ends(s) : LineAt(s, e) # <<>>}
NthTold(s, k) == CHOOSE e \in Told(s) : Cardinality({j \in Told(s) : j <= e}) = k
Lines(s) == [k \in 1 .. Cardinality(Told(s)) |-> LineAt(s, NthTold(s, k))]

-----------------------------------------------------------------------------
(* Claude Code writes its transcripts *)

Complete(s) == s # <<>> => s[Len(s)] = NL

\* The body of a line, with its newline or without it as yet.
WritesLine(f, cells) ==
    /\ lines < MaxLines
    /\ Complete(file[f])
    /\ lines' = lines + 1
    /\ file' = [file EXCEPT ![f] = @ \o <<lines + 1>> \o cells]
    /\ UNCHANGED <<shrunk, tailVars, socketVars, awaiting, replying, noticeVars>>

EndsLine(f) ==
    /\ ~Complete(file[f])
    /\ file' = [file EXCEPT ![f] = Append(@, NL)]
    /\ UNCHANGED <<lines, shrunk, tailVars, socketVars, awaiting, replying, noticeVars>>

\* Somebody cuts a transcript back to an end of a line, or to nothing.
Shrinks(f, e) ==
    /\ "shrink" \in Faults /\ f \notin shrunk
    /\ e \in {0} \cup Ends(file[f]) /\ e < Len(file[f])
    /\ file' = [file EXCEPT ![f] = SubSeq(@, 1, e)]
    /\ shrunk' = shrunk \cup {f}
    /\ UNCHANGED <<lines, tailVars, socketVars, awaiting, replying, noticeVars>>

-----------------------------------------------------------------------------
(* ErrorNotifier *)

\* Mutated form: the slot is claimed when the notice is out.
Notify_ClaimsLate(C) ==
    LET fresh == C \ window IN
    /\ started' = [c \in Chats |-> IF c \in fresh THEN started[c] + 1 ELSE started[c]]
    /\ sending' = sending \cup fresh
    /\ window' = window \cup (C \cap sending)

\* notify, for each chat of C: nothing in its throttle window, otherwise claim
\* the slot and then send, whatever becomes of the send.
Notify(C) ==
    LET fresh == C \ window IN
    /\ window' = window \cup fresh
    /\ started' = [c \in Chats |-> IF c \in fresh THEN started[c] + 1 ELSE started[c]]
    /\ sending' = sending \cup fresh

NoticeEnds(c) ==
    /\ c \in sending
    /\ sending' = sending \ {c}
    /\ UNCHANGED <<fileVars, tailVars, socketVars, awaiting, replying, window, started>>

\* A minute after the slot was claimed.
WindowEnds(c) ==
    /\ c \in window
    /\ window' = window \ {c}
    /\ started' = [started EXCEPT ![c] = 0]
    /\ UNCHANGED <<fileVars, tailVars, socketVars, awaiting, replying, sending>>

-----------------------------------------------------------------------------
(* TranscriptWatcher *)

Exists(f) == file[f] # <<>>

\* A PostToolUse hook tells where the main transcript is: it and, the first
\* time, what is in the subagents directory are watched from their ends.
Observe ==
    LET there == IF dirKnown THEN {} ELSE {f \in Subs : Exists(f)}
        new   == ({Main} \cup there) \ tracked
        start == [f \in Files |-> IF f \in new THEN Len(file[f]) ELSE offset[f]]
    IN  /\ tracked' = tracked \cup new
        /\ offset' = start
        /\ base' = [f \in Files |-> IF f \in new THEN start[f] ELSE base[f]]
        /\ dirKnown' = TRUE
        /\ UNCHANGED <<fileVars, partial, reported, socketVars, awaiting, replying, noticeVars>>

\* Mutated form: the directory is looked at only once.
Discovered_Never == {}

\* The transcripts a poll finds in the directory: watched from offset 0.
Discovered == IF dirKnown THEN {f \in Subs : Exists(f)} \ tracked ELSE {}

\* The cells a scan of f reads, at most MaxRead of them.
Read(f) ==
    LET end == IF Len(file[f]) <= offset[f] + MaxRead THEN Len(file[f])
               ELSE offset[f] + MaxRead
    IN  SubSeq(file[f], offset[f] + 1, end)

\* Mutated form: the offset goes to the size of the file.
NewOffset_Size(f) == Len(file[f])

\* The offset moves by what was read, or back to the end of a shorter file.
NewOffset(f) ==
    IF Len(file[f]) <= offset[f] THEN Len(file[f]) ELSE offset[f] + Len(Read(f))

Chunk(f) == partial[f] \o Read(f)

\* The lines of the chunk that parseApiError takes: the body of an error record
\* and nothing else.
Found(f, n) == n \in Errors /\ \E e \in Ends(Chunk(f)) : LineAt(Chunk(f), e) = <<n>>

\* onApiError, called with the errors a poll found: a notice to the chats that
\* wait for a reply from the workspace.
OnApiError(found) == Notify(IF found = {} THEN {} ELSE awaiting)

\* One pass of the poll timer: the new files, then a scan of every entry.
Poll ==
    LET all   == tracked \cup Discovered
        found == {n \in 1 .. MaxLines : \E f \in all : Found(f, n)}
    IN  /\ tracked' = all
        /\ offset' = [f \in Files |-> IF f \in all THEN NewOffset(f) ELSE offset[f]]
        /\ partial' = [f \in Files |-> IF f \in all THEN Rest(Chunk(f)) ELSE partial[f]]
        /\ reported' = [n \in 1 .. MaxLines |->
                           reported[n] + Cardinality({f \in all : Found(f, n)})]
        /\ OnApiError(found)
        /\ UNCHANGED <<fileVars, dirKnown, base, socketVars, awaiting, replying>>

-----------------------------------------------------------------------------
(* The socket of the plugin *)

PluginSends(b) ==
    /\ Len(sent) < MaxSent
    /\ sent' = Append(sent, b)
    /\ wire' = wire \o <<b, NL>>
    /\ UNCHANGED <<fileVars, tailVars, buf, handled, awaiting, replying, noticeVars>>

\* Mutated form: one line per piece.
Push_First(piece) ==
    LET s == buf \o piece IN
    [lines |-> IF Lines(s) = <<>> THEN <<>> ELSE <<Head(Lines(s))>>, rest |-> Rest(s)]

\* LineBuffer.push: the lines it hands over, and what is kept.
Push(piece) == LET s == buf \o piece IN [lines |-> Lines(s), rest |-> Rest(s)]

\* The daemon reads the first k cells.  A reply is on its way to its chat.
DaemonReads(k) ==
    /\ k \in 1 .. Len(wire)
    /\ LET pushed == Push(SubSeq(wire, 1, k)) IN
          /\ handled' = handled \o pushed.lines
          /\ buf' = pushed.rest
          /\ replying' = replying \cup
                {c \in Chats : \E i \in DOMAIN pushed.lines : pushed.lines[i] = <<c>>}
    /\ wire' = SubSeq(wire, k + 1, Len(wire))
    /\ UNCHANGED <<fileVars, tailVars, sent, awaiting, noticeVars>>

-----------------------------------------------------------------------------
(* The typing heartbeat: who waits for a reply *)

Inbound(c) ==
    /\ awaiting' = awaiting \cup {c}
    /\ UNCHANGED <<fileVars, tailVars, socketVars, replying, noticeVars>>

\* toolReply ends the heartbeat, and tells of a failure.
ReplyEnds(c) ==
    /\ c \in replying
    /\ replying' = replying \ {c}
    /\ awaiting' = awaiting \ {c}
    /\ UNCHANGED noticeVars \/ ("replyFails" \in Faults /\ Notify({c}))
    /\ UNCHANGED <<fileVars, tailVars, socketVars>>

\* The five minutes are over: onStuck.
TypingCap(c) ==
    /\ c \in awaiting
    /\ awaiting' = awaiting \ {c}
    /\ Notify({c})
    /\ UNCHANGED <<fileVars, tailVars, socketVars, replying>>

\* The Stop hook, or the workspace leaves the registry: stopByWorkspace.
StopByWorkspace ==
    /\ awaiting # {}
    /\ awaiting' = {}
    /\ UNCHANGED <<fileVars, tailVars, socketVars, replying, noticeVars>>

-----------------------------------------------------------------------------
Next ==
    \/ \E f \in Files :
          \/ WritesLine(f, <<>>) \/ WritesLine(f, <<NL>>) \/ EndsLine(f)
          \/ \E e \in 0 .. Len(file[f]) : Shrinks(f, e)
    \/ Observe
    \/ Poll
    \/ \E b \in Bodies : PluginSends(b)
    \/ \E k \in 1 .. Len(wire) : DaemonReads(k)
    \/ \E c \in Chats : Inbound(c) \/ ReplyEnds(c) \/ TypingCap(c)
                        \/ NoticeEnds(c) \/ WindowEnds(c)
    \/ StopByWorkspace

Spec == Init /\ [][Next]_vars

\* The poll timer fires.
Fairness == WF_vars(Poll)

LiveSpec == Spec /\ Fairness

-----------------------------------------------------------------------------
\* What was read of a transcript since it is watched.
Seen(f) == SubSeq(file[f], base[f] + 1, offset[f])

Holds(s, n) == \E e \in Ends(s) : LineAt(s, e) = <<n>>

\* "historical errors are never replayed" (transcript-watcher.ts:14), and no
\* other one is missed or told twice, whatever pieces the scans read and
\* whichever files appear when: the errors reported are those whose whole line
\* was read since the file is watched, and the partial line is the rest of
\* that.  A file that was cut back can lose a line, and still repeats none.
TailIsExact ==
    /\ TypeOK
    /\ \A f \in tracked \ shrunk :
          /\ base[f] <= offset[f] /\ offset[f] <= Len(file[f])
          /\ partial[f] = Rest(Seen(f))
          /\ \A n \in Errors : (\E i \in DOMAIN file[f] : file[f][i] = n)
                 => reported[n] = (IF Holds(Seen(f), n) THEN 1 ELSE 0)
    /\ \A n \in 1 .. MaxLines : reported[n] <= 1

\* The daemon handles the lines of the plugin whole, once and in the order they
\* were sent in, whatever pieces the socket delivers (ndjson.ts:22).
LinesInOrder ==
    handled \o Lines(buf \o wire) = [i \in DOMAIN sent |-> <<sent[i]>>]

\* A burst of failures - API errors, refused replies, the typing cap - makes one
\* notice per channel and minute, "even if sends race" (error-notice.ts:67).
OneNotice == \A c \in Chats : started[c] <= 1

\* The watcher catches up again and again: no error written to a watched
\* transcript, or to one of a sub-agent that appeared later, stays unreported.
\* A poll that reads a part only is followed by others.
ErrorsSurface ==
    []<>(\A f \in Files \ shrunk, n \in Errors :
            (/\ f \in tracked \/ (f \in Subs /\ dirKnown)
             /\ Holds(SubSeq(file[f], base[f] + 1, Len(file[f])), n))
                => reported[n] = 1)
=============================================================================
