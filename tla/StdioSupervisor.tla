--------------------------- MODULE StdioSupervisor ----------------------------
(***************************************************************************)
(* The supervisor of a child process: ChildProcessManager and StdioHandler *)
(* on its two pipes, HookMessageParser on its stderr lines, the scanner's  *)
(* EventLog, and what RunCommand does when the child exits.                *)
(*                                                                         *)
(* stdout is a sequence of byte positions in which secrets occupy          *)
(* intervals.  stderr is a sequence of lines, each written in two halves,  *)
(* half 2k of line k ending in the newline; a secret or a hook message     *)
(* spans both halves of its line.  The child writes and dies when it       *)
(* likes, and the pipes hand the parent any chunk of what was written.     *)
(* One secret is loaded, so an event is identified by its channel.         *)
(***************************************************************************)
EXTENDS Integers, Sequences, FiniteSets

CONSTANTS Scripts,     \* what the child would write
          Settings,    \* the channel modes considered, a set of functions
          MaxExpiries  \* bound: times the dedup TTL may run out

Channel == {"stdout", "stderr", "child_process", "dns", "network"}
Mode    == {"block", "warn", "off"}

(* plain     ordinary text                                                 *)
(* leak      ordinary text holding the secret                               *)
(* args, env "Child process leak" messages of the hooks                     *)
(* dns       "DNS leak" message whose hostname holds the secret verbatim    *)
(* dnsMiss   the same for a hostname in which the parent's scan finds none  *)
(* warning   "DNS warning" message                                          *)
(* alien     a child process message that names no secret of the parent     *)
Kind == {"plain", "leak", "args", "env", "dns", "dnsMiss", "warning", "alien"}

ASSUME ScriptsAssumption ==
    \A s \in Scripts :
        /\ s.length \in Nat
        /\ \A i \in s.secrets : i.first \in 1 .. s.length /\ i.last \in i.first .. s.length
        /\ s.err \in Seq(Kind)
        /\ s.terminated \in BOOLEAN   \* does the last line end in a newline?

ASSUME SettingsAssumption == Settings \subseteq [Channel -> Mode] /\ MaxExpiries \in Nat

VARIABLES
    script, modes,
    child,        \* "running", "exited"
    status,       \* how it exited: a number, BySignal, or NoCode
    killed,       \* SIGTERM sent to the child
    outWritten, outRead, \* bytes of stdout the child wrote, the parent handled
    cuts,         \* positions after which a stdout chunk ended
    exposed,      \* stdout secrets printed in plain
    errWritten, errRead, \* halves of stderr written, received
    remainder,    \* first half of stderrRemainder (errRead + 1: it is empty)
    errEnded,     \* stderr 'end' has been handled
    handled,      \* halves that went through handleStderrLine
    dropped,      \* halves a blocking line left unhandled
    shown,        \* stderr halves printed as they are
    forceExit,
    recent,       \* channels whose last event is younger than the dedup TTL
    events,       \* number of events recorded, by channel
    detected,     \* channels on which a scan found the secret
    expiries,
    parent,       \* "running", "done", "interrupted"
    exitCode

outVars  == <<outWritten, outRead, cuts, exposed>>
errVars  == <<errWritten, errRead, remainder, errEnded, handled, dropped, shown>>
logVars  == <<recent, events, detected, expiries>>
procVars == <<child, status, killed, forceExit>>
exitVars == <<parent, exitCode>>
vars == <<script, modes, outVars, errVars, logVars, procVars, exitVars>>

-------------------------------------------------------------------------------
Halves == 1 .. 2 * Len(script.err)
NoCode   == -1   \* not exited yet
BySignal == -2   \* code null, signal set

Init ==
    /\ script \in Scripts /\ modes \in Settings
    /\ child = "running" /\ status = NoCode /\ killed = FALSE
    /\ outWritten = 0 /\ outRead = 0 /\ cuts = {} /\ exposed = {}
    /\ errWritten = 0 /\ errRead = 0 /\ remainder = 1 /\ errEnded = FALSE
    /\ handled = {} /\ dropped = {} /\ shown = {}
    /\ forceExit = FALSE
    /\ recent = {} /\ events = [c \in Channel |-> 0] /\ detected = {} /\ expiries = 0
    /\ parent = "running" /\ exitCode = NoCode

(* Mutation: no look into the dedup cache. *)
RecordTwice(found) ==
    /\ detected' = detected \cup found
    /\ recent' = recent \cup found
    /\ events' = [c \in Channel |-> IF c \in found THEN events[c] + 1 ELSE events[c]]
    /\ UNCHANGED expiries

(* EventLog.record for every channel in which a scan of one handler found
   the secret: a duplicate leaves no second event. *)
Record(found) ==
    /\ detected' = detected \cup found
    /\ recent' = recent \cup found
    /\ events' = [c \in Channel |-> IF c \in found \ recent THEN events[c] + 1 ELSE events[c]]
    /\ UNCHANGED expiries

(* Mutation: the child is killed, the exit status is left to it. *)
OnBlockKill(blocked) ==
    /\ killed' = (killed \/ (blocked /\ child = "running"))
    /\ UNCHANGED <<child, status, forceExit>>

(* onBlock, called by a handler whose scan blocked. *)
OnBlock(blocked) ==
    /\ forceExit' = (forceExit \/ blocked)
    /\ killed' = (killed \/ (blocked /\ child = "running"))
    /\ UNCHANGED <<child, status>>

(* DedupCache: a record older than the TTL no longer makes a duplicate. *)
Expire ==
    /\ parent = "running"
    /\ expiries < MaxExpiries
    /\ \E c \in recent : recent' = recent \ {c}
    /\ expiries' = expiries + 1
    /\ UNCHANGED <<script, modes, outVars, errVars, events, detected, procVars, exitVars>>

-------------------------------------------------------------------------------
(* The child. *)

WriteOut ==
    /\ child = "running"
    /\ \E w \in (outWritten + 1) .. script.length : outWritten' = w
    /\ UNCHANGED <<script, modes, outRead, cuts, exposed, errVars, logVars, procVars, exitVars>>

WriteErr ==
    /\ child = "running"
    /\ errWritten + 1 \in Halves
    /\ errWritten' = errWritten + 1
    /\ UNCHANGED <<script, modes, outVars, errRead, remainder, errEnded, handled,
                   dropped, shown, logVars, procVars, exitVars>>

ChildExit ==
    /\ child = "running"
    /\ child' = "exited"
    /\ status' \in {0, 2} \cup (IF killed THEN {BySignal} ELSE {})
    /\ UNCHANGED <<script, modes, outVars, errVars, logVars, killed, forceExit, exitVars>>

-------------------------------------------------------------------------------
(* Mutation: output is redacted in block mode only. *)
StdoutLeakBlock(inside) == inside # {} /\ modes["stdout"] = "block"

(* result.found of the scan of one chunk. *)
StdoutLeak(inside) == inside # {} /\ modes["stdout"] # "off"

(* handleStdout: each chunk is scanned, redacted and printed on its own. *)

HandleStdout ==
    /\ parent = "running"
    /\ \E upto \in (outRead + 1) .. outWritten :
         LET inside  == {s \in script.secrets : outRead < s.first /\ s.last <= upto}
             across  == {s \in script.secrets :
                            s.first <= outRead /\ outRead < s.last /\ s.last <= upto}
             leaked  == StdoutLeak(inside)
         IN  /\ outRead' = upto
             /\ cuts' = cuts \cup {upto}
             /\ exposed' = exposed \cup across \cup (IF leaked THEN {} ELSE inside)
             /\ Record(IF leaked THEN {"stdout"} ELSE {})
             /\ OnBlock(leaked /\ modes["stdout"] = "block")
    /\ UNCHANGED <<script, modes, outWritten, errVars, exitVars>>

-------------------------------------------------------------------------------
(* handleStderr, handleStderrEnd and handleStderrLine. *)

LineOf(h)  == (h + 1) \div 2

(* Mutation: every chunk is taken to end a line. *)
NewlineAlways(h) == h > 0

Newline(h) == h % 2 = 0 /\ (h < 2 * Len(script.err) \/ script.terminated)

(* A piece of stderr that ends at half h and began no earlier than half from;
   the parser and the scanner recognise only a line they see in full. *)
Piece(from, h) == {k \in Halves : from <= k /\ LineOf(k) = LineOf(h) /\ k <= h}
KindOf(piece)  == IF Cardinality(piece) = 2 THEN script.err[LineOf(CHOOSE k \in piece : TRUE)]
                                            ELSE "plain"

(* The channel through which a line is reported; "none" for the other kinds. *)
ReportsTo(kind) == CASE kind = "leak" -> "stderr"
                     [] kind \in {"args", "env"} -> "child_process"
                     [] kind = "dns" -> "dns"
                     [] OTHER -> "none"
Finds(kind)  == ReportsTo(kind) # "none" /\ modes[ReportsTo(kind)] # "off"
Blocks(kind) == Finds(kind) /\ modes[ReportsTo(kind)] = "block"

(* A line is printed unless it is a hook message, and as it is unless the
   secret was found in it. *)
PrintsAsIs(kind) == kind = "plain" \/ (kind = "leak" /\ ~Finds(kind))

(* The pieces are handled in order up to the first that blocks. *)
HandlePieces(pieces) ==
    LET blocking == {p \in pieces : Blocks(KindOf(p))}
        before(p, q) == \A i \in p, j \in q : i < j
        skipped  == {p \in pieces : \E q \in blocking : before(q, p)}
        taken    == pieces \ skipped
    IN  /\ handled' = handled \cup UNION taken
        /\ dropped' = dropped \cup UNION skipped
        /\ shown' = shown \cup UNION {p \in taken : PrintsAsIs(KindOf(p))}
        /\ Record({ReportsTo(KindOf(p)) : p \in {q \in taken : Finds(KindOf(q))}})
        /\ OnBlock(blocking # {})

(* Mutation: the unfinished line is popped and forgotten. *)
RemainderForgotten(upto) == upto + 1

(* Mutation: one too many is cut off. *)
RemainderOff(upto) ==
    LET ends == {h \in remainder .. upto : Newline(h)}
    IN  IF ends = {} THEN remainder
        ELSE 2 + CHOOSE h \in ends : \A g \in ends : g <= h

(* text.split('\n') and lines.pop(): where the new remainder begins. *)
RemainderAfter(upto) ==
    LET ends == {h \in remainder .. upto : Newline(h)}
    IN  IF ends = {} THEN remainder
        ELSE 1 + CHOOSE h \in ends : \A g \in ends : g <= h

HandleStderr ==
    /\ parent = "running"
    /\ \E upto \in (errRead + 1) .. errWritten :
         /\ errRead' = upto
         /\ remainder' = RemainderAfter(upto)
         /\ HandlePieces({Piece(remainder, h) : h \in {g \in remainder .. upto : Newline(g)}})
    /\ UNCHANGED <<script, modes, outVars, errWritten, errEnded, exitVars>>

HandleStderrEnd ==
    /\ parent = "running"
    /\ child = "exited" /\ errRead = errWritten /\ ~errEnded
    /\ errEnded' = TRUE
    /\ HandlePieces(IF remainder <= errRead THEN {Piece(remainder, errRead)} ELSE {})
    /\ UNCHANGED <<script, modes, outVars, errWritten, errRead, remainder, exitVars>>

-------------------------------------------------------------------------------
(* The rest of the parent. *)

(* A scan of the proxy reports on the network channel; it has no onBlock. *)
NetworkLeak ==
    /\ parent = "running" /\ child = "running"
    /\ modes["network"] # "off"
    /\ Record({"network"})
    /\ UNCHANGED <<script, modes, outVars, errVars, procVars, exitVars>>

(* child.on('exit') -> handleExit: the event may come before the data that is
   still in the pipes, and process.exit ends the process. *)
HandleExit ==
    /\ parent = "running"
    /\ child = "exited"
    /\ parent' = "done"
    /\ exitCode' = IF forceExit \/ status = BySignal THEN 1 ELSE status
    /\ UNCHANGED <<script, modes, outVars, errVars, logVars, procVars>>

(* onSignal: SIGINT or SIGTERM to the parent. *)
OnSignal ==
    /\ parent = "running"
    /\ parent' = "interrupted"
    /\ exitCode' = 1
    /\ UNCHANGED <<script, modes, outVars, errVars, logVars, procVars>>

Next == \/ WriteOut \/ WriteErr \/ ChildExit
        \/ HandleStdout \/ HandleStderr \/ HandleStderrEnd
        \/ Expire \/ NetworkLeak \/ HandleExit \/ OnSignal

Spec == Init /\ [][Next]_vars

-------------------------------------------------------------------------------
TypeOK ==
    /\ script \in Scripts /\ modes \in Settings
    /\ child \in {"running", "exited"} /\ status \in {0, 2, BySignal, NoCode}
    /\ killed \in BOOLEAN /\ forceExit \in BOOLEAN /\ errEnded \in BOOLEAN
    /\ outWritten \in 0 .. script.length /\ outRead \in 0 .. outWritten
    /\ cuts \subseteq 1 .. script.length /\ exposed \subseteq script.secrets
    /\ errWritten \in {0} \cup Halves /\ errRead \in 0 .. errWritten
    /\ remainder \in 1 .. (errRead + 1)
    /\ handled \subseteq Halves /\ dropped \subseteq Halves /\ shown \subseteq handled
    /\ recent \subseteq detected /\ detected \subseteq Channel
    /\ events \in [Channel -> Nat] /\ expiries \in 0 .. MaxExpiries
    /\ parent \in {"running", "done", "interrupted"} /\ exitCode \in {0, 1, 2, NoCode}

(* However the pipe cuts stderr into chunks, a line that holds the secret is
   never printed as it is, and a hook message never reaches the terminal: the
   remainder keeps every line whole until its newline. *)
StderrLinesStayWhole ==
    \A k \in 1 .. Len(script.err) :
        \/ script.err[k] = "plain"
        \/ script.err[k] = "leak" /\ modes["stderr"] = "off"
        \/ ~({2 * k - 1, 2 * k} \subseteq shown)

(* What is cut off from the pipe is handled once, unless a block came before
   it, and at the end so is what is left of it: StdioHandler loses no line of
   its own accord. *)
NoLineLost ==
    /\ handled \cup dropped = 1 .. (IF errEnded THEN errRead ELSE remainder - 1)
    /\ handled \cap dropped = {}
    /\ dropped # {} => forceExit

(* A stdout secret is printed in plain only if a chunk boundary split it. *)
OnlySplitSecretsExposed ==
    modes["stdout"] # "off" =>
        \A s \in exposed : \E c \in cuts : s.first <= c /\ c < s.last

(* A run in which a stdio, hook or DNS leak was found in block mode never
   reports success, whatever status the child managed to exit with and
   whichever came first. *)
BlockedRunFails ==
    parent = "done" /\ (\E c \in Channel \ {"network"} :
                            c \in detected /\ modes[c] = "block")
        => exitCode = 1

(* Every channel on which a leak was found is in the report, and duplicates
   within the TTL add nothing to it: one event, and one more for every time
   the TTL ran out. *)
ReportIsFaithful ==
    \A c \in Channel : /\ c \in detected <=> events[c] > 0
                       /\ events[c] <= 1 + expiries

(* Why the properties above hold. *)

(* What has been read ends at a cut. *)
ReadUpToACut == outRead = 0 \/ outRead \in cuts

(* The remainder begins a line and holds no newline: it is empty, or the first
   half of a line, or the last line of a child that does not terminate it. *)
RemainderIsOneLine ==
    /\ remainder % 2 = 1
    /\ remainder <= errRead =>
          \/ errRead = remainder
          \/ errRead = remainder + 1 /\ errRead = 2 * Len(script.err) /\ ~script.terminated
    /\ errEnded => child = "exited" /\ errRead = errWritten

(* A channel that may get another event has used up an expiry for each it has. *)
ExpiriesCount == \A c \in Channel : c \notin recent => events[c] <= expiries

(* A block is not forgotten before the exit. *)
BlocksRemembered ==
    /\ \A c \in detected \ {"network"} : modes[c] = "block" => forceExit
    /\ parent = "done" /\ forceExit => exitCode = 1

(* The inductive invariant. *)
IInv == /\ TypeOK /\ ReadUpToACut /\ RemainderIsOneLine /\ ExpiriesCount /\ BlocksRemembered
        /\ StderrLinesStayWhole /\ NoLineLost /\ OnlySplitSecretsExposed /\ ReportIsFaithful

-------------------------------------------------------------------------------
(* docs/interception-flow.md:17 says that the parent intercepts all data on
   stderr, docs/interception-flow.md:9 that the channel is reliable.  Here:
   when the run ends because the child exited, every half it wrote has been
   handled, or dropped after a block. *)
StderrDrained == parent = "done" => 1 .. errWritten \subseteq handled \cup dropped
===============================================================================
