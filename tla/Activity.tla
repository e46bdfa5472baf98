------------------------------ MODULE Activity ------------------------------
(***************************************************************************)
(* What the watchdog learns of an agent from the session file its CLI      *)
(* writes: the tailer publishes an event and the usage of each line        *)
(* (modules/watchdog/activity.py), and the verifier judges by the events   *)
(* whether what was pasted was taken up (verification.py). Both run one    *)
(* after the other in one process, which may die at any point; the port    *)
(* that pastes (mark_delivery_pending, modules/tmux/port.py) and the CLI   *)
(* are others. Every command to Redis is an action.                        *)
(*                                                                         *)
(* One agent, one session file of Claude Code or Codex, and nothing is     *)
(* trimmed. A line that is not complete yet is not there for the tailer.   *)
(* Of a line the model keeps what the parsers look at.                     *)
(***************************************************************************)
EXTENDS Naturals, Sequences, FiniteSets

CONSTANTS
    Lines,        \* per flavor of file, the lines it may hold
    Anonymous,    \* usage without a request id
    Nothing,      \* no model, no usage
    VerifyAfter,  \* verify_after_seconds
    MaxTime, MaxLines, MaxDeliveries,
    MaxCrashes    \* bound: watchdog restarts and failed commands

VARIABLES
    now,
    flavor,      \* whose file it is
    file,        \* the lines of the session file
    marking,     \* the delivery whose second marker is yet to be written, or 0
    deliveries,  \* deliveries so far: the next stream id
    markers,     \* delivery.markers
    unjudged,    \* pending.verify
    blocked,     \* when the unverified delivery was made, 0 when there is none
    offset,      \* activity.offset, in lines
    events,      \* the activity stream: per event the time of its line, and its line
    usage,       \* the usage stream
    requests,    \* usage.requests
    attributed,  \* usage.attributed
    at,          \* where the watchdog's pass is
    pos,         \* lines read in this pass
    model,       \* the model in effect, as far as the tailer knows
    claim,       \* the delivery found for the usage at hand
    judging,     \* the deliveries to judge in this pass
    times,       \* the activity the verifier has read
    memory,      \* what a restart forgets: requests, deliveries and the model it remembers
    crashes,
    lost         \* history: lines whose usage failed to be published, and was logged

cli      == <<now, flavor, file, marking, deliveries, markers>>
streams  == <<events, usage, requests, attributed, offset>>
verdicts == <<unjudged, blocked>>
tailing  == <<pos, model, claim>>
verify   == <<judging, times>>
avars    == <<cli, streams, verdicts, at, tailing, verify, memory, crashes, lost>>

NoMemory == [requests |-> {}, attributed |-> {}, model |-> Nothing]

Init ==
    /\ now = 1 /\ flavor \in DOMAIN Lines
    /\ file = <<>> /\ marking = 0 /\ deliveries = 0 /\ markers = {} /\ unjudged = {}
    /\ blocked = 0 /\ offset = 0 /\ events = {} /\ usage = <<>>
    /\ requests = {} /\ attributed = {}
    /\ at = "rest" /\ pos = 0 /\ model = Nothing /\ claim = 0
    /\ judging = {} /\ times = {} /\ memory = NoMemory
    /\ crashes = 0 /\ lost = {}

-----------------------------------------------------------------------------
(* The CLI and the port                                                    *)

Tick ==
    /\ now < MaxTime /\ now' = now + 1
    /\ UNCHANGED <<flavor, file, marking, deliveries, markers, streams, verdicts, at, tailing, verify,
                   memory, crashes, lost>>

\* A line is written with its time.
CliWrites ==
    /\ Len(file) < MaxLines
    /\ \E l \in Lines[flavor] : file' = Append(file, [line |-> l, ts |-> now])
    /\ UNCHANGED <<now, flavor, marking, deliveries, markers, streams, verdicts, at, tailing, verify,
                   memory, crashes, lost>>

\* The port pastes, and marks the delivery in two streams; the second may fail.
MarkPending ==
    /\ marking = 0 /\ deliveries < MaxDeliveries
    /\ deliveries' = deliveries + 1 /\ marking' = deliveries + 1
    /\ unjudged' = unjudged \cup {[id |-> deliveries + 1, ts |-> now]}
    /\ UNCHANGED <<now, flavor, file, markers, streams, blocked, at, tailing, verify, memory, crashes, lost>>

MarkDelivered ==
    /\ marking # 0 /\ marking' = 0
    /\ \/ markers' = markers \cup {d \in unjudged : d.id = marking}
       \/ UNCHANGED markers
    /\ UNCHANGED <<now, flavor, file, deliveries, streams, verdicts, at, tailing, verify,
                   memory, crashes, lost>>

-----------------------------------------------------------------------------
(* The tailer                                                              *)

\* The events of a line: words of the user, but not the results of tools, words of the
\* agent, and its calls of tools. A content that is no list of blocks is plain.
ClaudeEvents(l) ==
    CASE l.type = "user"      -> IF l.content = {"tool_result"} THEN {} ELSE {"input"}
      [] l.type = "assistant" -> (IF l.content \cap {"plain", "text"} # {} THEN {"output"} ELSE {})
                                 \cup (IF "tool_use" \in l.content THEN {"tool"} ELSE {})
      [] OTHER                -> {}

CodexEvents(l) ==
    CASE l.type = "user_message"  -> {"input"}
      [] l.type = "agent_message" -> {"output"}
      [] l.type \in {"function_call", "custom_tool_call"} -> {"tool"}
      [] OTHER -> {}

Events(l) == IF flavor = "claude" THEN ClaudeEvents(l) ELSE CodexEvents(l)

\* The usage of a line: its request and its model. Codex names the model in the lines
\* before, and writes counts of zero when it starts and ends, which are no usage.
Usage(request, m) == [request |-> request, model |-> m]
NoUsage == Usage(Nothing, Nothing)

ClaudeUsage(l) ==
    IF l.type = "assistant" /\ l.tokens # "none" THEN Usage(l.request, l.model) ELSE NoUsage

CodexUsage(l, m) ==
    IF l.type = "token_count" /\ l.tokens = "some"
      THEN Usage(l.request, IF m # Nothing THEN m ELSE l.model)
      ELSE NoUsage

UsageOf(l, m) == IF flavor = "claude" THEN ClaudeUsage(l) ELSE CodexUsage(l, m)

\* The model a Codex session works with from this line on.
NamesModel(l) == flavor = "codex" /\ l.type = "turn_context" /\ l.model # Nothing
NamedAfter(l, m) == IF NamesModel(l) THEN l.model ELSE m

\* The models named in the lines up to one, and the one that was named last.
Named(n) ==
    {[line |-> k, model |-> file[k].line.model] : k \in {i \in 1 .. n : NamesModel(file[i].line)}}
Latest(named) == CHOOSE r \in named : \A s \in named : s.line <= r.line
ModelAt(n) == IF Named(n) = {} THEN Nothing ELSE Latest(Named(n)).model

\* Reading goes on at the saved offset. The model in effect there is remembered, or
\* found again in the lines before it. Without a file there is nothing to read.
Open ==
    /\ at = "rest" /\ at' = IF Len(file) > 0 THEN "line" ELSE "heal"
    /\ pos' = offset /\ claim' = 0
    /\ model' = IF offset > 0 /\ memory.model = Nothing THEN ModelAt(offset) ELSE memory.model
    /\ UNCHANGED <<cli, streams, verdicts, verify, memory, crashes, lost>>

Skip == at' = "line" /\ pos' = pos + 1

\* A usage record whose request was reported in this life of the watchdog is passed over.
ReadLine ==
    /\ at = "line" /\ pos < Len(file)
    /\ LET l == file[pos + 1].line
       IN  /\ model' = NamedAfter(l, model)
           /\ events' = events \cup
                 {[kind |-> k, ts |-> file[pos + 1].ts, line |-> pos + 1] : k \in Events(l)}
           /\ IF UsageOf(l, model').request \in memory.requests \cup {Nothing}
                 THEN Skip
                 ELSE at' = "correlate" /\ UNCHANGED pos
    /\ UNCHANGED <<cli, usage, requests, attributed, offset, verdicts, claim, verify, memory,
                   crashes, lost>>

\* The latest delivery before the usage, if no usage was put down to it before.
Correlate ==
    /\ at = "correlate" /\ at' = "emit"
    /\ LET found == {d \in markers \cup unjudged : d.ts <= file[pos + 1].ts}
           ids   == {d.id : d \in found}
           last  == CHOOSE i \in ids : \A j \in ids : j <= i
       IN  IF ids = {} THEN claim' = 0 /\ UNCHANGED memory
           ELSE IF last \in memory.attributed THEN claim' = 0 /\ UNCHANGED memory
           ELSE IF last \in attributed
             THEN claim' = 0 /\ memory' = [memory EXCEPT !.attributed = @ \cup {last}]
             ELSE claim' = last /\ UNCHANGED memory
    /\ UNCHANGED <<cli, streams, verdicts, pos, model, verify, crashes, lost>>

Found == UsageOf(file[pos + 1].line, model)

\* Mutant: only what is remembered keeps a request from being published twice.
PublishAgain ==
    /\ usage' = Append(usage, [of |-> Found, claim |-> claim, line |-> pos + 1])
    /\ requests' = requests \cup ({Found.request} \ {Anonymous})
    /\ attributed' = attributed \cup ({claim} \ {0})

\* _EMIT_USAGE_LUA publishes the usage, and that it did, or finds that it was published.
Publish ==
    IF Found.request \in requests
      THEN UNCHANGED <<usage, requests, attributed>>
      ELSE /\ usage' = Append(usage, [of |-> Found, claim |-> claim, line |-> pos + 1])
           /\ requests' = requests \cup ({Found.request} \ {Anonymous})
           /\ attributed' = attributed \cup ({claim} \ {0})

Emit ==
    /\ at = "emit"
    /\ Publish /\ Skip /\ claim' = 0
    /\ memory' = [memory EXCEPT !.requests = @ \cup ({Found.request} \ {Anonymous}),
                                !.attributed = IF Found.request \in requests THEN @
                                               ELSE @ \cup ({claim} \ {0})]
    /\ UNCHANGED <<cli, events, offset, verdicts, model, verify, crashes, lost>>

Fault == crashes < MaxCrashes /\ crashes' = crashes + 1

\* A failure of the script is logged, and the line counts as read. The script may have
\* run.
EmitFails ==
    /\ at = "emit" /\ Fault
    /\ Publish \/ UNCHANGED <<usage, requests, attributed>>
    /\ Skip /\ claim' = 0
    /\ lost' = lost \cup {pos + 1}
    /\ UNCHANGED <<cli, events, offset, verdicts, model, verify, memory>>

\* At the end of the file the offset is saved.
SaveOffset ==
    /\ at = "line" /\ pos = Len(file) /\ at' = "heal"
    /\ offset' = pos
    /\ memory' = [memory EXCEPT !.model = model]
    /\ pos' = 0 /\ model' = Nothing
    /\ UNCHANGED <<cli, events, usage, requests, attributed, verdicts, claim, verify, crashes, lost>>

-----------------------------------------------------------------------------
(* The verifier                                                            *)

After(t) == {e \in events : e.ts > t}

\* An agent that did something since the delivery is not blocked.
Heal ==
    /\ at = "heal" /\ at' = "judge"
    /\ blocked' = IF blocked # 0 /\ After(blocked) # {} THEN 0 ELSE blocked
    /\ UNCHANGED <<cli, streams, unjudged, tailing, verify, memory, crashes, lost>>

\* Deliveries that are old enough are judged, oldest first, by the activity after the
\* oldest. An agent of which nothing was ever seen is not judged.
ReadPending ==
    /\ at = "judge"
    /\ LET old == {d \in unjudged : now - d.ts >= VerifyAfter}
       IN  IF old = {} THEN at' = "rest" /\ UNCHANGED verify
           ELSE /\ judging' = old
                /\ times' = {e.ts : e \in events}
                /\ at' = IF offset > 0 \/ events # {} THEN "verdict" ELSE "drop"
    /\ UNCHANGED <<cli, streams, verdicts, tailing, memory, crashes, lost>>

Oldest == CHOOSE d \in judging : \A e \in judging : d.id <= e.id

\* Mutant: activity at any time speaks for every delivery.
AnyActivity(d) == times # {}

TakenUp(d) == \E t \in times : t > d.ts

\* Who is blocked already stays so since the first delivery that was not taken up.
Verdict ==
    /\ at = "verdict" /\ at' = "drop verdict"
    /\ blocked' = IF TakenUp(Oldest) THEN 0 ELSE IF blocked = 0 THEN Oldest.ts ELSE blocked
    /\ UNCHANGED <<cli, streams, unjudged, tailing, verify, memory, crashes, lost>>

Drop ==
    /\ at \in {"drop", "drop verdict"}
    /\ unjudged' = unjudged \ {Oldest}
    /\ judging' = judging \ {Oldest}
    /\ IF judging' = {} THEN at' = "rest" /\ times' = {}
       ELSE at' = (IF at = "drop" THEN "drop" ELSE "verdict") /\ UNCHANGED times
    /\ UNCHANGED <<cli, streams, blocked, tailing, memory, crashes, lost>>

\* A command fails, and the pass with it; or the watchdog dies.
Break ==
    /\ at # "rest" /\ Fault
    /\ at' = "rest" /\ pos' = 0 /\ model' = Nothing /\ claim' = 0 /\ judging' = {} /\ times' = {}
    /\ memory' \in {memory, NoMemory}
    /\ UNCHANGED <<cli, streams, verdicts, lost>>

Next ==
    \/ Tick \/ CliWrites \/ MarkPending \/ MarkDelivered
    \/ Open \/ ReadLine \/ Correlate \/ Emit \/ EmitFails \/ SaveOffset
    \/ Heal \/ ReadPending \/ Verdict \/ Drop \/ Break

Spec == Init /\ [][Next]_avars

-----------------------------------------------------------------------------
(* Properties                                                              *)

Delivery == [id : 1 .. MaxDeliveries, ts : 1 .. MaxTime]

TypeOK ==
    /\ markers \cup unjudged \cup judging \subseteq Delivery
    /\ offset \in 0 .. Len(file) /\ pos \in 0 .. Len(file)
    /\ blocked \in 0 .. MaxTime /\ times \subseteq 1 .. MaxTime
    /\ requests \subseteq {l.request : l \in Lines[flavor]} \ {Anonymous, Nothing}
    /\ attributed \subseteq 1 .. MaxDeliveries
    /\ claim \in 0 .. MaxDeliveries
    /\ lost \subseteq 1 .. Len(file)

\* UsageAccounted: whatever fails or restarts in between, the usage of a request is
\* published once, no delivery is given two usage records, each is published under the
\* model its session was in, and no line is left behind by the saved offset unless its
\* failure was logged (_seen_requests, usage.requests, usage.attributed, the order of
\* publishing and saving the offset, _codex_model_at_offset).
UsageAccounted ==
    /\ \A i, j \in 1 .. Len(usage) : i # j =>
          /\ usage[i].of.request = usage[j].of.request => usage[i].of.request = Anonymous
          /\ usage[i].claim = usage[j].claim => usage[i].claim = 0
    /\ \A i \in 1 .. Len(usage) :
          usage[i].of = UsageOf(file[usage[i].line].line, ModelAt(usage[i].line))
    /\ \A n \in 1 .. offset :
          LET request == UsageOf(file[n].line, Nothing).request
          IN  /\ \A k \in Events(file[n].line) : \E e \in events : e.line = n /\ e.kind = k
              /\ request # Nothing =>
                    n \in lost \/ \E i \in 1 .. Len(usage) :
                        \/ usage[i].line = n
                        \/ usage[i].of.request = request /\ request # Anonymous

\* BlockedTrue: an agent is taken for blocked only over a delivery after which nothing
\* was seen of it, as of the last complete pass; and it is cleared only after it was
\* seen again (DeliveryVerifier.poll).
Blocked ==
    /\ (at # "rest" /\ at' = "rest" /\ crashes' = crashes /\ blocked' # 0) => After(blocked') = {}
    /\ (blocked # 0 /\ blocked' = 0) => After(blocked) # {}

BlockedTrue == [][Blocked]_avars
=============================================================================
