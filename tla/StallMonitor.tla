---------------------------- MODULE StallMonitor ----------------------------
(***************************************************************************)
(* The switch's watch over ingress lists nobody drains                     *)
(* (core/ingress_health.py, polled by core/service.py between two          *)
(* envelopes). A pass looks at the head of every member's ingress; a head  *)
(* that is the same after Stall is reported in the hash ingress.stalled,   *)
(* and the report deleted when the head is another one or none.            *)
(*                                                                         *)
(* What the monitor remembers dies with the switch; what it reported stays *)
(* in Redis. Each command is an action: members enqueue, take, put back,   *)
(* pause and leave in between, and a command may fail, after it was        *)
(* applied or before.                                                      *)
(***************************************************************************)
EXTENDS Naturals, Sequences

CONSTANTS
    Members,
    Stall,        \* stall_seconds
    MaxTime,
    MaxFrames,    \* bound: frames that arrive
    MaxMoves,     \* bound: pauses, departures and arrivals of members
    MaxFaults     \* bound: failed commands and restarts of the switch

VARIABLES
    now, moves, faults,
    ingress,    \* of each member, the frames admitted and not taken
    hand,       \* of each member, the frame its port has in processing, 0 for none
    paused, enrolled,
    report,     \* ingress.stalled: of each member, the head reported and since when
    watch,      \* the monitor's _watch: the head last seen and when it was first
    stalled,    \* the monitor's _stalled
    at,         \* where the pass is
    todo,       \* the members it has yet to visit, to look at or to clear
    began,      \* its clock
    agent,      \* the member it visits
    seen,       \* the head it has read there
    \* history:
    arrived,    \* when each frame was admitted
    done,       \* the frames delivered
    gone,       \* the frames delivered when the pass began
    looked,     \* when the head in watch was read (its watch begins with the pass)
    told,       \* what the last record ingress_stalled told of, and on what grounds
    relics      \* members whose report an earlier life or a failed command may have left

queues  == <<ingress, hand, paused, enrolled, moves, arrived, done>>
monitor == <<watch, stalled, at, todo, began, agent, seen, gone>>
mvars   == <<now, faults, queues, report, monitor, looked, told, relics>>

NoFrame == 0
NoWatch == [head |-> NoFrame, first |-> 0]
NoOne   == "no one"
NoTelling == [waited |-> Stall, queued |-> TRUE, taken |-> FALSE]

Init ==
    /\ now = 0 /\ moves = 0 /\ faults = 0
    /\ ingress = [m \in Members |-> <<>>] /\ hand = [m \in Members |-> NoFrame]
    /\ paused = {} /\ enrolled = Members
    /\ report = [m \in Members |-> NoWatch]
    /\ watch = [m \in Members |-> NoWatch] /\ stalled = {}
    /\ at = "rest" /\ todo = {} /\ began = 0 /\ agent = NoOne /\ seen = NoFrame
    /\ arrived = <<>> /\ done = {} /\ gone = {} /\ looked = [m \in Members |-> 0] /\ told = NoTelling /\ relics = {}

-----------------------------------------------------------------------------
(* The office                                                              *)

Tick == now < MaxTime /\ now' = now + 1 /\ UNCHANGED <<faults, queues, report, monitor, told, relics, looked>>

Office == UNCHANGED <<now, faults, report, monitor, told, relics, looked>>

Admit(m) ==
    /\ m \in enrolled /\ Len(arrived) < MaxFrames
    /\ arrived' = Append(arrived, now)
    /\ ingress' = [ingress EXCEPT ![m] = Append(@, Len(arrived) + 1)]
    /\ UNCHANGED <<hand, paused, enrolled, moves, done>> /\ Office

Take(m) ==
    /\ m \notin paused /\ hand[m] = NoFrame /\ ingress[m] # <<>>
    /\ hand' = [hand EXCEPT ![m] = Head(ingress[m])]
    /\ ingress' = [ingress EXCEPT ![m] = Tail(@)]
    /\ UNCHANGED <<paused, enrolled, moves, arrived, done>> /\ Office

Deliver(m) ==
    /\ hand[m] # NoFrame
    /\ done' = done \cup {hand[m]}
    /\ hand' = [hand EXCEPT ![m] = NoFrame]
    /\ UNCHANGED <<ingress, paused, enrolled, moves, arrived>> /\ Office

\* A port that died: its frame goes back to the front.
PutBack(m) ==
    /\ hand[m] # NoFrame
    /\ ingress' = [ingress EXCEPT ![m] = <<hand[m]>> \o @]
    /\ hand' = [hand EXCEPT ![m] = NoFrame]
    /\ UNCHANGED <<paused, enrolled, moves, arrived, done>> /\ Office

Pause(m) ==
    /\ moves < MaxMoves /\ moves' = moves + 1
    /\ paused' = IF m \in paused THEN paused \ {m} ELSE paused \cup {m}
    /\ UNCHANGED <<ingress, hand, enrolled, arrived, done>> /\ Office

\* The mailbox outlives its member.
Enrol(m) ==
    /\ moves < MaxMoves /\ moves' = moves + 1
    /\ enrolled' = IF m \in enrolled THEN enrolled \ {m} ELSE enrolled \cup {m}
    /\ UNCHANGED <<ingress, hand, paused, arrived, done>> /\ Office

-----------------------------------------------------------------------------
(* A pass                                                                  *)

\* What a pass that is over no longer needs.
Ended(how) == at' = how /\ todo' = {} /\ began' = 0 /\ agent' = NoOne /\ seen' = NoFrame
              /\ gone' = {}

\* poll: members that are gone are forgotten; their reports are cleared first.
Poll ==
    /\ at \in {"rest", "failed"}
    /\ began' = now /\ gone' = done
    /\ watch' = [m \in Members |-> IF m \in enrolled THEN watch[m] ELSE NoWatch]
    /\ todo' = {<<m, "look">> : m \in enrolled} \cup {<<m, "clear">> : m \in stalled \ enrolled}
    /\ at' = "next"
    /\ UNCHANGED <<now, faults, queues, report, stalled, agent, seen, told, relics, looked>>

Visit(m, step) ==
    /\ at = "next" /\ <<m, step>> \in todo
    /\ step = "look" => \A v \in todo : v[2] = "look"
    /\ agent' = m /\ todo' = todo \ {<<m, step>>}

\* A member gone is one to clear at once.
VisitGone(m) ==
    /\ Visit(m, "clear") /\ at' = "clear"
    /\ UNCHANGED <<now, faults, queues, report, watch, stalled, began, seen, gone, told, relics, looked>>

Done ==
    /\ at = "next" /\ todo = {}
    /\ Ended("rest")
    /\ UNCHANGED <<now, faults, queues, report, watch, stalled, told, relics, looked>>

\* Nothing to watch: a paused member or an empty list.
Nothing(m) ==
    /\ watch' = [watch EXCEPT ![m] = NoWatch]
    /\ at' = IF m \in stalled THEN "clear" ELSE "next"
    /\ UNCHANGED <<seen, looked>>

\* _head: the pause, then the head of the list.
LookPaused(m) ==
    /\ Visit(m, "look")
    /\ IF m \in paused THEN Nothing(m) ELSE at' = "head" /\ UNCHANGED <<watch, seen, looked>>
    /\ UNCHANGED <<now, faults, queues, report, stalled, began, gone, told, relics>>

\* A new head is watched from now on; an old one is reported once it is Stall old.
Judge(head) ==
    IF watch[agent].head # head
      THEN /\ watch' = [watch EXCEPT ![agent] = [head |-> head, first |-> began]]
           /\ looked' = [looked EXCEPT ![agent] = now]
           /\ at' = IF agent \in stalled THEN "clear" ELSE "next"
           /\ UNCHANGED seen
      ELSE /\ IF began - watch[agent].first < Stall THEN at' = "next" /\ UNCHANGED seen
              ELSE at' = "report" /\ seen' = head
           /\ UNCHANGED <<watch, looked>>

LookHead ==
    /\ at = "head"
    /\ IF ingress[agent] = <<>> THEN Nothing(agent) ELSE Judge(Head(ingress[agent]))
    /\ UNCHANGED <<now, faults, queues, report, stalled, todo, began, agent, gone, told, relics>>

\* The time at which an earlier report began is kept, whoever's it is.
Reported == [head |-> seen, first |-> IF report[agent] # NoWatch THEN report[agent].first ELSE now]

Report ==
    /\ at = "report"
    /\ report' = [report EXCEPT ![agent] = Reported]
    /\ stalled' = stalled \cup {agent}
    /\ told' = IF agent \in stalled THEN told
               ELSE [waited |-> began - watch[agent].first,
                     queued |-> arrived[seen] <= looked[agent], taken |-> seen \in gone]
    /\ at' = "next" /\ seen' = NoFrame
    /\ UNCHANGED <<now, faults, queues, watch, todo, began, agent, gone, relics, looked>>

Clear ==
    /\ at = "clear"
    /\ report' = [report EXCEPT ![agent] = NoWatch]
    /\ stalled' = stalled \ {agent} /\ relics' = relics \ {agent}
    /\ at' = "next"
    /\ UNCHANGED <<now, faults, queues, watch, todo, began, agent, seen, gone, told, looked>>

-----------------------------------------------------------------------------
(* Faults                                                                  *)

Fault == faults < MaxFaults /\ faults' = faults + 1

\* A command fails and the pass with it: run logs the failure and goes on. An hset or an
\* hdel may have been applied.
CommandFails ==
    /\ at \in {"next", "head", "report", "clear"} /\ Fault
    /\ \/ UNCHANGED report
       \/ at = "report" /\ report' = [report EXCEPT ![agent] = Reported]
       \/ at = "clear" /\ report' = [report EXCEPT ![agent] = NoWatch]
    /\ relics' = IF at \in {"report", "clear"} THEN relics \cup {agent} ELSE relics
    /\ Ended("failed")
    /\ UNCHANGED <<now, queues, watch, stalled, told, looked>>

\* The switch dies, and starts with nothing to remember.
Restart ==
    /\ Fault
    /\ watch' = [m \in Members |-> NoWatch] /\ stalled' = {}
    /\ Ended("rest")
    /\ relics' = relics \cup {m \in Members : report[m] # NoWatch}
    /\ UNCHANGED <<now, queues, report, told, looked>>

Next ==
    \/ Tick \/ Poll \/ Done \/ LookHead \/ Report \/ Clear
    \/ CommandFails \/ Restart
    \/ \E m \in Members :
          Admit(m) \/ Take(m) \/ Deliver(m) \/ PutBack(m) \/ Pause(m) \/ Enrol(m)
          \/ VisitGone(m) \/ LookPaused(m)

Spec == Init /\ [][Next]_mvars

-----------------------------------------------------------------------------
(* Properties                                                              *)

TypeOK ==
    /\ \A m \in Members : hand[m] \in Nat /\ report[m].head \in Nat /\ watch[m].head \in Nat
    /\ stalled \subseteq Members /\ todo \subseteq Members \X {"look", "clear"} /\ relics \subseteq Members
    /\ agent \in Members \cup {NoOne}
    /\ at \in {"rest", "failed", "next", "head", "report", "clear"}

\* StallTrue: a stall is told of a frame only that was admitted when its watch began, is
\* seen again Stall later and was not delivered in between; a report that no failed
\* command and no earlier life of the switch has left is one the monitor still answers
\* for, and between two passes it names the head the monitor watches, for at least Stall;
\* and a report whose head the monitor has seen move is gone (poll, _report, _clear).
StallTrue ==
    /\ told.queued /\ ~told.taken /\ told.waited >= Stall
    /\ \A m \in Members \ relics :
          /\ report[m] # NoWatch <=> m \in stalled
          /\ at = "rest" /\ m \in stalled =>
                /\ watch[m].head = report[m].head
                /\ watch[m].first + Stall <= report[m].first
=============================================================================
