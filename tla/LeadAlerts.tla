----------------------------- MODULE LeadAlerts -----------------------------
(***************************************************************************)
(* The watchdog's polls: what it tells the lead of tickets that sit too    *)
(* long and of clients without an answer, and what it reports on the       *)
(* alerts stream of stalled agents and of credentials                      *)
(* (modules/watchdog/service.py). Each of these rules reads the board or   *)
(* another record, tells, and then remembers in Redis that it told; a      *)
(* restart or a failed command may come in between. Meanwhile the agent    *)
(* works its board (Board) and answers its clients (core/channels.py).     *)
(*                                                                         *)
(* One agent. Whether a nag reaches the lead is up to the admission of its *)
(* ingress (Switch) and to its port (Custody): the rules do not ask. The   *)
(* ack-loop rule reads a record nobody writes, and is left out.            *)
(***************************************************************************)
EXTENDS Naturals, Sequences

CONSTANTS
    Tickets, Clients,
    Statuses,    \* what a look at the credential may find
    Nothing,
    Threshold,   \* per rule: stall_seconds, doing_alert_seconds, ...
    Cooldown,    \* of the stall rule
    MaxTime,
    MaxMoves,    \* bound: moves on the board, messages, changes of the credential
    MaxFaults    \* bound: watchdog restarts and failed commands

VARIABLES
    now, moves,
    slot,      \* the list each ticket is in, "away" when in none
    created,   \* created_ts
    entered,   \* started_ts or held_ts
    backlog,   \* unreplied: since when a client waits, 0 when it does not
    lead,      \* whether there is a lead
    found,     \* what a look at the credential finds
    told,      \* the *.alerted keys of the rules that tell the lead
    reported,  \* the key alerted: the stalled ticket last reported, and until when
    standing,  \* credential.alerted
    rule,      \* the rule the poll is at
    polled,    \* the time of the poll
    due,       \* what the rule has yet to look at: subject and since when
    present,   \* the subjects it has seen
    storing,   \* what it has told and not remembered yet
    faults,
    \* history:
    nags,      \* what was told of a subject in its present place
    again,     \* tellings that were told before
    last       \* the last status reported of the credential

world   == <<now, moves, slot, created, entered, backlog, lead, found>>
kept    == <<told, reported, standing>>
polling == <<rule, polled, due, present, storing>>
lvars   == <<world, kept, polling, faults, nags, again, last>>

Rules == <<"stall", "doing", "todo", "hold", "unreplied", "credential">>
Hashes == {"todo", "hold", "unreplied"}

NoStore == [subject |-> Nothing, level |-> 0]

Init ==
    /\ now = 0 /\ moves = 0
    /\ slot = [t \in Tickets |-> "away"]
    /\ created = [t \in Tickets |-> 0] /\ entered = [t \in Tickets |-> 0]
    /\ backlog = [c \in Clients |-> 0]
    /\ lead = TRUE /\ found \in Statuses
    /\ told = [r \in Hashes \cup {"doing"} |->
                 IF r = "doing" THEN NoStore ELSE [s \in Tickets \cup Clients |-> 0]]
    /\ reported = [ticket |-> Nothing, until |-> 0]
    /\ standing = Nothing
    /\ rule = "rest" /\ polled = 0 /\ due = {} /\ present = {} /\ storing = NoStore
    /\ faults = 0 /\ nags = {} /\ again = 0 /\ last = Nothing

-----------------------------------------------------------------------------
(* The office                                                              *)

Moves == moves < MaxMoves /\ moves' = moves + 1

Forgets(S) == nags' = {n \in nags : n.subject \notin S}

Tick ==
    /\ now < MaxTime /\ now' = now + 1
    /\ UNCHANGED <<moves, slot, created, entered, backlog, lead, found, kept, polling, faults,
                   nags, again, last>>

\* A ticket that is taken or held is stamped anew, one that is returned is as old as it is.
Move(t, from, to) ==
    /\ slot[t] = from /\ Moves
    /\ to = "doing" => \A u \in Tickets : slot[u] # "doing"
    /\ slot' = [slot EXCEPT ![t] = to]
    /\ created' = IF from = "away" THEN [created EXCEPT ![t] = now] ELSE created
    /\ entered' = [entered EXCEPT ![t] = IF to \in {"doing", "hold"} THEN now ELSE 0]
    /\ Forgets({t})
    /\ UNCHANGED <<now, backlog, lead, found, kept, polling, faults, again, last>>

Board ==
    \E t \in Tickets :
        \/ Move(t, "away", "todo") \/ Move(t, "todo", "doing") \/ Move(t, "hold", "doing")
        \/ Move(t, "doing", "todo") \/ Move(t, "doing", "hold") \/ Move(t, "todo", "hold")
        \/ Move(t, "doing", "away")

\* _track_unreplied: the oldest message counts, an answer ends the wait.
Writes(c) ==
    /\ now > 0 /\ Moves
    /\ backlog' = [backlog EXCEPT ![c] = IF @ = 0 THEN now ELSE @]
    /\ UNCHANGED <<now, slot, created, entered, lead, found, kept, polling, faults, nags, again, last>>

Answers(c) ==
    /\ backlog[c] # 0 /\ Moves
    /\ backlog' = [backlog EXCEPT ![c] = 0]
    /\ Forgets({c})
    /\ UNCHANGED <<now, slot, created, entered, lead, found, kept, polling, faults, again, last>>

LeadGoes ==
    /\ lead /\ lead' = FALSE
    /\ UNCHANGED <<now, moves, slot, created, entered, backlog, found, kept, polling, faults,
                   nags, again, last>>

CredentialChanges ==
    /\ \E s \in Statuses \ {found} : found' = s
    /\ Moves
    /\ UNCHANGED <<now, slot, created, entered, backlog, lead, kept, polling, faults, nags, again, last>>

-----------------------------------------------------------------------------
(* A poll                                                                  *)

Item(s, since) == [subject |-> s, since |-> since]
InSlot(place) == {t \in Tickets : slot[t] = place}

\* What each rule goes through, and since when it sits.
InDoing == {Item(t, entered[t]) : t \in InSlot("doing")}
InTodo  == {Item(t, created[t]) : t \in InSlot("todo")}
OnHold  == {Item(t, entered[t]) : t \in InSlot("hold")}
Waiting == {Item(c, backlog[c]) : c \in {d \in Clients : backlog[d] # 0}}

Subjects ==
    CASE rule \in {"stall", "doing"} -> InDoing
      [] rule = "todo"               -> InTodo
      [] rule = "hold"               -> OnHold
      [] rule = "unreplied"          -> Waiting

Start ==
    /\ rule = "rest" /\ rule' = "stall" /\ polled' = now
    /\ UNCHANGED <<world, kept, due, present, storing, faults, nags, again, last>>

RuleAfter(r) ==
    LET i == CHOOSE j \in DOMAIN Rules : Rules[j] = r
    IN  IF i = Len(Rules) THEN "rest" ELSE Rules[i + 1]

\* The end of a rule, by itself or with an exception that poll catches.
Leave ==
    /\ rule' = RuleAfter(rule)
    /\ due' = {} /\ present' = {} /\ storing' = NoStore
    /\ polled' = IF rule' = "rest" THEN 0 ELSE polled

Busy == \E t \in Tickets : slot[t] = "doing"

\* Without a lead the rules that tell it do nothing, and the rule for todo does nothing
\* while there is a ticket in doing (its two reads are taken for one). The rest of a rule
\* works on what it has read here.
Look ==
    /\ rule \in {"stall", "doing", "todo", "hold", "unreplied"}
    /\ due = {} /\ present = {} /\ storing = NoStore
    /\ IF (~lead /\ rule # "stall") \/ (rule = "todo" /\ Busy)
          \/ (Subjects = {} /\ rule \in {"stall", "doing"})
          THEN Leave
          ELSE /\ due' = Subjects
               /\ present' = {d.subject : d \in Subjects} \cup {"looked"}
               /\ UNCHANGED <<rule, polled, storing>>
    /\ UNCHANGED <<world, kept, faults, nags, again, last>>

Age(d) == polled - d.since
Crossing(d) == Age(d) \div Threshold[rule]

Told(s) ==
    IF rule = "doing" THEN (IF told.doing.subject = s THEN told.doing.level ELSE 0)
    ELSE told[rule][s]

\* Mutant: a crossing that was told is told again.
CrossedEveryPoll(d) == IF Told(d.subject) > Crossing(d) THEN 0 ELSE Crossing(d)

\* What there is to tell of a subject, 0 for nothing: a crossing that was not told yet,
\* or, of a client that waits, twice the wait that was told last.
Crossed(d) == IF Told(d.subject) >= Crossing(d) THEN 0 ELSE Crossing(d)

Outwaited(d) ==
    LET required == IF Told(d.subject) = 0 THEN Threshold.unreplied ELSE 2 * Told(d.subject)
    IN  IF Age(d) >= required THEN required ELSE 0

Level(d) == IF rule = "unreplied" THEN Outwaited(d) ELSE Crossed(d)

Nag(d) == [rule |-> rule, subject |-> d.subject, since |-> d.since, level |-> Level(d)]

\* _notify_lead: a nag that is not admitted is dropped, and counts as told.
Tell ==
    /\ rule \in {"doing", "todo", "hold", "unreplied"} /\ storing = NoStore
    /\ \E d \in due :
          /\ due' = due \ {d}
          /\ IF Level(d) = 0 THEN UNCHANGED <<storing, nags, again>>
             ELSE /\ storing' = [subject |-> d.subject, level |-> Level(d)]
                  /\ nags' = nags \cup {Nag(d)}
                  /\ again' = IF Nag(d) \in nags THEN again + 1 ELSE again
    /\ UNCHANGED <<world, kept, rule, polled, present, faults, last>>

\* The state key of doing is one string, those of the others are hashes.
Remember ==
    /\ rule # "stall" /\ rule # "credential" /\ storing # NoStore /\ storing' = NoStore
    /\ told' = IF rule = "doing" THEN [told EXCEPT !.doing = storing]
               ELSE [told EXCEPT ![rule][storing.subject] = storing.level]
    /\ UNCHANGED <<world, reported, standing, rule, polled, due, present, faults, nags, again, last>>

\* What is no longer there is forgotten.
Prune ==
    /\ rule \in {"doing", "todo", "hold", "unreplied"}
    /\ present # {} /\ due = {} /\ storing = NoStore
    /\ told' = IF rule = "doing" THEN told
               ELSE [told EXCEPT ![rule] = [s \in DOMAIN @ |-> IF s \in present THEN @[s] ELSE 0]]
    /\ Leave
    /\ UNCHANGED <<world, reported, standing, faults, nags, again, last>>

\* The stall rule: presence and the silence of the window may speak against it.
Stall ==
    /\ rule = "stall" /\ present # {} /\ storing = NoStore
    /\ \E d \in due :
          \/ /\ Age(d) >= Threshold.stall
             /\ ~(reported.ticket = d.subject /\ now < reported.until)
             /\ storing' = [subject |-> d.subject, level |-> 1]
             /\ due' = {}
             /\ UNCHANGED <<rule, polled, present>>
          \/ Leave
    /\ UNCHANGED <<world, kept, faults, nags, again, last>>

RememberStall ==
    /\ rule = "stall" /\ storing # NoStore
    /\ reported' = [ticket |-> storing.subject, until |-> now + Cooldown]
    /\ Leave
    /\ UNCHANGED <<world, told, standing, faults, nags, again, last>>

\* An hour after the last look there is another. A status that is not the standing one
\* is reported, except that all is well at first.
CheckCredential ==
    /\ rule = "credential" /\ storing = NoStore
    /\ \/ Leave /\ UNCHANGED <<again, last>>
       \/ /\ standing # found
          /\ found = "present" => standing # Nothing
          /\ storing' = [subject |-> found, level |-> 1]
          /\ again' = IF last = found THEN again + 1 ELSE again
          /\ last' = found
          /\ UNCHANGED <<rule, polled, due, present>>
    /\ UNCHANGED <<world, kept, faults, nags>>

RememberCredential ==
    /\ rule = "credential" /\ storing # NoStore
    /\ standing' = IF storing.subject = "present" THEN Nothing ELSE storing.subject
    /\ Leave
    /\ UNCHANGED <<world, told, reported, faults, nags, again, last>>

Fault == faults < MaxFaults /\ faults' = faults + 1

\* A failed command ends the rule, a death the poll.
Fail ==
    /\ rule # "rest" /\ Fault /\ Leave
    /\ UNCHANGED <<world, kept, nags, again, last>>

Die ==
    /\ rule # "rest" /\ Fault
    /\ rule' = "rest" /\ polled' = 0 /\ due' = {} /\ present' = {} /\ storing' = NoStore
    /\ UNCHANGED <<world, kept, nags, again, last>>

Next ==
    \/ Tick \/ Board \/ LeadGoes \/ CredentialChanges
    \/ \E c \in Clients : Writes(c) \/ Answers(c)
    \/ Start \/ Look \/ Tell \/ Remember \/ Prune \/ Stall \/ RememberStall
    \/ CheckCredential \/ RememberCredential \/ Fail \/ Die

Spec == Init /\ [][Next]_lvars

-----------------------------------------------------------------------------
(* Properties                                                              *)

TypeOK ==
    /\ slot \in [Tickets -> {"away", "todo", "doing", "hold"}]
    /\ rule \in {"rest"} \cup {Rules[i] : i \in DOMAIN Rules}
    /\ \A d \in due : d.subject \in present
    /\ standing \in Statuses \cup {Nothing} /\ standing # "present"

\* ToldOnce: the lead is told of a crossing once, not every poll, as long as the ticket
\* stays where it is and the client is without an answer, and a status of a credential
\* is reported once until another is; only what was told and could not be remembered is
\* told again (doing.alerted, todo.alerted, hold.alerted, unreplied.alerted,
\* credential.alerted).
ToldOnce == again <= faults
=============================================================================
