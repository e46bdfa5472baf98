------------------------------- MODULE Switch -------------------------------
(***************************************************************************)
(* The switch of an h-mesh tenant (core/service.py, class Switch): one     *)
(* process that takes a frame from the first non-empty egress list of a    *)
(* rotating order, decides where it goes, and writes it to the ingress of  *)
(* every recipient or to the sender's dead list. Between the pop and the   *)
(* write the frame exists only in the process.                             *)
(*                                                                         *)
(* Every command to Redis may succeed, be rejected before it ran (BUSY,    *)
(* LOADING, READONLY, ...), or have an unknown outcome (connection reset,  *)
(* timeout). Any other error, like SIGKILL, ends the process: Crash.       *)
(*                                                                         *)
(* Around the switch: senders push, ports drain, participants are hired    *)
(* and retired. What happens to a frame after admission is Custody's.      *)
(***************************************************************************)
EXTENDS Integers, FiniteSets, RedisLists

CONSTANTS
    Agents,      \* names of participants, ordered as sorted() orders them
    Frames,      \* frames that may be sent, numbered in the order of sending
    Home,        \* Home[f]: the participant whose egress list f is pushed to
    Claim,       \* Claim[f]: the source that f's header claims
    Dest,        \* Dest[f]: its destination, a name or All
    All,         \* the broadcast destination
    Garbled,     \* frames whose header does not parse
    Spent,       \* frames that arrive with ttl at most 1, or hops 999
    Portless,    \* participants whose registry row names no port type
    SwitchName,  \* the source of the switch's own notices
    Nobody,      \* no frame in hand
    IngressMax,  \* INGRESS_MAX
    DeadMax,     \* DEAD_MAX
    Attempts,    \* FRAME_RETRY_ATTEMPTS
    MaxHires     \* bound: incarnations of a name

ASSUME NamesAssumption ==
    /\ Agents \subseteq Nat
    /\ IsFiniteSet(Agents)
    /\ Frames \subseteq Nat
    /\ Garbled \subseteq Frames
    /\ Spent \subseteq Frames
    /\ Portless \subseteq Agents
    /\ All \notin Agents
    /\ SwitchName \notin Agents
    /\ Nobody \notin Frames

ASSUME HeadersAssumption ==
    /\ Home \in [Frames -> Agents]
    /\ Claim \in [Frames -> Agents]
    /\ Dest \in [Frames -> Agents \cup {All}]

ASSUME BoundsAssumption ==
    /\ IngressMax \in Nat \ {0}
    /\ DeadMax \in Nat \ {0}
    /\ Attempts \in Nat \ {0}
    /\ MaxHires \in Nat

VARIABLES
    egress,    \* per participant, the frames its senders queued
    ingress,   \* per participant, what the switch admitted and no port took
    dead,      \* per participant, the dead letters of what it sent
    registry,  \* the participants that have a registry row
    hires,     \* how often each name was hired, for the bound
    pc,        \* where the switch is, between two commands
    offset,    \* Switch._offset
    keys,      \* the key list of BLPOP: the place of each participant in it
    hand,      \* the frame the switch has popped and not yet placed
    dests,     \* the recipients it looked up
    out,       \* what it will write to the dead list
    attempt,   \* attempts of the command in progress that were rejected
    sent,      \* frames pushed to egress; each is pushed once
    \* history, read by no action:
    placed,    \* per participant, everything ingress ever admitted
    buried,    \* frames ever written to a dead list
    gone,      \* frames that left with a crash, an unknown outcome, or that a
               \* broadcast addressed to nobody
    aimed,     \* per frame, the recipients that the lookup saw
    said,      \* the last custody record the switch logged about each frame
    cut,       \* frames in the hand of a switch that died
    passed     \* how often in a row each waiting queue was passed over

lists   == <<egress, ingress, dead>>
office  == <<registry, hires>>
job     == <<hand, dests, out, attempt>>
history == <<sent, placed, buried, gone, aimed, said, cut, passed>>
vars    == <<lists, office, pc, offset, keys, job, history>>

-----------------------------------------------------------------------------
(* Frames and items *)

\* What an ingress or dead list holds: the frame and the source its header names.
Item == [id : Frames, source : Agents \cup {SwitchName}]

Raw(f) == [id |-> f, source |-> Claim[f]]

\* stamp_source and advance_hop: the copy that is forwarded names the queue it
\* was popped from, whatever the frame claimed.
Stamped(f) == [id |-> f, source |-> Home[f]]

\* build in _notify_broadcast_sender, correlated with the broadcast.
Notice(f) == [id |-> f, source |-> SwitchName]

Label == {"down", "idle", "pop", "popped", "lookup", "admit", "bury",
          "placed", "buried", "notice"}

\* The points at which the frame in hand exists nowhere else.
Holding == {"popped", "lookup", "admit", "bury"}

\* The points at which a command that was rejected is tried again.
Retrying == {"lookup", "admit", "bury"}

Record == {"none", "popped", "forwarded", "dead_lettered", "lost", "unknown"}

\* Every variable holds a value of its type; ingress stays within its cap, and a
\* switch that works on a frame has one.
TypeOK ==
    /\ egress \in [Agents -> Seq(Frames)]
    /\ ingress \in [Agents -> Seq(Item)]
    /\ \A a \in Agents : Len(ingress[a]) <= IngressMax
    /\ dead \in [Agents -> Seq(Item)]
    /\ registry \subseteq Agents
    /\ hires \in [Agents -> Nat]
    /\ pc \in Label
    /\ offset \in Nat
    /\ DOMAIN keys \subseteq Agents
    /\ hand \in Frames \cup {Nobody}
    /\ hand = Nobody <=> pc \in {"down", "idle", "pop"}
    /\ dests \subseteq Agents
    /\ pc \in {"admit", "placed", "notice"} => dests # {}
    /\ out \in Item \cup {Nobody}
    /\ pc = "bury" => out \in {Raw(hand), Stamped(hand)}
    /\ attempt \in 0 .. Attempts - 1
    /\ sent \subseteq Frames
    /\ placed \in [Agents -> Seq(Item)]
    /\ buried \subseteq Frames
    /\ gone \subseteq Frames
    /\ aimed \in [Frames -> SUBSET Agents]
    /\ said \in [Frames -> Record]
    /\ cut \subseteq Frames
    /\ passed \in [Agents -> Nat]

-----------------------------------------------------------------------------
Init ==
    /\ egress = [a \in Agents |-> <<>>]
    /\ ingress = [a \in Agents |-> <<>>]
    /\ dead = [a \in Agents |-> <<>>]
    /\ registry = {}
    /\ hires = [a \in Agents |-> 0]
    /\ pc = "idle"
    /\ offset = 0
    /\ keys = <<>>
    /\ hand = Nobody
    /\ dests = {}
    /\ out = Nobody
    /\ attempt = 0
    /\ sent = {}
    /\ placed = [a \in Agents |-> <<>>]
    /\ buried = {}
    /\ gone = {}
    /\ aimed = [f \in Frames |-> {}]
    /\ said = [f \in Frames |-> "none"]
    /\ cut = {}
    /\ passed = [a \in Agents |-> 0]

Say(f, record) == said' = [said EXCEPT ![f] = record]

Unpassed == passed' = [a \in Agents |-> 0]

-----------------------------------------------------------------------------
(* Senders, ports and the lifecycle of participants *)

\* channels.send: RPUSH to the sender's egress.
Send(f) ==
    /\ f \notin sent
    /\ \A g \in Frames : g < f /\ Home[g] = Home[f] => g \in sent
    /\ egress' = [egress EXCEPT ![Home[f]] = Append(@, f)]
    /\ sent' = sent \cup {f}
    /\ UNCHANGED <<ingress, dead, office, pc, offset, keys, job, placed, buried,
                   gone, aimed, said, cut, passed>>

\* A port claims the head of ingress (Custody's Claim).
Drain(a) ==
    /\ ingress[a] # <<>>
    /\ ingress' = [ingress EXCEPT ![a] = Tail(@)]
    /\ UNCHANGED <<egress, dead, office, pc, offset, keys, job, history>>

\* StartAgent publishes the registry row. It does not look at the lists.
Hire(a) ==
    /\ a \notin registry
    /\ hires[a] < MaxHires
    /\ registry' = registry \cup {a}
    /\ hires' = [hires EXCEPT ![a] = @ + 1]
    /\ Unpassed
    /\ UNCHANGED <<lists, pc, offset, keys, job, sent, placed, buried, gone,
                   aimed, said, cut>>

\* The stop script removes the row and moves ingress to undeliverable; egress
\* and dead are preserved.
Retire(a) ==
    /\ a \in registry
    /\ registry' = registry \ {a}
    /\ ingress' = [ingress EXCEPT ![a] = <<>>]
    /\ Unpassed
    /\ UNCHANGED <<egress, dead, hires, pc, offset, keys, job, sent, placed,
                   buried, gone, aimed, said, cut>>

-----------------------------------------------------------------------------
(* Switch.step: the rotating order and the blocking pop *)

\* The place of a in sorted(registry), counted from 0.
Index(a) == Cardinality({b \in registry : b < a})

\* agents[start:] + agents[:start]
Rotated(S, start) ==
    [a \in S |-> (Index(a) - start + Cardinality(S)) % Cardinality(S)]

\* Mutant: the offset is never advanced.
ScanUnrotated ==
    /\ pc = "idle"
    /\ registry # {}
    /\ keys' = Rotated(registry, 0)
    /\ pc' = "pop"
    /\ UNCHANGED <<lists, office, offset, job, history>>

\* Mutant: participants without a port type are left out of the key list.
ScanPorted ==
    /\ pc = "idle"
    /\ registry \ Portless # {}
    /\ keys' = Rotated(registry \ Portless, 0)
    /\ pc' = "pop"
    /\ UNCHANGED <<lists, office, offset, job, history>>

\* Read the members and fix the order of the key list. With no members, or when
\* the read fails, step returns and is called again.
Scan ==
    /\ pc = "idle"
    /\ registry # {}
    /\ LET n     == Cardinality(registry)
           start == offset % n
       IN /\ keys' = Rotated(registry, start)
          /\ offset' = (start + 1) % n
    /\ pc' = "pop"
    /\ UNCHANGED <<lists, office, job, history>>

Waits(a) == a \in DOMAIN keys /\ egress[a] # <<>>

\* BLPOP serves the first key whose list is not empty.
Served(a) == Waits(a) /\ \A b \in Agents : Waits(b) => keys[a] <= keys[b]

\* Every other queue that waits is passed over. A registry that changed since
\* the scan has made the order void: counting starts again.
PassOver(a) ==
    passed' = [b \in Agents |->
        IF Waits(b) /\ b # a /\ DOMAIN keys = registry THEN passed[b] + 1 ELSE 0]

Unqueue(a) == egress' = [egress EXCEPT ![a] = Tail(@)]

Pop(a) ==
    /\ pc = "pop"
    /\ Served(a)
    /\ Unqueue(a)
    /\ hand' = Head(egress[a])
    /\ Say(Head(egress[a]), "popped")
    /\ PassOver(a)
    /\ pc' = "popped"
    /\ keys' = <<>>
    /\ UNCHANGED <<ingress, dead, office, offset, dests, out, attempt, sent,
                   placed, buried, gone, aimed, cut>>

\* BLPOP times out, or fails without having run.
PopNothing ==
    /\ pc = "pop"
    /\ pc' = "idle"
    /\ keys' = <<>>
    /\ Unpassed
    /\ UNCHANGED <<lists, office, offset, job, sent, placed, buried, gone,
                   aimed, said, cut>>

\* BLPOP runs but the connection drops before its reply arrives.
PopLost(a) ==
    /\ pc = "pop"
    /\ Served(a)
    /\ Unqueue(a)
    /\ gone' = gone \cup {Head(egress[a])}
    /\ pc' = "idle"
    /\ keys' = <<>>
    /\ Unpassed
    /\ UNCHANGED <<ingress, dead, office, offset, job, sent, placed, buried,
                   aimed, said, cut>>

-----------------------------------------------------------------------------
(* Switch._forward *)

\* step returns, or raises a transient error that run survives.
EndStep ==
    /\ pc' = "idle"
    /\ hand' = Nobody
    /\ dests' = {}
    /\ out' = Nobody
    /\ attempt' = 0

\* The next command of the step; its attempts are counted afresh.
GoOn(label) ==
    /\ pc' = label
    /\ attempt' = 0
    /\ UNCHANGED hand

\* _dead_letter(sender, item) is the next command.
WillBury(item) ==
    /\ GoOn("bury")
    /\ dests' = {}
    /\ out' = item

\* Parse the header, stamp the source, advance the hop.
Examine ==
    /\ pc = "popped"
    /\ IF hand \in Garbled THEN WillBury(Raw(hand))
       ELSE IF hand \in Spent THEN WillBury(Stamped(hand))
       ELSE GoOn("lookup") /\ UNCHANGED <<dests, out>>
    /\ UNCHANGED <<lists, office, offset, keys, history>>

Broadcast(f) == Dest[f] = All

\* port_type of the destination, or member_types without the sender.
Recipients(f) ==
    IF Broadcast(f) THEN registry \ {Home[f]} ELSE registry \cap {Dest[f]}

Lookup ==
    /\ pc = "lookup"
    /\ Recipients(hand) # {}
    /\ dests' = Recipients(hand)
    /\ aimed' = [aimed EXCEPT ![hand] = Recipients(hand)]
    /\ GoOn("admit")
    /\ UNCHANGED <<lists, office, offset, keys, out, sent, placed, buried, gone,
                   said, cut, passed>>

NoSuchDestination ==
    /\ pc = "lookup"
    /\ Recipients(hand) = {}
    /\ ~Broadcast(hand)
    /\ WillBury(Stamped(hand))
    /\ UNCHANGED <<lists, office, offset, keys, history>>

\* A broadcast with no other member is recorded as forwarded to none.
NoRecipients ==
    /\ pc = "lookup"
    /\ Recipients(hand) = {}
    /\ Broadcast(hand)
    /\ Say(hand, "forwarded")
    /\ gone' = gone \cup {hand}
    /\ EndStep
    /\ UNCHANGED <<lists, office, offset, keys, sent, placed, buried, aimed, cut,
                   passed>>

\* Mutant: depth > limit instead of depth >= limit.
RoomOneMore == \A a \in dests : Len(ingress[a]) <= IngressMax

\* _ADMIT_INGRESS: one script, all destinations or none.
Room == \A a \in dests : Len(ingress[a]) < IngressMax

AppendTo(S, item, queue) ==
    [a \in Agents |-> IF a \in S THEN Append(queue[a], item) ELSE queue[a]]

Place(S, item) ==
    /\ ingress' = AppendTo(S, item, ingress)
    /\ placed' = AppendTo(S, item, placed)

\* Mutant: each destination is admitted or refused by itself.
AdmitSome ==
    /\ pc = "admit"
    /\ \E a \in dests : Len(ingress[a]) < IngressMax
    /\ Place({a \in dests : Len(ingress[a]) < IngressMax}, Stamped(hand))
    /\ GoOn("placed")
    /\ UNCHANGED <<egress, dead, office, offset, keys, dests, out, sent, buried,
                   gone, aimed, said, cut, passed>>

Admit ==
    /\ pc = "admit"
    /\ Room
    /\ Place(dests, Stamped(hand))
    /\ GoOn("placed")
    /\ UNCHANGED <<egress, dead, office, offset, keys, dests, out, sent, buried,
                   gone, aimed, said, cut, passed>>

\* _dead_letter_full
Full ==
    /\ pc = "admit"
    /\ ~Room
    /\ WillBury(Stamped(hand))
    /\ UNCHANGED <<lists, office, offset, keys, history>>

\* Mutant: a connection error on the admission is retried like a rejection.
AdmitBlindRetry ==
    /\ pc = "admit"
    /\ Room
    /\ Place(dests, Stamped(hand))
    /\ GoOn("admit")
    /\ UNCHANGED <<egress, dead, office, offset, keys, dests, out, sent, buried,
                   gone, aimed, said, cut, passed>>

\* Mutant: a connection error on the admission dead-letters the frame.
AdmitUnknownBuries ==
    /\ pc = "admit"
    /\ Room
    /\ Place(dests, Stamped(hand))
    /\ WillBury(Stamped(hand))
    /\ UNCHANGED <<egress, dead, office, offset, keys, sent, buried,
                   gone, aimed, said, cut, passed>>

\* The admission's outcome is unknown. It ran or it did not; the switch records
\* forward_unknown, neither retries nor dead-letters, and the error ends the step.
AdmitUnknown ==
    /\ pc = "admit"
    /\ \/ Room /\ Place(dests, Stamped(hand)) /\ UNCHANGED gone
       \/ gone' = gone \cup {hand} /\ UNCHANGED <<ingress, placed>>
    /\ Say(hand, "unknown")
    /\ EndStep
    /\ UNCHANGED <<egress, dead, office, offset, keys, sent, buried, aimed, cut,
                   passed>>

-----------------------------------------------------------------------------
(* Switch._retrying, _route, _dead_letter *)

\* Mutant: the count starts again instead of reaching its limit.
RejectedForever ==
    /\ pc \in Retrying
    /\ attempt' = (attempt + 1) % Attempts
    /\ UNCHANGED <<lists, office, pc, offset, keys, hand, dests, out, history>>

\* A command is rejected before it ran, or a read fails: try again.
Rejected ==
    /\ pc \in Retrying
    /\ attempt + 1 < Attempts
    /\ attempt' = attempt + 1
    /\ UNCHANGED <<lists, office, pc, offset, keys, hand, dests, out, history>>

\* Mutant: exhaustion ends the step as any transient error does.
ExhaustedDrops ==
    /\ pc \in {"lookup", "admit"}
    /\ attempt + 1 = Attempts
    /\ EndStep
    /\ UNCHANGED <<lists, office, offset, keys, history>>

\* RetryExhausted: _route dead-letters the frame as it was popped.
Exhausted ==
    /\ pc \in {"lookup", "admit"}
    /\ attempt + 1 = Attempts
    /\ WillBury(Raw(hand))
    /\ UNCHANGED <<lists, office, offset, keys, history>>

Bury ==
    /\ dead' = [dead EXCEPT ![Home[hand]] = Append(@, out)]
    /\ buried' = buried \cup {hand}

DeadLetter ==
    /\ pc = "bury"
    /\ Bury
    /\ GoOn("buried")
    /\ UNCHANGED <<egress, ingress, office, offset, keys, dests, out, sent,
                   placed, gone, aimed, said, cut, passed>>

\* The dead-letter write is itself rejected to the end: "frame LOST" is logged.
DeadLetterExhausted ==
    /\ pc = "bury"
    /\ attempt + 1 = Attempts
    /\ Say(hand, "lost")
    /\ EndStep
    /\ UNCHANGED <<lists, office, offset, keys, sent, placed, buried, gone,
                   aimed, cut, passed>>

\* The outcome of the dead-letter write is unknown: the error ends the step, and
\* nothing is recorded about the frame.
DeadLetterUnknown ==
    /\ pc = "bury"
    /\ \/ Bury /\ UNCHANGED gone
       \/ gone' = gone \cup {hand} /\ UNCHANGED <<dead, buried>>
    /\ EndStep
    /\ UNCHANGED <<egress, ingress, office, offset, keys, sent, placed, aimed,
                   said, cut, passed>>

-----------------------------------------------------------------------------
(* After the write *)

\* Recipients without a port type cannot be kicked (_kick returns False). For
\* the others a kick starts a port or fails; neither changes what is held here.
Skipped == IF Broadcast(hand) THEN dests \cap Portless ELSE {}

\* Record forwarded, kick, and tell the sender of a broadcast whom it skipped.
ReportForwarded ==
    /\ pc = "placed"
    /\ Say(hand, "forwarded")
    /\ IF Skipped = {} THEN EndStep
       ELSE GoOn("notice") /\ UNCHANGED <<dests, out>>
    /\ UNCHANGED <<lists, office, offset, keys, sent, placed, buried, gone,
                   aimed, cut, passed>>

ReportDead ==
    /\ pc = "buried"
    /\ Say(hand, "dead_lettered")
    /\ EndStep
    /\ UNCHANGED <<lists, office, offset, keys, sent, placed, buried, gone,
                   aimed, cut, passed>>

\* _notify_broadcast_sender: one attempt, whatever its outcome; the sender may
\* have been retired.
NotifySender ==
    /\ pc = "notice"
    /\ Len(ingress[Home[hand]]) < IngressMax
    /\ Place({Home[hand]}, Notice(hand))
    /\ EndStep
    /\ UNCHANGED <<egress, dead, office, offset, keys, sent, buried, gone,
                   aimed, said, cut, passed>>

NotifyNobody ==
    /\ pc = "notice"
    /\ EndStep
    /\ UNCHANGED <<lists, office, offset, keys, history>>

-----------------------------------------------------------------------------
(* Crash, restart, retention *)

\* SIGKILL, or an error that run does not survive. What was in hand and not
\* written is gone with the process.
Crash ==
    /\ pc # "down"
    /\ pc' = "down"
    /\ gone' = IF pc \in Holding THEN gone \cup {hand} ELSE gone
    /\ cut' = IF hand = Nobody THEN cut ELSE cut \cup {hand}
    /\ hand' = Nobody
    /\ dests' = {}
    /\ out' = Nobody
    /\ attempt' = 0
    /\ keys' = <<>>
    /\ Unpassed
    /\ UNCHANGED <<lists, office, offset, sent, placed, buried, aimed, said>>

Restart ==
    /\ pc = "down"
    /\ pc' = "idle"
    /\ offset' = 0
    /\ UNCHANGED <<lists, office, keys, job, history>>

\* RetentionTrimmer.poll between two steps.
TrimDead(a) ==
    /\ pc = "idle"
    /\ a \in registry
    /\ Len(dead[a]) > DeadMax
    /\ dead' = [dead EXCEPT ![a] = LTrim(@, DeadMax)]
    /\ UNCHANGED <<egress, ingress, office, pc, offset, keys, job, history>>

-----------------------------------------------------------------------------
Step ==
    \/ Scan \/ PopNothing
    \/ \E a \in Agents : Pop(a) \/ PopLost(a)

Forward ==
    \/ Examine \/ Lookup \/ NoSuchDestination \/ NoRecipients
    \/ Admit \/ Full \/ AdmitUnknown

Retry == Rejected \/ Exhausted

Dispose == DeadLetter \/ DeadLetterExhausted \/ DeadLetterUnknown

Report == ReportForwarded \/ ReportDead \/ NotifySender \/ NotifyNobody

Work == Step \/ Forward \/ Retry \/ Dispose \/ Report

Environment ==
    \/ \E f \in Frames : Send(f)
    \/ \E a \in Agents : Drain(a) \/ Hire(a) \/ Retire(a)

Next ==
    \/ Environment
    \/ Work
    \/ Crash \/ Restart
    \/ \E a \in Agents : TrimDead(a)

Spec == Init /\ [][Next]_vars

\* The process takes its next step, whatever Redis answers, and Redis does not
\* fail every BLPOP for ever. Nothing is assumed of admissions, senders, ports,
\* lifecycle commands, nor that a dead switch is started again.
Fairness == WF_vars(Work) /\ SF_vars(\E a \in Agents : Pop(a))

FairSpec == Spec /\ Fairness

-----------------------------------------------------------------------------
(* Safety *)

Waiting(f)   == In(egress[Home[f]], f)
Held(f)      == hand = f /\ pc \in Holding
Gets(a, f)   == In(placed[a], Stamped(f))
Delivered(f) == \E a \in Agents : Gets(a, f)
Lost(f)      == f \in gone \/ said[f] = "lost"

Places == {"egress", "hand", "ingress", "dead", "lost"}

At(f, where) ==
    \/ where = "egress" /\ Waiting(f)
    \/ where = "hand" /\ Held(f)
    \/ where = "ingress" /\ Delivered(f)
    \/ where = "dead" /\ f \in buried
    \/ where = "lost" /\ Lost(f)

\* A frame that was sent is in exactly one place: its egress list, the switch's
\* hand, its recipients' ingress, a dead list; or it is lost, which only a crash,
\* an unknown outcome or the announced failure of the dead-letter write excuses
\* (core/README.md:212-224, "never dropped silently", "no blind retry").
FrameKept ==
    \A f \in sent : \E here \in Places : \A p \in Places : At(f, p) <=> p = here

\* A broadcast reaches every participant that the lookup saw except its sender,
\* or none; a unicast its destination or nobody; each of them once
\* (_ADMIT_INGRESS: one admission of one snapshot of the registry).
AllOrNone ==
    \A f \in Frames :
        /\ Delivered(f) => \A a \in Agents : Gets(a, f) <=> a \in aimed[f]
        /\ Home[f] \in aimed[f] => Dest[f] = Home[f]
        /\ \A a \in Agents : IsInjective(placed[a])

\* What the switch records is so: forwarded means that every recipient of the
\* lookup was given the frame, dead_lettered that it is in a dead list, LOST that
\* it is nowhere, unknown that it was not dead-lettered as well; and no record
\* contradicts a later one, because the last one is about the frame's last place.
RecordTrue ==
    \A f \in Frames :
        /\ said[f] = "forwarded" =>
             /\ \A a \in aimed[f] : Gets(a, f)
             /\ f \notin buried
        /\ said[f] = "dead_lettered" => f \in buried /\ ~Delivered(f)
        /\ said[f] \in {"lost", "unknown"} => ~Waiting(f) /\ ~Held(f) /\ f \notin buried
        /\ said[f] = "none" => ~Delivered(f) /\ f \notin buried

\* Rotation serves every sender: a queue that waits is passed over at most once
\* for each of the other members, however fast the others send, while the members
\* do not change and no pop fails (step rotates the key list by _offset).
FairTurn == \A a \in Agents : passed[a] > 0 => passed[a] < Cardinality(registry)

(* Refinement *)

\* The frames of a sender whose fate is open: the one in hand, then its queue.
pending == [a \in Agents |->
    IF pc \in Holding /\ Home[hand] = a THEN <<hand>> \o egress[a] ELSE egress[a]]

Unroutable == Garbled \cup Spent

Promise == INSTANCE SwitchPromise WITH
    sent <- sent, pending <- pending, placed <- placed, buried <- buried

\* Pop, retries, unknown outcomes and crashes together implement one step that
\* moves the sender's oldest frame to its recipients, to the dead, or away.
PromiseKept == Promise!Spec

(* Liveness *)

\* Whatever Redis answers, one frame does not hold up the others for ever:
\* attempts are bounded (_retrying), and every outcome ends the step.
HandFreed == hand # Nobody ~> hand = Nobody

\* A queued frame of a member is popped in the end, unless the switch is down.
EgressServed ==
    \A f \in Frames :
        Waiting(f) ~> ~Waiting(f) \/ Home[f] \notin registry \/ pc = "down"

(* Statements of the repository that the code does not keep *)

\* core/README.md:221-224 of a write whose outcome is unknown: "The switch
\* records forward_unknown with the closed category". As a property: every frame
\* a live switch is done with has a record of what became of it.
EveryFateRecorded ==
    \A f \in Frames : said[f] = "popped" => hand = f \/ f \in cut
=============================================================================
