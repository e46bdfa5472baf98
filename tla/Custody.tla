------------------------------ MODULE Custody ------------------------------
(***************************************************************************)
(* The custody of envelopes addressed to ONE participant of an h-mesh      *)
(* tenant: its Redis lists (ingress, processing, opening, opened, dead and *)
(* the tenant's unresolved and undeliverable evidence), the delivery lease *)
(* that is meant to serialize its port processes, the processes            *)
(* themselves, the switch that admits and re-kicks, the watchdog that      *)
(* admits and delivers a lead alert in its own process, and the lifecycle  *)
(* operations that retire and re-hire the name.                            *)
(*                                                                         *)
(* Sources: core/channels.py (receive, _open_received), core/dispatch.py   *)
(* (delivery_lock), core/queues.py, core/service.py (_forward, _kick,      *)
(* _reconcile_ingress), modules/tmux/port.py (main, deliver_tmux),         *)
(* modules/watchdog/service.py (_notify_lead), lib/agentlifecycle.         *)
(*                                                                         *)
(* Every key is named after the participant, so participants do not        *)
(* interact through custody: one participant is the general case.          *)
(***************************************************************************)
EXTENDS Integers, FiniteSets, RedisLists

CONSTANTS
    Env,         \* envelope copies addressed to this participant, all distinct
    Alerts,      \* those of Env the watchdog writes itself (lead alerts)
    Malformed,   \* those whose body does not parse, or whose kind has no opener
    Procs,       \* port processes that may exist at one time
    Watchdog,    \* the watchdog daemon, which also calls receive()
    None,        \* no envelope, no lease
    Orphan,      \* a lease whose holder died: only its expiry removes it
    IngressMax,  \* INGRESS_MAX
    OpenedMax,   \* _OPENED_RECEIPT_MAX
    DeadMax,     \* DEAD_MAX
    MaxFaults,   \* bound: processes killed or aborted by a Redis error
    MaxLapses,   \* bound: leases that expire under a live holder
    MaxHires     \* bound: incarnations of the participant's name

ASSUME SetsAssumption ==
    /\ Alerts \subseteq Env
    /\ Malformed \subseteq Env
    /\ None \notin Env
    /\ Watchdog \notin Procs
    /\ None \notin Procs
    /\ Orphan \notin Procs

ASSUME BoundsAssumption ==
    /\ IngressMax \in Nat \ {0}
    /\ OpenedMax \in Nat \ {0}
    /\ DeadMax \in Nat \ {0}
    /\ MaxFaults \in Nat
    /\ MaxLapses \in Nat
    /\ MaxHires \in Nat

VARIABLES
    list,     \* the Redis lists that hold raw envelopes
    lease,    \* the delivery lease key: its holder's token, Orphan or None
    member,   \* the name has a registry row
    paused,   \* the paused marker exists
    pc,       \* where each receiver is in main / receive / _open_received
    raw,      \* the envelope each receiver has read or claimed
    sent,     \* what became of each envelope at its sender's side
    faults, lapses, hires,      \* counters of the bounded actions
    \* history, read by no action:
    effects,  \* how often an opener's effect on the envelope has happened
    placed,   \* envelopes in the order ingress admitted them
    begun,    \* envelopes in the order they crossed into opening
    notices,  \* envelopes whose sender was told that delivery failed
    retired   \* StopAgent removed state while a receiver was running

queues  == <<list, lease>>
agent   == <<member, paused, hires>>
bounds  == <<faults, lapses>>
history == <<effects, placed, begun, notices, retired>>
vars    == <<queues, agent, pc, raw, sent, bounds, history>>

-----------------------------------------------------------------------------
(* Types *)

ListName == {"ingress", "processing", "opening", "opened", "dead",
             "unresolved", "undeliverable"}

Receivers == Procs \cup {Watchdog}

\* The points of a receiver between two commands to Redis or to the opener.
Opening   == {"begun", "done", "rejected", "raised"}
Receiving == {"surface", "surfacing", "recover", "hold", "notify", "claim"}
             \cup Opening
Label     == {"idle", "waiting", "check", "release"} \cup Receiving

SentState == {"unsent", "routed", "placed", "refused"}

\* The points at which a receiver works on an envelope it has read or claimed.
Claiming == {"surfacing", "hold", "notify"} \cup Opening

\* Every variable holds a value of its type: the lists hold envelopes, ingress
\* and the opened receipts stay within their caps, the lease names a port
\* process, Orphan or nothing, a receiver that works on an envelope has one.
TypeOK ==
    /\ list \in [ListName -> Seq(Env)]
    /\ Len(list["ingress"]) <= IngressMax
    /\ Len(list["opened"]) <= OpenedMax
    /\ lease \in Procs \cup {None, Orphan}
    /\ member \in BOOLEAN
    /\ paused \in BOOLEAN
    /\ pc \in [Receivers -> Label]
    /\ raw \in [Receivers -> Env \cup {None}]
    /\ \A p \in Receivers : pc[p] \in Claiming => raw[p] \in Env
    /\ sent \in [Env -> SentState]
    /\ faults \in Nat /\ lapses \in Nat /\ hires \in Nat
    /\ effects \in [Env -> Nat]
    /\ placed \in Seq(Env)
    /\ begun \in Seq(Env)
    /\ notices \subseteq Env
    /\ retired \in BOOLEAN

-----------------------------------------------------------------------------
(* Redis commands *)

Holds(q, e) == In(list[q], e)

\* Mutant: the script pushes without looking at what LREM returned.
TransferUnchecked(e, from, to) ==
    list' = [list EXCEPT ![from] = LRem(@, e), ![to] = Append(@, e)]

\* _TRANSFER_RECEIVE_CUSTODY: one script, LREM from the source, RPUSH to the
\* destination, LTRIM of the opened receipts; returns 0 when LREM found nothing.
Transfer(e, from, to) ==
    /\ Holds(from, e)
    /\ list' = [list EXCEPT
         ![from] = LRem(@, e),
         ![to]   = IF to = "opened" THEN LTrim(Append(@, e), OpenedMax)
                                    ELSE Append(@, e)]

Goto(p, label) == pc' = [pc EXCEPT ![p] = label]

\* receive() leaves by an exception or a return; main's finally clause follows.
Leave(p) == /\ Goto(p, "release")
            /\ raw' = [raw EXCEPT ![p] = None]

Idle == {p \in Procs : pc[p] = "idle"}

\* A kick spawns port processes for the participant; a kick whose spawn fails
\* (kick_unknown) starts none. Kicked(S) with S = {} is the failed kick.
Kicked(S) == pc' = [p \in Receivers |-> IF p \in S THEN "waiting" ELSE pc[p]]

-----------------------------------------------------------------------------
Init ==
    /\ list = [q \in ListName |-> <<>>]
    /\ lease = None
    /\ member = FALSE
    /\ paused = FALSE
    /\ pc = [p \in Receivers |-> "idle"]
    /\ raw = [p \in Receivers |-> None]
    /\ sent = [e \in Env |-> "unsent"]
    /\ faults = 0 /\ lapses = 0 /\ hires = 0
    /\ effects = [e \in Env |-> 0]
    /\ placed = <<>>
    /\ begun = <<>>
    /\ notices = {}
    /\ retired = FALSE

-----------------------------------------------------------------------------
(* Senders: the switch, and the watchdog for its alerts. Both look the      *)
(* destination up in one command and admit in another.                      *)

SameSender(e) == IF e \in Alerts THEN Alerts ELSE Env \ Alerts

\* Switch._forward reads the destination's registry row (None: dead-lettered at
\* the sender); _notify_lead asks is_member and port_type. One frame at a time.
Lookup(e) ==
    /\ sent[e] = "unsent"
    /\ \A f \in SameSender(e) : sent[f] # "routed"
    /\ e \in Alerts => pc[Watchdog] = "idle"
    /\ sent' = [sent EXCEPT ![e] = IF member THEN "routed" ELSE "refused"]
    /\ UNCHANGED <<queues, agent, pc, raw, bounds, history>>

\* Mutant: depth > limit instead of depth >= limit.
PlaceOneMore(e) ==
    /\ sent[e] = "routed"
    /\ Len(list["ingress"]) <= IngressMax
    /\ list' = [list EXCEPT !["ingress"] = Append(@, e)]
    /\ sent' = [sent EXCEPT ![e] = "placed"]
    /\ placed' = Append(placed, e)
    /\ UNCHANGED <<lease, agent, raw, bounds, effects, begun, notices, retired>>

Place(e) ==
    /\ sent[e] = "routed"
    /\ Len(list["ingress"]) < IngressMax
    /\ list' = [list EXCEPT !["ingress"] = Append(@, e)]
    /\ sent' = [sent EXCEPT ![e] = "placed"]
    /\ placed' = Append(placed, e)
    /\ UNCHANGED <<lease, agent, raw, bounds, effects, begun, notices, retired>>

\* _ADMIT_INGRESS succeeds and the switch kicks the port.
Admit(e) ==
    /\ e \notin Alerts
    /\ Place(e)
    /\ \E S \in SUBSET Idle : Cardinality(S) <= 1 /\ Kicked(S)

\* _ADMIT_INGRESS succeeds and the watchdog calls deliver_tmux itself: no
\* lease, no look at the paused marker.
NotifyLead(e) ==
    /\ e \in Alerts
    /\ pc[Watchdog] = "idle"
    /\ Place(e)
    /\ Goto(Watchdog, "surface")

\* Ingress is full: the switch dead-letters at the sender, the watchdog drops.
Refuse(e) ==
    /\ sent[e] = "routed"
    /\ Len(list["ingress"]) >= IngressMax
    /\ sent' = [sent EXCEPT ![e] = "refused"]
    /\ UNCHANGED <<queues, agent, pc, raw, bounds, history>>

\* Mutant: the maintenance pass leaves a participant alone that has a claim.
ReconcileUnclaimed(p) ==
    /\ member /\ ~paused
    /\ list["ingress"] # <<>> /\ list["processing"] = <<>>
    /\ lease = None
    /\ p \in Idle
    /\ Kicked({p})
    /\ UNCHANGED <<queues, agent, raw, sent, bounds, history>>

\* Switch._reconcile_ingress: a member that is not paused, has queued ingress
\* and no delivery lease is kicked again.
Reconcile(p) ==
    /\ member
    /\ ~paused
    /\ list["ingress"] # <<>>
    /\ lease = None
    /\ p \in Idle
    /\ Kicked({p})
    /\ UNCHANGED <<queues, agent, raw, sent, bounds, history>>

\* RetentionTrimmer.poll, in the same pass: a member's dead list is capped.
TrimDead ==
    /\ member
    /\ Len(list["dead"]) > DeadMax
    /\ list' = [list EXCEPT !["dead"] = LTrim(@, DeadMax)]
    /\ UNCHANGED <<lease, agent, pc, raw, sent, bounds, history>>

-----------------------------------------------------------------------------
(* The delivery lease: SET NX PX, renewal while the holder lives.            *)

\* Mutant: SET PX without NX.
AcquireAlways(p) ==
    /\ pc[p] = "waiting"
    /\ lease' = p
    /\ Goto(p, "check")
    /\ UNCHANGED <<list, agent, raw, sent, bounds, history>>

Acquire(p) ==
    /\ pc[p] = "waiting"
    /\ lease = None
    /\ lease' = p
    /\ Goto(p, "check")
    /\ UNCHANGED <<list, agent, raw, sent, bounds, history>>

\* DELIVERY_LOCK_ACQUIRE_TIMEOUT passed and the last SET NX failed.
AcquireTimeout(p) ==
    /\ pc[p] = "waiting"
    /\ lease # None
    /\ Goto(p, "idle")
    /\ UNCHANGED <<queues, agent, raw, sent, bounds, history>>

\* The finally clause: compare-and-delete of the holder's own token. For the
\* watchdog it is the return from deliver_tmux, which holds no token.
Release(p) ==
    /\ pc[p] = "release"
    /\ lease' = IF lease = p THEN None ELSE lease
    /\ Goto(p, "idle")
    /\ UNCHANGED <<list, agent, raw, sent, bounds, history>>

\* A dead holder's key reaches its TTL.
OrphanExpires ==
    /\ lease = Orphan
    /\ lease' = None
    /\ UNCHANGED <<list, agent, pc, raw, sent, bounds, history>>

\* A live holder's renewals fail for longer than the TTL; it carries on.
LeaseLapses ==
    /\ lapses < MaxLapses
    /\ lease \in Procs
    /\ lease' = None
    /\ lapses' = lapses + 1
    /\ UNCHANGED <<list, agent, pc, raw, sent, faults, history>>

-----------------------------------------------------------------------------
(* receive(), one action per command.                                        *)

\* main reads the paused marker once, under the lease.
CheckPaused(p) ==
    /\ pc[p] = "check"
    /\ Goto(p, IF paused THEN "release" ELSE "surface")
    /\ UNCHANGED <<queues, agent, raw, sent, bounds, history>>

\* LINDEX opening 0.
SurfaceRead(p) ==
    /\ pc[p] = "surface"
    /\ IF list["opening"] = <<>>
         THEN Goto(p, "recover") /\ UNCHANGED raw
         ELSE /\ Goto(p, "surfacing")
              /\ raw' = [raw EXCEPT ![p] = Head(list["opening"])]
    /\ UNCHANGED <<queues, agent, sent, bounds, history>>

\* Mutant: an abandoned opening claim is put back for another try.
SurfaceReplays(p) ==
    /\ pc[p] = "surfacing"
    /\ Transfer(raw[p], "opening", "processing")
    /\ Goto(p, "surface")
    /\ raw' = [raw EXCEPT ![p] = None]
    /\ UNCHANGED <<lease, agent, sent, bounds, history>>

\* The abandoned opening claim becomes unresolved evidence.
Surface(p) ==
    /\ pc[p] = "surfacing"
    /\ Transfer(raw[p], "opening", "unresolved")
    /\ Goto(p, "surface")
    /\ raw' = [raw EXCEPT ![p] = None]
    /\ UNCHANGED <<lease, agent, sent, bounds, history>>

\* Mutant: newer ingress first, the predecessor's claim when there is none.
RecoverLast(p) ==
    /\ pc[p] = "recover"
    /\ IF list["processing"] = <<>> \/ list["ingress"] # <<>>
         THEN Goto(p, "claim") /\ UNCHANGED raw
         ELSE /\ Goto(p, "hold")
              /\ raw' = [raw EXCEPT ![p] = Head(list["processing"])]
    /\ UNCHANGED <<queues, agent, sent, bounds, history>>

\* LINDEX processing 0: a predecessor's claim comes before newer ingress.
Recover(p) ==
    /\ pc[p] = "recover"
    /\ IF list["processing"] = <<>>
         THEN Goto(p, "claim") /\ UNCHANGED raw
         ELSE /\ Goto(p, "hold")
              /\ raw' = [raw EXCEPT ![p] = Head(list["processing"])]
    /\ UNCHANGED <<queues, agent, sent, bounds, history>>

\* LMOVE ingress processing LEFT RIGHT.
Claim(p) ==
    /\ pc[p] = "claim"
    /\ list["ingress"] # <<>>
    /\ list' = [list EXCEPT !["ingress"]    = Tail(@),
                            !["processing"] = Append(@, Head(list["ingress"]))]
    /\ raw' = [raw EXCEPT ![p] = Head(list["ingress"])]
    /\ Goto(p, "hold")
    /\ UNCHANGED <<lease, agent, sent, bounds, history>>

Drained(p) ==
    /\ pc[p] = "claim"
    /\ list["ingress"] = <<>>
    /\ Leave(p)
    /\ UNCHANGED <<queues, agent, sent, bounds, history>>

-----------------------------------------------------------------------------
(* _open_received()                                                          *)

\* A body that does not parse, or a kind without an opener, is dead at once.
Discard(p) ==
    /\ pc[p] = "hold"
    /\ raw[p] \in Malformed
    /\ Transfer(raw[p], "processing", "dead")
    /\ Goto(p, "notify")
    /\ UNCHANGED <<lease, agent, raw, sent, bounds, history>>

\* Mutant: the opener runs even when the claim was lost.
BeginUnowned(p) ==
    /\ pc[p] = "hold"
    /\ raw[p] \notin Malformed
    /\ \/ Transfer(raw[p], "processing", "opening")
       \/ ~Holds("processing", raw[p]) /\ UNCHANGED list
    /\ Goto(p, "begun")
    /\ begun' = Append(begun, raw[p])
    /\ UNCHANGED <<lease, agent, raw, sent, bounds, effects, placed, notices, retired>>

Begin(p) ==
    /\ pc[p] = "hold"
    /\ raw[p] \notin Malformed
    /\ Transfer(raw[p], "processing", "opening")
    /\ Goto(p, "begun")
    /\ begun' = Append(begun, raw[p])
    /\ UNCHANGED <<lease, agent, raw, sent, bounds, effects, placed, notices, retired>>

\* The opener raises DeadLetter before it touches anything (window missing).
OpenerRejects(p) ==
    /\ pc[p] = "begun"
    /\ Goto(p, "rejected")
    /\ UNCHANGED <<queues, agent, raw, sent, bounds, history>>

\* The opener's effect happens; it then returns or raises.
OpenerActs(p) ==
    /\ pc[p] = "begun"
    /\ effects' = [effects EXCEPT ![raw[p]] = @ + 1]
    /\ \E outcome \in {"done", "raised"} : Goto(p, outcome)
    /\ UNCHANGED <<queues, agent, raw, sent, bounds, placed, begun, notices, retired>>

\* The opener raises and nothing has happened outside.
OpenerFails(p) ==
    /\ pc[p] = "begun"
    /\ Goto(p, "raised")
    /\ UNCHANGED <<queues, agent, raw, sent, bounds, history>>

Opened(p) ==
    /\ pc[p] = "done"
    /\ Transfer(raw[p], "opening", "opened")
    /\ Goto(p, "claim")
    /\ raw' = [raw EXCEPT ![p] = None]
    /\ UNCHANGED <<lease, agent, sent, bounds, history>>

\* Mutant: a failed opener is dead-lettered.
UnresolvedAsDead(p) ==
    /\ pc[p] = "raised"
    /\ Transfer(raw[p], "opening", "dead")
    /\ Goto(p, "claim")
    /\ raw' = [raw EXCEPT ![p] = None]
    /\ UNCHANGED <<lease, agent, sent, bounds, history>>

\* Mutant: the sender is told of an unresolved delivery as of a failed one.
UnresolvedNotifies(p) ==
    /\ pc[p] = "raised"
    /\ Transfer(raw[p], "opening", "unresolved")
    /\ Goto(p, "notify")
    /\ UNCHANGED <<lease, agent, raw, sent, bounds, history>>

Unresolved(p) ==
    /\ pc[p] = "raised"
    /\ Transfer(raw[p], "opening", "unresolved")
    /\ Goto(p, "claim")
    /\ raw' = [raw EXCEPT ![p] = None]
    /\ UNCHANGED <<lease, agent, sent, bounds, history>>

Rejected(p) ==
    /\ pc[p] = "rejected"
    /\ Transfer(raw[p], "opening", "dead")
    /\ Goto(p, "notify")
    /\ UNCHANGED <<lease, agent, raw, sent, bounds, history>>

\* _notify_dead_letter_sender: best effort, only towards a tmux sender; a
\* malformed body is not answered.
Notify(p) ==
    /\ pc[p] = "notify"
    /\ \E N \in SUBSET {raw[p]} : notices' = notices \cup N
    /\ Goto(p, "claim")
    /\ raw' = [raw EXCEPT ![p] = None]
    /\ UNCHANGED <<queues, agent, sent, bounds, effects, placed, begun, retired>>

\* The script returned 0: "receive lost ownership", and receive() raises.
Source(label) == IF label = "hold" THEN "processing" ELSE "opening"

LoseOwnership(p) ==
    /\ pc[p] \in {"surfacing", "hold", "done", "rejected", "raised"}
    /\ ~Holds(Source(pc[p]), raw[p])
    /\ Leave(p)
    /\ UNCHANGED <<queues, agent, sent, bounds, history>>

-----------------------------------------------------------------------------
(* Faults                                                                    *)

\* SIGKILL, a crash of the host, a restart of the watchdog: no finally clause.
Kill(p) ==
    /\ faults < MaxFaults
    /\ pc[p] # "idle"
    /\ faults' = faults + 1
    /\ lease' = IF lease = p THEN Orphan ELSE lease
    /\ Goto(p, "idle")
    /\ raw' = [raw EXCEPT ![p] = None]
    /\ UNCHANGED <<list, agent, sent, lapses, history>>

\* A Redis error leaves receive() before or after the command it hit.
Abort(p) ==
    /\ faults < MaxFaults
    /\ pc[p] \in Receiving \cup {"check"}
    /\ faults' = faults + 1
    /\ Leave(p)
    /\ UNCHANGED <<queues, agent, sent, lapses, history>>

-----------------------------------------------------------------------------
(* lib/agentlifecycle                                                        *)

StartAgent ==
    /\ ~member
    /\ hires < MaxHires
    /\ member' = TRUE
    /\ hires' = hires + 1
    /\ UNCHANGED <<queues, paused, pc, raw, sent, bounds, history>>

\* Mutant: retirement does not tell the phases apart.
StopUndeliverable ==
    /\ hires > 0
    /\ member' = FALSE
    /\ paused' = FALSE
    /\ lease' = None
    /\ list' = [list EXCEPT
         !["undeliverable"] = @ \o list["opening"] \o list["processing"]
                                \o list["ingress"],
         !["processing"] = <<>>, !["ingress"] = <<>>, !["opening"] = <<>>]
    /\ retired' = (retired \/ lease \in Procs)
    /\ UNCHANGED <<hires, pc, raw, sent, bounds, effects, placed, begun, notices>>

\* _REMOVE_MEMBERSHIP_AND_OWN_LEAD_LUA: one script, whether or not the name is
\* a member. Port processes are not stopped by it.
StopAgent ==
    /\ hires > 0
    /\ member' = FALSE
    /\ paused' = FALSE
    /\ lease' = None
    /\ list' = [list EXCEPT
         !["undeliverable"] = @ \o list["processing"] \o list["ingress"],
         !["unresolved"]    = @ \o list["opening"],
         !["processing"] = <<>>, !["ingress"] = <<>>, !["opening"] = <<>>]
    /\ retired' = (retired \/ lease \in Procs)
    /\ UNCHANGED <<hires, pc, raw, sent, bounds, effects, placed, begun, notices>>

PauseAgent ==
    /\ paused' = TRUE
    /\ UNCHANGED <<queues, member, hires, pc, raw, sent, bounds, history>>

\* Clears the marker, then kicks once per queued envelope until one kick fails.
ResumeAgent ==
    /\ paused' = FALSE
    /\ \E S \in SUBSET Idle : Cardinality(S) <= Len(list["ingress"]) /\ Kicked(S)
    /\ UNCHANGED <<queues, member, hires, raw, sent, bounds, history>>

-----------------------------------------------------------------------------
Send(e) == Lookup(e) \/ Admit(e) \/ NotifyLead(e) \/ Refuse(e)

Open(p) ==
    \/ Discard(p) \/ Begin(p)
    \/ OpenerRejects(p) \/ OpenerActs(p) \/ OpenerFails(p)
    \/ Opened(p) \/ Unresolved(p) \/ Rejected(p) \/ Notify(p)
    \/ LoseOwnership(p)

Receive(p) ==
    \/ SurfaceRead(p) \/ Surface(p) \/ Recover(p) \/ Claim(p) \/ Drained(p)
    \/ Open(p)

\* modules/tmux/port.py main: deliver under the lease.
Port(p) ==
    \/ Acquire(p) \/ AcquireTimeout(p) \/ CheckPaused(p)
    \/ Receive(p) \/ Release(p)

\* deliver_tmux called by the watchdog: the same receive(), outside main.
Deliver == Receive(Watchdog) \/ Release(Watchdog)

Lifecycle == StartAgent \/ StopAgent \/ PauseAgent \/ ResumeAgent

Next ==
    \/ \E e \in Env : Send(e)
    \/ \E p \in Procs : Port(p) \/ Reconcile(p)
    \/ Deliver
    \/ \E p \in Receivers : Kill(p) \/ Abort(p)
    \/ OrphanExpires \/ LeaseLapses
    \/ TrimDead
    \/ Lifecycle

Spec == Init /\ [][Next]_vars

\* What the scheduling justifies: a live process takes its next step (its opener
\* returns), the switch's maintenance pass runs, a TTL elapses. No fairness for
\* senders, faults, lapses or lifecycle commands.
Fairness ==
    /\ \A p \in Procs : WF_vars(Port(p))
    /\ WF_vars(Deliver)
    /\ WF_vars(\E p \in Procs : Reconcile(p))
    /\ WF_vars(OrphanExpires)

FairSpec == Spec /\ Fairness
-----------------------------------------------------------------------------
(* Safety *)

\* Retention dropped e, which only a full list allows.
Dropped(e) ==
    \/ effects[e] = 1 /\ Len(list["opened"]) >= OpenedMax
    \/ effects[e] = 0 /\ Len(list["dead"]) >= DeadMax

\* Nothing is lost and nothing is duplicated across claims, crashes, lapses and
\* retirement: an envelope is in at most one list, once; and one that ingress
\* admitted is in some list until retention drops it, as an opened receipt whose
\* effect happened or as a dead envelope whose effect did not
\* (channels.py _TRANSFER_RECEIVE_CUSTODY, lifecycle.py stop script).
OneCustody ==
    /\ \A q \in ListName : IsInjective(list[q])
    /\ \A q1, q2 \in ListName : \A e \in Env :
         Holds(q1, e) /\ Holds(q2, e) => q1 = q2
    /\ \A e \in Env : (\E q \in ListName : Holds(q, e)) => sent[e] = "placed"
    /\ \A e \in Env :
         sent[e] = "placed" /\ (\A q \in ListName : ~Holds(q, e))
             => Dropped(e)

\* No envelope is executed twice, whoever dies and whatever the lease does: the
\* comment in _open_received, "opening is never replayed because one may have
\* begun", with two receivers at work as well as with one.
AtMostOnce == \A e \in Env : effects[e] <= 1

\* The operator's surfaces tell the truth: what is not admitted, queued, claimed,
\* rejected or undeliverable has had no effect, what is opened has had it
\* (core/README.md:58-64, "three truthful terminal surfaces").
TruthfulCustody ==
    \A e \in Env :
        /\ sent[e] # "placed" => effects[e] = 0
        /\ \A q \in {"ingress", "processing", "dead", "undeliverable"} :
             Holds(q, e) => effects[e] = 0
        /\ Holds("opened", e) => effects[e] = 1

\* e was rejected: it is dead, or retention dropped it from there.
Settled(e) ==
    /\ sent[e] = "placed"
    /\ effects[e] = 0
    /\ \A q \in ListName \ {"dead"} : ~Holds(q, e)

\* A sender is told of a failed delivery only for an envelope that was rejected,
\* has had no effect and is never picked up again, by whomever it was told
\* (_notify_dead_letter_sender runs after the transfer).
NoticeTruthful == \A e \in notices : Settled(e)

\* What makes it so when two receivers are at work: an envelope has at most one
\* opener, its custody stays in opening or has been surfaced as unresolved while
\* the opener runs, and the opener's verdict agrees with what it did.
OneOpener ==
    /\ \A p1, p2 \in Receivers :
         pc[p1] \in Opening /\ pc[p2] \in Opening /\ raw[p1] = raw[p2] => p1 = p2
    /\ \A p \in Receivers :
         /\ pc[p] \in Opening => Holds("opening", raw[p]) \/ Holds("unresolved", raw[p])
         /\ pc[p] \in {"begun", "rejected"} => effects[raw[p]] = 0
         /\ pc[p] = "done" => effects[raw[p]] = 1
         /\ pc[p] = "notify" => Settled(raw[p])

\* The regime in which the lease has one holder at a time: no alert is delivered
\* by the watchdog, no live holder's lease lapsed or was deleted by StopAgent.
Undisturbed == Alerts = {} /\ lapses = 0 /\ ~retired

\* In that regime the lease serializes port processes, and the one receiver
\* never finds that it lost the claim it works on: the RuntimeError "receive
\* lost ownership" cannot be raised (channels.py:398-400).
OwnershipKept ==
    Undisturbed =>
        /\ \A p1, p2 \in Receivers :
             pc[p1] \in Receiving /\ pc[p2] \in Receiving => p1 = p2
        /\ \A p \in Receivers :
             pc[p] \in {"surfacing", "hold"} \cup Opening
                 => Holds(Source(pc[p]), raw[p])

Position(s, e) == CHOOSE i \in DOMAIN s : s[i] = e

\* In that regime envelopes cross into opening in the order ingress admitted
\* them, across kills and recoveries (receive(): "Recover a predecessor's
\* claimed raw before admitting newer ingress").
InOrder ==
    Undisturbed =>
        \A i, j \in DOMAIN begun :
            i < j => Position(placed, begun[i]) < Position(placed, begun[j])

(* Refinement: what custody promises about one envelope, CustodyPromise.     *)

status == [e \in Env |->
    IF sent[e] = "refused" THEN "refused"
    ELSE IF sent[e] # "placed" THEN "offered"
    ELSE IF Holds("ingress", e) \/ Holds("processing", e) THEN "queued"
    ELSE IF Holds("opening", e) THEN "begun"
    ELSE IF Holds("unresolved", e) THEN "unresolved"
    ELSE IF Holds("undeliverable", e) THEN "undeliverable"
    ELSE IF Holds("dead", e) \/ effects[e] = 0 THEN "dead"
    ELSE "opened"]

Promise == INSTANCE CustodyPromise WITH status <- status, effects <- effects

\* The lists, the lease and the receivers together implement the life of an
\* envelope as the documentation tells it (core/README.md:36-64): every command
\* to Redis is one step of that life or none, and retirement one step of all.
PromiseKept == Promise!Spec

(* Liveness *)

\* An envelope queued for a member that is not paused is claimed in the end,
\* whichever processes die: core/README.md:78-82, the maintenance pass starts a
\* replacement and "does not rely on an unrelated future message".
IngressDrains ==
    \A e \in Env :
        Holds("ingress", e) ~> ~Holds("ingress", e) \/ paused \/ ~member

(* Statements of the repository that the code does not keep *)

\* channels.py:398-400: "The delivery lease serializes real port processes, so
\* there is one owner of this per-agent processing head at a time."
OneReceiver ==
    \A p1, p2 \in Receivers :
        pc[p1] \in Receiving /\ pc[p2] \in Receiving => p1 = p2

\* core/README.md:44-46: "exceptions and abandoned opening claims move to the
\* tenant-level unresolved evidence list".
AbandonedSurfaces ==
    \A e \in Env :
        Holds("opening", e) ~> ~Holds("opening", e) \/ paused \/ ~member
=============================================================================
