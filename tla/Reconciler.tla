----------------------------- MODULE Reconciler -----------------------------
(***************************************************************************)
(* Desired agents and actual windows. The office port writes what an agent *)
(* should be, key by key, and then enrols it (start_agent), or removes it  *)
(* and kills its window (stop_agent): lib/agentlifecycle/lifecycle.py,     *)
(* modules/office/port.py. The reconciler's passes read the roster and the *)
(* keys and create and kill windows: modules/tmux/reconciler.py, ops.py.   *)
(*                                                                         *)
(* One lifecycle operation runs at a time, under the delivery lease of the *)
(* participant host; the reconciler is another process. Every command of   *)
(* either to Redis or to tmux is an action.                                *)
(*                                                                         *)
(* Of the keys that describe a window two are kept, the first and the last *)
(* written; the others are read and written between them in the same way.  *)
(* Run windows, guides and log records are left out.                       *)
(***************************************************************************)
EXTENDS Membership, FiniteSets

CONSTANTS
    Values,      \* values of the key launch
    Profiles,    \* values of the key profile
    Begins,      \* pairs of names of which the first begins the second
    MaxOps,      \* bound: lifecycle operations
    MaxFaults    \* bound: windows that die, commands to tmux that fail, kills

VARIABLES
    allowEmpty,  \* allow_empty_roster, of this process for good
    desired,   \* per name, the keys profile and launch
    op,        \* the lifecycle operation in progress
    ops,       \* operations begun
    window,    \* per name, what its window was created with, or Gone
    idling,    \* the placeholder window __init__ exists
    pass,      \* where the reconciler is
    enrolled,  \* the roster it has read
    existing,  \* the windows it has seen
    reading,   \* whom it is about to create
    draft,     \* the keys it has read for the window
    pending,   \* the names it has yet to create, or to kill
    known,     \* _spawned_agents and _known_windows: what it expects to see
    backoff,   \* names with _next_retry in the future
    \* history and bounds:
    touched,   \* names whose keys or membership changed during this pass
    doubtful,  \* names whose window may run something else than is desired
    faults

life   == <<desired, op, ops>>
actual == <<window, idling>>
look   == <<pass, enrolled, existing, reading, draft, pending>>
memory == <<known, backoff>>
vars   == <<allowEmpty, roster, life, actual, look, memory, touched, doubtful, faults>>

Gone   == [profile |-> None, launch |-> "no window"]
Blank  == [profile |-> None, launch |-> None]
Init__ == "__init__"
Idle   == [kind |-> "idle", at |-> "nowhere"]

HasWindow(a) == window[a] # Gone
Windows == {a \in Agents : HasWindow(a)} \cup (IF idling THEN {Init__} ELSE {})
TmuxAgents == {a \in Agents : registry[a] = "tmux"}

\* The reconciler starts, beside an office that may be running.
Init ==
    /\ MembershipInit
    /\ allowEmpty \in BOOLEAN
    /\ \E v \in Values :
          desired = [a \in Agents |-> IF Member(a) THEN [Blank EXCEPT !.launch = v] ELSE Blank]
    /\ window \in {[a \in Agents |-> Gone], [a \in Agents |-> IF Member(a) THEN desired[a] ELSE Gone]}
    /\ idling = FALSE
    /\ op = Idle /\ ops = 0
    /\ pass = "rest" /\ enrolled = {} /\ existing = {} /\ reading = None
    /\ draft = Blank /\ pending = {}
    /\ known = {} /\ backoff = {}
    /\ touched = {} /\ doubtful = {} /\ faults = 0

Fault == faults < MaxFaults /\ faults' = faults + 1

-----------------------------------------------------------------------------
(* tmux                                                                    *)

\* kill-window -t session:name takes the window of that name, or without one the
\* only window whose name begins so.
Hit(a) ==
    IF HasWindow(a) THEN {a}
    ELSE LET longer == {b \in Agents : <<a, b>> \in Begins /\ HasWindow(b)}
         IN  IF Cardinality(longer) = 1 THEN longer ELSE {}

Kill(hit) ==
    /\ window' = [a \in Agents |-> IF a \in hit THEN Gone ELSE window[a]]
    /\ doubtful' = doubtful \ hit
    /\ UNCHANGED idling

\* A window closes when what runs in it ends.
WindowDies(a) ==
    /\ HasWindow(a)
    /\ Kill({a})
    /\ Fault
    /\ UNCHANGED <<roster, life, look, memory, touched>>

-----------------------------------------------------------------------------
(* Lifecycle operations                                                    *)

\* A start names a value for launch always, and one for profile or none.
Begin ==
    /\ op = Idle /\ ops < MaxOps
    /\ \E a \in Agents, kind \in {"start", "api", "stop"} :
       \E v \in Values, p \in Profiles \cup {None} :
          op' = [kind |-> kind, at |-> "look", agent |-> a, changed |-> FALSE,
                 want |-> IF kind = "start" THEN [profile |-> p, launch |-> v] ELSE Blank]
    /\ ops' = ops + 1
    /\ UNCHANGED <<roster, desired, actual, look, memory, touched, doubtful, faults>>

\* Everything that may be wrong with a request is found before it changes anything.
Reject ==
    /\ op.at = "look"
    /\ op' = Idle
    /\ UNCHANGED <<roster, desired, ops, actual, look, memory, touched, doubtful, faults>>

Touch == touched' = IF pass = "rest" THEN {} ELSE touched \cup {op.agent}

\* port_type is read once: only a window of a tmux agent is ever replaced. An API
\* participant has no keys that describe a window.
Look ==
    /\ op.at = "look"
    /\ op' = IF op.kind # "start" THEN [op EXCEPT !.at = "publish"]
             ELSE [op EXCEPT !.at = IF op.want.profile = None THEN "launch" ELSE "profile",
                             !.kind = IF registry[op.agent] = "tmux" THEN "again" ELSE "new"]
    /\ UNCHANGED <<roster, desired, ops, actual, look, memory, touched, doubtful, faults>>

\* Mutant: only the launch key counts as a change.
WriteLaunchOnly(f, next) ==
    /\ op.at = f
    /\ desired' = [desired EXCEPT ![op.agent][f] = op.want[f]]
    /\ op' = [op EXCEPT !.at = next,
                        !.changed = @ \/ (op.kind = "again" /\ f = "launch"
                                          /\ desired[op.agent][f] # op.want[f])]
    /\ Touch
    /\ UNCHANGED <<roster, ops, actual, look, memory, doubtful, faults>>

\* Reading the old value and writing the new one; nobody else writes the keys.
Write(f, next) ==
    /\ op.at = f
    /\ desired' = [desired EXCEPT ![op.agent][f] = op.want[f]]
    /\ op' = [op EXCEPT !.at = next,
                        !.changed = @ \/ (op.kind = "again" /\ desired[op.agent][f] # op.want[f])]
    /\ Touch
    /\ UNCHANGED <<roster, ops, actual, look, memory, doubtful, faults>>

Enrol ==
    /\ op.at = "publish" /\ op.kind # "stop"
    /\ Publish(op.agent, IF op.kind = "api" THEN "api" ELSE "tmux")
    /\ op' = IF op.changed THEN [op EXCEPT !.at = "kill"] ELSE Idle
    /\ doubtful' = IF op.kind = "api" THEN doubtful \cup {op.agent} ELSE doubtful
    /\ Touch
    /\ UNCHANGED <<desired, ops, actual, look, memory, faults>>

\* The removal takes the keys of the name with it. An API participant has no window.
Retire ==
    /\ op.kind = "stop" /\ op.at = "publish"
    /\ Remove(op.agent)
    /\ desired' = [desired EXCEPT ![op.agent] = Blank]
    /\ op' = IF registry[op.agent] = "api" THEN Idle ELSE [op EXCEPT !.at = "kill"]
    /\ doubtful' = IF registry[op.agent] = "api" THEN doubtful \cup {op.agent} ELSE doubtful
    /\ Touch
    /\ UNCHANGED <<ops, actual, look, memory, faults>>

\* A kill that finds no window ends the operation with an unknown outcome.
KillWindow ==
    /\ op.at = "kill"
    /\ Kill(Hit(op.agent))
    /\ op' = Idle
    /\ Touch
    /\ UNCHANGED <<roster, desired, ops, look, memory, faults>>

\* tmux fails, or the port is killed: what was written stays, nothing is retried.
Abandon ==
    /\ op.kind # "idle"
    /\ op' = Idle
    /\ doubtful' = doubtful \cup {op.agent}
    /\ Touch
    /\ Fault
    /\ UNCHANGED <<roster, desired, ops, actual, look, memory>>

Lifecycle ==
    Begin \/ Reject \/ Look \/ Write("profile", "launch") \/ Write("launch", "publish")
    \/ Enrol \/ Retire \/ KillWindow \/ Abandon

-----------------------------------------------------------------------------
(* A pass of the reconciler                                                *)

One(S) == CHOOSE s \in S : TRUE   \* some fixed order

\* Mutant: a member that has no window yet is put off like one whose window died.
CheckMissing(seen, members) ==
    /\ backoff' = backoff \cup (members \ seen)
    /\ known' = known \cap seen

\* A window that is gone and belongs to a member is retried only after a pause.
CheckDead(seen, members) ==
    /\ backoff' = backoff \cup ((known \ seen) \cap members)
    /\ known' = known \cap seen

Elapse(a) ==
    /\ a \in backoff
    /\ backoff' = backoff \ {a}
    /\ UNCHANGED <<roster, life, actual, look, known, touched, doubtful, faults>>

ReadRoster ==
    /\ pass = "rest" /\ pass' = "sight"
    /\ enrolled' = TmuxAgents
    /\ backoff' = backoff \cap TmuxAgents
    /\ touched' = IF op = Idle THEN {} ELSE {op.agent}
    /\ UNCHANGED <<roster, life, actual, existing, reading, draft, pending, known, doubtful, faults>>

\* The first window of a new session is one of a member that is not in backoff.
FirstSight ==
    /\ pass = "sight"
    /\ CheckDead(Windows, enrolled)
    /\ LET ready == enrolled \ backoff'
       IN  IF ready = {} THEN reading' = Init__ /\ pass' = "session"
           ELSE reading' = One(ready) /\ pass' = "launch"
    /\ draft' = Blank
    /\ UNCHANGED <<roster, life, actual, enrolled, existing, pending, touched, doubtful, faults>>

ReadKey(f, next) ==
    /\ pass = f /\ pass' = next
    /\ draft' = [draft EXCEPT ![f] = desired[reading][f]]
    /\ UNCHANGED <<roster, life, actual, enrolled, existing, reading, pending,
                   memory, touched, doubtful, faults>>

\* Creating a window under a name: what it runs is doubtful if the name was touched
\* since the pass began.
Open(name) ==
    IF name = Init__ THEN idling' = TRUE /\ UNCHANGED <<window, doubtful>>
    ELSE /\ window' = [window EXCEPT ![name] = draft]
         /\ doubtful' = IF name \in touched THEN doubtful \cup {name} ELSE doubtful
         /\ UNCHANGED idling

\* ensure_server_and_session: a session is created with its first window.
Ensure ==
    /\ pass = "session" /\ pass' = "resight"
    /\ \/ Windows # {} /\ UNCHANGED <<actual, known, doubtful, faults>>
       \/ Windows = {} /\ Open(reading) /\ known' = known \cup {reading} /\ UNCHANGED faults
       \/ Windows = {} /\ Fault /\ UNCHANGED <<actual, known, doubtful>>
    /\ UNCHANGED <<roster, life, enrolled, existing, reading, draft, pending, backoff, touched>>

SecondSight ==
    /\ pass = "resight" /\ pass' = "create"
    /\ CheckDead(Windows, enrolled)
    /\ pending' = (enrolled \ Windows) \ backoff'
    /\ reading' = None /\ draft' = Blank
    /\ UNCHANGED <<roster, life, actual, enrolled, existing, touched, doubtful, faults>>

StartCreate ==
    /\ pass = "create" /\ pending # {}
    /\ reading' = One(pending) /\ pending' = pending \ {One(pending)}
    /\ draft' = Blank /\ pass' = "launch2"
    /\ UNCHANGED <<roster, life, actual, enrolled, existing, memory, touched, doubtful, faults>>

ReadKey2(f, at, next) ==
    /\ pass = at /\ pass' = next
    /\ draft' = [draft EXCEPT ![f] = desired[reading][f]]
    /\ UNCHANGED <<roster, life, actual, enrolled, existing, reading, pending,
                   memory, touched, doubtful, faults>>

\* A window of that name is success, and stays; without a session there is no new one.
CreateWindow ==
    /\ pass = "open" /\ pass' = "create"
    /\ \/ /\ Windows # {}
          /\ IF reading \in Windows THEN UNCHANGED <<actual, doubtful>> ELSE Open(reading)
          /\ known' = known \cup {reading}
          /\ UNCHANGED faults
       \/ /\ Windows = {}
          /\ UNCHANGED <<actual, known, doubtful, faults>>
       \/ /\ reading \notin Windows /\ Windows # {}
          /\ Fault
          /\ UNCHANGED <<actual, known, doubtful>>
    /\ UNCHANGED <<roster, life, enrolled, existing, reading, draft, pending, backoff, touched>>

\* The end of a pass: its local variables are gone.
Forget ==
    /\ pass' = "rest" /\ enrolled' = {} /\ existing' = {} /\ reading' = None
    /\ draft' = Blank /\ pending' = {} /\ touched' = {}

\* The last look decides what is stale. With nobody enrolled the windows of agents
\* are kept, and the pass ends here, unless the operator allowed an empty roster.
LastSight ==
    /\ pass = "create" /\ pending = {}
    /\ CheckDead(Windows, enrolled)
    /\ IF enrolled = {} /\ Windows \ {Init__} # {} /\ ~allowEmpty
          THEN Forget
          ELSE /\ pass' = IF enrolled = {} /\ Init__ \notin Windows THEN "placeholder" ELSE "reap"
               /\ pending' = Windows \ (IF enrolled = {} THEN {Init__} ELSE enrolled)
               /\ existing' = Windows
               /\ UNCHANGED <<enrolled, reading, draft, touched>>
    /\ UNCHANGED <<roster, life, actual, doubtful, faults>>

Placeholder ==
    /\ pass = "placeholder" /\ pass' = "reap"
    /\ \/ /\ Windows # {} /\ Open(Init__)
          /\ existing' = existing \cup {Init__}
          /\ UNCHANGED faults
       \/ Windows # {} /\ Fault /\ UNCHANGED <<actual, existing, doubtful>>
       \/ Windows = {} /\ UNCHANGED <<actual, existing, doubtful, faults>>
    /\ UNCHANGED <<roster, life, enrolled, reading, draft, pending, memory, touched>>

\* The last window is never killed, since the session would end with it.
Reap ==
    /\ pass = "reap" /\ pending # {}
    /\ LET stale == One(pending)
       IN  /\ pending' = pending \ {stale}
           /\ \/ /\ Cardinality(existing) > 1
                 /\ IF stale = Init__
                       THEN idling' = FALSE /\ UNCHANGED <<window, doubtful>>
                       ELSE Kill(Hit(stale))
                 /\ existing' = IF stale = Init__ \/ Hit(stale) # {}
                                   THEN existing \ {stale} ELSE existing
                 /\ UNCHANGED faults
              \/ /\ Cardinality(existing) > 1 /\ Fault
                 /\ UNCHANGED <<actual, existing, doubtful>>
              \/ /\ Cardinality(existing) <= 1
                 /\ UNCHANGED <<actual, existing, doubtful, faults>>
    /\ UNCHANGED <<roster, life, pass, enrolled, reading, draft, memory, touched>>

EndPass ==
    /\ pass = "reap" /\ pending = {}
    /\ Forget
    /\ known' = existing
    /\ UNCHANGED <<roster, life, actual, backoff, doubtful, faults>>

Step ==
    ReadRoster \/ FirstSight \/ ReadKey("launch", "profile") \/ ReadKey("profile", "session")
    \/ Ensure \/ SecondSight \/ StartCreate \/ ReadKey2("launch", "launch2", "profile2")
    \/ ReadKey2("profile", "profile2", "open") \/ CreateWindow \/ LastSight \/ Placeholder
    \/ Reap \/ EndPass

Next ==
    /\ Lifecycle \/ Step \/ \E a \in Agents : Elapse(a) \/ WindowDies(a)
    /\ UNCHANGED allowEmpty

Pass     == Step /\ UNCHANGED allowEmpty
Retry(a) == Elapse(a) /\ UNCHANGED allowEmpty
Fairness == WF_vars(Pass) /\ \A a \in Agents : WF_vars(Retry(a))

Spec == Init /\ [][Next]_vars
FairSpec == Spec /\ Fairness

-----------------------------------------------------------------------------
(* Properties                                                              *)

Keys == [profile : Profiles \cup {None}, launch : Values \cup {None}]

TypeOK ==
    /\ MembershipTypeOK
    /\ desired \in [Agents -> Keys]
    /\ window \in [Agents -> Keys \cup {Gone}]
    /\ draft \in Keys
    /\ {idling, allowEmpty} \subseteq BOOLEAN
    /\ existing \cup known \subseteq Agents \cup {Init__}
    /\ enrolled \cup backoff \cup touched \cup doubtful \subseteq Agents

\* WindowCurrent: between lifecycle operations the window of an agent runs what its
\* keys say, whatever was hired again with other keys, stopped, hired back or died in
\* between (the comparison of old and new keys in start_agent, the kill of the stale
\* window, the order in which keys and roster are written). Excepted are names of
\* which an operation was abandoned, and windows created in a pass that a lifecycle
\* operation on their name overlapped: nothing brings those up to date.
WindowCurrent ==
    op = Idle =>
        \A a \in Agents :
            registry[a] = "tmux" /\ HasWindow(a) /\ a \notin doubtful => window[a] = desired[a]

\* Converges: when nothing is hired, let go or dies any more, the windows are those of
\* the agents enrolled. (With nobody enrolled, windows are kept on purpose.)
Settled == TmuxAgents # {} => Windows = TmuxAgents

Converges == <>[]Settled
=============================================================================
