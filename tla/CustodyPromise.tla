--------------------------- MODULE CustodyPromise ---------------------------
(***************************************************************************)
(* What h-mesh promises about an envelope once a sender has offered it     *)
(* (core/README.md:36-64): it waits without effect, it may begin once, its *)
(* effect happens at most once, and it ends opened, dead, unresolved or    *)
(* undeliverable -- where dead and undeliverable mean that the effect did  *)
(* not happen and never will, opened that it did, and unresolved that it   *)
(* may have happened or may yet happen while the opener is still running.  *)
(* No lists, no lease, no processes.                                       *)
(***************************************************************************)
EXTENDS Naturals

CONSTANT Env

VARIABLES
    status,   \* where each envelope is in its life
    effects   \* how often its effect has happened

Status == {"offered", "refused", "queued", "begun",
           "opened", "dead", "unresolved", "undeliverable"}

vars == <<status, effects>>

Init ==
    /\ status = [e \in Env |-> "offered"]
    /\ effects = [e \in Env |-> 0]

Move(e, to) == /\ status' = [status EXCEPT ![e] = to]
               /\ UNCHANGED effects

Refuse(e) == status[e] = "offered" /\ Move(e, "refused")

Queue(e) == status[e] = "offered" /\ Move(e, "queued")

Begin(e) == status[e] = "queued" /\ Move(e, "begun")

Act(e) == /\ status[e] \in {"begun", "unresolved"}
          /\ effects[e] = 0
          /\ effects' = [effects EXCEPT ![e] = 1]
          /\ UNCHANGED status

Open(e) == status[e] = "begun" /\ effects[e] = 1 /\ Move(e, "opened")

Reject(e) == status[e] \in {"queued", "begun"} /\ effects[e] = 0 /\ Move(e, "dead")

Doubt(e) == status[e] = "begun" /\ Move(e, "unresolved")

\* The destination is retired: every envelope that waits or has begun at once.
Retire ==
    /\ status' = [e \in Env |->
         CASE status[e] = "queued" -> "undeliverable"
           [] status[e] = "begun"  -> "unresolved"
           [] OTHER -> status[e]]
    /\ UNCHANGED effects

Next ==
    \/ \E e \in Env : \/ Refuse(e) \/ Queue(e) \/ Begin(e) \/ Act(e)
                      \/ Open(e) \/ Reject(e) \/ Doubt(e)
    \/ Retire

Spec == Init /\ [][Next]_vars
=============================================================================
