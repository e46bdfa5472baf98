--------------------------- MODULE SwitchPromise ---------------------------
(***************************************************************************)
(* What the switch promises its senders (core/README.md:195-229): a frame  *)
(* leaves its sender's queue, in the order it was sent, by one step. That  *)
(* step appends it to the ingress of every recipient at once, attributed   *)
(* to the queue it came from, or records it as dead, or loses it. Nothing  *)
(* is placed twice, and nothing is both placed and dead. The sender of a   *)
(* broadcast may be told once that a recipient was not kicked.             *)
(* No pop, no retries, no process.                                         *)
(***************************************************************************)
EXTENDS Naturals, Sequences

CONSTANTS Agents, Frames, Home, Dest, All, SwitchName, Unroutable

VARIABLES
    sent,      \* frames that senders have queued
    pending,   \* per sender, the frames whose fate is open, oldest first
    placed,    \* per participant, what its ingress was ever given
    buried     \* frames that became dead letters

vars == <<sent, pending, placed, buried>>

Copy(f)   == [id |-> f, source |-> Home[f]]
Notice(f) == [id |-> f, source |-> SwitchName]

Carries(a, item) == \E i \in DOMAIN placed[a] : placed[a][i] = item

Init ==
    /\ sent = {}
    /\ pending = [a \in Agents |-> <<>>]
    /\ placed = [a \in Agents |-> <<>>]
    /\ buried = {}

Send(f) ==
    /\ f \notin sent
    /\ sent' = sent \cup {f}
    /\ pending' = [pending EXCEPT ![Home[f]] = Append(@, f)]
    /\ UNCHANGED <<placed, buried>>

\* The oldest frame of sender s leaves its queue.
Leaves(s, f) ==
    /\ pending[s] # <<>>
    /\ f = Head(pending[s])
    /\ pending' = [pending EXCEPT ![s] = Tail(@)]
    /\ UNCHANGED sent

Deliver(s, f, to) ==
    /\ Leaves(s, f)
    /\ f \notin Unroutable
    /\ IF Dest[f] = All THEN s \notin to ELSE to = {Dest[f]}
    /\ placed' = [a \in Agents |->
         IF a \in to THEN Append(placed[a], Copy(f)) ELSE placed[a]]
    /\ UNCHANGED buried

Bury(s, f) ==
    /\ Leaves(s, f)
    /\ buried' = buried \cup {f}
    /\ UNCHANGED placed

Lose(s, f) == Leaves(s, f) /\ UNCHANGED <<placed, buried>>

Notify(f) ==
    /\ Dest[f] = All
    /\ \E a \in Agents : Carries(a, Copy(f))
    /\ ~Carries(Home[f], Notice(f))
    /\ placed' = [placed EXCEPT ![Home[f]] = Append(@, Notice(f))]
    /\ UNCHANGED <<sent, pending, buried>>

Next ==
    \E f \in Frames :
        \/ Send(f)
        \/ \E to \in SUBSET Agents : Deliver(Home[f], f, to)
        \/ Bury(Home[f], f)
        \/ Lose(Home[f], f)
        \/ Notify(f)

Spec == Init /\ [][Next]_vars
=============================================================================
