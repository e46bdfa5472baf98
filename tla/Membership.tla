----------------------------- MODULE Membership -----------------------------
(***************************************************************************)
(* The roster of an office: who is enrolled with which kind of port, who   *)
(* leads, and which incarnation of a name is the current one. The scripts  *)
(* of lib/agentlifecycle/lifecycle.py that change it are atomic; what runs *)
(* around them is in Reconciler (windows) and Correlation (replies).       *)
(***************************************************************************)
EXTENDS Naturals

CONSTANTS
    Agents,    \* names that may be enrolled
    Legacy,    \* names enrolled before incarnations existed
    None,
    MaxHires   \* bound: incarnations minted

ASSUME MembershipAssumption ==
    /\ Legacy \subseteq Agents
    /\ MaxHires \in Nat
    /\ None \notin Agents \cup {"tmux", "api"}

VARIABLES
    registry,     \* the kind of port of each member
    lead,
    incarnation,  \* the current incarnation of each name, 0 when there is none
    hires         \* incarnations minted so far: the next id is a new one

roster == <<registry, lead, incarnation, hires>>

Ports == {"tmux", "api"}
Member(a) == registry[a] # None

\* A name enrolled before incarnations existed has none until it enrols again.
MembershipInit ==
    /\ registry = [a \in Agents |-> IF a \in Legacy THEN "tmux" ELSE None]
    /\ lead \in IF Legacy = {} THEN {None} ELSE Legacy
    /\ incarnation = [a \in Agents |-> 0]
    /\ hires = 0

\* A new membership always gets a new incarnation, an old one keeps its own.
Mints(a) == ~Member(a) \/ incarnation[a] = 0

\* One of the three publishing scripts: who finds no lead becomes lead.
Publish(a, port) ==
    /\ Mints(a) => hires < MaxHires
    /\ IF Mints(a)
          THEN /\ hires' = hires + 1
               /\ incarnation' = [incarnation EXCEPT ![a] = hires + 1]
          ELSE UNCHANGED <<hires, incarnation>>
    /\ registry' = [registry EXCEPT ![a] = port]
    /\ lead' = IF port = "tmux" /\ lead = None THEN a ELSE lead

\* The removing script, as far as the roster goes.
Remove(a) ==
    /\ registry' = [registry EXCEPT ![a] = None]
    /\ lead' = IF lead = a THEN None ELSE lead
    /\ incarnation' = [incarnation EXCEPT ![a] = 0]
    /\ UNCHANGED hires

\* MembersBound: whoever leads is enrolled, an incarnation belongs to a member,
\* and no two names share one.
MembersBound ==
    /\ lead # None => Member(lead)
    /\ \A a \in Agents :
          incarnation[a] # 0 =>
              /\ Member(a)
              /\ \A b \in Agents \ {a} : incarnation[b] # incarnation[a]

MembershipTypeOK ==
    /\ registry \in [Agents -> Ports \cup {None}]
    /\ lead \in Agents \cup {None}
    /\ incarnation \in [Agents -> 0 .. MaxHires]
    /\ hires \in 0 .. MaxHires
=============================================================================
