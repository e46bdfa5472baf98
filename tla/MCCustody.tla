----------------------------- MODULE MCCustody -----------------------------
(***************************************************************************)
(* Instances of Custody for TLC.                                           *)
(***************************************************************************)
EXTENDS Custody, TLC

CONSTANTS e1, e2, p1, p2

\* Port processes are interchangeable; envelopes are not once one is an alert.
Symmetry == Permutations(Procs)

=============================================================================
