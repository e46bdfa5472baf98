------------------------------- MODULE MCBoard -------------------------------
(***************************************************************************)
(* Instances of Board for TLC.                                             *)
(***************************************************************************)
EXTENDS Board, TLC

CONSTANTS p1, p2, a1, a2, id1, id2, t1, t2

\* Processes, envelopes and ids are interchangeable.
Symmetry == Permutations(Procs) \cup Permutations(Adds) \cup Permutations(Ids)
=============================================================================
