---------------------------- MODULE MCControlMode ----------------------------
(***************************************************************************)
(* Instances of ControlMode for TLC.                                       *)
(***************************************************************************)
EXTENDS ControlMode, TLC

CONSTANTS v1, v2

\* Viewers are interchangeable.
Symmetry == Permutations(Viewers)
=============================================================================
