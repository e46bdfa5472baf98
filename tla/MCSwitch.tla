------------------------------ MODULE MCSwitch ------------------------------
(***************************************************************************)
(* Instances of Switch for TLC. Participants and frames are numbers, since *)
(* the order of both matters; there is no symmetry to use.                 *)
(***************************************************************************)
EXTENDS Switch

\* Frame 1 is a unicast of 1 to 2 whose header claims that 2 sent it; frame 2 is
\* a broadcast of 1, behind it in the same queue; frame 3 is sent by 2.
MCHome  == [f \in Frames |-> <<1, 1, 2>>[f]]
MCClaim == [f \in Frames |-> <<2, 1, 2>>[f]]
MCDest  == [f \in Frames |-> <<2, All, 1>>[f]]
=============================================================================
