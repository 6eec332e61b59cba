------------------------------- MODULE MCLoop -------------------------------
(***************************************************************************)
(* Instances of ClosedLoop for TLC: one unit is 1 s, the currents are real.*)
(***************************************************************************)
EXTENDS ClosedLoop
=============================================================================
