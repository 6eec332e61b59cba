------------------------------ MODULE MCPilot ------------------------------
(***************************************************************************)
(* An instance of PilotHistory for TLC.                                    *)
(***************************************************************************)
EXTENDS PilotHistory

\* What a box with an unknown or a changing pilot says, idle and drawing.
PilotFeedbacks ==
  {[lb |-> 0, car |-> 0, cp |-> None], [lb |-> 100, car |-> 95, cp |-> None],
   [lb |-> 0, car |-> 0, cp |-> "Connected"]}
=============================================================================
