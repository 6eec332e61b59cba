---------------------------- MODULE MCController ----------------------------
(***************************************************************************)
(* Instances of Controller for TLC.  The currents are those of the real    *)
(* install; the timeouts are scaled down with their order kept.            *)
(***************************************************************************)
EXTENDS Controller

Read(l, c, p) == [lb |-> l, car |-> c, cp |-> p]

\* An idle box, a charging one, one near its floor and one whose car is gone.
RunningFeedbacks ==
  {Read(0, 0, None), Read(120, 110, "Charging"), Read(80, 67, "Charging"),
   Read(30, 0, "NoVehicle")}

\* An idle box, for the liveness run.
LiveFeedbacks == {Read(0, 0, None)}
=============================================================================
