----------------------------- MODULE SafeOffer ------------------------------
(***************************************************************************)
(* What the box may rely on, whatever the controller computes.  An offer   *)
(* is only made by a decision, and only while every input is alive and     *)
(* nobody asked for the pilot to be cut; decisions are at most Lag apart;  *)
(* a restart offers nothing.  So an offer outlives its inputs by no more   *)
(* than Lag.                                                               *)
(***************************************************************************)
EXTENDS Naturals

CONSTANT Lag

VARIABLES
  offering,     \* the box may charge
  overdue,      \* for how long an input has been past its timeout
  cut,          \* the pilot is to be open
  waited        \* time since the last decision

promiseVars == <<offering, overdue, cut, waited>>

Init == offering = FALSE /\ overdue = 0 /\ cut = FALSE /\ waited = 0

Decide ==
  /\ offering' \in BOOLEAN
  /\ offering' => overdue = 0 /\ ~cut
  /\ waited' = 0
  /\ UNCHANGED <<overdue, cut>>

Hear ==
  /\ overdue' \in 0 .. overdue
  /\ UNCHANGED <<offering, cut, waited>>

AskToCut ==
  /\ cut' = TRUE
  /\ UNCHANGED <<offering, overdue, waited>>

Wait ==
  /\ waited < Lag
  /\ waited' = waited + 1
  /\ overdue' \in {overdue, overdue + 1}
  /\ cut' \in {cut, FALSE}
  /\ UNCHANGED offering

Restart == offering' = FALSE /\ overdue' = 0 /\ cut' = FALSE /\ waited' = 0

Next == Decide \/ Hear \/ AskToCut \/ Wait \/ Restart

Spec == Init /\ [][Next]_promiseVars
=============================================================================
