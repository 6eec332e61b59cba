------------------------------- MODULE CpWake -------------------------------
(***************************************************************************)
(* What evcc is told about the car: the letter derived from the box's      *)
(* control pilot (core/src/charge/status.rs) and the mask over it while    *)
(* evcc's own wakeup pulse interrupts the pilot (core/src/charge/wake.rs). *)
(*                                                                         *)
(* A pulse is a record: `left` is the time until it closes (None before    *)
(* the first pulse, negative after it closed), `settled` tells that the    *)
(* mask has let go, `attempts` counts pulses.                              *)
(***************************************************************************)
EXTENDS GrantLaw

CONSTANTS
  SettleTime,     \* how long after a pulse an A may still be the pulse's own
  MaxAttempts     \* bound: pulses per boot in the model

ASSUME WakeAssumption == SettleTime \in Nat \ {0} /\ MaxAttempts \in Nat

Letters == {"", "A", "B", "C"}

CpStates == {"NoVehicle", "Connected", "Charging", "Fault"}

-----------------------------------------------------------------------------
\* Above this draw the car is certainly charging, whatever the pilot says.
CurrentFlowing == Amp

\* Mutant: any report above the ceiling reads as a pause.
ChargeStateAnyOverReport(report, cp, stale, car) ==
  IF stale THEN ""
  ELSE IF cp \in {None, "NoVehicle", "Connected"} /\ car >= CurrentFlowing THEN "C"
  ELSE IF cp \in {None, "Fault"}                                           THEN ""
  ELSE IF cp = "NoVehicle"                                                 THEN "A"
  ELSE IF cp = "Connected" \/ report > Max THEN "B"
  ELSE "C"

\* The letter of the pilot state cp under the unprobed report.
ChargeState(report, cp, stale, car) ==
  IF stale THEN ""
  ELSE IF cp \in {None, "NoVehicle", "Connected"} /\ car >= CurrentFlowing THEN "C"
  ELSE IF cp \in {None, "Fault"}                                           THEN ""
  ELSE IF cp = "NoVehicle"                                                 THEN "A"
  ELSE IF cp = "Connected" \/ report >= PauseReport                        THEN "B"
  ELSE "C"

-----------------------------------------------------------------------------
NoPulse == [left |-> None, settled |-> TRUE, attempts |-> 0]

Pulse == [left: Int \cup {None}, settled: BOOLEAN, attempts: Nat]

IsOpen(wake) == wake.left # None /\ wake.left > 0

\* Mutant: a repeat starts the running pulse anew.
RequestRestarting(wake, length) ==
  [left |-> length, settled |-> FALSE, attempts |-> wake.attempts + 1]

\* A request during a running pulse changes nothing.
Request(wake, length) ==
  IF IsOpen(wake) THEN wake
  ELSE [left |-> length, settled |-> FALSE, attempts |-> wake.attempts + 1]

\* Mutants: the mask ends with the pulse, or never gives up.
MasksPulseOnly(wake, letter) == IsOpen(wake)

MasksUnbounded(wake, letter) ==
  \/ IsOpen(wake)
  \/ wake.left # None /\ ~wake.settled /\ letter \in {"A", ""}

\* Whether the mask replaces the pilot's letter by B.
Masks(wake, letter) ==
  \/ IsOpen(wake)
  \/ /\ wake.left # None
     /\ ~wake.settled
     /\ wake.left > -SettleTime
     /\ letter \in {"A", ""}

ShownLetter(wake, letter) == IF Masks(wake, letter) THEN "B" ELSE letter

\* Showing any letter unmasked after a pulse ends the masking of that pulse.
AfterShowing(wake, letter) ==
  [wake EXCEPT !.settled = @ \/ ~Masks(wake, letter)]

\* One unit of time; what lies past the settle window is not told apart.
AfterUnit(wake) ==
  IF wake.left = None \/ wake.left <= -SettleTime THEN wake
  ELSE [wake EXCEPT !.left = @ - 1]
=============================================================================
