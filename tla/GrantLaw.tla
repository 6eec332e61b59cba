------------------------------ MODULE GrantLaw ------------------------------
(***************************************************************************)
(* The V4 grant law of core/src/charge/control.rs: which current the meter *)
(* emulation reports to the box, given the commanded target, the box's own *)
(* grant (lb), the car's draw and the gates.  A report above the ceiling   *)
(* Max tells the box it draws too much, a report below it offers headroom. *)
(*                                                                         *)
(* Currents are integers in tenths of an ampere, so the half ampere of     *)
(* shed_room and the 3.5 A probe cap are exact.                            *)
(***************************************************************************)
EXTENDS Integers

CONSTANTS
  Max,            \* the box's DIP-set ceiling
  MinCharge,      \* below this a car cannot hold a charge
  PauseMargin,    \* how far above Max a pause reports
  MaxOver,        \* cap on the regulation's over-report
  ProbeMaxOver,   \* cap on the measurement probe's lift
  None            \* the absent Option value

\* One ampere in the unit of this module.
Amp == 10

ASSUME GrantAssumption ==
  /\ {Max, MinCharge, PauseMargin, MaxOver, ProbeMaxOver} \subseteq Nat
  /\ 0 < MinCharge /\ MinCharge <= Max
  /\ 0 < MaxOver /\ MaxOver <= ProbeMaxOver /\ ProbeMaxOver < PauseMargin
  /\ None \notin Int

Least(a, b) == IF a < b THEN a ELSE b
Clamp(x, lo, hi) == IF x < lo THEN lo ELSE Least(x, hi)

\* The `as i32` cast: whole units of d in x, toward zero.
Truncate(x, d) == IF x < 0 THEN -((-x) \div d) ELSE x \div d

WholeAmps(x) == Truncate(x, Amp) * Amp

\* Mutant: a pause that reports the ceiling itself.
PauseReportAtCeiling == Max

\* Above the ceiling by the full margin: the only report that cuts a charge.
PauseReport == Max + PauseMargin

\* Below this draw nothing but standby noise flows.
IdleCar == Amp

-----------------------------------------------------------------------------
(***************************************************************************)
(* Regulating an open session whose car draws at least the target.         *)
(***************************************************************************)

\* Box evaluations one over-report runs through before its effect is seen.
EvalsBeforeFeedback == 3

\* The gap a car usually keeps under its grant.
Gap(lb, car) == IF lb > car THEN lb - car ELSE 0

\* Mutant: room for one evaluation taken for the room of three.
ShedRoomOfOneEval(lb, car) == WholeAmps(lb - (MinCharge - Amp \div 2) - Gap(lb, car))

\* The largest whole over-report keeping the box above its pilot floor through
\* EvalsBeforeFeedback evaluations, scaled so that no division precedes it.
ShedRoom(lb, car) ==
  Truncate(lb - (MinCharge - Amp \div 2) - EvalsBeforeFeedback * Gap(lb, car),
           EvalsBeforeFeedback * Amp) * Amp

\* The report when no over-report is safe.
CappedShedReport(lb, car) ==
  IF car >= MinCharge + Amp \/ lb <= car THEN Max ELSE Max - WholeAmps(lb - car)

LbTrackingReport(target, lb, car) ==
  LET err == lb - target
      over == Least(Least(err, MaxOver), ShedRoom(lb, car))
  IN IF err >= Amp
       THEN IF over < Amp THEN CappedShedReport(lb, car) ELSE Max + over
       ELSE IF err <= -Amp THEN Clamp(Max + err, 0, Max) ELSE Max

-----------------------------------------------------------------------------
(***************************************************************************)
(* The decision.  `in` is the snapshot the firmware hands in each tick.    *)
(***************************************************************************)
GrantControlInputs ==
  [target: Int \cup {None}, lb: Nat, car: Nat, lbStale: BOOLEAN,
   gridStale: BOOLEAN, enabled: BOOLEAN, pilotProbe: BOOLEAN, cpWake: BOOLEAN]

Reasons == {"Failsafe", "PilotProbe", "CpWake", "Shut", "ColdStartKick",
            "RampPin", "LbTracking"}

\* The reasons whose report is a pause.
HeldReasons == {"Failsafe", "CpWake", "Shut"}

\* Mutant: a disabled charger is held shut only through its target.
HeldShutByTarget(in) == in.target = None \/ Clamp(in.target, 0, Max) < MinCharge

HeldShut(in) ==
  \/ ~in.enabled
  \/ in.target = None
  \/ Clamp(in.target, 0, Max) < MinCharge

\* Mutant: only a grant of zero means a closed box.
NoSessionNever(in) == FALSE

NoSession(in) == in.lb < MinCharge /\ in.car < IdleCar

\* The first rule that applies, in the order the code tries them.
Reason(in) ==
  IF in.gridStale \/ in.lbStale            THEN "Failsafe"
  ELSE IF in.cpWake                        THEN "CpWake"
  ELSE IF HeldShut(in) /\ in.pilotProbe    THEN "PilotProbe"
  ELSE IF HeldShut(in)                     THEN "Shut"
  ELSE IF in.lb <= 0 \/ NoSession(in)      THEN "ColdStartKick"
  ELSE IF in.car < in.target               THEN "RampPin"
  ELSE "LbTracking"

\* Mutant: the live draw the box adds on top is not taken off.
RampPinReportAtRest(in) == Clamp(Max - in.target, 0, Max)

\* Hold the deficit while the car ramps: the box adds its live draw on top.
RampPinReport(in) == Clamp(Max - in.target + WholeAmps(in.car), 0, Max)

Current(in) ==
  LET reason == Reason(in) IN
  CASE reason \in HeldReasons                     -> PauseReport
    [] reason \in {"PilotProbe", "ColdStartKick"} -> 0
    [] reason = "RampPin"                         -> RampPinReport(in)
    [] reason = "LbTracking" -> LbTrackingReport(in.target, in.lb, in.car)

\* Mutant: the probe lifts whatever is reported, a pause included.
ProbeReportOverPause(base, over) ==
  IF over <= 0 THEN base ELSE Max + Least(over, ProbeMaxOver)

\* The measurement probe lifts a live report just over the ceiling.
ProbeReport(base, over) ==
  IF over <= 0 \/ base > Max THEN base ELSE Max + Least(over, ProbeMaxOver)
=============================================================================
