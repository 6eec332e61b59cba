------------------------------ MODULE ClosedLoop ------------------------------
(***************************************************************************)
(* The grant law closed over the box model and the car of                  *)
(* core/tests/replay.rs, with the feedback the controller really gets: the *)
(* box prints its grant every LbPeriod units, LbLag units behind, and the  *)
(* car's draw every CarPeriod units; the controller decides on the last    *)
(* prints.                                                                 *)
(*                                                                         *)
(* Every phase of the two prints against the box's clocks is a behaviour,  *)
(* and so is every moment at which evcc moves the target.  The feeds are   *)
(* alive here; Controller has what happens when they are not.              *)
(***************************************************************************)
EXTENDS Box, Sequences

CONSTANTS
  LbPeriod,       \* time between two prints of the grant
  LbLag,          \* how old a printed grant is
  CarPeriod,      \* time between two prints of the draw
  BurstPeriod,    \* time between two prints of a closed box
  IdleGrant,      \* the grant a closed box keeps printing
  DrawGaps,       \* how far a car may stay under its grant
  StartLag,       \* how long an offer stands before the car draws
  RampUp, RampDown,   \* how far the draw moves in one unit
  Targets,        \* what evcc commands
  Restarts,       \* whether the controller may reboot
  Disables        \* whether evcc may disable the charger

ASSUME LoopAssumption ==
  /\ {LbPeriod, LbLag, CarPeriod, BurstPeriod, RampUp, RampDown} \subseteq Nat \ {0}
  /\ StartLag \in Nat /\ IdleGrant \in 0 .. Max /\ DrawGaps \subseteq 0 .. MinCharge
  /\ Targets \subseteq Int
  /\ {Restarts, Disables} \subseteq BOOLEAN

VARIABLES
  target, enabled,    \* the setpoint
  box,
  car,                \* [amps, offered, gap]: draw, how long 6 A stood, its gap
  history,            \* the box's grants of the last LbLag units, newest first
  seenLb, seenCar,    \* what the controller last read
  sinceLb, sinceCar,  \* time since the box last printed them
  reported            \* what the slave serves

setpoint == <<target, enabled>>
seen     == <<seenLb, seenCar, sinceLb, sinceCar>>
vars     == <<setpoint, box, car, history, seen, reported>>

-----------------------------------------------------------------------------
\* The car of the replay tests for one unit of a standing grant.
EvTick(ev, lb) ==
  LET offered == IF lb >= MinCharge THEN Least(ev.offered + 1, StartLag) ELSE 0
      want    == IF lb >= MinCharge /\ offered >= StartLag
                   THEN Least(lb - ev.gap, Max) ELSE 0
  IN [ev EXCEPT
        !.amps = IF want >= @ THEN Least(want, @ + RampUp)
                 ELSE IF @ - want <= RampDown THEN want ELSE @ - RampDown,
        !.offered = offered]

\* What the controller hands to the grant law.
Inputs(lb, draw) ==
  [target |-> target, lb |-> lb, car |-> draw, lbStale |-> FALSE,
   gridStale |-> FALSE, enabled |-> enabled, pilotProbe |-> FALSE, cpWake |-> FALSE]

Init ==
  /\ target \in Targets /\ enabled = TRUE
  /\ box = IdleBox
  /\ car \in [amps: {0}, offered: {0}, gap: DrawGaps]
  /\ history = [i \in 1 .. LbLag |-> 0]
  /\ seenLb = 0 /\ seenCar = 0
  /\ sinceLb \in 0 .. LbPeriod - 1 /\ sinceCar \in 0 .. CarPeriod - 1
  /\ reported = PauseReport

SetTarget(v) ==
  /\ target' = v
  /\ UNCHANGED <<enabled, box, car, history, seen, reported>>

SetEnable(b) ==
  /\ Disables
  /\ enabled' = b
  /\ UNCHANGED <<target, box, car, history, seen, reported>>

\* A charging box prints a lagging grant on its period, a closed one its idle grant
\* in every burst.
ReadLb ==
  IF box.charging /\ sinceLb + 1 >= LbPeriod THEN history[LbLag]
  ELSE IF ~box.charging /\ (sinceLb + 1) % BurstPeriod = 0 THEN IdleGrant
  ELSE seenLb

ReadCar == IF sinceCar + 1 >= CarPeriod THEN car.amps ELSE seenCar

\* One unit of the world: the box prints, evaluates what is served, the car follows.
World ==
  /\ sinceLb' = (sinceLb + 1) % LbPeriod /\ sinceCar' = (sinceCar + 1) % CarPeriod
  /\ box' = BoxTick(box, reported', car.amps)
  /\ car' = EvTick(car, box'.lb)
  /\ history' = [i \in 1 .. LbLag |-> IF i = 1 THEN box.lb ELSE history[i - 1]]
  /\ UNCHANGED setpoint

\* One unit in which the controller reads the prints, decides and serves.
Unit ==
  /\ seenLb' = ReadLb /\ seenCar' = ReadCar
  /\ reported' = Current(Inputs(seenLb', seenCar'))
  /\ World

\* One unit in which it boots: it reads nothing, serves the pause the handoff
\* starts with, has lost the feedback and kept the setpoint (it is in flash).
Restart ==
  /\ Restarts
  /\ seenLb' = 0 /\ seenCar' = 0
  /\ reported' = PauseReport
  /\ World

Next ==
  \/ \E v \in Targets : SetTarget(v)
  \/ \E b \in BOOLEAN : SetEnable(b)
  \/ Restart
  \/ Unit

Spec == Init /\ [][Next]_vars

\* Time goes on.
FairSpec == Spec /\ WF_vars(Unit)

-----------------------------------------------------------------------------
(***************************************************************************)
(* Properties.                                                             *)
(***************************************************************************)
\* Types; the grant stays under the box's ceiling.
TypeOK ==
  /\ target \in Targets /\ enabled \in BOOLEAN
  /\ box \in Boxes /\ box.lb \in 0 .. Max
  /\ box.sinceUp < UpPeriod /\ box.sinceDown < DownPeriod
  /\ car \in [amps: 0 .. Max, offered: 0 .. StartLag, gap: DrawGaps]
  /\ history \in [1 .. LbLag -> 0 .. Max]
  /\ seenLb \in 0 .. Max /\ seenCar \in 0 .. Max
  /\ sinceLb \in 0 .. LbPeriod - 1 /\ sinceCar \in 0 .. CarPeriod - 1
  /\ reported \in Int

\* replay.rs: "No phase of the box's clock against the feedback may lose the
\* session": regulation alone never cuts, the box does only on a pause.
OnlyAPauseCuts ==
  [][box.charging /\ ~box'.charging => reported' = PauseReport]_vars

\* What is left of that on every clock: a session the controller did not pause is
\* only ever cut in a unit whose decision rested on an outdated draw.
CutNeedsOldDraw ==
  [][box.charging /\ ~box'.charging /\ reported' # PauseReport
       => seenCar' # car.amps]_vars

\* Whatever ended it, a session opens again while charging is wanted.
Reopens == <>[](enabled /\ target >= MinCharge) => <>[]box.charging

\* A lasting pause stops the car.
PauseStopsCar ==
  <>[](~enabled \/ target < MinCharge) => <>[](~box.charging /\ car.amps = 0)

\* A target that stays is reached: the draw ends within 1.2 A of it, or between
\* it and the 8 A below which a car that tracks its grant cannot be shed.
Settles ==
  LET tolerance == 12
      highest(t) == IF car.gap = 0 /\ t < 8 * Amp THEN 8 * Amp ELSE t
  IN \A t \in Targets :
       <>[](enabled /\ target = t /\ t >= MinCharge) =>
         <>[](t - tolerance <= car.amps /\ car.amps <= highest(t) + tolerance)

-----------------------------------------------------------------------------
(***************************************************************************)
(* What comments and tests say and the code does not do.                   *)
(***************************************************************************)

\* One evaluation of a car that keeps its gap, under a standing report.
Evaluated(lb, gap, report) == Goal(report, lb - gap)

\* control.rs on shed_room: the over-report "keeps the box above its pilot floor
\* through EVALS_BEFORE_FEEDBACK evals" -- three of them.
ShedKeepsFloor ==
  (reported > Max /\ reported < PauseReport) =>
    LET gap == Gap(seenLb, seenCar)
        once  == Evaluated(seenLb, gap, reported)
        twice == Evaluated(once, gap, reported)
    IN Evaluated(twice, gap, reported) >= PilotMin
=============================================================================
