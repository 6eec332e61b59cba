--------------------------------- MODULE Box ---------------------------------
(***************************************************************************)
(* The box's charge-limit loop as core/src/charge/boxsim.rs models it: one *)
(* grant law, lb <- round(car + Max - report), evaluated on a fast clock   *)
(* for down moves and cuts and on a slow one for starts and up moves.      *)
(***************************************************************************)
EXTENDS GrantLaw

CONSTANTS
  UpPeriod, DownPeriod,   \* the two clocks, in time units
  CutMargin,              \* excess over Max that cuts
  StartThreshold          \* an opening grant must exceed this

ASSUME BoxAssumption ==
  /\ {UpPeriod, DownPeriod} \subseteq Nat \ {0}
  /\ {CutMargin, StartThreshold} \subseteq Nat
  /\ CutMargin <= PauseMargin

\* The IEC 61851 pilot floor.
PilotMin == 6 * Amp

RoundAmp(x) == Truncate(x + Amp \div 2, Amp) * Amp

CeilAmp(x) == IF x > WholeAmps(x) THEN WholeAmps(x) + Amp ELSE WholeAmps(x)

\* Signed headroom on top of the live draw.
Goal(report, car) == RoundAmp(car + Max - report)

IdleBox == [lb |-> 0, charging |-> FALSE, sinceUp |-> 0, sinceDown |-> 0]

Boxes == [lb: Int, charging: BOOLEAN, sinceUp: Nat, sinceDown: Nat]

\* The slow clock starts over.
Cut(box) == [box EXCEPT !.lb = 0, !.charging = FALSE, !.sinceUp = 0]

DownEval(box, report, car) ==
  LET goal == Goal(report, car) IN
  IF ~box.charging                       THEN box
  ELSE IF report >= Max + CutMargin      THEN Cut(box)
  ELSE IF goal >= box.lb                 THEN box
  ELSE IF goal < PilotMin                THEN Cut(box)
  ELSE [box EXCEPT !.lb = goal]

\* Mutant: an up move is not capped by the ceiling.
UpEvalUncapped(box, report, car) ==
  LET goal    == Goal(report, car)
      opening == CeilAmp(Max - report)
  IN IF box.charging
       THEN IF goal > box.lb THEN [box EXCEPT !.lb = goal] ELSE box
       ELSE IF opening > StartThreshold /\ opening >= PilotMin
              THEN [box EXCEPT !.lb = Least(opening, Max), !.charging = TRUE]
              ELSE box

UpEval(box, report, car) ==
  LET goal    == Least(Goal(report, car), Max)
      opening == CeilAmp(Max - report)
  IN IF box.charging
       THEN IF goal > box.lb THEN [box EXCEPT !.lb = goal] ELSE box
       ELSE IF opening > StartThreshold /\ opening >= PilotMin
              THEN [box EXCEPT !.lb = Least(opening, Max), !.charging = TRUE]
              ELSE box

\* One unit: both clocks advance, the fast one is read first.
BoxTick(box, report, car) ==
  LET down  == box.sinceDown + 1 >= DownPeriod
      moved == [box EXCEPT !.sinceUp = @ + 1,
                           !.sinceDown = IF down THEN @ + 1 - DownPeriod ELSE @ + 1]
      shed  == IF down THEN DownEval(moved, report, car) ELSE moved
  IN IF shed.sinceUp >= UpPeriod
       THEN UpEval([shed EXCEPT !.sinceUp = @ - UpPeriod], report, car)
       ELSE shed
=============================================================================
