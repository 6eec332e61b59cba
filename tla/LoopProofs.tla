----------------------------- MODULE LoopProofs -----------------------------
(***************************************************************************)
(* ClosedLoop, for every clock of the box, every car and every value of    *)
(* its constants: the grant stays under the ceiling, an over-report leaves *)
(* the box above its pilot floor through two evaluations, and what is not  *)
(* a pause cuts only where the decision rested on an old draw.             *)
(***************************************************************************)
EXTENDS ClosedLoop, GrantLawProofs

-----------------------------------------------------------------------------
(***************************************************************************)
(* Roundings.                                                              *)
(***************************************************************************)
\* Dividing and multiplying back loses less than the divisor.
LEMMA DivBounds ==
  ASSUME NEW y \in Nat
  PROVE  /\ y \div 10 \in Nat /\ (y \div 10) * 10 <= y /\ y <= (y \div 10) * 10 + 9
         /\ y \div 30 \in Nat /\ (y \div 30) * 30 <= y
OBVIOUS

\* The integer cast to whole amperes loses less than one toward zero.
LEMMA TruncateBounds ==
  ASSUME NEW x \in Int
  PROVE  /\ Truncate(x, 10) \in Int
         /\ x >= 0 => Truncate(x, 10) * 10 <= x /\ x <= Truncate(x, 10) * 10 + 9
         /\ x < 0 => Truncate(x, 10) * 10 >= x
<1>1. CASE x >= 0
  BY <1>1, DivBounds DEF Truncate
<1>2. CASE x < 0
  <2>1. -x \in Nat
    BY <1>2
  <2>2. (-x) \div 10 \in Nat /\ ((-x) \div 10) * 10 <= -x
    BY <2>1, DivBounds
  <2>3. Truncate(x, 10) = -((-x) \div 10)
    BY <1>2 DEF Truncate
  <2> QED
    BY <1>2, <2>2, <2>3
<1> QED
  BY <1>1, <1>2

\* The box rounds down by less than half an ampere, and to whole amperes.
LEMMA RoundAmpBounds ==
  ASSUME NEW x \in Int
  PROVE  /\ RoundAmp(x) \in Int
         /\ RoundAmp(x) >= x - 4
         /\ x >= 55 => RoundAmp(x) >= 60
         /\ x >= 45 => RoundAmp(x) >= 50
<1>1. 10 \div 2 = 5
  OBVIOUS
<1>2. RoundAmp(x) = Truncate(x + 5, 10) * 10
  BY <1>1 DEF RoundAmp, Amp
<1>3. /\ Truncate(x + 5, 10) \in Int
      /\ x + 5 >= 0 => x + 5 <= Truncate(x + 5, 10) * 10 + 9
      /\ x + 5 < 0 => Truncate(x + 5, 10) * 10 >= x + 5
  BY TruncateBounds
<1>4. RoundAmp(x) >= x - 4
  BY <1>2, <1>3
<1>5. (x >= 55 => RoundAmp(x) >= 60) /\ (x >= 45 => RoundAmp(x) >= 50)
  BY <1>2, <1>3, <1>4
<1> QED
  BY <1>2, <1>3, <1>4, <1>5

\* The floor of a whole number of amperes.
LEMMA WholeAmpsBounds ==
  ASSUME NEW x \in Nat
  PROVE  WholeAmps(x) \in Nat /\ WholeAmps(x) <= x /\ x <= WholeAmps(x) + 9
<1>1. x >= 0 /\ x \in Int
  OBVIOUS
<1>2. /\ Truncate(x, 10) \in Int
      /\ Truncate(x, 10) * 10 <= x /\ x <= Truncate(x, 10) * 10 + 9
      /\ Truncate(x, 10) >= 0
  BY <1>1, TruncateBounds, TruncateSign
<1> QED
  BY <1>2 DEF WholeAmps, Amp

-----------------------------------------------------------------------------
(***************************************************************************)
(* The over-report.                                                        *)
(***************************************************************************)
\* The room is an integer.
LEMMA ShedRoomTyped ==
  ASSUME NEW lb \in Nat, NEW draw \in Nat
  PROVE  ShedRoom(lb, draw) \in Int
<1>1. Gap(lb, draw) \in Nat
  BY DEF Gap
<1>2. lb - (MinCharge - Amp \div 2) - EvalsBeforeFeedback * Gap(lb, draw) \in Int
  BY <1>1, GrantAssumption DEF Amp, EvalsBeforeFeedback
<1>3. EvalsBeforeFeedback * Amp \in Nat \ {0}
  BY DEF Amp, EvalsBeforeFeedback
<1>4. Truncate(lb - (MinCharge - Amp \div 2) - EvalsBeforeFeedback * Gap(lb, draw),
               EvalsBeforeFeedback * Amp) \in Int
  BY <1>2, <1>3, TruncateSign
<1> QED
  BY <1>4 DEF ShedRoom, Amp

\* Three times an over-report and the gap fit between the grant and 5.5 A.
LEMMA ShedRoomBounds ==
  ASSUME PilotMin <= MinCharge,
         NEW lb \in Nat, NEW draw \in Nat, Amp <= ShedRoom(lb, draw)
  PROVE  /\ ShedRoom(lb, draw) \in Int /\ Gap(lb, draw) \in Nat
         /\ 3 * ShedRoom(lb, draw) + 3 * Gap(lb, draw) <= lb - 55
<1> DEFINE gap == Gap(lb, draw)
           num == lb - (MinCharge - 5) - 3 * gap
<1>1. gap \in Nat
  BY DEF Gap
<1>2. MinCharge \in Nat /\ MinCharge >= 60
  BY GrantAssumption DEF PilotMin, Amp
<1>3. num \in Int /\ num <= lb - 55 - 3 * gap
  BY <1>1, <1>2
<1>4. ShedRoom(lb, draw) = Truncate(num, 30) * 10
  BY DEF ShedRoom, EvalsBeforeFeedback, Amp
<1>5. Truncate(num, 30) \in Int
  BY <1>3, TruncateSign
<1>6. num >= 0
  <2> SUFFICES ASSUME num < 0 PROVE FALSE
    BY <1>3
  <2>1. -num \in Nat
    BY <1>3
  <2>2. (-num) \div 30 \in Nat
    BY <2>1, DivBounds
  <2>3. Truncate(num, 30) = -((-num) \div 30)
    BY DEF Truncate
  <2> HIDE DEF num
  <2> QED
    BY <1>4, <2>2, <2>3 DEF Amp
<1>7. Truncate(num, 30) * 30 <= num
  <2>1. num \in Nat
    BY <1>3, <1>6
  <2>2. Truncate(num, 30) = num \div 30
    BY <1>6, <2>1 DEF Truncate
  <2> HIDE DEF num
  <2> QED
    BY <2>1, <2>2, DivBounds
<1> HIDE DEF num, gap
<1>8. 3 * ShedRoom(lb, draw) + 3 * gap <= lb - 55
  BY <1>1, <1>3, <1>4, <1>5, <1>7
<1> QED
  BY <1>1, <1>4, <1>5, <1>8 DEF gap

\* What the tracker reports over the ceiling is within that room; a capped shed
\* gives back no more than the gap.
LEMMA TrackingOver ==
  ASSUME NEW goal \in Int, NEW lb \in Nat, NEW draw \in Nat,
         ShedRoom(lb, draw) \in Int
  PROVE  LET report == LbTrackingReport(goal, lb, draw)
         IN report > Max =>
              Amp <= ShedRoom(lb, draw) /\ report - Max <= ShedRoom(lb, draw)
                /\ Amp <= report - Max /\ report \in Int
<1>1. CappedShedReport(lb, draw) \in Int /\ CappedShedReport(lb, draw) <= Max
  <2>1. CASE draw >= MinCharge + Amp \/ lb <= draw
    BY <2>1, GrantAssumption DEF CappedShedReport
  <2>2. CASE ~(draw >= MinCharge + Amp \/ lb <= draw)
    <3>1. lb - draw \in Nat
      BY <2>2
    <3>2. WholeAmps(lb - draw) \in Nat
      BY <3>1, WholeAmpsBounds
    <3> QED
      BY <2>2, <3>2, GrantAssumption DEF CappedShedReport
  <2> QED BY <2>1, <2>2
<1> QED
  BY <1>1, GrantAssumption DEF LbTrackingReport, Least, Clamp, Amp

\* shed_room: "keeps the box above its pilot floor through EVALS_BEFORE_FEEDBACK evals".
\* Through two of the three it does, for every car that keeps its gap under the
\* grant; the third, after three roundings, is at most one ampere below the floor.
THEOREM ShedKeepsFloorTwice ==
  ASSUME PilotMin <= MinCharge,
         NEW goal \in Int, NEW lb \in Nat, NEW draw \in Nat,
         LbTrackingReport(goal, lb, draw) > Max
  PROVE  LET report == LbTrackingReport(goal, lb, draw)
             gap    == Gap(lb, draw)
             once   == Evaluated(lb, gap, report)
             twice  == Evaluated(once, gap, report)
         IN /\ once >= PilotMin
            /\ twice >= PilotMin
            /\ Evaluated(twice, gap, report) >= PilotMin - Amp
<1> DEFINE report == LbTrackingReport(goal, lb, draw)
           gap    == Gap(lb, draw)
           over   == report - Max
           once   == Evaluated(lb, gap, report)
           twice  == Evaluated(once, gap, report)
<1>1. gap \in Nat
  BY DEF Gap
<1>2. ShedRoom(lb, draw) \in Int
  BY ShedRoomTyped
<1>3. report \in Int /\ 10 <= over
      /\ Amp <= ShedRoom(lb, draw) /\ over <= ShedRoom(lb, draw)
  BY <1>2, TrackingOver DEF Amp
<1>4. 3 * ShedRoom(lb, draw) + 3 * gap <= lb - 55
  BY <1>3, ShedRoomBounds
<1>5. over \in Int /\ 3 * over + 3 * gap <= lb - 55
  BY <1>1, <1>2, <1>3, <1>4, GrantAssumption
<1>6. \A x \in Int : Evaluated(x, gap, report) = RoundAmp(x - gap - over)
  <2> TAKE x \in Int
  <2>1. x - gap + Max - report = x - gap - over
    BY <1>1, <1>3, GrantAssumption
  <2> QED BY <2>1 DEF Evaluated, Goal
<1> HIDE DEF report, gap, over
<1>7. once \in Int /\ once >= lb - gap - over - 4
  <2>1. lb - gap - over \in Int
    BY <1>1, <1>5
  <2> QED BY <1>6, <2>1, RoundAmpBounds
<1>8. once >= 60
  <2>1. lb - gap - over \in Int /\ lb - gap - over >= 55
    BY <1>1, <1>3, <1>5
  <2> QED BY <1>6, <2>1, RoundAmpBounds
<1>9. twice \in Int /\ twice >= once - gap - over - 4
  <2>1. once - gap - over \in Int
    BY <1>1, <1>5, <1>7
  <2> HIDE DEF once
  <2> QED BY <1>6, <1>7, <2>1, RoundAmpBounds
<1>10. twice >= 60
  <2>1. once - gap - over \in Int /\ once - gap - over >= 55
    BY <1>1, <1>3, <1>5, <1>7
  <2> HIDE DEF once
  <2> QED BY <1>6, <1>7, <2>1, RoundAmpBounds
<1>11. Evaluated(twice, gap, report) >= 50
  <2>1. twice - gap - over \in Int /\ twice - gap - over >= 45
    BY <1>1, <1>3, <1>5, <1>7, <1>9
  <2> HIDE DEF twice
  <2> QED BY <1>6, <1>9, <2>1, RoundAmpBounds
<1> QED
  BY <1>8, <1>10, <1>11 DEF PilotMin, Amp, report, gap

-----------------------------------------------------------------------------
(***************************************************************************)
(* One decision against one evaluation of the same draw.                   *)
(***************************************************************************)
\* The grant law's own margins: whatever rule reports, if it is not a pause, an
\* evaluation of the draw it was told of stays off the floor and off the cut.
LEMMA FreshNeverCuts ==
  ASSUME PilotMin <= MinCharge, MaxOver < CutMargin,
         NEW in \in GrantControlInputs, Reason(in) \notin HeldReasons
  PROVE  Goal(Current(in), in.car) >= PilotMin /\ Current(in) < Max + CutMargin
<1>1. /\ Current(in) \in Int /\ Current(in) <= Max + MaxOver
      /\ Reason(in) \in {"PilotProbe", "ColdStartKick", "RampPin", "LbTracking"}
  BY CurrentByReason DEF Reasons, HeldReasons
<1>2. /\ in.car \in Nat /\ in.lb \in Nat /\ in.target \in Int \cup {None}
      /\ MinCharge >= 60 /\ Max >= 60 /\ Max \in Nat
      /\ MaxOver \in Nat /\ CutMargin \in Nat
  BY GrantAssumption, BoxAssumption DEF GrantControlInputs, PilotMin, Amp
<1>3. Current(in) < Max + CutMargin
  BY <1>1, <1>2
<1>4. SUFFICES in.car + Max - Current(in) >= 55
  <2>1. in.car + Max - Current(in) \in Int
    BY <1>1, <1>2
  <2>2. RoundAmp(in.car + Max - Current(in)) >= 60
    BY <1>4, <2>1, RoundAmpBounds
  <2> QED
    BY <1>3, <2>2 DEF Goal, PilotMin, Amp
<1>5. CASE Reason(in) \in {"PilotProbe", "ColdStartKick"}
  <2>1. Current(in) = 0
    BY <1>5 DEF Current, HeldReasons
  <2> QED
    BY <1>2, <2>1
<1>6. ASSUME Reason(in) \in {"RampPin", "LbTracking"}
      PROVE  in.target \in Int /\ in.target >= 60
  <2>1. ~HeldShut(in)
    BY <1>6 DEF Reason
  <2>2. in.target \in Int /\ ~(Clamp(in.target, 0, Max) < MinCharge)
    BY <1>2, <2>1 DEF HeldShut
  <2> QED
    BY <1>2, <2>2, GrantAssumption DEF Clamp, Least
<1>7. CASE Reason(in) = "RampPin"
  <2>1. Current(in) = Clamp(Max - in.target + WholeAmps(in.car), 0, Max)
    BY <1>7 DEF Current, HeldReasons, RampPinReport
  <2>2. WholeAmps(in.car) \in Nat /\ WholeAmps(in.car) <= in.car
    BY <1>2, WholeAmpsBounds
  <2>3. in.target \in Int /\ in.target >= 60 /\ in.car < in.target
    <3>1. in.car < in.target
      BY <1>7 DEF Reason
    <3> QED BY <1>6, <1>7, <3>1
  <2> HIDE DEF Reason
  <2>4. CASE Max - in.target + WholeAmps(in.car) < 0
    <3>1. Current(in) = 0
      BY <2>1, <2>4 DEF Clamp
    <3> QED BY <1>2, <3>1
  <2>5. CASE Max - in.target + WholeAmps(in.car) >= 0
    <3>1. Current(in) <= Max - in.target + WholeAmps(in.car)
      BY <1>2, <2>1, <2>2, <2>3, <2>5 DEF Clamp, Least
    <3> QED BY <1>1, <1>2, <2>2, <2>3, <3>1
  <2> QED
    BY <1>2, <2>2, <2>3, <2>4, <2>5
<1>8. CASE Reason(in) = "LbTracking"
  <2> DEFINE report == LbTrackingReport(in.target, in.lb, in.car)
  <2>1. Current(in) = report
    BY <1>8 DEF Current, HeldReasons
  <2>2. in.target \in Int /\ in.target >= 60 /\ in.car >= in.target
    <3>1. ~(in.car < in.target) /\ in.target \in Int /\ in.target >= 60
      <4>1. ~(in.car < in.target)
        BY <1>8 DEF Reason
      <4> QED BY <1>6, <1>8, <4>1
    <3> QED BY <1>2, <3>1
  <2>3. CASE report <= Max
    BY <1>1, <1>2, <2>1, <2>2, <2>3
  <2>4. CASE report > Max
    <3>1. Gap(in.lb, in.car) \in Nat
      BY <1>2 DEF Gap
    <3>2. ShedRoom(in.lb, in.car) \in Int
      BY <1>2, ShedRoomTyped
    <3>3. Amp <= ShedRoom(in.lb, in.car) /\ report - Max <= ShedRoom(in.lb, in.car)
      BY <1>2, <2>2, <2>4, <3>2, TrackingOver
    <3>4. 3 * ShedRoom(in.lb, in.car) + 3 * Gap(in.lb, in.car) <= in.lb - 55
      BY <1>2, <3>3, ShedRoomBounds
    <3>5. in.lb <= in.car + Gap(in.lb, in.car)
      BY <1>2 DEF Gap
    <3> QED
      BY <1>1, <1>2, <2>1, <3>1, <3>2, <3>3, <3>4, <3>5 DEF Amp
  <2> QED
    BY <1>1, <1>2, <2>1, <2>3, <2>4
<1> QED
  BY <1>1, <1>5, <1>7, <1>8

-----------------------------------------------------------------------------
(***************************************************************************)
(* The box and the car.                                                    *)
(***************************************************************************)
\* A box under its ceiling with its clocks in their periods.
Settled(b) ==
  /\ b \in Boxes /\ b.lb \in 0 .. Max
  /\ b.sinceUp < UpPeriod /\ b.sinceDown < DownPeriod

\* What opening a box changes, and what cutting it does.
LEMMA BoxOpened ==
  \A b \in Boxes, l \in Int, on \in BOOLEAN :
    /\ [b EXCEPT !.lb = l, !.charging = on] \in Boxes
    /\ [b EXCEPT !.lb = l, !.charging = on].lb = l
    /\ [b EXCEPT !.lb = l, !.charging = on].sinceUp = b.sinceUp
    /\ [b EXCEPT !.lb = l, !.charging = on].sinceDown = b.sinceDown
    /\ [b EXCEPT !.lb = l, !.charging = on].charging = on
<1> SUFFICES ASSUME NEW b \in Boxes, NEW l \in Int, NEW on \in BOOLEAN
             PROVE  LET d == [b EXCEPT !.lb = l, !.charging = on]
                    IN d \in Boxes /\ d.lb = l /\ d.sinceUp = b.sinceUp
                         /\ d.sinceDown = b.sinceDown /\ d.charging = on
  OBVIOUS
<1> QED BY DEF Boxes

LEMMA BoxClosed ==
  \A b \in Boxes, l \in Int, on \in BOOLEAN, n \in Nat :
    /\ [b EXCEPT !.lb = l, !.charging = on, !.sinceUp = n] \in Boxes
    /\ [b EXCEPT !.lb = l, !.charging = on, !.sinceUp = n].lb = l
    /\ [b EXCEPT !.lb = l, !.charging = on, !.sinceUp = n].sinceUp = n
    /\ [b EXCEPT !.lb = l, !.charging = on, !.sinceUp = n].sinceDown = b.sinceDown
<1> SUFFICES ASSUME NEW b \in Boxes, NEW l \in Int, NEW on \in BOOLEAN, NEW n \in Nat
             PROVE  LET d == [b EXCEPT !.lb = l, !.charging = on, !.sinceUp = n]
                    IN d \in Boxes /\ d.lb = l /\ d.sinceUp = n
                         /\ d.sinceDown = b.sinceDown
  OBVIOUS
<1> QED BY DEF Boxes

\* Down moves and cuts keep the ceiling, and let the slow clock run or start over.
LEMMA DownEvalSteps ==
  ASSUME NEW b \in Boxes, b.lb \in 0 .. Max, NEW report \in Int, NEW draw \in Int
  PROVE  LET d == DownEval(b, report, draw)
         IN /\ d \in Boxes /\ d.lb \in 0 .. Max
            /\ d.sinceUp \in {b.sinceUp, 0} /\ d.sinceDown = b.sinceDown
            /\ b.charging /\ ~d.charging =>
                 report >= Max + CutMargin \/ Goal(report, draw) < PilotMin
<1>1. Goal(report, draw) \in Int
  <2>1. draw + Max - report \in Int
    BY GrantAssumption
  <2> QED BY <2>1, RoundAmpBounds DEF Goal
<1>2. Max \in Nat /\ 0 <= PilotMin /\ PilotMin \in Int
  BY GrantAssumption DEF PilotMin, Amp
<1>3. CASE DownEval(b, report, draw) = b
  BY <1>3, Zenon DEF DownEval
<1>4. CASE /\ DownEval(b, report, draw) = Cut(b)
           /\ report >= Max + CutMargin \/ Goal(report, draw) < PilotMin
  <2>1. Cut(b) \in Boxes /\ Cut(b).lb = 0 /\ Cut(b).sinceUp = 0
        /\ Cut(b).sinceDown = b.sinceDown
    <3> DEFINE z == 0
    <3>1. z \in Int /\ z \in Nat /\ FALSE \in BOOLEAN
      OBVIOUS
    <3> HIDE DEF z
    <3>2. \A n \in Nat :
            /\ [b EXCEPT !.lb = z, !.charging = FALSE, !.sinceUp = n] \in Boxes
            /\ [b EXCEPT !.lb = z, !.charging = FALSE, !.sinceUp = n].lb = z
            /\ [b EXCEPT !.lb = z, !.charging = FALSE, !.sinceUp = n].sinceUp = n
            /\ [b EXCEPT !.lb = z, !.charging = FALSE, !.sinceUp = n].sinceDown
                 = b.sinceDown
      BY <3>1, BoxClosed, Zenon
    <3>3. /\ [b EXCEPT !.lb = z, !.charging = FALSE, !.sinceUp = z] \in Boxes
          /\ [b EXCEPT !.lb = z, !.charging = FALSE, !.sinceUp = z].lb = z
          /\ [b EXCEPT !.lb = z, !.charging = FALSE, !.sinceUp = z].sinceUp = z
          /\ [b EXCEPT !.lb = z, !.charging = FALSE, !.sinceUp = z].sinceDown
               = b.sinceDown
      BY <3>1, <3>2, Zenon
    <3> QED BY <3>3, Zenon DEF Cut, z
  <2>2. 0 \in 0 .. Max
    BY <1>2
  <2> QED BY <1>4, <2>1, <2>2
<1>5. CASE /\ DownEval(b, report, draw) = [b EXCEPT !.lb = Goal(report, draw)]
           /\ ~(Goal(report, draw) >= b.lb) /\ ~(Goal(report, draw) < PilotMin)
  <2> DEFINE g == Goal(report, draw)
  <2>1. g \in 0 .. Max
    BY <1>1, <1>2, <1>5
  <2> HIDE DEF g
  <2>2. LET d == [b EXCEPT !.lb = g]
        IN d \in Boxes /\ d.lb = g /\ d.sinceUp = b.sinceUp
             /\ d.sinceDown = b.sinceDown /\ d.charging = b.charging
    BY <2>1 DEF Boxes
  <2>3. DownEval(b, report, draw) = [b EXCEPT !.lb = g]
    BY <1>5 DEF g
  <2> QED BY <2>1, <2>2, <2>3
<1> QED
  BY <1>3, <1>4, <1>5 DEF DownEval

\* Starts and up moves are capped by the ceiling and never cut.
LEMMA UpEvalSteps ==
  ASSUME NEW b \in Boxes, b.lb \in 0 .. Max, NEW report \in Int, NEW draw \in Int
  PROVE  LET u == UpEval(b, report, draw)
         IN /\ u \in Boxes /\ u.lb \in 0 .. Max
            /\ u.sinceUp = b.sinceUp /\ u.sinceDown = b.sinceDown
            /\ b.charging => u.charging
<1> DEFINE goal == Least(Goal(report, draw), Max)
           opening == CeilAmp(Max - report)
<1>1. goal \in Int /\ goal <= Max
  <2>1. draw + Max - report \in Int
    BY GrantAssumption
  <2>2. Goal(report, draw) \in Int
    BY <2>1, RoundAmpBounds DEF Goal
  <2> QED BY <2>2, GrantAssumption DEF Least
<1>2. opening \in Int
  <2>1. Max - report \in Int
    BY GrantAssumption
  <2>2. WholeAmps(Max - report) \in Int
    BY <2>1, WholeAmpsSign
  <2> QED BY <2>2 DEF CeilAmp, Amp
<1>3. Max \in Nat /\ 0 <= PilotMin /\ PilotMin \in Int
  BY GrantAssumption DEF PilotMin, Amp
<1>4. UpEval(b, report, draw) =
        IF b.charging
          THEN IF goal > b.lb THEN [b EXCEPT !.lb = goal] ELSE b
          ELSE IF opening > StartThreshold /\ opening >= PilotMin
                 THEN [b EXCEPT !.lb = Least(opening, Max), !.charging = TRUE]
                 ELSE b
  BY DEF UpEval
<1> HIDE DEF goal, opening
<1>5. CASE UpEval(b, report, draw) = b
  BY <1>5
<1>6. CASE b.charging /\ goal > b.lb
  <2>1. goal \in 0 .. Max
    BY <1>1, <1>3, <1>6
  <2>2. LET d == [b EXCEPT !.lb = goal]
        IN d \in Boxes /\ d.lb = goal /\ d.sinceUp = b.sinceUp
             /\ d.sinceDown = b.sinceDown /\ d.charging = b.charging
    BY <2>1 DEF Boxes
  <2> QED BY <1>4, <1>6, <2>1, <2>2
<1>7. CASE ~b.charging /\ opening > StartThreshold /\ opening >= PilotMin
  <2> DEFINE l == Least(opening, Max)
  <2>1. l \in 0 .. Max
    BY <1>2, <1>3, <1>7 DEF Least
  <2> HIDE DEF l
  <2>2. LET d == [b EXCEPT !.lb = l, !.charging = TRUE]
        IN d \in Boxes /\ d.lb = l /\ d.sinceUp = b.sinceUp
             /\ d.sinceDown = b.sinceDown /\ d.charging = TRUE
    <3>1. l \in Int /\ TRUE \in BOOLEAN
      BY <2>1
    <3>2. /\ [b EXCEPT !.lb = l, !.charging = TRUE] \in Boxes
          /\ [b EXCEPT !.lb = l, !.charging = TRUE].lb = l
          /\ [b EXCEPT !.lb = l, !.charging = TRUE].sinceUp = b.sinceUp
          /\ [b EXCEPT !.lb = l, !.charging = TRUE].sinceDown = b.sinceDown
          /\ [b EXCEPT !.lb = l, !.charging = TRUE].charging = TRUE
      BY <3>1, BoxOpened, Zenon
    <3> QED BY <3>2, Zenon
  <2>3. UpEval(b, report, draw) = [b EXCEPT !.lb = l, !.charging = TRUE]
    BY <1>4, <1>7 DEF l
  <2> QED BY <2>1, <2>2, <2>3
<1> QED
  BY <1>4, <1>5, <1>6, <1>7

\* One unit of the box: it stays settled, and closes only on one of the two cuts.
LEMMA BoxTickSteps ==
  ASSUME NEW b, Settled(b), NEW report \in Int, NEW draw \in Int
  PROVE  /\ Settled(BoxTick(b, report, draw))
         /\ b.charging /\ ~BoxTick(b, report, draw).charging =>
              report >= Max + CutMargin \/ Goal(report, draw) < PilotMin
<1> DEFINE down  == b.sinceDown + 1 >= DownPeriod
           moved == [b EXCEPT !.sinceUp = @ + 1,
                              !.sinceDown = IF down THEN @ + 1 - DownPeriod ELSE @ + 1]
           shed  == IF down THEN DownEval(moved, report, draw) ELSE moved
           up    == [shed EXCEPT !.sinceUp = @ - UpPeriod]
<1>1. /\ b \in Boxes /\ b.lb \in 0 .. Max /\ b.sinceUp < UpPeriod
      /\ b.sinceDown < DownPeriod /\ b.sinceUp \in Nat /\ b.sinceDown \in Nat
      /\ UpPeriod \in Nat \ {0} /\ DownPeriod \in Nat \ {0}
  BY BoxAssumption DEF Settled, Boxes
<1>2. BoxTick(b, report, draw) =
        IF shed.sinceUp >= UpPeriod THEN UpEval(up, report, draw) ELSE shed
  BY DEF BoxTick
<1>3. /\ moved \in Boxes /\ moved.lb = b.lb /\ moved.charging = b.charging
      /\ moved.sinceUp = b.sinceUp + 1 /\ moved.sinceDown \in Nat
      /\ moved.sinceDown < DownPeriod
  <2> DEFINE s == IF down THEN b.sinceDown + 1 - DownPeriod ELSE b.sinceDown + 1
             t == b.sinceUp + 1
  <2>1. s \in Nat /\ s < DownPeriod /\ t \in Nat
    BY <1>1
  <2>2. moved = [b EXCEPT !.sinceUp = t, !.sinceDown = s]
    BY <1>1 DEF Boxes
  <2> HIDE DEF s, moved
  <2>3. LET m == [b EXCEPT !.sinceUp = t, !.sinceDown = s]
        IN m \in Boxes /\ m.lb = b.lb /\ m.charging = b.charging
             /\ m.sinceUp = t /\ m.sinceDown = s
    <3> HIDE DEF t
    <3> QED BY <1>1, <2>1 DEF Boxes
  <2> QED BY <2>1, <2>2, <2>3
<1> HIDE DEF moved
<1>4. /\ shed \in Boxes /\ shed.lb \in 0 .. Max
      /\ shed.sinceUp \in {b.sinceUp + 1, 0} /\ shed.sinceDown = moved.sinceDown
      /\ b.charging /\ ~shed.charging =>
           report >= Max + CutMargin \/ Goal(report, draw) < PilotMin
  <2>1. CASE down
    <3>1. moved.lb \in 0 .. Max
      BY <1>1, <1>3
    <3>2. /\ DownEval(moved, report, draw) \in Boxes
          /\ DownEval(moved, report, draw).lb \in 0 .. Max
          /\ DownEval(moved, report, draw).sinceUp \in {moved.sinceUp, 0}
          /\ DownEval(moved, report, draw).sinceDown = moved.sinceDown
          /\ moved.charging /\ ~DownEval(moved, report, draw).charging =>
               report >= Max + CutMargin \/ Goal(report, draw) < PilotMin
      BY <1>3, <3>1, DownEvalSteps
    <3>3. shed = DownEval(moved, report, draw)
      BY <2>1
    <3> QED BY <1>3, <3>2, <3>3, Zenon
  <2>2. CASE ~down
    <3>1. shed = moved
      BY <2>2
    <3> QED BY <1>1, <1>3, <3>1, Zenon
  <2> QED BY <2>1, <2>2
<1> HIDE DEF shed, down
<1>5. CASE shed.sinceUp >= UpPeriod
  <2>1. shed.sinceUp = UpPeriod
    BY <1>1, <1>4, <1>5
  <2>2. /\ up \in Boxes /\ up.lb = shed.lb /\ up.charging = shed.charging
        /\ up.sinceUp = 0 /\ up.sinceDown = shed.sinceDown
    <3>1. up = [shed EXCEPT !.sinceUp = 0]
      BY <1>1, <1>4, <2>1 DEF Boxes
    <3> HIDE DEF up
    <3> QED BY <1>4, <3>1 DEF Boxes
  <2> HIDE DEF up
  <2>3. up.lb \in 0 .. Max
    BY <1>4, <2>2
  <2>4. /\ UpEval(up, report, draw) \in Boxes
        /\ UpEval(up, report, draw).lb \in 0 .. Max
        /\ UpEval(up, report, draw).sinceUp = 0
        /\ UpEval(up, report, draw).sinceDown = moved.sinceDown
        /\ shed.charging => UpEval(up, report, draw).charging
    BY <1>4, <2>2, <2>3, UpEvalSteps
  <2>5. BoxTick(b, report, draw) = UpEval(up, report, draw)
    BY <1>2, <1>5
  <2>6. 0 < UpPeriod
    BY <1>1
  <2>7. Settled(UpEval(up, report, draw))
    BY <1>3, <2>4, <2>6 DEF Settled
  <2>8. b.charging /\ ~UpEval(up, report, draw).charging =>
          report >= Max + CutMargin \/ Goal(report, draw) < PilotMin
    BY <1>4, <2>4, Zenon
  <2> QED BY <2>5, <2>7, <2>8, Zenon
<1>6. CASE ~(shed.sinceUp >= UpPeriod)
  <2>1. BoxTick(b, report, draw) = shed
    BY <1>2, <1>6
  <2>2. Settled(shed)
    BY <1>1, <1>3, <1>4, <1>6 DEF Settled
  <2> QED BY <1>4, <2>1, <2>2, Zenon
<1> QED
  BY <1>5, <1>6

\* The car draws no more than the ceiling, and never a negative current.
LEMMA EvTickTyped ==
  ASSUME NEW ev \in [amps: 0 .. Max, offered: 0 .. StartLag, gap: DrawGaps],
         NEW lb \in 0 .. Max
  PROVE  EvTick(ev, lb) \in [amps: 0 .. Max, offered: 0 .. StartLag, gap: DrawGaps]
<1> DEFINE offered == IF lb >= MinCharge THEN Least(ev.offered + 1, StartLag) ELSE 0
           want    == IF lb >= MinCharge /\ offered >= StartLag
                        THEN Least(lb - ev.gap, Max) ELSE 0
           amps    == IF want >= ev.amps THEN Least(want, ev.amps + RampUp)
                      ELSE IF ev.amps - want <= RampDown THEN want
                      ELSE ev.amps - RampDown
<1>1. /\ ev.amps \in 0 .. Max /\ ev.offered \in 0 .. StartLag /\ ev.gap \in DrawGaps
      /\ StartLag \in Nat /\ RampUp \in Nat /\ RampDown \in Nat
      /\ Max \in Nat /\ MinCharge \in Nat
  BY GrantAssumption, LoopAssumption
<1>2. ev.gap \in Nat /\ ev.gap <= MinCharge
  <2>1. DrawGaps \subseteq 0 .. MinCharge
    BY LoopAssumption, Zenon
  <2>2. ev.gap \in 0 .. MinCharge
    BY <1>1, <2>1, Zenon
  <2> QED BY <1>1, <2>2
<1>3. offered \in 0 .. StartLag
  BY <1>1 DEF Least
<1> HIDE DEF offered
<1>4. want \in 0 .. Max
  BY <1>1, <1>2 DEF Least
<1> HIDE DEF want
<1>5. amps \in 0 .. Max
  BY <1>1, <1>4 DEF Least
<1> HIDE DEF amps
<1>6. EvTick(ev, lb) = [ev EXCEPT !.amps = amps, !.offered = offered]
  BY DEF EvTick, amps, want, offered
<1> QED
  BY <1>3, <1>5, <1>6

-----------------------------------------------------------------------------
(***************************************************************************)
(* The loop.                                                               *)
(***************************************************************************)
LEMMA LoopInit == Init => TypeOK
<1> SUFFICES ASSUME Init PROVE TypeOK
  OBVIOUS
<1>1. Max \in Nat /\ LbLag \in Nat /\ StartLag \in Nat /\ 0 < UpPeriod /\ 0 < DownPeriod
  BY GrantAssumption, LoopAssumption, BoxAssumption
<1>2. box \in Boxes /\ box.lb = 0 /\ box.sinceUp = 0 /\ box.sinceDown = 0
  BY DEF Init, IdleBox, Boxes
<1>3. car \in [amps: 0 .. Max, offered: 0 .. StartLag, gap: DrawGaps]
  BY <1>1 DEF Init
<1>4. history \in [1 .. LbLag -> 0 .. Max]
  BY <1>1 DEF Init
<1>5. reported \in Int /\ enabled \in BOOLEAN /\ target \in Targets
  BY GrantAssumption DEF Init, PauseReport
<1>6. /\ seenLb \in 0 .. Max /\ seenCar \in 0 .. Max
      /\ sinceLb \in 0 .. LbPeriod - 1 /\ sinceCar \in 0 .. CarPeriod - 1
  BY <1>1 DEF Init
<1>7. box.lb \in 0 .. Max /\ box.sinceUp < UpPeriod /\ box.sinceDown < DownPeriod
  BY <1>1, <1>2
<1> QED
  BY <1>2, <1>3, <1>4, <1>5, <1>6, <1>7 DEF TypeOK

\* What the controller hands over is what the grant law expects.
LEMMA InputsTyped ==
  ASSUME TypeOK, NEW lb \in 0 .. Max, NEW draw \in 0 .. Max
  PROVE  Inputs(lb, draw) \in GrantControlInputs
<1>1. target \in Int \cup {None} /\ enabled \in BOOLEAN
  BY LoopAssumption DEF TypeOK
<1>2. lb \in Nat /\ draw \in Nat
  BY GrantAssumption
<1> QED
  BY <1>1, <1>2 DEF Inputs, GrantControlInputs

\* A unit of the world keeps the types, whatever integer is served.
LEMMA WorldTyped ==
  ASSUME TypeOK, World, reported' \in Int,
         seenLb' \in 0 .. Max, seenCar' \in 0 .. Max
  PROVE  TypeOK'
<1>1. Settled(box)
  BY DEF TypeOK, Settled
<1>2. Max \in Nat /\ car.amps \in Int
  BY GrantAssumption DEF TypeOK
<1>3. Settled(box)'
  <2>1. Settled(BoxTick(box, reported', car.amps))
    BY <1>1, <1>2, BoxTickSteps
  <2>2. box' = BoxTick(box, reported', car.amps)
    BY DEF World
  <2> QED BY <2>1, <2>2 DEF Settled
<1>4. car' \in [amps: 0 .. Max, offered: 0 .. StartLag, gap: DrawGaps]
  <2>1. box'.lb \in 0 .. Max
    BY <1>3 DEF Settled
  <2>2. car \in [amps: 0 .. Max, offered: 0 .. StartLag, gap: DrawGaps]
    BY DEF TypeOK
  <2>3. car' = EvTick(car, box'.lb)
    BY DEF World
  <2> QED BY <2>1, <2>2, <2>3, EvTickTyped
<1>5. history' \in [1 .. LbLag -> 0 .. Max]
  <2>1. \A i \in 1 .. LbLag :
          (IF i = 1 THEN box.lb ELSE history[i - 1]) \in 0 .. Max
    <3> TAKE i \in 1 .. LbLag
    <3>1. i # 1 => i - 1 \in 1 .. LbLag
      BY LoopAssumption
    <3> QED BY <3>1 DEF TypeOK
  <2> QED BY <2>1 DEF World
<1>6. sinceLb' \in 0 .. LbPeriod - 1 /\ sinceCar' \in 0 .. CarPeriod - 1
  <2>1. /\ LbPeriod \in Nat \ {0} /\ CarPeriod \in Nat \ {0}
        /\ sinceLb + 1 \in Nat /\ sinceCar + 1 \in Nat
    BY LoopAssumption DEF TypeOK
  <2>2. \A m \in Nat, n \in Nat \ {0} : m % n \in 0 .. n - 1
    OBVIOUS
  <2>3. (sinceLb + 1) % LbPeriod \in 0 .. LbPeriod - 1
        /\ (sinceCar + 1) % CarPeriod \in 0 .. CarPeriod - 1
    BY <2>1, <2>2
  <2> QED BY <2>3 DEF World
<1>7. target' \in Targets /\ enabled' \in BOOLEAN
  BY DEF World, setpoint, TypeOK
<1> QED
  BY <1>3, <1>4, <1>5, <1>6, <1>7 DEF TypeOK, Settled

\* What a decision reads is a grant and a draw under the ceiling.
LEMMA ReadsTyped ==
  ASSUME TypeOK
  PROVE  ReadLb \in 0 .. Max /\ ReadCar \in 0 .. Max
<1>1. history[LbLag] \in 0 .. Max
  <2>1. LbLag \in 1 .. LbLag
    BY LoopAssumption
  <2> QED BY <2>1 DEF TypeOK
<1>2. IdleGrant \in 0 .. Max /\ seenLb \in 0 .. Max
  BY LoopAssumption DEF TypeOK
<1>3. car.amps \in 0 .. Max /\ seenCar \in 0 .. Max
  BY DEF TypeOK
<1> QED
  BY <1>1, <1>2, <1>3 DEF ReadLb, ReadCar

\* What a unit decides on, and that what it serves is a current.
LEMMA UnitDecides ==
  ASSUME TypeOK, Unit
  PROVE  /\ seenLb' \in 0 .. Max /\ seenCar' \in 0 .. Max
         /\ Inputs(seenLb', seenCar') \in GrantControlInputs
         /\ reported' = Current(Inputs(seenLb', seenCar')) /\ reported' \in Int
<1>1. seenLb' \in 0 .. Max /\ seenCar' \in 0 .. Max
  BY ReadsTyped DEF Unit
<1>2. Inputs(seenLb', seenCar') \in GrantControlInputs
  BY <1>1, InputsTyped
<1>3. reported' = Current(Inputs(seenLb', seenCar'))
  BY DEF Unit
<1> QED
  BY <1>1, <1>2, <1>3, CurrentByReason

LEMMA LoopTyped == TypeOK /\ [Next]_vars => TypeOK'
<1> SUFFICES ASSUME TypeOK, [Next]_vars PROVE TypeOK'
  OBVIOUS
<1>1. ASSUME NEW v \in Targets, SetTarget(v) PROVE TypeOK'
  BY <1>1 DEF SetTarget, TypeOK, seen
<1>2. ASSUME NEW b \in BOOLEAN, SetEnable(b) PROVE TypeOK'
  BY <1>2 DEF SetEnable, TypeOK, seen
<1>3. ASSUME Restart PROVE TypeOK'
  <2>1. World
    BY <1>3 DEF Restart
  <2>2. reported' \in Int /\ seenLb' \in 0 .. Max /\ seenCar' \in 0 .. Max
    BY <1>3, GrantAssumption DEF Restart, PauseReport
  <2> QED BY <2>1, <2>2, WorldTyped
<1>4. ASSUME Unit PROVE TypeOK'
  <2>1. World
    BY <1>4 DEF Unit
  <2> QED BY <1>4, <2>1, UnitDecides, WorldTyped
<1>5. ASSUME UNCHANGED vars PROVE TypeOK'
  BY <1>5 DEF vars, setpoint, seen, TypeOK
<1> QED
  BY <1>1, <1>2, <1>3, <1>4, <1>5 DEF Next

\* TypeOK: the box's grant and the car's draw stay between zero and the ceiling, and
\* what the controller reads and serves stays a current, on every clock.
THEOREM LoopTypes == Spec => []TypeOK
<1> QED
  BY LoopInit, LoopTyped, PTL DEF Spec

\* A session that ends unpaused ended on a decision about a draw that was over.
LEMMA CutStep ==
  ASSUME PilotMin <= MinCharge, MaxOver < CutMargin, TypeOK, [Next]_vars,
         box.charging, ~box'.charging, reported' # PauseReport
  PROVE  seenCar' # car.amps
<1> SUFFICES ASSUME seenCar' = car.amps PROVE FALSE
  OBVIOUS
<1>1. Unit
  <2>1. box' # box
    OBVIOUS
  <2>2. \A v \in Targets : ~SetTarget(v)
    BY <2>1 DEF SetTarget
  <2>3. \A b \in BOOLEAN : ~SetEnable(b)
    BY <2>1 DEF SetEnable
  <2>4. ~Restart
    BY DEF Restart
  <2>5. ~(UNCHANGED vars)
    BY <2>1 DEF vars
  <2> QED
    BY <2>2, <2>3, <2>4, <2>5 DEF Next
<1> DEFINE in == Inputs(seenLb', seenCar')
<1>2. in \in GrantControlInputs /\ reported' = Current(in) /\ reported' \in Int
  BY <1>1, UnitDecides
<1>3. in.car = car.amps
  BY DEF Inputs
<1> HIDE DEF in
<1>4. Reason(in) \notin HeldReasons
  BY <1>2, CurrentByReason
<1>5. Goal(reported', car.amps) >= PilotMin /\ reported' < Max + CutMargin
  BY <1>2, <1>3, <1>4, FreshNeverCuts
<1>6. reported' >= Max + CutMargin \/ Goal(reported', car.amps) < PilotMin
  <2>1. Settled(box) /\ car.amps \in Int
    BY GrantAssumption DEF TypeOK, Settled
  <2>2. box' = BoxTick(box, reported', car.amps)
    BY <1>1 DEF Unit, World
  <2> QED
    BY <1>2, <2>1, <2>2, BoxTickSteps
<1>7. /\ Goal(reported', car.amps) \in Int /\ PilotMin \in Int
      /\ Max + CutMargin \in Int
  <2>1. car.amps + Max - reported' \in Int
    BY <1>2, GrantAssumption DEF TypeOK
  <2> QED
    BY <2>1, RoundAmpBounds, GrantAssumption, BoxAssumption DEF Goal, PilotMin, Amp
<1> QED
  BY <1>2, <1>5, <1>6, <1>7

\* CutNeedsOldDraw: replay.rs wants that "No phase of the box's clock against the
\* feedback may lose the session".  Some phases do; on every clock and for every car
\* it then was the age of the printed draw, never the grant law's own margins.
THEOREM CutsNeedAnOldDraw ==
  ASSUME PilotMin <= MinCharge, MaxOver < CutMargin
  PROVE  Spec => CutNeedsOldDraw
<1>1. TypeOK /\ [Next]_vars =>
        [box.charging /\ ~box'.charging /\ reported' # PauseReport
           => seenCar' # car.amps]_vars
  BY CutStep
<1> QED
  BY <1>1, LoopInit, LoopTyped, PTL DEF Spec, CutNeedsOldDraw
=============================================================================
