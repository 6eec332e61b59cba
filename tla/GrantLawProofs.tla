--------------------------- MODULE GrantLawProofs ---------------------------
(***************************************************************************)
(* What the grant law reports, for every input and every value of its      *)
(* constants.                                                              *)
(***************************************************************************)
EXTENDS GrantLaw, TLAPS

\* The integer cast yields an integer and keeps the sign.
LEMMA TruncateSign ==
  ASSUME NEW x \in Int, NEW d \in Nat \ {0}
  PROVE  Truncate(x, d) \in Int /\ (x >= 0 => Truncate(x, d) >= 0)
<1>1. \A y \in Nat : y \div d \in Nat
  OBVIOUS
<1>2. CASE x < 0
  BY <1>1, <1>2 DEF Truncate
<1>3. CASE x >= 0
  BY <1>1, <1>3 DEF Truncate
<1> QED BY <1>2, <1>3

\* So does the rounding to whole amperes.
LEMMA WholeAmpsSign ==
  ASSUME NEW x \in Int
  PROVE  WholeAmps(x) \in Int /\ (x >= 0 => WholeAmps(x) >= 0)
BY TruncateSign DEF WholeAmps, Amp

\* Regulating an open session never reports past the ceiling plus MaxOver.
LEMMA LbTrackingBound ==
  ASSUME NEW target \in Int, NEW lb \in Nat, NEW car \in Nat
  PROVE  /\ LbTrackingReport(target, lb, car) \in Int
         /\ LbTrackingReport(target, lb, car) <= Max + MaxOver
<1>1. ShedRoom(lb, car) \in Int
  <2>1. Gap(lb, car) \in Int
    BY DEF Gap
  <2>2. lb - (MinCharge - 10 \div 2) - 3 * Gap(lb, car) \in Int
    BY <2>1, GrantAssumption
  <2>3. Truncate(lb - (MinCharge - 10 \div 2) - 3 * Gap(lb, car), 3 * 10) \in Int
    BY <2>2, TruncateSign
  <2> QED
    BY <2>3 DEF ShedRoom, EvalsBeforeFeedback, Amp
<1>2. CappedShedReport(lb, car) \in Int /\ CappedShedReport(lb, car) <= Max
  BY WholeAmpsSign, GrantAssumption DEF CappedShedReport, Amp
<1> QED
  BY <1>1, <1>2, GrantAssumption DEF LbTrackingReport, Least, Clamp, Amp

\* What each class of rules reports.
LEMMA CurrentByReason ==
  ASSUME NEW in \in GrantControlInputs
  PROVE  /\ Reason(in) \in Reasons
         /\ Current(in) \in Int
         /\ Reason(in) \in HeldReasons => Current(in) = PauseReport
         /\ Reason(in) \notin HeldReasons => Current(in) <= Max + MaxOver
<1>1. Reason(in) \in Reasons
  BY DEF Reason, Reasons
<1>2. CASE Reason(in) \in HeldReasons
  BY <1>1, <1>2, GrantAssumption DEF Current, PauseReport, HeldReasons
<1>3. CASE Reason(in) \in {"PilotProbe", "ColdStartKick"}
  BY <1>1, <1>3, GrantAssumption DEF Current, HeldReasons
<1>4. CASE Reason(in) \in {"RampPin", "LbTracking"}
  <2>1. in.target \in Int
    BY <1>4 DEF Reason, HeldShut, GrantControlInputs
  <2>2. WholeAmps(in.car) \in Int
    BY WholeAmpsSign DEF GrantControlInputs
  <2>3. RampPinReport(in) \in Int /\ RampPinReport(in) <= Max
    BY <2>1, <2>2, GrantAssumption DEF RampPinReport, Clamp, Least
  <2>4. in.lb \in Nat /\ in.car \in Nat
    BY DEF GrantControlInputs
  <2>5. /\ LbTrackingReport(in.target, in.lb, in.car) \in Int
        /\ LbTrackingReport(in.target, in.lb, in.car) <= Max + MaxOver
    BY <2>1, <2>4, LbTrackingBound
  <2>6. CASE Reason(in) = "RampPin"
    <3>1. Current(in) = RampPinReport(in)
      BY <2>6 DEF Current, HeldReasons
    <3> QED BY <1>1, <2>3, <2>6, <3>1, GrantAssumption DEF HeldReasons
  <2>7. CASE Reason(in) = "LbTracking"
    <3>1. Current(in) = LbTrackingReport(in.target, in.lb, in.car)
      BY <2>7 DEF Current, HeldReasons
    <3> QED BY <1>1, <2>5, <2>7, <3>1 DEF HeldReasons
  <2> QED
    BY <1>4, <2>6, <2>7
<1> QED
  BY <1>1, <1>2, <1>3, <1>4 DEF Reasons, HeldReasons

\* The measurement probe leaves a pause alone and never lifts to one.
LEMMA ProbeReportBound ==
  ASSUME NEW base \in Int, NEW over \in 0 .. ProbeMaxOver
  PROVE  /\ ProbeReport(base, over) \in Int
         /\ base = PauseReport => ProbeReport(base, over) = PauseReport
         /\ base <= Max + MaxOver => ProbeReport(base, over) <= Max + ProbeMaxOver
BY GrantAssumption DEF ProbeReport, PauseReport, Least
=============================================================================
