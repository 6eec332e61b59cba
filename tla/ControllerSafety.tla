-------------------------- MODULE ControllerSafety --------------------------
(***************************************************************************)
(* The safety properties of Controller, proved for every value of its      *)
(* constants.  Most are inductive once types are known; the strengthening  *)
(* conjuncts are RelayOwned and FlashInForce.  The last section proves     *)
(* what PilotHistory says of a whole boot.                                 *)
(***************************************************************************)
EXTENDS ControllerProofs, PilotHistory

\* Without a relay there is neither an open one nor a pulse.
RelayOwned ==
  /\ relayOpen => HasRelay
  /\ ~HasRelay => wake = NoPulse

\* Fault-free flash is open and holds the setpoint in force.
FlashInForce == ~NvsFaults => nvs.open /\ RebootResumes

\* The inductive invariant.
SafetyInv ==
  /\ TypeOK
  /\ BlindOfferBounded
  /\ PauseMeansHeld
  /\ ProbeSelfExpires
  /\ RelayOwned
  /\ RelayBounded
  /\ PilotOfferBounded
  /\ FlashInForce

-----------------------------------------------------------------------------
\* What showing a letter and the passing of a unit do to a pulse.
LEMMA PulseSteps ==
  ASSUME NEW pulse \in Pulse, NEW letter
  PROVE  /\ AfterShowing(pulse, letter).left = pulse.left
         /\ pulse.left # None =>
              /\ pulse.left \in Int /\ AfterUnit(pulse).left \in Int
              /\ AfterUnit(pulse).left # None
              /\ AfterUnit(pulse).left >= pulse.left - 1
         /\ AfterShowing(NoPulse, letter) = NoPulse
         /\ AfterUnit(NoPulse) = NoPulse
<1>1. AfterShowing(pulse, letter).left = pulse.left
  BY DEF AfterShowing, Pulse
<1>2. pulse.left # None => AfterUnit(pulse).left = pulse.left \/
                           AfterUnit(pulse).left = pulse.left - 1
  BY DEF AfterUnit, Pulse
<1>3. pulse.left # None => pulse.left \in Int
  BY DEF Pulse
<1>4. AfterShowing(NoPulse, letter) = NoPulse
  <2>1. NoPulse.settled = TRUE
    BY DEF NoPulse
  <2>2. AfterShowing(NoPulse, letter) = [NoPulse EXCEPT !.settled = TRUE]
    BY <2>1, Zenon DEF AfterShowing
  <2> QED BY <2>2 DEF NoPulse
<1>5. AfterUnit(NoPulse) = NoPulse
  BY DEF AfterUnit, NoPulse
<1> QED
  BY <1>1, <1>2, <1>3, <1>4, <1>5, GrantAssumption

\* A relay whose writes do not fail follows.
LEMMA RelayDriven ==
  ASSUME HasRelay, ~RelayFaults, relayOpen \in BOOLEAN, NEW open \in BOOLEAN,
         DriveCpRelay(open)
  PROVE  relayOpen' = open
<1>1. CASE open = relayOpen
  BY <1>1 DEF DriveCpRelay
<1>2. CASE open # relayOpen
  BY <1>2 DEF DriveCpRelay, Outcomes
<1> QED BY <1>1, <1>2

-----------------------------------------------------------------------------
(***************************************************************************)
(* What one tick serves.                                                   *)
(***************************************************************************)

\* A tick serves the pause exactly under a rule that holds the box shut; an
\* offer presupposes live inputs and a closed pilot.
LEMMA TickServes ==
  ASSUME TypeOK, Tick
  PROVE  LET reason == Reason(GrantInputs) IN
         /\ status'.reason = reason
         /\ reason \in HeldReasons =>
              reported' = PauseReport /\ Current(GrantInputs) = PauseReport
         /\ reason \notin HeldReasons =>
              /\ reported' <= Max + ProbeMaxOver /\ Current(GrantInputs) <= Max + MaxOver
              /\ ~GridStale /\ ~Cn28Stale /\ ~CpWakeOpen
         /\ reason = "PilotProbe" => PilotProbeActive
<1>1. GrantInputs \in GrantControlInputs
  BY GrantInputsTyped
<1>2. probeOver' \in 0 .. ProbeMaxOver
  BY BootValues DEF TypeOK, Tick
<1>3. reported' = ProbeReport(Current(GrantInputs), probeOver')
  BY DEF Tick
<1>4. status'.reason = Reason(GrantInputs)
  BY DEF Tick
<1>5. Reason(GrantInputs) \in HeldReasons =>
        reported' = PauseReport /\ Current(GrantInputs) = PauseReport
  BY <1>1, <1>2, <1>3, CurrentByReason, ProbeReportBound
<1>6. Reason(GrantInputs) \notin HeldReasons =>
        reported' <= Max + ProbeMaxOver /\ Current(GrantInputs) <= Max + MaxOver
  BY <1>1, <1>2, <1>3, CurrentByReason, ProbeReportBound
<1>7. Reason(GrantInputs) \notin HeldReasons => ~GridStale /\ ~Cn28Stale /\ ~CpWakeOpen
  BY DEF Reason, HeldReasons, GrantInputs
<1>8. Reason(GrantInputs) = "PilotProbe" => PilotProbeActive
  BY DEF Reason, GrantInputs
<1> QED
  BY <1>4, <1>5, <1>6, <1>7, <1>8

-----------------------------------------------------------------------------
(***************************************************************************)
(* Each conjunct, step by step.                                            *)
(***************************************************************************)

\* A first boot is safe: it serves the pause and has nothing armed.
LEMMA InitSafe == Init => SafetyInv
<1> SUFFICES ASSUME Init PROVE SafetyInv
  OBVIOUS
<1>1. TypeOK
  BY InitTyped
<1>2. status.reason = None
  BY DEF Init, NoVerdict
<1>3. BlindOfferBounded
  BY GrantAssumption DEF Init, BlindOfferBounded, PauseReport
<1>4. PauseMeansHeld
  BY <1>2 DEF PauseMeansHeld
<1>5. ProbeSelfExpires
  BY DEF Init, ProbeSelfExpires
<1>6. RelayOwned /\ RelayBounded
  BY DEF Init, RelayOwned, RelayBounded
<1>7. PilotOfferBounded
  BY <1>2, ControllerAssumption DEF PilotOfferBounded, Reasons
<1>8. FlashInForce
  <2> SUFFICES ASSUME ~NvsFaults PROVE nvs.open /\ RebootResumes
    BY DEF FlashInForce
  <2>1. nvs = [open |-> TRUE, target |-> None, enable |-> None]
    BY DEF Init, Outcomes
  <2> QED
    BY <2>1 DEF Init, RebootResumes, RestoredTarget, RestoredEnable
<1> QED
  BY <1>1, <1>3, <1>4, <1>5, <1>6, <1>7, <1>8 DEF SafetyInv

\* So is every later boot.
LEMMA RebootSafe == SafetyInv /\ Reboot => SafetyInv'
<1> SUFFICES ASSUME SafetyInv, Reboot PROVE SafetyInv'
  OBVIOUS
<1>1. TypeOK'
  BY RebootTyped DEF SafetyInv
<1>2. status'.reason = None
  BY DEF Reboot, NoVerdict
<1>3. BlindOfferBounded'
  BY GrantAssumption DEF Reboot, BlindOfferBounded, PauseReport
<1>4. PauseMeansHeld'
  BY <1>2 DEF PauseMeansHeld
<1>5. ProbeSelfExpires'
  BY DEF Reboot, ProbeSelfExpires
<1>6. RelayOwned' /\ RelayBounded'
  BY DEF Reboot, RelayOwned, RelayBounded
<1>7. PilotOfferBounded'
  BY <1>2, ControllerAssumption DEF PilotOfferBounded, Reasons
<1>8. FlashInForce'
  <2> SUFFICES ASSUME ~NvsFaults PROVE (nvs.open /\ RebootResumes)'
    BY DEF FlashInForce
  <2>1. nvs \in Flash /\ nvs' = [nvs EXCEPT !.open = TRUE]
    BY DEF SafetyInv, TypeOK, Reboot, Outcomes
  <2>2. nvs'.open
    BY <2>1 DEF Flash
  <2> QED
    BY <2>2 DEF Reboot, RebootResumes
<1> QED
  BY <1>1, <1>3, <1>4, <1>5, <1>6, <1>7, <1>8 DEF SafetyInv

\* A tick judges the ages it then resets the lag against, and drives the relay.
LEMMA TickSafe == SafetyInv /\ Tick => SafetyInv'
<1> SUFFICES ASSUME SafetyInv, Tick PROVE SafetyInv'
  OBVIOUS
<1> USE DEF SafetyInv
<1>1. TypeOK'
  BY TickTyped
<1>2. UNCHANGED <<gridAge, lb, car, cp, cn28Age, target, enabled, nvs>> /\ sinceTick' = 0
  BY DEF Tick, feedVars, setpoint
<1>3. BlindOfferBounded'
  <2>1. reported' < PauseReport => ~GridStale /\ ~Cn28Stale
    BY TickServes, GrantAssumption DEF PauseReport
  <2> QED
    BY <1>2, <2>1, ControllerAssumption
       DEF TypeOK, GridStale, Cn28Stale, BlindOfferBounded
<1>4. PauseMeansHeld'
  BY TickServes DEF PauseMeansHeld
<1>5. ProbeSelfExpires'
  BY <1>2, ControllerAssumption, GrantAssumption
     DEF TypeOK, Tick, ProbeSelfExpires, ProbeExpired
<1>6. wake'.left = wake.left /\ (wake = NoPulse => wake' = NoPulse)
  BY PulseSteps DEF Tick, TypeOK
<1>7. RelayOwned'
  BY <1>6 DEF RelayOwned, Tick, DriveCpRelay
<1>8. RelayBounded'
  <2> SUFFICES ASSUME relayOpen', ~RelayFaults
               PROVE  wake'.left # None /\ wake'.left + sinceTick' >= 1
    BY DEF RelayBounded
  <2>1. CpWakeOpen
    <3>1. HasRelay
      BY <1>7 DEF RelayOwned
    <3>2. CpWakeOpen \in BOOLEAN
      BY GrantInputsTyped DEF GrantInputs, GrantControlInputs
    <3> QED BY <3>1, <3>2, RelayDriven DEF Tick, TypeOK
  <2> QED
    BY <1>2, <1>6, <2>1 DEF CpWakeOpen, IsOpen, TypeOK, Pulse
<1>9. PilotOfferBounded'
  <2> SUFFICES ASSUME status'.reason = "PilotProbe"
               PROVE  /\ ~pilotProbed'
                      /\ pilotAge' # None /\ pilotAge' < PilotWindow + sinceTick'
    BY DEF PilotOfferBounded
  <2>1. PilotProbeActive
    BY TickServes
  <2> QED
    BY <1>2, <2>1, ControllerAssumption, GrantAssumption
       DEF TypeOK, Tick, PilotProbeActive, PilotStarts, PilotRuns, PilotCloses,
           PilotEligible
<1>10. FlashInForce'
  BY <1>2 DEF FlashInForce, RebootResumes
<1> QED
  BY <1>1, <1>3, <1>4, <1>5, <1>7, <1>8, <1>9, <1>10

\* A unit of time ages the inputs and the lag alike.
LEMMA ElapseSafe == SafetyInv /\ Elapse => SafetyInv'
<1> SUFFICES ASSUME SafetyInv, Elapse PROVE SafetyInv'
  OBVIOUS
<1> USE DEF SafetyInv
<1>1. TypeOK'
  BY ElapseTyped
<1>2. /\ UNCHANGED <<target, enabled, probeOver, pilotProbed, relayOpen, nvs,
                     reported, status>>
      /\ sinceTick' = sinceTick + 1 /\ sinceTick \in Nat
  BY DEF Elapse, setpoint, TypeOK
<1>3. /\ gridAge' <= gridAge + 1 /\ cn28Age' <= cn28Age + 1
      /\ gridAge \in Nat /\ cn28Age \in Nat /\ gridAge' \in Nat /\ cn28Age' \in Nat
  <2>1. GridTimeout + TickLag + 1 \in Nat /\ Cn28Timeout + TickLag + 1 \in Nat
    BY ControllerAssumption
  <2> QED BY <2>1, OlderTyped DEF TypeOK, Elapse
<1>4. /\ probeAge' = None <=> probeAge = None
      /\ probeAge # None => probeAge \in Nat /\ probeAge' \in Nat /\ probeAge' <= probeAge + 1
  BY GrantAssumption, ControllerAssumption DEF TypeOK, Elapse, Older
<1>5. pilotAge # None =>
        /\ pilotAge' # None
        /\ pilotAge \in Nat /\ pilotAge' \in Nat /\ pilotAge' <= pilotAge + 1
  BY GrantAssumption, ControllerAssumption DEF TypeOK, Elapse, Older
<1>6. /\ wake.left # None =>
           wake'.left # None /\ wake.left \in Int /\ wake'.left \in Int
           /\ wake'.left >= wake.left - 1
      /\ wake = NoPulse => wake' = NoPulse
  BY PulseSteps DEF TypeOK, Elapse
<1>7. BlindOfferBounded'
  BY <1>2, <1>3, ControllerAssumption DEF BlindOfferBounded
<1>8. PauseMeansHeld'
  BY <1>2 DEF PauseMeansHeld
<1>9. ProbeSelfExpires'
  BY <1>2, <1>4, ControllerAssumption DEF ProbeSelfExpires
<1>10. RelayOwned' /\ RelayBounded'
  BY <1>2, <1>6 DEF RelayOwned, RelayBounded
<1>11. PilotOfferBounded'
  BY <1>2, <1>5, ControllerAssumption DEF PilotOfferBounded
<1>12. FlashInForce'
  BY <1>2 DEF FlashInForce, RebootResumes
<1> QED
  BY <1>1, <1>7, <1>8, <1>9, <1>10, <1>11, <1>12

\* Inputs refresh ages and write flash, and serve nothing themselves.
LEMMA InputsSafe == SafetyInv /\ Inputs => SafetyInv'
<1> SUFFICES ASSUME SafetyInv, Inputs PROVE SafetyInv'
  OBVIOUS
<1> USE DEF SafetyInv, setpoint, feedVars, probeVars, pilotVars, wakeVars, tickVars
<1>1. TypeOK'
  BY InputsTyped
<1>2. UNCHANGED <<reported, status, sinceTick, pilotAge, pilotProbed>>
  BY DEF Inputs, ApplyTarget, ApplyEnable, ApplyGridPower, ApplyProbeOver, Reject,
         ApplyCn28Feedback, ApplyWakeup, ApplyWakeupFalse
<1>3. gridAge' \in {gridAge, 0} /\ cn28Age' \in {cn28Age, 0}
  BY DEF Inputs, ApplyTarget, ApplyEnable, ApplyGridPower, ApplyProbeOver, Reject,
         ApplyCn28Feedback, ApplyWakeup, ApplyWakeupFalse
<1>4. BlindOfferBounded'
  BY <1>2, <1>3, ControllerAssumption DEF TypeOK, BlindOfferBounded
<1>5. PauseMeansHeld' /\ PilotOfferBounded'
  BY <1>2 DEF PauseMeansHeld, PilotOfferBounded
<1>6. ProbeSelfExpires'
  <2>1. ASSUME NEW v \in Lifts, ApplyProbeOver(v) PROVE ProbeSelfExpires'
    <3>1. v \in Int /\ 0 # None
      BY ControllerAssumption, GrantAssumption
    <3> QED
      BY <1>2, <2>1, <3>1, ControllerAssumption
         DEF TypeOK, ApplyProbeOver, ProbeSelfExpires
  <2>2. CASE UNCHANGED <<probeOver, probeAge>>
    BY <1>2, <2>2 DEF ProbeSelfExpires
  <2> QED
    BY <2>1, <2>2 DEF Inputs, ApplyTarget, ApplyEnable, ApplyGridPower, Reject,
                      ApplyCn28Feedback, ApplyWakeup, ApplyWakeupFalse
<1>7. RelayOwned' /\ RelayBounded'
  <2>1. ASSUME NEW length \in Pulses, ApplyWakeup(length)
        PROVE  RelayOwned' /\ RelayBounded'
    <3>1. CASE wake' = wake /\ relayOpen' = relayOpen
      BY <1>2, <3>1 DEF RelayOwned, RelayBounded
    <3>2. CASE HasRelay /\ ~IsOpen(wake)
      <4>1. wake'.left = length
        BY <2>1, <3>2 DEF ApplyWakeup, Request
      <4>2. length \in Nat \ {0} /\ length # None
        BY ControllerAssumption, GrantAssumption
      <4> QED
        BY <1>2, <3>2, <4>1, <4>2, ControllerAssumption
           DEF TypeOK, RelayOwned, RelayBounded
    <3> QED
      BY <2>1, <3>1, <3>2 DEF ApplyWakeup, Request
  <2>2. CASE UNCHANGED <<wake, relayOpen>>
    BY <1>2, <2>2 DEF RelayOwned, RelayBounded
  <2> QED
    BY <2>1, <2>2 DEF Inputs, ApplyTarget, ApplyEnable, ApplyGridPower,
                      ApplyProbeOver, Reject, ApplyCn28Feedback, ApplyWakeupFalse
<1>8. FlashInForce'
  <2> SUFFICES ASSUME ~NvsFaults PROVE (nvs.open /\ RebootResumes)'
    BY DEF FlashInForce
  <2>1. /\ nvs \in Flash /\ nvs.open
        /\ nvs.target = target
        /\ enabled = IF nvs.enable # None THEN nvs.enable ELSE TRUE
    BY DEF TypeOK, FlashInForce, RebootResumes, RestoredTarget, RestoredEnable
  <2>2. ASSUME NEW v \in Targets, ApplyTarget(v) PROVE (nvs.open /\ RebootResumes)'
    <3>1. CASE v = target
      BY <2>1, <2>2, <3>1
         DEF ApplyTarget, Persist, RebootResumes, RestoredTarget, RestoredEnable
    <3>2. CASE v # target
      <4>1. nvs' = [nvs EXCEPT !["target"] = v]
        BY <2>1, <2>2, <3>2 DEF ApplyTarget, Persist, Outcomes
      <4>2. nvs'.open /\ nvs'.target = v /\ nvs'.enable = nvs.enable
        BY <2>1, <4>1 DEF Flash
      <4> QED
        BY <2>1, <2>2, <4>2 DEF ApplyTarget, RebootResumes, RestoredTarget,
                                RestoredEnable
    <3> QED BY <3>1, <3>2
  <2>3. ASSUME NEW b \in BOOLEAN, ApplyEnable(b) PROVE (nvs.open /\ RebootResumes)'
    <3>1. CASE b = enabled
      BY <2>1, <2>3, <3>1
         DEF ApplyEnable, Persist, RebootResumes, RestoredTarget, RestoredEnable
    <3>2. CASE b # enabled
      <4>1. nvs' = [nvs EXCEPT !["enable"] = b]
        BY <2>1, <2>3, <3>2 DEF ApplyEnable, Persist, Outcomes
      <4>2. nvs'.open /\ nvs'.target = nvs.target /\ nvs'.enable = b
        BY <2>1, <4>1 DEF Flash
      <4>3. b # None
        BY ControllerAssumption
      <4> QED
        BY <2>1, <2>3, <4>2, <4>3 DEF ApplyEnable, RebootResumes, RestoredTarget,
                                      RestoredEnable
    <3> QED BY <3>1, <3>2
  <2>4. CASE UNCHANGED <<target, enabled, nvs>>
    BY <2>4 DEF FlashInForce, RebootResumes
  <2> QED
    BY <2>2, <2>3, <2>4 DEF Inputs, ApplyGridPower, ApplyProbeOver, Reject,
                            ApplyCn28Feedback, ApplyWakeup, ApplyWakeupFalse
<1> QED
  BY <1>1, <1>4, <1>5, <1>6, <1>7, <1>8

\* Every step keeps the invariant.
LEMMA SafetyInductive == SafetyInv /\ [Next]_vars => SafetyInv'
<1> SUFFICES ASSUME SafetyInv, [Next]_vars PROVE SafetyInv'
  OBVIOUS
<1>1. CASE Inputs
  BY <1>1, InputsSafe
<1>2. CASE Tick
  BY <1>2, TickSafe
<1>3. CASE Elapse
  BY <1>3, ElapseSafe
<1>4. CASE Reboot
  BY <1>4, RebootSafe
<1>5. CASE UNCHANGED vars
  BY <1>5
     DEF vars, setpoint, feedVars, probeVars, pilotVars, wakeVars, tickVars,
         SafetyInv, TypeOK, BlindOfferBounded, PauseMeansHeld, ProbeSelfExpires,
         RelayOwned, RelayBounded, PilotOfferBounded, FlashInForce, RebootResumes
<1> QED
  BY <1>1, <1>2, <1>3, <1>4, <1>5 DEF Next

\* The inductive invariant holds throughout.
THEOREM SafetyHolds == Spec => []SafetyInv
BY InitSafe, SafetyInductive, PTL DEF Spec

-----------------------------------------------------------------------------
(***************************************************************************)
(* The safety properties.                                                  *)
(***************************************************************************)

\* The box is never offered anything on an aged heartbeat or feedback.
THEOREM BlindOffersBounded == Spec => []BlindOfferBounded
<1>1. SafetyInv => BlindOfferBounded
  BY DEF SafetyInv
<1> QED BY <1>1, SafetyHolds, PTL

\* A pause on the wire is a rule holding the box shut, and never anything else.
THEOREM PausesAreHeld == Spec => []PauseMeansHeld
<1>1. SafetyInv => PauseMeansHeld
  BY DEF SafetyInv
<1> QED BY <1>1, SafetyHolds, PTL

\* A forgotten measurement probe expires.
THEOREM ProbesExpire == Spec => []ProbeSelfExpires
<1>1. SafetyInv => ProbeSelfExpires
  BY DEF SafetyInv
<1> QED BY <1>1, SafetyHolds, PTL

\* The pilot is never interrupted for longer than evcc asked plus the tick lag.
THEOREM RelayIsBounded == Spec => []RelayBounded
<1>1. SafetyInv => RelayBounded
  BY DEF SafetyInv
<1> QED BY <1>1, SafetyHolds, PTL

\* The pilot probe's uncommanded offer is one bounded window.
THEOREM PilotOffersBounded == Spec => []PilotOfferBounded
<1>1. SafetyInv => PilotOfferBounded
  BY DEF SafetyInv
<1> QED BY <1>1, SafetyHolds, PTL

\* While flash works, a reboot resumes the setpoint in force.
THEOREM RebootsResume == Spec => []RebootResumes
<1>1. SafetyInv => RebootResumes
  BY DEF SafetyInv, FlashInForce, RebootResumes
<1> QED BY <1>1, SafetyHolds, PTL

\* No tick leaves current on offer while it leaves the pilot interrupted.
THEOREM OpenPilotOffersNothing == Spec => NoOfferAfterTickWithOpenPilot
<1>1. SafetyInv /\ [Next]_vars =>
        [Tick /\ relayOpen' /\ ~RelayFaults => reported' = PauseReport]_vars
  <2> SUFFICES ASSUME SafetyInv, Tick, relayOpen', ~RelayFaults
               PROVE  reported' = PauseReport
    OBVIOUS
  <2>1. HasRelay
    BY TickSafe DEF SafetyInv, RelayOwned
  <2>2. CpWakeOpen \in BOOLEAN
    BY GrantInputsTyped DEF GrantInputs, GrantControlInputs, SafetyInv
  <2>3. CpWakeOpen
    BY <2>1, <2>2, RelayDriven DEF Tick, SafetyInv, TypeOK
  <2> QED
    BY <2>3, TickServes DEF SafetyInv
<1> QED
  BY <1>1, SafetyHolds, PTL DEF Spec, NoOfferAfterTickWithOpenPilot

\* With the pilot in C, evcc reads C exactly while current is on offer.
THEOREM LetterMatchesOffer == Spec => ChargingLetterMatchesOffer
<1>1. SafetyInv /\ [Next]_vars =>
        [Tick /\ cp = "Charging" =>
           (status'.letter = "C" <=> reported' < PauseReport)]_vars
  <2> SUFFICES ASSUME SafetyInv, Tick, cp = "Charging"
               PROVE  status'.letter = "C" <=> reported' < PauseReport
    OBVIOUS
  <2> USE DEF SafetyInv
  <2>1. status'.letter = ShownLetter(wake, PilotLetter)
    BY DEF Tick
  <2>2. cp # None
    BY ControllerAssumption DEF CpStates
  <2>3. CASE Reason(GrantInputs) \in HeldReasons
    <3>1. reported' = PauseReport /\ Current(GrantInputs) = PauseReport
      BY <2>3, TickServes
    <3>2. PilotLetter \in {"", "B"}
      BY <2>2, <3>1, GrantAssumption DEF PilotLetter, ChargeState, PauseReport
    <3>3. status'.letter # "C"
      BY <2>1, <3>2 DEF ShownLetter
    <3> QED BY <3>1, <3>3, GrantAssumption DEF PauseReport
  <2>4. CASE Reason(GrantInputs) \notin HeldReasons
    <3>1. /\ reported' <= Max + ProbeMaxOver /\ Current(GrantInputs) <= Max + MaxOver
          /\ ~Cn28Stale /\ ~CpWakeOpen
      BY <2>4, TickServes
    <3>2. reported' \in Int /\ Current(GrantInputs) \in Int
      BY TickSafe, GrantInputsTyped, CurrentByReason DEF TypeOK
    <3>3. PilotLetter = "C"
      BY <2>2, <3>1, <3>2, GrantAssumption DEF PilotLetter, ChargeState, PauseReport
    <3>4. ~IsOpen(wake)
      BY <3>1 DEF CpWakeOpen, RelayOwned, NoPulse, IsOpen
    <3>5. status'.letter = "C"
      BY <2>1, <3>3, <3>4 DEF ShownLetter, Masks
    <3> QED BY <3>1, <3>2, <3>5, GrantAssumption DEF PauseReport
  <2> QED BY <2>3, <2>4
<1> QED
  BY <1>1, SafetyHolds, PTL DEF Spec, ChargingLetterMatchesOffer
-----------------------------------------------------------------------------
(***************************************************************************)
(* The promise of SafeOffer, by step simulation.                           *)
(***************************************************************************)

\* An age grows by at most one unit, and so does its excess over a timeout.
LEMMA PastSteps ==
  ASSUME NEW age \in Nat, NEW older \in Nat, NEW timeout \in Nat
  PROVE  /\ Past(age, timeout) \in Nat
         /\ older \in {age, age + 1} =>
              Past(older, timeout) \in {Past(age, timeout), Past(age, timeout) + 1}
         /\ older \in {age, 0} => Past(older, timeout) \in {Past(age, timeout), 0}
         /\ Past(age, timeout) = 0 <=> ~(age > timeout)
BY DEF Past

\* Both excesses make up Overdue.
LEMMA OverdueTyped ==
  TypeOK => /\ Overdue \in Nat
            /\ Overdue = 0 <=> ~GridStale /\ ~Cn28Stale
<1> SUFFICES ASSUME TypeOK PROVE Overdue \in Nat /\ (Overdue = 0 <=> ~GridStale /\ ~Cn28Stale)
  OBVIOUS
<1>1. /\ Past(gridAge, GridTimeout) \in Nat /\ Past(cn28Age, Cn28Timeout) \in Nat
      /\ Past(gridAge, GridTimeout) = 0 <=> ~GridStale
      /\ Past(cn28Age, Cn28Timeout) = 0 <=> ~Cn28Stale
  BY PastSteps, ControllerAssumption DEF TypeOK, GridStale, Cn28Stale
<1> QED BY <1>1 DEF Overdue

\* A decision that offers finds every input alive and the pilot wanted connected.
LEMMA TickDecides == TypeOK /\ Tick => Offer!Decide
<1> SUFFICES ASSUME TypeOK, Tick PROVE Offer!Decide
  OBVIOUS
<1>1. UNCHANGED <<gridAge, cn28Age>> /\ sinceTick' = 0 /\ wake'.left = wake.left
  BY PulseSteps DEF Tick, feedVars, TypeOK
<1>2. Overdue' = Overdue /\ CpWakeOpen' = CpWakeOpen
  BY <1>1 DEF Overdue, Past, CpWakeOpen, IsOpen
<1>3. reported' < PauseReport => ~GridStale /\ ~Cn28Stale /\ ~CpWakeOpen
  BY TickServes, GrantAssumption DEF PauseReport
<1>4. reported' < PauseReport => Overdue = 0 /\ ~CpWakeOpen
  BY <1>3, OverdueTyped
<1>5. (reported' < PauseReport) \in BOOLEAN
  OBVIOUS
<1> QED
  BY <1>1, <1>2, <1>4, <1>5 DEF Offer!Decide, PauseReport

\* A unit of time brings at most one unit of excess, and ends no cut but by itself.
LEMMA ElapseWaits == TypeOK /\ Elapse => Offer!Wait
<1> SUFFICES ASSUME TypeOK, Elapse PROVE Offer!Wait
  OBVIOUS
<1>1. sinceTick < TickLag /\ sinceTick' = sinceTick + 1 /\ reported' = reported
  BY DEF Elapse
<1>2. gridAge' \in {gridAge, gridAge + 1} /\ cn28Age' \in {cn28Age, cn28Age + 1}
  BY DEF Elapse, Older
<1>3. gridAge \in Nat /\ cn28Age \in Nat /\ gridAge' \in Nat /\ cn28Age' \in Nat
  BY <1>2 DEF TypeOK
<1>4. Overdue' \in {Overdue, Overdue + 1}
  <2> DEFINE grid == Past(gridAge, GridTimeout)
             cn28 == Past(cn28Age, Cn28Timeout)
  <2>1. grid \in Nat /\ grid' \in {grid, grid + 1}
    BY <1>2, <1>3, PastSteps, ControllerAssumption
  <2>2. cn28 \in Nat /\ cn28' \in {cn28, cn28 + 1}
    BY <1>2, <1>3, PastSteps, ControllerAssumption
  <2>3. /\ Overdue = IF grid < cn28 THEN cn28 ELSE grid
        /\ Overdue' = IF grid' < cn28' THEN cn28' ELSE grid'
    BY DEF Overdue
  <2> HIDE DEF grid, cn28
  <2> QED BY <2>1, <2>2, <2>3
<1>5. CpWakeOpen' \in {CpWakeOpen, FALSE}
  <2>1. CpWakeOpen' => CpWakeOpen
    <3>1. wake \in Pulse /\ wake' = AfterUnit(wake)
      BY DEF TypeOK, Elapse
    <3>2. IsOpen(wake') => IsOpen(wake)
      BY <3>1, GrantAssumption DEF AfterUnit, IsOpen, Pulse
    <3> QED BY <3>2 DEF CpWakeOpen
  <2>2. CpWakeOpen \in BOOLEAN /\ CpWakeOpen' \in BOOLEAN
    BY ElapseTyped DEF CpWakeOpen, IsOpen
  <2> QED BY <2>1, <2>2
<1> QED
  BY <1>1, <1>4, <1>5 DEF Offer!Wait

\* An input refreshes an age, asks for a cut, or changes nothing the box sees.
LEMMA InputsHeard ==
  TypeOK /\ Inputs => Offer!Hear \/ Offer!AskToCut \/ UNCHANGED Offer!promiseVars
<1> SUFFICES ASSUME TypeOK, Inputs
             PROVE  Offer!Hear \/ Offer!AskToCut \/ UNCHANGED Offer!promiseVars
  OBVIOUS
<1> USE DEF setpoint, feedVars, probeVars, pilotVars, wakeVars, tickVars
<1>1. UNCHANGED <<reported, sinceTick>>
  BY DEF Inputs, ApplyTarget, ApplyEnable, ApplyGridPower, ApplyProbeOver, Reject,
         ApplyCn28Feedback, ApplyWakeup, ApplyWakeupFalse
<1>2. CASE UNCHANGED wake
  <2>1. gridAge' \in {gridAge, 0} /\ cn28Age' \in {cn28Age, 0}
    BY DEF Inputs, ApplyTarget, ApplyEnable, ApplyGridPower, ApplyProbeOver, Reject,
           ApplyCn28Feedback, ApplyWakeup, ApplyWakeupFalse
  <2>2. Overdue' \in 0 .. Overdue
    <3> DEFINE grid == Past(gridAge, GridTimeout)
               cn28 == Past(cn28Age, Cn28Timeout)
    <3>1. grid \in Nat /\ grid' \in {grid, 0}
      BY <2>1, PastSteps, ControllerAssumption DEF TypeOK
    <3>2. cn28 \in Nat /\ cn28' \in {cn28, 0}
      BY <2>1, PastSteps, ControllerAssumption DEF TypeOK
    <3>3. /\ Overdue = IF grid < cn28 THEN cn28 ELSE grid
          /\ Overdue' = IF grid' < cn28' THEN cn28' ELSE grid'
      BY DEF Overdue
    <3> HIDE DEF grid, cn28
    <3> QED BY <3>1, <3>2, <3>3
  <2>3. CpWakeOpen' = CpWakeOpen
    BY <1>2 DEF CpWakeOpen
  <2> QED
    BY <1>1, <2>2, <2>3 DEF Offer!Hear
<1>3. CASE wake' # wake
  <2>1. PICK length \in Pulses : ApplyWakeup(length)
    BY <1>3 DEF Inputs, ApplyTarget, ApplyEnable, ApplyGridPower, ApplyProbeOver,
                Reject, ApplyCn28Feedback, ApplyWakeupFalse
  <2>2. HasRelay /\ wake' = Request(wake, length) /\ UNCHANGED <<gridAge, cn28Age>>
    BY <1>3, <2>1 DEF ApplyWakeup
  <2>3. wake'.left = length
    BY <1>3, <2>2 DEF Request
  <2>4. length \in Nat \ {0} /\ length # None
    BY ControllerAssumption, GrantAssumption
  <2>5. CpWakeOpen' = TRUE
    BY <2>2, <2>3, <2>4 DEF CpWakeOpen, IsOpen
  <2>6. Overdue' = Overdue
    BY <2>2 DEF Overdue, Past
  <2> QED
    BY <1>1, <2>5, <2>6 DEF Offer!AskToCut
<1> QED BY <1>2, <1>3

\* The controller implements SafeOffer: every boot, input, tick and unit of time is
\* one of its steps or none.
THEOREM PromiseKept == Spec => KeepsPromise
<1>1. Init => Offer!Init
  <2> SUFFICES ASSUME Init PROVE Offer!Init
    OBVIOUS
  <2>1. Overdue = 0
    BY ControllerAssumption DEF Init, Overdue, Past
  <2>2. CpWakeOpen = FALSE
    BY DEF Init, CpWakeOpen, IsOpen, NoPulse
  <2> QED
    BY <2>1, <2>2, GrantAssumption DEF Init, Offer!Init, PauseReport
<1>2. TypeOK /\ [Next]_vars => [Offer!Next]_Offer!promiseVars
  <2> SUFFICES ASSUME TypeOK, [Next]_vars PROVE [Offer!Next]_Offer!promiseVars
    OBVIOUS
  <2>1. CASE Inputs
    BY <2>1, InputsHeard DEF Offer!Next
  <2>2. CASE Tick
    BY <2>2, TickDecides DEF Offer!Next
  <2>3. CASE Elapse
    BY <2>3, ElapseWaits DEF Offer!Next
  <2>4. CASE Reboot
    <3>1. Overdue' = 0
      BY <2>4, ControllerAssumption DEF Reboot, Overdue, Past
    <3>2. CpWakeOpen' = FALSE
      BY <2>4 DEF Reboot, CpWakeOpen, IsOpen, NoPulse
    <3>3. (reported' < PauseReport) = FALSE
      BY <2>4, GrantAssumption DEF Reboot, PauseReport
    <3> QED
      BY <2>4, <3>1, <3>2, <3>3 DEF Reboot, Offer!Next, Offer!Restart, PauseReport
  <2>5. CASE UNCHANGED vars
    BY <2>5 DEF vars, feedVars, wakeVars, tickVars, Offer!promiseVars, Overdue, Past,
                CpWakeOpen, IsOpen, PauseReport
  <2> QED
    BY <2>1, <2>2, <2>3, <2>4, <2>5 DEF Next
<1>3. SafetyInv => TypeOK
  BY DEF SafetyInv
<1> QED
  BY <1>1, <1>2, <1>3, SafetyHolds, PTL DEF Spec, KeepsPromise, Offer!Spec

-----------------------------------------------------------------------------
(***************************************************************************)
(* The pilot probe over a whole boot.  PilotOfferBounded says of each      *)
(* moment on offer that the window began less than PilotWindow ago; for a  *)
(* bound on all of them the time spent must not outrun the window's age,   *)
(* which only holds because the window is started once.                    *)
(***************************************************************************)
\* No more was offered than the one window has lasted so far, and nothing before it.
OfferWithinWindow ==
  /\ offerTime \in Nat
  /\ pilotAge = None => offerTime = 0
  /\ pilotAge # None => offerTime <= pilotAge

OfferInv == SafetyInv /\ OfferWithinWindow /\ OneWindowPerBoot

LEMMA OfferInit == HInit => OfferInv
<1> SUFFICES ASSUME HInit PROVE OfferInv
  OBVIOUS
<1>1. SafetyInv
  BY InitSafe DEF HInit
<1>2. offerTime = 0 /\ pilotAge = None
  BY DEF HInit, Init
<1> QED
  BY <1>1, <1>2, ControllerAssumption DEF OfferInv, OfferWithinWindow, OneWindowPerBoot

\* Inputs neither start nor end the window and take no time.
LEMMA OfferInputs == OfferInv /\ HInputs => OfferWithinWindow' /\ OneWindowPerBoot'
<1> SUFFICES ASSUME OfferInv, HInputs PROVE OfferWithinWindow' /\ OneWindowPerBoot'
  OBVIOUS
<1>1. UNCHANGED <<pilotAge, offerTime>>
  BY DEF HInputs, Inputs, ApplyTarget, ApplyEnable, ApplyGridPower, ApplyProbeOver,
         Reject, ApplyCn28Feedback, ApplyWakeup, ApplyWakeupFalse, pilotVars
<1> QED
  BY <1>1 DEF OfferInv, OfferWithinWindow, OneWindowPerBoot

\* A tick starts the window only if it never ran, when nothing is spent yet.
LEMMA OfferTick == OfferInv /\ HTick => OfferWithinWindow' /\ OneWindowPerBoot'
<1> SUFFICES ASSUME OfferInv, HTick PROVE OfferWithinWindow' /\ OneWindowPerBoot'
  OBVIOUS
<1>1. offerTime' = offerTime /\ pilotAge' = IF PilotStarts THEN 0 ELSE pilotAge
  BY DEF HTick, Tick
<1>2. PilotStarts => pilotAge = None
  BY DEF PilotStarts
<1> QED
  BY <1>1, <1>2, GrantAssumption DEF OfferInv, OfferWithinWindow, OneWindowPerBoot

\* A unit on offer is a unit of the window, whose age has not saturated yet.
LEMMA OfferElapse == OfferInv /\ HElapse => OfferWithinWindow' /\ OneWindowPerBoot'
<1> SUFFICES ASSUME OfferInv, HElapse PROVE OfferWithinWindow' /\ OneWindowPerBoot'
  OBVIOUS
<1>1. /\ PilotWindow \in Nat /\ TickLag \in Nat /\ sinceTick \in Nat
      /\ sinceTick < TickLag
      /\ pilotAge' = Older(pilotAge, PilotWindow + TickLag)
      /\ pilotAge \in Nat \cup {None} /\ offerTime \in Nat
  BY ControllerAssumption
     DEF OfferInv, SafetyInv, TypeOK, OfferWithinWindow, HElapse, Elapse
<1>2. CASE status.reason = "PilotProbe"
  <2>1. pilotAge # None /\ pilotAge < PilotWindow + sinceTick
    BY <1>2 DEF OfferInv, SafetyInv, PilotOfferBounded
  <2>2. pilotAge \in Nat /\ pilotAge' = pilotAge + 1
    BY <1>1, <2>1 DEF Older
  <2>3. offerTime' = offerTime + 1 /\ offerTime <= pilotAge
    BY <1>2, <2>1 DEF HElapse, OfferInv, OfferWithinWindow
  <2>4. pilotAge' # None
    BY <2>2, GrantAssumption
  <2> QED
    BY <1>1, <2>1, <2>2, <2>3, <2>4 DEF OfferWithinWindow, OneWindowPerBoot
<1>3. CASE status.reason # "PilotProbe"
  <2>1. offerTime' = offerTime
    BY <1>3 DEF HElapse
  <2>2. pilotAge' = None <=> pilotAge = None
    BY <1>1, GrantAssumption DEF Older
  <2>3. ASSUME pilotAge # None
        PROVE  pilotAge \in Nat /\ pilotAge' \in Nat /\ pilotAge' >= pilotAge
    BY <1>1, <2>3 DEF Older
  <2>4. OfferWithinWindow'
    BY <1>1, <2>1, <2>2, <2>3 DEF OfferInv, OfferWithinWindow
  <2> QED
    BY <2>1, <2>4 DEF OfferInv, OneWindowPerBoot
<1> QED
  BY <1>2, <1>3

\* A boot forgets the window and the time spent in it together.
LEMMA OfferReboot == HReboot => OfferWithinWindow' /\ OneWindowPerBoot'
<1> SUFFICES ASSUME HReboot PROVE OfferWithinWindow' /\ OneWindowPerBoot'
  OBVIOUS
<1>1. offerTime' = 0 /\ pilotAge' = None
  BY DEF HReboot, Reboot
<1> QED
  BY <1>1, ControllerAssumption DEF OfferWithinWindow, OneWindowPerBoot

\* OneWindowPerBoot: all the time one boot keeps the offer open uncommanded (#161),
\* added up over every interruption, is shorter than one window plus the tick lag.
THEOREM OneWindow == HSpec => []OneWindowPerBoot
<1>1. HInit => OfferInv
  BY OfferInit
<1>2. OfferInv /\ [HNext]_<<vars, offerTime>> => OfferInv'
  <2> SUFFICES ASSUME OfferInv, [HNext]_<<vars, offerTime>> PROVE OfferInv'
    OBVIOUS
  <2>1. SafetyInv'
    <3>1. [Next]_vars
      BY DEF HNext, HInputs, HTick, HElapse, HReboot, Next
    <3> QED
      BY <3>1, SafetyInductive DEF OfferInv
  <2>2. OfferWithinWindow' /\ OneWindowPerBoot'
    <3>1. CASE UNCHANGED <<vars, offerTime>>
      BY <3>1 DEF vars, pilotVars, OfferInv, OfferWithinWindow, OneWindowPerBoot
    <3> QED
      BY <3>1, OfferInputs, OfferTick, OfferElapse, OfferReboot DEF HNext
  <2> QED
    BY <2>1, <2>2 DEF OfferInv
<1>3. OfferInv => OneWindowPerBoot
  BY DEF OfferInv
<1> QED
  BY <1>1, <1>2, <1>3, PTL DEF HSpec
=============================================================================
