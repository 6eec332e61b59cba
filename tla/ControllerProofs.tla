-------------------------- MODULE ControllerProofs --------------------------
(***************************************************************************)
(* Theorems about Controller for every value of its constants.             *)
(***************************************************************************)
EXTENDS Controller, GrantLawProofs

-----------------------------------------------------------------------------
(***************************************************************************)
(* Type correctness.                                                       *)
(***************************************************************************)

\* What a tick hands to the grant law is a well-formed snapshot.
LEMMA GrantInputsTyped ==
  TypeOK => GrantInputs \in GrantControlInputs
<1>1. TypeOK => PilotProbeActive \in BOOLEAN
  BY DEF PilotProbeActive, PilotStarts, PilotRuns, PilotEligible
<1>2. TypeOK => CpWakeOpen \in BOOLEAN
  BY DEF CpWakeOpen, IsOpen
<1>3. TypeOK => GridStale \in BOOLEAN /\ Cn28Stale \in BOOLEAN
  BY DEF GridStale, Cn28Stale
<1> QED
  BY <1>1, <1>2, <1>3 DEF TypeOK, GrantInputs, GrantControlInputs

\* Both letters, the pilot's and the one shown, are letters evcc knows.
LEMMA LetterTyped ==
  ASSUME NEW report, NEW pilot, NEW stale, NEW draw, NEW pulse
  PROVE  /\ ChargeState(report, pilot, stale, draw) \in Letters
         /\ ShownLetter(pulse, ChargeState(report, pilot, stale, draw)) \in Letters
BY DEF ChargeState, ShownLetter, Letters

\* A pulse stays a pulse through requests, letters and time.
LEMMA PulseTyped ==
  ASSUME NEW pulse \in Pulse
  PROVE  /\ \A letter : AfterShowing(pulse, letter) \in Pulse
         /\ AfterUnit(pulse) \in Pulse
         /\ \A length \in Nat : Request(pulse, length) \in Pulse
<1>1. \A letter : AfterShowing(pulse, letter) \in Pulse
  BY DEF AfterShowing, Masks, IsOpen, Pulse
<1>2. AfterUnit(pulse) \in Pulse
  BY WakeAssumption, GrantAssumption DEF AfterUnit, Pulse
<1>3. \A length \in Nat : Request(pulse, length) \in Pulse
  BY DEF Request, IsOpen, Pulse
<1> QED BY <1>1, <1>2, <1>3

\* An age stays an age.
LEMMA OlderTyped ==
  ASSUME NEW cap \in Nat
  PROVE  /\ \A age \in Nat : Older(age, cap) \in Nat /\ Older(age, cap) <= age + 1
         /\ \A age \in Nat \cup {None} : Older(age, cap) \in Nat \cup {None}
BY GrantAssumption DEF Older

\* The values a boot starts from.
LEMMA BootValues ==
  /\ PauseReport \in Int
  /\ NoPulse \in Pulse
  /\ 0 \in 0 .. ProbeMaxOver /\ 0 \in 0 .. PilotDelay /\ 0 \in 0 .. TickLag
  /\ NoVerdict \in Verdict
<1>1. PauseReport \in Int
  BY GrantAssumption DEF PauseReport
<1>2. NoPulse \in Pulse
  BY DEF NoPulse, Pulse
<1>3. 0 \in 0 .. ProbeMaxOver /\ 0 \in 0 .. PilotDelay /\ 0 \in 0 .. TickLag
  BY GrantAssumption, ControllerAssumption
<1>4. NoVerdict \in Verdict
  BY DEF NoVerdict, Verdict, Letters
<1> QED
  BY <1>1, <1>2, <1>3, <1>4

\* A fallible call succeeds or fails.
LEMMA OutcomesBoolean == \A faulty : Outcomes(faulty) \subseteq BOOLEAN
BY DEF Outcomes

\* The state the program starts in is well typed.
LEMMA InitTyped == Init => TypeOK
<1> SUFFICES ASSUME Init PROVE TypeOK
  OBVIOUS
<1>1. nvs \in Flash
  <2>1. PICK open \in BOOLEAN : nvs = [open |-> open, target |-> None, enable |-> None]
    BY OutcomesBoolean DEF Init
  <2> QED BY <2>1 DEF Flash
<1>2. /\ reported \in Int /\ wake \in Pulse /\ status \in Verdict
      /\ probeOver \in 0 .. ProbeMaxOver /\ uptime \in 0 .. PilotDelay
      /\ sinceTick \in 0 .. TickLag
  BY BootValues DEF Init
<1> QED
  BY <1>1, <1>2 DEF Init, TypeOK

\* A reboot restores typed values from flash.
LEMMA RebootTyped == TypeOK /\ Reboot => TypeOK'
<1> SUFFICES ASSUME TypeOK, Reboot PROVE TypeOK'
  OBVIOUS
<1>1. nvs' \in Flash
  <2>1. PICK open \in BOOLEAN : nvs' = [nvs EXCEPT !.open = open]
    BY OutcomesBoolean DEF Reboot
  <2> QED BY <2>1 DEF TypeOK, Flash
<1>2. target' \in Int \cup {None} /\ enabled' \in BOOLEAN
  BY <1>1, ControllerAssumption DEF Reboot, Flash, RestoredTarget, RestoredEnable
<1>3. /\ reported' \in Int /\ wake' \in Pulse /\ status' \in Verdict
      /\ probeOver' \in 0 .. ProbeMaxOver /\ uptime' \in 0 .. PilotDelay
      /\ sinceTick' \in 0 .. TickLag
  BY BootValues DEF Reboot
<1> QED
  BY <1>1, <1>2, <1>3 DEF Reboot, TypeOK

\* Persisting writes one key at most.
LEMMA PersistTyped ==
  ASSUME nvs \in Flash, NEW key \in {"target", "enable"}, NEW old, NEW new,
         key = "target" => new \in Int, key = "enable" => new \in BOOLEAN,
         Persist(key, old, new)
  PROVE  nvs' \in Flash
<1>1. nvs' = nvs \/ nvs' = [nvs EXCEPT ![key] = new]
  BY DEF Persist
<1>2. CASE key = "target"
  BY <1>1, <1>2 DEF Flash
<1>3. CASE key = "enable"
  BY <1>1, <1>3 DEF Flash
<1> QED BY <1>2, <1>3

\* The relay stays Boolean, whatever becomes of its write.
LEMMA RelayTyped ==
  ASSUME relayOpen \in BOOLEAN, NEW open \in BOOLEAN, DriveCpRelay(open)
  PROVE  relayOpen' \in BOOLEAN
BY DEF DriveCpRelay

\* Every input keeps the types.
LEMMA InputsTyped == TypeOK /\ Inputs => TypeOK'
<1> SUFFICES ASSUME TypeOK, Inputs PROVE TypeOK'
  OBVIOUS
<1> USE DEF setpoint, feedVars, probeVars, pilotVars, wakeVars, tickVars
<1>1. ASSUME NEW v \in Targets, ApplyTarget(v) PROVE TypeOK'
  <2>1. v \in Int
    BY ControllerAssumption
  <2>2. nvs' \in Flash
    BY <1>1, <2>1, PersistTyped DEF TypeOK, ApplyTarget
  <2> QED BY <1>1, <2>1, <2>2 DEF TypeOK, ApplyTarget
<1>2. ASSUME NEW b \in BOOLEAN, ApplyEnable(b) PROVE TypeOK'
  <2>1. nvs' \in Flash
    BY <1>2, PersistTyped DEF TypeOK, ApplyEnable
  <2> QED BY <1>2, <2>1 DEF TypeOK, ApplyEnable
<1>3. ASSUME ApplyGridPower PROVE TypeOK'
  BY <1>3 DEF TypeOK, ApplyGridPower
<1>4. ASSUME NEW v \in Lifts, ApplyProbeOver(v) PROVE TypeOK'
  <2>1. v \in Int
    BY ControllerAssumption
  <2>2. probeOver' \in 0 .. ProbeMaxOver /\ probeAge' \in Nat \cup {None}
    BY <1>4, <2>1, GrantAssumption DEF TypeOK, ApplyProbeOver
  <2>3. lastError' \in Topics \cup {None}
    BY <1>4 DEF ApplyProbeOver, Topics
  <2> QED BY <1>4, <2>2, <2>3 DEF TypeOK, ApplyProbeOver
<1>5. ASSUME NEW topic \in BadTopics, Reject(topic) PROVE TypeOK'
  BY <1>5, ControllerAssumption DEF TypeOK, Reject
<1>6. ASSUME NEW f \in Feedbacks, ApplyCn28Feedback(f) PROVE TypeOK'
  <2>1. f \in Feedback
    BY ControllerAssumption
  <2> QED BY <1>6, <2>1 DEF TypeOK, ApplyCn28Feedback, Feedback
<1>7. ASSUME NEW length \in Pulses, ApplyWakeup(length) PROVE TypeOK'
  <2>1. length \in Nat
    BY ControllerAssumption
  <2>2. wake' \in Pulse
    BY <1>7, <2>1, PulseTyped DEF TypeOK, ApplyWakeup
  <2>3. relayOpen' \in BOOLEAN
    BY <1>7, RelayTyped DEF TypeOK, ApplyWakeup
  <2>4. lastError' \in Topics \cup {None}
    BY <1>7 DEF ApplyWakeup, Topics
  <2> QED BY <1>7, <2>2, <2>3, <2>4 DEF TypeOK, ApplyWakeup
<1>8. ASSUME ApplyWakeupFalse PROVE TypeOK'
  BY <1>8 DEF TypeOK, ApplyWakeupFalse
<1> QED
  BY <1>1, <1>2, <1>3, <1>4, <1>5, <1>6, <1>7, <1>8 DEF Inputs

\* A tick computes typed values only.
LEMMA TickTyped == TypeOK /\ Tick => TypeOK'
<1> SUFFICES ASSUME TypeOK, Tick PROVE TypeOK'
  OBVIOUS
<1>1. pilotAge' \in Nat \cup {None} /\ pilotProbed' \in BOOLEAN
  BY DEF TypeOK, Tick, PilotStarts, PilotCloses, PilotEligible
<1>2. probeOver' \in 0 .. ProbeMaxOver /\ probeAge' \in Nat \cup {None}
  BY BootValues DEF TypeOK, Tick
<1>3. relayOpen' \in BOOLEAN
  <2>1. CpWakeOpen \in BOOLEAN
    BY GrantInputsTyped DEF GrantInputs, GrantControlInputs
  <2> QED BY <2>1, RelayTyped DEF TypeOK, Tick
<1>4. wake' \in Pulse
  BY PulseTyped DEF TypeOK, Tick
<1>5. Reason(GrantInputs) \in Reasons /\ Current(GrantInputs) \in Int
  BY GrantInputsTyped, CurrentByReason
<1>6. reported' \in Int
  BY <1>2, <1>5, ProbeReportBound DEF Tick
<1>7. status' \in Verdict
  BY <1>5, LetterTyped DEF TypeOK, Tick, Verdict, PilotLetter
<1> QED
  BY <1>1, <1>2, <1>3, <1>4, <1>6, <1>7, BootValues
     DEF TypeOK, Tick, setpoint, feedVars

\* Time keeps the types, and the lag its bound.
LEMMA ElapseTyped == TypeOK /\ Elapse => TypeOK'
<1> SUFFICES ASSUME TypeOK, Elapse PROVE TypeOK'
  OBVIOUS
<1>1. gridAge' \in Nat /\ cn28Age' \in Nat
  <2>1. GridTimeout + TickLag + 1 \in Nat /\ Cn28Timeout + TickLag + 1 \in Nat
    BY ControllerAssumption
  <2> QED BY <2>1, OlderTyped, GrantAssumption DEF TypeOK, Elapse
<1>2. probeAge' \in Nat \cup {None} /\ pilotAge' \in Nat \cup {None}
  <2>1. ProbeTimeout + TickLag + 1 \in Nat /\ PilotWindow + TickLag \in Nat
    BY ControllerAssumption
  <2> QED BY <2>1, OlderTyped DEF TypeOK, Elapse
<1>3. uptime' \in 0 .. PilotDelay
  BY ControllerAssumption, GrantAssumption DEF TypeOK, Elapse, Older
<1>4. sinceTick' \in 0 .. TickLag
  BY ControllerAssumption DEF TypeOK, Elapse
<1>5. wake' \in Pulse
  BY PulseTyped DEF TypeOK, Elapse
<1> QED
  BY <1>1, <1>2, <1>3, <1>4, <1>5 DEF TypeOK, Elapse, setpoint

\* Every reachable state is well typed.
THEOREM TypeCorrect == Spec => []TypeOK
<1>1. TypeOK /\ [Next]_vars => TypeOK'
  <2> SUFFICES ASSUME TypeOK, [Next]_vars PROVE TypeOK'
    OBVIOUS
  <2>1. CASE Inputs
    BY <2>1, InputsTyped
  <2>2. CASE Tick
    BY <2>2, TickTyped
  <2>3. CASE Elapse
    BY <2>3, ElapseTyped
  <2>4. CASE Reboot
    BY <2>4, RebootTyped
  <2>5. CASE UNCHANGED vars
    BY <2>5 DEF TypeOK, vars, setpoint, feedVars, probeVars, pilotVars, wakeVars,
                tickVars
  <2> QED
    BY <2>1, <2>2, <2>3, <2>4, <2>5 DEF Next
<1> QED
  BY InitTyped, <1>1, PTL DEF Spec
=============================================================================
