----------------------------- MODULE Controller -----------------------------
(***************************************************************************)
(* The worker-local Controller of firmware/src/charge.rs and the handoff   *)
(* to the RS485 slave: MQTT commands and CN28 feedback arrive, time        *)
(* passes, a control tick turns the state into the current the slave       *)
(* answers the box with, and the chip may reboot at any point.             *)
(*                                                                         *)
(* Time is counted in units; an Instant is kept as its age, which stops    *)
(* growing once it is past every comparison the code makes.                *)
(***************************************************************************)
EXTENDS CpWake

CONSTANTS
  HasRelay,       \* a cp-wake build
  GridTimeout,    \* heartbeat age that still counts as alive
  Cn28Timeout,    \* feedback age that still counts as fresh
  ProbeTimeout,   \* life of a measurement probe
  PilotDelay,     \* uptime before the pilot probe may start
  PilotWindow,    \* how long the pilot probe holds the offer open
  TickLag         \* longest time the worker goes without a control tick

CONSTANTS         \* the inputs offered to the model
  Targets,        \* commanded currents, unclamped
  Feedbacks,      \* records [lb, car, cp] read off the CN28 log
  Lifts,          \* measurement-probe lifts, in range or not
  Pulses,         \* wakeup pulse lengths, the default one among them
  BadTopics,      \* topics that receive malformed payloads
  NvsFaults,      \* whether flash may fail to open or to take a write
  RelayFaults     \* whether a relay write may fail

Topics == {"target", "grid_power", "enable", "probe_over", "wakeup"}

Feedback == [lb: Nat, car: Nat, cp: CpStates \cup {None}]

Flash == [open: BOOLEAN, target: Int \cup {None}, enable: BOOLEAN \cup {None}]

Verdict == [reason: Reasons \cup {None}, letter: Letters,
            lastError: Topics \cup {None}]

NoVerdict == [reason |-> None, letter |-> "", lastError |-> None]

ASSUME ControllerAssumption ==
  /\ {GridTimeout, Cn28Timeout, ProbeTimeout, PilotDelay, PilotWindow, TickLag}
       \subseteq Nat \ {0}
  /\ TickLag <= SettleTime
  /\ {HasRelay, NvsFaults, RelayFaults} \subseteq BOOLEAN
  /\ Targets \subseteq Int /\ Lifts \subseteq Int /\ Pulses \subseteq Nat \ {0}
  /\ Feedbacks \subseteq Feedback
  /\ BadTopics \subseteq Topics
  /\ None \notin CpStates \cup Topics \cup Reasons
  /\ None \notin BOOLEAN

VARIABLES
  target, enabled,          \* the latched setpoint
  lastError,                \* topic of the most recent rejected input
  gridAge,                  \* age of the grid heartbeat
  lb, car, cp, cn28Age,     \* the feedback and its age
  probeOver, probeAge,      \* the measurement probe
  pilotAge, pilotProbed,    \* the one-shot pilot probe: age since start, spent
  uptime,
  wake, relayOpen,          \* the wakeup pulse and the relay it drives
  nvs,                      \* flash: [open, target, enable]
  reported,                 \* Handoff: what the slave serves
  status,                   \* last tick's verdict: [reason, letter, lastError]
  sinceTick                 \* time since the last control tick

setpoint  == <<target, enabled>>
feedVars  == <<lb, car, cp, cn28Age>>
probeVars == <<probeOver, probeAge>>
pilotVars == <<pilotAge, pilotProbed>>
wakeVars  == <<wake, relayOpen>>
tickVars  == <<reported, status, sinceTick>>

vars == <<setpoint, lastError, gridAge, feedVars, probeVars, pilotVars, uptime,
          wakeVars, nvs, tickVars>>

-----------------------------------------------------------------------------
\* One unit older; the age stops at `cap`.
Older(age, cap) == IF age = None \/ age >= cap THEN age ELSE age + 1

Outcomes(faulty) == IF faulty THEN BOOLEAN ELSE {TRUE}

\* What an opened flash restores; a boot without flash starts from the defaults.
RestoredTarget(flash) == IF flash.open THEN flash.target ELSE None
RestoredEnable(flash) ==
  IF flash.open /\ flash.enable # None THEN flash.enable ELSE TRUE

\* Both freshness clocks start just fed, so boot has one grace window.
Init ==
  /\ \E open \in Outcomes(NvsFaults) :
       nvs = [open |-> open, target |-> None, enable |-> None]
  /\ target = None /\ enabled = TRUE /\ lastError = None
  /\ gridAge = 0
  /\ lb = 0 /\ car = 0 /\ cp = None /\ cn28Age = 0
  /\ probeOver = 0 /\ probeAge = None
  /\ pilotAge = None /\ pilotProbed = FALSE
  /\ uptime = 0
  /\ wake = NoPulse /\ relayOpen = FALSE
  /\ reported = PauseReport
  /\ status = NoVerdict
  /\ sinceTick = 0

\* Everything but flash is lost; the handoff starts paused again.
Reboot ==
  /\ \E open \in Outcomes(NvsFaults) : nvs' = [nvs EXCEPT !.open = open]
  /\ target' = RestoredTarget(nvs') /\ enabled' = RestoredEnable(nvs')
  /\ lastError' = None
  /\ gridAge' = 0
  /\ lb' = 0 /\ car' = 0 /\ cp' = None /\ cn28Age' = 0
  /\ probeOver' = 0 /\ probeAge' = None
  /\ pilotAge' = None /\ pilotProbed' = FALSE
  /\ uptime' = 0
  /\ wake' = NoPulse /\ relayOpen' = FALSE
  /\ reported' = PauseReport
  /\ status' = NoVerdict
  /\ sinceTick' = 0

-----------------------------------------------------------------------------
(***************************************************************************)
(* Inputs.  An accepted one clears lastError, a rejected one sets it and   *)
(* leaves everything else as it was.                                       *)
(***************************************************************************)
\* Mutant: the key is written before the new value is taken over.
PersistOld(key, old, new) ==
  IF old = new \/ ~nvs.open THEN UNCHANGED nvs ELSE nvs' = [nvs EXCEPT ![key] = old]

\* Best-effort write of one key, on change only.
Persist(key, old, new) ==
  IF old = new \/ ~nvs.open THEN UNCHANGED nvs
  ELSE \E written \in Outcomes(NvsFaults) :
         nvs' = IF written THEN [nvs EXCEPT ![key] = new] ELSE nvs

ApplyTarget(v) ==
  /\ Persist("target", target, v)
  /\ target' = v
  /\ lastError' = None
  /\ UNCHANGED <<enabled, gridAge, feedVars, probeVars, pilotVars, uptime,
                 wakeVars, tickVars>>

ApplyEnable(b) ==
  /\ Persist("enable", enabled, b)
  /\ enabled' = b
  /\ lastError' = None
  /\ UNCHANGED <<target, gridAge, feedVars, probeVars, pilotVars, uptime,
                 wakeVars, tickVars>>

ApplyGridPower ==
  /\ gridAge' = 0
  /\ lastError' = None
  /\ UNCHANGED <<setpoint, feedVars, probeVars, pilotVars, uptime, wakeVars,
                 nvs, tickVars>>

\* Mutant: the range of a lift is not checked.
ApplyProbeOverUnchecked(v) ==
  /\ probeOver' = v
  /\ probeAge' = IF v > 0 THEN 0 ELSE None
  /\ lastError' = None
  /\ UNCHANGED <<setpoint, gridAge, feedVars, pilotVars, uptime, wakeVars, nvs,
                 tickVars>>

\* Only 0 .. ProbeMaxOver is armed, 0 clears, anything else is surfaced.
ApplyProbeOver(v) ==
  /\ IF 0 <= v /\ v <= ProbeMaxOver
       THEN /\ probeOver' = v
            /\ probeAge' = IF v > 0 THEN 0 ELSE None
            /\ lastError' = None
       ELSE UNCHANGED probeVars /\ lastError' = "probe_over"
  /\ UNCHANGED <<setpoint, gridAge, feedVars, pilotVars, uptime, wakeVars, nvs,
                 tickVars>>

Reject(topic) ==
  /\ lastError' = topic
  /\ UNCHANGED <<setpoint, gridAge, feedVars, probeVars, pilotVars, uptime,
                 wakeVars, nvs, tickVars>>

ApplyCn28Feedback(f) ==
  /\ lb' = f.lb /\ car' = f.car /\ cp' = f.cp
  /\ cn28Age' = 0
  /\ UNCHANGED <<setpoint, lastError, gridAge, probeVars, pilotVars, uptime,
                 wakeVars, nvs, tickVars>>

\* Mutant: the relay is driven open and never back.
DriveCpRelayOpenOnly(open) == relayOpen' = (relayOpen \/ (HasRelay /\ open))

\* The relay follows `open` unless its write fails; then it stays as it is.
DriveCpRelay(open) ==
  IF ~HasRelay \/ open = relayOpen THEN UNCHANGED relayOpen
  ELSE \E driven \in Outcomes(RelayFaults) :
         relayOpen' = IF driven THEN open ELSE relayOpen

\* evcc's wakeup; a repeat during a running pulse is ignored.
ApplyWakeup(length) ==
  /\ IF ~HasRelay
       THEN lastError' = "wakeup" /\ UNCHANGED wakeVars
       ELSE /\ lastError' = None
            /\ IsOpen(wake) \/ wake.attempts < MaxAttempts
            /\ wake' = Request(wake, length)
            /\ IF IsOpen(wake) THEN UNCHANGED relayOpen ELSE DriveCpRelay(TRUE)
  /\ UNCHANGED <<setpoint, gridAge, feedVars, probeVars, pilotVars, uptime,
                 nvs, tickVars>>

\* `{"wakeup": false}`: nothing to undo.
ApplyWakeupFalse ==
  /\ lastError' = None
  /\ UNCHANGED <<setpoint, gridAge, feedVars, probeVars, pilotVars, uptime,
                 wakeVars, nvs, tickVars>>

-----------------------------------------------------------------------------
(***************************************************************************)
(* The control tick.                                                       *)
(***************************************************************************)
GridStale == gridAge > GridTimeout

\* Mutant: a car last seen drawing excuses a silent feed.
Cn28StaleUnlessDrawing == cn28Age > Cn28Timeout /\ car < IdleCar

Cn28Stale == cn28Age > Cn28Timeout

\* The pilot probe: at most one window per boot, while the pilot is unknown.
PilotEligible == cp = None /\ ~pilotProbed

\* Mutants: every tick starts the window anew; the window is never left.
PilotStartsAnew == PilotEligible /\ uptime >= PilotDelay
PilotRunsOn     == PilotEligible /\ pilotAge # None

PilotStarts == PilotEligible /\ pilotAge = None /\ uptime >= PilotDelay
PilotRuns   == PilotEligible /\ pilotAge # None /\ pilotAge < PilotWindow
PilotCloses == PilotEligible /\ pilotAge # None /\ pilotAge >= PilotWindow
PilotProbeActive == PilotStarts \/ PilotRuns

\* Mutant: the pulse still counts as open in the unit it ends.
CpWakeOpenTooLong == HasRelay /\ wake.left # None /\ wake.left >= 0

CpWakeOpen == HasRelay /\ IsOpen(wake)

\* Mutant: the grant law is not told of the pulse.
GrantInputsWithoutPulse ==
  [target |-> target, lb |-> lb, car |-> car, lbStale |-> Cn28Stale,
   gridStale |-> GridStale, enabled |-> enabled,
   pilotProbe |-> PilotProbeActive, cpWake |-> FALSE]

GrantInputs ==
  [target |-> target, lb |-> lb, car |-> car, lbStale |-> Cn28Stale,
   gridStale |-> GridStale, enabled |-> enabled,
   pilotProbe |-> PilotProbeActive, cpWake |-> CpWakeOpen]

\* Mutant: the probe's age is looked at only while the feed is fresh.
ProbeExpiredWhileFresh == probeAge # None /\ probeAge > ProbeTimeout /\ ~Cn28Stale

ProbeExpired == probeAge # None /\ probeAge > ProbeTimeout

\* The pilot's letter under the unprobed report.
PilotLetter == ChargeState(Current(GrantInputs), cp, Cn28Stale, car)

Tick ==
  /\ pilotAge' = IF PilotStarts THEN 0 ELSE pilotAge
  /\ pilotProbed' = (pilotProbed \/ PilotCloses)
  /\ DriveCpRelay(CpWakeOpen)
  /\ probeOver' = IF ProbeExpired THEN 0 ELSE probeOver
  /\ probeAge'  = IF ProbeExpired THEN None ELSE probeAge
  /\ wake' = AfterShowing(wake, PilotLetter)
  /\ reported' = ProbeReport(Current(GrantInputs), probeOver')
  /\ status' = [reason    |-> Reason(GrantInputs),
                letter    |-> ShownLetter(wake, PilotLetter),
                lastError |-> lastError]
  /\ sinceTick' = 0
  /\ UNCHANGED <<setpoint, lastError, gridAge, feedVars, uptime, nvs>>

\* Time passes, but never more than TickLag between two control ticks.
Elapse ==
  /\ sinceTick < TickLag
  /\ sinceTick' = sinceTick + 1
  /\ gridAge'  = Older(gridAge, GridTimeout + TickLag + 1)
  /\ cn28Age'  = Older(cn28Age, Cn28Timeout + TickLag + 1)
  /\ probeAge' = Older(probeAge, ProbeTimeout + TickLag + 1)
  /\ pilotAge' = Older(pilotAge, PilotWindow + TickLag)
  /\ uptime'   = Older(uptime, PilotDelay)
  /\ wake'     = AfterUnit(wake)
  /\ UNCHANGED <<setpoint, lastError, lb, car, cp, probeOver, pilotProbed,
                 relayOpen, nvs, reported, status>>

-----------------------------------------------------------------------------
\* Everything that reaches the controller over MQTT or from the CN28 log.
Inputs ==
  \/ \E v \in Targets : ApplyTarget(v)
  \/ \E b \in BOOLEAN : ApplyEnable(b)
  \/ ApplyGridPower
  \/ \E v \in Lifts : ApplyProbeOver(v)
  \/ \E topic \in BadTopics : Reject(topic)
  \/ \E f \in Feedbacks : ApplyCn28Feedback(f)
  \/ \E length \in Pulses : ApplyWakeup(length)
  \/ ApplyWakeupFalse

Next == Inputs \/ Tick \/ Elapse \/ Reboot

Spec == Init /\ [][Next]_vars

\* Time goes on and the worker keeps ticking; a relay write that fails is
\* retried by the next tick, so a tick that drives the relay is taken in time.
RelayObeys == relayOpen' = CpWakeOpen \/ ~HasRelay
Fairness == WF_vars(Elapse) /\ WF_vars(Tick /\ RelayObeys)

FairSpec == Spec /\ Fairness

-----------------------------------------------------------------------------
(***************************************************************************)
(* Properties.                                                             *)
(***************************************************************************)

\* Types, and the saturation of the ages.
TypeOK ==
  /\ target \in Int \cup {None}
  /\ enabled \in BOOLEAN
  /\ lastError \in Topics \cup {None}
  /\ gridAge \in Nat /\ cn28Age \in Nat
  /\ lb \in Nat /\ car \in Nat /\ cp \in CpStates \cup {None}
  /\ probeOver \in 0 .. ProbeMaxOver /\ probeAge \in Nat \cup {None}
  /\ pilotAge \in Nat \cup {None} /\ pilotProbed \in BOOLEAN
  /\ uptime \in 0 .. PilotDelay
  /\ wake \in Pulse /\ relayOpen \in BOOLEAN
  /\ nvs \in Flash
  /\ reported \in Int
  /\ status \in Verdict
  /\ sinceTick \in 0 .. TickLag

\* The failsafe promise of charge.rs: the box is never offered anything on a
\* heartbeat or a feedback older than its timeout plus the worker's tick lag.
BlindOfferBounded ==
  reported < PauseReport =>
    /\ gridAge <= GridTimeout + sinceTick
    /\ cn28Age <= Cn28Timeout + sinceTick

\* The slave serves the cutting report exactly when a rule holds the box shut:
\* neither an over-report nor the measurement probe masks or fakes a pause.
PauseMeansHeld ==
  status.reason # None =>
    \/ status.reason \in HeldReasons /\ reported = PauseReport
    \/ status.reason \notin HeldReasons /\ reported <= Max + ProbeMaxOver

\* A measurement probe forgotten by its sender is over within its timeout plus
\* the tick lag, and is armed exactly while it has an arming time.
ProbeSelfExpires ==
  /\ probeOver > 0 <=> probeAge # None
  /\ probeAge # None => probeAge <= ProbeTimeout + sinceTick

\* The relay is never still open more than the tick lag after the pulse that
\* opened it: no order of requests, ticks and reboots leaves the car's pilot cut.
RelayBounded ==
  relayOpen /\ ~RelayFaults => wake.left # None /\ wake.left + sinceTick >= 1

\* The pilot probe offers current for one bounded window and is then spent.
PilotOfferBounded ==
  status.reason = "PilotProbe" =>
    /\ ~pilotProbed
    /\ pilotAge # None /\ pilotAge < PilotWindow + sinceTick

\* While flash works, a reboot at this point resumes exactly the setpoint in
\* force: persisting on change only never leaves an older value behind.
RebootResumes ==
  ~NvsFaults => RestoredTarget(nvs) = target /\ RestoredEnable(nvs) = enabled

\* A tick that leaves the pilot interrupted leaves nothing on offer, and one
\* that leaves current on offer leaves the pilot connected.
NoOfferAfterTickWithOpenPilot ==
  [][Tick /\ relayOpen' /\ ~RelayFaults => reported' = PauseReport]_vars

\* With the pilot in C, evcc reads C exactly while current is on offer: a shed
\* report or a measurement probe never looks like a stopped charge (B), and a
\* pause never looks like a running one.
ChargingLetterMatchesOffer ==
  [][Tick /\ cp = "Charging" =>
       (status'.letter = "C" <=> reported' < PauseReport)]_vars

\* The relay always closes again, even when writes to it fail now and then.
RelayCloses == relayOpen ~> ~relayOpen

\* A lasting disable stops the box once the boot's pilot probe is behind it.
DisableStops ==
  <>[](~enabled /\ uptime >= PilotDelay) => <>[](reported = PauseReport)

\* For how long the older of the two inputs has been past its timeout.
Past(age, timeout) == IF age > timeout THEN age - timeout ELSE 0
Overdue ==
  LET grid == Past(gridAge, GridTimeout)
      cn28 == Past(cn28Age, Cn28Timeout)
  IN IF grid < cn28 THEN cn28 ELSE grid

Offer == INSTANCE SafeOffer
  WITH offering <- reported < PauseReport, overdue <- Overdue, cut <- CpWakeOpen,
       waited <- sinceTick, Lag <- TickLag

\* charge.rs keeps the promise of SafeOffer: between any two decisions, and through
\* every input, probe, pulse and reboot, nothing puts current on offer.
KeepsPromise == Offer!Spec

-----------------------------------------------------------------------------
(***************************************************************************)
(* What the documentation says and the code does not do.                   *)
(***************************************************************************)

\* persist_target: "a write failure only means this reboot won't resume"; so a
\* reboot resumes the setpoint in force or none, never an older one.
OlderSetpointNeverResumes == [][Reboot => target' \in {target, None}]_vars
=============================================================================
