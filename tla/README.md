# A TLA+ model of the EVC04 current controller

The firmware in this repository sits between evcc and a Vestel EVC04 wallbox. It
poses as the box's external meter on RS485 and regulates the charging current by
what it reports there: a report above the DIP-set ceiling makes the box shed or
cut, one below it invites the box to grant more. Two things come back: the grant
(`lb`) and the car's draw, read off the box's serial console (CN28). Commands come
over MQTT.

These modules model that control path, from the console lines to the current the
box is answered with and to what the box does with it, and the board under it: the
worker's loop, the meter slave, WiFi, OTA and the resets. TLC checks them on small
instances; every safety property they check but one, which is false on some box clocks,
and that the controller implements an abstract promise about its offers, are also proved
with TLAPS for every value of the constants.

## The system

| Part | Source | State it keeps | Operations | What makes it correct |
|---|---|---|---|---|
| Grant law | `core/src/charge/control.rs` | none | `grant_tracking_current`, `probe_report` | a pause is served exactly when a rule holds the box shut; an over-report never drops the box under its 6 A floor |
| Letter, wakeup mask | `core/.../status.rs`, `wake.rs` | the running pulse | `charge_state`, `CpWake::*` | evcc's letter and the offer agree; the mask hides the pulse's own A and no other |
| Controller | `firmware/src/charge.rs` | setpoint, heartbeat and feedback ages, probes, pulse, flash | `apply_*`, `tick`, boot | no offer on a dead feed; probes end by themselves; the relay closes; a reboot resumes |
| Handoff | `firmware/src/charge.rs` | two atomics | store per tick, load per poll | starts paused; the poll age is true across the wrap |
| Worker | `firmware/src/probe.rs`, `main.rs` | channel, deadlines, telemetry snapshot, reassembler | one loop turn per message or timeout | the tick keeps running, online or not; the watchdog spares it |
| CN28 decoder | `core/src/probe/cn28.rs` | the snapshot | `apply_line` per line | no invented phase, no grant latched after a session, faults stand |
| RS485 slave | `firmware/src/rs485.rs`, `core/.../frame.rs` | a frame | answer one poll | its own poll is answered, once, and nothing else |
| Intake | `core/.../intake.rs` | none | parse a payload | accept or reject |
| WiFi | `firmware/src/wifi.rs` | tally, network flag | join, two event watchers | a restart only in a lasting outage; no loss unhandled |
| OTA | `firmware/src/device.rs` | app slots, retained trigger | `run_ota`, `confirm_running_slot` | a proven image is always left; one command flashes once |
| Log level | `firmware/src/logging.rs` | level and its deadline | `set_level`, `tick_level_expiry` | debug ends, on time, on a wrapping clock |
| MQTT client | `firmware/src/mqtt.rs` | client, pump | subscribe, publish, route | — |
| Box, car | `core/src/charge/boxsim.rs`, `core/tests/replay.rs` | grant, clocks; draw | the fitted models the replay tests use | — |

The worker thread owns the controller. MQTT callbacks put messages into its
channel; between messages, at a 1 s deadline, it runs a control tick and stores
the result in the handoff, which the RS485 thread loads whenever the box polls.
Every 2 s it opens a probe window on the UART and feeds what decoded. The hard
parts: feedback that is seconds old and of two different ages; a tick that comes
late; a chip that reboots in a session; a broker session that ends in the middle of
a line; a console on which a second stream overwrites the lines; a relay write that
fails; and a box that runs two clocks of its own, out of phase with everything.

## Modules

| Module | Models |
|---|---|
| `GrantLaw` | the V4 law as pure operators, currents in tenths of an ampere, so that the half ampere of `shed_room` and the 3.5 A probe cap are exact; `as i32` is `Truncate` |
| `CpWake` | `charge_state` and `CpWake` (pulse, repeat, mask, settle) |
| `Controller` | the worker-local `Controller` with handoff and flash: one action per `apply_*`, `Tick`, `Elapse`, `Reboot` |
| `SafeOffer` | abstract: an offer is made by a decision and outlives its inputs by no more than the lag; `Controller` implements it |
| `PilotHistory` | `Controller` with the time its pilot probe has spent offering, per boot |
| `WakePulse` | a wakeup end to end: command, relay, late pilot prints, mask, letter |
| `Box` | `BoxSim`: both clocks, `down_eval`, `up_eval`, `cut` |
| `ClosedLoop` | grant law, box and replay car closed into a loop over lagging prints |
| `Cn28Feed` | box prints, damage, probe windows, `Cn28Snapshot`, the feed, broker sessions |
| `WorkerLoop` | the worker's thread: loop turns, sessions, windows, OTA and app slots, watchdog, resets |
| `WifiLink` | the station: join, watchers, tally, restart |
| `LogLevel` | the level and its deadline on a clock that wraps |
| `MeterSlave` | frames by silence, the one poll that is answered, its stamp |
| `Board` | `main`: the threads of the three above under one clock, with a restart that takes all along |
| `MCController`, `MCPilot`, `MCLoop` | instances for TLC |
| `GrantLawProofs`, `ControllerProofs`, `ControllerSafety` | lemmas about the law, type correctness, safety of `Controller` and `PilotHistory`: theorems and proofs |
| `LoopProofs` | theorems of `Box` and `ClosedLoop` |
| `FeedProofs`, `WakeProofs`, `WorkerProofs`, `BoardProofs` | the inductive invariants of `Cn28Feed`, `WakePulse`, `WorkerLoop`, `Board` and their safety theorems |

`CpWake` extends `GrantLaw`, `Controller` and `WakePulse` extend `CpWake`, `Box`
extends `GrantLaw`, `ClosedLoop` extends `Box`; `MeterSlave` extends `LogLevel` for
the clock and `Board` puts it beside `WifiLink`; `Cn28Feed` and `WorkerLoop` stand
alone. So the law that the controller is proved about is the very one that the loop
is run with. Operators called mutants are plausible wrong versions of the definition
they precede; no specification uses them.

### How the controller corresponds to the code

An `Instant` becomes an age in time units which saturates past every comparison the
code makes, `Option` becomes a value or `None`, a message the action of its handler.
`Tick` is the whole of `Controller::tick` with the side effects of
`pilot_probe_active` and `drive_cp_relay`: it reads the ages, opens or closes the
pilot window, drives the relay, expires the measurement probe, and then decides,
serves and publishes. `status` keeps the three fields of the status document that
properties speak of. `nvs` is flash: `open` tells whether this boot could open it,
and with `NvsFaults` any write may fail. `DriveCpRelay` may fail under
`RelayFaults`. `Reject` is the `Err` arm that the handlers share.

Flash and the wakeup counter aside, everything is lost in `Reboot`, which is possible
in every state: a restart by the watchdog, an OTA or a panic.

`SafeOffer` is instantiated in `Controller` with `offering` as the served current
under the ceiling, `overdue` as the time the older of heartbeat and feedback is past
its timeout, `cut` as a pulse that is running. Whatever the law computes, a decision
may only offer over live inputs and a closed pilot; the box is left with a stale
offer for the lag at most, and with none after a restart.

### How the wakeup corresponds to the code

`WakePulse` has the operators of `CpWake` and the tick's relay and letter, over a car
that is plugged in, charges and leaves, and a box that prints pilot transitions which
take up to `PrintLag` and may be destroyed. `ApplyWakeup` and `RepeatWakeup` are the two
ways through `request`, `Tick` drives the relay before it asks for the letter, `Reboot`
loses the pulse and its mask. Refused relay writes are `Controller`'s.

The controller outlives the broker session (`probe.rs:104`), the snapshot does not
(`probe.rs:145`). So `SessionEnds` takes `heard` and the lines the session had read, and
leaves `cp` and `fedAge` to the controller, whose ticks go on showing that pilot, offline
and on `Connected`, until the next session feeds one or `Cn28Timeout` has passed.
`FeedPilot` is a window with a pilot line, `FeedMetering` one without, of which the first
in a session feeds no pilot at all, `ReadLost` one whose pilot line was destroyed. While
no session hears the box its prints wait, for as long as the outage takes. `missed` and
`knownAge` are history: whether the line after the pilot last fed was destroyed, and for
how long this session has known the pilot.

### How the worker corresponds to the code

`pc` is where the thread is: connecting, in `recv_timeout`, in a probe window, in a
download, in the sleep of `offline_tick`. One action is one turn of `worker_loop`
with everything it does before the next `recv`; only `pc` values other than `wait`
take time. `?` on a publish is a choice of `PublishResults`: with the broker away the
client stores the message or refuses it, and a refusal ends the session wherever the
code says `?`. A session's end drops client, pump and channel together. `HandleConnected`
subscribes, which brings a retained trigger back, ticks, and confirms the running image.

App slots are the bootloader's, modelled from how the code uses esp-idf: a new image
boots once and is aborted by the next reset unless it was confirmed, a slot that is not
whole is never booted, and an unconfirmed image may not begin an update. A `bad` image
runs and never reaches its broker.

### How the board corresponds to the code

`Board` starts as `main` does: the join, the worker, then the slave. On the RS485 line
a request is a sequence of pieces; the box sends one request a unit, noise may precede
or cut it, `Read` takes any part of what arrived, and a frame ends where the read times
out or fails, which may be in the middle. `parse_request` accepts exactly one whole
request. WiFi events are a queue between driver and watchers. The tick's clock read and
its load of the poll stamp are two steps (`TickReads`, `TickLoads`), because the slave
may stamp in between. `Wrap` is the range of the millisecond clock.

### How the loop corresponds to the replay tests

One unit is one second, `run_with` with `dt = 1`. A `Unit` reads what the box
printed in this second, decides, and steps box and car. The box prints its grant
every `LbPeriod` units, `LbLag` units behind, and the draw every `CarPeriod`, each
from an arbitrary phase. The replay tests run twelve phases and a script of targets;
here every phase and every moment of a target change is a behaviour. `Restart` is a
second in which the controller boots: it serves the handoff's pause, and has lost
its feedback and kept its setpoint.

### How the feed corresponds to the code

A line is a record; scanning bytes is abstracted to what it can lose. A metering line
can lose its label (it then decodes as unlabelled) or be destroyed, one line per
burst. Every other line can be destroyed (`EmitSpliced`): the scan of `cn28.rs:164` brings
a pilot line back only where its letter, ` Auth:` and `Cmax:` are left. Transitions are
printed once, so what a destroyed line was to correct stays shown; `missed`, a history
variable, names what that is (`Standing`, `News`) until a later line corrects it. A window is a `RecordLine` for each line it made whole and a `WindowEnds` that
feeds the controller if one of them decoded (`updated`). The lines of a window are
recorded with nothing in between: once one has decoded, the box prints and the session
ends only after the window. A broker session that ends drops what its last window read, may
drop the beginning of a line, and starts over with an empty snapshot. A reading
carries the phase it was metered on, a ghost no decoder looks at, which lets
`PhasesAreTrue` ask whether a slot holds its own phase.

## Runs

| Run | States | Checks |
|---|---|---|
| `ControllerRegulation` | 300 k | `BlindOfferBounded`, `RebootResumes`, `PauseMeansHeld`, `ProbeSelfExpires`, `ChargingLetterMatchesOffer` |
| `ControllerWake` | 770 k | `RelayBounded`, `PilotOfferBounded`, `OneWindowPerBoot`, `NoOfferAfterTickWithOpenPilot` |
| `ControllerLiveness` | 38 k | `TypeOK`, `KeepsPromise` (refinement), `RelayCloses`, `DisableStops` (fairness) |
| `WakeHides` | 1.1 M | `NoPhantomUnplug`, `NeverStretched`, `UnplugReachesEvcc` (fairness) |
| `LoopRegulates` | 2.7 M | `TypeOK` with the grant under the ceiling, `OnlyAPauseCuts` |
| `LoopSettles` | 350 k | `Reopens`, `PauseStopsCar`, `Settles` (fairness) |
| `FeedDecodes` | 1.2 M | `FeedTypeOK`, `PhasesAreTrue`, `EndedGrantIsZero`, `ShownFaultStands`, `PilotTrueOrUnknown` |
| `WorkerTicks` | 340 k | `WorkerTypeOK`, `TickLagBounded`, `WatchdogSparesSessions`, `RevertsToProven`, `NoFlashLoop`, `TickRecurs` (fairness) |
| `BoardHolds` | 1.4 M | `RestartMeansOutage`, `LossIsPending`, `NetworkFlagTrue`, `DebugSelfExpires`, `DebugLasts`, `AnswersOwnPoll`, `CleanPollAnswered`, `PollAgeTrue` |

What they show:

- **Failsafe.** Nothing is offered on a heartbeat or a feedback older than its
  timeout plus the time since the last tick, in whatever order inputs stop.
- **Pauses.** The cutting report is served exactly under a rule that holds the box
  shut. The measurement probe neither masks nor fakes one, and it ends by itself.
- **Reboots.** With working flash the setpoint in force is resumed at any moment.
- **What evcc sees.** With the pilot in C the letter is C exactly while current is
  on offer, so shedding never looks like a car that stopped.
- **Wakeups.** The relay closes no more than the tick lag after its pulse, nothing is
  offered over an open pilot, and with failing writes it still closes in the end.
- **Regulation.** On the measured 5 s clock no moment of a target change and no reboot
  makes the box cut, except under a pause; a setpoint that lasts is reached.
- **The mask.** With pulses longer than the way of a print, evcc reads A only of a car
  that is away or was until just now, once a session has known the pilot for as long as a
  print and a tick take; while none does, over an outage, a reboot or a destroyed pilot
  line, it may read the pulse's own A (`UnplugOnlyOfTheCar`, below). Repeats never stretch
  a pulse; the mask gives way to a car that stays away.
- **The tick.** Messages, failing sessions and outages cost a tick nothing; each probe
  command costs it one window, each OTA at most the watchdog. It always comes again.
- **Images.** No series of OTAs, stalls, resets and outages leaves the board without a
  proven image, and when triggers and outages have stopped, so have the downloads.
- **The board.** It restarts itself only in an outage that lasts, watches every loss it
  was told of, answers its own whole polls and no others; debug lasts its time and ends,
  and the poll age is true, wherever the clock wraps.
- **Telemetry.** Lost labels, absent meters and ended sessions mislabel no phase. Grant,
  fault and pilot shown are the box's own once all is read, except where the very line
  that was to correct them was destroyed: then the old one stays, in a session that lasts
  until the next such line, which may be hours. A lost session leaves none behind.

### Bounds

The controller's currents are the real install's; its timeouts are one or two units,
with their order against each other and against `TickLag` kept. Each comparison is
still met from below, at equality and from above, because an age runs on to
`TickLag + 1` units past its limit before it saturates. `MaxAttempts` bounds the pulses
of one boot: two suffice for a repeat during and after a pulse. Inputs come from
small sets: targets below, at and above the charging minimum, an idle box, a
charging one, one near its floor, one whose car is gone; a lift of zero, at the cap
and above it.

`LoopRegulates` runs in real seconds with the fitted periods. Its targets are the
floor, the half and the ceiling; its cars the two kinds of the replay tests, one that
draws its grant and one 1.1 A short. `LoopSettles` has shorter clocks with their order
kept (an up clock of 20, a print lag of 2, a faster car), because liveness needs the
whole graph; its closed box goes on printing a grant of 3 A, the residual grant of
2026-11-06. The feed has one fault code, a grant, a draw, and `MaxWire` lines on the
wire: one burst, which windows cut anywhere. Two codes pass as well, over 5 M states, and
the theorems are of any number of them.

`WakeHides` keeps the order of the code's times: a print takes less than a pulse,
tick and print together less than `SettleTime`. Two pulses of two lengths suffice for
repeats during and after one; two prints on their way let a car move under a pulse.
`Cn28Timeout` is longer than `SettleTime`, as 15 s is than 10 s, so that a pilot kept over
an outage may outlive the mask.
`WorkerTicks` has a watchdog of 4 units over a tick of 1 and a window of 2, so that one
more unfed block would reach it; `MaxRx` and `MaxBurst` bound the queue and the messages
that arrive in one unit, `MaxDrops` and `MaxTriggers` the broker's failures and the OTAs.
Two OTAs suffice to go through both slots. `BoardHolds` has a clock of 8 values with a
`DebugTtl` of 2, so that every deadline and every stamp meets the wrap within a few units,
one tolerated lost-link event and two joins.

### Fairness

`WF(Elapse)`: time passes. `WF(Tick /\ RelayObeys)`: the worker's loop runs a tick
at its deadline, and a GPIO that refuses a write now and then does not refuse every
one; `RelayCloses` rests on that, and on nothing else. `WF(Unit)`: time in the loop.
`WakePulse`: time passes, the worker ticks, and a session that hears the box
goes on reading; no session is assumed to come or to last. `WorkerLoop`: every step of
the thread that the scheduler alone decides, time, and the watchdog; a download need
never end, so `TickRecurs` gets past a stalled one by the watchdog's reset. Inputs,
connections and resets are never assumed fair: evcc may fall silent for good.

### Assumptions the code does not enforce

`TickLag` is the longest time between two ticks in `Controller`, `WakePulse` and `Board`.
`WorkerLoop` says what it is: `Lag`, a tick, a window for every probe command handled in
between and one more, and the watchdog for every OTA. Two things in it are assumptions.
`MaxCommands` bounds the probe commands between two ticks; the code takes them as they
come, and a sender faster than the windows starves the tick, with the watchdog fed on
every turn. `ProbeTime` bounds a window; it ends with silence on the console, which the
code does not enforce either. With an OTA under way the lag is the length of the
watchdog, so the timeouts of the failsafe are overrun by up to a minute.

`WorkerLoop` takes no time for a publish or a subscription: esp-mqtt queues them, and what
its outbox lock may cost is neither bounded by the code nor modelled. `TickLagBounded` and
`WatchdogSparesSessions` hold up to that.

`NoPhantomUnplug` takes pulses longer than `PrintLag`; a command may ask for shorter ones
(below). `PrintLag` bounds the way of a print while a session reads, not over an outage.

`ReadCar` and `EvTick` leave out two details of the replay tests' car: the noise
`mid_noise_a` of its metering (0.045 A, below the tenth of an ampere the model counts in)
and the `overshoot` factor of its draw (1.015 and 1.02).

## What the code does otherwise than it says

Three runs state a sentence of the repository and end in a counterexample:

| Run | Sentence | What happens |
|---|---|---|
| `FindPhaseCut` | `replay.rs`: no phase of the box's clock may lose the session | on a 4 s clock, one the test runs, a draw print older than the grant print makes the gap look closed; the shed cuts |
| `FindPhaseLabel` | `Cn28Snapshot::apply`: never invent a phase label | an unlabelled P3 outlives a line that does not parse, and the next P2 makes it phase 1 |
| `FindPhantomUnplug` | `SPECS.md`: an A of the pulse's own making never reaches evcc | after a pulse shorter than the ~4 s of a print, the B from before the pulse releases the mask, then the A arrives |

Seven more are stated in the modules, under "What the documentation says and the code
does not do", without a run in the list above; TLC finds each violated on the
configuration of the module's own run, or the one named:

| Statement | Sentence | What happens |
|---|---|---|
| `ShedKeepsFloor` (`MCLoop`) | `shed_room`: the over-report keeps the box above its floor through three evaluations | with a car 0.6 A under its grant (`DrawGaps = {6}`) the box's rounding takes 11 to 9, 7 and 5 A |
| `NoFaultMeansHealthy` (`Cn28Feed`) | `cn28-log-protocol.md`: `fault` is null while healthy | a second fault takes the slot of the first; clearing it leaves null |
| `OlderSetpointNeverResumes` (`Controller`) | `persist_target`: a write failure only means no resume | with `NvsFaults` the older target is resumed |
| `BootSlotWhole` (`WorkerLoop`) | `download_and_flash`: the bootable slot is never corrupted | publishing "ok" fails after the image was completed; no restart, and the next OTA erases the slot that is next to boot |
| `FreshPollLooksFresh` (`Board`) | `Handoff`: `wrapping_sub` gives the right age for any real gap | a poll stamped between the tick's clock read and its load looks 49.7 days old |
| `UnplugOnlyOfTheCar` (`WakePulse`) | `SPECS.md`: the mask holds until the box reads the car again | an A is fed near the pulse's end and the session dies before the B is read; 10 s after the relay closed the mask gives up, the feedback is stale only after 15 s, and a `Connected` tick in between publishes the pulse's own A |
| `MeterStaysUp` (`Board`) | `offline_tick`: a WiFi drop must never silence the slave | the watcher restarts the chip after too many lost-link events |

Further ones met on the way, of which the model has the behaviour and no run:

- `docs/mqtt.md:123` calls `enable: false` a hard pause; the pilot probe offers the
  full current to a disabled charger (`control.rs:320`). `DisableStops` is therefore
  stated from the time the probe may start, and holds.
- `control.rs:317` says the pilot probe never touches a running session; it looks at
  the gates and the pilot, and after a lost broker session the pilot of a running
  session is unknown.
- `charge.rs:147` says the spent pilot probe either resolved the pilot or the box does
  not talk; the window may also have passed under a failsafe pause.
- `control.rs:334` says the one-tick kick cannot lift an open session; after a reboot
  it can meet the second in which the box's up clock is due.
- `docs/mqtt.md:58` says targets out of range are clamped; only the pause gate clamps.
- `docs/mqtt.md:67` says a rejection is surfaced in `last_error`; an input accepted
  before the next tick clears it unseen.
- `main.rs:133` calls the OTA download a bounded block; each read has a timeout and the
  whole has none, and the watchdog, not fed meanwhile, ends any that takes 60 s.
- `device.rs:50` has the trigger deleted the moment it is acted on; with the broker away
  the deletion is stored in the client and lost in the restart, so a trigger may fire
  once more than it was sent; `NoFlashLoop` only says that this ends.
- `charge.rs:138` says the pilot is unknown from boot until the first event; it is
  unknown again after every broker session (`probe.rs:145`).

## What is proved

Of the controller (`ControllerSafety`), for every ceiling, margin, timeout, tick lag,
input set, and with or without a relay, flash faults or relay faults, under the named assumptions `GrantAssumption`
(`0 < MinCharge <= Max`, `0 < MaxOver <= ProbeMaxOver < PauseMargin`),
`WakeAssumption` and `ControllerAssumption` (timeouts are positive, and
`TickLag <= SettleTime`):

| Theorem | Statement |
|---|---|
| `TypeCorrect` | `Spec => []TypeOK` |
| `SafetyHolds` | `Spec => []SafetyInv` |
| `BlindOffersBounded` | `Spec => []BlindOfferBounded` |
| `PausesAreHeld` | `Spec => []PauseMeansHeld` |
| `ProbesExpire` | `Spec => []ProbeSelfExpires` |
| `RelayIsBounded` | `Spec => []RelayBounded` |
| `PilotOffersBounded` | `Spec => []PilotOfferBounded` |
| `RebootsResume` | `Spec => []RebootResumes` |
| `OneWindow` | `HSpec => []OneWindowPerBoot`, of `PilotHistory` |
| `OpenPilotOffersNothing` | `Spec => NoOfferAfterTickWithOpenPilot` |
| `LetterMatchesOffer` | `Spec => ChargingLetterMatchesOffer` |
| `PromiseKept` | `Spec => KeepsPromise`, that is `Spec => SafeOffer!Spec` under the refinement mapping |

Of the worker (`WorkerProofs`), for every tick, window, watchdog, channel length and
number of commands, triggers and outages, under `WorkerAssumption` (`ControlTick` is at
most `AutoWake` and `ProbeTime`, and `ControlTick + ProbeTime <= Watchdog`; the code has
1 s, 2 s, 2 s and 60 s):

| Theorem | Statement |
|---|---|
| `WorkerInvHolds` | `Spec => []WorkerInv`, the inductive invariant |
| `WorkerTypesCorrect` | `Spec => []WorkerTypeOK` |
| `TicksAreInTime` | `Spec => []TickLagBounded` |
| `WatchdogSpares` | `Spec => []WatchdogSparesSessions` |
| `ImagesRevert` | `Spec => []RevertsToProven` |

Of the loop (`LoopProofs`), for every pair of box clocks, every period and lag of the
prints, every target and every car that stays under its grant by no more than
`MinCharge`. The last two take `PilotMin <= MinCharge` (6 A both), the last one also
`MaxOver < CutMargin` (2 A and 4 A):

| Theorem | Statement |
|---|---|
| `LoopTypes` | `Spec => []TypeOK`, grant and draw between zero and the ceiling among it |
| `ShedKeepsFloorTwice` | an over-report of `lb_tracking_report` leaves the box on or above its floor through two evaluations, and at most one ampere under it after the third |
| `CutsNeedAnOldDraw` | `Spec => CutNeedsOldDraw`: a session that nobody paused is only cut where the controller decided on a draw that was over |

Of the feed (`FeedProofs`), for every set of grants, draws and fault codes, every
damage and any number of lines on the wire:

| Theorem | Statement |
|---|---|
| `FeedTypesCorrect` | `Spec => []FeedTypeOK` |
| `FeedInvariant` | `Spec => []FeedInv`, the inductive invariant |
| `EndedGrantsGone` | `Spec => []EndedGrantIsZero` |
| `PilotShownIsTrue` | `Spec => []PilotTrueOrUnknown` |
| `FaultShownStands` | `Spec => []ShownFaultStands` |
| `PhasesStayTrue` | `Spec => []PhasesAreTrue`, while no whole line is destroyed (`"line" \notin Damages`) |

Of the wakeup (`WakeProofs`), for every set of pulse lengths that has a longest
(`MAX_PULSE_S`), every lag of prints and ticks with `TickLag + PrintLag < SettleTime`:

| Theorem | Statement |
|---|---|
| `WakeInvariant` | `Spec => []WakeInv`, the inductive invariant |
| `NoPulseStretched` | `Spec => []NeverStretched` |
| `NoUnplugOfOurOwn` | `Spec => []NoPhantomUnplug`, while every pulse is longer than `PrintLag` |

Of the board (`BoardProofs`), for every clock range, `DebugTtl`, tick lag, number of
join attempts and of tolerated lost-link events, under `WifiAssumption`,
`LevelAssumption` (twice `DebugTtl` is within the range; 15 minutes of 49.7 days) and
`BoardAssumption` (so are two tick lags):

| Theorem | Statement |
|---|---|
| `BoardInvariant` | `Spec => []BoardInv`, the inductive invariant |
| `OnlyOutagesRestart` | `Spec => []RestartMeansOutage` |
| `LossesReachTheWatcher` | `Spec => []LossIsPending` |
| `NetworkFlagSettles` | `Spec => []NetworkFlagTrue` |
| `DebugLastsItsTtl` | `Spec => []DebugLasts` |
| `DebugEndsByItself` | `Spec => []DebugSelfExpires` |
| `PollAgesAreTrue` | `Spec => []PollAgeTrue` |
| `OnlyOwnPollsAnswered` | `Spec => []AnswersOwnPoll` |
| `CleanPollsAnswered` | `Spec => []CleanPollAnswered` |

Two of these theorems have a hypothesis the code does not enforce, and for each a run
shows what happens without it: `FindPhaseLabel` for whole lines destroyed,
`FindPhantomUnplug` for shorter pulses.

The argument for the controller. `GrantLawProofs` first bounds the law: `LbTrackingBound` gives
`Max + MaxOver` as the highest report of the regulation, `CurrentByReason` lifts that
to the decision (a pause is exactly `Max + PauseMargin`, anything else stays at or
below `Max + MaxOver`), `ProbeReportBound` to the probed report. Because
`ProbeMaxOver < PauseMargin`, no lifted report can be mistaken for a pause. Types
follow action by action in `ControllerProofs`.

`ControllerSafety` has the inductive invariant `SafetyInv`, the invariants above with
two strengthenings. `RelayOwned` says that without a relay there is neither an open
one nor a pulse; otherwise a step from an open relay in a build without one would
break `RelayBounded`. `FlashInForce` says that fault-free flash is open and holds the
setpoint; `RebootResumes` alone does not say that flash is open, so a step that
skips a write could break it. `TickServes` states what one tick serves. The ages
in the bounds are tied to `sinceTick`: a tick sets it to zero with the ages judged
against the timeouts, and a unit of time adds at most one to both sides.
`PulseSteps` and `TickLag <= SettleTime` keep the saturating pulse age exact for as
long as the relay can still be open.

`PromiseKept` maps every action of `Controller` to a step of `SafeOffer`: `Tick` to
`Decide` (it offers only over live inputs and a closed pilot, from `TickServes`), inputs to
`Hear`, `ApplyWakeup` to `AskToCut`, `Elapse` to `Wait`, `Reboot` to `Restart`, the rest to
stuttering. The types and the saturation bounds of `TypeCorrect` make the time overdue
well defined.

The argument for the worker. None of its three properties is inductive; `WorkerInv` adds
what they rest on. `TickInTime` says that the age of the tick, the time left to the next
deadline and what is left of the window or download at hand together fit into `Lag`. A
window of the worker's own fits only once between two ticks: either it has not been used up,
or the tick is due no later than the next one (`Fits`). A command or a download raises `Lag`
by the time it blocks (`Blocked`). `FedInTime` does the same for the watchdog: between two
feeds lies a wait for the deadline and a window, or one sleep of `offline_tick`.
`RevertsToProven` rests on `SlotsInOrder`: the running image is valid, or on trial over a
valid one. Confirming must not break that, and it happens only when `Connected` is taken from
the channel: `OnlyGoodHears` says that a bad image never has one there, since only a good
image reaches its broker and a reset empties the channel.

`OneWindowPerBoot` needs `OfferWithinWindow`. `PilotOfferBounded` says of each moment on
offer that the window began less than `PilotWindow` and the lag ago; that adds up to a
bound for the boot only because the time spent never outruns the age of the one window,
and nothing was spent before it began.

The argument for the loop. `RoundAmpBounds` and `TruncateBounds` say what the box's
rounding and the code's cast to whole amperes lose; with them `ShedRoomBounds` gives
`3 * over + 3 * gap <= lb - 5.5 A`. Two evaluations lose at most `2 * (over + gap)` and two
roundings, which that leaves room for; a third rounding is one too many, and that is the
difference between `ShedKeepsFloorTwice` and the three evaluations `shed_room` speaks of.
`FreshNeverCuts` goes through the rules of the grant law: whichever applies, the box's goal
for the draw the rule was told of is on or above the floor. `BoxTickSteps` says that a box
closes on a report past the cut margin or a goal under the floor, so a cut without a pause
needs a draw other than the one decided on. `FindPhaseCut` ends in such a cut; the theorem
says that there is no other kind.

The argument for the feed. Its properties speak of a wire that is read to its end, so none
is inductive: `FeedInv` says what the lines not yet read will still make of the snapshot.
Behind every grant of an ended session comes the line that stops it (`GrantsEnd`), the last
pilot line is the box's pilot or, without one, the snapshot's is (`PilotArrives`), behind
every error that was cleared comes the line that clears it (`FaultsEnd`); each unless
`missed` names it, which a line that is destroyed does exactly where something older is
shown or still on the wire. Each holds for
every rest of the wire, which is why a session may begin anywhere. For the phases
`LabelsInOrder` says that no foreign payload comes before a second phase; it needs that
only the first line of a session fails to decode, with nothing held, and a burst line
that is destroyed is what breaks it.

The argument for the wakeup. `PulseInv` bounds a pulse by what is left of it and its age
together, which a repeat changes neither of. `Tracked` says that a session which was fed a
pilot and missed no line after it has the box's own one, or its print in the queue.
`NoPhantomUnplug` needs `MaskInv`: a relay that a tick closes was open for longer than a
print is on its way (`Outlasts`), nothing was printed under it, so that the queue holds no
pilot from before it unless it waited for a session, and then `knownAge` is still zero
(`Silent`); a print that follows an A has the car, a session that only just knows the pilot,
or a pulse whose mask still holds behind it (`LeavesA`); and
`TickLag + PrintLag < SettleTime` keeps the mask until that print has come. Over an outage
only `knownAge = 0` is left of all this, which is why the property excepts it, and the
stale pilot needs no bound of its own.

The argument for the board. `LinkInv` lists the six ways in which link, events and tally
stand to each other: a loss is counted once, and only while the outage it belongs to lasts.
`Deadline` ties `until` to the clock by the age of the level, up to one turn of the clock
and the unit of `max(1)`; half the range is what tells before from after. `StampInv` does the
same for the poll's stamp and for the clock a tick has read. `RequestInv` says that frame,
FIFO and line together are the rest of what the box sent, in its order, so that a frame that
parses is the poll.

What the proofs changed in the models: `Pilot` of `WakePulse` had two cases that overlap,
of which TLC takes the first and a proof neither; the types of `ClosedLoop` did not say
that the car is a record, nor its assumption that the residual grant is under the ceiling
and no car stays under its grant by more than a grant; a window of `Cn28Feed` was one step
over a recursive reading of the wire, and is now one step per line.

Only model-checked: the liveness properties (`RelayCloses`, `DisableStops`,
`UnplugReachesEvcc`, `Reopens`, `PauseStopsCar`, `Settles`, `TickRecurs`, `NoFlashLoop`),
which are out of the prover's reach with ENABLED and induction over data; and
`OnlyAPauseCuts`, which is false for some clocks (`FindPhaseCut`) and a matter of which
phases of prints and clocks can meet for the measured one. `CutsNeedAnOldDraw` is what
can be proved of it.

## What is not modelled yet, and the plan

In order; each is a module with its own run, and theorems where named:

1. `FeedController`: the decoder in front of the controller, with the clocks of both,
   for the freshness that any decoded line stamps while grant lines are lost.
2. Proofs: that a session the controller regulates is not lost while the prints are no
   older than one evaluation of the box, the condition under which `OnlyAPauseCuts` holds.
3. `LineReassembler` and the line grammar as operators against a reference.
4. The legacy offset and trim law of `control.rs`, kept in the code for its tests and no
   longer called by the firmware.

Abstracted inside what is modelled: the length of the backoff between joins (nothing else
runs meanwhile), the heartbeat publish of the worker, the grammar of MQTT payloads, which
are accepted, rejected or empty, and the bytes of the meter's answer.

Left out for good: UART and GPIO drivers, the esp-idf clients, JSON and discovery
formatting, version strings, hex dumps, and the log exporter, whose queue nothing on the
control path waits for. They format or forward, and keep no state of the control path.
