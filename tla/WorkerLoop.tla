----------------------------- MODULE WorkerLoop -----------------------------
(***************************************************************************)
(* The worker thread of firmware/src/probe.rs: one loop turn per message   *)
(* or deadline, broker sessions that come and go, probe windows and OTA    *)
(* downloads that block it, and the resets that end it all: the task       *)
(* watchdog, an OTA, a power cycle.  What a control tick decides is the    *)
(* module Controller; here it matters when one runs.                       *)
(*                                                                         *)
(* Handling a message takes no time; a window, a download, the sleep       *)
(* between two sessions and waiting do.                                    *)
(***************************************************************************)
EXTENDS Integers, Sequences, FiniteSets

CONSTANTS
  ControlTick,    \* time between two control ticks
  AutoWake,       \* time between two windows the worker opens by itself
  ProbeTime,      \* longest window: the first byte, the burst, the final gap
  Watchdog,       \* time without a feed that resets the chip
  MaxRx,          \* bound: messages queued for the worker
  MaxBurst,       \* bound: messages delivered in one unit of time
  MaxCommands,    \* probe commands delivered between two control ticks
  MaxTriggers,    \* bound: OTA triggers an operator publishes
  MaxDrops        \* bound: broker connections or pumps lost

ASSUME WorkerAssumption ==
  /\ {ControlTick, AutoWake, ProbeTime, Watchdog, MaxRx, MaxBurst} \subseteq Nat \ {0}
  /\ {MaxCommands, MaxTriggers, MaxDrops} \subseteq Nat
  /\ ControlTick <= AutoWake /\ ControlTick <= ProbeTime
  /\ ControlTick + ProbeTime <= Watchdog     \* 1 s, 2 s, 2 s and 60 s

Topics   == {"cmd", "baud", "ota", "control"}
Payloads == {"good", "bad", "empty"}

\* InMsg; the control topics carry their parse result and never block.
Messages ==
  [kind: {"Connected", "Probe", "SetBaud", "Control"}]
    \cup [kind: {"Ota"}, good: BOOLEAN]

\* An app slot: what is in it, and what the bootloader makes of it.
Slots  == {1, 2}
Images == {"good", "bad", "partial"}   \* a bad one runs and never finds its broker
Slot   == [image: Images, state: {"valid", "new", "pending", "aborted"}]

VARIABLES
  pc,                           \* what the thread is doing
  busy,                         \* for how long it has been in a window or a sleep
  rx,                           \* the channel from the connection pump
  pumping, broker, subscribed,  \* the pump runs; connected; topics subscribed
  toTick, toWake,               \* time left until the two deadlines
  sinceTick, sinceFed,          \* time since the last control tick, watchdog feed
  probes, flashes,              \* commands and OTAs begun since the last tick
  retained, clearing,           \* the broker retains a trigger; its deletion waits
  triggers, drops, burst,       \* how much of three bounds is used up
  slots, running, boot          \* app slots, the one that runs, the next to boot

session  == <<rx, pumping, broker, subscribed, clearing>>
clocks   == <<toTick, toWake, sinceTick, sinceFed>>
since    == <<probes, flashes>>
bounds   == <<triggers, drops, burst>>
flash    == <<slots, running, boot>>
vars     == <<pc, busy, session, clocks, since, retained, bounds, flash>>

Other(s) == 3 - s

\* How old the last tick may become.
Lag == ControlTick + ProbeTime * (probes + 1) + (Watchdog + 1) * flashes

\* Past this its age is not told apart any more.
TickCap ==
  ControlTick + ProbeTime * (MaxCommands + 1) + (Watchdog + 1) * (MaxTriggers + 1) + 1

Init ==
  /\ pc = "connect" /\ busy = 0
  /\ rx = <<>> /\ pumping = FALSE /\ broker = FALSE /\ subscribed = FALSE
  /\ clearing = FALSE
  /\ toTick = ControlTick /\ toWake = AutoWake
  /\ sinceTick = 0 /\ sinceFed = 0
  /\ probes = 0 /\ flashes = 0
  /\ retained = FALSE /\ triggers = 0 /\ drops = 0 /\ burst = 0
  /\ slots = [s \in Slots |-> IF s = 1 THEN [image |-> "good", state |-> "valid"]
                              ELSE [image |-> "partial", state |-> "aborted"]]
  /\ running = 1 /\ boot = 1

-----------------------------------------------------------------------------
(***************************************************************************)
(* Pieces of a loop turn.                                                  *)
(***************************************************************************)
Feed == sinceFed' = 0

\* tick_control: the tick itself is Controller's.
TickControl == sinceTick' = 0 /\ probes' = 0 /\ flashes' = 0

\* Back at the top of worker_loop, which feeds the watchdog.
NextTurn == pc' = "wait" /\ busy' = 0 /\ Feed

\* The client, its pump and the channel go with the session.
DropSession ==
  /\ rx' = <<>>
  /\ pumping' = FALSE /\ broker' = FALSE /\ subscribed' = FALSE /\ clearing' = FALSE

\* Mutants: the gap between two sessions forgets the watchdog, or the tick.
OfflineTickUnfed ==
  /\ TickControl
  /\ pc' = "offline" /\ busy' = 0
  /\ UNCHANGED <<toTick, toWake, sinceFed>>

OfflineTickWithoutTick ==
  /\ Feed
  /\ pc' = "offline" /\ busy' = 0
  /\ UNCHANGED <<toTick, toWake, sinceTick, since>>

\* offline_tick: feed, tick, then sleep for one tick.
OfflineTick ==
  /\ Feed /\ TickControl
  /\ pc' = "offline" /\ busy' = 0
  /\ UNCHANGED <<toTick, toWake>>

\* worker_loop returns, with an error or because the pump is gone.
EndSession ==
  /\ DropSession
  /\ OfflineTick
  /\ UNCHANGED <<retained, bounds, flash>>

\* A publish is the client's: away from the broker it is stored or refused.
PublishResults == IF broker THEN {"sent"} ELSE {"stored", "refused"}

-----------------------------------------------------------------------------
(***************************************************************************)
(* Sessions.                                                               *)
(***************************************************************************)
\* Mutant: the image is confirmed as soon as it has a client.
ConnectConfirming ==
  /\ pc = "connect"
  /\ NextTurn
  /\ rx' = <<>> /\ pumping' = TRUE /\ broker' = FALSE /\ subscribed' = FALSE
  /\ clearing' = FALSE
  /\ toTick' = ControlTick /\ toWake' = AutoWake
  /\ slots' = [slots EXCEPT ![running].state = "valid"]
  /\ UNCHANGED <<sinceTick, since, retained, bounds, running, boot>>

\* A new client and pump; reaching the broker is left to them.
Connect ==
  /\ pc = "connect"
  /\ NextTurn
  /\ rx' = <<>> /\ pumping' = TRUE /\ broker' = FALSE /\ subscribed' = FALSE
  /\ clearing' = FALSE
  /\ toTick' = ControlTick /\ toWake' = AutoWake
  /\ UNCHANGED <<sinceTick, since, retained, bounds, flash>>

ConnectFails == pc = "connect" /\ EndSession

\* run: once the sleep of offline_tick is over.
Reconnect ==
  /\ pc = "offline" /\ busy = ControlTick
  /\ pc' = "connect" /\ busy' = 0
  /\ UNCHANGED <<session, clocks, since, retained, bounds, flash>>

\* The pump sees CONNECTED, and a stored deletion goes out.
BrokerUp ==
  /\ pumping /\ ~broker /\ Len(rx) < MaxRx
  /\ slots[running].image = "good"
  /\ broker' = TRUE /\ subscribed' = FALSE
  /\ rx' = Append(rx, [kind |-> "Connected"])
  /\ clearing' = FALSE
  /\ retained' = (retained /\ ~clearing)
  /\ UNCHANGED <<pc, busy, pumping, clocks, since, bounds, flash>>

\* The client notices, keeps the session and goes on trying.
BrokerDown ==
  /\ broker /\ drops < MaxDrops
  /\ drops' = drops + 1
  /\ broker' = FALSE /\ subscribed' = FALSE
  /\ UNCHANGED <<pc, busy, rx, pumping, clearing, clocks, since, retained, triggers,
                 burst, flash>>

\* connection.next() fails: the pump returns and drops its sender.
PumpEnds ==
  /\ pumping /\ drops < MaxDrops
  /\ drops' = drops + 1
  /\ pumping' = FALSE /\ broker' = FALSE /\ subscribed' = FALSE
  /\ UNCHANGED <<pc, busy, rx, clearing, clocks, since, retained, triggers, burst,
                 flash>>

\* A rate in range; escapes that end; an http URL with a host.
ParseBaud(payload)      == payload = "good"
DecodeCommand(payload)  == payload # "bad"
ValidateOtaUrl(payload) == payload = "good"

\* What the pump makes of a publication; the echo of our own deletion is empty.
Routed(topic, payload) ==
  CASE topic = "control" -> <<[kind |-> "Control"]>>
    [] topic = "ota" /\ payload # "empty" ->
         <<[kind |-> "Ota", good |-> ValidateOtaUrl(payload)]>>
    [] topic = "baud" /\ ParseBaud(payload)    -> <<[kind |-> "SetBaud"]>>
    [] topic = "cmd" /\ DecodeCommand(payload) -> <<[kind |-> "Probe"]>>
    [] OTHER -> <<>>

CommandsAhead == Cardinality({i \in DOMAIN rx : rx[i].kind = "Probe"})

\* Somebody publishes; the broker keeps a retained trigger for later subscribers.
Publish(topic, payload, retain) ==
  /\ subscribed /\ Routed(topic, payload) # <<>>
  /\ Len(rx) < MaxRx
  /\ burst < MaxBurst /\ burst' = burst + 1
  /\ rx' = rx \o Routed(topic, payload)
  /\ topic = "cmd" => probes + CommandsAhead < MaxCommands
  /\ IF topic = "ota"
       THEN /\ triggers < MaxTriggers /\ triggers' = triggers + 1
            /\ retained' = (retained \/ retain)
       ELSE ~retain /\ UNCHANGED <<triggers, retained>>
  /\ UNCHANGED <<pc, busy, pumping, broker, subscribed, clearing, clocks, since,
                 drops, flash>>

-----------------------------------------------------------------------------
(***************************************************************************)
(* Messages: the head of the channel, taken at the top of the loop.        *)
(***************************************************************************)
Takes(kind) == pc = "wait" /\ rx # <<>> /\ rx[1].kind = kind

\* confirm_running_slot: CONNECTED is the proof a fresh image needs.
ConfirmRunningSlot ==
  /\ slots[running].state = "pending"
  /\ slots' = [slots EXCEPT ![running].state = "valid"]

\* Subscriptions are idempotent; one that fails ends the attempt.
SubscribeAll == subscribed' \in {FALSE, broker}

\* CONNECTED: subscribe, which brings a retained trigger, tick at once, confirm.
\* A subscription or a confirmation that fails is only logged.
HandleConnected ==
  /\ Takes("Connected")
  /\ NextTurn
  /\ SubscribeAll
  /\ rx' = Tail(rx) \o (IF subscribed' /\ retained THEN Routed("ota", "good") ELSE <<>>)
  /\ TickControl /\ toTick' = ControlTick
  /\ ConfirmRunningSlot \/ UNCHANGED slots
  /\ UNCHANGED <<pumping, broker, clearing, toWake, retained, bounds, running, boot>>

\* Mutant: the deadline is set anew by every turn.
HandleControlRearming ==
  /\ Takes("Control")
  /\ NextTurn
  /\ rx' = Tail(rx)
  /\ toTick' = ControlTick
  /\ UNCHANGED <<pumping, broker, subscribed, clearing, toWake, sinceTick, since,
                 retained, bounds, flash>>

\* Targets, heartbeats, the log level: applied to the controller in no time.
HandleControl ==
  /\ Takes("Control")
  /\ NextTurn
  /\ rx' = Tail(rx)
  /\ UNCHANGED <<pumping, broker, subscribed, clearing, toTick, toWake, sinceTick,
                 since, retained, bounds, flash>>

\* A window opened by a command; the UART may refuse the write.
HandleProbe ==
  /\ Takes("Probe")
  /\ pc' = "probe" /\ busy' = 0
  /\ rx' = Tail(rx)
  /\ probes' = probes + 1
  /\ UNCHANGED <<pumping, broker, subscribed, clearing, clocks, flashes, retained,
                 bounds, flash>>

\* The echo of the rate is published, and a refusal ends the session.
HandleSetBaud ==
  /\ Takes("SetBaud")
  /\ \E result \in PublishResults :
       IF result = "refused" THEN EndSession
       ELSE /\ NextTurn
            /\ rx' = Tail(rx)
            /\ UNCHANGED <<pumping, broker, subscribed, clearing, toTick, toWake,
                           sinceTick, since, retained, bounds, flash>>

\* Mutant: the trigger stays on the broker.
ClearNothing(result) == UNCHANGED <<retained, clearing>>

\* The deletion of the retained trigger, sent or stored with the client.
ClearOtaTrigger(result) ==
  /\ retained' = (retained /\ result # "sent")
  /\ clearing' = (clearing \/ result = "stored")

\* run_ota up to the download: every publish on the way may end the session.
HandleOta ==
  /\ Takes("Ota")
  /\ \/ "refused" \in PublishResults /\ EndSession
     \/ \E result \in PublishResults \ {"refused"} :
          /\ ClearOtaTrigger(result)
          /\ IF rx[1].good
               THEN /\ pc' = "ota" /\ busy' = 0
                    /\ flashes' = flashes + 1
                    /\ UNCHANGED sinceFed
               ELSE NextTurn /\ UNCHANGED flashes
          /\ rx' = Tail(rx)
          /\ UNCHANGED <<pumping, broker, subscribed, toTick, toWake, sinceTick,
                         probes, bounds, flash>>

-----------------------------------------------------------------------------
(***************************************************************************)
(* Deadlines and blocking work.                                            *)
(***************************************************************************)
\* recv_timeout ran out: tick if that is due, then a window if that is due.  The
\* next window is counted from the start of this one.
DeadlinePasses ==
  /\ pc = "wait" /\ rx = <<>> /\ pumping
  /\ toTick = 0 \/ toWake = 0
  /\ IF toTick = 0 THEN TickControl /\ toTick' = ControlTick
     ELSE UNCHANGED <<toTick, sinceTick, since>>
  /\ IF toWake = 0
       THEN /\ pc' = "probe" /\ busy' = 0
            /\ toWake' = AutoWake
            /\ UNCHANGED sinceFed
       ELSE NextTurn /\ UNCHANGED toWake
  /\ UNCHANGED <<session, retained, bounds, flash>>

\* The channel is empty and has no sender any more.
Disconnected == pc = "wait" /\ rx = <<>> /\ ~pumping /\ EndSession

ProbeDone ==
  /\ pc = "probe"
  /\ NextTurn
  /\ UNCHANGED <<session, toTick, toWake, sinceTick, since, retained, bounds, flash>>

\* A write or a read of the UART fails.
ProbeFails == pc = "probe" /\ EndSession

\* The download begins to fill the other slot; esp-idf refuses that to an image
\* which is still unconfirmed itself.
OtaBegins ==
  /\ pc = "ota" /\ slots[running].state # "pending"
  /\ slots' = [slots EXCEPT ![Other(running)] = [image |-> "partial", state |-> "aborted"]]
  /\ UNCHANGED <<pc, busy, session, clocks, since, retained, bounds, running, boot>>

\* The server or the flash fails at any moment; the status says so, or not.
OtaFails ==
  /\ pc = "ota"
  /\ \E result \in PublishResults :
       IF result = "refused" THEN EndSession
       ELSE /\ NextTurn
            /\ UNCHANGED <<session, toTick, toWake, sinceTick, since, retained,
                           bounds, flash>>

-----------------------------------------------------------------------------
(***************************************************************************)
(* Resets.  RAM is lost, the broker and the app slots are not.             *)
(***************************************************************************)
\* The bootloader: a new image gets one boot to be confirmed in, and one that is
\* not whole gets none.
Boots(written, first) ==
  LET pending == [written EXCEPT ![first].state = "pending"]
      aborted == [written EXCEPT ![first].state = "aborted"]
  IN CASE written[first].state = "new" /\ written[first].image # "partial" ->
            slots' = pending /\ running' = first /\ boot' = first
       [] written[first].state = "pending" \/ written[first].image = "partial" ->
            slots' = aborted /\ running' = Other(first) /\ boot' = Other(first)
       [] OTHER ->
            slots' = written /\ running' = first /\ boot' = first

Restart(written, first) ==
  /\ Boots(written, first)
  /\ DropSession
  /\ pc' = "connect" /\ busy' = 0
  /\ toTick' = ControlTick /\ toWake' = AutoWake
  /\ sinceTick' = 0 /\ sinceFed' = 0
  /\ probes' = 0 /\ flashes' = 0
  /\ UNCHANGED <<retained, bounds>>

\* A whole image, of either kind, is the next to boot; the chip restarts.  The
\* publish of "ok" comes first and may end the session instead.
OtaCompletes ==
  /\ pc = "ota" /\ slots[running].state # "pending"
  /\ \E image \in {"good", "bad"} :
       LET written == [slots EXCEPT ![Other(running)] = [image |-> image, state |-> "new"]]
       IN \/ Restart(written, Other(running))
          \/ /\ "refused" \in PublishResults
             /\ DropSession /\ OfflineTick
             /\ slots' = written /\ boot' = Other(running)
             /\ UNCHANGED <<retained, bounds, running>>

WatchdogReset == sinceFed > Watchdog /\ Restart(slots, boot)

\* Power, the wifi module's restart, a panic.
PowerCycle == pc # "connect" /\ Restart(slots, boot)

-----------------------------------------------------------------------------
\* The worker is blocked, or waits for a message or a deadline.
MayWait ==
  \/ pc = "wait" /\ rx = <<>> /\ pumping /\ toTick > 0 /\ toWake > 0
  \/ pc = "probe" /\ busy < ProbeTime
  \/ pc = "offline" /\ busy < ControlTick
  \/ pc = "ota" /\ sinceFed <= Watchdog

\* Mutant: a subtraction that does not saturate.
LeftUnsaturated(t) == t - 1

\* saturating_duration_since.
Left(t) == IF t = 0 THEN 0 ELSE t - 1

Elapse ==
  /\ MayWait
  /\ busy' = IF pc \in {"probe", "offline"} THEN busy + 1 ELSE busy
  /\ toTick' = Left(toTick) /\ toWake' = Left(toWake)
  /\ sinceTick' = IF sinceTick < TickCap THEN sinceTick + 1 ELSE sinceTick
  /\ sinceFed' = sinceFed + 1
  /\ burst' = 0
  /\ UNCHANGED <<pc, session, since, retained, triggers, drops, flash>>

\* Whatever the worker does by itself, in the order it does it.
Works ==
  \/ Connect \/ ConnectFails \/ Reconnect
  \/ HandleConnected \/ HandleControl \/ HandleProbe \/ HandleSetBaud \/ HandleOta
  \/ DeadlinePasses \/ Disconnected
  \/ ProbeDone \/ ProbeFails
  \/ OtaBegins \/ OtaFails \/ OtaCompletes

World ==
  \/ BrokerUp \/ BrokerDown \/ PumpEnds
  \/ \E topic \in Topics, payload \in Payloads, retain \in BOOLEAN :
       Publish(topic, payload, retain)
  \/ PowerCycle

Next == Works \/ Elapse \/ WatchdogReset \/ World

Spec == Init /\ [][Next]_vars

\* The thread is scheduled and time goes on.  A server that stalls need never let
\* an OTA end, and no message, connection or reset has to come.
Fairness ==
  /\ WF_vars(Elapse) /\ WF_vars(DeadlinePasses)
  /\ WF_vars(WatchdogReset)
  /\ WF_vars(Connect \/ ConnectFails) /\ WF_vars(Reconnect)
  /\ WF_vars(HandleConnected \/ HandleControl \/ HandleProbe \/ HandleSetBaud
             \/ HandleOta)
  /\ WF_vars(Disconnected)
  /\ WF_vars(pc = "probe" /\ busy = ProbeTime /\ (ProbeDone \/ ProbeFails))

FairSpec == Spec /\ Fairness

-----------------------------------------------------------------------------
(***************************************************************************)
(* Properties.                                                             *)
(***************************************************************************)
ThreadTypes ==
  /\ pc \in {"connect", "wait", "probe", "ota", "offline"} /\ busy \in Nat
  /\ toTick \in 0 .. ControlTick /\ toWake \in 0 .. AutoWake
  /\ sinceTick \in 0 .. TickCap /\ sinceFed \in 0 .. Watchdog + 1
  /\ probes \in Nat /\ flashes \in Nat

QueueTypes == rx \in Seq(Messages) /\ Len(rx) <= MaxRx

SessionTypes ==
  /\ pumping \in BOOLEAN /\ broker \in BOOLEAN /\ subscribed \in BOOLEAN
  /\ clearing \in BOOLEAN /\ retained \in BOOLEAN
  /\ triggers \in 0 .. MaxTriggers /\ drops \in 0 .. MaxDrops /\ burst \in 0 .. MaxBurst

FlashTypes == slots \in [Slots -> Slot] /\ running \in Slots /\ boot \in Slots

WorkerTypeOK == ThreadTypes /\ QueueTypes /\ SessionTypes /\ FlashTypes

\* What Controller assumes as TickLag: a control tick is late by at most one
\* window per probe command handled since the last one, one window of its own
\* and, per OTA, the watchdog; messages, sessions and the outages between them
\* cost it nothing.
TickLagBounded == sinceTick <= Lag

\* main.rs sizes the watchdog to clear every legitimate block: no sequence of
\* windows, messages and failing connections comes near it, only an OTA can.
WatchdogSparesSessions ==
  pc # "ota" => sinceFed <= ControlTick + ProbeTime

\* An image that never reached the broker stays unconfirmed, and no series of
\* OTAs, resets and outages uses up the last confirmed one to revert to.
RevertsToProven ==
  /\ \A s \in Slots : slots[s].image = "bad" => slots[s].state # "valid"
  /\ \E s \in Slots : slots[s] = [image |-> "good", state |-> "valid"]

\* probe.rs on #87: online or offline, through every failure, the tick comes
\* again; as long as commands come no faster than MaxCommands per tick.
TickRecurs == []<>(sinceTick = 0)

\* device.rs on #76: one trigger is no flash loop; when operators and outages have
\* done, so have the downloads.
NoFlashLoop == <>[](pc # "ota")

-----------------------------------------------------------------------------
(***************************************************************************)
(* What the documentation says and the code does not do.                   *)
(***************************************************************************)

\* download_and_flash: an error aborts the update, "so the bootable slot is never
\* corrupted".
BootSlotWhole == slots[boot].image # "partial"
=============================================================================
