---------------------------- MODULE WorkerProofs ----------------------------
(***************************************************************************)
(* The safety properties of WorkerLoop, proved for every value of its      *)
(* constants: ticks are late by a bounded time, the watchdog spares every  *)
(* session, and a proven image is always left to revert to.                *)
(***************************************************************************)
EXTENDS WorkerLoop, TLAPS

\* Time the thread was blocked for since the last tick, the window it opens by
\* itself aside.
Blocked == ProbeTime * probes + (Watchdog + 1) * flashes

\* The time since the last tick, the time to the next deadline, and what the thread
\* may still be blocked for fit into the lag, with one window of the worker's own
\* unless the tick is due before the next one of those.
Fits(rest) ==
  \/ sinceTick + toTick + rest <= ControlTick + Blocked
  \/ /\ sinceTick + toTick + rest <= ControlTick + ProbeTime + Blocked
     /\ toTick <= toWake

TickInTime ==
  /\ pc = "connect" => sinceTick <= ControlTick
  /\ pc = "offline" => sinceTick <= busy
  /\ pc = "wait"    => Fits(0)
  /\ pc = "probe"   => Fits(ProbeTime - busy)
  /\ pc = "ota"     => Fits(Watchdog + 1 - sinceFed)

\* Between two feeds lies a wait for the deadline and a window, or a sleep.
FedInTime ==
  /\ pc = "wait"    => sinceFed + toTick <= ControlTick
  /\ pc = "probe"   => busy <= ProbeTime /\ sinceFed <= ControlTick + busy
  /\ pc = "offline" => busy <= ControlTick /\ sinceFed <= busy
  /\ pc = "connect" => sinceFed <= ControlTick

\* A valid image is a good one; the running image is valid, or it is on trial over a
\* valid one; a boot slot that is not the running one was just written or is not
\* whole.
SlotsInOrder ==
  /\ \A s \in Slots : slots[s].state = "valid" => slots[s].image = "good"
  /\ \/ slots[running].state = "valid"
     \/ slots[running].state = "pending" /\ slots[Other(running)].state = "valid"
  /\ boot # running =>
       /\ slots[running].state = "valid"
       /\ slots[boot].state = "new" \/ slots[boot].image = "partial"

\* A bad image never reaches its broker.
OnlyGoodHears ==
  slots[running].image # "good" => \A i \in DOMAIN rx : rx[i].kind # "Connected"

\* The inductive invariant.
WorkerInv == WorkerTypeOK /\ FedInTime /\ TickInTime /\ SlotsInOrder /\ OnlyGoodHears

-----------------------------------------------------------------------------
\* Routing makes one message of the channel at most.
LEMMA RoutedMessages ==
  ASSUME NEW topic, NEW payload
  PROVE  /\ Routed(topic, payload) \in Seq(Messages)
         /\ Len(Routed(topic, payload)) <= 1
<1> DEFINE Out == {[kind |-> "Control"], [kind |-> "SetBaud"], [kind |-> "Probe"],
                   [kind |-> "Ota", good |-> ValidateOtaUrl(payload)]}
<1>1. Out \subseteq Messages
  <2>1. ValidateOtaUrl(payload) \in BOOLEAN
    BY Zenon DEF ValidateOtaUrl
  <2> HIDE DEF ValidateOtaUrl
  <2> QED BY <2>1 DEF Messages
<1>2. Routed(topic, payload) = <<>> \/ \E out \in Out : Routed(topic, payload) = <<out>>
  BY Zenon DEF Routed
<1> HIDE DEF Out
<1>3. ASSUME NEW out \in Out
      PROVE  <<out>> \in Seq(Messages) /\ Len(<<out>>) <= 1
  BY <1>1
<1>4. <<>> \in Seq(Messages) /\ Len(<<>>) <= 1
  OBVIOUS
<1> HIDE DEF Routed
<1> QED BY <1>2, <1>3, <1>4, Zenon

\* An emptied channel is a channel.
LEMMA EmptyQueue == <<>> \in Seq(Messages) /\ Len(<<>>) <= MaxRx
<1>1. MaxRx \in Nat
  BY WorkerAssumption
<1> QED BY <1>1

\* The pump reports a connection in a message.
LEMMA ConnectedMessage == [kind |-> "Connected"] \in Messages
BY DEF Messages

\* The cap on the age of the tick is a number.
LEMMA TickCapNat == TickCap \in Nat
BY WorkerAssumption DEF TickCap

\* What the thread does and when.
LEMMA ThreadTypesStep ==
  ASSUME WorkerTypeOK, FedInTime, [Next]_vars
  PROVE  ThreadTypes'
<1> USE WorkerAssumption, TickCapNat DEF WorkerTypeOK, ThreadTypes
<1>1. CASE Connect
  BY <1>1 DEF Connect, NextTurn, Feed, TickControl, OfflineTick, EndSession, clocks,
         since
<1>2. CASE ConnectFails
  BY <1>2 DEF ConnectFails, NextTurn, Feed, TickControl, OfflineTick, EndSession,
         clocks, since
<1>3. CASE Reconnect
  BY <1>3 DEF Reconnect, NextTurn, Feed, TickControl, OfflineTick, EndSession, clocks,
         since
<1>4. CASE HandleConnected
  BY <1>4 DEF HandleConnected, NextTurn, Feed, TickControl, OfflineTick, EndSession,
         clocks, since
<1>5. CASE HandleControl
  BY <1>5 DEF HandleControl, NextTurn, Feed, TickControl, OfflineTick, EndSession,
         clocks, since
<1>6. CASE HandleProbe
  BY <1>6 DEF HandleProbe, NextTurn, Feed, TickControl, OfflineTick, EndSession,
         clocks, since
<1>7. CASE HandleSetBaud
  <2>1. EndSession \/ (NextTurn /\ UNCHANGED <<toTick, toWake, sinceTick, since>>)
    BY <1>7 DEF HandleSetBaud
  <2> QED BY <2>1 DEF NextTurn, Feed, TickControl, OfflineTick, EndSession, since
<1>8. CASE HandleOta
  <2>1. \/ EndSession
        \/ /\ UNCHANGED <<toTick, toWake, sinceTick, probes>>
           /\ \/ pc' = "ota" /\ busy' = 0 /\ flashes' = flashes + 1 /\ UNCHANGED sinceFed
              \/ NextTurn /\ UNCHANGED flashes
    BY <1>8 DEF HandleOta
  <2> QED BY <2>1 DEF NextTurn, Feed, TickControl, OfflineTick, EndSession
<1>9. CASE DeadlinePasses
  <2>1. \/ TickControl /\ toTick' = ControlTick
        \/ UNCHANGED <<toTick, sinceTick, since>>
    BY <1>9 DEF DeadlinePasses
  <2>2. \/ pc' = "probe" /\ busy' = 0 /\ toWake' = AutoWake /\ UNCHANGED sinceFed
        \/ NextTurn /\ UNCHANGED toWake
    BY <1>9 DEF DeadlinePasses
  <2> QED BY <2>1, <2>2 DEF NextTurn, Feed, TickControl, since
<1>10. CASE Disconnected
  BY <1>10 DEF Disconnected, NextTurn, Feed, TickControl, OfflineTick, EndSession,
         clocks, since
<1>11. CASE ProbeDone
  BY <1>11 DEF ProbeDone, NextTurn, Feed, TickControl, OfflineTick, EndSession,
         clocks, since
<1>12. CASE ProbeFails
  BY <1>12 DEF ProbeFails, NextTurn, Feed, TickControl, OfflineTick, EndSession,
         clocks, since
<1>13. CASE OtaBegins
  BY <1>13 DEF OtaBegins, NextTurn, Feed, TickControl, OfflineTick, EndSession,
         clocks, since
<1>14. CASE OtaFails
  BY <1>14 DEF OtaFails, NextTurn, Feed, TickControl, OfflineTick, EndSession, clocks,
         since
<1>15. CASE OtaCompletes
  BY <1>15 DEF OtaCompletes, NextTurn, Feed, TickControl, OfflineTick, EndSession,
         clocks, since, Restart
<1>16. CASE Elapse
  BY <1>16 DEF Elapse, NextTurn, Feed, TickControl, OfflineTick, EndSession, clocks,
         since, MayWait, Left, FedInTime
<1>17. CASE WatchdogReset
  BY <1>17 DEF WatchdogReset, NextTurn, Feed, TickControl, OfflineTick, EndSession,
         clocks, since, Restart
<1>18. CASE BrokerUp
  BY <1>18 DEF BrokerUp, NextTurn, Feed, TickControl, OfflineTick, EndSession, clocks,
         since
<1>19. CASE BrokerDown
  BY <1>19 DEF BrokerDown, NextTurn, Feed, TickControl, OfflineTick, EndSession,
         clocks, since
<1>20. CASE PumpEnds
  BY <1>20 DEF PumpEnds, NextTurn, Feed, TickControl, OfflineTick, EndSession, clocks,
         since
<1>21. CASE PowerCycle
  BY <1>21 DEF PowerCycle, NextTurn, Feed, TickControl, OfflineTick, EndSession,
         clocks, since, Restart
<1>22. ASSUME NEW topic \in Topics, NEW payload \in Payloads, NEW retain \in BOOLEAN,
            Publish(topic, payload, retain)
     PROVE  ThreadTypes'
  BY <1>22 DEF Publish, NextTurn, Feed, TickControl, OfflineTick, EndSession, clocks,
         since
<1>23. CASE UNCHANGED vars
  BY <1>23 DEF vars, NextTurn, Feed, TickControl, OfflineTick, EndSession, clocks, since
<1> QED
  BY <1>1, <1>2, <1>3, <1>4, <1>5, <1>6, <1>7, <1>8, <1>9, <1>10, <1>11, <1>12, <1>13,
     <1>14, <1>15, <1>16, <1>17, <1>18, <1>19, <1>20, <1>21, <1>22, <1>23 DEF Next,
     Works, World

\* The channel.
LEMMA QueueTypesStep ==
  ASSUME WorkerTypeOK, FedInTime, [Next]_vars
  PROVE  QueueTypes'
<1> USE WorkerAssumption DEF WorkerTypeOK, QueueTypes
<1>1. CASE Connect
  BY <1>1 DEF Connect, session, DropSession, EndSession
<1>2. CASE ConnectFails
  BY <1>2 DEF ConnectFails, session, DropSession, EndSession
<1>3. CASE Reconnect
  BY <1>3 DEF Reconnect, session, DropSession, EndSession
<1>4. CASE HandleConnected
  <2>1. rx # <<>>
    BY <1>4 DEF HandleConnected, Takes
  <2>2. PICK more \in {Routed("ota", "good"), <<>>} : rx' = Tail(rx) \o more
    BY <1>4 DEF HandleConnected
  <2>3. more \in Seq(Messages) /\ Len(more) <= 1
    <3>1. Len(<<>>) <= 1
      OBVIOUS
    <3> QED BY RoutedMessages, EmptyQueue, <3>1, Zenon
  <2> QED BY <2>1, <2>2, <2>3
<1>5. CASE HandleControl
  BY <1>5 DEF HandleControl, session, DropSession, EndSession, Takes
<1>6. CASE HandleProbe
  BY <1>6 DEF HandleProbe, session, DropSession, EndSession, Takes
<1>7. CASE HandleSetBaud
  <2>1. rx' = <<>> \/ rx' = Tail(rx)
    BY <1>7 DEF HandleSetBaud, EndSession, DropSession
  <2>2. rx # <<>>
    BY <1>7 DEF HandleSetBaud, Takes
  <2>3. Tail(rx) \in Seq(Messages) /\ Len(Tail(rx)) <= MaxRx
    BY <2>2
  <2> QED BY <2>1, <2>3, EmptyQueue, Zenon
<1>8. CASE HandleOta
  <2>1. rx' = <<>> \/ rx' = Tail(rx)
    BY <1>8 DEF HandleOta, EndSession, DropSession
  <2>2. rx # <<>>
    BY <1>8 DEF HandleOta, Takes
  <2>3. Tail(rx) \in Seq(Messages) /\ Len(Tail(rx)) <= MaxRx
    BY <2>2
  <2> QED BY <2>1, <2>3, EmptyQueue, Zenon
<1>9. CASE DeadlinePasses
  BY <1>9 DEF DeadlinePasses, session, DropSession, EndSession
<1>10. CASE Disconnected
  BY <1>10 DEF Disconnected, session, DropSession, EndSession
<1>11. CASE ProbeDone
  BY <1>11 DEF ProbeDone, session, DropSession, EndSession
<1>12. CASE ProbeFails
  BY <1>12 DEF ProbeFails, session, DropSession, EndSession
<1>13. CASE OtaBegins
  BY <1>13 DEF OtaBegins, session, DropSession, EndSession
<1>14. CASE OtaFails
  <2>1. rx' = <<>> \/ rx' = rx
    BY <1>14 DEF OtaFails, session, EndSession, DropSession
  <2> QED BY <2>1, EmptyQueue, Zenon
<1>15. CASE OtaCompletes
  <2>1. DropSession
    BY <1>15 DEF OtaCompletes, Restart
  <2> QED BY <2>1 DEF DropSession
<1>16. CASE Elapse
  BY <1>16 DEF Elapse, session, DropSession, EndSession
<1>17. CASE WatchdogReset
  BY <1>17 DEF WatchdogReset, session, DropSession, EndSession, Restart
<1>18. CASE BrokerUp
  <2>1. rx' = Append(rx, [kind |-> "Connected"]) /\ Len(rx) < MaxRx
    BY <1>18 DEF BrokerUp
  <2> QED BY <2>1, ConnectedMessage
<1>19. CASE BrokerDown
  BY <1>19 DEF BrokerDown, session, DropSession, EndSession
<1>20. CASE PumpEnds
  BY <1>20 DEF PumpEnds, session, DropSession, EndSession
<1>21. CASE PowerCycle
  BY <1>21 DEF PowerCycle, session, DropSession, EndSession, Restart
<1>22. ASSUME NEW topic \in Topics, NEW payload \in Payloads, NEW retain \in BOOLEAN,
            Publish(topic, payload, retain)
     PROVE  QueueTypes'
  <2>1. rx' = rx \o Routed(topic, payload)
        /\ Routed(topic, payload) # <<>> /\ Len(rx) < MaxRx
    BY <1>22 DEF Publish
  <2> QED BY <2>1, RoutedMessages
<1>23. CASE UNCHANGED vars
  BY <1>23 DEF vars, session, DropSession, EndSession
<1> QED
  BY <1>1, <1>2, <1>3, <1>4, <1>5, <1>6, <1>7, <1>8, <1>9, <1>10, <1>11, <1>12, <1>13,
     <1>14, <1>15, <1>16, <1>17, <1>18, <1>19, <1>20, <1>21, <1>22, <1>23 DEF Next,
     Works, World

\* The session, the broker and what is used up of the bounds.
LEMMA SessionTypesStep ==
  ASSUME WorkerTypeOK, FedInTime, [Next]_vars
  PROVE  SessionTypes'
<1> USE WorkerAssumption DEF WorkerTypeOK, SessionTypes
<1>1. CASE Connect
  BY <1>1 DEF Connect, session, bounds, DropSession, EndSession
<1>2. CASE ConnectFails
  BY <1>2 DEF ConnectFails, session, bounds, DropSession, EndSession
<1>3. CASE Reconnect
  BY <1>3 DEF Reconnect, session, bounds, DropSession, EndSession
<1>4. CASE HandleConnected
  BY <1>4 DEF HandleConnected, session, bounds, DropSession, EndSession, SubscribeAll
<1>5. CASE HandleControl
  BY <1>5 DEF HandleControl, session, bounds, DropSession, EndSession
<1>6. CASE HandleProbe
  BY <1>6 DEF HandleProbe, session, bounds, DropSession, EndSession
<1>7. CASE HandleSetBaud
  <2>1. \/ EndSession
        \/ UNCHANGED <<pumping, broker, subscribed, clearing, retained, bounds>>
    BY <1>7 DEF HandleSetBaud
  <2> QED BY <2>1 DEF bounds, DropSession, EndSession
<1>8. CASE HandleOta
  <2>1. \/ EndSession
        \/ /\ UNCHANGED <<pumping, broker, subscribed, bounds>>
           /\ retained' \in BOOLEAN /\ clearing' \in BOOLEAN
    <3>1. ASSUME NEW result, ClearOtaTrigger(result)
          PROVE  retained' \in BOOLEAN /\ clearing' \in BOOLEAN
      BY <3>1, Zenon DEF ClearOtaTrigger
    <3> QED BY <3>1, <1>8 DEF HandleOta
  <2> QED BY <2>1 DEF bounds, DropSession, EndSession
<1>9. CASE DeadlinePasses
  BY <1>9 DEF DeadlinePasses, session, bounds, DropSession, EndSession
<1>10. CASE Disconnected
  BY <1>10 DEF Disconnected, session, bounds, DropSession, EndSession
<1>11. CASE ProbeDone
  BY <1>11 DEF ProbeDone, session, bounds, DropSession, EndSession
<1>12. CASE ProbeFails
  BY <1>12 DEF ProbeFails, session, bounds, DropSession, EndSession
<1>13. CASE OtaBegins
  BY <1>13 DEF OtaBegins, session, bounds, DropSession, EndSession
<1>14. CASE OtaFails
  <2>1. EndSession \/ UNCHANGED <<session, retained, bounds>>
    BY <1>14 DEF OtaFails
  <2> QED BY <2>1 DEF session, bounds, DropSession, EndSession
<1>15. CASE OtaCompletes
  <2>1. DropSession /\ UNCHANGED <<retained, bounds>>
    BY <1>15 DEF OtaCompletes, Restart
  <2> QED BY <2>1 DEF bounds, DropSession
<1>16. CASE Elapse
  BY <1>16 DEF Elapse, session, bounds, DropSession, EndSession
<1>17. CASE WatchdogReset
  BY <1>17 DEF WatchdogReset, session, bounds, DropSession, EndSession, Restart
<1>18. CASE BrokerUp
  BY <1>18 DEF BrokerUp, session, bounds, DropSession, EndSession
<1>19. CASE BrokerDown
  <2>1. drops' \in 0 .. MaxDrops /\ UNCHANGED <<triggers, burst>>
    BY <1>19 DEF BrokerDown
  <2>2. broker' = FALSE /\ subscribed' = FALSE
        /\ UNCHANGED <<pumping, clearing, retained>>
    BY <1>19 DEF BrokerDown
  <2> QED BY <2>1, <2>2, Zenon
<1>20. CASE PumpEnds
  <2>1. drops' \in 0 .. MaxDrops /\ UNCHANGED <<triggers, burst>>
    BY <1>20 DEF PumpEnds
  <2>2. pumping' = FALSE /\ broker' = FALSE /\ subscribed' = FALSE
        /\ UNCHANGED <<clearing, retained>>
    BY <1>20 DEF PumpEnds
  <2> QED BY <2>1, <2>2, Zenon
<1>21. CASE PowerCycle
  BY <1>21 DEF PowerCycle, session, bounds, DropSession, EndSession, Restart
<1>22. ASSUME NEW topic \in Topics, NEW payload \in Payloads, NEW retain \in BOOLEAN,
            Publish(topic, payload, retain)
     PROVE  SessionTypes'
  BY <1>22 DEF Publish, session, bounds, DropSession, EndSession
<1>23. CASE UNCHANGED vars
  BY <1>23 DEF vars, session, bounds, DropSession, EndSession
<1> QED
  BY <1>1, <1>2, <1>3, <1>4, <1>5, <1>6, <1>7, <1>8, <1>9, <1>10, <1>11, <1>12, <1>13,
     <1>14, <1>15, <1>16, <1>17, <1>18, <1>19, <1>20, <1>21, <1>22, <1>23 DEF Next,
     Works, World

\* The app slots.
LEMMA FlashTypesStep ==
  ASSUME WorkerTypeOK, FedInTime, [Next]_vars
  PROVE  FlashTypes'
<1> USE WorkerAssumption DEF WorkerTypeOK, FlashTypes
<1>1. CASE Connect
  BY <1>1 DEF Connect, flash, Slots
<1>2. CASE ConnectFails
  BY <1>2 DEF ConnectFails, flash, Slots, EndSession
<1>3. CASE Reconnect
  BY <1>3 DEF Reconnect, flash, Slots
<1>4. CASE HandleConnected
  BY <1>4 DEF HandleConnected, flash, Slots, ConfirmRunningSlot, Slot, Images
<1>5. CASE HandleControl
  BY <1>5 DEF HandleControl, flash, Slots
<1>6. CASE HandleProbe
  BY <1>6 DEF HandleProbe, flash, Slots
<1>7. CASE HandleSetBaud
  BY <1>7 DEF HandleSetBaud, flash, Slots, EndSession
<1>8. CASE HandleOta
  BY <1>8 DEF HandleOta, flash, Slots, EndSession
<1>9. CASE DeadlinePasses
  BY <1>9 DEF DeadlinePasses, flash, Slots
<1>10. CASE Disconnected
  BY <1>10 DEF Disconnected, flash, Slots, EndSession
<1>11. CASE ProbeDone
  BY <1>11 DEF ProbeDone, flash, Slots
<1>12. CASE ProbeFails
  BY <1>12 DEF ProbeFails, flash, Slots, EndSession
<1>13. CASE OtaBegins
  BY <1>13 DEF OtaBegins, flash, Slots, Slot, Images, Other
<1>14. CASE OtaFails
  BY <1>14 DEF OtaFails, flash, Slots, EndSession
<1>15. CASE OtaCompletes
  BY <1>15 DEF OtaCompletes, flash, Slots, Restart, Boots, Slot, Images, Other
<1>16. CASE Elapse
  BY <1>16 DEF Elapse, flash, Slots
<1>17. CASE WatchdogReset
  BY <1>17 DEF WatchdogReset, flash, Slots, Restart, Boots, Slot, Images, Other
<1>18. CASE BrokerUp
  BY <1>18 DEF BrokerUp, flash, Slots
<1>19. CASE BrokerDown
  BY <1>19 DEF BrokerDown, flash, Slots
<1>20. CASE PumpEnds
  BY <1>20 DEF PumpEnds, flash, Slots
<1>21. CASE PowerCycle
  BY <1>21 DEF PowerCycle, flash, Slots, Restart, Boots, Slot, Images, Other
<1>22. ASSUME NEW topic \in Topics, NEW payload \in Payloads, NEW retain \in BOOLEAN,
            Publish(topic, payload, retain)
     PROVE  FlashTypes'
  BY <1>22 DEF Publish, flash, Slots
<1>23. CASE UNCHANGED vars
  BY <1>23 DEF vars, flash, Slots
<1> QED
  BY <1>1, <1>2, <1>3, <1>4, <1>5, <1>6, <1>7, <1>8, <1>9, <1>10, <1>11, <1>12, <1>13,
     <1>14, <1>15, <1>16, <1>17, <1>18, <1>19, <1>20, <1>21, <1>22, <1>23 DEF Next,
     Works, World

-----------------------------------------------------------------------------
\* The watchdog is fed in time.
LEMMA FedInTimeStep ==
  ASSUME WorkerTypeOK, FedInTime, [Next]_vars
  PROVE  FedInTime'
<1> USE WorkerAssumption DEF WorkerTypeOK, ThreadTypes, FedInTime
<1>1. CASE Connect
  BY <1>1 DEF Connect, NextTurn, Feed, TickControl, OfflineTick, EndSession, clocks,
         since
<1>2. CASE ConnectFails
  BY <1>2 DEF ConnectFails, NextTurn, Feed, TickControl, OfflineTick, EndSession,
         clocks, since
<1>3. CASE Reconnect
  BY <1>3 DEF Reconnect, NextTurn, Feed, TickControl, OfflineTick, EndSession, clocks,
         since
<1>4. CASE HandleConnected
  BY <1>4 DEF HandleConnected, NextTurn, Feed, TickControl, OfflineTick, EndSession,
         clocks, since, Takes
<1>5. CASE HandleControl
  BY <1>5 DEF HandleControl, NextTurn, Feed, TickControl, OfflineTick, EndSession,
         clocks, since, Takes
<1>6. CASE HandleProbe
  BY <1>6 DEF HandleProbe, NextTurn, Feed, TickControl, OfflineTick, EndSession,
         clocks, since, Takes
<1>7. CASE HandleSetBaud
  <2>1. EndSession \/ (NextTurn /\ UNCHANGED toTick)
    BY <1>7 DEF HandleSetBaud
  <2> QED BY <2>1 DEF NextTurn, Feed, OfflineTick, EndSession
<1>8. CASE HandleOta
  <2>1. \/ EndSession
        \/ pc' = "ota"
        \/ NextTurn /\ UNCHANGED toTick
    BY <1>8 DEF HandleOta
  <2> QED BY <2>1 DEF NextTurn, Feed, OfflineTick, EndSession
<1>9. CASE DeadlinePasses
  <2>1. pc = "wait" /\ toTick' \in 0 .. ControlTick
    BY <1>9, ThreadTypesStep DEF DeadlinePasses
  <2>2. \/ pc' = "probe" /\ busy' = 0 /\ UNCHANGED sinceFed
        \/ NextTurn
    BY <1>9 DEF DeadlinePasses
  <2> QED BY <2>1, <2>2 DEF NextTurn, Feed
<1>10. CASE Disconnected
  BY <1>10 DEF Disconnected, NextTurn, Feed, TickControl, OfflineTick, EndSession,
         clocks, since
<1>11. CASE ProbeDone
  BY <1>11 DEF ProbeDone, NextTurn, Feed, TickControl, OfflineTick, EndSession,
         clocks, since
<1>12. CASE ProbeFails
  BY <1>12 DEF ProbeFails, NextTurn, Feed, TickControl, OfflineTick, EndSession,
         clocks, since
<1>13. CASE OtaBegins
  BY <1>13 DEF OtaBegins, NextTurn, Feed, TickControl, OfflineTick, EndSession,
         clocks, since
<1>14. CASE OtaFails
  BY <1>14 DEF OtaFails, NextTurn, Feed, TickControl, OfflineTick, EndSession, clocks,
         since
<1>15. CASE OtaCompletes
  BY <1>15 DEF OtaCompletes, NextTurn, Feed, TickControl, OfflineTick, EndSession,
         clocks, since, Restart
<1>16. CASE Elapse
  <2>1. /\ UNCHANGED pc
        /\ busy' = IF pc \in {"probe", "offline"} THEN busy + 1 ELSE busy
        /\ toTick' = Left(toTick) /\ toWake' = Left(toWake)
        /\ sinceTick' \in {sinceTick, sinceTick + 1} /\ sinceFed' = sinceFed + 1
        /\ UNCHANGED since
    BY <1>16 DEF Elapse, since
  <2>2. CASE pc = "wait" /\ toTick > 0
    BY <2>1, <2>2 DEF Left
  <2>3. CASE pc = "probe" /\ busy < ProbeTime
    BY <2>1, <2>3 DEF Left
  <2>4. CASE pc = "offline" /\ busy < ControlTick
    BY <2>1, <2>4
  <2>5. CASE pc = "ota" /\ sinceFed <= Watchdog
    BY <2>1, <2>5 DEF Left
  <2> QED BY <2>2, <2>3, <2>4, <2>5, <1>16 DEF Elapse, MayWait
<1>17. CASE WatchdogReset
  BY <1>17 DEF WatchdogReset, NextTurn, Feed, TickControl, OfflineTick, EndSession,
         clocks, since, Restart
<1>18. CASE BrokerUp
  BY <1>18 DEF BrokerUp, NextTurn, Feed, TickControl, OfflineTick, EndSession, clocks,
         since
<1>19. CASE BrokerDown
  BY <1>19 DEF BrokerDown, NextTurn, Feed, TickControl, OfflineTick, EndSession,
         clocks, since
<1>20. CASE PumpEnds
  BY <1>20 DEF PumpEnds, NextTurn, Feed, TickControl, OfflineTick, EndSession, clocks,
         since
<1>21. CASE PowerCycle
  BY <1>21 DEF PowerCycle, NextTurn, Feed, TickControl, OfflineTick, EndSession,
         clocks, since, Restart
<1>22. ASSUME NEW topic \in Topics, NEW payload \in Payloads, NEW retain \in BOOLEAN,
            Publish(topic, payload, retain)
     PROVE  FedInTime'
  BY <1>22 DEF Publish, NextTurn, Feed, TickControl, OfflineTick, EndSession, clocks,
         since
<1>23. CASE UNCHANGED vars
  BY <1>23 DEF vars, NextTurn, Feed, TickControl, OfflineTick, EndSession, clocks, since
<1> QED
  BY <1>1, <1>2, <1>3, <1>4, <1>5, <1>6, <1>7, <1>8, <1>9, <1>10, <1>11, <1>12, <1>13,
     <1>14, <1>15, <1>16, <1>17, <1>18, <1>19, <1>20, <1>21, <1>22, <1>23 DEF Next,
     Works, World

\* How the time blocked for adds up.
LEMMA BlockedAdds ==
  ASSUME WorkerTypeOK
  PROVE  /\ Blocked \in Nat
         /\ probes' = 0 /\ flashes' = 0 => Blocked' = 0
         /\ UNCHANGED since => Blocked' = Blocked
         /\ probes' = probes + 1 /\ UNCHANGED flashes => Blocked' = Blocked + ProbeTime
         /\ flashes' = flashes + 1 /\ UNCHANGED probes => Blocked' = Blocked + Watchdog + 1
<1>1. probes \in Nat /\ flashes \in Nat /\ ProbeTime \in Nat /\ Watchdog \in Nat
  BY WorkerAssumption DEF WorkerTypeOK, ThreadTypes
<1>2. Blocked \in Nat
  BY <1>1 DEF Blocked
<1>3. ASSUME probes' = 0, flashes' = 0
      PROVE  Blocked' = 0
  BY <1>1, <1>3 DEF Blocked
<1>4. ASSUME UNCHANGED since
      PROVE  Blocked' = Blocked
  BY <1>4 DEF Blocked, since
<1>5. ASSUME probes' = probes + 1, UNCHANGED flashes
      PROVE  Blocked' = Blocked + ProbeTime
  BY <1>1, <1>5 DEF Blocked
<1>6. ASSUME flashes' = flashes + 1, UNCHANGED probes
      PROVE  Blocked' = Blocked + Watchdog + 1
  BY <1>1, <1>6 DEF Blocked
<1> QED BY <1>2, <1>3, <1>4, <1>5, <1>6

\* The next tick is in time.
LEMMA TickInTimeStep ==
  ASSUME WorkerTypeOK, FedInTime, TickInTime, [Next]_vars
  PROVE  TickInTime'
<1> USE WorkerAssumption, BlockedAdds
        DEF WorkerTypeOK, ThreadTypes, FedInTime, TickInTime, Fits
<1>1. CASE Connect
  BY <1>1 DEF Connect, NextTurn, Feed, TickControl, OfflineTick, EndSession, clocks,
         since
<1>2. CASE ConnectFails
  BY <1>2 DEF ConnectFails, NextTurn, Feed, TickControl, OfflineTick, EndSession,
         clocks, since
<1>3. CASE Reconnect
  BY <1>3 DEF Reconnect, NextTurn, Feed, TickControl, OfflineTick, EndSession, clocks,
         since
<1>4. CASE HandleConnected
  BY <1>4 DEF HandleConnected, NextTurn, Feed, TickControl, OfflineTick, EndSession,
         clocks, since, Takes
<1>5. CASE HandleControl
  BY <1>5 DEF HandleControl, NextTurn, Feed, TickControl, OfflineTick, EndSession,
         clocks, since, Takes
<1>6. CASE HandleProbe
  <2>1. pc = "wait" /\ pc' = "probe" /\ busy' = 0
    BY <1>6 DEF HandleProbe, Takes
  <2>2. UNCHANGED <<toTick, toWake, sinceTick>> /\ Blocked' = Blocked + ProbeTime
    BY <1>6 DEF HandleProbe, clocks
  <2> QED BY <2>1, <2>2
<1>7. CASE HandleSetBaud
  <2>1. EndSession \/ (NextTurn /\ UNCHANGED <<toTick, toWake, sinceTick, since>>)
    BY <1>7 DEF HandleSetBaud
  <2>2. pc = "wait"
    BY <1>7 DEF HandleSetBaud, Takes
  <2> QED BY <2>1, <2>2 DEF NextTurn, Feed, TickControl, OfflineTick, EndSession
<1>8. CASE HandleOta
  <2>1. \/ EndSession
        \/ /\ UNCHANGED <<toTick, toWake, sinceTick, probes>>
           /\ \/ pc' = "ota" /\ flashes' = flashes + 1 /\ UNCHANGED sinceFed
              \/ NextTurn /\ UNCHANGED flashes
    BY <1>8 DEF HandleOta
  <2>2. pc = "wait"
    BY <1>8 DEF HandleOta, Takes
  <2> QED BY <2>1, <2>2 DEF NextTurn, Feed, TickControl, OfflineTick, EndSession, since
<1>9. CASE DeadlinePasses
  <2>1. pc = "wait"
    BY <1>9 DEF DeadlinePasses
  <2>2. \/ TickControl /\ toTick' = ControlTick
        \/ toTick > 0 /\ UNCHANGED <<toTick, sinceTick, since>>
    BY <1>9 DEF DeadlinePasses
  <2>3. \/ toWake = 0 /\ pc' = "probe" /\ busy' = 0 /\ toWake' = AutoWake
        \/ NextTurn /\ UNCHANGED toWake
    BY <1>9 DEF DeadlinePasses
  <2> QED BY <2>1, <2>2, <2>3 DEF NextTurn, Feed, TickControl
<1>10. CASE Disconnected
  BY <1>10 DEF Disconnected, NextTurn, Feed, TickControl, OfflineTick, EndSession,
         clocks, since
<1>11. CASE ProbeDone
  BY <1>11 DEF ProbeDone, NextTurn, Feed, TickControl, OfflineTick, EndSession,
         clocks, since
<1>12. CASE ProbeFails
  BY <1>12 DEF ProbeFails, NextTurn, Feed, TickControl, OfflineTick, EndSession,
         clocks, since
<1>13. CASE OtaBegins
  BY <1>13 DEF OtaBegins, NextTurn, Feed, TickControl, OfflineTick, EndSession,
         clocks, since
<1>14. CASE OtaFails
  BY <1>14 DEF OtaFails, NextTurn, Feed, TickControl, OfflineTick, EndSession, clocks,
         since
<1>15. CASE OtaCompletes
  BY <1>15 DEF OtaCompletes, NextTurn, Feed, TickControl, OfflineTick, EndSession,
         clocks, since, Restart
<1>16. CASE Elapse
  <2>1. /\ UNCHANGED pc
        /\ busy' = IF pc \in {"probe", "offline"} THEN busy + 1 ELSE busy
        /\ toTick' = Left(toTick) /\ toWake' = Left(toWake)
        /\ sinceTick' \in {sinceTick, sinceTick + 1} /\ sinceFed' = sinceFed + 1
        /\ UNCHANGED since
    BY <1>16 DEF Elapse, since
  <2>2. CASE pc = "wait" /\ toTick > 0
    BY <2>1, <2>2 DEF Left
  <2>3. CASE pc = "probe" /\ busy < ProbeTime
    BY <2>1, <2>3 DEF Left
  <2>4. CASE pc = "offline" /\ busy < ControlTick
    BY <2>1, <2>4
  <2>5. CASE pc = "ota" /\ sinceFed <= Watchdog
    BY <2>1, <2>5 DEF Left
  <2> QED BY <2>2, <2>3, <2>4, <2>5, <1>16 DEF Elapse, MayWait
<1>17. CASE WatchdogReset
  BY <1>17 DEF WatchdogReset, NextTurn, Feed, TickControl, OfflineTick, EndSession,
         clocks, since, Restart
<1>18. CASE BrokerUp
  BY <1>18 DEF BrokerUp, NextTurn, Feed, TickControl, OfflineTick, EndSession, clocks,
         since
<1>19. CASE BrokerDown
  BY <1>19 DEF BrokerDown, NextTurn, Feed, TickControl, OfflineTick, EndSession,
         clocks, since
<1>20. CASE PumpEnds
  BY <1>20 DEF PumpEnds, NextTurn, Feed, TickControl, OfflineTick, EndSession, clocks,
         since
<1>21. CASE PowerCycle
  BY <1>21 DEF PowerCycle, NextTurn, Feed, TickControl, OfflineTick, EndSession,
         clocks, since, Restart
<1>22. ASSUME NEW topic \in Topics, NEW payload \in Payloads, NEW retain \in BOOLEAN,
            Publish(topic, payload, retain)
     PROVE  TickInTime'
  BY <1>22 DEF Publish, NextTurn, Feed, TickControl, OfflineTick, EndSession, clocks,
         since
<1>23. CASE UNCHANGED vars
  BY <1>23 DEF vars, NextTurn, Feed, TickControl, OfflineTick, EndSession, clocks, since
<1> QED
  BY <1>1, <1>2, <1>3, <1>4, <1>5, <1>6, <1>7, <1>8, <1>9, <1>10, <1>11, <1>12, <1>13,
     <1>14, <1>15, <1>16, <1>17, <1>18, <1>19, <1>20, <1>21, <1>22, <1>23 DEF Next,
     Works, World

-----------------------------------------------------------------------------
\* What the bootloader needs to find: a valid image, or another one over a valid one.
Bootable(written, first) ==
  /\ \A s \in Slots : written[s].state = "valid" => written[s].image = "good"
  /\ \/ written[first].state = "valid"
     \/ /\ \/ written[first].state \in {"new", "pending"}
           \/ written[first].image = "partial"
        /\ written[Other(first)].state = "valid"

\* It then leaves the slots in order.
LEMMA BootsInOrder ==
  ASSUME NEW written \in [Slots -> Slot], NEW first \in Slots,
         Bootable(written, first), Boots(written, first)
  PROVE  SlotsInOrder'
<1> USE DEF Slots, Slot, Other
<1>1. CASE written[first].state = "new" /\ written[first].image # "partial"
  BY <1>1 DEF Boots, Bootable, SlotsInOrder
<1>2. CASE written[first].state = "pending" \/ written[first].image = "partial"
  BY <1>2 DEF Boots, Bootable, SlotsInOrder
<1>3. CASE /\ ~(written[first].state = "new" /\ written[first].image # "partial")
           /\ ~(written[first].state = "pending" \/ written[first].image = "partial")
  BY <1>3 DEF Boots, Bootable, SlotsInOrder
<1> QED BY <1>1, <1>2, <1>3

\* The bootloader finds that between any two steps.
LEMMA BootIsBootable ==
  ASSUME WorkerTypeOK, SlotsInOrder
  PROVE  Bootable(slots, boot)
BY DEF WorkerTypeOK, FlashTypes, SlotsInOrder, Bootable, Slots, Other

\* A valid image is always left.
LEMMA SlotsInOrderStep ==
  ASSUME WorkerTypeOK, SlotsInOrder, OnlyGoodHears, [Next]_vars
  PROVE  SlotsInOrder'
<1> USE WorkerAssumption DEF WorkerTypeOK, FlashTypes, SlotsInOrder, Slots, Other
<1>1. CASE Connect
  BY <1>1 DEF Connect, flash
<1>2. CASE ConnectFails
  BY <1>2 DEF ConnectFails, flash, EndSession
<1>3. CASE Reconnect
  BY <1>3 DEF Reconnect, flash
<1>4. CASE HandleConnected
  <2>1. CASE UNCHANGED slots
    BY <2>1, <1>4 DEF HandleConnected
  <2>2. CASE ConfirmRunningSlot
    <3>1. 1 \in DOMAIN rx /\ rx[1].kind = "Connected"
      BY <1>4 DEF HandleConnected, Takes, QueueTypes
    <3>2. slots[running].image = "good"
      BY <3>1 DEF OnlyGoodHears
    <3> QED BY <2>2, <3>2, <1>4 DEF HandleConnected, ConfirmRunningSlot, Slot
  <2> QED BY <2>1, <2>2, <1>4 DEF HandleConnected
<1>5. CASE HandleControl
  BY <1>5 DEF HandleControl, flash
<1>6. CASE HandleProbe
  BY <1>6 DEF HandleProbe, flash
<1>7. CASE HandleSetBaud
  BY <1>7 DEF HandleSetBaud, flash, EndSession
<1>8. CASE HandleOta
  BY <1>8 DEF HandleOta, flash, EndSession
<1>9. CASE DeadlinePasses
  BY <1>9 DEF DeadlinePasses, flash
<1>10. CASE Disconnected
  BY <1>10 DEF Disconnected, flash, EndSession
<1>11. CASE ProbeDone
  BY <1>11 DEF ProbeDone, flash
<1>12. CASE ProbeFails
  BY <1>12 DEF ProbeFails, flash, EndSession
<1>13. CASE OtaBegins
  BY <1>13 DEF OtaBegins, Slot
<1>14. CASE OtaFails
  BY <1>14 DEF OtaFails, flash, EndSession
<1>15. CASE OtaCompletes
  <2>1. PICK image \in {"good", "bad"} :
          LET written == [slots EXCEPT ![Other(running)] = [image |-> image, state |-> "new"]]
          IN \/ Boots(written, Other(running))
             \/ slots' = written /\ boot' = Other(running) /\ running' = running
    BY <1>15 DEF OtaCompletes, Restart
  <2>2. slots[running].state # "pending"
    BY <1>15 DEF OtaCompletes
  <2> DEFINE written == [slots EXCEPT ![Other(running)] = [image |-> image, state |-> "new"]]
  <2>3. /\ written \in [Slots -> Slot] /\ Other(running) \in Slots
        /\ Bootable(written, Other(running))
    BY <2>2 DEF Bootable, Slot, Images
  <2>4. CASE slots' = written /\ boot' = Other(running) /\ running' = running
    BY <2>2, <2>4 DEF Slot
  <2>5. CASE Boots(written, Other(running))
    BY <2>3, <2>5, BootsInOrder
  <2> QED BY <2>1, <2>4, <2>5
<1>16. CASE Elapse
  BY <1>16 DEF Elapse, flash
<1>17. CASE WatchdogReset
  <2>1. Boots(slots, boot)
    BY <1>17 DEF WatchdogReset, Restart
  <2> QED BY <2>1, BootIsBootable, BootsInOrder
<1>18. CASE BrokerUp
  BY <1>18 DEF BrokerUp, flash
<1>19. CASE BrokerDown
  BY <1>19 DEF BrokerDown, flash
<1>20. CASE PumpEnds
  BY <1>20 DEF PumpEnds, flash
<1>21. CASE PowerCycle
  <2>1. Boots(slots, boot)
    BY <1>21 DEF PowerCycle, Restart
  <2> QED BY <2>1, BootIsBootable, BootsInOrder
<1>22. ASSUME NEW topic \in Topics, NEW payload \in Payloads, NEW retain \in BOOLEAN,
            Publish(topic, payload, retain)
     PROVE  SlotsInOrder'
  BY <1>22 DEF Publish, flash
<1>23. CASE UNCHANGED vars
  BY <1>23 DEF vars, flash
<1> QED
  BY <1>1, <1>2, <1>3, <1>4, <1>5, <1>6, <1>7, <1>8, <1>9, <1>10, <1>11, <1>12, <1>13,
     <1>14, <1>15, <1>16, <1>17, <1>18, <1>19, <1>20, <1>21, <1>22, <1>23 DEF Next,
     Works, World

-----------------------------------------------------------------------------
\* Nobody reached the broker.
Silent(messages) == \A i \in DOMAIN messages : messages[i].kind # "Connected"

\* Taking a message leaves the channel silent.
LEMMA RestIsSilent ==
  ASSUME NEW messages \in Seq(Messages), messages # <<>>, Silent(messages)
  PROVE  Silent(Tail(messages))
<1>1. ASSUME NEW i \in DOMAIN Tail(messages)
      PROVE  Tail(messages)[i].kind # "Connected"
  <2>1. /\ i + 1 \in DOMAIN messages
        /\ Tail(messages)[i] = messages[i + 1]
    BY <1>1
  <2> QED BY <2>1 DEF Silent
<1> QED BY <1>1 DEF Silent

\* No publication passes for a connection.
LEMMA RoutedIsSilent ==
  ASSUME NEW topic, NEW payload
  PROVE  Silent(Routed(topic, payload))
<1> DEFINE Out == {[kind |-> "Control"], [kind |-> "SetBaud"], [kind |-> "Probe"],
                   [kind |-> "Ota", good |-> ValidateOtaUrl(payload)]}
<1>1. Routed(topic, payload) = <<>> \/ \E out \in Out : Routed(topic, payload) = <<out>>
  BY Zenon DEF Routed
<1>2. ASSUME NEW out \in Out
      PROVE  Silent(<<out>>)
  <2>1. out.kind # "Connected"
    OBVIOUS
  <2> HIDE DEF Out
  <2> QED BY <2>1 DEF Silent
<1>3. Silent(<<>>)
  BY DEF Silent
<1> HIDE DEF Out
<1> QED BY <1>1, <1>2, <1>3, Zenon

\* What is queued behind silence and is silent leaves it so.
LEMMA BothAreSilent ==
  ASSUME NEW before \in Seq(Messages), NEW after \in Seq(Messages),
         Silent(before), Silent(after)
  PROVE  Silent(before \o after)
<1>1. ASSUME NEW i \in DOMAIN (before \o after)
      PROVE  (before \o after)[i].kind # "Connected"
  <2>1. CASE i \in DOMAIN before
    BY <2>1 DEF Silent
  <2>2. CASE i \notin DOMAIN before
    <3>1. /\ i - Len(before) \in DOMAIN after
          /\ (before \o after)[i] = after[i - Len(before)]
      BY <1>1, <2>2
    <3> QED BY <3>1 DEF Silent
  <2> QED BY <2>1, <2>2
<1> QED BY <1>1 DEF Silent

\* The empty channel is silent.
LEMMA NothingIsSilent == Silent(<<>>)
BY DEF Silent

\* While the image that runs stays the same, what the channel brings it has to.
LEMMA HearsStays ==
  ASSUME OnlyGoodHears, slots'[running'].image = slots[running].image,
         Silent(rx) => Silent(rx')
  PROVE  OnlyGoodHears'
BY DEF OnlyGoodHears, Silent

\* An emptied channel tells nobody anything.
LEMMA HearsNothing ==
  ASSUME rx' = <<>>
  PROVE  OnlyGoodHears'
BY DEF OnlyGoodHears

\* A bad image never reaches its broker.
LEMMA OnlyGoodHearsStep ==
  ASSUME WorkerTypeOK, OnlyGoodHears, [Next]_vars
  PROVE  OnlyGoodHears'
<1> USE DEF WorkerTypeOK, QueueTypes
<1>1. CASE Connect
  BY <1>1, HearsNothing DEF Connect
<1>2. CASE ConnectFails
  BY <1>2, HearsNothing DEF ConnectFails, EndSession, DropSession
<1>3. CASE Reconnect
  BY <1>3, HearsStays DEF Reconnect, session, flash
<1>4. CASE HandleConnected
  <2>1. slots'[running'].image = slots[running].image
    <3>1. CASE UNCHANGED slots
      BY <1>4, <3>1 DEF HandleConnected
    <3>2. CASE ConfirmRunningSlot
      BY <1>4, <3>2 DEF HandleConnected, ConfirmRunningSlot, FlashTypes, Slot
    <3> QED BY <1>4, <3>1, <3>2 DEF HandleConnected
  <2>2. PICK more \in {Routed("ota", "good"), <<>>} : rx' = Tail(rx) \o more
    BY <1>4 DEF HandleConnected
  <2>3. more \in Seq(Messages) /\ Silent(more)
    BY RoutedMessages, RoutedIsSilent, EmptyQueue, NothingIsSilent, Zenon
  <2>4. rx # <<>>
    BY <1>4 DEF HandleConnected, Takes
  <2>5. Silent(rx) => Silent(Tail(rx))
    BY <2>4, RestIsSilent
  <2>6. Tail(rx) \in Seq(Messages)
    BY <2>4
  <2>7. Silent(rx) => Silent(rx')
    BY <2>2, <2>3, <2>5, <2>6, BothAreSilent
  <2> QED BY <2>1, <2>7, HearsStays
<1>5. CASE HandleControl
  <2>1. Silent(rx) => Silent(Tail(rx))
    BY <1>5, RestIsSilent DEF HandleControl, Takes
  <2> QED BY <1>5, <2>1, HearsStays DEF HandleControl, flash
<1>6. CASE HandleProbe
  <2>1. Silent(rx) => Silent(Tail(rx))
    BY <1>6, RestIsSilent DEF HandleProbe, Takes
  <2> QED BY <1>6, <2>1, HearsStays DEF HandleProbe, flash
<1>7. CASE HandleSetBaud
  <2>1. CASE EndSession
    BY <2>1, HearsNothing DEF EndSession, DropSession
  <2>2. CASE ~EndSession
    <3>1. Silent(rx) => Silent(Tail(rx))
      BY <1>7, RestIsSilent DEF HandleSetBaud, Takes
    <3>2. rx' = Tail(rx) /\ UNCHANGED flash
      BY <1>7, <2>2 DEF HandleSetBaud
    <3> QED BY <3>1, <3>2, HearsStays DEF flash
  <2> QED BY <2>1, <2>2
<1>8. CASE HandleOta
  <2>1. CASE EndSession
    BY <2>1, HearsNothing DEF EndSession, DropSession
  <2>2. CASE ~EndSession
    <3>1. Silent(rx) => Silent(Tail(rx))
      BY <1>8, RestIsSilent DEF HandleOta, Takes
    <3>2. rx' = Tail(rx) /\ UNCHANGED flash
      BY <1>8, <2>2 DEF HandleOta
    <3> QED BY <3>1, <3>2, HearsStays DEF flash
  <2> QED BY <2>1, <2>2
<1>9. CASE DeadlinePasses
  BY <1>9, HearsStays DEF DeadlinePasses, session, flash
<1>10. CASE Disconnected
  BY <1>10, HearsNothing DEF Disconnected, EndSession, DropSession
<1>11. CASE ProbeDone
  BY <1>11, HearsStays DEF ProbeDone, session, flash
<1>12. CASE ProbeFails
  BY <1>12, HearsNothing DEF ProbeFails, EndSession, DropSession
<1>13. CASE OtaBegins
  <2>1. slots'[running'].image = slots[running].image
    BY <1>13 DEF OtaBegins, FlashTypes, Slots, Other
  <2>2. rx' = rx
    BY <1>13 DEF OtaBegins, session
  <2> QED BY <2>1, <2>2, HearsStays
<1>14. CASE OtaFails
  <2>1. CASE EndSession
    BY <2>1, HearsNothing DEF EndSession, DropSession
  <2>2. CASE ~EndSession
    <3>1. UNCHANGED <<session, flash>>
      BY <1>14, <2>2 DEF OtaFails
    <3> QED BY <3>1, HearsStays DEF session, flash
  <2> QED BY <2>1, <2>2
<1>15. CASE OtaCompletes
  BY <1>15, HearsNothing DEF OtaCompletes, Restart, DropSession
<1>16. CASE Elapse
  BY <1>16, HearsStays DEF Elapse, session, flash
<1>17. CASE WatchdogReset
  BY <1>17, HearsNothing DEF WatchdogReset, Restart, DropSession
<1>18. CASE BrokerUp
  <2>1. slots[running].image = "good" /\ UNCHANGED flash
    BY <1>18 DEF BrokerUp
  <2> QED BY <2>1 DEF OnlyGoodHears, flash
<1>19. CASE BrokerDown
  BY <1>19, HearsStays DEF BrokerDown, session, flash
<1>20. CASE PumpEnds
  BY <1>20, HearsStays DEF PumpEnds, session, flash
<1>21. CASE PowerCycle
  BY <1>21, HearsNothing DEF PowerCycle, Restart, DropSession
<1>22. ASSUME NEW topic \in Topics, NEW payload \in Payloads, NEW retain \in BOOLEAN,
            Publish(topic, payload, retain)
     PROVE  OnlyGoodHears'
  <2>1. rx' = rx \o Routed(topic, payload) /\ UNCHANGED flash
    BY <1>22 DEF Publish
  <2>2. Silent(rx) => Silent(rx')
    BY <2>1, RoutedMessages, RoutedIsSilent, BothAreSilent
  <2> QED BY <2>1, <2>2, HearsStays DEF flash
<1>23. CASE UNCHANGED vars
  BY <1>23, HearsStays DEF vars, session, flash
<1> QED
  BY <1>1, <1>2, <1>3, <1>4, <1>5, <1>6, <1>7, <1>8, <1>9, <1>10, <1>11, <1>12, <1>13,
     <1>14, <1>15, <1>16, <1>17, <1>18, <1>19, <1>20, <1>21, <1>22, <1>23 DEF Next,
     Works, World

-----------------------------------------------------------------------------
\* Power on.
LEMMA WorkerInvInit ==
  ASSUME Init
  PROVE  WorkerInv
<1>1. WorkerTypeOK
  <2>1. ThreadTypes
    BY WorkerAssumption, TickCapNat DEF Init, ThreadTypes
  <2>2. QueueTypes
    BY EmptyQueue DEF Init, QueueTypes
  <2>3. SessionTypes
    <3>1. 0 \in 0 .. MaxTriggers /\ 0 \in 0 .. MaxDrops /\ 0 \in 0 .. MaxBurst
      BY WorkerAssumption
    <3> QED BY <3>1, Zenon DEF Init, SessionTypes
  <2>4. FlashTypes
    BY DEF Init, FlashTypes, Slots, Slot, Images
  <2> QED BY <2>1, <2>2, <2>3, <2>4 DEF WorkerTypeOK
<1>2. FedInTime
  BY WorkerAssumption DEF Init, FedInTime
<1>3. TickInTime
  BY WorkerAssumption DEF Init, TickInTime
<1>4. SlotsInOrder
  BY DEF Init, SlotsInOrder, Slots
<1>5. OnlyGoodHears
  BY HearsNothing DEF Init, OnlyGoodHears
<1> QED BY <1>1, <1>2, <1>3, <1>4, <1>5 DEF WorkerInv

\* The inductive invariant holds in every state of the worker, of its broker and of
\* the app slots.
THEOREM WorkerInvHolds == Spec => []WorkerInv
<1>1. Init => WorkerInv
  BY WorkerInvInit
<1>2. WorkerInv /\ [Next]_vars => WorkerInv'
  <2> SUFFICES ASSUME WorkerInv, [Next]_vars PROVE WorkerInv'
    OBVIOUS
  <2>1. WorkerTypeOK'
    BY ThreadTypesStep, QueueTypesStep, SessionTypesStep, FlashTypesStep
       DEF WorkerInv, WorkerTypeOK
  <2>2. FedInTime'
    BY FedInTimeStep DEF WorkerInv
  <2>3. TickInTime'
    BY TickInTimeStep DEF WorkerInv
  <2>4. SlotsInOrder'
    BY SlotsInOrderStep DEF WorkerInv
  <2>5. OnlyGoodHears'
    BY OnlyGoodHearsStep DEF WorkerInv
  <2> QED BY <2>1, <2>2, <2>3, <2>4, <2>5 DEF WorkerInv
<1> QED BY <1>1, <1>2, PTL DEF Spec

\* Thread, channel, session and slots stay in their ranges; above all both deadlines,
\* and the feed of the watchdog, which never waits longer than Watchdog and a reset.
THEOREM WorkerTypesCorrect == Spec => []WorkerTypeOK
<1>1. WorkerInv => WorkerTypeOK
  BY DEF WorkerInv
<1> QED BY <1>1, WorkerInvHolds, PTL

\* The invariant bounds the age of the tick.
LEMMA InTimeMeansBounded ==
  ASSUME WorkerTypeOK, FedInTime, TickInTime
  PROVE  TickLagBounded
<1> USE WorkerAssumption DEF WorkerTypeOK, ThreadTypes
<1>1. ProbeTime * probes \in Nat /\ (Watchdog + 1) * flashes \in Nat
  OBVIOUS
<1>2. Lag = ControlTick + ProbeTime + Blocked
  BY <1>1 DEF Lag, Blocked
<1>3. Blocked \in Nat
  BY <1>1 DEF Blocked
<1>4. ASSUME NEW rest \in Nat, Fits(rest)
      PROVE  TickLagBounded
  BY <1>2, <1>3, <1>4 DEF Fits, TickLagBounded
<1>5. CASE pc = "connect" \/ pc = "offline"
  BY <1>2, <1>3, <1>5 DEF TickInTime, FedInTime, TickLagBounded
<1>6. CASE pc = "wait"
  BY <1>4, <1>6 DEF TickInTime
<1>7. CASE pc = "probe"
  <2>1. ProbeTime - busy \in Nat
    BY <1>7 DEF FedInTime
  <2> QED BY <1>4, <1>7, <2>1 DEF TickInTime
<1>8. CASE pc = "ota"
  <2>1. Watchdog + 1 - sinceFed \in Nat
    OBVIOUS
  <2> QED BY <1>4, <1>8, <2>1 DEF TickInTime
<1> QED BY <1>5, <1>6, <1>7, <1>8

\* However messages, windows, downloads, outages and resets follow each other, a
\* control tick comes within ControlTick, one window per command handled since the
\* last one and one more, and the watchdog's time per download begun since.
THEOREM TicksAreInTime == Spec => []TickLagBounded
<1>1. WorkerInv => TickLagBounded
  BY InTimeMeansBounded DEF WorkerInv
<1> QED BY <1>1, WorkerInvHolds, PTL

\* Outside a download the watchdog is fed at least every ControlTick and one window,
\* so no series of failing sessions and windows makes it reset the chip.
THEOREM WatchdogSpares == Spec => []WatchdogSparesSessions
<1>1. WorkerInv => WatchdogSparesSessions
  BY WorkerAssumption
     DEF WorkerInv, WorkerTypeOK, ThreadTypes, FedInTime, WatchdogSparesSessions
<1> QED BY <1>1, WorkerInvHolds, PTL

\* Whatever OTAs begin, fail, complete or are cut off by a reset, one slot holds a
\* good image that is confirmed, and a bad one is confirmed in none.
THEOREM ImagesRevert == Spec => []RevertsToProven
<1>1. WorkerInv => RevertsToProven
  <2> SUFFICES ASSUME WorkerInv PROVE RevertsToProven
    OBVIOUS
  <2>1. PICK s \in Slots : slots[s].state = "valid"
    BY DEF WorkerInv, WorkerTypeOK, FlashTypes, SlotsInOrder, Slots, Other
  <2>2. slots[s] = [image |-> "good", state |-> "valid"]
    BY <2>1 DEF WorkerInv, WorkerTypeOK, FlashTypes, SlotsInOrder, Slot
  <2>3. \A r \in Slots : slots[r].image = "bad" => slots[r].state # "valid"
    BY DEF WorkerInv, SlotsInOrder
  <2> QED BY <2>2, <2>3 DEF RevertsToProven
<1> QED BY <1>1, WorkerInvHolds, PTL
=============================================================================
