----------------------------- MODULE BoardProofs -----------------------------
(***************************************************************************)
(* The invariants of Board, proved for every value of its constants: the   *)
(* tally of lost links, the debug level and the age of a poll on a clock   *)
(* that wraps, the answers of the meter slave.                             *)
(***************************************************************************)
EXTENDS Board, TLAPS

-----------------------------------------------------------------------------
(***************************************************************************)
(* The inductive invariant.                                                *)
(***************************************************************************)
\* A link goes down once for each time it came up or was tried, so at most one loss
\* waits for its watcher, behind at most one address.
LinkWaits ==
  \/ Len(events) = 0 /\ link = "up" /\ networkUp /\ fails = 0
  \/ Len(events) = 0 /\ link = "trying" /\ ~networkUp /\ fails <= outage
  \/ Len(events) = 0 /\ link = "down" /\ unanswered
  \/ Len(events) = 1 /\ events[1] = "lost" /\ link = "down" /\ fails + 1 <= outage
  \/ Len(events) = 1 /\ events[1] = "got ip" /\ link = "up"
  \/ /\ Len(events) = 2 /\ events[1] = "got ip" /\ events[2] = "lost"
     /\ link = "down" /\ 1 <= outage

Events == {"lost", "got ip"}

LinkTypes ==
  /\ stage \in {"join", "unwatched", "watched"} /\ link \in {"down", "trying", "up"}
  /\ fails \in 0 .. MaxReconnectFails /\ outage \in 0 .. MaxReconnectFails + 1

\* Between the join and the watchers the link is as the join left it, or lost for good.
LinkUnwatched ==
  /\ Len(events) = 0 /\ link # "trying"
  /\ stage = "unwatched" /\ link = "up" => networkUp
  /\ stage = "unwatched" /\ link = "down" => unanswered

LinkInv ==
  /\ LinkTypes /\ events \in Seq(Events)
  /\ IF stage = "watched" THEN LinkWaits ELSE LinkUnwatched

\* The deadline is what is left of DebugTtl after the clock, up to the unit of max(1)
\* and to a turn of the clock.
Deadline ==
  \E bump \in {0, 1}, turn \in {-Wrap, 0, Wrap} :
    /\ until = clock + DebugTtl + bump - debugAge + turn
    /\ debugAge <= DebugTtl + bump + sinceTick

LevelInv ==
  /\ clock \in 0 .. Wrap - 1
  /\ level \in {"info", "debug"} /\ until \in 0 .. Wrap - 1 /\ debugAge \in Nat
  /\ worker \in {"none", "idle", "ticks"}
  /\ sinceTick \in 0 .. TickLag
  /\ level = "debug" => worker # "none" /\ until # 0 /\ Deadline

\* Stamp and clock are as far apart as the age says, up to a turn of the clock.
StampInv ==
  /\ lastPoll \in 0 .. Wrap - 1 /\ stampAge \in 0 .. Wrap
  /\ stampAge < Wrap => lastPoll + stampAge - clock \in {0, Wrap}
  /\ worker = "ticks" => /\ nowMs \in 0 .. Wrap - 1 /\ sinceRead \in 0 .. 1
                         /\ nowMs + sinceRead - clock \in {0, Wrap}

Pieces == {"head", "tail", "other", "noise"}

Reads == Len(frame) + Len(fifo) + Len(line)

LineInOrder ==
  \A i \in 1 .. Len(line) : line[i] = asked[Len(asked) - Len(line) + i]

FifoInOrder ==
  \A i \in 1 .. Len(fifo) : fifo[i] = asked[Len(asked) - Len(line) - Len(fifo) + i]

FrameInOrder ==
  \A i \in 1 .. Len(frame) : frame[i] = asked[Len(asked) - Reads + i]

\* Frame, FIFO and line are the end of what the box sent, in its order.
InOrder ==
  /\ asked \in Requests \cup {<<>>}
  /\ line \in Seq(Pieces) /\ fifo \in Seq(Pieces) /\ frame \in Seq(Pieces)
  /\ Reads <= Len(asked)
  /\ LineInOrder /\ FifoInOrder /\ FrameInOrder
  /\ up \/ (fifo = <<>> /\ frame = <<>>)

OwnPoll == asked \in {Poll, <<"noise", "head", "tail">>}

\* A poll that nothing spoilt is on its way, recognised or answered.
Replied == answering \/ answers = 1

RequestInv ==
  /\ answers \in {0, 1}
  /\ InOrder
  /\ answering => answers = 0
  /\ Replied => OwnPoll /\ Reads = 0
  /\ asked = Poll /\ ~spoilt => up /\ (Replied \/ Reads = 2)

BoardInv == LinkInv /\ LevelInv /\ StampInv /\ RequestInv
-----------------------------------------------------------------------------
(***************************************************************************)
(* Who moves what.                                                         *)
(***************************************************************************)

\* A step is one of the link's or leaves the link alone, and so for the other parts.
LEMMA Steps ==
  ASSUME [Next]_vars
  PROVE  /\ WifiNext \/ Restart \/ UNCHANGED wifiVars
         /\ \/ MeterNext /\ clock' = clock
            \/ Restart \/ Elapse \/ SpawnSlave \/ UNCHANGED slaveVars
<1>1. CASE Wifi
  BY <1>1 DEF Wifi
<1>2. CASE SpawnWorker
  BY <1>2 DEF SpawnWorker
<1>3. CASE SpawnSlave
  BY <1>3 DEF SpawnSlave
<1>4. CASE Meter
  BY <1>4 DEF Meter
<1>5. ASSUME NEW new \in Levels, ApplyLevel(new)
      PROVE  UNCHANGED wifiVars /\ UNCHANGED slaveVars
  BY <1>5 DEF ApplyLevel
<1>6. CASE TickReads \/ TickLoads
  BY <1>6 DEF TickReads, TickLoads
<1>7. CASE WifiRestarts \/ PowerCycle
  BY <1>7 DEF WifiRestarts, PowerCycle
<1>8. CASE Elapse
  BY <1>8 DEF Elapse
<1>9. CASE UNCHANGED vars
  BY <1>9 DEF vars
<1> QED BY <1>1, <1>2, <1>3, <1>4, <1>5, <1>6, <1>7, <1>8, <1>9 DEF Next
-----------------------------------------------------------------------------
(***************************************************************************)
(* The link.                                                               *)
(***************************************************************************)

LEMMA EventNames ==
  "lost" \in Events /\ "got ip" \in Events
BY DEF Events

\* An event posted or handled, by its places in the queue.
LEMMA EventPosted ==
  ASSUME LinkInv, NEW event \in Events, events' = Posted(event)
  PROVE  /\ events' \in Seq(Events)
         /\ stage # "watched" => Len(events') = 0
         /\ stage = "watched" /\ Len(events) = 0 => Len(events') = 1 /\ events'[1] = event
         /\ stage = "watched" /\ Len(events) = 1 =>
              Len(events') = 2 /\ events'[1] = events[1] /\ events'[2] = event
BY DEF LinkInv, LinkTypes, LinkUnwatched, Posted

LEMMA EventHandled ==
  ASSUME LinkInv, NEW event \in Events, Handles(event), events' = Tail(events)
  PROVE  /\ events' \in Seq(Events) /\ events[1] = event /\ Len(events) # 0
         /\ Len(events) = 1 => Len(events') = 0
         /\ Len(events) = 2 => Len(events') = 1 /\ events'[1] = events[2]
         /\ stage = "watched" /\ LinkWaits
BY DEF LinkInv, LinkTypes, LinkUnwatched, Handles

LEMMA LinkStep ==
  ASSUME LinkInv, [Next]_vars
  PROVE  LinkInv'
<1> DEFINE Waiting == IF stage = "watched" THEN LinkWaits ELSE LinkUnwatched
<1> SUFFICES LinkTypes' /\ (events \in Seq(Events))' /\ Waiting'
  BY DEF LinkInv
<1>0. LinkTypes /\ events \in Seq(Events) /\ Waiting
  BY DEF LinkInv
<1>1. CASE JoinSucceeds
  <2>1. LinkTypes'
    BY <1>0, <1>1 DEF JoinSucceeds, LinkTypes
  <2>2. Waiting' /\ events' = events
    BY <1>0, <1>1 DEF JoinSucceeds, SetNetworkUp, LinkUnwatched
  <2> QED BY <1>0, <2>1, <2>2
<1>2. CASE JoinFails
  BY <1>0, <1>2 DEF JoinFails, LinkTypes, LinkUnwatched
<1>3. CASE Watch
  <2>1. LinkTypes'
    BY <1>0, <1>3, WifiAssumption DEF Watch, LinkTypes
  <2>2. Waiting' /\ events' = events
    BY <1>0, <1>3 DEF Watch, LinkTypes, LinkWaits, LinkUnwatched
  <2> QED BY <1>0, <2>1, <2>2
<1>4. CASE LinkLost
  <2>1. /\ events' \in Seq(Events)
        /\ stage # "watched" => Len(events') = 0
        /\ stage = "watched" /\ Len(events) = 0 => Len(events') = 1 /\ events'[1] = "lost"
        /\ stage = "watched" /\ Len(events) = 1 =>
             Len(events') = 2 /\ events'[1] = events[1] /\ events'[2] = "lost"
    BY <1>4, EventPosted, EventNames DEF LinkLost
  <2>2. outage' = CountedOutage /\ fails' = fails /\ stage' = stage /\ link' = "down"
    BY <1>4 DEF LinkLost
  <2>3. LinkTypes'
    BY <1>0, <2>2, WifiAssumption DEF LinkTypes, CountedOutage
  <2>4. CASE stage = "watched"
    <3>1. 1 <= outage' /\ (fails <= outage => fails + 1 <= outage')
      BY <1>0, <2>2, WifiAssumption DEF LinkTypes, CountedOutage
    <3>2. link = "up" \/ link = "trying"
      BY <1>4 DEF LinkLost
    <3>3. CASE Len(events) = 0 /\ fails <= outage
      <4>1. Len(events') = 1 /\ events'[1] = "lost"
        BY <2>1, <2>4, <3>3
      <4> QED BY <2>1, <2>2, <2>3, <2>4, <3>1, <3>3, <4>1 DEF LinkWaits
    <3>4. CASE Len(events) = 1 /\ events[1] = "got ip"
      <4>1. Len(events') = 2 /\ events'[1] = "got ip" /\ events'[2] = "lost"
        BY <2>1, <2>4, <3>4
      <4> QED BY <2>1, <2>2, <2>3, <2>4, <3>1, <4>1 DEF LinkWaits
    <3>5. LinkWaits
      BY <1>0, <2>4
    <3>6. CASE link = "up" /\ Len(events) = 0
      <4>1. fails = 0
        BY <3>5, <3>6 DEF LinkWaits
      <4>2. fails <= outage
        BY <1>0, <4>1, WifiAssumption DEF LinkTypes
      <4> QED BY <3>3, <3>6, <4>2
    <3>7. CASE link = "up" /\ Len(events) # 0
      <4>1. Len(events) = 1 /\ events[1] = "got ip"
        BY <3>5, <3>7 DEF LinkWaits
      <4> QED BY <3>4, <4>1
    <3>8. CASE link = "trying"
      <4>1. Len(events) = 0 /\ fails <= outage
        BY <3>5, <3>8 DEF LinkWaits
      <4> QED BY <3>3, <4>1
    <3> QED BY <3>2, <3>6, <3>7, <3>8
  <2>5. CASE stage # "watched"
    <3>1. LinkUnwatched'
      BY <1>4, <2>1, <2>2, <2>5 DEF LinkLost, LinkUnwatched
    <3> QED BY <2>1, <2>2, <2>3, <2>5, <3>1
  <2> QED BY <2>4, <2>5
<1>5. CASE LinkRestored
  <2>1. /\ stage = "watched" /\ LinkWaits /\ link = "trying"
    BY <1>0, <1>5 DEF LinkRestored, LinkUnwatched
  <2>2. Len(events) = 0
    BY <2>1 DEF LinkWaits
  <2>3. events' = Posted("got ip")
    BY <1>5 DEF LinkRestored
  <2>4. /\ events' \in Seq(Events) /\ Len(events') = 1 /\ events'[1] = "got ip"
    BY <1>0, <2>1, <2>2, <2>3, EventPosted, EventNames
  <2>5. outage' = 0 /\ fails' = fails /\ stage' = stage /\ link' = "up"
    BY <1>5 DEF LinkRestored
  <2>6. LinkTypes'
    BY <1>0, <2>5, WifiAssumption DEF LinkTypes
  <2>7. LinkWaits'
    BY <2>4, <2>5 DEF LinkWaits
  <2> QED BY <2>1, <2>4, <2>5, <2>6, <2>7
<1>6. CASE HandleLost
  <2>1. /\ events' \in Seq(Events) /\ events[1] = "lost" /\ Len(events) # 0
        /\ Len(events) = 1 => Len(events') = 0
        /\ stage = "watched" /\ LinkWaits
    BY <1>6, EventHandled, EventNames DEF HandleLost
  <2>2. Len(events) = 1 /\ link = "down" /\ fails + 1 <= outage
    BY <2>1 DEF LinkWaits
  <2>3. /\ fails' = fails + 1 /\ outage' = outage /\ stage' = stage
        /\ fails < MaxReconnectFails
    BY <1>0, <1>6, WifiAssumption DEF HandleLost, OutOfTries, LinkTypes
  <2>4. \/ link' = "trying" /\ networkUp' = FALSE
        \/ link' = link /\ unanswered' = TRUE
    BY <1>6, Zenon DEF HandleLost, SetNetworkUp
  <2>5. LinkTypes'
    BY <1>0, <2>2, <2>3, <2>4, WifiAssumption DEF LinkTypes
  <2>6. LinkWaits'
    BY <2>1, <2>2, <2>3, <2>4 DEF LinkWaits
  <2> QED BY <2>1, <2>3, <2>5, <2>6
<1>7. CASE HandleGotIp
  <2>1. /\ events' \in Seq(Events) /\ events[1] = "got ip" /\ Len(events) # 0
        /\ Len(events) = 1 => Len(events') = 0
        /\ Len(events) = 2 => Len(events') = 1 /\ events'[1] = events[2]
        /\ stage = "watched" /\ LinkWaits
    BY <1>7, EventHandled, EventNames DEF HandleGotIp
  <2>2. fails' = 0 /\ outage' = outage /\ stage' = stage /\ link' = link
    BY <1>7 DEF HandleGotIp
  <2>3. networkUp'
    BY <1>7, Zenon DEF HandleGotIp, SetNetworkUp
  <2>4. LinkTypes'
    BY <1>0, <2>2, WifiAssumption DEF LinkTypes
  <2>5. CASE Len(events) = 1
    <3>1. link = "up" /\ Len(events') = 0
      BY <2>1, <2>5 DEF LinkWaits
    <3> QED BY <2>1, <2>2, <2>3, <2>4, <3>1 DEF LinkWaits
  <2>6. CASE Len(events) = 2
    <3>1. link = "down" /\ 1 <= outage /\ Len(events') = 1 /\ events'[1] = "lost"
      BY <2>1, <2>6 DEF LinkWaits
    <3>2. fails' + 1 <= outage' /\ link' = "down"
      BY <2>2, <3>1
    <3> QED BY <2>1, <2>2, <2>4, <3>1, <3>2 DEF LinkWaits
  <2>7. Len(events) \in {1, 2}
    BY <2>1 DEF LinkWaits
  <2> QED BY <2>5, <2>6, <2>7
<1>8. CASE Restart
  BY <1>8, WifiAssumption DEF Restart, WifiBoots, LinkTypes, LinkUnwatched
<1>9. CASE UNCHANGED wifiVars
  BY <1>0, <1>9 DEF wifiVars, LinkTypes, LinkWaits, LinkUnwatched
<1> QED BY <1>1, <1>2, <1>3, <1>4, <1>5, <1>6, <1>7, <1>8, <1>9, Steps DEF WifiNext
-----------------------------------------------------------------------------
(***************************************************************************)
(* The wrapping clock.                                                     *)
(***************************************************************************)

LEMMA ModOfSum ==
  ASSUME NEW now \in 0 .. Wrap - 1, NEW more \in 0 .. Wrap
  PROVE  (now + more) % Wrap = IF now + more < Wrap THEN now + more ELSE now + more - Wrap
BY LevelAssumption

LEMMA ModOfDifference ==
  ASSUME NEW now \in 0 .. Wrap - 1, NEW then \in 0 .. Wrap - 1
  PROVE  (now - then) % Wrap = IF then <= now THEN now - then ELSE now - then + Wrap
BY LevelAssumption

LEMMA ClockSizes ==
  /\ Wrap \in Nat \ {0} /\ Wrap > 3 /\ DebugTtl \in Nat \ {0} /\ TickLag \in Nat
  /\ DebugTtl + 1 + TickLag + 1 < Wrap
BY LevelAssumption, BoardAssumption

\* A unit of the clock, at its turn too.
LEMMA ClockElapses ==
  ASSUME clock \in 0 .. Wrap - 1, Elapse
  PROVE  clock' = IF clock = Wrap - 1 THEN 0 ELSE clock + 1
<1>1. 1 \in 0 .. Wrap /\ Wrap \in Nat
  BY ClockSizes
<1>2. clock' = IF clock + 1 < Wrap THEN clock + 1 ELSE clock + 1 - Wrap
  BY <1>1, ModOfSum DEF Elapse
<1> QED BY <1>1, <1>2

\* What TTL and lag leave of the half of the clock that Expired compares with.
LEMMA HalfTheClock ==
  /\ TickLag < (Wrap - 1) \div 2
  /\ (Wrap - 1) \div 2 <= Wrap - DebugTtl - 1
BY LevelAssumption, BoardAssumption

\* A tick sees a deadline expired exactly when it has passed.
LEMMA ExpiredTrue ==
  ASSUME LevelInv, level = "debug"
  PROVE  /\ debugAge <= DebugTtl + 1 + sinceTick
         /\ debugAge < DebugTtl => ~Expired(clock)
         /\ debugAge >= DebugTtl + 1 => Expired(clock)
<1>1. PICK bump \in {0, 1}, turn \in {-Wrap, 0, Wrap} :
        /\ until = clock + DebugTtl + bump - debugAge + turn
        /\ debugAge <= DebugTtl + bump + sinceTick
  BY DEF LevelInv, Deadline
<1> DEFINE over == debugAge - DebugTtl - bump
<1>2. /\ over \in Int /\ over <= TickLag /\ -DebugTtl - 1 <= over
      /\ debugAge \in Nat /\ clock \in 0 .. Wrap - 1 /\ until \in 0 .. Wrap - 1
      /\ sinceTick \in 0 .. TickLag
  BY <1>1, ClockSizes DEF LevelInv
<1>3. clock - until = over - turn /\ clock - until \in Int
      /\ -Wrap < clock - until /\ clock - until < Wrap
  BY <1>1, <1>2, ClockSizes
<1> HIDE DEF over
<1>4. (clock - until) % Wrap = IF over < 0 THEN over + Wrap ELSE over
  <2>1. over < Wrap /\ -Wrap <= over /\ Wrap \in Nat
    BY <1>2, ClockSizes
  <2>2. (clock - until) % Wrap = IF until <= clock THEN clock - until
                                 ELSE clock - until + Wrap
    BY <1>2, ModOfDifference
  <2> QED BY <1>1, <1>2, <1>3, <2>1, <2>2
<1>5. over < 0 => ~Expired(clock)
  BY <1>2, <1>4, ClockSizes, HalfTheClock DEF Expired
<1>6. over >= 0 => Expired(clock)
  BY <1>2, <1>4, ClockSizes, HalfTheClock DEF Expired, LevelInv
<1> QED BY <1>1, <1>2, <1>5, <1>6, ClockSizes DEF over

\* Raising the level sets its deadline DebugTtl ahead, or a unit more.
LEMMA LevelSet ==
  ASSUME LevelInv, NEW new \in Levels, SetLevel(new, clock), clock' = clock,
         worker' \in {"idle", "ticks"}, sinceTick' \in 0 .. TickLag
  PROVE  LevelInv'
<1>1. clock \in 0 .. Wrap - 1
  BY DEF LevelInv
<1>2. CASE new = "info"
  BY <1>1, <1>2, ClockSizes DEF SetLevel, LevelInv
<1>3. CASE new = "debug"
  <2> DEFINE deadline == (clock + DebugTtl) % Wrap
  <2>1. \/ deadline = clock + DebugTtl /\ clock + DebugTtl < Wrap
        \/ deadline = clock + DebugTtl - Wrap /\ clock + DebugTtl >= Wrap
    <3>1. DebugTtl \in 0 .. Wrap
      BY ClockSizes
    <3>2. deadline = IF clock + DebugTtl < Wrap THEN clock + DebugTtl
                     ELSE clock + DebugTtl - Wrap
      BY <1>1, <3>1, ModOfSum
    <3> HIDE DEF deadline
    <3> QED BY <1>1, <3>2, ClockSizes
  <2>2. until' = IF deadline = 0 THEN 1 ELSE deadline
    BY <1>3 DEF SetLevel, DeadlineFrom
  <2> HIDE DEF deadline
  <2>3. level' = "debug" /\ debugAge' = 0
    BY <1>3 DEF SetLevel
  <2>4. until' \in 1 .. Wrap - 1
    <3>1. deadline \in 0 .. Wrap - 1
      BY <1>1, <2>1, ClockSizes
    <3> QED BY <2>2, <3>1, ClockSizes
  <2>5. \E bump \in {0, 1}, turn \in {-Wrap, 0, Wrap} :
          until' = clock' + DebugTtl + bump - debugAge' + turn
    <3>1. CASE deadline = 0
      <4>1. until' = clock' + DebugTtl + 1 - debugAge' + (-Wrap)
        BY <1>1, <2>1, <2>2, <2>3, <3>1, ClockSizes
      <4> QED BY <4>1
    <3>2. CASE deadline # 0
      <4>1. \/ until' = clock' + DebugTtl + 0 - debugAge' + 0
            \/ until' = clock' + DebugTtl + 0 - debugAge' + (-Wrap)
        BY <1>1, <2>1, <2>2, <2>3, <3>2, ClockSizes
      <4> QED BY <4>1
    <3> QED BY <3>1, <3>2
  <2>6. Deadline'
    <3>1. ASSUME NEW bump \in {0, 1}, NEW since \in Nat
          PROVE  0 <= DebugTtl + bump + since
      BY ClockSizes
    <3>2. debugAge' = 0 /\ sinceTick' \in Nat
      BY <2>3, ClockSizes
    <3>3. PICK bump \in {0, 1}, turn \in {-Wrap, 0, Wrap} :
            until' = clock' + DebugTtl + bump - debugAge' + turn
      BY <2>5
    <3>4. debugAge' <= DebugTtl + bump + sinceTick'
      BY <3>1, <3>2, Zenon
    <3> QED BY <3>3, <3>4 DEF Deadline
  <2> QED BY <1>1, <2>3, <2>4, <2>6 DEF LevelInv
<1> QED BY <1>2, <1>3 DEF Levels

LEMMA LevelStep ==
  ASSUME LevelInv, [Next]_vars
  PROVE  LevelInv'
<1>1. ASSUME NEW new \in Levels, ApplyLevel(new)
      PROVE  LevelInv'
  BY <1>1, LevelSet DEF ApplyLevel, tickVars, LevelInv
<1>2. CASE TickReads
  <2>1. /\ clock' = clock /\ worker' = "ticks" /\ sinceTick' = 0
        /\ TickLevelExpiry(clock)
    BY <1>2 DEF TickReads
  <2>2. CASE Expired(clock)
    BY <2>1, <2>2, LevelSet, ClockSizes DEF TickLevelExpiry, Levels
  <2>3. CASE ~Expired(clock)
    <3>1. UNCHANGED levelVars
      BY <2>1, <2>3 DEF TickLevelExpiry
    <3>2. ASSUME level = "debug"
          PROVE  Deadline'
      <4>1. PICK bump \in {0, 1}, turn \in {-Wrap, 0, Wrap} :
              until = clock + DebugTtl + bump - debugAge + turn
        BY <3>2 DEF LevelInv, Deadline
      <4>2. debugAge <= DebugTtl /\ debugAge \in Nat
        <5>1. ~(debugAge >= DebugTtl + 1) /\ debugAge \in Nat
          BY <3>2, <2>3, ExpiredTrue DEF LevelInv
        <5> QED BY <5>1, ClockSizes
      <4>3. debugAge' <= DebugTtl + bump + sinceTick'
        BY <2>1, <3>1, <4>1, <4>2, ClockSizes DEF levelVars
      <4>4. until' = clock' + DebugTtl + bump - debugAge' + turn
        BY <2>1, <3>1, <4>1 DEF levelVars
      <4> QED BY <4>1, <4>3, <4>4 DEF Deadline
    <3> QED BY <2>1, <3>1, <3>2, ClockSizes DEF LevelInv, levelVars
  <2> QED BY <2>2, <2>3
<1>3. CASE Elapse
  <2>0. CASE level # "debug"
    <3>1. clock' \in 0 .. Wrap - 1
      <4>1. clock \in 0 .. Wrap - 1 /\ Wrap \in Nat
        BY ClockSizes DEF LevelInv
      <4> QED BY <1>3, <4>1, ClockElapses
    <3>2. sinceTick' \in 0 .. TickLag
      BY <1>3, ClockSizes DEF Elapse, LevelInv
    <3>3. level' = level /\ until' = until /\ debugAge' = debugAge /\ worker' = worker
      BY <1>3, <2>0 DEF Elapse, LevelElapses
    <3> QED BY <2>0, <3>1, <3>2, <3>3 DEF LevelInv
  <2> SUFFICES ASSUME level = "debug"
               PROVE  LevelInv'
    BY <2>0
  <2>1. PICK bump \in {0, 1}, turn \in {-Wrap, 0, Wrap} :
          /\ until = clock + DebugTtl + bump - debugAge + turn
          /\ debugAge <= DebugTtl + bump + sinceTick
    BY DEF LevelInv, Deadline
  <2>2. /\ debugAge \in Nat /\ clock \in 0 .. Wrap - 1 /\ until \in 1 .. Wrap - 1
        /\ sinceTick \in 0 .. TickLag /\ worker \in {"idle", "ticks"}
    BY ClockSizes DEF LevelInv
  <2>3. /\ sinceTick' = sinceTick + 1 /\ sinceTick < TickLag
        /\ until' = until /\ level' = "debug" /\ worker' = worker
    BY <1>3, <2>2 DEF Elapse, LevelElapses
  <2>4. debugAge' = debugAge + 1
    BY <1>3, <2>1, <2>2, <2>3, ClockSizes DEF Elapse, LevelElapses
  <2>5. clock' = IF clock = Wrap - 1 THEN 0 ELSE clock + 1
    BY <1>3, <2>2, ClockElapses
  <2>6. Deadline'
    <3>1. CASE clock # Wrap - 1
      <4>1. until' = clock' + DebugTtl + bump - debugAge' + turn
        BY <2>1, <2>2, <2>3, <2>4, <2>5, <3>1, ClockSizes
      <4> QED BY <2>1, <2>2, <2>3, <2>4, <4>1, ClockSizes DEF Deadline
    <3>2. CASE clock = Wrap - 1
      <4>1. until' = clock' + DebugTtl + bump - debugAge' + (turn + Wrap)
        BY <2>1, <2>2, <2>3, <2>4, <2>5, <3>2, ClockSizes
      <4>2. turn + Wrap \in {-Wrap, 0, Wrap}
        BY <2>1, <2>2, <3>2, ClockSizes
      <4> QED BY <2>1, <2>2, <2>3, <2>4, <4>1, <4>2, ClockSizes DEF Deadline
    <3> QED BY <3>1, <3>2
  <2> QED BY <2>2, <2>3, <2>4, <2>5, <2>6, ClockSizes DEF LevelInv
<1>4. CASE Restart
  BY <1>4, ClockSizes DEF Restart, LevelBoots, LevelInv
<1>5. CASE SpawnWorker
  <2>1. level = "info" /\ level' = level /\ worker' = "idle" /\ sinceTick' = 0
    BY <1>5 DEF SpawnWorker, LevelInv, levelVars
  <2> QED BY <1>5, <2>1, ClockSizes DEF SpawnWorker, LevelInv, levelVars
<1>6. CASE TickLoads
  <2>1. worker' = "idle" /\ UNCHANGED <<clock, levelVars, sinceTick>>
    BY <1>6 DEF TickLoads
  <2> QED BY <1>6, <2>1 DEF TickLoads, LevelInv, levelVars, Deadline
<1>7. CASE UNCHANGED <<levelVars, clock, worker, sinceTick>>
  BY <1>7 DEF LevelInv, levelVars, Deadline
<1> QED
  BY <1>1, <1>2, <1>3, <1>4, <1>5, <1>6, <1>7
  DEF Next, Wifi, SpawnSlave, Meter, WifiRestarts, PowerCycle, vars, tickVars
-----------------------------------------------------------------------------
(***************************************************************************)
(* The stamp.                                                              *)
(***************************************************************************)

LEMMA StampStep ==
  ASSUME LevelInv, StampInv, [Next]_vars
  PROVE  StampInv'
<1> DEFINE Stamped(last, age, now) ==
             /\ last \in 0 .. Wrap - 1 /\ age \in 0 .. Wrap
             /\ age < Wrap => last + age - now \in {0, Wrap}
           Loads(ms, age, now) == /\ ms \in 0 .. Wrap - 1 /\ age \in 0 .. 1
                                 /\ ms + age - now \in {0, Wrap}
<1> SUFFICES /\ Stamped(lastPoll', stampAge', clock')
             /\ worker' = "ticks" => Loads(nowMs', sinceRead', clock')
  BY DEF StampInv
<1>0. /\ Stamped(lastPoll, stampAge, clock) /\ clock \in 0 .. Wrap - 1
      /\ worker = "ticks" => Loads(nowMs, sinceRead, clock)
  BY DEF StampInv, LevelInv
<1>1. \A now \in 0 .. Wrap - 1 : Stamped(now, 0, now) /\ Loads(now, 0, now)
  BY ClockSizes
<1>2. CASE Meter
  <2>1. /\ clock' = clock /\ worker' = worker /\ nowMs' = nowMs /\ sinceRead' = sinceRead
        /\ \/ lastPoll' = clock /\ stampAge' = 0
           \/ lastPoll' = lastPoll /\ stampAge' = stampAge
    <3>1. \/ lastPoll' = clock /\ stampAge' = 0
          \/ lastPoll' = lastPoll /\ stampAge' = stampAge
      BY <1>2 DEF Meter, MeterNext, BoxSends, Arrives, Read, FrameEnds, Answer, stampVars
    <3> QED BY <1>2, <3>1 DEF Meter, tickVars
  <2> HIDE DEF Stamped, Loads
  <2> QED BY <1>0, <1>1, <2>1
<1>3. CASE TickReads
  <2>1. /\ clock' = clock /\ nowMs' = clock /\ sinceRead' = 0
        /\ lastPoll' = lastPoll /\ stampAge' = stampAge
    BY <1>3 DEF TickReads, slaveVars, stampVars
  <2> HIDE DEF Stamped, Loads
  <2> QED BY <1>0, <1>1, <2>1
<1>4. CASE Elapse
  <2>1. /\ lastPoll' = lastPoll /\ stampAge' = IF stampAge < Wrap THEN stampAge + 1 ELSE stampAge
        /\ worker' = worker /\ nowMs' = nowMs
        /\ worker = "ticks" => sinceRead < 1 /\ sinceRead' = sinceRead + 1
    BY <1>4 DEF Elapse, MeterElapses
  <2>2. clock' = IF clock = Wrap - 1 THEN 0 ELSE clock + 1
    BY <1>0, <1>4, ClockElapses
  <2>3. Stamped(lastPoll', stampAge', clock')
    BY <1>0, <2>1, <2>2, ClockSizes
  <2>4. worker' = "ticks" => Loads(nowMs', sinceRead', clock')
    BY <1>0, <2>1, <2>2, ClockSizes
  <2> QED BY <2>3, <2>4
<1>5. CASE Restart
  BY <1>5, ClockSizes DEF Restart, MeterBoots
<1>6. CASE SpawnWorker \/ TickLoads
  <2>1. /\ worker' = "idle" /\ clock' = clock
        /\ lastPoll' = lastPoll /\ stampAge' = stampAge
    BY <1>6 DEF SpawnWorker, TickLoads, slaveVars, stampVars
  <2> HIDE DEF Stamped, Loads
  <2> QED BY <1>0, <2>1
<1>7. CASE UNCHANGED <<stampVars, clock, worker, nowMs, sinceRead>>
  <2> HIDE DEF Stamped, Loads
  <2> QED BY <1>0, <1>7 DEF stampVars
<1>8. CASE Wifi \/ SpawnSlave \/ (\E new \in Levels : ApplyLevel(new)) \/ UNCHANGED vars
  <2>1. UNCHANGED <<stampVars, clock, worker, nowMs, sinceRead>>
    BY <1>8 DEF Wifi, SpawnSlave, ApplyLevel, vars, slaveVars, tickVars
  <2> QED BY <1>7, <2>1
<1> QED
  BY <1>2, <1>3, <1>4, <1>5, <1>6, <1>8 DEF Next, WifiRestarts, PowerCycle
-----------------------------------------------------------------------------
(***************************************************************************)
(* The request and its answer.                                             *)
(***************************************************************************)

LEMMA RequestsTyped ==
  ASSUME NEW request \in Requests \cup {<<>>}
  PROVE  request \in Seq(Pieces)
<1>1. "head" \in Pieces /\ "tail" \in Pieces /\ "other" \in Pieces /\ "noise" \in Pieces
  BY DEF Pieces
<1>2. /\ Poll \in Seq(Pieces) /\ <<"other">> \in Seq(Pieces)
      /\ <<"head", "noise">> \in Seq(Pieces)
      /\ <<"noise", "head", "tail">> \in Seq(Pieces) /\ <<>> \in Seq(Pieces)
  BY <1>1 DEF Poll
<1> QED BY <1>2, Zenon DEF Requests

\* The three parts by their lengths.
LEMMA PartsTyped ==
  ASSUME InOrder
  PROVE  /\ line \in Seq(Pieces) /\ fifo \in Seq(Pieces) /\ frame \in Seq(Pieces)
         /\ asked \in Seq(Pieces)
BY RequestsTyped DEF InOrder

LEMMA Lengths ==
  ASSUME InOrder
  PROVE  /\ Len(line) \in Nat /\ Len(fifo) \in Nat /\ Len(frame) \in Nat
         /\ Len(asked) \in Nat /\ Len(frame) + Len(fifo) + Len(line) <= Len(asked)
BY PartsTyped DEF InOrder, Reads

LEMMA SendsInOrder ==
  ASSUME InOrder, NEW request \in Requests, BoxSends(request)
  PROVE  InOrder' /\ Reads' = Len(request)
<1>1. Len(frame) = 0 /\ Len(fifo) = 0 /\ Len(line) = 0
  BY Lengths DEF BoxSends
<1>2. /\ asked' = request /\ line' = request /\ fifo' = fifo /\ frame' = frame
  BY DEF BoxSends
<1>3. request \in Seq(Pieces)
  BY RequestsTyped
<1>4. LineInOrder' /\ FifoInOrder' /\ FrameInOrder'
  BY <1>1, <1>2, <1>3 DEF LineInOrder, FifoInOrder, FrameInOrder
<1>5. Reads' = Len(request) /\ Len(asked') = Len(request)
  BY <1>1, <1>2, <1>3 DEF Reads
<1>6. up' \/ (fifo' = <<>> /\ frame' = <<>>)
  BY DEF InOrder, BoxSends
<1>7. fifo' \in Seq(Pieces) /\ frame' \in Seq(Pieces) /\ Reads' <= Len(asked')
  BY <1>2, <1>3, <1>5, PartsTyped
<1> QED BY <1>2, <1>3, <1>4, <1>5, <1>6, <1>7 DEF InOrder

LEMMA ArrivesInOrder ==
  ASSUME InOrder, Arrives
  PROVE  InOrder' /\ Reads' <= Reads /\ (up => Reads' = Reads)
<1>1. /\ line # <<>> /\ line' = Tail(line) /\ asked' = asked /\ frame' = frame
      /\ fifo' = IF up THEN Append(fifo, Head(line)) ELSE <<>>
  BY DEF Arrives
<1>2. /\ line' \in Seq(Pieces) /\ Len(line') = Len(line) - 1 /\ Len(line) \in Nat
      /\ \A i \in 1 .. Len(line') : i + 1 \in 1 .. Len(line) /\ line'[i] = line[i + 1]
      /\ Head(line) = line[1] /\ line[1] \in Pieces /\ 1 \in 1 .. Len(line)
  BY <1>1, PartsTyped
<1>3. LineInOrder'
  <2>1. ASSUME NEW i \in 1 .. Len(line')
        PROVE  line'[i] = asked'[Len(asked') - Len(line') + i]
    <3>1. line'[i] = asked[Len(asked) - Len(line) + (i + 1)]
      BY <1>2 DEF InOrder, LineInOrder
    <3>2. Len(asked) - Len(line) + (i + 1) = Len(asked') - Len(line') + i
      BY <1>1, <1>2, Lengths
    <3> QED BY <1>1, <3>1, <3>2
  <2> QED BY <2>1 DEF LineInOrder
<1>4. CASE up
  <2>1. /\ fifo' \in Seq(Pieces) /\ Len(fifo') = Len(fifo) + 1
        /\ \A i \in 1 .. Len(fifo') :
             fifo'[i] = IF i <= Len(fifo) THEN fifo[i] ELSE line[1]
    BY <1>1, <1>2, <1>4, PartsTyped
  <2>2. Reads' = Reads
    BY <1>1, <1>2, <2>1, Lengths DEF Reads
  <2>3. ASSUME NEW i \in 1 .. Len(fifo')
        PROVE  fifo'[i] = asked'[Len(asked') - Len(line') - Len(fifo') + i]
    <3>1. Len(asked') - Len(line') - Len(fifo') + i = Len(asked) - Len(line) - Len(fifo) + i
      <4>1. i \in Nat
        BY <2>1, Lengths
      <4>2. /\ Len(asked') = Len(asked) /\ Len(line') = Len(line) - 1
            /\ Len(fifo') = Len(fifo) + 1
        BY <1>1, <1>2, <2>1, Zenon
      <4>3. Len(asked) - (Len(line) - 1) - (Len(fifo) + 1) + i
              = Len(asked) - Len(line) - Len(fifo) + i
        <5>1. Len(asked) \in Nat /\ Len(line) \in Nat /\ Len(fifo) \in Nat
          BY Lengths
        <5> QED BY <4>1, <5>1
      <4> QED BY <4>2, <4>3, Zenon
    <3>2. CASE i <= Len(fifo)
      <4>1. i \in 1 .. Len(fifo) /\ fifo'[i] = fifo[i]
        BY <2>1, <3>2, Lengths
      <4> QED BY <1>1, <3>1, <4>1 DEF InOrder, FifoInOrder
    <3>3. CASE i > Len(fifo)
      <4>1. fifo'[i] = line[1] /\ i = Len(fifo) + 1
        BY <2>1, <3>3, Lengths
      <4>2. line[1] = asked[Len(asked) - Len(line) + 1]
        BY <1>2 DEF InOrder, LineInOrder
      <4>3. Len(asked) - Len(line) + 1 = Len(asked) - Len(line) - Len(fifo) + i
        BY <4>1, Lengths
      <4> QED BY <1>1, <3>1, <4>1, <4>2, <4>3
    <3> QED BY <3>2, <3>3, Lengths
  <2>4. FifoInOrder'
    BY <2>3 DEF FifoInOrder
  <2>5. FrameInOrder'
    BY <1>1, <2>2 DEF InOrder, FrameInOrder
  <2>6. Reads' <= Reads /\ Reads' <= Len(asked')
    BY <1>1, <2>2, Lengths DEF Reads
  <2>7. up' = up
    BY DEF Arrives
  <2> QED BY <1>1, <1>2, <1>3, <1>4, <2>1, <2>2, <2>4, <2>5, <2>6, <2>7 DEF InOrder
<1>5. CASE ~up
  <2>1. /\ fifo' = <<>> /\ frame' = <<>> /\ Len(fifo') = 0 /\ Len(frame') = 0
        /\ Len(fifo) = 0 /\ Len(frame) = 0
    BY <1>1, <1>5 DEF InOrder
  <2>2. FifoInOrder' /\ FrameInOrder'
    BY <2>1 DEF FifoInOrder, FrameInOrder
  <2>3. Reads' <= Reads /\ Reads' <= Len(asked')
    BY <1>1, <1>2, <2>1, Lengths DEF Reads
  <2>4. fifo' \in Seq(Pieces) /\ frame' \in Seq(Pieces)
    BY <2>1
  <2> QED BY <1>1, <1>2, <1>3, <1>5, <2>1, <2>2, <2>3, <2>4 DEF InOrder
<1> QED BY <1>4, <1>5

\* What was received joins the frame, behind it.
LEMMA ReadInOrder ==
  ASSUME InOrder, Read
  PROVE  InOrder' /\ Reads' = Reads
<1>1. /\ up /\ up' = up /\ frame' = frame \o fifo /\ fifo' = <<>>
      /\ line' = line /\ asked' = asked
  BY DEF Read
<1>2. /\ frame' \in Seq(Pieces) /\ Len(frame') = Len(frame) + Len(fifo)
      /\ \A i \in 1 .. Len(frame') :
           frame'[i] = IF i <= Len(frame) THEN frame[i] ELSE fifo[i - Len(frame)]
      /\ fifo' \in Seq(Pieces) /\ Len(fifo') = 0
  BY <1>1, PartsTyped
<1>3. Reads' = Reads
  BY <1>1, <1>2, Lengths DEF Reads
<1>4. ASSUME NEW i \in 1 .. Len(frame')
      PROVE  frame'[i] = asked'[Len(asked') - Reads' + i]
  <2>1. CASE i <= Len(frame)
    <3>1. i \in 1 .. Len(frame) /\ frame'[i] = frame[i]
      BY <1>2, <2>1, Lengths
    <3> QED BY <1>1, <1>3, <3>1 DEF InOrder, FrameInOrder
  <2>2. CASE i > Len(frame)
    <3>1. i - Len(frame) \in 1 .. Len(fifo) /\ frame'[i] = fifo[i - Len(frame)]
      BY <1>2, <2>2, Lengths
    <3>2. fifo[i - Len(frame)]
            = asked[Len(asked) - Len(line) - Len(fifo) + (i - Len(frame))]
      BY <3>1 DEF InOrder, FifoInOrder
    <3>3. Len(asked) - Len(line) - Len(fifo) + (i - Len(frame)) = Len(asked) - Reads + i
      BY Lengths DEF Reads
    <3> QED BY <1>1, <1>3, <3>1, <3>2, <3>3
  <2> QED BY <2>1, <2>2, Lengths
<1>5. FrameInOrder' /\ FifoInOrder' /\ LineInOrder'
  BY <1>1, <1>2, <1>4 DEF FrameInOrder, FifoInOrder, LineInOrder, InOrder
<1>6. Reads' <= Len(asked')
  BY <1>1, <1>3, Lengths DEF Reads
<1> QED BY <1>1, <1>2, <1>3, <1>5, <1>6 DEF InOrder

\* Parts that are dropped leave the rest in its order.
LEMMA DropsInOrder ==
  ASSUME InOrder, frame' = <<>>, line' = line, asked' = asked,
         (fifo' = fifo /\ up' = up) \/ fifo' = <<>>
  PROVE  InOrder' /\ Reads' <= Reads
<1>1. Len(frame') = 0 /\ frame' \in Seq(Pieces) /\ FrameInOrder' /\ LineInOrder'
  BY DEF FrameInOrder, LineInOrder, InOrder
<1>2. CASE fifo' = fifo /\ up' = up
  <2>1. FifoInOrder' /\ fifo' \in Seq(Pieces)
    BY <1>2 DEF FifoInOrder, InOrder
  <2>2. Reads' <= Reads /\ Reads' <= Len(asked')
    BY <1>1, <1>2, Lengths DEF Reads
  <2> QED BY <1>1, <1>2, <2>1, <2>2 DEF InOrder
<1>3. CASE fifo' = <<>>
  <2>1. Len(fifo') = 0 /\ FifoInOrder' /\ fifo' \in Seq(Pieces)
    BY <1>3 DEF FifoInOrder
  <2>2. Reads' <= Reads /\ Reads' <= Len(asked')
    BY <1>1, <2>1, Lengths DEF Reads
  <2> QED BY <1>1, <1>3, <2>1, <2>2 DEF InOrder
<1> QED BY <1>2, <1>3

\* A frame that is our poll is the end of a request that ends in one: nothing of it is
\* left behind it.
LEMMA PollAtTheEnd ==
  ASSUME InOrder, frame = Poll
  PROVE  OwnPoll /\ Len(line) = 0 /\ Len(fifo) = 0
<1>1. Len(frame) = 2 /\ frame[1] = "head" /\ frame[2] = "tail"
  BY DEF Poll
<1>2. /\ frame[1] = asked[Len(asked) - Reads + 1]
      /\ frame[2] = asked[Len(asked) - Reads + 2]
  <2>1. 1 \in 1 .. Len(frame) /\ 2 \in 1 .. Len(frame)
    BY <1>1
  <2> QED BY <2>1 DEF InOrder, FrameInOrder
<1>3. /\ Reads \in 2 .. Len(asked)
      /\ Reads = 2 => Len(line) = 0 /\ Len(fifo) = 0
  BY <1>1, Lengths DEF Reads
<1> HIDE DEF Reads
<1>4. CASE asked = Poll
  <2>1. Reads = 2
    BY <1>3, <1>4 DEF Poll
  <2> QED BY <1>3, <1>4, <2>1 DEF OwnPoll
<1>5. CASE asked = <<"noise", "head", "tail">>
  <2>1. asked[1] = "noise" /\ Len(asked) = 3
    BY <1>5
  <2>2. Reads # 3
    BY <1>1, <1>2, <2>1
  <2>3. Reads = 2
    BY <1>3, <2>1, <2>2
  <2> QED BY <1>3, <1>5, <2>3 DEF OwnPoll
<1>6. CASE asked = <<"other">> \/ asked = <<>>
  <2>1. Len(asked) < 2
    BY <1>6
  <2> QED BY <1>3, <2>1
<1>7. CASE asked = <<"head", "noise">>
  <2>1. asked[2] = "noise" /\ Len(asked) = 2
    BY <1>7
  <2>2. Reads = 2
    BY <1>3, <2>1
  <2> QED BY <1>1, <1>2, <2>1, <2>2
<1> QED BY <1>4, <1>5, <1>6, <1>7, Zenon DEF InOrder, Requests

\* A poll that was received whole and not yet cut is the frame.
LEMMA WholePoll ==
  ASSUME InOrder, asked = Poll, Reads = 2, line = <<>>, fifo = <<>>
  PROVE  frame = Poll
<1>1. Len(frame) = 2 /\ frame \in Seq(Pieces) /\ Len(asked) = 2
      /\ asked[1] = "head" /\ asked[2] = "tail"
  BY PartsTyped DEF Poll, Reads
<1>2. \A i \in 1 .. 2 : frame[i] = asked[i]
  BY <1>1 DEF InOrder, FrameInOrder
<1>3. frame[1] = "head" /\ frame[2] = "tail"
  BY <1>1, <1>2
<1> QED BY <1>1, <1>3 DEF Poll

\* As long as the parts stay where they are.
LEMMA KeptInOrder ==
  ASSUME InOrder, UNCHANGED <<asked, line, fifo, frame>>, up' \/ up' = up
  PROVE  InOrder' /\ Reads' = Reads
<1>1. Reads' = Reads
  BY DEF Reads
<1>2. LineInOrder' /\ FifoInOrder' /\ FrameInOrder'
  BY <1>1 DEF InOrder, LineInOrder, FifoInOrder, FrameInOrder
<1>3. up' \/ (fifo' = <<>> /\ frame' = <<>>)
  BY DEF InOrder
<1> HIDE DEF Reads
<1> QED BY <1>1, <1>2, <1>3 DEF InOrder

\* Nothing is on its way.
LEMMA NothingReads ==
  ASSUME InOrder
  PROVE  /\ Reads \in Nat
         /\ Reads = 0 => line = <<>> /\ fifo = <<>> /\ frame = <<>>
         /\ line = <<>> /\ fifo = <<>> /\ frame = <<>> => Reads = 0
         /\ asked = <<>> => Reads = 0
BY PartsTyped, Lengths DEF Reads

LEMMA RequestStep ==
  ASSUME RequestInv, [Next]_vars
  PROVE  RequestInv'
<1>0. /\ Reads \in Nat /\ Len(Poll) = 2 /\ Poll # <<>> /\ InOrder
      /\ Reads = 0 => line = <<>> /\ fifo = <<>> /\ frame = <<>>
      /\ line = <<>> /\ fifo = <<>> /\ frame = <<>> => Reads = 0
      /\ asked = <<>> => Reads = 0
  BY NothingReads DEF RequestInv, Poll
<1>1. ASSUME NEW request \in Requests, BoxSends(request)
      PROVE  RequestInv'
  <2>1. /\ asked = <<>> /\ asked' = request /\ spoilt' = ~up /\ up' = up
        /\ answering' = answering /\ answers' = answers
    BY <1>1 DEF BoxSends
  <2>2. ~OwnPoll
    BY <2>1 DEF OwnPoll, Poll
  <2>3. ~answering /\ answers = 0
    BY <2>2, Zenon DEF RequestInv, Replied
  <2>4. InOrder' /\ Reads' = Len(request)
    BY <1>0, <1>1, SendsInOrder
  <2>5. ~Replied'
    BY <2>1, <2>3 DEF Replied
  <2>6. asked' = Poll => Reads' = 2
    BY <1>0, <2>1, <2>4
  <2> QED BY <2>1, <2>3, <2>4, <2>5, <2>6, Zenon DEF RequestInv
<1>2. CASE Arrives
  <2>1. /\ asked' = asked /\ up' = up /\ answering' = answering /\ answers' = answers
        /\ spoilt' = spoilt /\ line # <<>>
    BY <1>2 DEF Arrives
  <2>2. InOrder' /\ (up => Reads' = Reads)
    BY <1>0, <1>2, ArrivesInOrder
  <2>3. ~Replied
    BY <1>0, <2>1 DEF RequestInv
  <2>4. ~Replied'
    BY <2>1, <2>3 DEF Replied
  <2> QED BY <2>1, <2>2, <2>3, <2>4, Zenon DEF RequestInv
<1>3. CASE Read
  <2>1. /\ asked' = asked /\ up' = up /\ answering' = answering /\ answers' = answers
        /\ spoilt' = spoilt
    BY <1>3 DEF Read
  <2>2. InOrder' /\ Reads' = Reads
    BY <1>0, <1>3, ReadInOrder
  <2>3. OwnPoll' = OwnPoll /\ Replied' = Replied
    BY <2>1 DEF OwnPoll, Replied
  <2> QED BY <2>1, <2>2, <2>3, Zenon DEF RequestInv
<1>4. CASE FrameEnds
  <2>1. /\ asked' = asked /\ up' = up /\ answers' = answers /\ line' = line
        /\ fifo' = fifo /\ frame' = <<>> /\ frame # <<>> /\ up /\ ~answering
        /\ spoilt' = (spoilt \/ line # <<>> \/ fifo # <<>>)
    BY <1>4 DEF FrameEnds
  <2>2. InOrder'
    BY <1>0, <2>1, DropsInOrder
  <2>3. ~Replied /\ answers = 0
    BY <1>0, <2>1, Zenon DEF RequestInv, Replied
  <2>4. CASE ParseRequest(frame) = Poll
    <3>1. answering'
      BY <1>4, <2>4 DEF FrameEnds
    <3>2. frame = Poll
      BY <2>4 DEF ParseRequest, Poll
    <3>3. OwnPoll /\ Len(line) = 0 /\ Len(fifo) = 0
      BY <1>0, <3>2, PollAtTheEnd
    <3>4. Reads' = 0
      BY <2>1, <3>3 DEF Reads
    <3>5. OwnPoll' /\ Replied'
      BY <2>1, <3>1, <3>3 DEF OwnPoll, Replied
    <3> QED BY <2>1, <2>2, <2>3, <3>4, <3>5, Zenon DEF RequestInv
  <2>5. CASE ParseRequest(frame) # Poll
    <3>1. answering' = answering
      BY <1>4, <2>5 DEF FrameEnds
    <3>2. ~Replied'
      BY <2>1, <2>3, <3>1 DEF Replied
    <3>3. ASSUME asked = Poll, ~spoilt'
          PROVE  FALSE
      <4>1. ~spoilt /\ line = <<>> /\ fifo = <<>>
        BY <2>1, <3>3, Zenon
      <4>2. Reads = 2
        BY <2>3, <3>3, <4>1, Zenon DEF RequestInv
      <4>3. frame = Poll
        BY <1>0, <3>3, <4>1, <4>2, WholePoll
      <4> QED BY <2>5, <4>3 DEF ParseRequest
    <3> QED BY <2>1, <2>2, <2>3, <3>1, <3>2, <3>3, Zenon DEF RequestInv
  <2> QED BY <2>4, <2>5
<1>5. CASE Answer
  <2>1. /\ asked' = asked /\ up' = up /\ line' = line /\ fifo' = fifo /\ frame' = frame
        /\ answering /\ answering' = FALSE
        /\ \/ answers' = answers + 1 /\ spoilt' = spoilt
           \/ answers' = answers /\ spoilt' = TRUE
    BY <1>5 DEF Answer
  <2>2. answers = 0 /\ OwnPoll /\ Reads = 0
    BY <2>1, Zenon DEF RequestInv, Replied
  <2>3. InOrder' /\ Reads' = Reads /\ OwnPoll'
    BY <1>0, <2>1, <2>2, KeptInOrder DEF OwnPoll
  <2>4. CASE answers' = answers + 1 /\ spoilt' = spoilt
    <3>1. answers' = 1
      BY <2>2, <2>4
    <3>2. asked = Poll /\ ~spoilt => up
      BY Zenon DEF RequestInv
    <3> QED BY <2>1, <2>2, <2>3, <2>4, <3>1, <3>2, Zenon DEF RequestInv, Replied
  <2>5. CASE answers' = answers /\ spoilt' = TRUE
    <3> QED BY <2>1, <2>2, <2>3, <2>5, Zenon DEF RequestInv
  <2> QED BY <2>1, <2>4, <2>5
<1>6. CASE SpawnSlave
  <2>1. /\ UNCHANGED <<asked, line, fifo, frame, answering, answers>>
        /\ up' = TRUE /\ spoilt' = TRUE
    BY <1>6 DEF SpawnSlave
  <2>2. InOrder' /\ Reads' = Reads
    BY <1>0, <2>1, KeptInOrder
  <2>3. OwnPoll' = OwnPoll /\ Replied' = Replied
    BY <2>1 DEF OwnPoll, Replied
  <2>4. /\ answering' = answering /\ answers' = answers
        /\ up' = TRUE /\ spoilt' = TRUE
    BY <2>1
  <2> QED BY <2>2, <2>3, <2>4, Zenon DEF RequestInv
<1>7. CASE Restart
  <2>1. /\ asked' = asked /\ line' = line /\ answers' = answers /\ fifo' = <<>>
        /\ frame' = <<>> /\ answering' = FALSE /\ spoilt' = TRUE
    BY <1>7 DEF Restart, MeterBoots
  <2>2. InOrder' /\ Reads' <= Reads /\ Reads' \in Nat
    <3>1. InOrder' /\ Reads' <= Reads
      BY <1>0, <2>1, DropsInOrder
    <3>2. Len(line') \in Nat /\ Len(fifo') \in Nat /\ Len(frame') \in Nat
      BY <3>1 DEF InOrder
    <3> QED BY <3>1, <3>2 DEF Reads
  <2>3. Replied' => OwnPoll' /\ Reads' = 0
    <3>1. OwnPoll' = OwnPoll /\ (Replied' => Replied)
      BY <2>1 DEF OwnPoll, Replied
    <3>2. Reads = 0 => Reads' = 0
      BY <2>2
    <3> QED BY <3>1, <3>2, Zenon DEF RequestInv
  <2> QED BY <2>1, <2>2, <2>3, Zenon DEF RequestInv
<1>8. CASE Elapse
  <2>1. /\ line = <<>> /\ fifo = <<>> /\ frame = <<>> /\ ~answering
        /\ line' = <<>> /\ fifo' = <<>> /\ frame' = <<>> /\ answering' = answering
        /\ asked' = <<>> /\ answers' = 0
    BY <1>8 DEF Elapse, Quiet, MeterElapses
  <2>2. InOrder'
    <3>1. /\ line' \in Seq(Pieces) /\ fifo' \in Seq(Pieces) /\ frame' \in Seq(Pieces)
          /\ Len(line') = 0 /\ Len(fifo') = 0 /\ Len(frame') = 0 /\ Len(asked') = 0
      BY <2>1
    <3>2. LineInOrder' /\ FifoInOrder' /\ FrameInOrder' /\ Reads' <= Len(asked')
      BY <3>1 DEF LineInOrder, FifoInOrder, FrameInOrder, Reads
    <3>3. asked' \in Requests \cup {<<>>}
      BY <2>1, Zenon
    <3> QED BY <2>1, <3>1, <3>2, <3>3, Zenon DEF InOrder
  <2>3. ~Replied' /\ asked' # Poll
    BY <2>1 DEF Replied, Poll
  <2> QED BY <2>1, <2>2, <2>3, Zenon DEF RequestInv
<1>9. CASE UNCHANGED slaveVars
  <2>1. /\ UNCHANGED <<asked, line, fifo, frame, answering, answers>>
        /\ up' = up /\ spoilt' = spoilt
    BY <1>9 DEF slaveVars, busVars
  <2>2. InOrder' /\ Reads' = Reads
    BY <1>0, <2>1, KeptInOrder
  <2>3. OwnPoll' = OwnPoll /\ Replied' = Replied
    BY <2>1 DEF OwnPoll, Replied
  <2>4. /\ answering' = answering /\ answers' = answers /\ asked' = asked
        /\ up' = up /\ spoilt' = spoilt
    BY <2>1
  <2> QED BY <2>2, <2>3, <2>4, Zenon DEF RequestInv
<1> QED
  BY <1>1, <1>2, <1>3, <1>4, <1>5, <1>6, <1>7, <1>8, <1>9, Steps DEF MeterNext
-----------------------------------------------------------------------------
(***************************************************************************)
(* The theorems.                                                           *)
(***************************************************************************)

LEMMA BoardInit ==
  ASSUME Init
  PROVE  BoardInv
<1>1. LinkInv
  <2>1. events = <<>> /\ Len(events) = 0 /\ events \in Seq(Events)
    BY DEF Init, WifiInit
  <2>2. stage = "join" /\ link = "down" /\ fails = 0 /\ outage = 0
    BY DEF Init, WifiInit
  <2>3. LinkTypes
    BY <2>2, WifiAssumption DEF LinkTypes
  <2>4. LinkUnwatched
    BY <2>1, <2>2 DEF LinkUnwatched
  <2> QED BY <2>1, <2>2, <2>3, <2>4 DEF LinkInv
<1>2. LevelInv
  BY ClockSizes DEF Init, LevelInit, LevelInv
<1>3. StampInv
  BY ClockSizes DEF Init, MeterInit, StampInv
<1>4. RequestInv
  <2>1. /\ asked = <<>> /\ line = <<>> /\ fifo = <<>> /\ frame = <<>>
        /\ ~answering /\ answers = 0
    BY DEF Init, MeterInit
  <2>2. InOrder
    <3>1. /\ line \in Seq(Pieces) /\ fifo \in Seq(Pieces) /\ frame \in Seq(Pieces)
          /\ Len(line) = 0 /\ Len(fifo) = 0 /\ Len(frame) = 0 /\ Len(asked) = 0
      BY <2>1
    <3>2. LineInOrder /\ FifoInOrder /\ FrameInOrder /\ Reads <= Len(asked)
      BY <3>1 DEF LineInOrder, FifoInOrder, FrameInOrder, Reads
    <3>3. asked \in Requests \cup {<<>>}
      BY <2>1, Zenon
    <3> QED BY <2>1, <3>1, <3>2, <3>3, Zenon DEF InOrder
  <2>3. ~Replied /\ asked # Poll
    BY <2>1 DEF Replied, Poll
  <2> QED BY <2>1, <2>2, <2>3, Zenon DEF RequestInv
<1> QED BY <1>1, <1>2, <1>3, <1>4 DEF BoardInv

\* The inductive invariant of the board.
THEOREM BoardInvariant == Spec => []BoardInv
<1>1. Init => BoardInv
  BY BoardInit
<1>2. BoardInv /\ [Next]_vars => BoardInv'
  BY LinkStep, LevelStep, StampStep, RequestStep DEF BoardInv
<1> QED BY <1>1, <1>2, PTL DEF Spec

\* wifi.rs on #103: for any number of tolerated losses, and however the events lag
\* behind the link, the chip restarts only in an outage of more than that many.
THEOREM OnlyOutagesRestart == Spec => []RestartMeansOutage
<1>1. BoardInv => RestartMeansOutage
  <2> SUFFICES ASSUME LinkInv, OutOfTries
               PROVE  outage > MaxReconnectFails
    BY DEF BoardInv, RestartMeansOutage
  <2>1. events # <<>> /\ events[1] = "lost" /\ fails >= MaxReconnectFails
    BY DEF OutOfTries, Handles
  <2>2. Len(events) # 0
    BY <2>1 DEF LinkInv
  <2>3. stage = "watched" /\ LinkWaits
    BY <2>2 DEF LinkInv, LinkUnwatched
  <2>4. fails + 1 <= outage
    BY <2>1, <2>2, <2>3 DEF LinkWaits
  <2> QED BY <2>1, <2>4, WifiAssumption DEF LinkInv, LinkTypes
<1> QED BY <1>1, BoardInvariant, PTL

\* wifi.rs: a link that is down has its loss in the queue, or was lost for a reason
\* the watcher never learns.
THEOREM LossesReachTheWatcher == Spec => []LossIsPending
<1>1. BoardInv => LossIsPending
  <2> SUFFICES ASSUME LinkInv, stage = "watched", link = "down", ~unanswered
               PROVE  Len(events) > 0
    BY DEF BoardInv, LossIsPending
  <2>1. LinkWaits
    BY DEF LinkInv
  <2>2. ASSUME Len(events) = 0
        PROVE  FALSE
    <3>1. Len(events) # 1 /\ Len(events) # 2 /\ link # "up" /\ link # "trying"
      BY <2>2
    <3> QED BY <2>1, <3>1, Zenon DEF LinkWaits
  <2> QED BY <2>2 DEF LinkInv
<1> QED BY <1>1, BoardInvariant, PTL

\* logging.rs on NETWORK_UP: with no event pending the flag is what the link is.
THEOREM NetworkFlagSettles == Spec => []NetworkFlagTrue
<1>1. BoardInv => NetworkFlagTrue
  <2> SUFFICES ASSUME LinkInv, stage = "watched", events = <<>>, ~unanswered
               PROVE  networkUp <=> link = "up"
    BY DEF BoardInv, NetworkFlagTrue
  <2>1. LinkWaits /\ Len(events) = 0
    BY DEF LinkInv
  <2>2. \/ link = "up" /\ networkUp
        \/ link = "trying" /\ ~networkUp
    BY <2>1 DEF LinkWaits
  <2> QED BY <2>2
<1> QED BY <1>1, BoardInvariant, PTL

\* logging.rs on #3: for any clock and TTL, no tick ends a raised level before it has
\* lasted its DebugTtl.
THEOREM DebugLastsItsTtl == Spec => []DebugLasts
<1>1. BoardInv => DebugLasts
  BY ExpiredTrue DEF BoardInv, DebugLasts
<1> QED BY <1>1, BoardInvariant, PTL

\* logging.rs on #3: and the first tick after it does.
THEOREM DebugEndsByItself == Spec => []DebugSelfExpires
<1>1. BoardInv => DebugSelfExpires
  <2> SUFFICES ASSUME LevelInv, level = "debug"
               PROVE  debugAge <= DebugTtl + 1 + TickLag
    BY DEF BoardInv, DebugSelfExpires
  <2>1. debugAge <= DebugTtl + 1 + sinceTick
    BY ExpiredTrue
  <2>2. debugAge \in Nat /\ sinceTick \in 0 .. TickLag
    BY DEF LevelInv
  <2> QED BY <2>1, <2>2, ClockSizes
<1> QED BY <1>1, BoardInvariant, PTL

\* charge.rs on Handoff: wherever the clock wraps between the two, the age that a tick
\* takes of a poll stamped before it is the true one.
THEOREM PollAgesAreTrue == Spec => []PollAgeTrue
<1>1. BoardInv => PollAgeTrue
  <2> SUFFICES ASSUME LevelInv, StampInv, worker = "ticks",
                      stampAge \in sinceRead .. Wrap - 1
               PROVE  (nowMs - lastPoll) % Wrap = stampAge - sinceRead
    BY DEF BoardInv, PollAgeTrue, PollAge
  <2>1. /\ nowMs \in 0 .. Wrap - 1 /\ sinceRead \in 0 .. 1
        /\ lastPoll \in 0 .. Wrap - 1 /\ stampAge \in 0 .. Wrap
        /\ clock \in 0 .. Wrap - 1
    BY DEF StampInv, LevelInv
  <2>2. nowMs + sinceRead - clock \in {0, Wrap} /\ lastPoll + stampAge - clock \in {0, Wrap}
    BY <2>1, ClockSizes DEF StampInv
  <2>3. (nowMs - lastPoll) % Wrap = IF lastPoll <= nowMs THEN nowMs - lastPoll
                                    ELSE nowMs - lastPoll + Wrap
    BY <2>1, ModOfDifference
  <2> QED BY <2>1, <2>2, <2>3, ClockSizes
<1> QED BY <1>1, BoardInvariant, PTL

\* rs485.rs: however the bytes arrive and are read, the slave answers its own whole
\* poll, once, and nothing else.
THEOREM OnlyOwnPollsAnswered == Spec => []AnswersOwnPoll
<1>1. BoardInv => AnswersOwnPoll
  <2> SUFFICES ASSUME RequestInv, answers > 0
               PROVE  answers = 1 /\ \E before \in {<<>>, <<"noise">>} :
                                       asked = before \o Poll
    BY DEF BoardInv, AnswersOwnPoll
  <2>1. answers = 1
    BY DEF RequestInv
  <2>2. OwnPoll
    BY <2>1, Zenon DEF RequestInv, Replied
  <2>3. <<>> \o Poll = Poll
    BY DEF Poll
  <2>4. <<"noise">> \o Poll = <<"noise", "head", "tail">>
    <3> DEFINE whole == <<"noise">> \o Poll
    <3>1. whole \in Seq(Pieces) /\ Len(whole) = 3
          /\ whole[1] = "noise" /\ whole[2] = "head" /\ whole[3] = "tail"
      BY DEF Poll, Pieces
    <3> HIDE DEF whole
    <3>2. whole = <<"noise", "head", "tail">>
      BY <3>1
    <3> QED BY <3>2 DEF whole
  <2> QED BY <2>1, <2>2, <2>3, <2>4, Zenon DEF OwnPoll
<1> QED BY <1>1, BoardInvariant, PTL

\* rs485.rs: whatever came before, a poll that nothing spoils is answered by the time
\* the bus is quiet.
THEOREM CleanPollsAnswered == Spec => []CleanPollAnswered
<1>1. BoardInv => CleanPollAnswered
  <2> SUFFICES ASSUME RequestInv, Quiet, asked = Poll, ~spoilt
               PROVE  answers = 1
    BY DEF BoardInv, CleanPollAnswered
  <2>1. Replied \/ Reads = 2
    BY Zenon DEF RequestInv
  <2>2. Reads = 0 /\ ~answering
    BY NothingReads DEF Quiet, RequestInv
  <2> QED BY <2>1, <2>2 DEF Replied
<1> QED BY <1>1, BoardInvariant, PTL
=============================================================================
