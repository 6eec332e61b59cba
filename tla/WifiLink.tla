------------------------------ MODULE WifiLink ------------------------------
(***************************************************************************)
(* The WiFi station of firmware/src/wifi.rs: the join at boot, the two     *)
(* watchers on the event loop, the tally of lost links and the network     *)
(* flag of logging.rs.  A restart takes the whole board along: Board.      *)
(***************************************************************************)
EXTENDS Naturals, Sequences

CONSTANTS
  JoinAttempts,         \* joins tried before the boot starts over
  MaxReconnectFails     \* lost-link events tolerated without an address between

ASSUME WifiAssumption == JoinAttempts \in Nat \ {0} /\ MaxReconnectFails \in Nat

VARIABLES
  stage,        \* "join", "unwatched" between the join and the watchers, "watched"
  attempt,
  link,         \* the driver's: "down", "trying" to associate, "up" with an address
  events,       \* events posted and not handled
  fails,        \* RECONNECT_FAILS
  networkUp,    \* NETWORK_UP
  outage,       \* links lost or refused since the link was last up (history)
  unanswered    \* a loss no watcher saw or the driver would not act on (history)

wifiVars == <<stage, attempt, link, events, fails, networkUp, outage, unanswered>>

WifiInit ==
  /\ stage = "join" /\ attempt = 0 /\ link = "down"
  /\ events = <<>> /\ fails = 0 /\ networkUp = FALSE
  /\ outage = 0 /\ unanswered = FALSE

\* A boot: RAM and driver start over.
WifiBoots ==
  /\ stage' = "join" /\ attempt' = 0 /\ link' = "down"
  /\ events' = <<>> /\ fails' = 0 /\ networkUp' = FALSE
  /\ outage' = 0 /\ unanswered' = FALSE

-----------------------------------------------------------------------------
\* The exporter waits for this flag.
SetNetworkUp(isUp) == networkUp' = isUp

\* join_or_reboot.
JoinSucceeds ==
  /\ stage = "join"
  /\ stage' = "unwatched" /\ link' = "up" /\ SetNetworkUp(TRUE)
  /\ UNCHANGED <<attempt, events, fails, outage, unanswered>>

LastAttempt == stage = "join" /\ attempt + 1 = JoinAttempts

JoinFails ==
  /\ stage = "join" /\ ~LastAttempt
  /\ attempt' = attempt + 1
  /\ UNCHANGED <<stage, link, events, fails, networkUp, outage, unanswered>>

\* The two subscriptions; nothing that came before them is seen.
Watch ==
  /\ stage = "unwatched"
  /\ stage' = "watched" /\ fails' = 0
  /\ UNCHANGED <<attempt, link, events, networkUp, outage, unanswered>>

Posted(event) == IF stage = "watched" THEN Append(events, event) ELSE events

CountedOutage == IF outage <= MaxReconnectFails THEN outage + 1 ELSE outage

\* The access point drops the station, or does not let it in again.
LinkLost ==
  /\ stage # "join" /\ link \in {"up", "trying"}
  /\ link' = "down"
  /\ events' = Posted("lost")
  /\ outage' = CountedOutage
  /\ unanswered' = (unanswered \/ stage # "watched")
  /\ UNCHANGED <<stage, attempt, fails, networkUp>>

\* It does: associated, and DHCP gave an address.
LinkRestored ==
  /\ link = "trying"
  /\ link' = "up" /\ outage' = 0
  /\ events' = Posted("got ip")
  /\ UNCHANGED <<stage, attempt, fails, networkUp, unanswered>>

Handles(event) == events # <<>> /\ Head(events) = event

\* One event too many: the watcher restarts the chip.
OutOfTries == Handles("lost") /\ fails >= MaxReconnectFails

\* Mutant: the flag is left alone.
HandleLostQuietly ==
  /\ Handles("lost") /\ ~OutOfTries
  /\ events' = Tail(events)
  /\ fails' = fails + 1
  /\ \/ link' = "trying" /\ UNCHANGED unanswered
     \/ UNCHANGED link /\ unanswered' = TRUE
  /\ UNCHANGED <<stage, attempt, networkUp, outage>>

\* Mutant: the watcher counts and leaves the driver to itself.
HandleLostIdly ==
  /\ Handles("lost") /\ ~OutOfTries
  /\ events' = Tail(events)
  /\ fails' = fails + 1 /\ SetNetworkUp(FALSE)
  /\ UNCHANGED <<stage, attempt, link, outage, unanswered>>

\* The link_lost watcher; a refusal of esp_wifi_connect is only logged.
HandleLost ==
  /\ Handles("lost") /\ ~OutOfTries
  /\ events' = Tail(events)
  /\ fails' = fails + 1 /\ SetNetworkUp(FALSE)
  /\ \/ link' = "trying" /\ UNCHANGED unanswered
     \/ UNCHANGED link /\ unanswered' = TRUE
  /\ UNCHANGED <<stage, attempt, outage>>

\* Mutant: the tally is never cleared.
HandleGotIpTallying ==
  /\ Handles("got ip")
  /\ events' = Tail(events)
  /\ SetNetworkUp(TRUE)
  /\ UNCHANGED <<stage, attempt, link, fails, outage, unanswered>>

\* The got_ip watcher.
HandleGotIp ==
  /\ Handles("got ip")
  /\ events' = Tail(events)
  /\ fails' = 0 /\ SetNetworkUp(TRUE)
  /\ UNCHANGED <<stage, attempt, link, outage, unanswered>>

WifiNext ==
  \/ JoinSucceeds \/ JoinFails \/ Watch
  \/ LinkLost \/ LinkRestored \/ HandleLost \/ HandleGotIp

-----------------------------------------------------------------------------
(***************************************************************************)
(* Properties.                                                             *)
(***************************************************************************)
\* wifi.rs on #103: "reboots only if reconnection keeps failing".  The tally is run
\* by events and lags behind the link; it runs out only in an outage that really
\* lasted for more than MaxReconnectFails tries, whatever flapped before.
RestartMeansOutage == OutOfTries => outage > MaxReconnectFails

\* No link stays down with nobody at it: the watcher saw the loss or will, unless
\* it came before the watchers or the driver refused to connect.
LossIsPending ==
  stage = "watched" /\ link = "down" /\ ~unanswered => Len(events) > 0

\* logging.rs on NETWORK_UP, which holds back every export: once the events are
\* handled it is the truth about the link.
NetworkFlagTrue ==
  stage = "watched" /\ events = <<>> /\ ~unanswered => (networkUp <=> link = "up")
=============================================================================
