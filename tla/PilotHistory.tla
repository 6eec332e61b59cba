---------------------------- MODULE PilotHistory ----------------------------
(***************************************************************************)
(* Controller with the history its pilot probe (#161) is judged by: for    *)
(* how long this boot the probe kept the offer open.                       *)
(***************************************************************************)
EXTENDS Controller

VARIABLE offerTime   \* time units spent on a PilotProbe report this boot

HInit == Init /\ offerTime = 0

HTick == Tick /\ UNCHANGED offerTime

HElapse ==
  /\ Elapse
  /\ offerTime' = IF status.reason = "PilotProbe" THEN offerTime + 1 ELSE offerTime

HReboot == Reboot /\ offerTime' = 0

HInputs == Inputs /\ UNCHANGED offerTime

HNext == HInputs \/ HTick \/ HElapse \/ HReboot

HSpec == HInit /\ [][HNext]_<<vars, offerTime>>

\* However inputs, ticks and unknown pilots interleave, one boot spends no more
\* than one window (plus the tick lag that closes it) offering current that
\* nobody commanded.
OneWindowPerBoot == offerTime < PilotWindow + TickLag
=============================================================================
