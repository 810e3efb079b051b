--------------------------- MODULE MCStopManager ---------------------------
(* One R is four ticks; the thresholds are those of DEFAULT_ORDER_CONFIG:   *)
(* break-even and half the units at 1R, the trail from 1.5R at distance 1R. *)
EXTENDS StopManager

AllMechanisms == Mechanisms
OrderlyFaults == {"close_fails", "amend_fails", "stop"}
SeenFaults == FaultNames \ {"refused_unseen"}
CrashOnly == {"crash"}
=============================================================================
