---------------------------- MODULE MCLiveRunner ----------------------------
(* Small instances of LiveRunner for TLC.                                   *)
EXTENDS LiveRunner, TLC

AllFilters == FilterNames
NoFaults == {}
StopOnly == {"stop"}
ProcessFaults == {"stop", "crash", "torn_save", "lost_fill"}
BrokerFaults == {"sync_error", "close_fails", "lost_fill", "order_id"}

\* Trade ids are interchangeable (used by safety runs only).
TradeSymmetry == Permutations(Trades)
=============================================================================
