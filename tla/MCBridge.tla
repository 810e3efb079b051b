------------------------------ MODULE MCBridge ------------------------------
(* One account, a few positions, and the faults of each run.                *)
EXTENDS Bridge

OrderFaults == {"modify_fails", "unprotected", "partial_fill", "lost_fill", "no_trade_id",
                "disconnect", "crash"}
=============================================================================
