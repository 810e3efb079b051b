--------------------------- MODULE OrderLifecycle ---------------------------
(***************************************************************************)
(* One order after another through QuantBridge's order script (scripts/    *)
(* run_order_lifecycle_check.py): the account gate, the risk check, and    *)
(* OrderManager.place_and_validate (quantbridge/src/quantbridge/execution/ *)
(* order_manager.py), which submits, confirms the fill by polling, makes   *)
(* sure stop and target are in place, and calls the failsafe whenever one  *)
(* of these does not succeed.  Each run of the script is a new process.    *)
(***************************************************************************)
EXTENDS BridgeAccount

VARIABLES
    orderPc,    \* where the script is
    protect,    \* enforce_protection: a stop or target was requested
    tradeId,    \* the trade id of the answer, NoTrade when it has none
    amended,    \* amended_once of ensure_protection
    result,     \* the status of the OrderLifecycleResult
    mine,       \* history: the position this order opened, if it has
    pending     \* the order is accepted and not filled yet

orderVars == <<orderPc, protect, tradeId, amended, result, mine, pending>>

OrderTypeOK ==
    /\ orderPc \in {"gate", "risk", "submit", "confirm", "protect", "failsafe", "done"}
    /\ protect \in BOOLEAN /\ amended \in BOOLEAN /\ pending \in BOOLEAN
    /\ tradeId \in 0..MaxTrade /\ mine \in 0..MaxTrade
    /\ result \in {"none", "account_blocked", "risk_blocked", "rejected", "fill_unconfirmed",
                   "protection_unconfirmed", "filled", "validated"}

OrderInit ==
    /\ orderPc = "done"
    /\ protect = FALSE /\ tradeId = NoTrade /\ amended = FALSE
    /\ result = "none" /\ mine = NoTrade /\ pending = FALSE

\* The script is run; an order of an earlier run has filled by then or never.
OrderStart ==
    /\ orderPc = "done"
    /\ orderPc' = "gate"
    /\ protect' \in BOOLEAN
    /\ tradeId' = NoTrade /\ amended' = FALSE /\ result' = "none"
    /\ mine' = NoTrade /\ pending' = FALSE
    /\ ForgetFailsafe("order")
    /\ UNCHANGED <<positionVars, status, marker>>

\* The call returns with a status; some of them call the failsafe first.
Finish(outcome) ==
    /\ result' = outcome
    /\ orderPc' = "done"
    /\ UNCHANGED failsafeVars

\* (A mutant: the failsafe is left out for a fill that is not confirmed.)
FinishWithFailsafeButFill(outcome) ==
    /\ result' = outcome
    /\ IF outcome = "fill_unconfirmed"
         THEN orderPc' = "done" /\ UNCHANGED fsPc
         ELSE orderPc' = "failsafe" /\ TriggerFailsafe("order")
    /\ UNCHANGED <<marker, fsLeft, paused>>

FinishWithFailsafe(outcome) ==
    /\ result' = outcome
    /\ orderPc' = "failsafe"
    /\ TriggerFailsafe("order")
    /\ UNCHANGED <<marker, fsLeft, paused>>

OrderGate ==
    /\ orderPc = "gate"
    /\ IF status = "blocked"
         THEN Finish("account_blocked")
         ELSE orderPc' = "risk" /\ UNCHANGED <<result, failsafeVars>>
    /\ UNCHANGED <<positionVars, status, protect, tradeId, amended, mine, pending>>

\* PropGuard: the marker blocks without a failsafe; a limit may block with
\* one (drawdown) or without (positions, risk, exposure).
OrderRisk ==
    /\ orderPc = "risk"
    /\ \/ (marker \/ paused["order"]) /\ Finish("risk_blocked")
       \/ ~(marker \/ paused["order"]) /\ Finish("risk_blocked")
       \/ ~(marker \/ paused["order"]) /\ FinishWithFailsafe("risk_blocked")
       \/ /\ ~(marker \/ paused["order"])
          /\ orderPc' = "submit"
          /\ UNCHANGED <<result, failsafeVars>>
    /\ UNCHANGED <<positionVars, status, protect, tradeId, amended, mine, pending>>

\* TRUE, or whether the order came out as asked when the fault may happen.
Unless(fault) == IF fault \in Faults THEN BOOLEAN ELSE {TRUE}

\* place_order is accepted: the position opens now, in full or not, or later.
OrderAccepted ==
    /\ orderPc = "submit"
    /\ Number(lastTrade + 1)
    /\ mine' = lastTrade + 1
    /\ tradeId' \in {lastTrade + 1} \cup IF "no_trade_id" \in Faults THEN {NoTrade} ELSE {}
    /\ \/ /\ \E full \in Unless("partial_fill"), guards \in Unless("unprotected") :
                Fill(lastTrade + 1, full, guards)
          /\ UNCHANGED pending
       \/ pending' = TRUE /\ UNCHANGED <<open, fullSize, guarded, ver>>
    /\ orderPc' = "confirm"
    /\ UNCHANGED <<status, failsafeVars, protect, amended, result>>

\* A pending order fills while the script waits for it, or even later.
OrderFills ==
    /\ pending
    /\ orderPc = "confirm" \/ "late_fill" \in Faults
    /\ Fill(mine, TRUE, TRUE)
    /\ pending' = FALSE
    /\ UNCHANGED <<lastTrade, status, failsafeVars, orderPc, protect, tradeId, amended,
                   result, mine>>

\* The answer says no; with lost_fill the position is there all the same.
OrderRejected ==
    /\ orderPc = "submit"
    /\ \/ UNCHANGED <<positionVars, mine>>
       \/ /\ "lost_fill" \in Faults
          /\ Number(lastTrade + 1)
          /\ Fill(lastTrade + 1, TRUE, TRUE)
          /\ mine' = lastTrade + 1
    /\ FinishWithFailsafe("rejected")
    /\ UNCHANGED <<status, protect, tradeId, amended, pending>>

\* confirm_fill: a poll that lists the trade decides by its units; without
\* one, or without a trade id, the deadline passes.
OrderConfirm ==
    /\ orderPc = "confirm"
    /\ \E listing \in Listings :
          \/ /\ tradeId \in listing \cap fullSize
             /\ \/ protect /\ orderPc' = "protect" /\ UNCHANGED <<result, failsafeVars>>
                \/ ~protect /\ Finish("filled")
          \/ tradeId \notin listing \cap fullSize /\ FinishWithFailsafe("fill_unconfirmed")
    /\ UNCHANGED <<positionVars, status, protect, tradeId, amended, mine, pending>>

\* ensure_protection: each poll finds the trade gone, protected, or not; the
\* first that finds it not protected amends it, whatever the reply, and the
\* deadline passes after a later one.
OrderProtect ==
    /\ orderPc = "protect"
    /\ \E listing \in Listings :
          \/ /\ tradeId \notin listing
             /\ FinishWithFailsafe("protection_unconfirmed")
             /\ UNCHANGED <<positionVars, amended>>
          \/ /\ tradeId \in listing \cap guarded
             /\ Finish("validated")
             /\ UNCHANGED <<positionVars, amended>>
          \/ /\ tradeId \in listing \ guarded
             /\ ~amended
             /\ amended' = TRUE
             /\ \/ guarded' = guarded \cup {tradeId} /\ Touch
                \/ "modify_fails" \in Faults /\ UNCHANGED <<guarded, ver>>
             /\ UNCHANGED <<open, lastTrade, fullSize, orderPc, result, failsafeVars>>
          \/ /\ amended
             /\ FinishWithFailsafe("protection_unconfirmed")
             /\ UNCHANGED <<positionVars, amended>>
    /\ UNCHANGED <<status, protect, tradeId, mine, pending>>

OrderFailsafe ==
    /\ orderPc = "failsafe"
    /\ Failsafe("order")
    /\ UNCHANGED orderVars

OrderDone ==
    /\ orderPc = "failsafe"
    /\ fsPc["order"] = "none"
    /\ orderPc' = "done"
    /\ UNCHANGED <<accountVars, protect, tradeId, amended, result, mine, pending>>

\* The script dies: it has no result, and nothing more is done for its order.
OrderCrash ==
    /\ "crash" \in Faults
    /\ orderPc # "done"
    /\ orderPc' = "done" /\ result' = "none"
    /\ ForgetFailsafe("order")
    /\ UNCHANGED <<positionVars, status, marker, protect, tradeId, amended, mine, pending>>

OrderNext ==
    \/ OrderStart \/ OrderGate \/ OrderRisk \/ OrderAccepted \/ OrderFills \/ OrderRejected
    \/ OrderConfirm \/ OrderProtect \/ OrderFailsafe \/ OrderDone
    \/ OrderCrash
=============================================================================
