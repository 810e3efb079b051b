----------------------------- MODULE PropGuard -----------------------------
(***************************************************************************)
(* The pre-trade risk check of QuantBridge, PropGuard.evaluate             *)
(* (quantbridge/src/quantbridge/risk/prop_guard.py).  Percentages are      *)
(* whole numbers; drawdown_pct is a percentage of the reference balance,   *)
(* and 0 where there is no balance to compare with.                        *)
(***************************************************************************)
EXTENDS Integers

DrawdownPct(reference, equity) ==
    IF reference <= 0 \/ equity >= reference THEN 0
    ELSE ((reference - equity) * 100) \div reference

\* max(minimum, min(value, maximum)): the minimum wins.
Clamp(value, minimum, maximum) ==
    IF value < minimum \/ maximum < minimum THEN minimum
    ELSE IF value > maximum THEN maximum ELSE value

\* The checks in their order: the code of the first one that fails.
Refusals(limits, intent, snap) ==
    << [code |-> "risk_account_breached", hit |-> snap.breached],
       [code |-> "risk_trading_paused", hit |-> snap.paused],
       [code |-> "risk_daily_drawdown",
        hit |-> DrawdownPct(snap.dayBalance, snap.equity) >= limits.dailyDrawdown],
       [code |-> "risk_total_drawdown",
        hit |-> DrawdownPct(snap.startBalance, snap.equity) >= limits.totalDrawdown],
       [code |-> "risk_max_positions", hit |-> snap.positions >= limits.maxPositions],
       [code |-> "risk_max_open_risk", hit |-> snap.openRisk >= limits.maxOpenRisk],
       [code |-> "risk_symbol_exposure", hit |-> snap.exposure >= limits.symbolExposure],
       [code |-> "risk_per_trade", hit |-> intent.risk > limits.maxRiskPerTrade] >>

\* Which refusals set trigger_failsafe.
FailsafeCodes == {"risk_account_breached", "risk_daily_drawdown", "risk_total_drawdown"}

Evaluate(limits, intent, snap) ==
    LET checks == Refusals(limits, intent, snap)
        hits == {i \in DOMAIN checks : checks[i].hit}
        first == checks[CHOOSE i \in hits : \A j \in hits : i <= j]
        adjusted == Clamp(intent.units, limits.minUnits, limits.maxUnits)
    IN IF hits # {}
         THEN [allowed |-> FALSE, units |-> 0, code |-> first.code,
               failsafe |-> first.code \in FailsafeCodes]
         ELSE [allowed |-> TRUE, units |-> adjusted,
               code |-> IF adjusted # intent.units THEN "risk_scale_units" ELSE "ok",
               failsafe |-> FALSE]
=============================================================================
