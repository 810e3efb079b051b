------------------------------ MODULE Policies ------------------------------
(***************************************************************************)
(* The parts that decide what may be risked, on which account and with     *)
(* which strategy, next to one another: account routing (Routing), the     *)
(* portfolio heat engine (PortfolioHeat), the simulations of the risk      *)
(* layers (AdaptiveSims), the lifecycle of challenge accounts              *)
(* (AccountLifecycle) and backtests (Backtest).  In the code they run in   *)
(* programs of their own and share no state, so a behaviour is one of      *)
(* `part`; the others stay as they began.                                  *)
(***************************************************************************)
EXTENDS Routing, AdaptiveSims, AccountLifecycle, Backtest

VARIABLE part

Parts == {"routing", "heat", "sims", "lifecycle", "backtest"}

vars == <<part, routeVars, simVars, lifeVars, btVars>>

\* positions of the heat engine are among simVars.
Init == part \in Parts /\ RouteInit /\ HeatInit /\ SimInit /\ LifeInit /\ BacktestInit

NextRouting == part = "routing" /\ RouteNext /\ UNCHANGED <<part, simVars, lifeVars, btVars>>

NextHeat ==
    /\ part = "heat" /\ HeatNext
    /\ UNCHANGED <<part, routeVars, lifeVars, btVars>>
    /\ UNCHANGED <<sim, simPc, accelerated, layer, accel, equity, peak, maxDd, day, daily, left,
                   outcome, worstDay>>

NextSims == part = "sims" /\ SimNext /\ UNCHANGED <<part, routeVars, lifeVars, btVars>>

NextLifecycle == part = "lifecycle" /\ LifeNext /\ UNCHANGED <<part, routeVars, simVars, btVars>>

NextBacktest ==
    part = "backtest" /\ BacktestNext /\ UNCHANGED <<part, routeVars, simVars, lifeVars>>

Next == NextRouting \/ NextHeat \/ NextSims \/ NextLifecycle \/ NextBacktest

Spec == Init /\ [][Next]_vars
=============================================================================
