--------------------------- MODULE PortfolioHeat ---------------------------
(***************************************************************************)
(* QuantBuild's PortfolioHeatEngine and ClusterRiskEngine                  *)
(* (quantbuild/src/quantbuild/execution/portfolio_heat.py): which          *)
(* positions may be open together.  A position is a symbol, a direction    *)
(* and a risk.                                                             *)
(*                                                                         *)
(* Risk is in hundredths of a percent and correlation in thousandths.  The *)
(* square root of the portfolio variance is not taken: it is compared with *)
(* a bound by comparing the variance with the bound's square.              *)
(***************************************************************************)
EXTENDS Integers, Sequences, SequencesExt, FiniteSetsExt

CONSTANTS
    Symbols,            \* instruments that are traded
    Risks,              \* risk_pct of a new position
    MaxHeat,            \* max_portfolio_heat_pct
    MaxInstrumentHeat,  \* max_instrument_heat_pct
    MaxCorrelated,      \* max_correlated_exposure
    MaxSameDirection    \* max_same_direction

ASSUME HeatAssumption ==
    /\ Risks \subseteq Nat \ {0}
    /\ MaxHeat \in Nat /\ MaxInstrumentHeat \in Nat
    /\ MaxCorrelated \in Nat /\ MaxSameDirection \in Nat

Directions == {"LONG", "SHORT"}

VARIABLE positions    \* the open positions, oldest first

heatVars == <<positions>>

-----------------------------------------------------------------------------
(* Correlation and heat.                                                    *)

\* DEFAULT_CORRELATION_MATRIX: the pairs of each value.
CorrelatedPairs == <<
    [rho |-> -850, pairs |-> {{"USDCHF", "EURUSD"}}],
    [rho |-> -550, pairs |-> {{"GBPUSD", "USDCHF"}, {"USDCHF", "NZDUSD"}}],
    [rho |-> -300, pairs |-> {{"USDJPY", "NZDUSD"}}],
    [rho |-> -250, pairs |-> {{"USDJPY", "EURUSD"}}],
    [rho |-> -150, pairs |-> {{"XAUUSD", "USDCHF"}}],
    [rho |-> -100, pairs |-> {{"USDJPY", "NAS100"}}],
    [rho |-> -50, pairs |-> {{"USDCHF", "NAS100"}}],
    [rho |-> -30, pairs |-> {{"XAUUSD", "GBPUSD"}}],
    [rho |-> -1, pairs |-> {{"XAUUSD", "USDJPY"}, {"GBPUSD", "USDJPY"}}],
    [rho |-> 20, pairs |-> {{"GBPUSD", "NAS100"}}],
    [rho |-> 50, pairs |-> {{"XAUUSD", "NAS100"}}],
    [rho |-> 100, pairs |-> {{"XAUUSD", "NZDUSD"}, {"NZDUSD", "NAS100"}}],
    [rho |-> 150, pairs |-> {{"XAUUSD", "EURUSD"}}],
    [rho |-> 500, pairs |-> {{"USDJPY", "USDCHF"}}],
    [rho |-> 550, pairs |-> {{"GBPUSD", "EURUSD"}, {"NZDUSD", "EURUSD"}}],
    [rho |-> 600, pairs |-> {{"GBPUSD", "NZDUSD"}}] >>

\* _get_correlation: the pair in either order, and 0 when it is not listed.
Correlation(a, b) ==
    IF a = b THEN 1000
    ELSE LET rows == {k \in DOMAIN CorrelatedPairs : {a, b} \in CorrelatedPairs[k].pairs}
         IN IF rows = {} THEN 0 ELSE CorrelatedPairs[Min(rows)].rho

SumOver(indices, value(_)) == MapThenSumSet(value, indices)
Where(held, test(_)) == {i \in DOMAIN held : test(held[i])}

NaiveHeat(held) == SumOver(DOMAIN held, LAMBDA i : held[i].risk)
InstrumentHeat(held, symbol) ==
    SumOver(Where(held, LAMBDA p : p.symbol = symbol), LAMBDA i : held[i].risk)

\* The portfolio variance, times a thousand.
Variance(held) ==
    SumOver(DOMAIN held, LAMBDA i :
        SumOver(DOMAIN held, LAMBDA j :
            held[i].risk * held[j].risk * Correlation(held[i].symbol, held[j].symbol)
            * (IF held[i].direction = held[j].direction THEN 1 ELSE -1)))

\* effective_heat > bound: the root of the variance, at most the naive heat.
HeatExceeds(held, bound) ==
    \/ bound < 0
    \/ NaiveHeat(held) > bound /\ Variance(held) > 1000 * bound * bound

-----------------------------------------------------------------------------
(* Clusters.                                                                *)

\* DEFAULT_CLUSTERS.
Clusters == {
    [members |-> {"GBPUSD", "NZDUSD"}, most |-> 2, heat |-> 150],
    [members |-> {"USDJPY", "USDCHF"}, most |-> 2, heat |-> 150],
    [members |-> {"USDCHF", "EURUSD"}, most |-> 1, heat |-> 100]}

ActiveIn(held, cluster) == Where(held, LAMBDA p : p.symbol \in cluster.members)

\* (A mutant: one more position than the cluster may hold.)
CanOpenInClusterInclusive(held, symbol) ==
    \A c \in {c \in Clusters : symbol \in c.members} :
        Cardinality(ActiveIn(held, c)) <= c.most

\* The risk of the new position is not counted.
CanOpenInCluster(held, symbol) ==
    \A c \in {c \in Clusters : symbol \in c.members} :
        /\ Cardinality(ActiveIn(held, c)) < c.most
        /\ SumOver(ActiveIn(held, c), LAMBDA i : held[i].risk) < c.heat

CorrelatedCount(held, symbol) ==
    Cardinality(Where(held, LAMBDA p :
        LET rho == Correlation(p.symbol, symbol) IN rho >= 300 \/ rho <= -300))

SameDirectionCount(held, direction) ==
    Cardinality(Where(held, LAMBDA p : p.direction = direction))

-----------------------------------------------------------------------------
(* The engine.                                                              *)

WithinHeat(held, risk) ==
    /\ 2 * (NaiveHeat(held) + risk) <= 3 * MaxHeat
    /\ ~HeatExceeds(held, MaxHeat - risk)

CanOpen(held, new) ==
    /\ CanOpenInCluster(held, new.symbol)
    /\ WithinHeat(held, new.risk)
    /\ InstrumentHeat(held, new.symbol) + new.risk <= MaxInstrumentHeat
    /\ CorrelatedCount(held, new.symbol) < MaxCorrelated
    /\ SameDirectionCount(held, new.direction) < MaxSameDirection

HeatInit == positions = <<>>

\* can_open, and add_position when it says yes.
OpenPosition ==
    \E symbol \in Symbols, direction \in Directions, risk \in Risks :
        LET new == [symbol |-> symbol, direction |-> direction, risk |-> risk]
        IN CanOpen(positions, new) /\ positions' = Append(positions, new)

\* remove_position: the oldest of a symbol, or of a symbol and a direction.
RemovePosition ==
    \E symbol \in Symbols, sides \in {Directions, {"LONG"}, {"SHORT"}} :
        LET match == Where(positions, LAMBDA p : p.symbol = symbol /\ p.direction \in sides)
        IN /\ match # {}
           /\ positions' = RemoveAt(positions, Min(match))

HeatNext == OpenPosition \/ RemovePosition

-----------------------------------------------------------------------------
(* Properties.                                                              *)

\* Two instruments that mirror each other are never held at the same time,
\* whatever was opened and removed before (chf_eur_inverse of the clusters).
MirrorPairExclusive ==
    \A i, j \in DOMAIN positions :
        ~(positions[i].symbol = "USDCHF" /\ positions[j].symbol = "EURUSD")
=============================================================================
