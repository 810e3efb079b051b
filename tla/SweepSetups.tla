---------------------------- MODULE SweepSetups ----------------------------
(***************************************************************************)
(* How the two New York sweep engines of QuantBuild find their entries in  *)
(* a series of M15 bars (quantbuild/src/quantbuild/strategies/             *)
(* ny_sweep_failure_reclaim_engine.py and ny_sweep_reversion_engine.py).   *)
(*                                                                         *)
(* A bar is what the scans ask of it, relative to the high and low of the  *)
(* London session; both levels are taken to be the same on every day.      *)
(* Bars are numbered from 1 where the code numbers them from 0.            *)
(***************************************************************************)
EXTENDS Integers, Sequences, SequencesExt

CONSTANTS
    FailureWindow,   \* n_failure_window_bars
    ReclaimWindow,   \* m_reclaim_window_bars
    ChainBars,       \* MAX_CHAIN_BARS
    ExpireBars,      \* expire_if_not_filled_bars
    BiasOn,          \* bias.h1_structure.enabled, and there are H1 bars
    BarsPerHour,     \* M15 bars of an H1 bar
    PivotBars, Lookback   \* pivot_bars, lookback of the H1 structure

ASSUME SweepAssumption ==
    /\ {FailureWindow, ReclaimWindow, ChainBars, ExpireBars, BarsPerHour} \subseteq Nat \ {0}
    /\ BiasOn \in BOOLEAN
    /\ PivotBars \in Nat /\ Lookback \in Nat /\ PivotBars <= Lookback

Sides == {"LONG", "SHORT"}

(* under, over: 0 the bar stays inside the London level, 1 it goes at most  *)
(* c_max_continuation_points beyond it, 2 further.  outside and mid say how *)
(* the bar lies to the gap that was found: it closes outside of it, it      *)
(* spans its middle.  high, low: its prices, which only the H1 bars read.   *)
Bars == [under : 0 .. 2, over : 0 .. 2, close : {"under", "inside", "over"},
         window : BOOLEAN, displacement : BOOLEAN, gap : Sides \cup {"none"},
         outside : BOOLEAN, mid : BOOLEAN, high : Int, low : Int]

QuietBar == [under |-> 0, over |-> 0, close |-> "inside", window |-> TRUE,
             displacement |-> FALSE, gap |-> "none", outside |-> FALSE, mid |-> FALSE,
             high |-> 4, low |-> 3]

Beyond(bar, side) == IF side = "LONG" THEN bar.under ELSE bar.over
BackInside(bar, side) == bar.close # (IF side = "LONG" THEN "under" ELSE "over")

Lesser(a, b) == IF a < b THEN a ELSE b
\* The first of a set of bars; 0 when there is none.
FirstBar(S) == IF S = {} THEN 0 ELSE CHOOSE i \in S : \A j \in S : i <= j
LatestBar(S) == IF S = {} THEN 0 ELSE CHOOSE i \in S : \A j \in S : j <= i

EntryAt(entry, side, setup) == [entry |-> entry, side |-> side, setup |-> setup]

\* The order of signals.sort by entry_idx, which keeps what is equal as it was found.
EntersBefore(a, b) ==
    \/ a.entry < b.entry
    \/ a.entry = b.entry /\ a.setup < b.setup
    \/ a.entry = b.entry /\ a.setup = b.setup /\ a.side = "LONG" /\ b.side = "SHORT"
Entered(setups) == {s \in setups : s.entry # 0}

-----------------------------------------------------------------------------
(* Failure and reclaim: after a sweep that does not continue, the first     *)
(* close back inside the level is the entry.                                *)

\* Of a bar that sweeps both levels only the low counts.
SweptSide(bar) ==
    IF bar.under > 0 THEN "LONG" ELSE IF bar.over > 0 THEN "SHORT" ELSE "none"

\* (A mutant: the whole reclaim window is searched for a continuation.)
ContinuesInReclaimWindow(bars, i, side) ==
    \E j \in i + 1 .. Lesser(i + ReclaimWindow, Len(bars)) : Beyond(bars[j], side) = 2

Continues(bars, i, side) ==
    \E j \in i + 1 .. Lesser(i + FailureWindow, Len(bars)) : Beyond(bars[j], side) = 2

ReclaimEntry(bars, i, side) ==
    IF Continues(bars, i, side) THEN 0
    ELSE FirstBar({k \in i + 1 .. Lesser(i + ReclaimWindow, Len(bars)) :
                        BackInside(bars[k], side)})

\* The setup of bar i, with entry 0 when it is none.  Only the bar of the sweep must lie
\* in trade_allowed_window.
ReclaimSetup(bars, i) ==
    LET side == SweptSide(bars[i])
    IN EntryAt(IF bars[i].window /\ side # "none" THEN ReclaimEntry(bars, i, side) ELSE 0, side, i)

ReclaimSignals(bars) == Entered({ReclaimSetup(bars, i) : i \in 1 .. Len(bars)})

-----------------------------------------------------------------------------
(* Reversion: a sweep closed back inside, a displacement, a fair value gap, *)
(* and a limit order at the middle of the gap.                              *)

\* A bar that qualifies on both sides is LONG.
ReversedSide(bar) ==
    IF bar.under > 0 /\ BackInside(bar, "LONG") THEN "LONG"
    ELSE IF bar.over > 0 /\ BackInside(bar, "SHORT") THEN "SHORT" ELSE "none"

InWindow(bars, S) == {j \in S : bars[j].window}

DisplacementBar(bars, i) ==
    FirstBar({j \in InWindow(bars, i .. Lesser(i + ChainBars - 1, Len(bars))) :
                bars[j].displacement})

GapBar(bars, i, side, from) ==
    FirstBar({j \in InWindow(bars, from .. Lesser(i + ChainBars - 1, Len(bars))) :
                bars[j].gap = side})

\* A close outside the gap cancels the order, also on the bar that fills it.
FillBar(bars, gap) ==
    LET k == FirstBar({j \in InWindow(bars, gap + 1 .. Lesser(gap + ExpireBars, Len(bars))) :
                            bars[j].outside \/ bars[j].mid})
    IN IF k # 0 /\ bars[k].outside THEN 0 ELSE k

(* The bias: the structure of the H1 bars.  An H1 bar is its M15 bars, and  *)
(* the M15 bars of an hour all read the label of that whole hour.           *)
HourOf(i) == (i - 1) \div BarsPerHour + 1
HoursUpTo(bars, n) == [h \in 1 .. n |-> {bars[i] : i \in {j \in 1 .. Len(bars) : HourOf(j) = h}}]

\* The level of an hour, to either side: of highs the greatest, of lows the least, which
\* is the greatest of the lows below zero.
Level(bar, kind) == IF kind = "high" THEN bar.high ELSE -bar.low
HourLevel(hours, h, kind) == LET levels == {Level(bar, kind) : bar \in hours[h]}
                             IN CHOOSE x \in levels : \A y \in levels : y <= x

\* No hour of the PivotBars before and after goes further: the window is centred.
IsPivot(hours, h, kind) ==
    \A k \in h - PivotBars .. h + PivotBars : k \in DOMAIN hours =>
        \A bar \in hours[k] : Level(bar, kind) <= HourLevel(hours, h, kind)

\* How the last of the pivots of an hour's lookback lies to the one before: 1 further
\* than it, -1 less far, 0 the same or there are no two.
Turn(hours, h, kind) ==
    LET pivots == {k \in h - Lookback .. h : IsPivot(hours, k, kind)}
        last == LatestBar(pivots)
        before == LatestBar(pivots \ {last})
        level(k) == HourLevel(hours, k, kind)
    IN IF before = 0 \/ level(last) = level(before) THEN 0
       ELSE IF level(last) > level(before) THEN 1 ELSE -1

\* Higher highs and higher lows are LONG, lower ones SHORT.
Structure(hours, h) ==
    IF h <= Lookback THEN "none"
    ELSE CASE Turn(hours, h, "high") = 1 /\ Turn(hours, h, "low") = -1 -> "LONG"
           [] Turn(hours, h, "high") = -1 /\ Turn(hours, h, "low") = 1 -> "SHORT"
           [] OTHER -> "none"

Biased(bars, i, side) ==
    BiasOn => Structure(HoursUpTo(bars, HourOf(i) + PivotBars), HourOf(i)) = side

\* The reason the candidate at bar i is rejected with, or "filled".
Candidate(bars, i) ==
    LET side == ReversedSide(bars[i])
        displacement == DisplacementBar(bars, i)
        gap == GapBar(bars, i, side, displacement)
        fill == FillBar(bars, gap)
        answer == IF side = "none" THEN "no_sweep"
                  ELSE IF ~Biased(bars, i, side) THEN "h1_bias"
                  ELSE IF displacement = 0 THEN "no_displacement"
                  ELSE IF gap = 0 THEN "no_fvg"
                  ELSE IF fill = 0 THEN "not_filled" ELSE "filled"
    IN [answer |-> answer,
        signal |-> EntryAt(IF answer = "filled" THEN fill ELSE 0, side, i)]

\* The scan starts at the third bar.
ReversionSignals(bars) ==
    Entered({Candidate(bars, i).signal : i \in InWindow(bars, 3 .. Len(bars))})

-----------------------------------------------------------------------------

\* The last bar the bias of bar i is read from.
BiasKnownAt(i) == IF BiasOn THEN (HourOf(i) + PivotBars) * BarsPerHour ELSE i

\* The bar by which a signal is known: the one it is entered on, unless what it takes
\* comes later: the failure window of a reclaim, the hours of a reversion's bias.
KnownAt(signal, engine) ==
    LET taken == IF engine = "ny_sweep_failure_reclaim" THEN signal.setup + FailureWindow
                 ELSE BiasKnownAt(signal.setup)
    IN IF taken > signal.entry THEN taken ELSE signal.entry
=============================================================================
