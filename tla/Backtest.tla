------------------------------ MODULE Backtest ------------------------------
(***************************************************************************)
(* One run of a QuantBuild backtest (quantbuild/src/quantbuild/backtest/   *)
(* engine.py and the engines of strategies/): signals are found in all of  *)
(* the data first and then walked in the order of their entry.  Each goes  *)
(* through the guards of its engine; one that passes is simulated to its   *)
(* exit at once and booked before the next signal is looked at.            *)
(*                                                                         *)
(* Prices are left out: a trade is its bars and its result.  Results are   *)
(* whole numbers, the stop a multiple of one R; what is booked is a result *)
(* times the size of the trade, in multiples of 1/One.                     *)
(***************************************************************************)
EXTENDS SweepSetups, FiniteSets

CONSTANTS
    NumBars, BarsPerDay,      \* the data: bars, and bars of a day
    ReclaimBarKinds, ReversionBarKinds,   \* the bars considered
    SignalBars, MaxSignals,   \* bounds: where and how often the other engines have a signal
    Risk,                     \* one R, what a stop costs
    TargetResult,             \* the result of a target
    TimeoutResults,           \* results of trades that end with the data or the clock
    MidlineResults,           \* results at the middle band
    TimeExitBars,             \* time_exit_bars
    MaxDailyLoss, KillSwitch, \* max_daily_loss_r, equity_kill_switch_pct
    MaxTradesPerDay, StopStreak,    \* max_trades_per_day, stop_after_consecutive_losses
    Profiles,                 \* regime profiles: max_trades_per_session, position_size_mult
    One, Boosts               \* the boost 1 and all the boosts of the news gate

ASSUME BacktestAssumption ==
    /\ {NumBars, BarsPerDay, Risk, KillSwitch, MaxTradesPerDay, StopStreak, TimeExitBars, One}
          \subseteq Nat \ {0}
    /\ ReclaimBarKinds \subseteq Bars /\ ReversionBarKinds \subseteq Bars
    /\ SignalBars \subseteq 1 .. NumBars
    /\ MaxDailyLoss \in Nat
    /\ TargetResult \in Int /\ TimeoutResults \subseteq Int /\ MidlineResults \subseteq Int
    /\ Profiles \subseteq [perSession : Nat, size : Nat \ {0}]
    /\ Boosts \subseteq Nat \ {0} /\ One \in Boosts

\* A bar is searched for the stop first, so that no trade ends beyond it; and
\* a configuration has its few profiles and the news their few boosts.
ASSUME StopAssumption ==
    /\ \A r \in TimeoutResults \cup MidlineResults \cup {TargetResult} : r >= -Risk
    /\ IsFiniteSet(Profiles) /\ Profiles # {} /\ IsFiniteSet(Boosts)

VARIABLES
    engine,      \* backtest.engine
    filters,     \* the guards of Switchable that are on
    stage,       \* "idle", "loaded", "run" or "done"
    bars,        \* the data of a sweep engine while its signals are looked for
    signals,     \* signals still to be walked, in the order of EntersBefore
    trades,      \* trades, in the order they were taken
    lastExit,    \* last_exit_bar, open_until_bar
    dailyR,      \* daily_pnl_r
    total, peakR,   \* cumulative_r, peak_r
    lossRun,     \* consec_loss
    killed       \* kill_switch_triggered

btVars == <<engine, filters, stage, bars, signals, trades, lastExit, dailyR, total, peakR,
            lossRun, killed>>
bookedVars == <<trades, lastExit, dailyR, total, peakR, lossRun>>

SweepEngines == {"ny_sweep_failure_reclaim", "ny_sweep_reversion"}
ComponentEngines == {"bb_only", "macd_only"}
Engines == {"sqe", "london_ny_overlap_breakout"} \cup SweepEngines \cup ComponentEngines

DayOf(i) == (i - 1) \div BarsPerDay
\* session_from_timestamp: the first bar of a day is of another session.
SessionOf(i) == IF (i - 1) % BarsPerDay = 0 THEN "London" ELSE "New York"

-----------------------------------------------------------------------------
(* Signals.                                                                 *)

\* sqe: any bar but the first and the last, LONG before SHORT.
\* bb_only, macd_only: any bar, one side of it.
\* london_ny_overlap_breakout: the third bar of a day that has one.
IsSignalSet(e, S) ==
    \A s \in S :
        CASE e = "sqe" -> s.entry \in 2 .. NumBars - 1
          [] e \in ComponentEngines -> \A t \in S : t.entry = s.entry => t = s
          [] OTHER -> /\ (s.entry - 1) % BarsPerDay = 2
                      /\ \A t \in S : t.entry = s.entry => t = s

AllSignals == {EntryAt(i, side, i) : i \in SignalBars, side \in Sides}

FoundIn(data) ==
    IF engine = "ny_sweep_reversion" THEN ReversionSignals(data) ELSE ReclaimSignals(data)

LoadSweep ==
    /\ stage = "idle"
    /\ engine \in SweepEngines
    /\ \E data \in [1 .. NumBars ->
            IF engine = "ny_sweep_reversion" THEN ReversionBarKinds ELSE ReclaimBarKinds] :
        /\ bars' = data
        /\ signals' = FoundIn(data)
    /\ stage' = "loaded"
    /\ UNCHANGED <<engine, filters, killed, bookedVars>>

LoadSignals ==
    /\ stage = "idle"
    /\ engine \in Engines \ SweepEngines
    /\ \E k \in 0 .. MaxSignals : \E S \in kSubset(k, AllSignals) :
        IsSignalSet(engine, S) /\ signals' = S
    /\ stage' = "loaded"
    /\ UNCHANGED <<engine, filters, bars, killed, bookedVars>>

-----------------------------------------------------------------------------
(* Guards, in the order an engine asks them.                                *)

Guards ==
    CASE engine = "sqe" ->
            <<"daily_loss", "kill_switch", "regime", "session", "position_limit", "news">>
      [] engine = "ny_sweep_failure_reclaim" ->
            <<"overlap", "daily_cap", "consecutive_loss", "regime_excluded", "daily_loss",
              "kill_switch", "news">>
      [] engine = "ny_sweep_reversion" ->
            <<"overlap", "daily_cap", "consecutive_loss", "daily_loss", "kill_switch", "news">>
      [] engine \in ComponentEngines -> <<"overlap", "daily_loss", "spread">>
      [] OTHER -> <<>>

\* Guards a configuration may turn off: by an effective filter or, of the component
\* engines, which ask for no filter, with a risk.max_concurrent above 1.
Filterable == {"daily_loss", "regime", "session", "position_limit", "news"}
Switchable == IF engine \in ComponentEngines THEN {"overlap"} ELSE Filterable
IsOn(guard) == guard \in Switchable => guard \in filters

\* Guards that read the market, the news or the clock.
Outside == {"regime", "regime_excluded", "session", "news", "spread"}

\* (A mutant: a trade may start on the bar on which the last one ends.)
OverlapsStrictly(s) == s.entry < lastExit

Overlaps(s) == s.entry <= lastExit

DailyLossReached(s) == dailyR[DayOf(s.entry)] <= -MaxDailyLoss

DrawdownReached == peakR - total >= KillSwitch

OfDay(s) == {n \in 1 .. Len(trades) : DayOf(trades[n].entry) = DayOf(s.entry)}
OfSession(s) == {n \in OfDay(s) : /\ SessionOf(trades[n].entry) = SessionOf(s.entry)
                                  /\ trades[n].side = s.side}

\* (A mutant: a new day starts the count again.)
LossesReachedOfDay(s) == OfDay(s) # {} /\ lossRun >= StopStreak

LossesReached(s) == lossRun >= StopStreak

\* What guard says of s when the regime in force has this profile and, of the
\* guards that look outside, the one called closed refuses.
Refuses(guard, s, profile, closed) ==
    CASE guard = "overlap" -> Overlaps(s)
      [] guard = "daily_cap" -> Cardinality(OfDay(s)) >= MaxTradesPerDay
      [] guard = "consecutive_loss" -> LossesReached(s)
      [] guard = "daily_loss" -> DailyLossReached(s)
      [] guard = "kill_switch" -> DrawdownReached
      [] guard = "position_limit" -> Cardinality(OfSession(s)) >= profile.perSession
      [] OTHER -> guard = closed

\* The first guard that refuses, or "none".
Refusal(s, profile, closed) ==
    LET refusing == {n \in 1 .. Len(Guards) :
                        IsOn(Guards[n]) /\ Refuses(Guards[n], s, profile, closed)}
    IN IF refusing = {} THEN "none" ELSE Guards[FirstBar(refusing)]

-----------------------------------------------------------------------------
(* The simulation of a trade.                                               *)

Exit(bar, r) == [exit |-> bar, r |-> r]

(* The bars after the entry are searched for the stop and then for the      *)
(* target (bb_only: a close at the middle band); the last one ends it.      *)
(* A trade entered on the last bar ends there with nothing.                 *)
LastBar(s) ==
    IF engine \in ComponentEngines THEN Lesser(s.entry + TimeExitBars, NumBars) ELSE NumBars
ExitResults ==
    {-Risk} \cup CASE engine = "bb_only" -> MidlineResults
                   [] engine = "macd_only" -> {}
                   [] OTHER -> {TargetResult}
Simulated(s) ==
    IF s.entry = NumBars THEN {Exit(s.entry, 0)}
    ELSE {Exit(j, r) : j \in s.entry + 1 .. LastBar(s), r \in ExitResults}
            \cup {Exit(LastBar(s), r) : r \in TimeoutResults}

\* The boosts of the news gate, asked by sqe alone; without it, 1.
NewsBoosts == IF engine = "sqe" /\ IsOn("news") THEN Boosts ELSE {One}

\* position_size_mult of the regime and the boost of the news.
Size(profile, boost) == boost * IF engine = "sqe" THEN profile.size ELSE 1
Sizes == {Size(p, b) : p \in Profiles, b \in NewsBoosts}

\* (A mutant: the books count one R whatever the size.)
BookUnscaled(s, result, size) ==
    /\ trades' = Append(trades, [entry |-> s.entry, side |-> s.side, exit |-> result.exit,
                                 r |-> result.r * size])
    /\ lastExit' = result.exit
    /\ dailyR' = [dailyR EXCEPT ![DayOf(s.entry)] = @ + result.r]
    /\ total' = total + result.r
    /\ peakR' = IF total' > peakR THEN total' ELSE peakR
    /\ lossRun' = IF result.r < 0 THEN lossRun + 1 ELSE 0

Book(s, result, size) ==
    LET r == result.r * size
    IN /\ trades' = Append(trades, [entry |-> s.entry, side |-> s.side, exit |-> result.exit,
                                    r |-> r])
       /\ lastExit' = result.exit
       /\ dailyR' = [dailyR EXCEPT ![DayOf(s.entry)] = @ + r]
       /\ total' = total + r
       /\ peakR' = IF total' > peakR THEN total' ELSE peakR
       /\ lossRun' = IF r < 0 THEN lossRun + 1 ELSE 0

-----------------------------------------------------------------------------

BacktestInit ==
    /\ engine = "none"
    /\ filters = {}
    /\ stage = "idle"
    /\ bars = <<>>
    /\ signals = {}
    /\ trades = <<>>
    /\ lastExit = 0
    /\ dailyR = [d \in 0 .. DayOf(NumBars) |-> 0]
    /\ total = 0
    /\ peakR = 0
    /\ lossRun = 0
    /\ killed = FALSE

\* run_backtest picks the engine.
Choose ==
    /\ engine = "none"
    /\ engine' \in Engines
    /\ UNCHANGED <<filters, stage, bars, signals, killed, bookedVars>>

\* system_mode PRODUCTION, or EDGE_DISCOVERY, whose one filter here is daily_loss;
\* risk.max_concurrent at most 1, or more.
StartRun ==
    /\ stage = "loaded"
    /\ stage' = "run"
    /\ bars' = <<>>
    /\ filters' \in IF engine \in ComponentEngines THEN {{"overlap"}, {}}
                                                    ELSE {Filterable, {"daily_loss"}}
    /\ UNCHANGED <<engine, signals, killed, bookedVars>>

(* A signal the kill switch stopped ends the run, except for                *)
(* ny_sweep_failure_reclaim, which goes on to refuse every signal.          *)
Goes(on) == stage' = IF on THEN "run" ELSE "done"

Walk(profile, boost, closed) ==
    /\ stage = "run"
    /\ \E s \in signals :
        LET refusal == IF killed THEN "kill_switch" ELSE Refusal(s, profile, closed)
        IN /\ \A t \in signals \ {s} : EntersBefore(s, t)
           /\ signals' = signals \ {s}
           /\ killed' = (refusal = "kill_switch")
           /\ Goes(refusal = "kill_switch" => engine = "ny_sweep_failure_reclaim")
           /\ IF refusal = "none"
              THEN \E result \in Simulated(s) : Book(s, result, Size(profile, boost))
              ELSE UNCHANGED bookedVars
    /\ UNCHANGED <<engine, filters, bars>>

Finish ==
    /\ stage = "run"
    /\ signals = {}
    /\ stage' = "done"
    /\ UNCHANGED <<engine, filters, bars, signals, killed, bookedVars>>

BacktestNext ==
    \/ Choose \/ LoadSweep \/ LoadSignals \/ StartRun \/ Finish
    \/ \E profile \in Profiles, boost \in NewsBoosts, closed \in Outside \cup {"none"} :
          Walk(profile, boost, closed)

BacktestSpec == BacktestInit /\ [][BacktestNext]_btVars

-----------------------------------------------------------------------------
(* Properties.                                                              *)

Taken == 1 .. Len(trades)
SumOf(S) == FoldSet(LAMBDA n, sum : sum + trades[n].r, 0, S)
Equity(n) == SumOf(1 .. n)
\* A stop at the largest size the regimes and the news together can give.
WorstLoss == Risk * CHOOSE m \in Sizes : \A n \in Sizes : n <= m

(* "Max een open trade" (quantbuild/docs/STRATEGY_SYSTEM_OVERVIEW.md:83):   *)
(* an engine whose overlap guard is on, which of the component engines needs *)
(* risk.max_concurrent <= 1, never holds two trades over one bar.  The guard *)
(* compares with the last exit only, so this needs every exit recorded and   *)
(* every trade to end after its entry, inside the data.                      *)
OneOpenTrade ==
    "overlap" \in ToSet(Guards) /\ IsOn("overlap") =>
        \A m, n \in Taken : m < n => trades[m].exit < trades[n].entry /\ trades[n].exit <= NumBars

(* max_daily_loss_r bounds what the trades entered on a day lose, up to the *)
(* last of them: with the guard on, no day loses the limit and another stop.*)
DayLossBounded ==
    IsOn("daily_loss") /\ "daily_loss" \in ToSet(Guards) =>
        \A d \in 0 .. DayOf(NumBars) :
            SumOf({n \in Taken : DayOf(trades[n].entry) = d}) > -(MaxDailyLoss + WorstLoss)

(* The kill switch bounds the fall of the equity curve from its highest     *)
(* point, the start included: nothing is traded after a fall of KillSwitch. *)
KillSwitchBounds ==
    "kill_switch" \in ToSet(Guards) =>
        \A m \in 0 .. Len(trades), n \in Taken :
            m < n => Equity(m) - Equity(n - 1) < KillSwitch

(* stop_after_consecutive_losses stops the rest of the backtest             *)
(* (quantbuild/docs/STRATEGY_SYSTEM_OVERVIEW.md:84), not only the day.      *)
LossStreakIsFinal ==
    engine \in SweepEngines =>
        ~\E n \in StopStreak + 1 .. Len(trades) :
            \A m \in n - StopStreak .. n - 1 : trades[m].r < 0

(* The three limits of a backtest together, by day, by drawdown and by      *)
(* streak, on a walk that books each result before the next signal.         *)
LossesBounded == DayLossBounded /\ KillSwitchBounds /\ LossStreakIsFinal

\* max_drawdown of compute_metrics: its peak begins at the first trade's equity.
MaxDrawdown ==
    LET after == {Equity(p[1]) - Equity(p[2]) : p \in {q \in Taken \X Taken : q[1] <= q[2]}}
    IN CHOOSE f \in after : \A g \in after : g <= f

(* The books the kill switch acts on and the report agree on the results:   *)
(* the drawdown of the moment is at least the one the report sees, and at   *)
(* most the one it shows and a loss of the first trade, which it leaves out.*)
DrawdownReported ==
    trades # <<>> =>
        /\ \A m \in Taken : Equity(m) - Equity(Len(trades)) <= peakR - total
        /\ peakR - total <= MaxDrawdown + (IF trades[1].r < 0 THEN -trades[1].r ELSE 0)

(* How far ahead the sweep engines look: a signal is what the bars up to    *)
(* its entry say, for a reclaim also those of the failure window and for a  *)
(* reversion those of the PivotBars hours after its own, which its bias     *)
(* reads.  Bars after them neither add a signal nor take one away.          *)
SignalsDecided ==
    stage = "loaded" /\ engine \in SweepEngines =>
        \A last \in 1 .. NumBars - 1 :
            LET Known(found) == {s \in found : KnownAt(s, engine) <= last}
            IN Known(signals) = Known(FoundIn(SubSeq(bars, 1, last)))
=============================================================================
