---------------------------- MODULE AdaptiveSims ----------------------------
(***************************************************************************)
(* The simulations that put the risk layers to work, one path of them:     *)
(*   portfolio  simulate_adaptive_portfolio of scripts/                    *)
(*              portfolio_adaptive_sim.py: signals in time order through   *)
(*              daily loss, drawdown, mode, heat and execution quality;    *)
(*   challenge  simulate_ftmo_challenge of scripts/pass_acceleration_sim   *)
(*              .py and simulate_challenge of scripts/dual_book_ftmo_sim   *)
(*              .py, with or without the accelerator;                      *)
(*   funded     simulate_funded of dual_book_ftmo_sim.py.                  *)
(*                                                                         *)
(* A result is drawn from Results, in hundredths of R; how many trades a   *)
(* day has is free.  Every instrument has risk multiplier 1.               *)
(***************************************************************************)
EXTENDS AdaptiveMode, PortfolioHeat

CONSTANTS
    Results,        \* results of a trade before slippage
    MaxDays,        \* n_days of a challenge, and a bound for the others
    MaxPerDay,      \* bound: trades of a day
    AttackUntil,    \* attack_until_day
    PushDays        \* the last days in which _evaluate_phase pushes

ASSUME SimsAssumption ==
    /\ Results \subseteq Int
    /\ MaxDays \in Nat /\ MaxPerDay \in Nat /\ AttackUntil \in Nat /\ PushDays \in Nat

VARIABLES
    sim,        \* which simulation, "none" before one is chosen
    simPc,      \* "day", "trade" or "over"
    accelerated,\* use_accelerator
    layer,      \* the AdaptiveModeLayer
    accel,      \* the PassAccelerator
    equity, peak, maxDd,
    day, daily,
    left,       \* trades of the day that are still to come
    outcome,    \* "none", "passed", "failed_dd", "failed_timeout" or "blown"
    worstDay    \* history: the largest result, either way, a day ended with

simVars == <<sim, simPc, accelerated, layer, accel, equity, peak, maxDd, day, daily, left,
             outcome, worstDay, positions>>

Config == [
    portfolio |-> [base |-> 150, daily |-> 500, total |-> 1000,
                   aggressive |-> 100, defensive |-> 300, lockdown |-> 700],
    challenge |-> [base |-> 150, daily |-> 500, total |-> 1000,
                   aggressive |-> 150, defensive |-> 300, lockdown |-> 800],
    funded    |-> [base |-> 75, daily |-> 200, total |-> 600,
                   aggressive |-> 100, defensive |-> 200, lockdown |-> 420]]
Target == 1000
Cfg == Config[sim]

\* What simulate_challenge gives the accelerator.
ChallengePlan == [target |-> Target, total |-> 1000, danger |-> 300, secure |-> 700,
                  coast |-> 900, days |-> MaxDays, attackUntil |-> AttackUntil, push |-> PushDays]

SimInit ==
    /\ sim = "none" /\ simPc = "over" /\ accelerated = FALSE
    /\ layer = NewLayer /\ accel = NewAccelerator
    /\ equity = 0 /\ peak = 0 /\ maxDd = 0
    /\ day = 0 /\ daily = 0 /\ left = 0
    /\ outcome = "none" /\ worstDay = 0 /\ positions = <<>>

Begin ==
    /\ sim = "none"
    /\ sim' \in {"portfolio", "challenge", "funded"}
    /\ accelerated' \in (IF sim' = "challenge" THEN BOOLEAN ELSE {FALSE})
    /\ simPc' = "day"
    /\ UNCHANGED <<layer, accel, equity, peak, maxDd, day, daily, left, outcome, worstDay,
                   positions>>

\* A day begins; a coasting challenge takes one trade at most.
NewDay ==
    /\ simPc = "day"
    /\ day < MaxDays
    /\ day' = day + 1 /\ daily' = 0
    /\ accel' = IF accelerated THEN UpdateAccelerator(ChallengePlan, accel, equity, day + 1)
                               ELSE accel
    /\ left' \in 0 .. (IF accelerated /\ accel'.phase = "COAST" THEN 1 ELSE MaxPerDay)
    /\ simPc' = "trade"
    /\ UNCHANGED <<sim, accelerated, layer, equity, peak, maxDd, outcome, worstDay, positions>>

\* What a result r does to the equity at this risk, slippage of 0.065 R off.
Slippage == 65
TradePnl(r, risk) == ((10 * r - Slippage) * risk) \div 1000

PhaseMultiplier == IF accelerated THEN PhaseRisk[accel.phase] ELSE 100
EffectiveRisk == (Cfg.base * layer.mult * PhaseMultiplier) \div 10000

Larger(a, b) == IF b > a THEN b ELSE a

Booked(r) ==
    LET pnl == TradePnl(r, EffectiveRisk)
    IN /\ equity' = equity + pnl
       /\ daily' = daily + pnl
       /\ peak' = Larger(peak, equity')
       /\ maxDd' = Larger(maxDd, peak' - equity')
       /\ left' = left - 1

\* A trade of the challenge or the funded account: equity first, result after.
Trade ==
    /\ sim \in {"challenge", "funded"} /\ simPc = "trade" /\ left > 0
    /\ \E r \in Results :
          /\ Booked(r)
          /\ layer' = RecordTrade(Cfg, UpdateEquity(Cfg, layer, equity'), r)
          /\ accel' = IF accelerated THEN UpdateAccelerator(ChallengePlan, accel, equity', day)
                                     ELSE accel
    /\ UNCHANGED <<sim, simPc, accelerated, day, outcome, worstDay, positions>>

\* A signal of the portfolio and the position it would open.
Signal(symbol, direction) ==
    [symbol |-> symbol, direction |-> direction, risk |-> EffectiveRisk]

Blocked(signal) ==
    \/ daily <= -Cfg.daily
    \/ peak - equity >= Cfg.total
    \/ layer.mode = "LOCKDOWN"
    \/ ~CanOpen(positions, signal)

\* A signal is blocked, or its spread or slippage is too wide.
SkipSignal ==
    /\ sim = "portfolio" /\ simPc = "trade" /\ left > 0
    /\ left' = left - 1
    /\ UNCHANGED <<sim, simPc, accelerated, layer, accel, equity, peak, maxDd, day, daily,
                   outcome, worstDay, positions>>

\* The position is added for the record and released before the next signal.
Release(held, signal) == RemoveAt(held, Min(Where(held, LAMBDA p :
    p.symbol = signal.symbol /\ p.direction = signal.direction)))

TakeSignal ==
    /\ sim = "portfolio" /\ simPc = "trade" /\ left > 0
    /\ \E symbol \in Symbols, direction \in Directions, r \in Results :
          /\ ~Blocked(Signal(symbol, direction))
          /\ Booked(r)
          /\ layer' = UpdateEquity(Cfg, RecordTrade(Cfg, layer, r - Slippage \div 10), equity')
          /\ positions' = Release(Append(positions, Signal(symbol, direction)),
                                  Signal(symbol, direction))
    /\ UNCHANGED <<sim, simPc, accelerated, accel, day, outcome, worstDay>>

Magnitude(n) == IF n < 0 THEN -n ELSE n

\* (A mutant: a day that wins the daily limit does not fail.)
JudgedByLosses ==
    CASE sim = "portfolio" -> "none"
      [] sim = "challenge" ->
            IF daily <= -Cfg.daily \/ maxDd >= Cfg.total THEN "failed_dd"
            ELSE IF equity >= Target THEN "passed"
            ELSE IF day = MaxDays THEN "failed_timeout" ELSE "none"
      [] sim = "funded" ->
            IF daily <= -Cfg.daily \/ peak - equity >= Cfg.total THEN "blown" ELSE "none"

\* The account is judged when the day is over: abs(daily), so a good day can
\* fail as well.
Judged ==
    CASE sim = "portfolio" -> "none"
      [] sim = "challenge" ->
            IF Magnitude(daily) >= Cfg.daily \/ maxDd >= Cfg.total THEN "failed_dd"
            ELSE IF equity >= Target THEN "passed"
            ELSE IF day = MaxDays THEN "failed_timeout" ELSE "none"
      [] sim = "funded" ->
            IF Magnitude(daily) >= Cfg.daily \/ peak - equity >= Cfg.total THEN "blown" ELSE "none"

EndDay ==
    /\ simPc = "trade" /\ left = 0
    /\ outcome' = Judged
    /\ worstDay' = Larger(worstDay, Magnitude(daily))
    /\ simPc' = IF Judged = "none" THEN "day" ELSE "over"
    /\ UNCHANGED <<sim, accelerated, layer, accel, equity, peak, maxDd, day, daily, left,
                   positions>>

SimNext == Begin \/ NewDay \/ Trade \/ SkipSignal \/ TakeSignal \/ EndDay

SimSpec == SimInit /\ [][SimNext]_simVars

-----------------------------------------------------------------------------
(* Properties.                                                              *)

\* With an accelerator, no trade is placed at more than SECURE's risk while
\* the drawdown is within its danger zone of the limit.
DangerZoneSecured ==
    accelerated /\ simPc = "trade" /\ peak - equity >= 700 => accel.phase = "SECURE"

(* What a challenge that passed went through: no day of it ended beyond the *)
(* daily limit and no trade of it fell beyond the total one, although only  *)
(* whole days are judged; and since a day that wins the limit fails too, the *)
(* target takes more days than the limit goes into it.                      *)
PassedWithinLimits ==
    outcome = "passed" =>
        /\ worstDay < Cfg.daily /\ maxDd < Cfg.total
        /\ day * Cfg.daily > Target
=============================================================================
