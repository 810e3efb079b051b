---------------------------- MODULE AdaptiveMode ----------------------------
(***************************************************************************)
(* Risk scaled by how it goes: QuantBuild's AdaptiveModeLayer, driven by   *)
(* drawdown and streaks (execution/adaptive_mode.py), and PassAccelerator, *)
(* driven by how far a challenge is (execution/pass_accelerator.py).       *)
(*                                                                         *)
(* Percentages of equity are in hundredths of a percent and multipliers in *)
(* hundredths.  A layer is a record: its mode, the wins and losses in a    *)
(* row, equity and its peak, and the last results, newest first, as far as *)
(* the momentum window looks.                                              *)
(***************************************************************************)
EXTENDS Integers, Sequences, SequencesExt

ModeNames == {"AGGRESSIVE", "BASE", "DEFENSIVE", "LOCKDOWN"}

\* MODE_PROFILES.
ModeRisk == [AGGRESSIVE |-> 130, BASE |-> 85, DEFENSIVE |-> 60, LOCKDOWN |-> 30]

MomentumWindow == 5        \* aggressive_momentum_window
DefensiveStreak == 4       \* defensive_losing_streak
LockdownStreak == 6        \* lockdown_losing_streak
RecoveryWins == 3          \* recovery_wins
StreakCap == LockdownStreak

\* A new ModeState carries BASE's name with multiplier 1.0, not its profile's.
NewLayer == [mode |-> "BASE", mult |-> 100, wins |-> 0, losses |-> 0,
             equity |-> 0, peak |-> 0, recent |-> <<>>]

HasPositiveMomentum(layer) ==
    /\ Len(layer.recent) = MomentumWindow
    /\ FoldSeq(+, 0, layer.recent) > 0
    /\ 10 * Len(SelectSeq(layer.recent, LAMBDA r : r > 0)) >= 6 * MomentumWindow

Recovered(layer) == layer.wins >= RecoveryWins

\* _evaluate_mode: a drawdown or a losing streak decides; without one the
\* mode steps up, from DEFENSIVE and LOCKDOWN only after RecoveryWins wins.
NextMode(limits, layer) ==
    LET dd == layer.peak - layer.equity
        good == dd <= limits.aggressive /\ HasPositiveMomentum(layer)
        forced == IF dd >= limits.lockdown \/ layer.losses >= LockdownStreak THEN "LOCKDOWN"
                  ELSE IF dd >= limits.defensive \/ layer.losses >= DefensiveStreak THEN "DEFENSIVE"
                  ELSE "none"
    IN IF forced # "none" THEN forced
       ELSE CASE layer.mode \in {"BASE", "AGGRESSIVE"} -> IF good THEN "AGGRESSIVE" ELSE "BASE"
              [] layer.mode = "DEFENSIVE" -> IF Recovered(layer) THEN "BASE" ELSE "DEFENSIVE"
              [] layer.mode = "LOCKDOWN" ->
                    IF Recovered(layer) /\ ~good THEN "DEFENSIVE" ELSE "LOCKDOWN"

\* Only a switch changes the multiplier.
EvaluateMode(limits, layer) ==
    LET mode == NextMode(limits, layer)
    IN IF mode = layer.mode THEN layer
       ELSE [layer EXCEPT !.mode = mode, !.mult = ModeRisk[mode]]

UpdateEquity(limits, layer, equity) ==
    EvaluateMode(limits, [layer EXCEPT !.equity = equity,
                                       !.peak = IF equity > @ THEN equity ELSE @])

Capped(n) == IF n > StreakCap THEN StreakCap ELSE n

\* record_trade: a result of zero leaves the streaks alone.
RecordTrade(limits, layer, r) ==
    LET recent == <<r>> \o layer.recent
    IN EvaluateMode(limits,
         [layer EXCEPT
            !.recent = SubSeq(recent, 1, IF Len(recent) > MomentumWindow THEN MomentumWindow
                                                                         ELSE Len(recent)),
            !.wins = IF r > 0 THEN Capped(@ + 1) ELSE IF r < 0 THEN 0 ELSE @,
            !.losses = IF r < 0 THEN Capped(@ + 1) ELSE IF r > 0 THEN 0 ELSE @])

-----------------------------------------------------------------------------
(* PassAccelerator.                                                         *)

\* PHASE_PROFILES.
PhaseRisk == [ATTACK |-> 130, NORMAL |-> 100, SECURE |-> 70, COAST |-> 30]

NewAccelerator == [phase |-> "ATTACK", peak |-> 0]

\* (A mutant: how near the drawdown is to the limit is not looked at.)
EvaluatePhaseWithoutDanger(plan, equity, day, dd) ==
    IF equity >= plan.coast THEN "COAST"
    ELSE IF equity >= plan.secure THEN "SECURE"
    ELSE IF day <= plan.attackUntil THEN "ATTACK" ELSE "NORMAL"

\* _evaluate_phase: a drawdown near the limit comes before everything.
EvaluatePhase(plan, equity, day, dd) ==
    IF plan.total - dd <= plan.danger THEN "SECURE"
    ELSE IF equity >= plan.coast THEN "COAST"
    ELSE IF equity >= plan.secure THEN "SECURE"
    ELSE IF day <= plan.attackUntil /\ 10 * dd < 3 * plan.total THEN "ATTACK"
    ELSE IF plan.days - day <= plan.push /\ 2 * equity < plan.target THEN "ATTACK"
    ELSE "NORMAL"

UpdateAccelerator(plan, accel, equity, day) ==
    LET peak == IF equity > accel.peak THEN equity ELSE accel.peak
    IN [phase |-> EvaluatePhase(plan, equity, day, peak - equity), peak |-> peak]
=============================================================================
