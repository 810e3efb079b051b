---------------------------- MODULE PoliciesProofs ----------------------------
(***************************************************************************)
(* What the account policies promise.  A simulated challenge can rely on   *)
(* its layers for every set of results, any number of days and trades, and *)
(* any days of attack and push; the heat engine never holds a mirrored     *)
(* pair, for any symbols and risks; and an account that is over stays so,  *)
(* and a challenge that passed has the funded account it was switched to,  *)
(* for any accounts, created over one another as their owner likes, and    *)
(* any trades.  Next to one another, with routing (RoutingProofs) and      *)
(* backtests (BacktestProofs), the parts keep all of this.                 *)
(***************************************************************************)
EXTENDS Policies, RoutingProofs, BacktestProofs

Sims == {"portfolio", "challenge", "funded"}

\* A layer is in a mode and has a multiplier; the rest does not matter here.
IsLayer(l) ==
    /\ l = [mode |-> l.mode, mult |-> l.mult, wins |-> l.wins, losses |-> l.losses,
            equity |-> l.equity, peak |-> l.peak, recent |-> l.recent]
    /\ l.mode \in ModeNames /\ l.mult \in Int

IsAccelerator(a) == a = [phase |-> a.phase, peak |-> a.peak] /\ a.phase \in DOMAIN PhaseRisk

LEMMA EvaluateModeLayer ==
    ASSUME NEW limits, NEW l, IsLayer(l)
    PROVE  IsLayer(EvaluateMode(limits, l))
<1> DEFINE mode == NextMode(limits, l)
           moved == [l EXCEPT !.mode = mode]
           both == [moved EXCEPT !.mult = ModeRisk[mode]]
<1>1. mode \in ModeNames
  BY DEF NextMode, ModeNames, IsLayer
<1>2. ModeRisk[mode] \in Int
  BY <1>1 DEF ModeRisk, ModeNames
<1>3. EvaluateMode(limits, l) = IF mode = l.mode THEN l ELSE both
  BY DEF EvaluateMode
<1> HIDE DEF mode
<1>4. IsLayer(moved)
  BY <1>1 DEF IsLayer
<1> HIDE DEF moved
<1>5. IsLayer(both)
  BY <1>2, <1>4 DEF IsLayer
<1> HIDE DEF both
<1> QED BY <1>3, <1>5

LEMMA UpdateEquityLayer ==
    ASSUME NEW limits, NEW l, IsLayer(l), NEW e
    PROVE  IsLayer(UpdateEquity(limits, l, e))
<1> DEFINE top == IF e > l.peak THEN e ELSE l.peak
           one == [l EXCEPT !.equity = e]
           two == [one EXCEPT !.peak = top]
<1>1. UpdateEquity(limits, l, e) = EvaluateMode(limits, two)
  BY DEF UpdateEquity
<1> HIDE DEF top
<1>2. IsLayer(one)
  BY DEF IsLayer
<1> HIDE DEF one
<1>3. IsLayer(two)
  BY <1>2 DEF IsLayer
<1> HIDE DEF two
<1> QED BY <1>1, <1>3, EvaluateModeLayer

LEMMA RecordTradeLayer ==
    ASSUME NEW limits, NEW l, IsLayer(l), NEW r
    PROVE  IsLayer(RecordTrade(limits, l, r))
<1> DEFINE longer == <<r>> \o l.recent
           recent == SubSeq(longer, 1, IF Len(longer) > MomentumWindow THEN MomentumWindow
                                                                       ELSE Len(longer))
           wins == IF r > 0 THEN Capped(l.wins + 1) ELSE IF r < 0 THEN 0 ELSE l.wins
           losses == IF r < 0 THEN Capped(l.losses + 1) ELSE IF r > 0 THEN 0 ELSE l.losses
           one == [l EXCEPT !.recent = recent]
           two == [one EXCEPT !.wins = wins]
           three == [two EXCEPT !.losses = losses]
<1>1. RecordTrade(limits, l, r) = EvaluateMode(limits, three)
  BY DEF RecordTrade
<1> HIDE DEF recent, wins, losses
<1>2. IsLayer(one)
  BY DEF IsLayer
<1> HIDE DEF one
<1>3. IsLayer(two)
  BY <1>2 DEF IsLayer
<1> HIDE DEF two
<1>4. IsLayer(three)
  BY <1>3 DEF IsLayer
<1> HIDE DEF three
<1> QED BY <1>1, <1>4, EvaluateModeLayer

\* What the accelerator makes of an equity.
LEMMA UpdateAcceleratorPhase ==
    ASSUME NEW a, IsAccelerator(a), NEW e, NEW d
    PROVE  LET new == UpdateAccelerator(ChallengePlan, a, e, d)
           IN /\ IsAccelerator(new)
              /\ new.peak = IF e > a.peak THEN e ELSE a.peak
              /\ ChallengePlan.total - (new.peak - e) <= ChallengePlan.danger
                    => new.phase = "SECURE"
BY DEF UpdateAccelerator, EvaluatePhase, IsAccelerator, PhaseRisk

-----------------------------------------------------------------------------

\* A challenge that goes on has won less than the daily limit on each of its days.
DaysInv ==
    /\ day \in Int /\ worstDay \in Int
    /\ sim = "none" => equity = 0 /\ day = 0 /\ worstDay = 0
    /\ sim = "challenge" /\ simPc = "day" => worstDay < 500 /\ equity <= 500 * day
    /\ sim = "challenge" /\ simPc = "trade" =>
          worstDay < 500 /\ equity - daily <= 500 * (day - 1)

\* The accelerator has seen every equity, and its phase is that of the moment
\* while trades are taken; a simulation that was judged is over.
SimInv ==
    /\ sim \in Sims \cup {"none"} /\ accelerated \in BOOLEAN
    /\ sim = "none" => outcome = "none" /\ simPc = "over" /\ ~accelerated
    /\ IsLayer(layer) /\ IsAccelerator(accel)
    /\ equity \in Int /\ peak \in Int /\ maxDd \in Int /\ daily \in Int
    /\ equity <= peak
    /\ accelerated => sim = "challenge"
    /\ accelerated \/ sim = "none" => accel.peak = peak
    /\ sim # "none" /\ outcome # "none" => simPc = "over"
    /\ outcome = "passed" => sim = "challenge"
    /\ DaysInv
    /\ DangerZoneSecured
    /\ PassedWithinLimits

LEMMA SimInitInv == ASSUME SimInit PROVE SimInv
<1>1. IsLayer(NewLayer)
  BY DEF IsLayer, NewLayer, ModeNames
<1>2. IsAccelerator(NewAccelerator) /\ NewAccelerator.peak = 0
  BY DEF IsAccelerator, NewAccelerator, PhaseRisk
<1>3. DangerZoneSecured /\ PassedWithinLimits /\ DaysInv
  BY DEF SimInit, DangerZoneSecured, PassedWithinLimits, DaysInv
<1>4. accelerated \in BOOLEAN /\ ~accelerated
  BY DEF SimInit
<1> QED BY <1>1, <1>2, <1>3, <1>4 DEF SimInit, SimInv, Sims

\* A trade moves equity, day and peak by a whole number.
LEMMA BookedInts ==
    ASSUME SimInv, sim # "none", NEW r \in Int, Booked(r)
    PROVE  /\ equity' \in Int /\ daily' \in Int /\ peak' \in Int /\ maxDd' \in Int
           /\ peak' = (IF equity' > peak THEN equity' ELSE peak) /\ equity' <= peak'
           /\ equity' - daily' = equity - daily
<1>1. Cfg.base \in Int
  BY DEF Cfg, Config, SimInv, Sims
<1>2. PhaseMultiplier \in Int
  BY DEF PhaseMultiplier, SimInv, IsAccelerator, PhaseRisk
<1>3. layer.mult \in Int
  BY DEF SimInv, IsLayer
<1>4. Cfg.base * layer.mult * PhaseMultiplier \in Int
  BY <1>1, <1>2, <1>3
<1>5. EffectiveRisk \in Int
  BY <1>4 DEF EffectiveRisk
<1>6. (10 * r - Slippage) * EffectiveRisk \in Int
  BY <1>5 DEF Slippage
<1>7. TradePnl(r, EffectiveRisk) \in Int
  BY <1>6 DEF TradePnl
<1> QED BY <1>7 DEF Booked, Larger, SimInv

\* Each step keeps the invariant.
LEMMA SimNextInv == ASSUME SimInv, SimNext PROVE SimInv'
<1> USE DEF Sims
<1>1. CASE Begin
  <2>1. DaysInv'
    BY <1>1 DEF Begin, SimInv, DaysInv
  <2> QED BY <1>1, <2>1 DEF Begin, SimInv, DangerZoneSecured, PassedWithinLimits
<1>2. CASE NewDay
  <2>0. DaysInv'
    BY <1>2 DEF NewDay, SimInv, DaysInv
  <2>1. CASE accelerated
    <3>1. /\ IsAccelerator(accel') /\ accel'.peak = IF equity > accel.peak THEN equity ELSE accel.peak
          /\ ChallengePlan.total - (accel'.peak - equity) <= ChallengePlan.danger
                => accel'.phase = "SECURE"
      BY <1>2, <2>1, UpdateAcceleratorPhase DEF NewDay, SimInv
    <3>2. accel'.peak = peak
      BY <2>1, <3>1 DEF SimInv
    <3>3. DangerZoneSecured'
      BY <1>2, <3>1, <3>2 DEF NewDay, DangerZoneSecured, ChallengePlan, SimInv
    <3>4. outcome = "none" /\ outcome' = "none"
      BY <1>2 DEF NewDay, SimInv
    <3> QED BY <1>2, <2>0, <3>1, <3>2, <3>3, <3>4 DEF NewDay, SimInv, PassedWithinLimits
  <2>2. CASE ~accelerated
    BY <1>2, <2>0, <2>2 DEF NewDay, SimInv, DangerZoneSecured, PassedWithinLimits
  <2> QED BY <2>1, <2>2
<1>3. CASE Trade
  <2>1. PICK r \in Results :
          /\ Booked(r)
          /\ layer' = RecordTrade(Cfg, UpdateEquity(Cfg, layer, equity'), r)
          /\ accel' = IF accelerated THEN UpdateAccelerator(ChallengePlan, accel, equity', day)
                                     ELSE accel
    BY <1>3 DEF Trade
  <2>2. r \in Int
    BY SimsAssumption
  <2>3. /\ equity' \in Int /\ daily' \in Int /\ peak' \in Int /\ maxDd' \in Int
        /\ peak' = (IF equity' > peak THEN equity' ELSE peak) /\ equity' <= peak'
    BY <1>3, <2>1, <2>2, BookedInts DEF Trade
  <2>0. DaysInv'
    <3>1. equity' - daily' = equity - daily
      BY <1>3, <2>1, <2>2, BookedInts DEF Trade
    <3> QED BY <1>3, <2>3, <3>1 DEF Trade, SimInv, DaysInv
  <2>4. IsLayer(layer')
    BY <2>1, UpdateEquityLayer, RecordTradeLayer DEF SimInv
  <2>5. /\ UNCHANGED <<sim, simPc, accelerated, outcome>> /\ simPc = "trade" /\ sim # "none"
        /\ outcome = "none"
    BY <1>3 DEF Trade, SimInv
  <2>6. CASE accelerated
    <3>1. /\ IsAccelerator(accel') /\ accel'.peak = IF equity' > accel.peak THEN equity' ELSE accel.peak
          /\ ChallengePlan.total - (accel'.peak - equity') <= ChallengePlan.danger
                => accel'.phase = "SECURE"
      BY <2>1, <2>6, UpdateAcceleratorPhase DEF SimInv
    <3>2. accel'.peak = peak'
      BY <2>3, <2>6, <3>1 DEF SimInv
    <3>3. DangerZoneSecured'
      <4> DEFINE loss == peak' - equity'
      <4>1. ChallengePlan.total = 1000 /\ ChallengePlan.danger = 300
        BY DEF ChallengePlan
      <4>2. ChallengePlan.total - loss <= ChallengePlan.danger => accel'.phase = "SECURE"
        BY <3>1, <3>2, Zenon
      <4>3. loss \in Int
        <5>1. peak' \in Int /\ equity' \in Int
          BY <2>3
        <5> QED BY <5>1
      <4> HIDE DEF loss
      <4>4. loss >= 700 => accel'.phase = "SECURE"
        BY <4>1, <4>2, <4>3
      <4> QED BY <4>4, Zenon DEF loss, DangerZoneSecured
    <3>4. PassedWithinLimits'
      BY <2>5 DEF PassedWithinLimits
    <3>5. IsAccelerator(accel')
      BY <3>1
    <3> QED BY <2>0, <2>3, <2>4, <2>5, <2>6, <3>2, <3>3, <3>4, <3>5 DEF SimInv
  <2>7. CASE ~accelerated
    BY <2>0, <2>1, <2>3, <2>4, <2>5, <2>7 DEF SimInv, DangerZoneSecured, PassedWithinLimits
  <2> QED BY <2>6, <2>7
<1>4. CASE SkipSignal
  BY <1>4 DEF SkipSignal, SimInv, DaysInv, DangerZoneSecured, PassedWithinLimits, Cfg
<1>5. CASE TakeSignal
  <2>1. PICK r \in Results :
          Booked(r) /\ layer' = UpdateEquity(Cfg, RecordTrade(Cfg, layer, r - Slippage \div 10), equity')
    BY <1>5 DEF TakeSignal
  <2>2. r \in Int
    BY SimsAssumption
  <2>3. /\ equity' \in Int /\ daily' \in Int /\ peak' \in Int /\ maxDd' \in Int
        /\ equity' <= peak'
    BY <1>5, <2>1, <2>2, BookedInts DEF TakeSignal
  <2>4. IsLayer(layer')
    BY <2>1, UpdateEquityLayer, RecordTradeLayer DEF SimInv
  <2>5. /\ UNCHANGED <<sim, simPc, accelerated, accel, outcome>> /\ simPc = "trade"
        /\ sim = "portfolio" /\ outcome = "none"
    BY <1>5 DEF TakeSignal, SimInv
  <2>6. DaysInv'
    BY <1>5, <2>5 DEF TakeSignal, SimInv, DaysInv
  <2> QED BY <2>3, <2>4, <2>5, <2>6 DEF SimInv, DangerZoneSecured, PassedWithinLimits
<1>6. CASE EndDay
  <2>1. /\ outcome' = Judged
        /\ UNCHANGED <<sim, accelerated, layer, accel, equity, peak, maxDd, daily>>
        /\ simPc' = IF Judged = "none" THEN "day" ELSE "over"
        /\ sim # "none"
    BY <1>6 DEF EndDay, SimInv
  <2>2. /\ worstDay' = (IF worstDay < Magnitude(daily) THEN Magnitude(daily) ELSE worstDay)
        /\ day' = day /\ simPc = "trade"
    BY <1>6 DEF EndDay, Larger, SimInv, DaysInv, Magnitude
  <2>3. /\ Magnitude(daily) \in Int /\ daily <= Magnitude(daily)
        /\ sim = "challenge" => Cfg.daily = 500 /\ Cfg.total = 1000
    BY DEF Magnitude, SimInv, Cfg, Config
  <2>4. ASSUME sim = "challenge", Judged \in {"passed", "none"}
        PROVE  /\ Magnitude(daily) < 500 /\ maxDd < 1000
               /\ Judged = "passed" => equity >= 1000
    BY <2>3, <2>4 DEF Judged, SimInv, Target
  <2>5. ASSUME sim = "challenge", Judged \in {"passed", "none"}
        PROVE  worstDay' < 500 /\ equity < 500 * day
    BY <2>2, <2>3, <2>4, <2>5 DEF SimInv, DaysInv
  <2>6. outcome' = "passed" => sim = "challenge"
    BY <2>1 DEF Judged, SimInv
  <2>7. PassedWithinLimits'
    <3> SUFFICES ASSUME outcome' = "passed"
                 PROVE  worstDay' < Cfg'.daily /\ maxDd' < Cfg'.total /\ day' * Cfg'.daily > Target
      BY DEF PassedWithinLimits
    <3>1. sim = "challenge" /\ Judged = "passed" /\ Cfg' = Cfg
      BY <2>1, <2>6 DEF Cfg
    <3>2. worstDay' < 500 /\ maxDd < 1000 /\ 1000 <= equity /\ equity < 500 * day
      BY <2>4, <2>5, <3>1
    <3> QED BY <2>1, <2>2, <2>3, <3>1, <3>2 DEF Target, SimInv, DaysInv
  <2>8. DaysInv'
    <3>1. worstDay' \in Int /\ day' \in Int
      BY <2>2, <2>3 DEF SimInv, DaysInv
    <3>2. sim = "challenge" /\ simPc' = "day" => worstDay' < 500 /\ equity <= 500 * day
      BY <2>1, <2>5 DEF SimInv, DaysInv
    <3> QED BY <2>1, <2>2, <3>1, <3>2 DEF DaysInv
  <2> QED BY <2>1, <2>6, <2>7, <2>8 DEF SimInv, DangerZoneSecured
<1> QED BY <1>1, <1>2, <1>3, <1>4, <1>5, <1>6 DEF SimNext

LEMMA SimStutter == ASSUME SimInv, UNCHANGED simVars PROVE SimInv'
BY DEF SimInv, DaysInv, DangerZoneSecured, PassedWithinLimits, Cfg, simVars

\* What a step of a simulated challenge keeps, whatever is traded.
THEOREM SimInvariant == SimSpec => []SimInv
<1>1. SimInit => SimInv
  BY SimInitInv
<1>2. SimInv /\ [SimNext]_simVars => SimInv'
  BY SimNextInv, SimStutter
<1> QED BY <1>1, <1>2, PTL DEF SimSpec

\* Near the drawdown limit every accelerated trade is placed in SECURE,
\* however the day began and whatever was traded since.
THEOREM DangerZoneSecuredCorrect == SimSpec => []DangerZoneSecured
<1>1. SimInv => DangerZoneSecured
  BY DEF SimInv
<1> QED BY <1>1, SimInvariant, PTL

\* A challenge that is passed kept both limits on every day and in every trade, and took
\* more days than the daily limit goes into the target.
THEOREM PassedWithinLimitsCorrect == SimSpec => []PassedWithinLimits
<1>1. SimInv => PassedWithinLimits
  BY DEF SimInv
<1> QED BY <1>1, SimInvariant, PTL

-----------------------------------------------------------------------------
(* The heat engine *)

Position == [symbol : Symbols, direction : Directions, risk : Risks]

HeatInv == positions \in Seq(Position) /\ MirrorPairExclusive

\* The oldest of some positions is one of them.
LEMMA OldestIn ==
    ASSUME NEW S, S \subseteq Nat, S # {}
    PROVE  Min(S) \in S
<1> DEFINE Less == {p \in Nat \X Nat : p[1] < p[2]}
<1>1. IsWellFoundedOn(Less, Nat)
  BY NatLessThanWellFounded, Zenon DEF OpToRel
<1>2. PICK x \in S : \A y \in S : <<y, x>> \notin Less
  BY <1>1, WFMin
<1>3. ASSUME NEW y \in Nat, x \in Nat, <<y, x>> \notin Less
      PROVE  x <= y
  BY <1>3
<1>4. \A y \in S : x <= y
  BY <1>2, <1>3
<1> QED
  BY <1>4 DEF Min

\* What the second of two sequences contributes to both.
LEMMA SecondOfTwo ==
    ASSUME NEW S, NEW f \in Seq(S), NEW b \in Seq(S), NEW n \in 1..Len(b)
    PROVE  (f \o b)[Len(f) + n] = b[n]
OBVIOUS

\* What is left after one position is removed was there before.
LEMMA RemoveAtKeeps ==
    ASSUME NEW S, NEW held \in Seq(S), NEW k \in DOMAIN held
    PROVE  /\ RemoveAt(held, k) \in Seq(S)
           /\ \A i \in DOMAIN RemoveAt(held, k) :
                 \E j \in DOMAIN held : RemoveAt(held, k)[i] = held[j]
<1> DEFINE front == SubSeq(held, 1, k - 1)
           back == SubSeq(held, k + 1, Len(held))
<1>1. /\ front \in Seq(S) /\ Len(front) = k - 1
      /\ \A i \in 1..(k - 1) : front[i] = held[i]
  OBVIOUS
<1>2. /\ back \in Seq(S) /\ Len(back) = Len(held) - k
      /\ \A i \in 1..(Len(held) - k) : back[i] = held[k + i]
  OBVIOUS
<1>3. RemoveAt(held, k) = front \o back
  BY DEF RemoveAt
<1> HIDE DEF front, back
<1>4. front \o back \in Seq(S) /\ DOMAIN (front \o back) = 1..(Len(held) - 1)
  BY <1>1, <1>2
<1>5. ASSUME NEW i \in 1..(Len(held) - 1)
      PROVE  \E j \in DOMAIN held : (front \o back)[i] = held[j]
  <2>0. i \in Nat /\ k \in Nat /\ k >= 1 /\ Len(held) \in Nat
    OBVIOUS
  <2>1. CASE i <= k - 1
    <3>1. (front \o back)[i] = held[i]
      BY <1>1, <1>2, <2>1
    <3> QED
      BY <3>1
  <2>2. CASE ~(i <= k - 1)
    <3> DEFINE n == i - (k - 1)
    <3>1. n \in 1..Len(back) /\ i = Len(front) + n /\ n + k = i + 1 /\ i + 1 \in DOMAIN held
      BY <1>1, <1>2, <2>0, <2>2
    <3> HIDE DEF n
    <3>2. (front \o back)[i] = back[n]
      <4>1. front \in Seq(S) /\ back \in Seq(S) /\ n \in 1..Len(back) /\ i = Len(front) + n
        BY <1>1, <1>2, <3>1
      <4> QED
        BY <4>1, SecondOfTwo, Zenon
    <3>3. back[n] = held[i + 1]
      BY <1>2, <2>0, <3>1
    <3> QED
      BY <3>1, <3>2, <3>3
  <2> QED
    BY <2>1, <2>2, Zenon
<1> QED
  BY <1>3, <1>4, <1>5

\* can_open refuses either symbol of the cluster while the other is held.
LEMMA ClusterIsEmpty ==
    ASSUME NEW held \in Seq(Position), NEW symbol \in {"USDCHF", "EURUSD"},
           CanOpenInCluster(held, symbol)
    PROVE  \A i \in DOMAIN held : held[i].symbol \notin {"USDCHF", "EURUSD"}
<1> DEFINE inverse == [members |-> {"USDCHF", "EURUSD"}, most |-> 1, heat |-> 100]
           active == ActiveIn(held, inverse)
<1>1. inverse \in {c \in Clusters : symbol \in c.members}
  BY DEF Clusters
<1>2. Cardinality(active) < inverse.most
  BY <1>1, Zenon DEF CanOpenInCluster
<1>3. active = {i \in 1..Len(held) : held[i].symbol \in {"USDCHF", "EURUSD"}}
  BY DEF ActiveIn, Where
<1> HIDE DEF active
<1>4. IsFiniteSet(active)
  <2>1. Len(held) \in Nat /\ 1 \in Int
    OBVIOUS
  <2>2. IsFiniteSet(1 .. Len(held)) /\ active \subseteq 1 .. Len(held)
    BY <1>3, <2>1, FS_Interval
  <2> QED
    BY <2>2, FS_Subset
<1>5. active = {}
  BY <1>2, <1>4, FS_EmptySet, FS_CardinalityType
<1> QED
  BY <1>3, <1>5

LEMMA OpenKeepsHeatInv ==
    ASSUME HeatInv, OpenPosition
    PROVE  HeatInv'
<1>1. PICK symbol \in Symbols, direction \in Directions, risk \in Risks :
        LET new == [symbol |-> symbol, direction |-> direction, risk |-> risk]
        IN CanOpen(positions, new) /\ positions' = Append(positions, new)
  BY DEF OpenPosition
<1> DEFINE new == [symbol |-> symbol, direction |-> direction, risk |-> risk]
<1>2. /\ CanOpenInCluster(positions, symbol) /\ new \in Position
      /\ positions \in Seq(Position) /\ positions' = Append(positions, new)
  BY <1>1 DEF CanOpen, Position, HeatInv
<1>3. new.symbol = symbol
  OBVIOUS
<1> HIDE DEF new
<1>4. /\ positions' \in Seq(Position) /\ DOMAIN positions' = 1..(Len(positions) + 1)
      /\ \A i \in 1..Len(positions) : positions'[i] = positions[i]
      /\ positions'[Len(positions) + 1] = new
  BY <1>2
<1>5. ASSUME symbol \in {"USDCHF", "EURUSD"}
      PROVE  \A i \in DOMAIN positions : positions[i].symbol \notin {"USDCHF", "EURUSD"}
  BY <1>2, <1>5, ClusterIsEmpty
<1>6. ASSUME NEW i \in DOMAIN positions', NEW j \in DOMAIN positions',
             positions'[i].symbol = "USDCHF", positions'[j].symbol = "EURUSD"
      PROVE  FALSE
  <2>1. CASE i \in DOMAIN positions /\ j \in DOMAIN positions
    BY <1>2, <1>4, <1>6, <2>1 DEF HeatInv, MirrorPairExclusive
  <2>2. CASE i \notin DOMAIN positions
    BY <1>2, <1>3, <1>4, <1>5, <1>6, <2>2
  <2>3. CASE j \notin DOMAIN positions
    BY <1>2, <1>3, <1>4, <1>5, <1>6, <2>3
  <2> QED
    BY <2>1, <2>2, <2>3
<1> QED
  BY <1>4, <1>6 DEF HeatInv, MirrorPairExclusive

LEMMA RemoveKeepsHeatInv ==
    ASSUME HeatInv, RemovePosition
    PROVE  HeatInv'
<1>1. PICK k \in DOMAIN positions : positions' = RemoveAt(positions, k)
  <2>1. PICK match \in SUBSET DOMAIN positions :
          match # {} /\ positions' = RemoveAt(positions, Min(match))
    BY DEF RemovePosition, Where
  <2>2. DOMAIN positions \subseteq Nat
    BY DEF HeatInv
  <2> QED
    BY <2>1, <2>2, OldestIn
<1>2. /\ positions' \in Seq(Position)
      /\ \A i \in DOMAIN positions' : \E j \in DOMAIN positions : positions'[i] = positions[j]
  BY <1>1, RemoveAtKeeps DEF HeatInv
<1> QED
  BY <1>2 DEF HeatInv, MirrorPairExclusive

\* The two instruments that mirror each other (chf_eur_inverse) are never held
\* together, whatever was opened and removed before.
THEOREM MirrorPairExclusiveCorrect ==
    HeatInit /\ [][HeatNext]_heatVars => []MirrorPairExclusive
<1>1. HeatInit => HeatInv
  BY DEF HeatInit, HeatInv, MirrorPairExclusive
<1>2. HeatInv /\ [HeatNext]_heatVars => HeatInv'
  <2>1. ASSUME HeatInv, UNCHANGED heatVars
        PROVE  HeatInv'
    BY <2>1 DEF HeatInv, MirrorPairExclusive, heatVars
  <2> QED
    BY <2>1, OpenKeepsHeatInv, RemoveKeepsHeatInv DEF HeatNext
<1>3. HeatInv => MirrorPairExclusive
  BY DEF HeatInv
<1> QED
  BY <1>1, <1>2, <1>3, PTL

-----------------------------------------------------------------------------
(* The lifecycle of an account *)

LifeInv == LifeTypeOK /\ FundedFollowsPass

Fields == [kind : Kinds \cup {"none"}, status : Statuses, start : Int, equity : Int, peak : Int,
           daily : Int, losingDays : Int, late : BOOLEAN, payouts : Int, graduated : BOOLEAN]

\* What an update of one field leaves as it is.
Same(a, b, changed) ==
    /\ b.kind = a.kind
    /\ "status" \in changed \/ b.status = a.status
    /\ "start" \in changed \/ b.start = a.start
    /\ "equity" \in changed \/ b.equity = a.equity
    /\ "peak" \in changed \/ b.peak = a.peak
    /\ b.graduated = a.graduated

LEMMA AccountFields ==
    /\ Account \subseteq Fields
    /\ \A a \in Fields : a \in Account <=>
          /\ a.status \in {"passed", "failed"} => a.kind = "challenge"
          /\ a.status = "halted" => a.kind = "funded"
          /\ a.kind = "none" <=> a.status = "none"
          /\ a.equity <= a.peak
BY DEF Account, Fields

\* What an operation on an account that is there leaves of it: what it is and how it began.
Persists(a, b) ==
    b \in Account /\ b.kind = a.kind /\ b.start = a.start /\ b.graduated = a.graduated

\* A trade keeps an account what it is, except for its results.
LEMMA TradedAccount ==
    ASSUME NEW a \in Account, NEW pnl \in TradeResults
    PROVE  /\ Persists(a, Traded(a, pnl))
           /\ Traded(a, pnl).status = a.status
           /\ a.status # "active" => Traded(a, pnl) = a
<1>1. pnl \in Int
  BY LifecycleAssumption
<1>2. CASE a.status # "active"
  BY <1>2 DEF Traded, Persists
<1>3. CASE a.status = "active"
  <2> DEFINE b == [a EXCEPT !.equity = a.equity + pnl]
             c == [b EXCEPT !.daily = a.daily + pnl]
             top == IF a.equity + pnl > a.peak THEN a.equity + pnl ELSE a.peak
             d == [c EXCEPT !.peak = top]
  <2>0. a \in Fields
    BY AccountFields
  <2>1. b \in Fields /\ Same(a, b, {"equity"}) /\ b.equity = a.equity + pnl
    BY <1>1, <2>0 DEF Fields, Same
  <2>2. a.daily + pnl \in Int /\ top \in Int /\ a.equity + pnl <= top
    BY <1>1, <2>0 DEF Fields
  <2>3. Traded(a, pnl) = d
    BY <1>3 DEF Traded
  <2> HIDE DEF b, top
  <2>4. c \in Fields /\ Same(b, c, {})
    BY <2>1, <2>2 DEF Fields, Same
  <2> HIDE DEF c
  <2>5. d \in Fields /\ Same(c, d, {"peak"}) /\ d.peak = top
    BY <2>2, <2>4 DEF Fields, Same
  <2> HIDE DEF d
  <2>6. /\ d.status = a.status /\ d.start = a.start /\ d.kind = a.kind
        /\ d.graduated = a.graduated /\ d.equity <= d.peak
    BY <2>1, <2>2, <2>4, <2>5 DEF Same
  <2>7. d \in Account
    BY <1>3, <2>5, <2>6, AccountFields
  <2> QED BY <1>3, <2>3, <2>6, <2>7 DEF Persists
<1> QED BY <1>2, <1>3

\* So does a new day.
LEMMA DayAfterAccount ==
    ASSUME NEW a \in Account
    PROVE  /\ Persists(a, DayAfter(a))
           /\ DayAfter(a).status = a.status
           /\ DayAfter(a).equity = a.equity
<1> DEFINE days == IF a.daily >= 0 THEN 0
                   ELSE IF a.losingDays < LosingDaysHalt THEN a.losingDays + 1 ELSE a.losingDays
           b == [a EXCEPT !.losingDays = days]
           c == [b EXCEPT !.daily = 0]
<1>0. a \in Fields
  BY AccountFields
<1>1. days \in Int
  BY <1>0 DEF Fields
<1>2. DayAfter(a) = c
  BY DEF DayAfter
<1> HIDE DEF days
<1>3. b \in Fields /\ Same(a, b, {})
  BY <1>0, <1>1 DEF Fields, Same
<1> HIDE DEF b
<1>4. c \in Fields /\ Same(b, c, {})
  BY <1>3 DEF Fields, Same
<1> HIDE DEF c
<1>5. c \in Account
  BY <1>3, <1>4, AccountFields DEF Same
<1> QED BY <1>2, <1>3, <1>4, <1>5 DEF Same, Persists

\* And the end of the 30 days, and a payout.
LEMMA NotedAccount ==
    ASSUME NEW a \in Account
    PROVE  /\ \A b \in {[a EXCEPT !.late = TRUE], [a EXCEPT !.payouts = 1]} :
                 Persists(a, b) /\ b.status = a.status /\ b.equity = a.equity
<1>0. a \in Fields
  BY AccountFields
<1> DEFINE late == [a EXCEPT !.late = TRUE]
           paid == [a EXCEPT !.payouts = 1]
<1>1. late \in Fields /\ Same(a, late, {}) /\ paid \in Fields /\ Same(a, paid, {})
  <2>1. late \in Fields /\ Same(a, late, {})
    BY <1>0 DEF Fields, Same
  <2>2. paid \in Fields /\ Same(a, paid, {})
    BY <1>0 DEF Fields, Same
  <2> HIDE DEF late, paid
  <2> QED BY <2>1, <2>2
<1> HIDE DEF late, paid
<1>2. late \in Account /\ paid \in Account
  BY <1>1, AccountFields DEF Same
<1> QED BY <1>1, <1>2 DEF Same, Persists, late, paid

\* A check that decides changes the status alone.
LEMMA DecidedAccount ==
    ASSUME NEW a \in Account, NEW status \in Statuses,
           \/ status \in {"passed", "failed"} /\ a.kind = "challenge"
           \/ status = "halted" /\ a.kind = "funded"
    PROVE  /\ Persists(a, [a EXCEPT !.status = status])
           /\ [a EXCEPT !.status = status].status = status
           /\ [a EXCEPT !.status = status].equity = a.equity
<1>0. a \in Fields
  BY AccountFields
<1> DEFINE b == [a EXCEPT !.status = status]
<1>1. b \in Fields /\ Same(a, b, {"status"}) /\ b.status = status
  BY <1>0 DEF Fields, Same
<1> HIDE DEF b
<1>2. b \in Account
  BY <1>1, AccountFields DEF Same
<1> QED BY <1>1, <1>2 DEF Same, Persists, b

\* A new account is active at its balance.
LEMMA NewAccountActive ==
    ASSUME NEW balance \in Int, NEW kind \in Kinds, NEW graduated \in BOOLEAN
    PROVE  /\ NewAccount(kind, balance, graduated) \in Account
           /\ NewAccount(kind, balance, graduated).status = "active"
           /\ NewAccount(kind, balance, graduated).kind = kind
           /\ NewAccount(kind, balance, graduated).graduated = graduated
           /\ NewAccount(kind, balance, graduated).start = balance
<1> DEFINE a == [NoAccount EXCEPT !.kind = kind]
           b == [a EXCEPT !.status = "active"]
           c == [b EXCEPT !.start = balance]
           d == [c EXCEPT !.equity = balance]
           e == [d EXCEPT !.peak = balance]
           f == [e EXCEPT !.graduated = graduated]
<1>1. NewAccount(kind, balance, graduated) = f
  BY DEF NewAccount
<1>0. NoAccount \in Fields
  BY DEF NoAccount, Fields, Statuses
<1>2. a \in Fields /\ a.kind = kind
  BY <1>0 DEF Fields
<1> HIDE DEF a
<1>3. b \in Fields /\ b.kind = kind /\ b.status = "active"
  BY <1>2 DEF Fields, Statuses
<1> HIDE DEF b
<1>4. c \in Fields /\ c.kind = kind /\ c.status = "active" /\ c.start = balance
  BY <1>3 DEF Fields
<1> HIDE DEF c
<1>5. d \in Fields /\ d.kind = kind /\ d.status = "active" /\ d.start = balance
      /\ d.equity = balance
  BY <1>4 DEF Fields
<1> HIDE DEF d
<1>6. e \in Fields /\ e.kind = kind /\ e.status = "active" /\ e.start = balance
      /\ e.equity = balance /\ e.peak = balance
  BY <1>5 DEF Fields
<1> HIDE DEF e
<1>7. f \in Fields /\ f.kind = kind /\ f.status = "active" /\ f.start = balance
      /\ f.equity = balance /\ f.peak = balance /\ f.graduated = graduated
  BY <1>6 DEF Fields
<1> HIDE DEF f
<1>8. f \in Account
  BY <1>7, AccountFields DEF Kinds
<1> QED BY <1>1, <1>7, <1>8

LEMMA LifeInitInv == ASSUME LifeInit PROVE LifeInv
<1>1. NoAccount \in Account /\ NoAccount.status = "none" /\ NoAccount.kind = "none"
  BY DEF NoAccount, Account, Statuses
<1> QED BY <1>1 DEF LifeInit, LifeInv, LifeTypeOK, FundedFollowsPass

LEMMA FundedIdIn ==
    ASSUME NEW id \in Ids
    PROVE  /\ FundedId(id) \in Ids /\ FundedId(id)[2] = "funded"
           /\ \A other \in Ids : id[2] = "own" /\ other[2] = "own"
                                 /\ FundedId(other) = FundedId(id) => other = id
BY DEF FundedId, Ids

\* An operation on one account that keeps what it is, and does not decide it.
LEMMA OneContinues ==
    ASSUME LifeInv, NEW id \in Ids, NEW b, accounts' = [accounts EXCEPT ![id] = b],
           Persists(accounts[id], b), b.status = accounts[id].status,
           accounts[id].status = "passed" => b.equity = accounts[id].equity
    PROVE  LifeInv'
<1>1. LifeTypeOK'
  BY DEF LifeInv, LifeTypeOK, Persists
<1>2. FundedFollowsPass'
  <2> SUFFICES ASSUME NEW c \in Ids, accounts'[c].status = "passed"
               PROVE  LET funded == accounts'[FundedId(c)]
                      IN /\ funded.kind = "funded"
                         /\ funded.graduated => /\ funded.start = accounts'[c].equity
                                                /\ 10 * funded.start >= 11 * accounts'[c].start
    BY DEF FundedFollowsPass
  <2>1. \A d \in Ids : /\ accounts'[d].status = accounts[d].status
                       /\ accounts'[d].kind = accounts[d].kind
                       /\ accounts'[d].start = accounts[d].start
                       /\ accounts'[d].graduated = accounts[d].graduated
                       /\ accounts[d].status = "passed" => accounts'[d].equity = accounts[d].equity
    BY DEF LifeInv, LifeTypeOK, Persists
  <2>2. FundedId(c) \in Ids
    BY FundedIdIn
  <2> QED BY <2>1, <2>2 DEF LifeInv, FundedFollowsPass
<1> QED BY <1>1, <1>2 DEF LifeInv

\* Each operation keeps the invariant.
LEMMA LifeNextInv == ASSUME LifeInv, LifeNext PROVE LifeInv'
<1>0. PICK id \in Ids :
        \/ \E kind \in Kinds, balance \in Balances : CreateAccount(id, kind, balance)
        \/ \E pnl \in TradeResults : RecordTradeOn(id, pnl)
        \/ CheckChallenge(id) \/ CheckFunded(id)
        \/ StartNewDay(id) \/ TimePasses(id) \/ RecordPayout(id)
  BY DEF LifeNext
<1>t. /\ accounts \in [Ids -> Account] /\ accounts[id] \in Account /\ FundedId(id) \in Ids
      /\ \A c \in Ids : accounts[c].kind = "challenge" => c[2] = "own"
      /\ \A c \in Ids : accounts[c].status = "passed" => accounts[c].kind = "challenge"
  BY FundedIdIn, AccountFields DEF LifeInv, LifeTypeOK, Account
<1>1. CASE \E kind \in Kinds, balance \in Balances : CreateAccount(id, kind, balance)
  <2>1. PICK kind \in Kinds, balance \in Balances : CreateAccount(id, kind, balance)
    BY <1>1
  <2> DEFINE new == NewAccount(kind, balance, FALSE)
  <2>2. /\ new \in Account /\ new.status = "active" /\ new.kind = kind /\ ~new.graduated
    <3>1. balance \in Int /\ FALSE \in BOOLEAN
      BY LifecycleAssumption
    <3> QED BY <3>1, NewAccountActive
  <2>3. accounts' = [accounts EXCEPT ![id] = new] /\ (kind = "challenge" => id[2] = "own")
    BY <2>1 DEF CreateAccount
  <2> HIDE DEF new
  <2>4. LifeTypeOK'
    BY <1>t, <2>2, <2>3 DEF LifeTypeOK
  <2>5. FundedFollowsPass'
    <3> SUFFICES ASSUME NEW c \in Ids, accounts'[c].status = "passed"
                 PROVE  LET funded == accounts'[FundedId(c)]
                        IN /\ funded.kind = "funded"
                           /\ funded.graduated => /\ funded.start = accounts'[c].equity
                                                  /\ 10 * funded.start >= 11 * accounts'[c].start
      BY DEF FundedFollowsPass
    <3>1. c # id /\ accounts'[c] = accounts[c]
      BY <1>t, <2>2, <2>3
    <3>2. FundedId(c) \in Ids /\ FundedId(c)[2] = "funded"
      BY FundedIdIn
    <3>3. CASE FundedId(c) = id
      <4>1. kind = "funded"
        BY <2>3, <3>2, <3>3 DEF Kinds
      <4> QED BY <1>t, <2>2, <2>3, <3>3, <4>1
    <3>4. CASE FundedId(c) # id
      BY <1>t, <2>3, <3>1, <3>2, <3>4 DEF LifeInv, FundedFollowsPass
    <3> QED BY <3>3, <3>4
  <2> QED BY <2>4, <2>5 DEF LifeInv
<1>2. CASE \E pnl \in TradeResults : RecordTradeOn(id, pnl)
  <2>1. PICK pnl \in TradeResults : accounts' = [accounts EXCEPT ![id] = Traded(accounts[id], pnl)]
    BY <1>2 DEF RecordTradeOn
  <2>2. /\ Persists(accounts[id], Traded(accounts[id], pnl))
        /\ Traded(accounts[id], pnl).status = accounts[id].status
        /\ accounts[id].status # "active" => Traded(accounts[id], pnl) = accounts[id]
    BY <1>t, TradedAccount
  <2> QED BY <2>1, <2>2, OneContinues
<1>3. CASE StartNewDay(id) \/ TimePasses(id) \/ RecordPayout(id)
  <2>1. PICK b \in {DayAfter(accounts[id]), [accounts[id] EXCEPT !.late = TRUE],
                    [accounts[id] EXCEPT !.payouts = 1]} :
          accounts' = [accounts EXCEPT ![id] = b]
    BY <1>3 DEF StartNewDay, TimePasses, RecordPayout
  <2>2. /\ Persists(accounts[id], b) /\ b.status = accounts[id].status
        /\ b.equity = accounts[id].equity
    BY <1>t, <2>1, DayAfterAccount, NotedAccount
  <2> QED BY <2>1, <2>2, OneContinues
<1>4. CASE CheckFunded(id) \/ (CheckChallenge(id) /\ ~Pass(id))
  <2>1. PICK status \in {"failed", "halted"} :
          /\ accounts' = [accounts EXCEPT ![id] = [accounts[id] EXCEPT !.status = status]]
          /\ status = "failed" => accounts[id].kind = "challenge"
          /\ status = "halted" => accounts[id].kind = "funded"
          /\ accounts[id].status = "active"
    BY <1>4 DEF CheckFunded, CheckChallenge
  <2> DEFINE b == [accounts[id] EXCEPT !.status = status]
  <2>2. Persists(accounts[id], b) /\ b.status = status
    <3>1. status \in Statuses
      BY DEF Statuses
    <3>2. \/ status \in {"passed", "failed"} /\ accounts[id].kind = "challenge"
          \/ status = "halted" /\ accounts[id].kind = "funded"
      BY <2>1
    <3> HIDE DEF b
    <3> QED BY <1>t, <3>1, <3>2, DecidedAccount DEF b
  <2>3. accounts' = [accounts EXCEPT ![id] = b]
    BY <2>1
  <2> HIDE DEF b
  <2>4. LifeTypeOK'
    BY <1>t, <2>2, <2>3 DEF LifeTypeOK, Persists
  <2>5. \A d \in Ids : /\ accounts'[d].kind = accounts[d].kind
                       /\ accounts'[d].start = accounts[d].start
                       /\ accounts'[d].graduated = accounts[d].graduated
                       /\ accounts'[d].status = "passed" => accounts'[d] = accounts[d]
    BY <1>t, <2>1, <2>2, <2>3 DEF Persists
  <2>6. FundedFollowsPass'
    BY <2>5, FundedIdIn DEF LifeInv, FundedFollowsPass
  <2> QED BY <2>4, <2>6 DEF LifeInv
<1>5. CASE CheckChallenge(id) /\ Pass(id)
  <2> DEFINE over == [accounts[id] EXCEPT !.status = "passed"]
             new == NewAccount("funded", accounts[id].equity, TRUE)
  <2>1. /\ accounts[id].kind = "challenge" /\ accounts[id].status = "active"
        /\ accounts[id].equity \in Int /\ accounts[id].start \in Int
    BY <1>5, <1>t, AccountFields DEF CheckChallenge, Fields
  <2>2. /\ over \in Account /\ over.status = "passed" /\ over.kind = "challenge"
        /\ over.equity = accounts[id].equity /\ over.start = accounts[id].start
    BY <1>t, <2>1, DecidedAccount DEF Persists, Statuses
  <2>3. new \in Account /\ new.kind = "funded" /\ new.start = accounts[id].equity
        /\ new.status = "active"
    <3>1. "funded" \in Kinds /\ TRUE \in BOOLEAN
      BY DEF Kinds
    <3>2. \A g \in BOOLEAN, b \in Int :
             /\ NewAccount("funded", b, g) \in Account /\ NewAccount("funded", b, g).kind = "funded"
             /\ NewAccount("funded", b, g).start = b /\ NewAccount("funded", b, g).status = "active"
      <4> TAKE g \in BOOLEAN, b \in Int
      <4> QED BY <3>1, NewAccountActive
    <3> QED BY <2>1, <3>1, <3>2
  <2>4. id[2] = "own" /\ FundedId(id)[2] = "funded" /\ FundedId(id) # id
    BY <1>t, <2>1, FundedIdIn
  <2>5. accounts' = [accounts EXCEPT ![id] = over, ![FundedId(id)] = new]
    BY <1>5 DEF Pass
  <2>6. 10 * accounts[id].equity >= 11 * accounts[id].start
    <3>1. \/ GainReaches(accounts[id], 10)
          \/ accounts' = [accounts EXCEPT ![id].status = "failed"]
      BY <1>5 DEF CheckChallenge
    <3> DEFINE failed == [accounts[id] EXCEPT !.status = "failed"]
    <3>2. failed.status = "failed"
      BY <1>t, AccountFields DEF Fields
    <3>3. accounts'[id] = over
      BY <1>t, <2>4, <2>5
    <3>4. ~(accounts' = [accounts EXCEPT ![id] = failed])
      <4> HIDE DEF over, failed
      <4> QED BY <1>t, <2>2, <3>2, <3>3
    <3>5. GainReaches(accounts[id], 10)
      BY <3>1, <3>4
    <3> QED BY <2>1, <3>5 DEF GainReaches
  <2> HIDE DEF over, new
  <2>7. /\ accounts'[id] = over /\ accounts'[FundedId(id)] = new
        /\ \A d \in Ids \ {id, FundedId(id)} : accounts'[d] = accounts[d]
        /\ accounts' \in [Ids -> Account]
    BY <1>t, <2>2, <2>3, <2>4, <2>5
  <2>8. LifeTypeOK'
    BY <1>t, <2>2, <2>3, <2>4, <2>7 DEF LifeTypeOK
  <2>9. FundedFollowsPass'
    <3> SUFFICES ASSUME NEW c \in Ids, accounts'[c].status = "passed"
                 PROVE  LET funded == accounts'[FundedId(c)]
                        IN /\ funded.kind = "funded"
                           /\ funded.graduated => /\ funded.start = accounts'[c].equity
                                                  /\ 10 * funded.start >= 11 * accounts'[c].start
      BY DEF FundedFollowsPass
    <3>1. CASE c = id
      BY <2>2, <2>3, <2>6, <2>7, <3>1
    <3>2. CASE c # id
      <4>1. c # FundedId(id) /\ accounts'[c] = accounts[c]
        BY <2>3, <2>7, <3>2
      <4>2. c[2] = "own" /\ FundedId(c) \in Ids /\ FundedId(c)[2] = "funded"
        BY <1>t, <4>1, FundedIdIn
      <4>3. FundedId(c) # id /\ FundedId(c) # FundedId(id)
        BY <2>4, <3>2, <4>2, FundedIdIn
      <4> QED BY <2>7, <4>1, <4>2, <4>3 DEF LifeInv, FundedFollowsPass
    <3> QED BY <3>1, <3>2
  <2> QED BY <2>8, <2>9 DEF LifeInv
<1> QED BY <1>0, <1>1, <1>2, <1>3, <1>4, <1>5

LEMMA LifeStutter == ASSUME LifeInv, UNCHANGED lifeVars PROVE LifeInv'
BY DEF LifeInv, LifeTypeOK, FundedFollowsPass, lifeVars

\* What every operation on the accounts keeps, in any order.
THEOREM LifeInvariant == LifeSpec => []LifeInv
<1>1. LifeInit => LifeInv
  BY LifeInitInv
<1>2. LifeInv /\ [LifeNext]_lifeVars => LifeInv'
  BY LifeNextInv, LifeStutter
<1> QED BY <1>1, <1>2, PTL DEF LifeSpec

\* The account a passed challenge switches to is there and began with what the challenge
\* ended with: accounts created over one another, trades, checks and payouts in any order.
THEOREM FundedFollowsPassCorrect == LifeSpec => []FundedFollowsPass
<1>1. LifeInv => FundedFollowsPass
  BY DEF LifeInv
<1> QED BY <1>1, LifeInvariant, PTL

\* An account that is over keeps its status and its equity, unless its owner or the pass
\* of its challenge begins it anew.
THEOREM HaltIsFinalCorrect == LifeSpec => HaltIsFinal
<1> DEFINE Kept(d) == /\ accounts'[d].status = accounts[d].status
                      /\ accounts'[d].equity = accounts[d].equity
           Final == \A id \in Ids :
              accounts[id].status \in {"passed", "failed", "halted"} =>
                  \/ /\ accounts'[id].status = accounts[id].status
                     /\ accounts'[id].equity = accounts[id].equity
                  \/ Renewed(id)
<1>1. ASSUME LifeInv, LifeNext PROVE Final
  <2> SUFFICES ASSUME NEW d \in Ids, accounts[d].status \in {"passed", "failed", "halted"}
               PROVE  Kept(d) \/ Renewed(d)
    OBVIOUS
  <2>0. PICK id \in Ids :
          \/ \E kind \in Kinds, balance \in Balances : CreateAccount(id, kind, balance)
          \/ \E pnl \in TradeResults : RecordTradeOn(id, pnl)
          \/ CheckChallenge(id) \/ CheckFunded(id)
          \/ StartNewDay(id) \/ TimePasses(id) \/ RecordPayout(id)
    BY <1>1 DEF LifeNext
  <2>t. accounts \in [Ids -> Account] /\ accounts[id] \in Account /\ FundedId(id) \in Ids
    BY <1>1, FundedIdIn DEF LifeInv, LifeTypeOK
  <2>1. CASE \E kind \in Kinds, balance \in Balances : CreateAccount(id, kind, balance)
    <3>1. CASE d = id
      BY <2>1, <3>1 DEF Renewed
    <3>2. CASE d # id
      BY <2>1, <2>t, <3>2 DEF CreateAccount
    <3> QED BY <3>1, <3>2
  <2>2. CASE \E pnl \in TradeResults : RecordTradeOn(id, pnl)
    BY <2>2, <2>t, TradedAccount DEF RecordTradeOn
  <2>3. CASE StartNewDay(id) \/ TimePasses(id) \/ RecordPayout(id)
    <3>1. PICK b \in {DayAfter(accounts[id]), [accounts[id] EXCEPT !.late = TRUE],
                      [accounts[id] EXCEPT !.payouts = 1]} :
            accounts' = [accounts EXCEPT ![id] = b]
      BY <2>3 DEF StartNewDay, TimePasses, RecordPayout
    <3>2. b.status = accounts[id].status /\ b.equity = accounts[id].equity
      BY <2>t, <3>1, DayAfterAccount, NotedAccount
    <3> QED BY <2>t, <3>1, <3>2
  <2>4. CASE CheckFunded(id) \/ (CheckChallenge(id) /\ ~Pass(id))
    <3>1. accounts[id].status = "active" /\ d # id
      BY <2>4 DEF CheckFunded, CheckChallenge
    <3> QED BY <2>4, <2>t, <3>1 DEF CheckFunded, CheckChallenge
  <2>5. CASE CheckChallenge(id) /\ Pass(id)
    <3>1. d # id
      BY <2>5 DEF CheckChallenge
    <3>2. CASE d = FundedId(id)
      BY <2>5, <3>2 DEF Renewed
    <3>3. CASE d # FundedId(id)
      BY <2>5, <2>t, <3>1, <3>3 DEF Pass
    <3> QED BY <3>2, <3>3
  <2> QED BY <2>0, <2>1, <2>2, <2>3, <2>4, <2>5
<1>2. LifeInv /\ [LifeNext]_lifeVars => [Final]_lifeVars
  BY <1>1
<1> HIDE DEF Final
<1>3. LifeSpec => [][Final]_lifeVars
  BY <1>2, LifeInvariant, PTL DEF LifeSpec
<1> QED BY <1>3 DEF Final, HaltIsFinal

-----------------------------------------------------------------------------
(* All parts next to one another *)

\* A behaviour of the composition is one of the routing, of the lifecycle and
\* of a backtest.
LEMMA PartsAreTheirs == Spec => RouteSpec /\ LifeSpec /\ BacktestSpec
<1>1. Init => RouteInit /\ LifeInit /\ BacktestInit
  BY DEF Init
<1>2. [Next]_vars => [RouteNext]_routeVars
  BY DEF Next, vars, NextRouting, NextHeat, NextSims, NextLifecycle, NextBacktest
<1>3. [Next]_vars => [LifeNext]_lifeVars
  BY DEF Next, vars, NextRouting, NextHeat, NextSims, NextLifecycle, NextBacktest
<1>4. [Next]_vars => [BacktestNext]_btVars
  BY DEF Next, vars, NextRouting, NextHeat, NextSims, NextLifecycle, NextBacktest
<1> QED
  BY <1>1, <1>2, <1>3, <1>4, PTL DEF Spec, RouteSpec, LifeSpec, BacktestSpec

\* A position the simulated portfolio adds for the record is released again.
LEMMA ReleasedAgain ==
    ASSUME NEW signal
    PROVE  Release(Append(<<>>, signal), signal) = <<>>
<1> DEFINE held == Append(<<>>, signal)
           match == Where(held, LAMBDA p : p.symbol = signal.symbol
                                           /\ p.direction = signal.direction)
<1>1. held = <<signal>> /\ DOMAIN held = {1} /\ held[1] = signal
  OBVIOUS
<1> HIDE DEF held
<1>2. match = {1}
  BY <1>1 DEF Where
<1> HIDE DEF match
<1>3. Min({1}) = 1
  BY DEF Min
<1>4. Release(held, signal) = RemoveAt(held, 1)
  BY <1>2, <1>3 DEF Release, match
<1>5. RemoveAt(<<signal>>, 1) = <<>>
  BY DEF RemoveAt
<1> QED
  BY <1>1, <1>4, <1>5 DEF held

\* The heat engine of a simulation holds nothing between two signals.
SharedInv == SimInv /\ HeatInv /\ (part # "heat" => positions = <<>>)

LEMMA NothingIsHeld ==
    ASSUME positions = <<>>
    PROVE  HeatInv
BY DEF HeatInv, MirrorPairExclusive

LEMMA SharedInvariant == Spec => []SharedInv
<1>1. Init => SharedInv
  BY SimInitInv, NothingIsHeld DEF Init, HeatInit, SharedInv
<1>2. SharedInv /\ [Next]_vars => SharedInv'
  <2> SUFFICES ASSUME SharedInv, [Next]_vars PROVE SharedInv'
    OBVIOUS
  <2>1. CASE UNCHANGED <<part, simVars>>
    <3>1. SimInv'
      BY <2>1, SimStutter DEF SharedInv
    <3> QED
      BY <2>1, <3>1 DEF SharedInv, HeatInv, MirrorPairExclusive, simVars
  <2>2. CASE NextHeat
    <3>1. part = "heat" /\ part' = part /\ HeatNext
      BY <2>2 DEF NextHeat
    <3>2. HeatInv'
      BY <3>1, OpenKeepsHeatInv, RemoveKeepsHeatInv DEF HeatNext, SharedInv
    <3>3. SimInv'
      BY <2>2 DEF NextHeat, SharedInv, SimInv, DaysInv, DangerZoneSecured, PassedWithinLimits, Cfg
    <3> QED
      BY <3>1, <3>2, <3>3 DEF SharedInv
  <2>3. CASE NextSims
    <3>1. part = "sims" /\ part' = part /\ SimNext /\ positions = <<>>
      BY <2>3 DEF NextSims, SharedInv
    <3>2. SimInv'
      BY <3>1, SimNextInv DEF SharedInv
    <3>3. positions' = <<>>
      <4>1. CASE TakeSignal
        <5>1. PICK signal : positions' = Release(Append(positions, signal), signal)
          BY <4>1 DEF TakeSignal
        <5> QED
          BY <3>1, <5>1, ReleasedAgain
      <4> QED
        BY <3>1, <4>1 DEF SimNext, Begin, NewDay, Trade, SkipSignal, EndDay
    <3> QED
      BY <3>1, <3>2, <3>3, NothingIsHeld DEF SharedInv, HeatInv, MirrorPairExclusive
  <2> QED
    BY <2>1, <2>2, <2>3 DEF Next, vars, NextRouting, NextLifecycle, NextBacktest
<1> QED
  BY <1>1, <1>2, PTL DEF Spec

\* What each policy promises holds whichever part a process runs: routing with
\* its limits, heat engine, simulations, lifecycle and backtests.
THEOREM PoliciesCorrect ==
    Spec => /\ [](/\ RoutedSafely
                  /\ MirrorPairExclusive /\ DangerZoneSecured /\ PassedWithinLimits
                  /\ FundedFollowsPass
                  /\ OneOpenTrade /\ LossesBounded /\ DrawdownReported /\ SignalsDecided)
            /\ HaltIsFinal
<1>1. SharedInv => MirrorPairExclusive /\ DangerZoneSecured /\ PassedWithinLimits
  BY DEF SharedInv, HeatInv, SimInv
<1> QED
  BY <1>1, SharedInvariant, PartsAreTheirs, RoutedSafelyCorrect,
     FundedFollowsPassCorrect, HaltIsFinalCorrect, OneOpenTradeCorrect, LossesBoundedCorrect,
     DrawdownReportedCorrect, SignalsDecidedCorrect, PTL
=============================================================================
