--------------------------- MODULE BacktestProofs ---------------------------
(***************************************************************************)
(* That a backtest holds one trade at a time, walks only signals that the  *)
(* bars up to them decide, stops at its limits by day, by drawdown and by  *)
(* streak, and reports the drawdown it acts on: for every series of bars   *)
(* of any length and every setting of the windows and limits.              *)
(***************************************************************************)
EXTENDS Backtest, FiniteSetTheorems, WellFoundedInduction, TLAPS

-----------------------------------------------------------------------------
(* The entries that are found lie in the data.                              *)

NatLess == {p \in Nat \X Nat : p[1] < p[2]}

LEMMA NatLessWellFounded == IsWellFoundedOn(NatLess, Nat)
BY NatLessThanWellFounded, Zenon DEF OpToRel, NatLess

\* The first of a set of bars is one of them, if there is one.
LEMMA FirstBarIn ==
    ASSUME NEW S, S \subseteq Nat
    PROVE  IF S = {} THEN FirstBar(S) = 0
           ELSE FirstBar(S) \in S /\ \A j \in S : FirstBar(S) <= j
<1>1. CASE S = {}
  BY <1>1 DEF FirstBar
<1>2. CASE S # {}
  <2>1. \E i \in S : \A j \in S : <<j, i>> \notin NatLess
    BY <1>2, WFMin, NatLessWellFounded
  <2>2. ASSUME NEW i \in Nat, NEW j \in Nat, <<j, i>> \notin NatLess
        PROVE  i <= j
    BY <2>2 DEF NatLess
  <2>3. \E i \in S : \A j \in S : i <= j
    BY <2>1, <2>2
  <2> QED BY <1>2, <2>3 DEF FirstBar
<1> QED BY <1>1, <1>2

LEMMA FirstBarNat == ASSUME NEW S, S \subseteq Nat PROVE FirstBar(S) \in Nat
<1>1. CASE S = {}
  BY <1>1, FirstBarIn
<1>2. CASE S # {}
  BY <1>2, FirstBarIn
<1> QED BY <1>1, <1>2

\* Setups between the first and the last bar.
Within(n) == [entry : 1 .. n, side : Sides, setup : Nat]

LEMMA ReclaimWithin ==
    ASSUME NEW n \in Nat, NEW X, NEW data \in [1 .. n -> X]
    PROVE  ReclaimSignals(data) \subseteq Within(n)
<1>1. Len(data) = n
  OBVIOUS
<1> SUFFICES ASSUME NEW i \in 1 .. n, ReclaimSetup(data, i).entry # 0
             PROVE  ReclaimSetup(data, i) \in Within(n)
  BY <1>1 DEF ReclaimSignals, Entered
<1> DEFINE side == SweptSide(data[i])
           entry == ReclaimEntry(data, i, side)
<1>2. /\ ReclaimSetup(data, i) = EntryAt(entry, side, i)
      /\ side # "none" /\ entry # 0
  BY DEF ReclaimSetup, EntryAt
<1>3. side \in Sides
  BY <1>2 DEF SweptSide, Sides
<1>4. entry \in 1 .. n
  <2> DEFINE S == {k \in i + 1 .. Lesser(i + ReclaimWindow, Len(data)) : BackInside(data[k], side)}
  <2>1. Lesser(i + ReclaimWindow, Len(data)) \in Int /\ Lesser(i + ReclaimWindow, Len(data)) <= n
    BY <1>1, SweepAssumption DEF Lesser
  <2>2. S \subseteq 1 .. n /\ S \subseteq Nat
    BY <2>1
  <2>3. entry = FirstBar(S)
    BY <1>2 DEF ReclaimEntry
  <2> HIDE DEF S, entry
  <2> QED BY <1>2, <2>2, <2>3, FirstBarIn
<1> HIDE DEF side, entry
<1> QED BY <1>2, <1>3, <1>4 DEF EntryAt, Within

LEMMA ReversionWithin ==
    ASSUME NEW n \in Nat, NEW X, NEW data \in [1 .. n -> X]
    PROVE  ReversionSignals(data) \subseteq Within(n)
<1>1. Len(data) = n
  OBVIOUS
<1> SUFFICES ASSUME NEW i \in 3 .. n, Candidate(data, i).signal.entry # 0
             PROVE  Candidate(data, i).signal \in Within(n)
  BY <1>1 DEF ReversionSignals, Entered, InWindow
<1> DEFINE side == ReversedSide(data[i])
           displacement == DisplacementBar(data, i)
           gap == GapBar(data, i, side, displacement)
           fill == FillBar(data, gap)
<1>2. /\ Candidate(data, i).signal = EntryAt(fill, side, i)
      /\ side # "none" /\ fill # 0
  BY DEF Candidate, EntryAt
<1>3. side \in Sides
  BY <1>2 DEF ReversedSide, Sides
<1>4. displacement \in Nat
  <2> DEFINE S == {j \in InWindow(data, i .. Lesser(i + ChainBars - 1, Len(data))) :
                      data[j].displacement}
  <2>1. Lesser(i + ChainBars - 1, Len(data)) \in Int
    BY <1>1, SweepAssumption DEF Lesser
  <2>2. S \subseteq Nat
    BY <2>1 DEF InWindow
  <2>3. displacement = FirstBar(S)
    BY DEF DisplacementBar
  <2> HIDE DEF S, displacement
  <2> QED BY <2>2, <2>3, FirstBarNat
<1> HIDE DEF displacement
<1>5. gap \in Nat
  <2> DEFINE S == {j \in InWindow(data, displacement .. Lesser(i + ChainBars - 1, Len(data))) :
                      data[j].gap = side}
  <2>1. Lesser(i + ChainBars - 1, Len(data)) \in Int
    BY <1>1, SweepAssumption DEF Lesser
  <2>2. S \subseteq Nat
    BY <1>4, <2>1 DEF InWindow
  <2>3. gap = FirstBar(S)
    BY DEF GapBar
  <2> HIDE DEF S, gap
  <2> QED BY <2>2, <2>3, FirstBarNat
<1> HIDE DEF gap
<1>6. fill \in 1 .. n
  <2> DEFINE S == {j \in InWindow(data, gap + 1 .. Lesser(gap + ExpireBars, Len(data))) :
                      data[j].outside \/ data[j].mid}
  <2>1. Lesser(gap + ExpireBars, Len(data)) \in Int /\ Lesser(gap + ExpireBars, Len(data)) <= n
    BY <1>1, <1>5, SweepAssumption DEF Lesser
  <2>2. S \subseteq 1 .. n /\ S \subseteq Nat
    BY <1>5, <2>1 DEF InWindow
  <2>3. fill = FirstBar(S)
    BY <1>2 DEF FillBar
  <2> HIDE DEF S, fill
  <2> QED BY <1>2, <2>2, <2>3, FirstBarIn
<1> HIDE DEF side, fill
<1> QED BY <1>2, <1>3, <1>6 DEF EntryAt, Within

-----------------------------------------------------------------------------
(* Guards and exits.                                                        *)

OverlapEngines == SweepEngines \cup ComponentEngines

\* The overlap guard is asked and on.
Guarded == engine \in OverlapEngines /\ IsOn("overlap")

LEMMA GuardsListed ==
    ASSUME engine \in Engines
    PROVE  /\ \A n \in 1 .. Len(Guards) : Guards[n] # "none"
           /\ engine \in OverlapEngines => 1 \in 1 .. Len(Guards) /\ Guards[1] = "overlap"
           /\ "overlap" \in ToSet(Guards) <=> engine \in OverlapEngines
           /\ engine \in SweepEngines => 3 \in 1 .. Len(Guards) /\ Guards[3] = "consecutive_loss"
<1>1. CASE engine = "sqe"
  BY <1>1 DEF Guards, ToSet, OverlapEngines, SweepEngines, ComponentEngines
<1>2. CASE engine = "ny_sweep_failure_reclaim"
  BY <1>2 DEF Guards, ToSet, OverlapEngines, SweepEngines, ComponentEngines
<1>3. CASE engine = "ny_sweep_reversion"
  BY <1>3 DEF Guards, ToSet, OverlapEngines, SweepEngines, ComponentEngines
<1>4. CASE engine \in ComponentEngines
  BY <1>4 DEF Guards, ToSet, OverlapEngines, SweepEngines, ComponentEngines
<1>5. CASE engine = "london_ny_overlap_breakout"
  BY <1>5 DEF Guards, ToSet, OverlapEngines, SweepEngines, ComponentEngines
<1> QED BY <1>1, <1>2, <1>3, <1>4, <1>5 DEF Engines, SweepEngines, ComponentEngines

LEMMA OneOpenTradeIs ==
    ASSUME engine \in Engines \cup {"none"}
    PROVE  OneOpenTrade <=> (Guarded => \A m, n \in Taken :
              m < n => trades[m].exit < trades[n].entry /\ trades[n].exit <= NumBars)
<1>1. CASE engine \in Engines
  BY <1>1, GuardsListed DEF OneOpenTrade, Guarded
<1>2. CASE engine = "none"
  BY <1>2 DEF OneOpenTrade, Guarded, Guards, ToSet, OverlapEngines, SweepEngines, ComponentEngines
<1> QED BY <1>1, <1>2

\* A signal that is not refused has passed every guard that is on.
LEMMA NotRefused ==
    ASSUME NEW s, NEW profile, NEW closed, Refusal(s, profile, closed) = "none",
           engine \in Engines, NEW n \in 1 .. Len(Guards), IsOn(Guards[n])
    PROVE  ~Refuses(Guards[n], s, profile, closed)
<1> DEFINE refusing == {m \in 1 .. Len(Guards) :
                            IsOn(Guards[m]) /\ Refuses(Guards[m], s, profile, closed)}
<1>1. Refusal(s, profile, closed) = IF refusing = {} THEN "none" ELSE Guards[FirstBar(refusing)]
  BY DEF Refusal
<1>2. refusing \subseteq 1 .. Len(Guards) /\ 1 .. Len(Guards) \subseteq Nat
  BY GuardsListed
<1>3. SUFFICES ASSUME n \in refusing PROVE FALSE
  OBVIOUS
<1> HIDE DEF refusing
<1>4. FirstBar(refusing) \in refusing
  BY <1>2, <1>3, FirstBarIn
<1> QED BY <1>1, <1>2, <1>3, <1>4, GuardsListed

\* A trade ends after its entry and inside the data.
LEMMA ExitWithin ==
    ASSUME NEW s, s.entry \in 1 .. NumBars, NEW result \in Simulated(s)
    PROVE  result.exit \in s.entry .. NumBars /\ result.r \in Int
<1> USE BacktestAssumption
<1>1. LastBar(s) \in s.entry .. NumBars
  BY DEF LastBar, Lesser
<1>2. ExitResults \subseteq Int
  BY DEF ExitResults
<1>3. CASE s.entry = NumBars
  BY <1>3 DEF Simulated, Exit
<1>4. CASE s.entry # NumBars
  <2>1. \/ \E j \in s.entry + 1 .. LastBar(s), r \in ExitResults : result = Exit(j, r)
        \/ \E r \in TimeoutResults : result = Exit(LastBar(s), r)
    BY <1>4 DEF Simulated
  <2> QED BY <1>1, <1>2, <2>1 DEF Exit
<1> QED BY <1>3, <1>4

-----------------------------------------------------------------------------
(* The walk.                                                                *)

\* Every size is a positive number.
LEMMA SizeIn ==
    ASSUME NEW profile \in Profiles, NEW boost \in NewsBoosts
    PROVE  Size(profile, boost) \in Sizes /\ Size(profile, boost) \in Nat \ {0}
<1>1. boost \in Nat \ {0} /\ profile.size \in Nat \ {0}
  BY BacktestAssumption DEF NewsBoosts
<1>2. boost * profile.size \in Nat \ {0} /\ boost * 1 \in Nat \ {0}
  BY <1>1
<1> QED BY <1>1, <1>2 DEF Sizes, Size

BookedTrade == [entry : 1 .. NumBars, side : Sides, exit : 1 .. NumBars, r : Int]

LossesTill(n, k) == \A m \in 1 .. n : m > n - k => trades[m].r < 0

\* lastExit is where the trades end, lossRun counts the losses they end with.
WalkInv ==
    /\ engine \in Engines \cup {"none"}
    /\ engine = "none" => stage = "idle"
    /\ stage \in {"idle", "loaded"} => trades = <<>>
    /\ signals \subseteq Within(NumBars)
    /\ trades \in Seq(BookedTrade)
    /\ lastExit \in 0 .. NumBars /\ lossRun \in Nat
    /\ Guarded => \A n \in 1 .. Len(trades) : trades[n].exit <= lastExit
    /\ \A k \in 0 .. Len(trades) : LossesTill(Len(trades), k) => k <= lossRun
    /\ Guarded => \A m, n \in Taken :
          m < n => trades[m].exit < trades[n].entry /\ trades[n].exit <= NumBars
    /\ LossStreakIsFinal

LEMMA WalkInitInv == ASSUME BacktestInit PROVE WalkInv
BY BacktestAssumption DEF BacktestInit, WalkInv, Guarded, LossStreakIsFinal, Taken, LossesTill,
   OverlapEngines, SweepEngines, ComponentEngines

\* Every engine's signals lie in the data.
LEMMA LoadedWithin ==
    ASSUME LoadSweep \/ LoadSignals
    PROVE  signals' \subseteq Within(NumBars)
<1> USE BacktestAssumption
<1>1. CASE LoadSweep
  <2>1. PICK data : /\ \/ data \in [1 .. NumBars -> ReversionBarKinds]
                       \/ data \in [1 .. NumBars -> ReclaimBarKinds]
                    /\ signals' = FoundIn(data)
    BY <1>1 DEF LoadSweep
  <2>2. FoundIn(data) = ReversionSignals(data) \/ FoundIn(data) = ReclaimSignals(data)
    BY DEF FoundIn
  <2> QED BY <2>1, <2>2, ReclaimWithin, ReversionWithin
<1>2. CASE LoadSignals
  <2>1. signals' \subseteq AllSignals
    BY <1>2 DEF LoadSignals, kSubset
  <2>2. AllSignals \subseteq Within(NumBars)
    BY DEF AllSignals, EntryAt, Within
  <2> QED BY <2>1, <2>2
<1> QED BY <1>1, <1>2

\* A trade that the guards let through.
LEMMA BookKeepsWalkInv ==
    ASSUME WalkInv, engine \in Engines, stage = "run", stage' \in {"run", "done"},
           UNCHANGED <<engine, filters>>, signals' \subseteq signals,
           NEW s \in signals, NEW profile, NEW closed,
           Refusal(s, profile, closed) = "none",
           NEW result \in Simulated(s), NEW size \in Int, Book(s, result, size)
    PROVE  WalkInv'
<1> DEFINE r == result.r * size
           new == [entry |-> s.entry, side |-> s.side, exit |-> result.exit, r |-> r]
           last == Len(trades)
<1>1. s \in Within(NumBars) /\ s.entry \in 1 .. NumBars /\ s.side \in Sides
  BY DEF WalkInv, Within
<1>2. result.exit \in s.entry .. NumBars /\ result.r \in Int
  BY <1>1, ExitWithin
<1>3. r \in Int
  BY <1>2
<1>4. new \in BookedTrade
  BY <1>1, <1>2, <1>3 DEF BookedTrade
<1>5. /\ trades' = Append(trades, new) /\ lastExit' = result.exit
      /\ lossRun' = IF r < 0 THEN lossRun + 1 ELSE 0
  BY DEF Book
<1>6. new.exit = result.exit /\ new.entry = s.entry /\ new.r = r
  OBVIOUS
<1> HIDE DEF new, r
<1>7. /\ trades' \in Seq(BookedTrade) /\ last \in Nat /\ Len(trades') = last + 1
      /\ trades'[last + 1] = new /\ \A n \in 1 .. last : trades'[n] = trades[n]
  BY <1>4, <1>5 DEF WalkInv
<1>8. \A n \in 1 .. last : trades[n].exit \in Int /\ trades[n].entry \in Int /\ trades[n].r \in Int
  <2>1. \A n \in 1 .. last : trades[n] \in BookedTrade
    BY <1>7 DEF WalkInv
  <2> QED BY <2>1 DEF BookedTrade
<1>9. Guarded => lastExit < s.entry
  <2>1. ASSUME Guarded PROVE ~Refuses("overlap", s, profile, closed)
    BY <2>1, GuardsListed, NotRefused DEF Guarded
  <2> QED BY <1>1, <2>1 DEF Refuses, Overlaps, WalkInv
<1>10. engine \in SweepEngines => lossRun < StopStreak
  <2>1. IsOn("consecutive_loss")
    BY DEF IsOn, Switchable, Filterable
  <2>2. ASSUME engine \in SweepEngines PROVE ~Refuses("consecutive_loss", s, profile, closed)
    BY <2>1, <2>2, GuardsListed, NotRefused
  <2> QED BY <2>2, BacktestAssumption DEF Refuses, LossesReached, WalkInv
<1>11. Guarded => \A n \in 1 .. last + 1 : trades'[n].exit <= result.exit
  <2> SUFFICES ASSUME Guarded, NEW n \in 1 .. last + 1
               PROVE  trades'[n].exit <= result.exit
    OBVIOUS
  <2>1. CASE n = last + 1
    BY <1>2, <1>6, <1>7, <2>1
  <2>2. CASE n # last + 1
    <3>1. n \in 1 .. last
      BY <1>7, <2>2
    <3>2. trades'[n] = trades[n] /\ trades[n].exit \in Int
      BY <1>7, <1>8, <3>1
    <3>3. trades[n].exit <= lastExit /\ lastExit \in Int
      BY <3>1 DEF WalkInv
    <3>4. lastExit < s.entry /\ s.entry <= result.exit /\ s.entry \in Int /\ result.exit \in Int
      BY <1>1, <1>2, <1>9
    <3> QED BY <3>2, <3>3, <3>4
  <2> QED BY <2>1, <2>2
<1>12. Guarded => \A m, n \in 1 .. last + 1 :
          m < n => trades'[m].exit < trades'[n].entry /\ trades'[n].exit <= NumBars
  <2> SUFFICES ASSUME Guarded, NEW m \in 1 .. last + 1, NEW n \in 1 .. last + 1, m < n
               PROVE  trades'[m].exit < trades'[n].entry /\ trades'[n].exit <= NumBars
    OBVIOUS
  <2>1. CASE n = last + 1
    <3>1. m \in 1 .. last /\ trades'[m] = trades[m] /\ trades[m].exit \in Int
      BY <1>7, <1>8, <2>1
    <3>2. trades[m].exit <= lastExit /\ lastExit \in Int
      BY <3>1 DEF WalkInv
    <3>3. trades'[n].entry = s.entry /\ trades'[n].exit = result.exit
      BY <1>6, <1>7, <2>1
    <3>4. /\ lastExit < s.entry /\ s.entry \in Int
          /\ result.exit <= NumBars
      BY <1>1, <1>2, <1>9
    <3> QED BY <3>1, <3>2, <3>3, <3>4
  <2>2. CASE n # last + 1
    <3>1. m \in 1 .. last /\ n \in 1 .. last
      BY <1>7, <2>2
    <3>2. trades'[m] = trades[m] /\ trades'[n] = trades[n]
      BY <1>7, <3>1
    <3>3. trades[m].exit < trades[n].entry /\ trades[n].exit <= NumBars
      BY <3>1 DEF WalkInv, Taken
    <3> QED BY <3>2, <3>3
  <2> QED BY <2>1, <2>2
<1>13. \A k \in 0 .. last + 1 :
          (\A m \in 1 .. last + 1 : m > last + 1 - k => trades'[m].r < 0) => k <= lossRun'
  <2>0. lossRun' \in Nat
    BY <1>3, <1>5 DEF WalkInv
  <2> SUFFICES ASSUME NEW k \in 1 .. last + 1,
                      \A m \in 1 .. last + 1 : m > last + 1 - k => trades'[m].r < 0
               PROVE  k <= lossRun'
    BY <2>0, <1>7
  <2>1. r < 0
    BY <1>6, <1>7
  <2>2. LossesTill(last, k - 1)
    <3> SUFFICES ASSUME NEW m \in 1 .. last, m > last - (k - 1)
                 PROVE  trades[m].r < 0
      BY DEF LossesTill
    <3>1. m \in 1 .. last + 1 /\ m > last + 1 - k
      BY <1>7
    <3> QED BY <1>7, <3>1
  <2>3. k - 1 <= lossRun
    BY <1>7, <2>2 DEF WalkInv
  <2> QED BY <1>5, <2>1, <2>3 DEF WalkInv
<1>14. LossStreakIsFinal'
  <2> SUFFICES ASSUME engine \in SweepEngines, NEW n \in StopStreak + 1 .. last + 1,
                      \A m \in n - StopStreak .. n - 1 : trades'[m].r < 0
               PROVE  FALSE
    BY <1>7 DEF LossStreakIsFinal
  <2>0. StopStreak \in Nat \ {0}
    BY BacktestAssumption
  <2>1. CASE n = last + 1
    <3>1. LossesTill(last, StopStreak)
      BY <1>7, <2>0, <2>1 DEF LossesTill
    <3>2. StopStreak <= lossRun
      BY <1>7, <2>0, <2>1, <3>1 DEF WalkInv
    <3> QED BY <1>10, <2>0, <3>2 DEF WalkInv
  <2>2. CASE n # last + 1
    <3>1. \A m \in n - StopStreak .. n - 1 : trades[m].r < 0
      BY <1>7, <2>0, <2>2, SMTT(30)
    <3> QED BY <1>7, <2>0, <2>2, <3>1 DEF WalkInv, LossStreakIsFinal
  <2> QED BY <2>1, <2>2
<1>15. /\ engine' \in Engines \cup {"none"} /\ engine' # "none"
       /\ stage' \notin {"idle", "loaded"} /\ signals' \subseteq Within(NumBars)
       /\ lastExit' \in 0 .. NumBars /\ lossRun' \in Nat
  BY <1>1, <1>2, <1>3, <1>5 DEF WalkInv, Engines, SweepEngines, ComponentEngines
<1>16. \A k \in 0 .. Len(trades') : LossesTill(Len(trades), k)' => k <= lossRun'
  BY <1>7, <1>13 DEF LossesTill
<1>17. Guarded' <=> Guarded
  BY DEF Guarded, IsOn, Switchable
<1>18. Guarded' => \A n \in 1 .. Len(trades') : trades'[n].exit <= lastExit'
  BY <1>5, <1>7, <1>11, <1>17
<1>19. Guarded' => \A m, n \in Taken' :
          m < n => trades'[m].exit < trades'[n].entry /\ trades'[n].exit <= NumBars
  BY <1>7, <1>12, <1>17 DEF Taken
<1> QED BY <1>7, <1>14, <1>15, <1>16, <1>18, <1>19 DEF WalkInv

\* What leaves the books alone keeps what is said of them.
LEMMA BooksKept ==
    ASSUME WalkInv, UNCHANGED <<engine, trades, lastExit, lossRun>>,
           UNCHANGED filters \/ trades = <<>>,
           signals' \subseteq Within(NumBars),
           stage' \in {"idle", "loaded"} => stage \in {"idle", "loaded"},
           stage' = "idle" \/ engine # "none"
    PROVE  WalkInv'
<1>1. CASE UNCHANGED filters
  BY <1>1 DEF WalkInv, Guarded, IsOn, Switchable, LossStreakIsFinal, Taken, LossesTill
<1>2. CASE trades = <<>>
  BY <1>2 DEF WalkInv, LossStreakIsFinal, Taken, LossesTill
<1> QED BY <1>1, <1>2

LEMMA WalkNextInv == ASSUME WalkInv, BacktestNext PROVE WalkInv'
<1>1. CASE Choose
  <2>1. /\ engine' \in Engines /\ stage' = "idle" /\ trades' = <<>> /\ Len(trades') = 0
        /\ UNCHANGED <<signals, lastExit, lossRun>>
    BY <1>1 DEF Choose, bookedVars, WalkInv
  <2>2. LossStreakIsFinal' /\ Taken' = {}
    BY <2>1, BacktestAssumption DEF LossStreakIsFinal, Taken
  <2> QED BY <2>1, <2>2 DEF WalkInv, LossesTill
<1>2. CASE LoadSweep \/ LoadSignals
  <2>1. signals' \subseteq Within(NumBars)
    BY <1>2, LoadedWithin
  <2>2. engine # "none"
    BY <1>2 DEF LoadSweep, LoadSignals, Engines, SweepEngines, ComponentEngines
  <2> QED BY <1>2, <2>1, <2>2, BooksKept DEF LoadSweep, LoadSignals, bookedVars
<1>3. CASE StartRun \/ Finish
  BY <1>3, BooksKept DEF StartRun, Finish, bookedVars, WalkInv
<1>4. ASSUME NEW profile \in Profiles, NEW boost \in NewsBoosts, NEW closed,
             Walk(profile, boost, closed)
      PROVE  WalkInv'
  <2>1. PICK s \in signals :
          LET refusal == IF killed THEN "kill_switch" ELSE Refusal(s, profile, closed)
          IN /\ signals' = signals \ {s}
             /\ Goes(refusal = "kill_switch" => engine = "ny_sweep_failure_reclaim")
             /\ IF refusal = "none"
                THEN \E result \in Simulated(s) : Book(s, result, Size(profile, boost))
                ELSE UNCHANGED bookedVars
    BY <1>4 DEF Walk
  <2>2. stage = "run" /\ UNCHANGED <<engine, filters>> /\ engine # "none" /\ engine \in Engines
        /\ stage' \in {"run", "done"} /\ signals' \subseteq signals
    BY <1>4, <2>1 DEF Walk, Goes, WalkInv
  <2>3. CASE UNCHANGED bookedVars
    BY <2>2, <2>3, BooksKept DEF bookedVars, WalkInv
  <2>4. CASE /\ Refusal(s, profile, closed) = "none"
             /\ \E result \in Simulated(s) : Book(s, result, Size(profile, boost))
    BY <2>2, <2>4, BookKeepsWalkInv, SizeIn
  <2> QED BY <2>1, <2>3, <2>4
<1> QED BY <1>1, <1>2, <1>3, <1>4 DEF BacktestNext

LEMMA WalkStutter == ASSUME WalkInv, UNCHANGED btVars PROVE WalkInv'
BY DEF WalkInv, Guarded, IsOn, Switchable, LossStreakIsFinal, Taken, LossesTill, btVars

THEOREM WalkInvariant == BacktestSpec => []WalkInv
<1>1. BacktestInit => WalkInv
  BY WalkInitInv
<1>2. WalkInv /\ [BacktestNext]_btVars => WalkInv'
  BY WalkNextInv, WalkStutter
<1> QED BY <1>1, <1>2, PTL DEF BacktestSpec

\* "Max een open trade": an engine whose overlap guard is on (a sweep engine, or
\* a component engine with risk.max_concurrent <= 1) holds one trade at a time, in
\* data of any length.
THEOREM OneOpenTradeCorrect == BacktestSpec => []OneOpenTrade
<1>1. WalkInv => OneOpenTrade
  BY OneOpenTradeIs DEF WalkInv
<1> QED BY <1>1, WalkInvariant, PTL

\* No trade follows StopStreak losses in a row, on that day or a later one.
THEOREM LossStreakIsFinalCorrect == BacktestSpec => []LossStreakIsFinal
<1>1. WalkInv => LossStreakIsFinal
  BY DEF WalkInv
<1> QED BY <1>1, WalkInvariant, PTL

-----------------------------------------------------------------------------
(* What a scan finds in the first bars of the data.                         *)

\* d is the beginning of data.
Begins(d, data) ==
    /\ Len(d) \in Nat /\ Len(data) \in Nat /\ Len(d) <= Len(data)
    /\ \A i \in 1 .. Len(d) : d[i] = data[i]

\* What is left of bar k when only the bars up to last are known.
UpTo(k, last) == IF k <= last THEN k ELSE 0

LEMMA FirstBarUpTo ==
    ASSUME NEW S, S \subseteq Nat, NEW last \in Nat
    PROVE  FirstBar({j \in S : j <= last}) = UpTo(FirstBar(S), last)
<1> DEFINE T == {j \in S : j <= last}
<1>1. T \subseteq Nat
  OBVIOUS
<1>2. CASE T = {}
  <2>1. FirstBar(T) = 0
    BY <1>1, <1>2, FirstBarIn
  <2>2. CASE S = {}
    BY <1>2, <2>1, <2>2 DEF UpTo
  <2>3. CASE S # {}
    <3>1. FirstBar(S) \in S
      BY <2>3, FirstBarIn
    <3>2. ~(FirstBar(S) <= last)
      BY <1>2, <3>1
    <3> QED
      BY <2>1, <3>2 DEF UpTo
  <2> QED
    BY <2>2, <2>3
<1>3. CASE T # {}
  <2>1. FirstBar(T) \in T /\ \A j \in T : FirstBar(T) <= j
    BY <1>1, <1>3, FirstBarIn
  <2>2. FirstBar(S) \in S /\ \A j \in S : FirstBar(S) <= j
    BY <1>3, FirstBarIn
  <2> HIDE DEF T
  <2>3. \A j \in S : j <= last => j \in T
    BY DEF T
  <2>4. FirstBar(T) \in S /\ FirstBar(T) <= last
    BY <2>1 DEF T
  <2>5. FirstBar(S) <= FirstBar(T) /\ FirstBar(T) \in Nat /\ FirstBar(S) \in Nat
    BY <2>2, <2>4
  <2>6. FirstBar(T) <= FirstBar(S)
    BY <2>1, <2>2, <2>3, <2>4, <2>5
  <2>7. FirstBar(S) = FirstBar(T) /\ FirstBar(S) <= last
    BY <2>4, <2>5, <2>6
  <2> QED
    BY <2>7 DEF UpTo, T
<1> QED
  BY <1>2, <1>3

\* The first of the bars from .. to of data that is in P.
Search(data, P, from, to) == FirstBar({j \in from .. Lesser(to, Len(data)) : j \in P})

\* A search that ends with the data finds in the first bars what it finds in
\* all of them, if that is among the first.
LEMMA SearchUpTo ==
    ASSUME NEW d, NEW data, Begins(d, data), NEW P, NEW Q,
           NEW from \in Nat, from # 0, NEW to \in Int,
           \A j \in 1 .. Len(d) : j \in P <=> j \in Q
    PROVE  Search(d, P, from, to) = UpTo(Search(data, Q, from, to), Len(d))
<1> DEFINE S == {j \in from .. Lesser(to, Len(data)) : j \in Q}
           T == {j \in from .. Lesser(to, Len(d)) : j \in P}
<1>1. S \subseteq Nat
  BY DEF Begins, Lesser
<1>2. T = {j \in S : j <= Len(d)}
  BY DEF Begins, Lesser
<1>3. Len(d) \in Nat
  BY DEF Begins
<1> HIDE DEF S, T
<1>4. FirstBar(T) = UpTo(FirstBar(S), Len(d))
  BY <1>1, <1>2, <1>3, FirstBarUpTo
<1> QED
  BY <1>4 DEF S, T, Search

LEMMA DisplacementUpTo ==
    ASSUME NEW d, NEW data, Begins(d, data), NEW i \in 1 .. Len(d)
    PROVE  DisplacementBar(d, i) = UpTo(DisplacementBar(data, i), Len(d))
<1> DEFINE P == {j \in 1 .. Len(d) : d[j].window /\ d[j].displacement}
           Q == {j \in 1 .. Len(data) : data[j].window /\ data[j].displacement}
           to == i + ChainBars - 1
<1>1. /\ i \in Nat /\ i # 0 /\ to \in Int /\ to >= i
      /\ \A j \in 1 .. Len(d) : j \in P <=> j \in Q
  BY SweepAssumption DEF Begins
<1>2. /\ DisplacementBar(d, i) = Search(d, P, i, to)
      /\ DisplacementBar(data, i) = Search(data, Q, i, to)
  <2>1. {j \in InWindow(d, i .. Lesser(to, Len(d))) : d[j].displacement}
          = {j \in i .. Lesser(to, Len(d)) : j \in P}
    BY <1>1 DEF InWindow, Begins, Lesser
  <2>2. {j \in InWindow(data, i .. Lesser(to, Len(data))) : data[j].displacement}
          = {j \in i .. Lesser(to, Len(data)) : j \in Q}
    BY <1>1 DEF InWindow, Begins, Lesser
  <2> QED
    BY <2>1, <2>2 DEF DisplacementBar, Search
<1> HIDE DEF P, Q, to
<1> QED
  BY <1>1, <1>2, SearchUpTo

LEMMA GapUpTo ==
    ASSUME NEW d, NEW data, Begins(d, data), NEW i \in 1 .. Len(d), NEW side,
           NEW from \in Nat, from # 0
    PROVE  GapBar(d, i, side, from) = UpTo(GapBar(data, i, side, from), Len(d))
<1> DEFINE P == {j \in 1 .. Len(d) : d[j].window /\ d[j].gap = side}
           Q == {j \in 1 .. Len(data) : data[j].window /\ data[j].gap = side}
           to == i + ChainBars - 1
<1>1. to \in Int /\ \A j \in 1 .. Len(d) : j \in P <=> j \in Q
  BY SweepAssumption, SMTT(30) DEF Begins
<1>2. /\ GapBar(d, i, side, from) = Search(d, P, from, to)
      /\ GapBar(data, i, side, from) = Search(data, Q, from, to)
  <2>1. {j \in InWindow(d, from .. Lesser(to, Len(d))) : d[j].gap = side}
          = {j \in from .. Lesser(to, Len(d)) : j \in P}
    BY <1>1 DEF InWindow, Begins, Lesser
  <2>2. {j \in InWindow(data, from .. Lesser(to, Len(data))) : data[j].gap = side}
          = {j \in from .. Lesser(to, Len(data)) : j \in Q}
    BY <1>1 DEF InWindow, Begins, Lesser
  <2> QED
    BY <2>1, <2>2 DEF GapBar, Search
<1> HIDE DEF P, Q, to
<1> QED
  BY <1>1, <1>2, SearchUpTo

LEMMA FillUpTo ==
    ASSUME NEW d, NEW data, Begins(d, data), NEW gap \in Nat
    PROVE  FillBar(d, gap) = UpTo(FillBar(data, gap), Len(d))
<1> DEFINE P == {j \in 1 .. Len(d) : d[j].window /\ (d[j].outside \/ d[j].mid)}
           Q == {j \in 1 .. Len(data) : data[j].window /\ (data[j].outside \/ data[j].mid)}
           to == gap + ExpireBars
           S == {j \in gap + 1 .. Lesser(to, Len(data)) : j \in Q}
           T == {j \in gap + 1 .. Lesser(to, Len(d)) : j \in P}
<1>1. to \in Int /\ \A j \in 1 .. Len(d) : j \in P <=> j \in Q
  BY SweepAssumption DEF Begins
<1>2. /\ FillBar(d, gap) = IF FirstBar(T) # 0 /\ d[FirstBar(T)].outside THEN 0 ELSE FirstBar(T)
      /\ FillBar(data, gap) = IF FirstBar(S) # 0 /\ data[FirstBar(S)].outside THEN 0 ELSE FirstBar(S)
  <2>1. {j \in InWindow(d, gap + 1 .. Lesser(to, Len(d))) : d[j].outside \/ d[j].mid} = T
    BY <1>1 DEF InWindow, Begins, Lesser
  <2>2. {j \in InWindow(data, gap + 1 .. Lesser(to, Len(data))) : data[j].outside \/ data[j].mid} = S
    BY <1>1 DEF InWindow, Begins, Lesser
  <2> HIDE DEF S, T, P, Q
  <2> QED
    BY <2>1, <2>2 DEF FillBar
<1>3. S \subseteq Nat
  BY <1>1 DEF Begins, Lesser
<1> HIDE DEF P, Q
<1>4. FirstBar(T) = UpTo(FirstBar(S), Len(d))
  <2>1. Search(d, P, gap + 1, to) = UpTo(Search(data, Q, gap + 1, to), Len(d))
    <3>1. gap + 1 \in Nat /\ gap + 1 # 0
      OBVIOUS
    <3> HIDE DEF to
    <3> QED
      BY <1>1, <3>1, SearchUpTo
  <2> QED
    BY <2>1 DEF Search
<1> HIDE DEF S, T
<1>5. FirstBar(S) \in Nat
  BY <1>3, FirstBarNat
<1>6. FirstBar(S) # 0 /\ FirstBar(S) <= Len(d) => d[FirstBar(S)] = data[FirstBar(S)]
  BY <1>5 DEF Begins
<1> QED
  BY <1>2, <1>4, <1>5, <1>6 DEF UpTo, Begins

\* A search finds nothing, or a bar from where it starts.
LEMMA SearchFinds ==
    ASSUME NEW data, Len(data) \in Nat, NEW P, NEW from \in Nat, NEW to \in Int
    PROVE  Search(data, P, from, to) = 0 \/ Search(data, P, from, to) \in from .. Len(data)
<1> DEFINE S == {j \in from .. Lesser(to, Len(data)) : j \in P}
<1>1. S \subseteq Nat /\ S \subseteq from .. Len(data)
  BY DEF Lesser
<1> HIDE DEF S
<1>2. FirstBar(S) = 0 \/ FirstBar(S) \in from .. Len(data)
  BY <1>1, FirstBarIn
<1> QED
  BY <1>2 DEF S, Search

\* The bars of a chain come one after the other.
LEMMA ChainInOrder ==
    ASSUME NEW data, Len(data) \in Nat, NEW i \in Nat, i # 0, NEW side
    PROVE  /\ DisplacementBar(data, i) = 0 \/ DisplacementBar(data, i) \in i .. Len(data)
           /\ \A from \in Nat : \/ GapBar(data, i, side, from) = 0
                                \/ GapBar(data, i, side, from) \in from .. Len(data)
           /\ \A gap \in Nat : FillBar(data, gap) = 0 \/ FillBar(data, gap) \in gap + 1 .. Len(data)
<1> DEFINE windowed == {j \in 1 .. Len(data) : data[j].window}
           to == i + ChainBars - 1
<1>0. to \in Int
  BY SweepAssumption
<1>1. DisplacementBar(data, i) = 0 \/ DisplacementBar(data, i) \in i .. Len(data)
  <2> DEFINE P == {j \in windowed : data[j].displacement}
  <2>1. {j \in InWindow(data, i .. Lesser(to, Len(data))) : data[j].displacement}
          = {j \in i .. Lesser(to, Len(data)) : j \in P}
    BY <1>0 DEF InWindow, Lesser
  <2> HIDE DEF P
  <2>2. DisplacementBar(data, i) = Search(data, P, i, to)
    BY <2>1 DEF DisplacementBar, Search
  <2> HIDE DEF to
  <2> QED
    BY <1>0, <2>2, SearchFinds
<1>2. ASSUME NEW from \in Nat
      PROVE  GapBar(data, i, side, from) = 0 \/ GapBar(data, i, side, from) \in from .. Len(data)
  <2> DEFINE P == {j \in InWindow(data, 0 .. Len(data)) : data[j].gap = side}
  <2>1. {j \in InWindow(data, from .. Lesser(to, Len(data))) : data[j].gap = side}
          = {j \in from .. Lesser(to, Len(data)) : j \in P}
    BY <1>0 DEF InWindow, Lesser
  <2> HIDE DEF P
  <2>2. GapBar(data, i, side, from) = Search(data, P, from, to)
    BY <2>1 DEF GapBar, Search
  <2> HIDE DEF to
  <2> QED
    BY <1>0, <2>2, SearchFinds
<1>3. ASSUME NEW gap \in Nat
      PROVE  FillBar(data, gap) = 0 \/ FillBar(data, gap) \in gap + 1 .. Len(data)
  <2> DEFINE P == {j \in windowed : data[j].outside \/ data[j].mid}
             end == gap + ExpireBars
  <2>0. end \in Int /\ gap + 1 \in Nat
    BY SweepAssumption
  <2>1. {j \in InWindow(data, gap + 1 .. Lesser(end, Len(data))) : data[j].outside \/ data[j].mid}
          = {j \in gap + 1 .. Lesser(end, Len(data)) : j \in P}
    BY <2>0 DEF InWindow, Lesser
  <2> HIDE DEF P
  <2>2. FillBar(data, gap) = 0 \/ FillBar(data, gap) = Search(data, P, gap + 1, end)
    BY <2>1 DEF FillBar, Search
  <2> HIDE DEF end
  <2>3. Search(data, P, gap + 1, end) = 0 \/ Search(data, P, gap + 1, end) \in gap + 1 .. Len(data)
    BY <2>0, SearchFinds
  <2> QED
    BY <2>2, <2>3
<1> QED
  BY <1>1, <1>2, <1>3

\* The bias is read from the hours up to PivotBars after the bar's own.
LEMMA BiasUpTo ==
    ASSUME NEW d, NEW data, Begins(d, data), NEW i \in 1 .. Len(d), BiasKnownAt(i) <= Len(d),
           NEW side
    PROVE  Biased(d, i, side) <=> Biased(data, i, side)
<1>1. CASE ~BiasOn
  BY <1>1 DEF Biased
<1>2. CASE BiasOn
  <2> DEFINE n == HourOf(i) + PivotBars
  <2>1. /\ Len(d) \in Nat /\ Len(data) \in Nat /\ Len(d) <= Len(data)
        /\ \A j \in 1 .. Len(d) : d[j] = data[j]
        /\ BarsPerHour \in Nat \ {0} /\ PivotBars \in Nat
    BY SweepAssumption DEF Begins
  <2>2. n \in Int /\ n * BarsPerHour <= Len(d)
    BY <1>2, <2>1 DEF BiasKnownAt, HourOf
  <2> HIDE DEF n
  <2>3. ASSUME NEW h \in 1 .. n, NEW j \in 1 .. Len(data), HourOf(j) = h
        PROVE  j <= Len(d)
    <3>1. (j - 1) \div BarsPerHour = h - 1
      <4>1. j - 1 \in Nat /\ (j - 1) \div BarsPerHour + 1 = h
        BY <2>3 DEF HourOf
      <4>2. (j - 1) \div BarsPerHour \in Int
        BY <2>1, <4>1
      <4> QED BY <4>1, <4>2
    <3>2. j - 1 < h * BarsPerHour
      <4>1. \A a \in Nat, b \in Nat \ {0} : a < (a \div b + 1) * b
        BY Z3
      <4>2. j - 1 \in Nat /\ h - 1 + 1 = h
        BY <2>3
      <4> HIDE DEF HourOf
      <4>3. j - 1 < ((j - 1) \div BarsPerHour + 1) * BarsPerHour
        BY <2>1, <4>1, <4>2
      <4> QED BY <3>1, <4>2, <4>3
    <3>3. h * BarsPerHour <= n * BarsPerHour
      <4>1. \A a, b \in Int, c \in Nat : a <= b => a * c <= b * c
        BY Z3
      <4> QED BY <2>1, <2>2, <4>1
    <3>4. h * BarsPerHour \in Int /\ n * BarsPerHour \in Int
      BY <2>1, <2>2
    <3> QED BY <2>1, <2>2, <3>2, <3>3, <3>4
  <2>4. \A h \in 1 .. n : {d[k] : k \in {j \in 1 .. Len(d) : HourOf(j) = h}}
                            = {data[k] : k \in {j \in 1 .. Len(data) : HourOf(j) = h}}
    <3> SUFFICES ASSUME NEW h \in 1 .. n
                 PROVE  {j \in 1 .. Len(d) : HourOf(j) = h} = {j \in 1 .. Len(data) : HourOf(j) = h}
      BY <2>1
    <3> QED BY <2>1, <2>3
  <2>5. HoursUpTo(d, n) = HoursUpTo(data, n)
    BY <2>4 DEF HoursUpTo
  <2> QED BY <2>5 DEF Biased, n
<1> QED BY <1>1, <1>2

\* A candidate of the first bars is what it is in all of the data, if its
\* order is filled among them; if not, it is no signal yet.
LEMMA CandidateUpTo ==
    ASSUME NEW d, NEW data, Begins(d, data), NEW i \in 1 .. Len(d), BiasKnownAt(i) <= Len(d)
    PROVE  Candidate(d, i).signal
             = [Candidate(data, i).signal EXCEPT !.entry = UpTo(@, Len(d))]
<1> DEFINE side == ReversedSide(data[i])
           displacement == DisplacementBar(data, i)
           gap == GapBar(data, i, side, displacement)
           fill == FillBar(data, gap)
           displacementD == DisplacementBar(d, i)
           gapD == GapBar(d, i, side, displacementD)
           fillD == FillBar(d, gapD)
           biased == Biased(data, i, side)
           entry == IF side # "none" /\ biased /\ displacement # 0 /\ gap # 0 THEN fill ELSE 0
           entryD == IF side # "none" /\ biased /\ displacementD # 0 /\ gapD # 0
                       THEN fillD ELSE 0
<1>1. d[i] = data[i] /\ (Biased(d, i, side) <=> biased)
  BY BiasUpTo DEF Begins
<1>2. Candidate(data, i).signal = EntryAt(entry, side, i)
  BY DEF Candidate
<1>3. Candidate(d, i).signal = EntryAt(entryD, side, i)
  BY <1>1 DEF Candidate
<1>4. /\ Len(d) \in Nat /\ Len(data) \in Nat /\ Len(d) <= Len(data) /\ i \in Nat /\ i # 0
  BY DEF Begins
<1> HIDE DEF side, biased, displacement, gap, fill, displacementD, gapD, fillD, entry, entryD
<1>5. /\ displacement = 0 \/ displacement \in i .. Len(data)
      /\ displacementD = UpTo(displacement, Len(d))
  BY <1>4, ChainInOrder, DisplacementUpTo DEF displacement, displacementD
<1>6. /\ gap = 0 \/ gap \in displacement .. Len(data)
      /\ displacement # 0 /\ displacementD = displacement => gapD = UpTo(gap, Len(d))
  BY <1>4, <1>5, ChainInOrder, GapUpTo DEF gap, gapD
<1>7. /\ fill = 0 \/ fill \in gap + 1 .. Len(data)
      /\ gapD = gap => fillD = UpTo(fill, Len(d))
  <2>1. gap \in Nat
    BY <1>4, <1>5, <1>6
  <2> QED
    BY <1>4, <2>1, ChainInOrder, FillUpTo DEF fill, fillD
<1>8. entryD = UpTo(entry, Len(d))
  <2>1. CASE ~(side # "none" /\ biased /\ displacement # 0 /\ gap # 0)
    <3>1. entry = 0
      BY <2>1 DEF entry
    <3>2. entryD = 0
      BY <1>4, <1>5, <1>6, <2>1 DEF entryD, UpTo
    <3> QED
      BY <1>4, <3>1, <3>2 DEF UpTo
  <2>2. CASE side # "none" /\ biased /\ displacement # 0 /\ gap # 0
    <3>1. entry = fill
      BY <2>2 DEF entry
    <3>2. CASE displacement <= Len(d) /\ gap <= Len(d)
      <4>1. displacementD = displacement /\ gapD = gap
        BY <1>5, <1>6, <2>2, <3>2 DEF UpTo
      <4> QED
        BY <1>7, <2>2, <3>1, <4>1 DEF entryD
    <3>3. CASE ~(displacement <= Len(d) /\ gap <= Len(d))
      <4>1. displacementD = 0 \/ gapD = 0
        BY <1>4, <1>5, <1>6, <2>2, <3>3 DEF UpTo
      <4>2. entryD = 0
        BY <4>1 DEF entryD
      <4>3. UpTo(fill, Len(d)) = 0
        BY <1>4, <1>5, <1>6, <1>7, <2>2, <3>3 DEF UpTo
      <4> QED
        BY <3>1, <4>2, <4>3
    <3> QED
      BY <3>2, <3>3
  <2> QED
    BY <2>1, <2>2
<1> QED
  BY <1>2, <1>3, <1>8 DEF EntryAt

\* A sweep whose failure window has passed.
LEMMA SetupUpTo ==
    ASSUME NEW d, NEW data, Begins(d, data), NEW i \in 1 .. Len(d), i + FailureWindow <= Len(d)
    PROVE  ReclaimSetup(d, i) = [ReclaimSetup(data, i) EXCEPT !.entry = UpTo(@, Len(d))]
<1> DEFINE side == SweptSide(data[i])
           to == i + ReclaimWindow
           P == {j \in 1 .. Len(d) : BackInside(d[j], side)}
           Q == {j \in 1 .. Len(data) : BackInside(data[j], side)}
<1>1. /\ Len(d) \in Nat /\ Len(data) \in Nat /\ Len(d) <= Len(data) /\ i \in Nat
      /\ to \in Int /\ FailureWindow \in Nat
      /\ i + 1 \in Nat /\ i + 1 # 0
      /\ \A j \in 1 .. Len(d) : d[j] = data[j]
      /\ \A j \in 1 .. Len(d) : j \in P <=> j \in Q
  <2>1. FailureWindow \in Nat /\ ReclaimWindow \in Nat
    BY SweepAssumption
  <2>2. /\ Len(d) \in Nat /\ Len(data) \in Nat /\ Len(d) <= Len(data)
        /\ \A j \in 1 .. Len(d) : d[j] = data[j]
    BY DEF Begins
  <2>3. \A j \in 1 .. Len(d) : j \in 1 .. Len(data) /\ (j \in P <=> j \in Q)
    BY <2>2
  <2> QED BY <2>1, <2>2, <2>3
<1>2. Continues(d, i, side) <=> Continues(data, i, side)
  <2>1. /\ Lesser(i + FailureWindow, Len(d)) = i + FailureWindow
        /\ Lesser(i + FailureWindow, Len(data)) = i + FailureWindow
    BY <1>1 DEF Lesser
  <2>2. \A j \in i + 1 .. i + FailureWindow : d[j] = data[j]
    BY <1>1
  <2> QED
    BY <2>1, <2>2 DEF Continues
<1>3. /\ {k \in i + 1 .. Lesser(to, Len(d)) : BackInside(d[k], side)}
           = {k \in i + 1 .. Lesser(to, Len(d)) : k \in P}
      /\ {k \in i + 1 .. Lesser(to, Len(data)) : BackInside(data[k], side)}
           = {k \in i + 1 .. Lesser(to, Len(data)) : k \in Q}
  BY <1>1 DEF Lesser
<1> HIDE DEF P, Q
<1>4. /\ ReclaimEntry(d, i, side) = IF Continues(data, i, side) THEN 0 ELSE Search(d, P, i + 1, to)
      /\ ReclaimEntry(data, i, side)
           = IF Continues(data, i, side) THEN 0 ELSE Search(data, Q, i + 1, to)
  BY <1>2, <1>3 DEF ReclaimEntry, Search
<1>5. Search(d, P, i + 1, to) = UpTo(Search(data, Q, i + 1, to), Len(d))
  <2> HIDE DEF to
  <2> QED
    BY <1>1, SearchUpTo
<1>6. ReclaimEntry(d, i, side) = UpTo(ReclaimEntry(data, i, side), Len(d))
  BY <1>1, <1>4, <1>5 DEF UpTo
<1>7. d[i] = data[i]
  BY DEF Begins
<1> HIDE DEF side
<1> QED
  BY <1>1, <1>6, <1>7 DEF ReclaimSetup, EntryAt, UpTo, side

\* The signals known by bar last are those that the bars up to it say.
LEMMA ReversionDecided ==
    ASSUME NEW d, NEW data, Begins(d, data)
    PROVE  {s \in ReversionSignals(data) : s.entry <= Len(d) /\ BiasKnownAt(s.setup) <= Len(d)}
             = {s \in ReversionSignals(d) : s.entry <= Len(d) /\ BiasKnownAt(s.setup) <= Len(d)}
<1> DEFINE all == InWindow(data, 3 .. Len(data))
           first == InWindow(d, 3 .. Len(d))
           S(i) == Candidate(data, i).signal
           D(i) == Candidate(d, i).signal
<1>1. Len(d) \in Nat /\ Len(data) \in Nat /\ Len(d) <= Len(data)
  BY DEF Begins
<1>2. first = {i \in all : i <= Len(d)} /\ first \subseteq 1 .. Len(d) /\ all \subseteq 3 .. Len(data)
  BY <1>1 DEF Begins, InWindow
<1>3. ASSUME NEW i \in first, BiasKnownAt(i) <= Len(d)
      PROVE  D(i) = [S(i) EXCEPT !.entry = UpTo(@, Len(d))] /\ i \in all
  BY <1>2, <1>3, CandidateUpTo
<1>4. ASSUME NEW i \in all
      PROVE  /\ S(i) = EntryAt(S(i).entry, S(i).side, S(i).setup) /\ S(i).setup = i
             /\ S(i).entry = 0 \/ S(i).entry \in i .. Len(data)
  <2> DEFINE side == ReversedSide(data[i])
             displacement == DisplacementBar(data, i)
             gap == GapBar(data, i, side, displacement)
             fill == FillBar(data, gap)
  <2>1. i \in Nat /\ i # 0
    BY <1>1, <1>2
  <2>2. S(i) = EntryAt(0, side, i) \/ (S(i) = EntryAt(fill, side, i) /\ displacement # 0 /\ gap # 0)
    BY DEF Candidate
  <2>3. displacement = 0 \/ displacement \in i .. Len(data)
    BY <1>1, <2>1, ChainInOrder
  <2> HIDE DEF side, displacement
  <2>4. displacement \in Nat
    BY <1>1, <2>1, <2>3
  <2>5. gap = 0 \/ gap \in displacement .. Len(data)
    BY <1>1, <2>1, <2>4, ChainInOrder
  <2> HIDE DEF gap
  <2>6. fill = 0 \/ fill \in gap + 1 .. Len(data)
    BY <1>1, <2>1, <2>4, <2>5, ChainInOrder
  <2> HIDE DEF fill, S
  <2> QED
    BY <1>1, <2>1, <2>2, <2>3, <2>4, <2>5, <2>6 DEF EntryAt
<1>5. /\ ReversionSignals(data) = {s \in {S(i) : i \in all} : s.entry # 0}
      /\ ReversionSignals(d) = {s \in {D(i) : i \in first} : s.entry # 0}
  BY DEF ReversionSignals, Entered
<1>D. \A i : D(i).setup = i
  BY DEF Candidate, EntryAt
<1> HIDE DEF all, first, S, D
<1>6. ASSUME NEW i \in all, S(i).entry # 0, S(i).entry <= Len(d), BiasKnownAt(i) <= Len(d)
      PROVE  i \in first /\ D(i) = S(i)
  <2>1. i \in first
    BY <1>1, <1>2, <1>4, <1>6
  <2>2. D(i) = [S(i) EXCEPT !.entry = S(i).entry]
    BY <1>3, <1>6, <2>1 DEF UpTo
  <2> QED
    BY <1>4, <2>1, <2>2 DEF EntryAt
<1>7. ASSUME NEW i \in first, D(i).entry # 0, BiasKnownAt(i) <= Len(d)
      PROVE  i \in all /\ D(i) = S(i)
  <2>1. i \in all /\ S(i).entry <= Len(d)
    BY <1>3, <1>4, <1>7 DEF UpTo, EntryAt
  <2>2. D(i) = [S(i) EXCEPT !.entry = S(i).entry]
    BY <1>3, <1>7, <2>1 DEF UpTo
  <2> QED
    BY <1>4, <2>1, <2>2 DEF EntryAt
<1>8. ASSUME NEW i \in all, S(i).entry # 0, S(i).entry <= Len(d),
             BiasKnownAt(S(i).setup) <= Len(d)
      PROVE  S(i) \in {s \in ReversionSignals(d) :
                          s.entry <= Len(d) /\ BiasKnownAt(s.setup) <= Len(d)}
  BY <1>4, <1>5, <1>6, <1>8
<1>9. ASSUME NEW i \in first, D(i).entry # 0, D(i).entry <= Len(d),
             BiasKnownAt(D(i).setup) <= Len(d)
      PROVE  D(i) \in {s \in ReversionSignals(data) :
                          s.entry <= Len(d) /\ BiasKnownAt(s.setup) <= Len(d)}
  BY <1>D, <1>5, <1>7, <1>9
<1> QED
  BY <1>5, <1>8, <1>9

LEMMA ReclaimDecided ==
    ASSUME NEW d, NEW data, Begins(d, data)
    PROVE  {s \in ReclaimSignals(data) : s.entry <= Len(d) /\ s.setup + FailureWindow <= Len(d)}
             = {s \in ReclaimSignals(d) : s.entry <= Len(d) /\ s.setup + FailureWindow <= Len(d)}
<1> DEFINE S(i) == ReclaimSetup(data, i)
           D(i) == ReclaimSetup(d, i)
<1>1. Len(d) \in Nat /\ Len(data) \in Nat /\ Len(d) <= Len(data) /\ FailureWindow \in Nat \ {0}
  BY SweepAssumption DEF Begins
<1>2. ASSUME NEW i \in 1 .. Len(d), i + FailureWindow <= Len(d)
      PROVE  D(i) = [S(i) EXCEPT !.entry = UpTo(@, Len(d))]
  BY <1>2, SetupUpTo
<1>3. \A i : /\ S(i) = EntryAt(S(i).entry, S(i).side, S(i).setup) /\ S(i).setup = i
             /\ D(i).setup = i
  BY DEF ReclaimSetup, EntryAt
<1>4. ASSUME NEW i \in 1 .. Len(data)
      PROVE  S(i).entry \in Nat
  <2> DEFINE side == SweptSide(data[i])
             to == i + ReclaimWindow
             P == {k \in i + 1 .. Lesser(to, Len(data)) : BackInside(data[k], side)}
  <2>1. P \subseteq Nat
    BY <1>1, SweepAssumption DEF Lesser
  <2>2. S(i).entry = 0 \/ S(i).entry = FirstBar(P)
    BY DEF ReclaimSetup, EntryAt, ReclaimEntry
  <2> HIDE DEF P, S
  <2>3. FirstBar(P) \in Nat
    BY <2>1, FirstBarNat
  <2> QED
    BY <2>2, <2>3
<1>5. /\ ReclaimSignals(data) = {s \in {S(i) : i \in 1 .. Len(data)} : s.entry # 0}
      /\ ReclaimSignals(d) = {s \in {D(i) : i \in 1 .. Len(d)} : s.entry # 0}
  BY DEF ReclaimSignals, Entered
<1> HIDE DEF S, D
<1>6. ASSUME NEW i \in 1 .. Len(data), S(i).entry # 0, S(i).entry <= Len(d),
             i + FailureWindow <= Len(d)
      PROVE  i \in 1 .. Len(d) /\ D(i) = S(i)
  <2>1. i \in 1 .. Len(d)
    BY <1>1, <1>6
  <2>2. D(i) = [S(i) EXCEPT !.entry = S(i).entry]
    BY <1>2, <1>6, <2>1 DEF UpTo
  <2> QED
    BY <1>3, <2>1, <2>2 DEF EntryAt
<1>7. ASSUME NEW i \in 1 .. Len(d), D(i).entry # 0, i + FailureWindow <= Len(d)
      PROVE  i \in 1 .. Len(data) /\ D(i) = S(i)
  <2>1. i \in 1 .. Len(data) /\ S(i).entry <= Len(d)
    BY <1>1, <1>2, <1>3, <1>7 DEF UpTo, EntryAt
  <2>2. D(i) = [S(i) EXCEPT !.entry = S(i).entry]
    BY <1>2, <1>7, <2>1 DEF UpTo
  <2> QED
    BY <1>3, <2>1, <2>2 DEF EntryAt
<1>8. ASSUME NEW i \in 1 .. Len(data), S(i).entry # 0, S(i).entry <= Len(d),
             S(i).setup + FailureWindow <= Len(d)
      PROVE  S(i) \in {s \in ReclaimSignals(d) :
                          s.entry <= Len(d) /\ s.setup + FailureWindow <= Len(d)}
  BY <1>3, <1>5, <1>6, <1>8
<1>9. ASSUME NEW i \in 1 .. Len(d), D(i).entry # 0, D(i).entry <= Len(d),
             D(i).setup + FailureWindow <= Len(d)
      PROVE  D(i) \in {s \in ReclaimSignals(data) :
                          s.entry <= Len(d) /\ s.setup + FailureWindow <= Len(d)}
  BY <1>3, <1>5, <1>7, <1>9
<1> QED
  BY <1>5, <1>8, <1>9

-----------------------------------------------------------------------------

\* What is to be walked is what was found in the data.
LoadedInv ==
    stage = "loaded" /\ engine \in SweepEngines =>
        /\ \E X : bars \in [1 .. NumBars -> X]
        /\ signals = FoundIn(bars)

LEMMA LoadedInvariant == BacktestSpec => []LoadedInv
<1>1. BacktestInit => LoadedInv
  BY DEF BacktestInit, LoadedInv
<1>2. WalkInv /\ LoadedInv /\ [BacktestNext]_btVars => LoadedInv'
  <2> SUFFICES ASSUME WalkInv, LoadedInv, [BacktestNext]_btVars
               PROVE  LoadedInv'
    OBVIOUS
  <2>1. CASE Choose
    BY <2>1 DEF Choose, LoadedInv, WalkInv
  <2>2. CASE LoadSweep
    <3>1. \E X : bars' \in [1 .. NumBars -> X]
      BY <2>2 DEF LoadSweep
    <3>2. signals' = FoundIn(bars') /\ engine' = engine
      BY <2>2 DEF LoadSweep
    <3> QED
      BY <3>1, <3>2 DEF LoadedInv, FoundIn
  <2>3. CASE LoadSignals
    BY <2>3 DEF LoadSignals, LoadedInv
  <2>4. CASE StartRun \/ Finish
    BY <2>4 DEF StartRun, Finish, LoadedInv
  <2>5. CASE \E profile \in Profiles, boost \in NewsBoosts, closed \in Outside \cup {"none"} :
               Walk(profile, boost, closed)
    <3>1. stage' # "loaded"
      BY <2>5 DEF Walk, Goes
    <3> QED
      BY <3>1 DEF LoadedInv
  <2>6. CASE UNCHANGED btVars
    BY <2>6 DEF btVars, LoadedInv, FoundIn
  <2> QED
    BY <2>1, <2>2, <2>3, <2>4, <2>5, <2>6 DEF BacktestNext
<1> QED
  BY <1>1, <1>2, WalkInvariant, PTL DEF BacktestSpec

\* Bars after the one by which a signal is known, which for a reclaim is the end of the
\* failure window and for a reversion that of the last hour its bias reads, neither add it
\* nor take it away, in data of any length and with windows of any length.
THEOREM SignalsDecidedCorrect == BacktestSpec => []SignalsDecided
<1>1. LoadedInv => SignalsDecided
  <2> SUFFICES ASSUME LoadedInv, stage = "loaded", engine \in SweepEngines,
                      NEW last \in 1 .. NumBars - 1
               PROVE  {s \in signals : KnownAt(s, engine) <= last}
                        = {s \in FoundIn(SubSeq(bars, 1, last)) : KnownAt(s, engine) <= last}
    BY DEF SignalsDecided
  <2> DEFINE d == SubSeq(bars, 1, last)
  <2>1. PICK X : bars \in [1 .. NumBars -> X]
    BY DEF LoadedInv
  <2>2. NumBars \in Nat /\ last \in Nat
    BY BacktestAssumption
  <2>3. /\ bars \in Seq(X) /\ Len(bars) = NumBars
        /\ d \in Seq(X) /\ Len(d) = last /\ \A i \in 1 .. last : d[i] = bars[i]
    BY <2>1, <2>2
  <2>4. Begins(d, bars)
    BY <2>2, <2>3 DEF Begins
  <2>5. signals = FoundIn(bars)
    BY DEF LoadedInv
  <2> HIDE DEF d
  <2>6. CASE engine = "ny_sweep_reversion"
    <3>1. ASSUME NEW s \in Within(NumBars)
          PROVE  KnownAt(s, engine) <= last
                   <=> s.entry <= last /\ BiasKnownAt(s.setup) <= last
      <4>1. s.entry \in Int /\ s.setup \in Int
        BY <2>2 DEF Within
      <4>2. BiasKnownAt(s.setup) \in Int
        <5>1. HourOf(s.setup) \in Int
          BY <4>1, SweepAssumption DEF HourOf
        <5> QED BY <4>1, <5>1, SweepAssumption DEF BiasKnownAt
      <4> QED
        BY <2>2, <2>6, <4>1, <4>2 DEF KnownAt
    <3>2. /\ signals = ReversionSignals(bars)
          /\ FoundIn(d) = ReversionSignals(d)
      BY <2>5, <2>6 DEF FoundIn
    <3>3. signals \subseteq Within(NumBars)
      BY <2>1, <2>2, <3>2, ReversionWithin
    <3>4. FoundIn(d) \subseteq Within(NumBars)
      <4>1. d \in [1 .. last -> X]
        BY <2>3
      <4>2. FoundIn(d) \subseteq Within(last)
        BY <2>2, <3>2, <4>1, ReversionWithin
      <4> QED
        BY <2>2, <4>2 DEF Within
    <3> HIDE DEF Within
    <3>5. {s \in signals : s.entry <= last /\ BiasKnownAt(s.setup) <= last}
            = {s \in FoundIn(d) : s.entry <= last /\ BiasKnownAt(s.setup) <= last}
      BY <2>3, <2>4, <3>2, ReversionDecided
    <3> QED
      BY <3>1, <3>3, <3>4, <3>5 DEF d
  <2>7. CASE engine = "ny_sweep_failure_reclaim"
    <3>1. ASSUME NEW s \in Within(NumBars)
          PROVE  KnownAt(s, engine) <= last
                   <=> s.entry <= last /\ s.setup + FailureWindow <= last
      BY <2>2, <2>7, SweepAssumption DEF KnownAt, Within
    <3>2. /\ signals = ReclaimSignals(bars)
          /\ FoundIn(d) = ReclaimSignals(d)
      BY <2>5, <2>7 DEF FoundIn
    <3>3. signals \subseteq Within(NumBars)
      BY <2>1, <2>2, <3>2, ReclaimWithin
    <3>4. FoundIn(d) \subseteq Within(NumBars)
      <4>1. d \in [1 .. last -> X]
        BY <2>3
      <4>2. FoundIn(d) \subseteq Within(last)
        BY <2>2, <3>2, <4>1, ReclaimWithin
      <4> QED
        BY <2>2, <4>2 DEF Within
    <3> HIDE DEF Within
    <3>5. {s \in signals : s.entry <= last /\ s.setup + FailureWindow <= last}
            = {s \in FoundIn(d) : s.entry <= last /\ s.setup + FailureWindow <= last}
      BY <2>3, <2>4, <3>2, ReclaimDecided
    <3> QED
      BY <3>1, <3>3, <3>4, <3>5 DEF d
  <2> QED
    BY <2>6, <2>7 DEF SweepEngines
<1> QED
  BY <1>1, LoadedInvariant, PTL

-----------------------------------------------------------------------------
(* The sum of results.                                                      *)

\* SumOf, of any results.
Sum(f, S) == FoldSet(LAMBDA n, sum : sum + f[n].r, 0, S)

Pick(S) == CHOOSE x \in S : TRUE

\* g adds up the results of each part of S, one after the other.
AddsUp(g, f, S) ==
    g = [s \in SUBSET S |-> IF s = {} THEN 0 ELSE g[s \ {Pick(s)}] + f[Pick(s)].r]

Adder(f, S) == CHOOSE g : AddsUp(g, f, S)

LEMMA SumIsAdded == ASSUME NEW f, NEW S PROVE Sum(f, S) = Adder(f, S)[S]
BY DEF Sum, FoldSet, MapThenFoldSet, Adder, AddsUp, Pick

\* What holds of every part that is smaller holds of all finite sets.
LEMMA SmallestSet ==
    ASSUME NEW n \in Nat, NEW Bad, Bad \subseteq 0 .. n, Bad # {}
    PROVE  \E m \in Bad : \A k \in 0 .. m - 1 : k \notin Bad
<1>1. Bad \subseteq Nat
  OBVIOUS
<1>2. PICK m \in Bad : \A j \in Bad : m <= j
  BY <1>1, FirstBarIn
<1> QED
  BY <1>1, <1>2

LEMMA PickedOut ==
    ASSUME NEW S, IsFiniteSet(S), S # {}
    PROVE  /\ Pick(S) \in S /\ IsFiniteSet(S \ {Pick(S)})
           /\ Cardinality(S) \in Nat /\ Cardinality(S \ {Pick(S)}) = Cardinality(S) - 1
           /\ Cardinality(S) # 0
<1>1. Pick(S) \in S
  BY DEF Pick
<1> QED
  BY <1>1, FS_RemoveElement, FS_CardinalityType, FS_EmptySet

\* The sum of a part does not depend on what it is a part of.
LEMMA AddersAgree ==
    ASSUME NEW f, NEW T, NEW U, NEW g, NEW h, AddsUp(g, f, T), AddsUp(h, f, U),
           NEW S, IsFiniteSet(S), S \subseteq T, S \subseteq U
    PROVE  g[S] = h[S]
<1> SUFFICES ASSUME g[S] # h[S]
             PROVE  FALSE
  OBVIOUS
<1> DEFINE n == Cardinality(S)
           Bad == {k \in 0 .. n : \E v \in SUBSET S : Cardinality(v) = k /\ g[v] # h[v]}
<1>1. n \in Nat
  BY FS_CardinalityType
<1>2. Bad \subseteq 0 .. n /\ n \in Bad
  BY <1>1
<1> HIDE DEF Bad
<1>3. PICK m \in Bad : \A k \in 0 .. m - 1 : k \notin Bad
  BY <1>1, <1>2, SmallestSet
<1>4. PICK v \in SUBSET S : Cardinality(v) = m /\ g[v] # h[v]
  BY <1>3 DEF Bad
<1>5. /\ g[v] = IF v = {} THEN 0 ELSE g[v \ {Pick(v)}] + f[Pick(v)].r
      /\ h[v] = IF v = {} THEN 0 ELSE h[v \ {Pick(v)}] + f[Pick(v)].r
  BY DEF AddsUp
<1>6. v # {} /\ IsFiniteSet(v)
  BY <1>4, <1>5, FS_Subset
<1> DEFINE w == v \ {Pick(v)}
<1>7. w \in SUBSET S /\ Cardinality(w) = m - 1 /\ m \in 0 .. n /\ m # 0
  BY <1>2, <1>3, <1>4, <1>6, PickedOut
<1>8. g[w] = h[w]
  <2>1. m - 1 \in 0 .. m - 1 /\ m - 1 \in 0 .. n
    BY <1>1, <1>7
  <2>2. m - 1 \notin Bad
    BY <1>3, <2>1
  <2> HIDE DEF w
  <2> QED
    BY <1>7, <2>1, <2>2 DEF Bad
<1> QED
  BY <1>4, <1>5, <1>6, <1>8

\* The results of a finite set can be added up.
LEMMA AdderExists ==
    ASSUME NEW f, NEW S, IsFiniteSet(S)
    PROVE  AddsUp(Adder(f, S), f, S)
<1> SUFFICES ASSUME ~AddsUp(Adder(f, S), f, S)
             PROVE  FALSE
  OBVIOUS
<1> DEFINE n == Cardinality(S)
           Bad == {k \in 0 .. n : \E v \in SUBSET S : Cardinality(v) = k
                                                 /\ ~AddsUp(Adder(f, v), f, v)}
<1>1. n \in Nat
  BY FS_CardinalityType
<1>2. Bad \subseteq 0 .. n /\ n \in Bad
  BY <1>1
<1> HIDE DEF Bad
<1>3. PICK m \in Bad : \A k \in 0 .. m - 1 : k \notin Bad
  BY <1>1, <1>2, SmallestSet
<1>4. PICK T \in SUBSET S : Cardinality(T) = m /\ ~AddsUp(Adder(f, T), f, T)
  BY <1>3 DEF Bad
<1>5. IsFiniteSet(T) /\ m \in 0 .. n
  BY <1>2, <1>3, FS_Subset
<1> DEFINE F(v) == Adder(f, v)
           rest(s) == s \ {Pick(s)}
           g == [s \in SUBSET T |-> IF s = {} THEN 0 ELSE F(rest(s))[rest(s)] + f[Pick(s)].r]
<1>6. ASSUME NEW v \in SUBSET T, v # T
      PROVE  AddsUp(F(v), f, v) /\ IsFiniteSet(v)
  <2>1. IsFiniteSet(v) /\ Cardinality(v) \in Nat /\ Cardinality(v) <= m /\ Cardinality(v) # m
    BY <1>4, <1>5, <1>6, FS_Subset, FS_CardinalityType
  <2>2. Cardinality(v) \in 0 .. m - 1 /\ Cardinality(v) \in 0 .. n
    BY <1>1, <1>5, <2>1
  <2>3. Cardinality(v) \notin Bad
    BY <1>3, <2>2
  <2> QED
    BY <2>1, <2>2, <2>3 DEF Bad
<1>7. ASSUME NEW s \in SUBSET T, s # {}
      PROVE  F(rest(s))[rest(s)] = g[rest(s)]
  <2> DEFINE t == rest(s)
  <2>1. t \in SUBSET T /\ t # T
    BY <1>7 DEF Pick
  <2>2. AddsUp(F(t), f, t) /\ IsFiniteSet(t)
    BY <1>6, <2>1
  <2> HIDE DEF t, F
  <2>3. F(t)[t] = IF t = {} THEN 0 ELSE F(t)[rest(t)] + f[Pick(t)].r
    BY <2>2 DEF AddsUp
  <2>4. g[t] = IF t = {} THEN 0 ELSE F(rest(t))[rest(t)] + f[Pick(t)].r
    BY <2>1
  <2>5. t # {} => F(t)[rest(t)] = F(rest(t))[rest(t)]
    <3> SUFFICES ASSUME t # {}
                 PROVE  F(t)[rest(t)] = F(rest(t))[rest(t)]
      OBVIOUS
    <3>1. rest(t) \in SUBSET T /\ rest(t) # T /\ rest(t) \subseteq t
      BY <2>1 DEF Pick
    <3>2. AddsUp(F(rest(t)), f, rest(t)) /\ IsFiniteSet(rest(t))
      BY <1>6, <3>1
    <3> HIDE DEF rest
    <3> QED
      BY <2>2, <3>1, <3>2, AddersAgree
  <2> HIDE DEF g, rest
  <2>6. F(t)[t] = g[t]
    BY <2>3, <2>4, <2>5
  <2> QED
    BY <2>6 DEF t
<1>8. AddsUp(g, f, T)
  <2>1. g = [s \in SUBSET T |-> IF s = {} THEN 0 ELSE g[rest(s)] + f[Pick(s)].r]
    <3>1. ASSUME NEW s \in SUBSET T
          PROVE  g[s] = IF s = {} THEN 0 ELSE g[rest(s)] + f[Pick(s)].r
      BY <1>7
    <3> QED
      BY <3>1
  <2> HIDE DEF g
  <2> QED
    BY <2>1 DEF AddsUp
<1> QED
  <2> HIDE DEF g
  <2>1. AddsUp(Adder(f, T), f, T)
    BY <1>8 DEF Adder
  <2> QED
    BY <1>4, <2>1

LEMMA SumPicked ==
    ASSUME NEW f, NEW S, IsFiniteSet(S)
    PROVE  Sum(f, S) = IF S = {} THEN 0 ELSE Sum(f, S \ {Pick(S)}) + f[Pick(S)].r
<1> DEFINE rest == S \ {Pick(S)}
<1>1. AddsUp(Adder(f, S), f, S)
  BY AdderExists
<1>2. Adder(f, S)[S] = IF S = {} THEN 0 ELSE Adder(f, S)[rest] + f[Pick(S)].r
  BY <1>1 DEF AddsUp
<1>3. Adder(f, S)[rest] = Adder(f, rest)[rest]
  <2>1. IsFiniteSet(rest) /\ rest \subseteq S
    BY FS_Subset
  <2>2. AddsUp(Adder(f, rest), f, rest)
    BY <2>1, AdderExists
  <2> HIDE DEF rest
  <2> QED
    BY <1>1, <2>1, <2>2, AddersAgree
<1> QED
  BY <1>2, <1>3, SumIsAdded

LEMMA SumType ==
    ASSUME NEW f, NEW S, IsFiniteSet(S), \A x \in S : f[x].r \in Int
    PROVE  Sum(f, S) \in Int
<1> SUFFICES ASSUME Sum(f, S) \notin Int
             PROVE  FALSE
  OBVIOUS
<1> DEFINE n == Cardinality(S)
           Bad == {k \in 0 .. n : \E v \in SUBSET S : Cardinality(v) = k /\ Sum(f, v) \notin Int}
<1>1. n \in Nat
  BY FS_CardinalityType
<1>2. Bad \subseteq 0 .. n /\ n \in Bad
  BY <1>1
<1> HIDE DEF Bad
<1>3. PICK m \in Bad : \A k \in 0 .. m - 1 : k \notin Bad
  BY <1>1, <1>2, SmallestSet
<1>4. PICK v \in SUBSET S : Cardinality(v) = m /\ Sum(f, v) \notin Int
  BY <1>3 DEF Bad
<1>5. IsFiniteSet(v) /\ v # {}
  <2>1. IsFiniteSet(v)
    BY FS_Subset
  <2>2. v = {} => Sum(f, v) = 0
    BY <2>1, SumPicked
  <2> QED
    BY <1>4, <2>1, <2>2
<1> DEFINE w == v \ {Pick(v)}
<1>6. w \in SUBSET S /\ Cardinality(w) = m - 1 /\ m \in 0 .. n /\ m # 0 /\ Pick(v) \in S
  BY <1>2, <1>3, <1>4, <1>5, PickedOut
<1>7. Sum(f, w) \in Int
  <2>1. m - 1 \in 0 .. m - 1 /\ m - 1 \in 0 .. n
    BY <1>1, <1>6
  <2>2. m - 1 \notin Bad
    BY <1>3, <2>1
  <2> HIDE DEF w
  <2> QED
    BY <1>6, <2>1, <2>2 DEF Bad
<1>8. Sum(f, v) = Sum(f, w) + f[Pick(v)].r
  BY <1>5, SumPicked
<1> QED
  BY <1>4, <1>6, <1>7, <1>8

\* Any element can be the last one to be added.
LEMMA SumWithout ==
    ASSUME NEW f, NEW S, IsFiniteSet(S), \A x \in S : f[x].r \in Int, NEW e \in S
    PROVE  Sum(f, S) = Sum(f, S \ {e}) + f[e].r
<1> DEFINE Parts(v) == \A x \in v : Sum(f, v) = Sum(f, v \ {x}) + f[x].r
<1> SUFFICES ASSUME ~Parts(S)
             PROVE  FALSE
  OBVIOUS
<1> DEFINE n == Cardinality(S)
           Bad == {k \in 0 .. n : \E v \in SUBSET S : Cardinality(v) = k /\ ~Parts(v)}
<1> HIDE DEF Parts
<1>1. n \in Nat
  BY FS_CardinalityType
<1>2. Bad \subseteq 0 .. n /\ n \in Bad
  BY <1>1
<1> HIDE DEF Bad
<1>3. PICK m \in Bad : \A k \in 0 .. m - 1 : k \notin Bad
  BY <1>1, <1>2, SmallestSet
<1>4. PICK v \in SUBSET S : Cardinality(v) = m /\ ~Parts(v)
  BY <1>3 DEF Bad
<1>5. IsFiniteSet(v) /\ m \in 0 .. n
  BY <1>2, <1>3, FS_Subset
<1>6. PICK x \in v : ~(Sum(f, v) = Sum(f, v \ {x}) + f[x].r)
  BY <1>4 DEF Parts
<1> DEFINE p == Pick(v)
<1>7. Sum(f, v) = Sum(f, v \ {p}) + f[p].r /\ p \in v
  BY <1>5, <1>6, SumPicked, PickedOut
<1> HIDE DEF p
<1>8. p # x
  BY <1>6, <1>7
<1>9. ASSUME NEW w \in SUBSET v, w # v
      PROVE  Parts(w)
  <2>1. IsFiniteSet(w) /\ Cardinality(w) \in Nat /\ Cardinality(w) <= m /\ Cardinality(w) # m
    BY <1>4, <1>5, <1>9, FS_Subset, FS_CardinalityType
  <2>2. Cardinality(w) \in 0 .. m - 1 /\ Cardinality(w) \in 0 .. n
    BY <1>1, <1>5, <2>1
  <2>3. Cardinality(w) \notin Bad
    BY <1>3, <2>2
  <2> QED
    BY <2>2, <2>3 DEF Bad
<1> DEFINE both == v \ {p, x}
<1>10. Sum(f, v \ {p}) = Sum(f, both) + f[x].r
  <2>1. Parts(v \ {p}) /\ x \in v \ {p}
    BY <1>6, <1>7, <1>8, <1>9
  <2>2. (v \ {p}) \ {x} = both
    OBVIOUS
  <2> QED
    BY <2>1, <2>2 DEF Parts
<1>11. Sum(f, v \ {x}) = Sum(f, both) + f[p].r
  <2>1. Parts(v \ {x}) /\ p \in v \ {x}
    BY <1>6, <1>7, <1>8, <1>9
  <2>2. (v \ {x}) \ {p} = both
    OBVIOUS
  <2> QED
    BY <2>1, <2>2 DEF Parts
<1>12. Sum(f, both) \in Int /\ f[p].r \in Int /\ f[x].r \in Int
  <2>1. IsFiniteSet(both) /\ \A y \in both : f[y].r \in Int
    BY <1>5, FS_Subset
  <2> HIDE DEF both
  <2> QED
    BY <1>6, <1>7, <2>1, SumType
<1> HIDE DEF both
<1> QED
  BY <1>6, <1>7, <1>10, <1>11, <1>12

\* Only the results of the elements matter.
LEMMA SumSame ==
    ASSUME NEW f, NEW h, NEW S, IsFiniteSet(S), \A x \in S : f[x].r = h[x].r
    PROVE  Sum(f, S) = Sum(h, S)
<1> SUFFICES ASSUME Sum(f, S) # Sum(h, S)
             PROVE  FALSE
  OBVIOUS
<1> DEFINE n == Cardinality(S)
           Bad == {k \in 0 .. n : \E v \in SUBSET S : Cardinality(v) = k /\ Sum(f, v) # Sum(h, v)}
<1>1. n \in Nat
  BY FS_CardinalityType
<1>2. Bad \subseteq 0 .. n /\ n \in Bad
  BY <1>1
<1> HIDE DEF Bad
<1>3. PICK m \in Bad : \A k \in 0 .. m - 1 : k \notin Bad
  BY <1>1, <1>2, SmallestSet
<1>4. PICK v \in SUBSET S : Cardinality(v) = m /\ Sum(f, v) # Sum(h, v)
  BY <1>3 DEF Bad
<1>5. IsFiniteSet(v)
  BY FS_Subset
<1>6. v # {}
  BY <1>4, <1>5, SumPicked
<1> DEFINE w == v \ {Pick(v)}
<1>7. w \in SUBSET S /\ Cardinality(w) = m - 1 /\ m \in 0 .. n /\ m # 0 /\ Pick(v) \in S
  BY <1>2, <1>3, <1>4, <1>5, <1>6, PickedOut
<1>8. Sum(f, w) = Sum(h, w)
  <2>1. m - 1 \in 0 .. m - 1 /\ m - 1 \in 0 .. n
    BY <1>1, <1>7
  <2>2. m - 1 \notin Bad
    BY <1>3, <2>1
  <2> HIDE DEF w
  <2> QED
    BY <1>7, <2>1, <2>2 DEF Bad
<1>9. Sum(f, v) = Sum(f, w) + f[Pick(v)].r /\ Sum(h, v) = Sum(h, w) + h[Pick(v)].r
  BY <1>5, <1>6, SumPicked
<1> QED
  BY <1>4, <1>7, <1>8, <1>9

\* A finite set of numbers has a largest one.
LEMMA LargestExists ==
    ASSUME NEW S, IsFiniteSet(S), S \subseteq Int, S # {}
    PROVE  \E x \in S : \A y \in S : y <= x
<1> DEFINE Has(v) == v = {} \/ \E x \in v : \A y \in v : y <= x
<1> SUFFICES ASSUME ~Has(S)
             PROVE  FALSE
  OBVIOUS
<1> DEFINE n == Cardinality(S)
           Bad == {k \in 0 .. n : \E v \in SUBSET S : Cardinality(v) = k /\ ~Has(v)}
<1> HIDE DEF Has
<1>1. n \in Nat
  BY FS_CardinalityType
<1>2. Bad \subseteq 0 .. n /\ n \in Bad
  BY <1>1
<1> HIDE DEF Bad
<1>3. PICK m \in Bad : \A k \in 0 .. m - 1 : k \notin Bad
  BY <1>1, <1>2, SmallestSet
<1>4. PICK v \in SUBSET S : Cardinality(v) = m /\ ~Has(v)
  BY <1>3 DEF Bad
<1>5. IsFiniteSet(v) /\ v # {}
  BY <1>4, FS_Subset DEF Has
<1> DEFINE p == Pick(v)
           w == v \ {p}
<1>6. w \in SUBSET S /\ Cardinality(w) = m - 1 /\ m \in 0 .. n /\ m # 0 /\ p \in v
  BY <1>2, <1>3, <1>4, <1>5, PickedOut
<1>7. Has(w)
  <2>1. m - 1 \in 0 .. m - 1 /\ m - 1 \in 0 .. n
    BY <1>1, <1>6
  <2>2. m - 1 \notin Bad
    BY <1>3, <2>1
  <2> HIDE DEF w
  <2> QED
    BY <1>6, <2>1, <2>2 DEF Bad
<1> HIDE DEF p
<1>8. v = w \cup {p} /\ v \subseteq Int
  BY <1>6
<1>9. CASE w = {}
  BY <1>4, <1>6, <1>8, <1>9 DEF Has
<1>10. CASE w # {}
  <2>1. PICK x \in w : \A y \in w : y <= x
    BY <1>7, <1>10 DEF Has
  <2>2. \E z \in v : \A y \in v : y <= z
    <3>1. CASE p <= x
      BY <1>8, <2>1, <3>1
    <3>2. CASE ~(p <= x)
      BY <1>6, <1>8, <2>1, <3>2
    <3> QED
      BY <3>1, <3>2
  <2> QED
    BY <1>4, <2>2 DEF Has
<1> QED
  BY <1>9, <1>10

-----------------------------------------------------------------------------
(* The books of a backtest.                                                 *)

OfDate(d) == {n \in Taken : DayOf(trades[n].entry) = d}

Dates == 0 .. DayOf(NumBars)

\* The books add up to the trades, and so do the limits they are held to.
BooksInv ==
    /\ dailyR \in [Dates -> Int] /\ total \in Int /\ peakR \in Int
    /\ \A d \in Dates : dailyR[d] = Sum(trades, OfDate(d))
    /\ total = Sum(trades, Taken)
    /\ \A m \in 0 .. Len(trades) : Sum(trades, 1 .. m) <= peakR
    /\ \E m \in 0 .. Len(trades) : Sum(trades, 1 .. m) = peakR
    /\ DayLossBounded
    /\ KillSwitchBounds

LEMMA SumsOfTrades ==
    /\ \A S : SumOf(S) = Sum(trades, S)
    /\ \A n : Equity(n) = Sum(trades, 1 .. n)
BY DEF SumOf, Equity, Sum

LEMMA PrimedSums ==
    /\ \A S : SumOf(S)' = Sum(trades', S)
    /\ \A n : Equity(n)' = Sum(trades', 1 .. n)
BY DEF SumOf, Equity, Sum, FoldSet, MapThenFoldSet

LEMMA SumOfNone == ASSUME NEW f PROVE Sum(f, {}) = 0
BY SumPicked, FS_EmptySet

LEMMA DateIn == ASSUME NEW i \in 1 .. NumBars PROVE DayOf(i) \in Dates
BY BacktestAssumption DEF DayOf, Dates

\* The largest of a set, which is one of it.
Largest(S) == CHOOSE m \in S : \A n \in S : n <= m

\* The sizes a regime and the news can give to an engine.
SizesOf(e, boosts) == {b * IF e = "sqe" THEN p.size ELSE 1 : p \in Profiles, b \in boosts}

LEMMA LargestSizeBounds ==
    ASSUME NEW e, NEW boosts, boosts = Boosts \/ boosts = {One}
    PROVE  /\ Largest(SizesOf(e, boosts)) \in Nat \ {0}
           /\ \A m \in SizesOf(e, boosts) : m \in Nat /\ m <= Largest(SizesOf(e, boosts))
<1> DEFINE pairs == Profiles \X boosts
           size(q) == q[2] * IF e = "sqe" THEN q[1].size ELSE 1
           sizes == SizesOf(e, boosts)
<1>1. IsFiniteSet(boosts) /\ boosts # {} /\ boosts \subseteq Nat \ {0}
  <2>1. One \in Boosts /\ Boosts \subseteq Nat \ {0} /\ IsFiniteSet(Boosts)
    BY BacktestAssumption, StopAssumption
  <2>2. IsFiniteSet({One})
    BY FS_Singleton
  <2> QED BY <2>1, <2>2
<1>2. IsFiniteSet(pairs)
  BY <1>1, StopAssumption, FS_Product
<1>3. IsFiniteSet(sizes)
  <2> DEFINE f == [q \in pairs |-> size(q)]
  <2>1. ASSUME NEW m \in sizes PROVE \E q \in pairs : f[q] = m
    <3>1. PICK p \in Profiles, b \in boosts : m = b * IF e = "sqe" THEN p.size ELSE 1
      BY DEF SizesOf
    <3>2. <<p, b>> \in pairs /\ f[<<p, b>>] = m
      BY <3>1
    <3> QED BY <3>2
  <2>2. \A q \in pairs : f[q] \in sizes
    BY DEF SizesOf
  <2>3. f \in [pairs -> sizes]
    BY <2>2
  <2>4. f \in Surjection(pairs, sizes)
    BY <2>1, <2>3 DEF Surjection
  <2> HIDE DEF f, sizes, pairs
  <2> QED BY <1>2, <2>4, FS_Surjection
<1>4. \A m \in sizes : m \in Nat \ {0}
  <2> SUFFICES ASSUME NEW p \in Profiles, NEW b \in boosts
               PROVE  b * (IF e = "sqe" THEN p.size ELSE 1) \in Nat \ {0}
    BY DEF SizesOf
  <2>1. b \in Nat \ {0} /\ p.size \in Nat \ {0}
    BY <1>1, BacktestAssumption
  <2> QED BY <2>1
<1>5. sizes \subseteq Int /\ sizes # {}
  <2>1. PICK p \in Profiles, b \in boosts : TRUE
    BY <1>1, StopAssumption
  <2>2. b * (IF e = "sqe" THEN p.size ELSE 1) \in sizes
    BY <2>1 DEF SizesOf
  <2> HIDE DEF sizes
  <2> QED BY <1>4, <2>2
<1> HIDE DEF sizes
<1>6. \E m \in sizes : \A y \in sizes : y <= m
  BY <1>3, <1>5, LargestExists
<1>7. Largest(sizes) \in sizes /\ \A m \in sizes : m <= Largest(sizes)
  BY <1>6 DEF Largest
<1> QED BY <1>4, <1>7 DEF sizes

LEMMA WorstLossIs ==
    /\ WorstLoss = Risk * Largest(Sizes) /\ Largest(Sizes) \in Nat
    /\ \A m \in Sizes : m \in Nat /\ m <= Largest(Sizes)
    /\ WorstLoss \in Nat /\ WorstLoss > 0 /\ WorstLoss' \in Nat /\ WorstLoss' > 0
<1>1. /\ WorstLoss = Risk * Largest(Sizes) /\ WorstLoss' = Risk * Largest(Sizes')
      /\ Sizes = SizesOf(engine, NewsBoosts) /\ Sizes' = SizesOf(engine', NewsBoosts')
  BY DEF WorstLoss, Largest, Sizes, SizesOf, Size
<1>2. /\ NewsBoosts = Boosts \/ NewsBoosts = {One}
      /\ NewsBoosts' = Boosts \/ NewsBoosts' = {One}
  BY DEF NewsBoosts
<1> DEFINE large == Largest(SizesOf(engine, NewsBoosts))
           large2 == Largest(SizesOf(engine', NewsBoosts'))
<1>3. /\ large \in Nat \ {0}
      /\ \A m \in SizesOf(engine, NewsBoosts) : m \in Nat /\ m <= large
  BY <1>2, LargestSizeBounds
<1>4. large2 \in Nat \ {0}
  BY <1>2, LargestSizeBounds
<1>5. large = Largest(Sizes) /\ large2 = Largest(Sizes')
  BY <1>1
<1> HIDE DEF large, large2
<1>6. /\ Risk * large \in Nat /\ Risk * large > 0
      /\ Risk * large2 \in Nat /\ Risk * large2 > 0
  BY <1>3, <1>4, BacktestAssumption
<1> QED BY <1>1, <1>3, <1>5, <1>6

\* A trade of any size loses at most that.
LEMMA WorstLossBounds ==
    ASSUME NEW z \in Sizes, NEW r \in Int, r >= -Risk
    PROVE  r * z \in Int /\ r * z >= -WorstLoss
<1> DEFINE large == Largest(Sizes)
<1>1. Risk \in Nat \ {0} /\ large \in Nat /\ z \in Nat /\ z <= large /\ WorstLoss = Risk * large
  BY WorstLossIs, BacktestAssumption
<1> HIDE DEF large
<1>2. r * z >= -Risk * z
  BY <1>1
<1>3. Risk * z <= Risk * large
  BY <1>1
<1>4. -Risk * z = -(Risk * z)
  BY <1>1
<1>5. r * z \in Int /\ Risk * z \in Int /\ Risk * large \in Int
  BY <1>1
<1> QED BY <1>1, <1>2, <1>3, <1>4, <1>5

\* No trade ends with more than a stop.
LEMMA ResultBounded ==
    ASSUME NEW s, s.entry \in 1 .. NumBars, NEW result \in Simulated(s)
    PROVE  result.r \in Int /\ result.r >= -Risk
<1> USE BacktestAssumption, StopAssumption
<1>1. result.r \in Int
  BY ExitWithin
<1>2. \A r \in ExitResults \cup TimeoutResults \cup {0} : r >= -Risk
  BY DEF ExitResults
<1>3. result.r \in ExitResults \cup TimeoutResults \cup {0}
  BY DEF Simulated, Exit
<1> QED
  BY <1>1, <1>2, <1>3

\* The list h is f, of length n, with one more; S is of the old ones.
OneMore(f, h, n, S) ==
    /\ n \in Nat /\ h[n + 1].r \in Int
    /\ \A x \in 1 .. n : h[x] = f[x] /\ f[x].r \in Int
    /\ S \subseteq 1 .. n

LEMMA SumAppended ==
    ASSUME NEW n, NEW f, NEW h, NEW S, OneMore(f, h, n, S)
    PROVE  /\ Sum(h, S) = Sum(f, S) /\ Sum(f, S) \in Int
           /\ Sum(h, S \cup {n + 1}) = Sum(f, S) + h[n + 1].r
<1> DEFINE more == S \cup {n + 1}
<1> USE DEF OneMore
<1>1. IsFiniteSet(S) /\ IsFiniteSet(more) /\ n + 1 \notin S
  <2>1. IsFiniteSet(1 .. n)
    BY FS_Interval
  <2>2. IsFiniteSet(S)
    BY <2>1, FS_Subset
  <2> QED
    BY <2>2, FS_AddElement
<1>2. \A x \in S : h[x].r = f[x].r /\ f[x].r \in Int
  OBVIOUS
<1>3. Sum(h, S) = Sum(f, S) /\ Sum(f, S) \in Int
  BY <1>1, <1>2, SumSame, SumType
<1>4. Sum(h, more) = Sum(h, more \ {n + 1}) + h[n + 1].r
  <2>1. \A x \in more : h[x].r \in Int
    BY <1>2
  <2>2. n + 1 \in more
    OBVIOUS
  <2> HIDE DEF more
  <2> QED
    BY <1>1, <2>1, <2>2, SumWithout
<1>5. more \ {n + 1} = S
  BY <1>1
<1> QED
  BY <1>3, <1>4, <1>5

LEMMA WorstLossKept ==
    ASSUME UNCHANGED <<engine, filters>>
    PROVE  WorstLoss' = WorstLoss
<1>1. NewsBoosts' = NewsBoosts
  BY DEF NewsBoosts, IsOn, Switchable
<1>2. Sizes' = Sizes
  BY <1>1 DEF Sizes, Size
<1> QED BY <1>2 DEF WorstLoss

LEMMA GuardPasses ==
    ASSUME NEW s, NEW profile, NEW closed, Refusal(s, profile, closed) = "none",
           engine \in Engines, NEW guard, guard \in ToSet(Guards), IsOn(guard)
    PROVE  ~Refuses(guard, s, profile, closed)
<1>1. DOMAIN Guards = 1 .. Len(Guards)
  <2>1. CASE engine = "sqe"
    BY <2>1 DEF Guards, SweepEngines, ComponentEngines
  <2>2. CASE engine = "ny_sweep_failure_reclaim"
    BY <2>2 DEF Guards, SweepEngines, ComponentEngines
  <2>3. CASE engine = "ny_sweep_reversion"
    BY <2>3 DEF Guards, SweepEngines, ComponentEngines
  <2>4. CASE engine \in ComponentEngines
    BY <2>4 DEF Guards, ComponentEngines
  <2>5. CASE engine = "london_ny_overlap_breakout"
    BY <2>5 DEF Guards, ComponentEngines
  <2> QED
    BY <2>1, <2>2, <2>3, <2>4, <2>5 DEF Engines, SweepEngines
<1>2. PICK n \in 1 .. Len(Guards) : Guards[n] = guard
  BY <1>1 DEF ToSet
<1> QED
  BY <1>2, NotRefused

\* Each day's sum is what it lost and won; the walk is inside its limits.
LEMMA BookKeepsBooks ==
    ASSUME WalkInv, BooksInv, engine \in Engines, UNCHANGED <<engine, filters>>,
           NEW s \in signals, NEW profile, NEW closed,
           Refusal(s, profile, closed) = "none",
           NEW result \in Simulated(s), NEW size \in Sizes, Book(s, result, size)
    PROVE  BooksInv'
<1> DEFINE r == result.r * size
           new == [entry |-> s.entry, side |-> s.side, exit |-> result.exit, r |-> r]
           last == Len(trades)
           day == DayOf(s.entry)
<1>1. s.entry \in 1 .. NumBars /\ day \in Dates
  BY DateIn DEF WalkInv, Within
<1>2. result.r \in Int /\ result.r >= -Risk
  BY <1>1, ResultBounded
<1>3. r \in Int /\ r >= -WorstLoss /\ WorstLoss \in Nat /\ WorstLoss > 0
  BY <1>2, WorstLossBounds, WorstLossIs
<1>4. /\ trades' = Append(trades, new)
      /\ dailyR' = [dailyR EXCEPT ![day] = @ + r]
      /\ total' = total + r
      /\ peakR' = IF total' > peakR THEN total' ELSE peakR
  BY DEF Book
<1>5. new.entry = s.entry /\ new.r = r
  OBVIOUS
<1> HIDE DEF new, r, day
<1>6. /\ last \in Nat /\ Len(trades') = last + 1
      /\ trades'[last + 1] = new
      /\ \A n \in 1 .. last : trades'[n] = trades[n] /\ trades[n].r \in Int
  <2>1. trades \in Seq(BookedTrade)
    BY DEF WalkInv
  <2>2. \A n \in 1 .. last : trades[n] \in BookedTrade
    BY <2>1
  <2> QED
    BY <1>4, <2>1, <2>2 DEF BookedTrade
<1> HIDE DEF last
<1>7. last = Len(trades) /\ Taken = 1 .. last /\ Taken' = 1 .. last + 1
  BY <1>6 DEF last, Taken
<1>8. ASSUME NEW S, S \subseteq 1 .. last
      PROVE  /\ Sum(trades', S) = Sum(trades, S) /\ Sum(trades, S) \in Int
             /\ Sum(trades', S \cup {last + 1}) = Sum(trades, S) + r
  <2>1. \A x \in 1 .. last : trades'[x] = trades[x] /\ trades[x].r \in Int
    BY <1>6
  <2>2. trades'[last + 1].r = r
    BY <1>5, <1>6
  <2>3. /\ Sum(trades', S) = Sum(trades, S) /\ Sum(trades, S) \in Int
        /\ Sum(trades', S \cup {last + 1}) = Sum(trades, S) + trades'[last + 1].r
    <3>1. OneMore(trades, trades', last, S)
      BY <1>3, <1>6, <1>8, <2>1, <2>2 DEF OneMore
    <3> QED
      BY <3>1, SumAppended
  <2> QED
    BY <2>2, <2>3
<1>9. ASSUME NEW d \in Dates
      PROVE  OfDate(d)' = (IF d = day THEN OfDate(d) \cup {last + 1} ELSE OfDate(d))
  BY <1>5, <1>6, <1>7 DEF OfDate, day, DayOf
<1>10. \A d \in Dates : dailyR'[d] = Sum(trades', OfDate(d)') /\ dailyR'[d] \in Int
  <2> SUFFICES ASSUME NEW d \in Dates
               PROVE  dailyR'[d] = Sum(trades', OfDate(d)') /\ dailyR'[d] \in Int
    OBVIOUS
  <2>1. OfDate(d) \subseteq 1 .. last
    BY <1>7 DEF OfDate
  <2>2. dailyR[d] = Sum(trades, OfDate(d)) /\ dailyR \in [Dates -> Int]
    BY DEF BooksInv
  <2>3. CASE d = day
    <3>1. Sum(trades', OfDate(d)') = Sum(trades, OfDate(d)) + r
      BY <1>8, <1>9, <2>1, <2>3
    <3>2. dailyR'[d] = dailyR[d] + r
      BY <1>1, <1>4, <2>2, <2>3
    <3> QED
      BY <1>3, <2>2, <3>1, <3>2
  <2>4. CASE d # day
    <3>1. Sum(trades', OfDate(d)') = Sum(trades, OfDate(d))
      BY <1>8, <1>9, <2>1, <2>4
    <3>2. dailyR'[d] = dailyR[d]
      BY <1>1, <1>4, <2>2, <2>4
    <3> QED
      BY <2>2, <3>1, <3>2
  <2> QED
    BY <2>3, <2>4
<1>11. total \in Int /\ total' = Sum(trades', Taken')
  <2>1. Taken' = Taken \cup {last + 1}
    BY <1>6, <1>7
  <2>2. Sum(trades', Taken') = Sum(trades, Taken) + r
    BY <1>7, <1>8, <2>1
  <2> QED
    BY <1>4, <2>2 DEF BooksInv
<1>12. \A m \in 0 .. last : Sum(trades', 1 .. m) = Sum(trades, 1 .. m)
                            /\ Sum(trades, 1 .. m) \in Int
  <2>1. \A m \in 0 .. last : 1 .. m \subseteq 1 .. last
    BY <1>6
  <2> QED
    BY <1>8, <2>1
<1>13. Sum(trades', 1 .. last + 1) = total'
  BY <1>7, <1>11
<1>14. \A m \in 0 .. last + 1 : Sum(trades', 1 .. m) <= peakR'
  BY <1>3, <1>4, <1>6, <1>7, <1>11, <1>12, <1>13, SMTT(30) DEF BooksInv
<1>15. \E m \in 0 .. last + 1 : Sum(trades', 1 .. m) = peakR'
  <2>1. PICK m \in 0 .. last : Sum(trades, 1 .. m) = peakR
    BY <1>7 DEF BooksInv
  <2>2. m \in 0 .. last + 1 /\ last + 1 \in 0 .. last + 1
    BY <1>6
  <2>3. peakR' = total' \/ peakR' = peakR
    BY <1>4
  <2> QED
    BY <1>12, <1>13, <2>1, <2>2, <2>3
<1>16. DayLossBounded'
  <2> SUFFICES ASSUME IsOn("daily_loss"), "daily_loss" \in ToSet(Guards), NEW d \in Dates
               PROVE  Sum(trades', OfDate(d)') > -(MaxDailyLoss + WorstLoss)
    <3>1. /\ IsOn("daily_loss")' <=> IsOn("daily_loss")
          /\ ToSet(Guards)' = ToSet(Guards) /\ WorstLoss' = WorstLoss
      BY WorstLossKept DEF IsOn, Switchable, Guards, ToSet
    <3>2. ASSUME NEW d \in Dates
          PROVE  SumOf({n \in Taken : DayOf(trades[n].entry) = d})' = Sum(trades', OfDate(d)')
      BY PrimedSums DEF OfDate
    <3> QED
      BY <3>1, <3>2 DEF DayLossBounded, Dates
  <2>1. dailyR[d] > -(MaxDailyLoss + WorstLoss) /\ dailyR[d] \in Int
    <3>1. SumOf(OfDate(d)) > -(MaxDailyLoss + WorstLoss)
      BY DEF BooksInv, DayLossBounded, OfDate, Dates
    <3> QED
      BY <3>1, SumsOfTrades DEF BooksInv
  <2>2. dailyR[day] > -MaxDailyLoss
    <3>1. ~DailyLossReached(s)
      BY GuardPasses DEF Refuses
    <3> QED
      BY <1>1, <3>1, BacktestAssumption, SMTT(30) DEF DailyLossReached, BooksInv, day
  <2>3. dailyR'[d] = IF d = day THEN dailyR[d] + r ELSE dailyR[d]
    BY <1>1, <1>4 DEF BooksInv
  <2> QED
    BY <1>3, <1>10, <2>1, <2>2, <2>3, BacktestAssumption
<1>17. KillSwitchBounds'
  <2> SUFFICES ASSUME "kill_switch" \in ToSet(Guards),
                      NEW m \in 0 .. last + 1, NEW n \in 1 .. last + 1, m < n
               PROVE  Sum(trades', 1 .. m) - Sum(trades', 1 .. n - 1) < KillSwitch
    <3>1. ToSet(Guards)' = ToSet(Guards)
      BY DEF Guards, ToSet
    <3> QED
      BY <1>6, <1>7, <3>1, PrimedSums DEF KillSwitchBounds
  <2>1. m \in 0 .. last /\ n - 1 \in 0 .. last
    BY <1>6
  <2>2. Sum(trades', 1 .. m) - Sum(trades', 1 .. n - 1) = Sum(trades, 1 .. m) - Sum(trades, 1 .. n - 1)
    BY <1>12, <2>1
  <2>3. CASE n = last + 1
    <3>1. peakR - total < KillSwitch
      <4>1. ~DrawdownReached
        <5>1. IsOn("kill_switch")
          BY DEF IsOn, Switchable, Filterable
        <5> QED
          BY <5>1, GuardPasses DEF Refuses
      <4> QED
        BY <4>1, BacktestAssumption, SMTT(30) DEF DrawdownReached, BooksInv
    <3>2. Sum(trades, 1 .. n - 1) = total /\ Sum(trades, 1 .. m) <= peakR
      <4>1. n - 1 = last
        BY <1>6, <2>3
      <4> QED
        BY <1>7, <2>1, <4>1 DEF BooksInv
    <3>3. total \in Int /\ peakR \in Int /\ KillSwitch \in Int /\ Sum(trades, 1 .. m) \in Int
      BY <1>12, <2>1, BacktestAssumption DEF BooksInv
    <3> HIDE DEF Book
    <3> QED
      BY <2>2, <3>1, <3>2, <3>3
  <2>4. CASE n # last + 1
    <3>1. n \in Taken /\ m \in 0 .. Len(trades)
      BY <1>6, <1>7, <2>1, <2>4
    <3>2. Equity(m) - Equity(n - 1) < KillSwitch
      BY <2>4, <3>1 DEF BooksInv, KillSwitchBounds
    <3> QED
      BY <2>2, <3>2, SumsOfTrades
  <2> QED
    BY <2>3, <2>4
<1>18. dailyR' \in [Dates -> Int] /\ total' \in Int /\ peakR' \in Int
  BY <1>1, <1>3, <1>4 DEF BooksInv
<1> QED
  BY <1>6, <1>7, <1>10, <1>11, <1>14, <1>15, <1>16, <1>17, <1>18 DEF BooksInv

LEMMA EmptyBooks ==
    ASSUME trades = <<>>, dailyR = [d \in Dates |-> 0], total = 0, peakR = 0
    PROVE  BooksInv
<1>1. Len(trades) = 0 /\ Taken = {} /\ 1 .. 0 = {}
  BY DEF Taken
<1>2. \A d \in Dates : OfDate(d) = {}
  BY <1>1 DEF OfDate
<1>3. DayLossBounded
  <2>1. \A d \in Dates : SumOf({n \in Taken : DayOf(trades[n].entry) = d}) = 0
    BY <1>2, SumsOfTrades, SumOfNone DEF OfDate
  <2>2. 0 > -(MaxDailyLoss + WorstLoss)
    <3>1. \A l, w \in Nat : w > 0 => 0 > -(l + w)
      OBVIOUS
    <3>2. WorstLoss \in Nat /\ WorstLoss > 0 /\ MaxDailyLoss \in Nat
      BY WorstLossIs, BacktestAssumption
    <3> QED BY <3>1, <3>2
  <2> HIDE DEF Taken
  <2> QED
    BY <2>1, <2>2 DEF DayLossBounded, Dates
<1>4. KillSwitchBounds
  BY <1>1 DEF KillSwitchBounds
<1>5. Sum(trades, {}) = 0
  BY SumOfNone
<1>6. \A d \in Dates : dailyR[d] = Sum(trades, OfDate(d))
  BY <1>2, <1>5
<1>7. \A m \in 0 .. Len(trades) : Sum(trades, 1 .. m) = 0
  BY <1>1, <1>5
<1>8. 0 \in 0 .. Len(trades) /\ total = Sum(trades, Taken) /\ dailyR \in [Dates -> Int]
  BY <1>1, <1>5
<1> HIDE DEF OfDate, Taken, Dates
<1> QED
  BY <1>3, <1>4, <1>6, <1>7, <1>8 DEF BooksInv

\* An engine or filters that are chosen before the first trade.
LEMMA EmptyBooksKept ==
    ASSUME BooksInv, trades = <<>>, UNCHANGED <<trades, dailyR, total, peakR>>
    PROVE  BooksInv'
<1>1. Len(trades) = 0 /\ Taken = {} /\ Taken' = {}
  BY DEF Taken
<1>2. \A d \in Dates : OfDate(d) = {} /\ OfDate(d)' = {}
  BY <1>1 DEF OfDate
<1>3. DayLossBounded'
  <2>1. \A d \in Dates : SumOf({n \in Taken : DayOf(trades[n].entry) = d})' = 0
    BY <1>2, PrimedSums, SumOfNone DEF OfDate
  <2>2. 0 > -(MaxDailyLoss + WorstLoss')
    <3>1. \A l, w \in Nat : w > 0 => 0 > -(l + w)
      OBVIOUS
    <3>2. WorstLoss' \in Nat /\ WorstLoss' > 0 /\ MaxDailyLoss \in Nat
      BY WorstLossIs, BacktestAssumption
    <3> QED
      BY <3>1, <3>2, Zenon
  <2> QED
    BY <2>1, <2>2 DEF DayLossBounded, Dates
<1>4. KillSwitchBounds'
  BY <1>1 DEF KillSwitchBounds
<1>5. \A d \in Dates : OfDate(d)' = OfDate(d)
  BY <1>2
<1>6. /\ dailyR' \in [Dates -> Int] /\ total' \in Int /\ peakR' \in Int
      /\ \A d \in Dates : dailyR'[d] = Sum(trades', OfDate(d)')
  BY <1>5 DEF BooksInv
<1>7. /\ total' = Sum(trades', Taken')
      /\ \A m \in 0 .. Len(trades') : Sum(trades', 1 .. m) <= peakR'
      /\ \E m \in 0 .. Len(trades') : Sum(trades', 1 .. m) = peakR'
  BY <1>1 DEF BooksInv
<1> QED
  BY <1>3, <1>4, <1>6, <1>7 DEF BooksInv

\* What books no trade.
LEMMA BooksUntouched ==
    ASSUME BooksInv, UNCHANGED <<engine, filters, trades, dailyR, total, peakR>>
    PROVE  BooksInv'
<1>1. Taken' = Taken /\ \A d : OfDate(d)' = OfDate(d)
  BY DEF Taken, OfDate
<1>2. \A S : SumOf(S)' = SumOf(S) /\ \A n : Equity(n)' = Equity(n)
  BY SumsOfTrades, PrimedSums
<1>3. WorstLoss' = WorstLoss /\ ToSet(Guards)' = ToSet(Guards)
      /\ (IsOn("daily_loss")' <=> IsOn("daily_loss"))
  BY WorstLossKept DEF Guards, ToSet, IsOn, Switchable
<1>4. DayLossBounded'
  <2>1. ASSUME NEW d \in Dates
        PROVE  SumOf({n \in Taken : DayOf(trades[n].entry) = d})'
                 = SumOf({n \in Taken : DayOf(trades[n].entry) = d})
    BY <1>1, SumsOfTrades, PrimedSums DEF OfDate
  <2> QED
    BY <1>3, <2>1 DEF BooksInv, DayLossBounded, Dates
<1>5. KillSwitchBounds'
  BY <1>1, <1>2, <1>3 DEF BooksInv, KillSwitchBounds
<1> QED
  BY <1>1, <1>4, <1>5 DEF BooksInv

LEMMA BooksInvariant == BacktestSpec => []BooksInv
<1>1. BacktestInit => BooksInv
  BY EmptyBooks DEF BacktestInit, Dates
<1>2. WalkInv /\ BooksInv /\ [BacktestNext]_btVars => BooksInv'
  <2> SUFFICES ASSUME WalkInv, BooksInv, [BacktestNext]_btVars
               PROVE  BooksInv'
    OBVIOUS
  <2>1. CASE Choose \/ LoadSweep \/ LoadSignals \/ StartRun
    <3>1. trades = <<>>
      BY <2>1 DEF Choose, LoadSweep, LoadSignals, StartRun, WalkInv
    <3>2. UNCHANGED <<trades, dailyR, total, peakR>>
      BY <2>1 DEF Choose, LoadSweep, LoadSignals, StartRun, bookedVars
    <3> QED
      BY <3>1, <3>2, EmptyBooksKept
  <2>2. CASE Finish
    BY <2>2, BooksUntouched DEF Finish, bookedVars
  <2>3. ASSUME NEW profile \in Profiles, NEW boost \in NewsBoosts, NEW closed,
               Walk(profile, boost, closed)
        PROVE  BooksInv'
    <3>1. UNCHANGED <<engine, filters>> /\ stage = "run" /\ engine \in Engines
      BY <2>3 DEF Walk, WalkInv
    <3>2. PICK s \in signals :
            LET refusal == IF killed THEN "kill_switch" ELSE Refusal(s, profile, closed)
            IN IF refusal = "none"
               THEN \E result \in Simulated(s) : Book(s, result, Size(profile, boost))
               ELSE UNCHANGED bookedVars
      BY <2>3 DEF Walk
    <3>3. CASE UNCHANGED bookedVars
      BY <3>1, <3>3, BooksUntouched DEF bookedVars
    <3>4. CASE /\ Refusal(s, profile, closed) = "none"
               /\ \E result \in Simulated(s) : Book(s, result, Size(profile, boost))
      BY <3>1, <3>4, BookKeepsBooks, SizeIn
    <3> QED
      BY <3>2, <3>3, <3>4
  <2>4. CASE UNCHANGED btVars
    BY <2>4, BooksUntouched DEF btVars
  <2> QED
    BY <2>1, <2>2, <2>3, <2>4 DEF BacktestNext
<1> QED
  BY <1>1, <1>2, WalkInvariant, PTL DEF BacktestSpec

\* The limits by day and by drawdown bound what is lost, and the streak of
\* losses ends the trading, for any data, results, sizes and limits.
THEOREM LossesBoundedCorrect == BacktestSpec => []LossesBounded
<1>1. WalkInv /\ BooksInv => LossesBounded
  BY DEF WalkInv, BooksInv, LossesBounded
<1> QED
  BY <1>1, WalkInvariant, BooksInvariant, PTL

\* There is a largest fall among those that the report looks at.
LEMMA MaxDrawdownIs ==
    ASSUME trades \in Seq(BookedTrade), trades # <<>>
    PROVE  /\ MaxDrawdown \in Int /\ MaxDrawdown >= 0
           /\ \A m, n \in Taken : m <= n => Equity(m) - Equity(n) <= MaxDrawdown
<1> DEFINE pairs == {q \in Taken \X Taken : q[1] <= q[2]}
           after == {Equity(p[1]) - Equity(p[2]) : p \in pairs}
<1>1. Len(trades) \in Nat \ {0} /\ Taken = 1 .. Len(trades)
  BY DEF Taken
<1>2. \A n \in Taken : Equity(n) \in Int
  <2> SUFFICES ASSUME NEW n \in Taken
               PROVE  Sum(trades, 1 .. n) \in Int
    BY SumsOfTrades
  <2>1. \A x \in 1 .. n : trades[x] \in BookedTrade
    BY <1>1
  <2>2. \A x \in 1 .. n : trades[x].r \in Int
    BY <2>1 DEF BookedTrade
  <2>3. IsFiniteSet(1 .. n)
    BY <1>1, FS_Interval
  <2> QED
    BY <2>2, <2>3, SumType
<1> HIDE DEF Taken, Equity
<1>3. IsFiniteSet(after)
  <2> DEFINE fall == [p \in pairs |-> Equity(p[1]) - Equity(p[2])]
  <2>1. fall \in Surjection(pairs, after)
    BY DEF Surjection
  <2>2. IsFiniteSet(pairs)
    <3>1. IsFiniteSet(Taken)
      BY <1>1, FS_Interval
    <3>2. IsFiniteSet(Taken \X Taken)
      BY <3>1, FS_Product
    <3> QED
      BY <3>2, FS_Subset
  <2> HIDE DEF fall, pairs, after
  <2> QED
    BY <2>1, <2>2, FS_Surjection
<1>4. after \subseteq Int /\ 0 \in after
  <2>1. after \subseteq Int
    BY <1>2
  <2>2. <<1, 1>> \in pairs /\ Equity(1) - Equity(1) = 0
    BY <1>1, <1>2
  <2>3. Equity(<<1, 1>>[1]) - Equity(<<1, 1>>[2]) \in after
    BY <2>2
  <2> QED
    BY <2>1, <2>2, <2>3
<1>5. \A m, n \in Taken : m <= n => Equity(m) - Equity(n) \in after
  <2> SUFFICES ASSUME NEW m \in Taken, NEW n \in Taken, m <= n
               PROVE  Equity(m) - Equity(n) \in after
    OBVIOUS
  <2>1. <<m, n>> \in pairs
    OBVIOUS
  <2>2. Equity(<<m, n>>[1]) - Equity(<<m, n>>[2]) \in after
    BY <2>1
  <2> QED
    BY <2>2
<1>6. MaxDrawdown = CHOOSE f \in after : \A g \in after : g <= f
  BY DEF MaxDrawdown
<1> HIDE DEF after, pairs
<1>7. \E f \in after : \A g \in after : g <= f
  BY <1>3, <1>4, LargestExists
<1>8. MaxDrawdown \in after /\ \A g \in after : g <= MaxDrawdown
  BY <1>6, <1>7
<1> QED
  BY <1>4, <1>5, <1>8

\* The drawdown the kill switch acts on and that of the report differ by the
\* loss of the first trade at most, for any results.
THEOREM DrawdownReportedCorrect == BacktestSpec => []DrawdownReported
<1>1. WalkInv /\ BooksInv => DrawdownReported
  <2> SUFFICES ASSUME WalkInv, BooksInv, trades # <<>>
               PROVE  /\ \A m \in Taken : Equity(m) - Equity(Len(trades)) <= peakR - total
                      /\ peakR - total
                           <= MaxDrawdown + (IF trades[1].r < 0 THEN -trades[1].r ELSE 0)
    BY DEF DrawdownReported
  <2> DEFINE last == Len(trades)
  <2>1. /\ trades \in Seq(BookedTrade) /\ last \in Nat \ {0} /\ Taken = 1 .. last
        /\ peakR \in Int /\ total \in Int /\ total = Equity(last)
    BY SumsOfTrades DEF WalkInv, BooksInv, Taken
  <2>2. \A m \in 0 .. last : Equity(m) <= peakR
    BY SumsOfTrades DEF BooksInv
  <2>3. trades[1].r \in Int
    <3>1. trades[1] \in BookedTrade
      BY <2>1
    <3> QED
      BY <3>1 DEF BookedTrade
  <2>4. Equity(0) = 0 /\ Equity(1) = trades[1].r
    <3>1. 1 .. 0 = {} /\ 1 .. 1 = {1}
      OBVIOUS
    <3>2. Sum(trades, {}) = 0
      BY SumOfNone
    <3>3. Sum(trades, {1}) = Sum(trades, {1} \ {1}) + trades[1].r
      <4>1. IsFiniteSet({1}) /\ \A x \in {1} : trades[x].r \in Int
        BY <2>3, FS_Singleton
      <4> QED
        BY <4>1, SumWithout
    <3>4. {1} \ {1} = {}
      OBVIOUS
    <3>5. Sum(trades, {1}) = trades[1].r
      <4>1. Sum(trades, {1} \ {1}) = 0
        BY <3>2, <3>4, Zenon
      <4> QED
        BY <2>3, <3>3, <4>1
    <3>6. Equity(0) = Sum(trades, 1 .. 0) /\ Equity(1) = Sum(trades, 1 .. 1)
      BY SumsOfTrades
    <3> QED
      BY <3>1, <3>2, <3>5, <3>6
  <2>5. /\ MaxDrawdown \in Int /\ MaxDrawdown >= 0
        /\ \A m, n \in Taken : m <= n => Equity(m) - Equity(n) <= MaxDrawdown
    BY <2>1, MaxDrawdownIs
  <2>6. PICK top \in 0 .. last : Equity(top) = peakR
    BY SumsOfTrades DEF BooksInv
  <2> HIDE DEF Equity, MaxDrawdown, Taken
  <2>7. \A m \in Taken : Equity(m) - Equity(last) <= peakR - total
    <3> SUFFICES ASSUME NEW m \in Taken
                 PROVE  Equity(m) - Equity(last) <= peakR - total
      OBVIOUS
    <3>1. Equity(m) <= peakR
      BY <2>1, <2>2
    <3>2. Equity(m) \in Int
      <4>1. \A x \in 1 .. m : trades[x] \in BookedTrade
        BY <2>1
      <4>2. \A x \in 1 .. m : trades[x].r \in Int
        BY <4>1 DEF BookedTrade
      <4>3. m \in Int
        BY <2>1
      <4>4. IsFiniteSet(1 .. m)
        BY <4>3, FS_Interval
      <4> QED
        BY <4>2, <4>4, SumType, SumsOfTrades
    <3> QED
      BY <2>1, <3>1, <3>2
  <2>8. peakR - total <= MaxDrawdown + (IF trades[1].r < 0 THEN -trades[1].r ELSE 0)
    <3>1. CASE top = 0
      <4>1. peakR = 0 /\ trades[1].r - total <= MaxDrawdown
        BY <2>1, <2>4, <2>5, <2>6, <3>1
      <4> QED
        BY <2>1, <2>3, <2>5, <4>1
    <3>2. CASE top # 0
      <4>1. peakR - total <= MaxDrawdown
        BY <2>1, <2>5, <2>6, <3>2
      <4> QED
        BY <2>1, <2>3, <2>5, <4>1
    <3> QED
      BY <3>1, <3>2
  <2> QED
    BY <2>7, <2>8
<1> QED
  BY <1>1, WalkInvariant, BooksInvariant, PTL
=============================================================================
