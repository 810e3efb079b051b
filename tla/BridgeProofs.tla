---------------------------- MODULE BridgeProofs ----------------------------
(***************************************************************************)
(* What holds of the runtime loop and the order script for any number of   *)
(* positions and any streak: that the loop's failsafe is earned and its    *)
(* registry current, unless a listing comes back empty because the request *)
(* failed; the types, whatever fails; and that no order leaves a naked     *)
(* position behind, as long as listings tell the truth, closes succeed and *)
(* no order fills after the script stopped waiting.                        *)
(***************************************************************************)
EXTENDS Bridge, WellFoundedInduction, TLAPS

-----------------------------------------------------------------------------
(* The runtime loop *)

\* What the loop knows, between two polls and in the middle of one.
LoopInv ==
    /\ loopPc \in {"off", "check", "sync", "reconcile", "failsafe", "sleep"}
    /\ streak \in Nat /\ changes \in Nat /\ changed \in BOOLEAN
    /\ streak <= MismatchStreak
    /\ loopPc \in {"check", "sync", "reconcile", "sleep"} => streak < MismatchStreak
    /\ loopPc # "reconcile" => streak <= changes
    /\ loopPc # "reconcile" /\ ~changed => registry = RowOf(open)
    /\ loopPc = "reconcile" /\ ~changed => snap = RowOf(open)
    /\ loopPc = "reconcile" /\ snap # registry => streak < changes

\* The row depends on the positions and on what changed about the newest.
LEMMA RowUnchanged ==
    ASSUME UNCHANGED positionVars
    PROVE  RowOf(open)' = RowOf(open)
BY DEF positionVars, RowOf

\* A step of another party, which only positions can tell the loop of.
LEMMA OthersKeepLoopInv ==
    ASSUME LoopInv, UNCHANGED <<loopPc, snap, registry, streak, changes>>, NoteChange
    PROVE  LoopInv'
BY DEF LoopInv, NoteChange

\* Each step of the loop keeps the invariant.
LEMMA LoopKeepsLoopInv ==
    ASSUME "sync_error" \notin Faults, LoopInv, LoopNext
    PROVE  LoopInv'
<1> USE StreakAssumption
<1>1. CASE LoopStart
  <2>1. RowOf(open)' = RowOf(open)
    BY <1>1, RowUnchanged DEF LoopStart
  <2> QED BY <1>1, <2>1 DEF LoopStart, LoopInv
<1>2. CASE LoopCheck
  <2>1. RowOf(open)' = RowOf(open)
    BY <1>2, RowUnchanged DEF LoopCheck, accountVars
  <2> QED BY <1>2, <2>1 DEF LoopCheck, LoopInv
<1>3. CASE LoopSync
  <2>1. RowOf(open)' = RowOf(open)
    BY <1>3, RowUnchanged DEF LoopSync, accountVars
  <2>2. snap' = RowOf(open)
    BY <1>3 DEF LoopSync, Listings
  <2>3. /\ loopPc = "sync" /\ loopPc' = "reconcile" /\ changed' = FALSE
        /\ streak' = streak /\ registry' = registry
        /\ changes' = IF ~changed THEN 0
                      ELSE IF changes < MismatchStreak THEN changes + 1 ELSE changes
    BY <1>3 DEF LoopSync
  <2>4. changes' \in Nat
    BY <2>3 DEF LoopInv
  <2>5. ASSUME snap' # registry' PROVE streak' < changes'
    <3>1. changed
      BY <2>2, <2>3, <2>5 DEF LoopInv
    <3>2. CASE changes < MismatchStreak
      BY <2>3, <3>1, <3>2 DEF LoopInv
    <3>3. CASE ~(changes < MismatchStreak)
      BY <2>3, <3>1, <3>3 DEF LoopInv
    <3> QED BY <3>2, <3>3
  <2> QED BY <2>1, <2>2, <2>3, <2>4, <2>5 DEF LoopInv
<1>4. CASE LoopDisconnected
  <2>1. RowOf(open)' = RowOf(open)
    BY <1>4, RowUnchanged DEF LoopDisconnected, accountVars
  <2> QED BY <1>4, <2>1 DEF LoopDisconnected, LoopInv
<1>5. CASE LoopReconcile
  <2>1. RowOf(open)' = RowOf(open)
    BY <1>5, RowUnchanged DEF LoopReconcile
  <2>2. /\ loopPc = "reconcile" /\ registry' = snap
        /\ streak' = IF snap # registry THEN streak + 1 ELSE 0
        /\ UNCHANGED <<snap, changed, changes>>
        /\ \/ streak' >= MismatchStreak /\ loopPc' = "failsafe"
           \/ streak' < MismatchStreak /\ loopPc' = "sleep"
    BY <1>5 DEF LoopReconcile, StreakAfter, RegistryAfter
  <2>3. streak' \in Nat /\ streak' <= MismatchStreak /\ streak' <= changes'
    BY <2>2 DEF LoopInv
  <2> QED BY <2>1, <2>2, <2>3 DEF LoopInv
<1>6. CASE LoopFailsafe
  BY <1>6, OthersKeepLoopInv DEF LoopFailsafe
<1>7. CASE LoopPaused
  <2>1. RowOf(open)' = RowOf(open)
    BY <1>7, RowUnchanged DEF LoopPaused, accountVars
  <2> QED BY <1>7, <2>1 DEF LoopPaused, LoopInv
<1>8. CASE LoopSleep
  <2>1. RowOf(open)' = RowOf(open)
    BY <1>8, RowUnchanged DEF LoopSleep, accountVars
  <2> QED BY <1>8, <2>1 DEF LoopSleep, LoopInv
<1>9. CASE LoopCrash
  <2>1. RowOf(open)' = RowOf(open)
    BY <1>9, RowUnchanged DEF LoopCrash
  <2>2. /\ loopPc' = "off" /\ streak' = 0
        /\ UNCHANGED <<registry, changes>>
        /\ changed' = (changed \/ (loopPc = "reconcile" /\ snap # registry))
    BY <1>9 DEF LoopCrash
  <2>3. changed' \in BOOLEAN
    BY <2>2
  <2>4. ASSUME ~changed' PROVE registry' = RowOf(open)'
    <3>1. ~changed /\ ~(loopPc = "reconcile" /\ snap # registry)
      BY <2>2, <2>4
    <3> QED BY <2>1, <2>2, <3>1 DEF LoopInv
  <2> QED BY <2>2, <2>3, <2>4 DEF LoopInv
<1> QED BY <1>1, <1>2, <1>3, <1>4, <1>5, <1>6, <1>7, <1>8, <1>9 DEF LoopNext, LoopRun

\* The loop starts knowing nothing, and right.
LEMMA LoopInvInit ==
    Init => LoopInv
<1> SUFFICES ASSUME Init PROVE LoopInv
  OBVIOUS
<1>1. RowOf(open) = NoRow
  BY DEF Init, AccountInit, RowOf
<1>2. /\ loopPc = "off" /\ registry = NoRow
      /\ streak = 0 /\ changed = FALSE /\ changes = 0
  BY DEF Init, LoopInit
<1>3. MismatchStreak \in Nat /\ 0 < MismatchStreak
  BY StreakAssumption
<1>4. changed \in BOOLEAN /\ ~changed
  BY <1>2
<1> QED BY <1>1, <1>2, <1>3, <1>4 DEF LoopInv

\* As long as listings tell the truth, what the loop knows stays true.
THEOREM LoopInvInvariant ==
    ASSUME "sync_error" \notin Faults
    PROVE  Spec => []LoopInv
<1>1. Init => LoopInv
  BY LoopInvInit
<1>2. LoopInv /\ [Next]_vars => LoopInv'
  <2> SUFFICES ASSUME LoopInv, [Next]_vars PROVE LoopInv'
    OBVIOUS
  <2>1. CASE LoopNext
    BY <2>1, LoopKeepsLoopInv
  <2>2. CASE Untouched
    BY <2>2, OthersKeepLoopInv DEF Untouched
  <2>3. CASE UNCHANGED vars
    <3>1. RowOf(open)' = RowOf(open)
      BY <2>3, RowUnchanged DEF vars, accountVars
    <3> QED BY <2>3, <3>1 DEF vars, loopVars, LoopInv
  <2> QED BY <2>1, <2>2, <2>3 DEF Next
<1> QED BY <1>1, <1>2, PTL DEF Spec

\* The failsafe is earned (RuntimeControlLoop.run_step): each difference it
\* counted comes from a change at the broker before that poll.
THEOREM StreakIsEarnedCorrect ==
    ASSUME "sync_error" \notin Faults
    PROVE  Spec => []StreakIsEarned
<1>1. LoopInv => StreakIsEarned
  BY DEF LoopInv, StreakIsEarned
<1> QED BY <1>1, LoopInvInvariant, PTL

\* Between two polls the registry holds what the broker would list, unless
\* that has changed since (PositionRegistry.apply_reconciliation).
THEOREM RegistryIsCurrentCorrect ==
    ASSUME "sync_error" \notin Faults
    PROVE  Spec => []RegistryIsCurrent
<1>1. LoopInv => RegistryIsCurrent
  BY DEF LoopInv, RegistryIsCurrent
<1> QED BY <1>1, LoopInvInvariant, PTL

-----------------------------------------------------------------------------
(* Types *)

\* A listing has a newest position: the least bound of its trades is one of
\* them.
LEMMA NewestExists ==
    ASSUME NEW S \in SUBSET Trades, S # {}
    PROVE  \E t \in S : \A u \in S : u <= t
<1> DEFINE Less == {p \in Nat \X Nat : p[1] < p[2]}
           Bounds == {n \in Nat : \A u \in S : u <= n}
<1>1. MaxTrade \in Bounds
  BY AccountAssumption DEF Trades
<1>2. PICK m \in Bounds : \A n \in Bounds : <<n, m>> \notin Less
  <2>1. IsWellFoundedOn(Less, Nat)
    BY NatLessThanWellFounded, Zenon DEF OpToRel
  <2> QED
    BY <1>1, <2>1, WFMin
<1>3. m \in S
  <2> SUFFICES ASSUME m \notin S
               PROVE  FALSE
    OBVIOUS
  <2>1. m \in Nat /\ \A u \in S : u \in Nat /\ u < m
    BY AccountAssumption DEF Trades
  <2>2. m - 1 \in Nat /\ \A u \in S : u <= m - 1
    <3>1. PICK u \in S : TRUE
      OBVIOUS
    <3>2. m - 1 \in Nat
      BY <2>1, <3>1
    <3> QED
      BY <2>1, <3>2
  <2>3. m - 1 \in Bounds /\ <<m - 1, m>> \in Less
    BY <2>1, <2>2
  <2> QED
    BY <1>2, <2>3
<1> QED
  BY <1>2, <1>3

\* A row names a position, or none, and its version.
LEMMA RowType ==
    ASSUME NEW S \in SUBSET Trades, ver \in {0, 1}
    PROVE  RowOf(S) \in (0..MaxTrade) \X {0, 1}
<1>1. CASE S = {}
  BY <1>1, AccountAssumption DEF RowOf, NoRow
<1>2. CASE S # {}
  <2> DEFINE newest == CHOOSE t \in S : \A u \in S : u <= t
  <2>1. newest \in S
    BY <1>2, NewestExists
  <2>2. S \subseteq 0..MaxTrade
    BY AccountAssumption DEF Trades
  <2>3. RowOf(S) = <<newest, ver>>
    BY <1>2 DEF RowOf
  <2> HIDE DEF newest
  <2> QED
    BY <2>1, <2>2, <2>3
<1> QED
  BY <1>1, <1>2

\* While the loop goes on, its streak is below the one that ends it; an order
\* that has not filled yet has its number.
TypeInv ==
    /\ TypeOK
    /\ pending => mine # NoTrade
    /\ loopPc \in {"check", "sync", "reconcile", "sleep"} => streak < MismatchStreak

\* The failsafe of either process keeps the types of the account.
LEMMA FailsafeType ==
    ASSUME AccountTypeOK, NEW p \in Processes, Failsafe(p)
    PROVE  AccountTypeOK'
<1> USE DEF AccountTypeOK, positionVars
<1>1. CASE FailsafeSnapshot(p)
  BY <1>1 DEF FailsafeSnapshot, Listings
<1>2. CASE FailsafeClose(p)
  BY <1>2 DEF FailsafeClose, RemovePosition
<1>3. CASE FailsafeMark(p)
  BY <1>3 DEF FailsafeMark
<1>4. CASE FailsafePause(p)
  BY <1>4 DEF FailsafePause
<1> QED
  BY <1>1, <1>2, <1>3, <1>4 DEF Failsafe

\* Steps of the loop.
LEMMA LoopType ==
    ASSUME TypeInv, LoopNext, UNCHANGED orderVars
    PROVE  TypeInv'
<1> USE StreakAssumption
<1> USE DEF TypeInv, TypeOK, AccountTypeOK, LoopTypeOK
<1>0. OrderTypeOK' /\ (pending' => mine' # NoTrade)
  BY DEF OrderTypeOK, orderVars
<1>1. CASE LoopStart
  <2>1. NoRow \in (0..MaxTrade) \X {0, 1}
    BY AccountAssumption DEF NoRow
  <2> QED
    BY <1>0, <1>1, <2>1 DEF LoopStart, ForgetFailsafe, positionVars, Processes
<1>2. CASE LoopCheck
  BY <1>0, <1>2 DEF LoopCheck, accountVars, positionVars, failsafeVars
<1>3. CASE LoopSync
  <2>1. snap' \in (0..MaxTrade) \X {0, 1}
    BY <1>3, RowType DEF LoopSync, Listings
  <2>2. changes' \in 0..MismatchStreak
    BY <1>3 DEF LoopSync
  <2> QED
    BY <1>0, <1>3, <2>1, <2>2 DEF LoopSync, accountVars, positionVars, failsafeVars
<1>4. CASE LoopDisconnected
  BY <1>0, <1>4 DEF LoopDisconnected, accountVars, positionVars, failsafeVars
<1>5. CASE LoopReconcile
  <2>1. /\ loopPc = "reconcile" /\ registry' = snap
        /\ streak' \in 0..MismatchStreak
        /\ loopPc' \in {"failsafe", "sleep"} /\ (loopPc' = "sleep" => streak' < MismatchStreak)
    BY <1>5 DEF LoopReconcile, StreakAfter, RegistryAfter
  <2>2. fsPc' \in [Processes -> {"none", "snapshot", "close", "pause"}]
    BY <1>5 DEF LoopReconcile, TriggerFailsafe
  <2> QED
    BY <1>0, <1>5, <2>1, <2>2 DEF LoopReconcile, positionVars
<1>6. CASE LoopFailsafe
  <2>1. AccountTypeOK'
    BY <1>6, FailsafeType DEF LoopFailsafe, Processes
  <2> QED
    BY <1>0, <1>6, <2>1 DEF LoopFailsafe, NoteChange
<1>7. CASE LoopPaused
  BY <1>0, <1>7 DEF LoopPaused, accountVars, positionVars, failsafeVars
<1>8. CASE LoopSleep
  BY <1>0, <1>8 DEF LoopSleep, accountVars, positionVars, failsafeVars
<1>9. CASE LoopCrash
  <2>1. NoRow \in (0..MaxTrade) \X {0, 1}
    BY AccountAssumption DEF NoRow
  <2>2. changed' \in BOOLEAN
    BY <1>9 DEF LoopCrash
  <2> QED
    BY <1>0, <1>9, <2>1, <2>2 DEF LoopCrash, ForgetFailsafe, positionVars, Processes
<1> QED
  BY <1>1, <1>2, <1>3, <1>4, <1>5, <1>6, <1>7, <1>8, <1>9 DEF LoopNext, LoopRun

\* A new number is a position.
LEMMA NumberType ==
    ASSUME AccountTypeOK, Number(lastTrade + 1)
    PROVE  lastTrade + 1 \in Trades /\ lastTrade' = lastTrade + 1 /\ lastTrade' \in 0..MaxTrade
BY AccountAssumption DEF AccountTypeOK, Number, Trades

\* Steps of the order script.
LEMMA OrderType ==
    ASSUME TypeInv, OrderNext
    PROVE  AccountTypeOK' /\ OrderTypeOK' /\ (pending' => mine' # NoTrade)
<1> USE AccountAssumption DEF TypeInv, TypeOK, AccountTypeOK, OrderTypeOK, positionVars
<1> DEFINE FsPcs == [Processes -> {"none", "snapshot", "close", "pause"}]
<1>0. "order" \in Processes
  BY DEF Processes
<1>a. ASSUME TriggerFailsafe("order")
      PROVE  fsPc' \in FsPcs
  BY <1>0, <1>a DEF TriggerFailsafe
<1>b. ASSUME ForgetFailsafe("order")
      PROVE  /\ fsPc' \in FsPcs /\ fsLeft' \in [Processes -> SUBSET Trades]
             /\ paused' \in [Processes -> BOOLEAN]
  BY <1>0, <1>b DEF ForgetFailsafe
<1>1. CASE OrderStart
  <2>1. /\ orderPc' = "gate" /\ protect' \in BOOLEAN /\ result' = "none"
        /\ tradeId' = 0 /\ mine' = 0 /\ amended' = FALSE /\ pending' = FALSE
        /\ UNCHANGED <<positionVars, status, marker>>
    BY <1>1 DEF OrderStart, NoTrade
  <2>2. /\ fsPc' \in FsPcs /\ fsLeft' \in [Processes -> SUBSET Trades]
        /\ paused' \in [Processes -> BOOLEAN]
    BY <1>b, <1>1 DEF OrderStart
  <2>3. OrderTypeOK'
    <3>1. 0 \in 0..MaxTrade
      OBVIOUS
    <3> QED
      BY <2>1, <3>1, Zenon
  <2>4. AccountTypeOK'
    BY <2>1, <2>2
  <2> QED
    BY <2>1, <2>3, <2>4
<1>2. CASE OrderGate
  BY <1>2 DEF OrderGate, Finish, failsafeVars
<1>3. CASE OrderRisk
  BY <1>a, <1>3 DEF OrderRisk, Finish, FinishWithFailsafe, failsafeVars
<1>4. CASE OrderAccepted
  <2>1. lastTrade + 1 \in Trades /\ lastTrade' \in 0..MaxTrade /\ lastTrade' = lastTrade + 1
    BY <1>4, NumberType DEF OrderAccepted
  <2>2. tradeId' \in 0..MaxTrade /\ mine' \in 0..MaxTrade /\ mine' # NoTrade
    BY <1>4, <2>1 DEF OrderAccepted, NoTrade, Trades
  <2>3. /\ open' \subseteq Trades /\ fullSize' \subseteq Trades /\ guarded' \subseteq Trades
        /\ ver' = ver /\ pending' \in BOOLEAN
    BY <1>4, <2>1 DEF OrderAccepted, Fill
  <2> QED
    BY <1>4, <2>1, <2>2, <2>3 DEF OrderAccepted, failsafeVars
<1>5. CASE OrderFills
  <2>1. mine \in Trades
    BY <1>5 DEF OrderFills, NoTrade, Trades
  <2>2. /\ open' \subseteq Trades /\ fullSize' \subseteq Trades /\ guarded' \subseteq Trades
        /\ ver' = ver
    BY <1>5, <2>1 DEF OrderFills, Fill
  <2> QED
    BY <1>5, <2>1, <2>2 DEF OrderFills, failsafeVars
<1>6. CASE OrderRejected
  <2>1. \/ UNCHANGED <<positionVars, mine>>
        \/ /\ Number(lastTrade + 1)
           /\ Fill(lastTrade + 1, TRUE, TRUE)
           /\ mine' = lastTrade + 1
    BY <1>6 DEF OrderRejected
  <2>2. /\ open' \subseteq Trades /\ fullSize' \subseteq Trades /\ guarded' \subseteq Trades
        /\ lastTrade' \in 0..MaxTrade /\ ver' = ver /\ mine' \in 0..MaxTrade
        /\ mine' # mine => mine' # NoTrade
    <3>1. CASE UNCHANGED <<positionVars, mine>>
      BY <3>1
    <3>2. CASE /\ Number(lastTrade + 1)
               /\ Fill(lastTrade + 1, TRUE, TRUE)
               /\ mine' = lastTrade + 1
      BY <3>2, NumberType DEF Fill, Trades, NoTrade
    <3> QED
      BY <2>1, <3>1, <3>2
  <2>3. /\ result' = "rejected" /\ orderPc' = "failsafe" /\ TriggerFailsafe("order")
        /\ UNCHANGED <<marker, fsLeft, paused>>
        /\ UNCHANGED <<status, protect, tradeId, amended, pending>>
    BY <1>6 DEF OrderRejected, FinishWithFailsafe
  <2> QED
    BY <1>a, <2>2, <2>3
<1>7. CASE OrderConfirm
  BY <1>a, <1>7 DEF OrderConfirm, Finish, FinishWithFailsafe, failsafeVars
<1>8. CASE OrderProtect
  <2>1. guarded' \subseteq Trades /\ ver' \in {0, 1} /\ amended' \in BOOLEAN
    <3>1. ver \in {0, 1} => 1 - ver \in {0, 1}
      OBVIOUS
    <3>2. tradeId \in open => tradeId \in Trades
      OBVIOUS
    <3>3. \A listing \in Listings : listing \subseteq open
      BY DEF Listings
    <3> QED
      BY <1>8, <3>1, <3>2, <3>3 DEF OrderProtect, Touch
  <2> QED
    BY <1>a, <1>8, <2>1 DEF OrderProtect, Finish, FinishWithFailsafe, failsafeVars
<1>9. CASE OrderFailsafe
  BY <1>0, <1>9, FailsafeType DEF OrderFailsafe, orderVars
<1>10. CASE OrderDone
  BY <1>10 DEF OrderDone, accountVars, failsafeVars
<1>11. CASE OrderCrash
  BY <1>b, <1>11 DEF OrderCrash
<1> QED
  BY <1>1, <1>2, <1>3, <1>4, <1>5, <1>6, <1>7, <1>8, <1>9, <1>10, <1>11 DEF OrderNext

\* Steps of the broker and of the operator.
LEMMA EnvironmentType ==
    ASSUME AccountTypeOK, AccountEnvironment
    PROVE  AccountTypeOK'
<1> USE DEF AccountTypeOK, positionVars, failsafeVars
<1>1. CASE \E t \in Trades : BrokerCloses(t)
  BY <1>1 DEF BrokerCloses, RemovePosition
<1>2. CASE PositionChanges
  BY <1>2 DEF PositionChanges, Touch
<1>3. CASE ForeignOpen
  BY <1>3, NumberType DEF ForeignOpen, Fill
<1>4. CASE OperatorBlocks \/ OperatorResumes \/ OperatorRemovesMarker
  BY <1>4 DEF OperatorBlocks, OperatorResumes, OperatorRemovesMarker
<1> QED
  BY <1>1, <1>2, <1>3, <1>4 DEF AccountEnvironment

LEMMA TypeInvariant == Spec => []TypeInv
<1>1. Init => TypeInv
  <2> SUFFICES ASSUME Init
               PROVE  TypeInv
    OBVIOUS
  <2> USE DEF Init
  <2>1. AccountTypeOK
    <3>1. AccountInit /\ 0 \in 0..MaxTrade
      BY AccountAssumption
    <3>2. /\ fsPc \in [Processes -> {"none", "snapshot", "close", "pause"}]
          /\ fsLeft \in [Processes -> SUBSET Trades] /\ paused \in [Processes -> BOOLEAN]
      BY <3>1 DEF AccountInit
    <3> QED
      BY <3>1, <3>2 DEF AccountInit, AccountTypeOK
  <2>2. LoopTypeOK /\ loopPc = "off"
    <3>1. LoopInit /\ NoRow \in (0..MaxTrade) \X {0, 1} /\ 0 \in 0..MismatchStreak
      BY AccountAssumption, StreakAssumption DEF NoRow
    <3> QED
      BY <3>1, Zenon DEF LoopInit, LoopTypeOK
  <2>3. OrderTypeOK /\ ~pending
    <3>1. OrderInit /\ 0 \in 0..MaxTrade
      BY AccountAssumption
    <3> QED
      BY <3>1, Zenon DEF OrderInit, OrderTypeOK, NoTrade
  <2> QED
    BY <2>1, <2>2, <2>3 DEF TypeInv, TypeOK
<1>2. TypeInv /\ [Next]_vars => TypeInv'
  <2> SUFFICES ASSUME TypeInv, [Next]_vars
               PROVE  TypeInv'
    OBVIOUS
  <2>1. CASE LoopNext /\ UNCHANGED orderVars
    BY <2>1, LoopType
  <2>2. ASSUME Untouched
        PROVE  /\ LoopTypeOK'
               /\ loopPc' \in {"check", "sync", "reconcile", "sleep"}
                    => streak' < MismatchStreak
    BY <2>2 DEF Untouched, NoteChange, TypeInv, TypeOK, LoopTypeOK
  <2>3. CASE OrderNext /\ Untouched
    BY <2>2, <2>3, OrderType DEF TypeInv, TypeOK
  <2>4. CASE AccountEnvironment /\ UNCHANGED orderVars /\ Untouched
    BY <2>2, <2>4, EnvironmentType DEF TypeInv, TypeOK, OrderTypeOK, orderVars
  <2>5. CASE UNCHANGED vars
    BY <2>5
    DEF vars, accountVars, positionVars, failsafeVars, loopVars, orderVars, TypeInv, TypeOK,
        AccountTypeOK, LoopTypeOK, OrderTypeOK
  <2> QED
    BY <2>1, <2>3, <2>4, <2>5 DEF Next
<1> QED
  BY <1>1, <1>2, PTL DEF Spec

\* Every variable of the two processes, the account and the broker keeps its
\* type, whatever fails.
THEOREM TypeCorrect == Spec => []TypeOK
<1>1. TypeInv => TypeOK
  BY DEF TypeInv
<1> QED
  BY TypeInvariant, <1>1, PTL

-----------------------------------------------------------------------------
(* The position of an order *)

\* Listings tell the truth, closes succeed, and no order fills after the
\* script stopped waiting for it.
OrdersAnswered == Faults \cap {"sync_error", "close_fails", "late_fill"} = {}

\* What the script knows of the position its order opened: none before the
\* order, its trade id or no id while it polls, the whole of it once it looks
\* at stop and target, and that it is closed, or still to be, in the failsafe.
OrderInv ==
    /\ open \subseteq 1..lastTrade
    /\ mine <= lastTrade
    /\ orderPc \in {"gate", "risk", "submit"} => mine = NoTrade
    /\ orderPc \in {"gate", "risk", "submit", "confirm", "protect"}
         => ~paused["order"] /\ result = "none"
    /\ orderPc \in {"confirm", "protect"} => tradeId \in {mine, NoTrade}
    /\ orderPc = "protect" => tradeId = mine /\ protect /\ (mine \in open => mine \in fullSize)
    /\ orderPc = "failsafe" =>
          /\ fsPc["order"] = "close" /\ mine \in open => mine \in fsLeft["order"]
          /\ fsPc["order"] \in {"pause", "none"} => mine \notin open
    /\ NoNakedOrder

\* A step that leaves the script where it is, opens nothing of the order's,
\* and takes size and protection away only from what is closed.
LEMMA OrderUnmoved ==
    ASSUME TypeInv, OrderInv, UNCHANGED orderVars,
           fsPc'["order"] = fsPc["order"], fsLeft'["order"] = fsLeft["order"],
           paused'["order"] = paused["order"],
           lastTrade' \in Nat, lastTrade <= lastTrade', open' \subseteq 1..lastTrade',
           mine \in open' => /\ mine \in open
                             /\ mine \in fullSize => mine \in fullSize'
                             /\ mine \in guarded => mine \in guarded'
    PROVE  OrderInv'
<1>1. lastTrade \in Nat /\ mine \in Nat
  BY AccountAssumption DEF TypeInv, TypeOK, AccountTypeOK, OrderTypeOK
<1> QED
  BY <1>1 DEF OrderInv, NoNakedOrder, orderVars

\* In particular a step that leaves the positions alone.
LEMMA OrderUntouched ==
    ASSUME TypeInv, OrderInv, UNCHANGED orderVars, UNCHANGED positionVars,
           fsPc'["order"] = fsPc["order"], fsLeft'["order"] = fsLeft["order"],
           paused'["order"] = paused["order"]
    PROVE  OrderInv'
<1>1. lastTrade \in Nat
  BY AccountAssumption DEF TypeInv, TypeOK, AccountTypeOK
<1>2. UNCHANGED <<open, lastTrade, fullSize, guarded>>
  BY DEF positionVars
<1>3. lastTrade' \in Nat /\ lastTrade <= lastTrade' /\ open' \subseteq 1..lastTrade'
  BY <1>1, <1>2 DEF OrderInv
<1> QED
  BY <1>2, <1>3, OrderUnmoved

\* The broker and the operator do not reach into the script.
LEMMA EnvironmentKeepsOrderInv ==
    ASSUME TypeInv, OrderInv, AccountEnvironment, UNCHANGED orderVars
    PROVE  OrderInv'
<1>0. lastTrade \in Nat /\ mine \in Nat /\ open \subseteq 1..lastTrade /\ mine <= lastTrade
  BY AccountAssumption DEF TypeInv, TypeOK, AccountTypeOK, OrderTypeOK, OrderInv
<1>1. CASE \E t \in Trades : BrokerCloses(t)
  BY <1>0, <1>1, OrderUnmoved DEF BrokerCloses, RemovePosition, failsafeVars
<1>2. CASE PositionChanges
  BY <1>0, <1>2, OrderUnmoved DEF PositionChanges, failsafeVars
<1>3. CASE ForeignOpen
  <2>1. /\ lastTrade' = lastTrade + 1 /\ open' = open \cup {lastTrade + 1}
        /\ fullSize \subseteq fullSize' /\ guarded \subseteq guarded'
        /\ UNCHANGED failsafeVars
    BY <1>3 DEF ForeignOpen, Number, Fill
  <2> QED
    BY <1>0, <2>1, OrderUnmoved DEF failsafeVars
<1>4. CASE OperatorBlocks \/ OperatorResumes \/ OperatorRemovesMarker
  <2>1. UNCHANGED positionVars /\ UNCHANGED <<fsPc, fsLeft, paused>>
    BY <1>4 DEF OperatorBlocks, OperatorResumes, OperatorRemovesMarker, failsafeVars
  <2> QED
    BY <2>1, OrderUntouched
<1> QED
  BY <1>1, <1>2, <1>3, <1>4 DEF AccountEnvironment

\* The loop runs a failsafe of its own, which at most closes the position.
LEMMA LoopKeepsOrderInv ==
    ASSUME TypeInv, OrderInv, LoopNext, UNCHANGED orderVars
    PROVE  OrderInv'
<1>0. /\ lastTrade \in Nat /\ mine \in Nat /\ open \subseteq 1..lastTrade /\ mine <= lastTrade
      /\ "order" \in Processes /\ "loop" # "order"
      /\ DOMAIN fsPc = Processes /\ DOMAIN fsLeft = Processes /\ DOMAIN paused = Processes
  BY AccountAssumption DEF TypeInv, TypeOK, AccountTypeOK, OrderTypeOK, OrderInv, Processes
<1>1. CASE \/ LoopCheck \/ LoopSync \/ LoopDisconnected \/ LoopPaused \/ LoopSleep
  <2>1. UNCHANGED accountVars
    BY <1>1 DEF LoopCheck, LoopSync, LoopDisconnected, LoopPaused, LoopSleep
  <2> QED
    BY <2>1, OrderUntouched DEF accountVars, failsafeVars
<1>2. CASE LoopStart \/ LoopCrash
  <2>1. UNCHANGED positionVars /\ ForgetFailsafe("loop")
    BY <1>2 DEF LoopStart, LoopCrash
  <2> QED
    BY <1>0, <2>1, OrderUntouched DEF ForgetFailsafe
<1>3. CASE LoopReconcile
  BY <1>0, <1>3, OrderUntouched DEF LoopReconcile, TriggerFailsafe
<1>4. CASE LoopFailsafe
  <2>1. /\ fsPc'["order"] = fsPc["order"] /\ fsLeft'["order"] = fsLeft["order"]
        /\ paused'["order"] = paused["order"]
    BY <1>0, <1>4
    DEF LoopFailsafe, Failsafe, FailsafeSnapshot, FailsafeClose, FailsafeMark, FailsafePause
  <2>2. \/ UNCHANGED positionVars
        \/ \E t \in open : RemovePosition(t)
    BY <1>4
    DEF LoopFailsafe, Failsafe, FailsafeSnapshot, FailsafeClose, FailsafeMark, FailsafePause
  <2> QED
    <3>1. CASE UNCHANGED positionVars
      BY <2>1, <3>1, OrderUntouched
    <3>2. ASSUME NEW t \in open, RemovePosition(t)
          PROVE  OrderInv'
      BY <1>0, <2>1, <3>2, OrderUnmoved DEF RemovePosition
    <3> QED
      BY <2>2, <3>1, <3>2
<1> QED
  BY <1>1, <1>2, <1>3, <1>4 DEF LoopNext, LoopRun

\* Once the failsafe is called the position is closed, or about to be.
LEMMA FailsafeCalled ==
    ASSUME TypeInv, OrderInv, ~paused["order"], TriggerFailsafe("order"),
           orderPc' = "failsafe", open' \subseteq 1..lastTrade', mine' <= lastTrade'
    PROVE  OrderInv'
<1>1. "order" \in Processes /\ DOMAIN fsPc = Processes
  BY DEF TypeInv, TypeOK, AccountTypeOK, Processes
<1>2. fsPc'["order"] = "snapshot"
  BY <1>1 DEF TriggerFailsafe
<1> QED
  BY <1>2 DEF OrderInv, NoNakedOrder

\* The script's own steps.
LEMMA OrderKeepsOrderInv ==
    ASSUME OrdersAnswered, TypeInv, OrderInv, OrderNext
    PROVE  OrderInv'
<1>0. /\ lastTrade \in Nat /\ mine \in Nat /\ open \subseteq 1..lastTrade /\ mine <= lastTrade
      /\ "order" \in Processes
      /\ DOMAIN fsPc = Processes /\ DOMAIN fsLeft = Processes /\ DOMAIN paused = Processes
      /\ Listings = {open} /\ NoTrade = 0 /\ NoTrade \notin open
  BY AccountAssumption
  DEF TypeInv, TypeOK, AccountTypeOK, OrderTypeOK, OrderInv, Processes, Listings,
      OrdersAnswered, NoTrade
<1>1. CASE OrderStart
  <2>1. /\ orderPc' = "gate" /\ result' = "none" /\ mine' = NoTrade
        /\ UNCHANGED <<open, lastTrade>>
    BY <1>1 DEF OrderStart, positionVars
  <2>2. ~paused'["order"]
    BY <1>0, <1>1 DEF OrderStart, ForgetFailsafe
  <2> QED
    BY <1>0, <2>1, <2>2 DEF OrderInv, NoNakedOrder
<1>2. CASE OrderGate
  <2>1. /\ orderPc = "gate" /\ orderPc' \in {"risk", "done"}
        /\ orderPc' = "risk" => result' = result
        /\ UNCHANGED <<positionVars, failsafeVars, mine>>
    BY <1>2 DEF OrderGate, Finish
  <2> QED
    BY <1>0, <2>1 DEF OrderInv, NoNakedOrder, positionVars, failsafeVars
<1>3. CASE OrderRisk
  <2>1. /\ orderPc = "risk" /\ UNCHANGED <<positionVars, mine>>
        /\ \/ orderPc' = "done"
           \/ orderPc' = "failsafe" /\ TriggerFailsafe("order")
           \/ orderPc' = "submit" /\ UNCHANGED <<result, failsafeVars>>
    BY <1>3 DEF OrderRisk, Finish, FinishWithFailsafe
  <2>2. CASE orderPc' = "done"
    BY <1>0, <2>1, <2>2 DEF OrderInv, NoNakedOrder, positionVars
  <2>3. CASE orderPc' = "failsafe" /\ TriggerFailsafe("order")
    BY <1>0, <2>1, <2>3, FailsafeCalled DEF OrderInv, positionVars
  <2>4. CASE orderPc' = "submit" /\ UNCHANGED <<result, failsafeVars>>
    BY <1>0, <2>1, <2>4 DEF OrderInv, NoNakedOrder, positionVars, failsafeVars
  <2> QED
    BY <2>1, <2>2, <2>3, <2>4
<1>4. CASE OrderAccepted
  <2>1. /\ orderPc = "submit" /\ orderPc' = "confirm"
        /\ lastTrade' = lastTrade + 1 /\ mine' = lastTrade + 1
        /\ tradeId' \in {mine', NoTrade} /\ result' = result /\ paused' = paused
        /\ open' \subseteq open \cup {lastTrade + 1}
    BY <1>4 DEF OrderAccepted, Number, Fill, failsafeVars
  <2> QED
    BY <1>0, <2>1 DEF OrderInv, NoNakedOrder
<1>5. CASE OrderFills
  <2>1. /\ orderPc = "confirm" /\ open' = open \cup {mine} /\ mine # NoTrade
        /\ UNCHANGED <<lastTrade, orderPc, tradeId, mine, result, paused>>
    BY <1>5 DEF OrderFills, Fill, OrdersAnswered, TypeInv, failsafeVars
  <2> QED
    BY <1>0, <2>1 DEF OrderInv, NoNakedOrder
<1>6. CASE OrderRejected
  <2>1. /\ orderPc = "submit" /\ orderPc' = "failsafe" /\ TriggerFailsafe("order")
        /\ \/ UNCHANGED <<positionVars, mine>>
           \/ /\ lastTrade' = lastTrade + 1 /\ mine' = lastTrade + 1
              /\ open' = open \cup {lastTrade + 1}
    BY <1>6 DEF OrderRejected, FinishWithFailsafe, Number, Fill
  <2>2. open' \subseteq 1..lastTrade' /\ mine' <= lastTrade'
    <3>1. CASE UNCHANGED <<positionVars, mine>>
      BY <1>0, <3>1 DEF positionVars
    <3>2. CASE /\ lastTrade' = lastTrade + 1 /\ mine' = lastTrade + 1
               /\ open' = open \cup {lastTrade + 1}
      BY <1>0, <3>2
    <3> QED
      BY <2>1, <3>1, <3>2
  <2>3. ~paused["order"]
    BY <2>1 DEF OrderInv
  <2> QED
    BY <2>1, <2>2, <2>3, FailsafeCalled
<1>7. CASE OrderConfirm
  <2>1. /\ orderPc = "confirm"
        /\ UNCHANGED <<open, lastTrade, fullSize, guarded, protect, tradeId, mine>>
        /\ \/ tradeId \in open \cap fullSize /\ protect /\ orderPc' = "protect"
              /\ UNCHANGED <<result, failsafeVars>>
           \/ tradeId \in open \cap fullSize /\ ~protect /\ Finish("filled")
           \/ FinishWithFailsafe("fill_unconfirmed")
    BY <1>0, <1>7 DEF OrderConfirm, positionVars
  <2>2. tradeId \in open => tradeId = mine
    BY <1>0, <2>1 DEF OrderInv
  <2>3. CASE tradeId \in open \cap fullSize /\ protect /\ orderPc' = "protect"
             /\ UNCHANGED <<result, failsafeVars>>
    BY <1>0, <2>1, <2>2, <2>3 DEF OrderInv, NoNakedOrder, failsafeVars
  <2>4. CASE tradeId \in open \cap fullSize /\ ~protect /\ Finish("filled")
    BY <1>0, <2>1, <2>2, <2>4 DEF OrderInv, NoNakedOrder, Finish
  <2>5. CASE FinishWithFailsafe("fill_unconfirmed")
    BY <1>0, <2>1, <2>5, FailsafeCalled DEF OrderInv, FinishWithFailsafe
  <2> QED
    BY <2>1, <2>3, <2>4, <2>5
<1>8. CASE OrderProtect
  <2>1. /\ orderPc = "protect"
        /\ UNCHANGED <<open, lastTrade, fullSize, protect, tradeId, mine>>
        /\ \/ FinishWithFailsafe("protection_unconfirmed")
           \/ tradeId \in guarded /\ guarded' = guarded /\ Finish("validated")
           \/ UNCHANGED <<orderPc, result, failsafeVars>>
    BY <1>0, <1>8 DEF OrderProtect, positionVars
  <2>2. CASE FinishWithFailsafe("protection_unconfirmed")
    BY <1>0, <2>1, <2>2, FailsafeCalled DEF OrderInv, FinishWithFailsafe
  <2>3. CASE tradeId \in guarded /\ guarded' = guarded /\ Finish("validated")
    BY <1>0, <2>1, <2>3 DEF OrderInv, NoNakedOrder, Finish
  <2>4. CASE UNCHANGED <<orderPc, result, failsafeVars>>
    BY <1>0, <2>1, <2>4 DEF OrderInv, NoNakedOrder, failsafeVars
  <2> QED
    BY <2>1, <2>2, <2>3, <2>4
<1>9. CASE OrderFailsafe
  <2>1. orderPc = "failsafe" /\ UNCHANGED <<orderPc, mine>>
    BY <1>9 DEF OrderFailsafe, orderVars
  <2>2. ASSUME open' \subseteq open, lastTrade' = lastTrade,
               fsPc'["order"] = "close" /\ mine \in open' => mine \in fsLeft'["order"],
               fsPc'["order"] \in {"pause", "none"} => mine \notin open'
        PROVE  OrderInv'
    BY <1>0, <2>1, <2>2 DEF OrderInv, NoNakedOrder
  <2>3. CASE FailsafeSnapshot("order")
    BY <1>0, <2>2, <2>3 DEF FailsafeSnapshot, positionVars
  <2>4. CASE FailsafeClose("order")
    <3>1. PICK t \in fsLeft["order"] :
            /\ fsLeft' = [fsLeft EXCEPT !["order"] = @ \ {t}]
            /\ \/ t \in open /\ RemovePosition(t)
               \/ t \notin open /\ UNCHANGED positionVars
      BY <2>4 DEF FailsafeClose, OrdersAnswered
    <3>2. /\ open' = open \ {t} /\ lastTrade' = lastTrade
          /\ fsLeft'["order"] = fsLeft["order"] \ {t} /\ fsPc' = fsPc /\ fsPc["order"] = "close"
      BY <1>0, <2>4, <3>1 DEF FailsafeClose, RemovePosition, positionVars
    <3> QED
      BY <2>1, <2>2, <3>2 DEF OrderInv
  <2>5. CASE FailsafeMark("order")
    BY <1>0, <2>1, <2>2, <2>5 DEF FailsafeMark, OrderInv, positionVars
  <2>6. CASE FailsafePause("order")
    BY <1>0, <2>1, <2>2, <2>6 DEF FailsafePause, OrderInv, positionVars
  <2> QED
    BY <1>9, <2>3, <2>4, <2>5, <2>6 DEF OrderFailsafe, Failsafe
<1>10. CASE OrderDone
  <2>1. /\ orderPc = "failsafe" /\ fsPc["order"] = "none" /\ orderPc' = "done"
        /\ UNCHANGED <<open, lastTrade, mine>>
    BY <1>10 DEF OrderDone, accountVars, positionVars
  <2> QED
    BY <1>0, <2>1 DEF OrderInv, NoNakedOrder
<1>11. CASE OrderCrash
  <2>1. orderPc' = "done" /\ result' = "none" /\ UNCHANGED <<open, lastTrade, mine>>
    BY <1>11 DEF OrderCrash, positionVars
  <2> QED
    BY <1>0, <2>1 DEF OrderInv, NoNakedOrder
<1> QED
  BY <1>1, <1>2, <1>3, <1>4, <1>5, <1>6, <1>7, <1>8, <1>9, <1>10, <1>11 DEF OrderNext

LEMMA OrderInvariant ==
    ASSUME OrdersAnswered
    PROVE  Spec => []OrderInv
<1>1. Init => OrderInv
  <2> SUFFICES ASSUME Init
               PROVE  OrderInv
    OBVIOUS
  <2>1. open = {} /\ lastTrade = 0 /\ orderPc = "done" /\ result = "none" /\ mine = 0
    BY DEF Init, AccountInit, OrderInit, NoTrade
  <2> QED
    BY <2>1 DEF OrderInv, NoNakedOrder
<1>2. TypeInv /\ OrderInv /\ [Next]_vars => OrderInv'
  <2> SUFFICES ASSUME TypeInv, OrderInv, [Next]_vars
               PROVE  OrderInv'
    OBVIOUS
  <2>1. CASE LoopNext /\ UNCHANGED orderVars
    BY <2>1, LoopKeepsOrderInv
  <2>2. CASE OrderNext
    BY <2>2, OrderKeepsOrderInv
  <2>3. CASE AccountEnvironment /\ UNCHANGED orderVars
    BY <2>3, EnvironmentKeepsOrderInv
  <2>4. CASE UNCHANGED vars
    BY <2>4, OrderUntouched DEF vars, accountVars, failsafeVars
  <2> QED
    BY <2>1, <2>2, <2>3, <2>4 DEF Next
<1> QED
  BY TypeInvariant, <1>1, <1>2, PTL DEF Spec

\* place_and_validate leaves no naked position behind: once it returns, and
\* whatever failed on the way (a rejection that filled, a partial fill, an
\* answer without trade id, an amendment that was refused, a death of either
\* process), the position is gone, or has its size and its protection.
THEOREM NoNakedOrderCorrect ==
    ASSUME OrdersAnswered
    PROVE  Spec => []NoNakedOrder
<1>1. OrderInv => NoNakedOrder
  BY DEF OrderInv
<1> QED
  BY OrderInvariant, <1>1, PTL
=============================================================================
