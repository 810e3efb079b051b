------------------------- MODULE StopManagerProofs -------------------------
(***************************************************************************)
(* What holds of a managed order for every tick size, threshold and        *)
(* number of units: types under every fault; that break-even and the open  *)
(* units are not lost sight of when only a refusal is always seen; one     *)
(* partial close when neither a close's reply nor the process is lost; and *)
(* the order of the stops and the locked profit when every move of the     *)
(* stop succeeds.  Each theorem assumes away the faults it does not        *)
(* survive.                                                                *)
(***************************************************************************)
EXTENDS StopManager, TLAPS

-----------------------------------------------------------------------------
(* Types *)

\* Rounding a percentage never asks for more units than there are
\* (round in update_price).
LEMMA UnitsToCloseBound ==
    ASSUME NEW u \in 0..Units
    PROVE  UnitsToClose(u) \in 0..u
<1> DEFINE x == u * ClosePct
           q == x \div 100
           r == x % 100
<1>1. u \in Nat /\ ClosePct \in Nat /\ ClosePct <= 100
  BY UnitsAssumption
<1>2. x \in Nat /\ x <= 100 * u
  <2>1. u * (100 - ClosePct) >= 0
    BY <1>1
  <2> QED
    BY <1>1, <2>1
<1> HIDE DEF x
<1>3. q \in Nat /\ r \in 0..99 /\ x = 100 * q + r
  BY <1>2
<1> HIDE DEF q, r
<1>4. \/ UnitsToClose(u) = q
      \/ UnitsToClose(u) = q + 1 /\ r # 0
  BY <1>3 DEF UnitsToClose, q, r, x
<1> QED
  BY <1>1, <1>2, <1>3, <1>4

\* What each mechanism changes in the order: break-even, the partial close
\* and the trail touch different fields, and nothing when the call failed.
LEMMA TickedFields ==
    ASSUME TypeOK, NEW gain \in Gains
    PROVE  LET o == [order EXCEPT !.peak = PeakAt(gain)]
           IN  /\ o \in ManagedOrder
               /\ o.sl = order.sl /\ o.units = order.units
               /\ o.breakEvenSet = order.breakEvenSet
               /\ o.partialClosed = order.partialClosed
               /\ o.peak = PeakAt(gain)
<1>1. PeakAt(gain) \in Int
  BY TicksAssumption DEF TypeOK, PeakAt, ManagedOrder, Gains
<1> QED
  BY <1>1 DEF TypeOK, ManagedOrder

LEMMA AfterBreakEvenFields ==
    ASSUME NEW o \in ManagedOrder, NEW ok \in BOOLEAN
    PROVE  LET a == AfterBreakEven(o, ok)
           IN  /\ a \in ManagedOrder
               /\ ok => a.sl = BeOffset /\ a.breakEvenSet
               /\ ~ok => a = o
               /\ a.peak = o.peak /\ a.units = o.units
               /\ a.partialClosed = o.partialClosed
  BY TicksAssumption DEF AfterBreakEven, ManagedOrder

LEMMA AfterPartialFields ==
    ASSUME TypeOK, NEW ok \in BOOLEAN
    PROVE  LET a == AfterPartial(ok)
           IN  /\ a \in ManagedOrder
               /\ ok => /\ a.partialClosed
                        /\ a.units = order.units - UnitsToClose(order.units)
               /\ ~ok => a = order
               /\ a.sl = order.sl /\ a.peak = order.peak
               /\ a.breakEvenSet = order.breakEvenSet
<1> DEFINE left == order.units - UnitsToClose(order.units)
           a == [order EXCEPT !.partialClosed = TRUE, !.units = left]
<1>1. order \in ManagedOrder /\ order.units \in 0..Units /\ Units \in Nat
  BY UnitsAssumption DEF TypeOK, ManagedOrder
<1>2. UnitsToClose(order.units) \in 0..order.units
  BY <1>1, UnitsToCloseBound
<1>3. left \in 0..Units
  BY <1>1, <1>2
<1>4. AfterPartial(ok) = IF ok THEN a ELSE order
  BY DEF AfterPartial
<1>5. /\ a \in ManagedOrder /\ a.partialClosed /\ a.units = left
      /\ a.sl = order.sl /\ a.peak = order.peak
      /\ a.breakEvenSet = order.breakEvenSet
  <2> HIDE DEF left
  <2> QED BY <1>1, <1>3 DEF ManagedOrder
<1> QED
  BY <1>1, <1>4, <1>5

LEMMA AfterTrailFields ==
    ASSUME TypeOK, NEW ok \in BOOLEAN
    PROVE  LET a == AfterTrail(ok)
           IN  /\ a \in ManagedOrder
               /\ ok => a.sl = order.peak - TrailDistance
               /\ ~ok => a = order
               /\ a.units = order.units /\ a.peak = order.peak
               /\ a.breakEvenSet = order.breakEvenSet
               /\ a.partialClosed = order.partialClosed
<1> DEFINE target == order.peak - TrailDistance
           a == [order EXCEPT !.sl = target, !.trailingActive = TRUE]
<1>1. order \in ManagedOrder /\ target \in Int
  BY TicksAssumption DEF TypeOK, ManagedOrder
<1>2. AfterTrail(ok) = IF ok THEN a ELSE order
  BY DEF AfterTrail
<1>3. /\ a \in ManagedOrder /\ a.sl = target
      /\ a.units = order.units /\ a.peak = order.peak
      /\ a.breakEvenSet = order.breakEvenSet
      /\ a.partialClosed = order.partialClosed
  <2> HIDE DEF target
  <2> QED BY <1>1 DEF ManagedOrder
<1> QED
  BY <1>1, <1>2, <1>3

\* Neither break-even nor the trail touches the units or the partial flag.
LEMMA UpdateKeepsUnits ==
    ASSUME TypeOK, NEW gain \in Gains, UpdatePrice(gain)
    PROVE  order'.units = order.units /\ order'.partialClosed = order.partialClosed
<1> DEFINE ticked == [order EXCEPT !.peak = PeakAt(gain)]
<1>1. /\ ticked \in ManagedOrder /\ ticked.units = order.units
      /\ ticked.partialClosed = order.partialClosed
  BY TickedFields
<1>2. order' = ticked \/ \E ok \in BOOLEAN : order' = AfterBreakEven(ticked, ok)
  BY DEF UpdatePrice
<1> HIDE DEF ticked
<1> QED
  BY <1>1, <1>2, AfterBreakEvenFields

LEMMA TrailKeepsUnits ==
    ASSUME TypeOK, Trail
    PROVE  order'.units = order.units /\ order'.partialClosed = order.partialClosed
  BY AfterTrailFields DEF Trail

\* Every variable keeps its type, whatever fails.
THEOREM TypeCorrect == Spec => []TypeOK
<1> USE TicksAssumption, UnitsAssumption, SwitchAssumption
<1>1. Init => TypeOK
  BY DEF Init, TypeOK, Registered, ManagedOrder, Gains, NoStop
<1>2. TypeOK /\ [Next]_vars => TypeOK'
  <2> SUFFICES ASSUME TypeOK, [Next]_vars
               PROVE  TypeOK'
    OBVIOUS
  <2>1. CASE BrokerCloses
    BY <2>1 DEF BrokerCloses, TypeOK
  <2>2. ASSUME NEW gain \in Gains, UpdatePrice(gain)
        PROVE  TypeOK'
    <3> DEFINE ticked == [order EXCEPT !.peak = PeakAt(gain)]
    <3>1. ticked \in ManagedOrder
      BY TickedFields
    <3>2. \A ok \in BOOLEAN : AfterBreakEven(ticked, ok) \in ManagedOrder
      BY <3>1, AfterBreakEvenFields
    <3>3. order' \in ManagedOrder /\ stop' \in Int
      BY <2>2, <3>1, <3>2 DEF UpdatePrice, ModifyStop, Answered, TypeOK
    <3> QED
      BY <2>2, <3>3 DEF UpdatePrice, TypeOK, Gains
  <2>3. CASE PartialClose
    <3>1. UnitsToClose(order.units) \in 0..order.units /\ order.units \in 0..Units
      BY UnitsToCloseBound DEF TypeOK, ManagedOrder
    <3>2. order' \in ManagedOrder /\ units' \in 0..Units /\ partials' \in 0..2
      BY <2>3, <3>1, AfterPartialFields DEF PartialClose, CloseUnits, Answered, TypeOK
    <3> QED
      BY <2>3, <3>2 DEF PartialClose, TypeOK
  <2>4. CASE Trail
    <3>1. order.peak - TrailDistance \in Int
      BY DEF TypeOK, ManagedOrder
    <3>2. order' \in ManagedOrder /\ stop' \in Int
      BY <2>4, <3>1, AfterTrailFields DEF Trail, ModifyStop, Answered, TypeOK
    <3> QED
      BY <2>4, <3>2 DEF Trail, TypeOK, Gains
  <2>5. CASE SaveState
    BY <2>5 DEF SaveState, TypeOK, brokerVars
  <2>6. CASE Shutdown
    BY <2>6 DEF Shutdown, TypeOK, brokerVars
  <2>7. CASE Crash
    BY <2>7 DEF Crash, TypeOK, brokerVars, Gains
  <2>8. CASE LoadState
    BY <2>8 DEF LoadState, TypeOK, brokerVars
  <2>9. CASE UNCHANGED vars
    BY <2>9 DEF vars, brokerVars, TypeOK
  <2> QED
    BY <2>1, <2>2, <2>3, <2>4, <2>5, <2>6, <2>7, <2>8, <2>9 DEF Next
<1> QED
  BY <1>1, <1>2, PTL DEF Spec

-----------------------------------------------------------------------------
(* What every fault but an unseen refusal leaves standing                   *)

\* Why the promise survives a reload: a saved order knows at most what the
\* order in memory knows, and both hold a stop at break-even or better.
BreakEvenInv ==
    /\ order.breakEvenSet => order.sl >= BeOffset /\ (units > 0 => stop >= BeOffset)
    /\ disk.breakEvenSet => disk.sl >= BeOffset /\ order.breakEvenSet

\* An open position whose order is noted as break-even cannot lose any more at
\* the broker, whatever calls fail or lose their replies and whatever copy
\* load_state brings back, as long as a refusal is answered as one.
THEOREM BreakEvenKeptCorrect ==
    ASSUME "refused_unseen" \notin Faults
    PROVE  Spec => []BreakEvenKept
<1> USE TicksAssumption, UnitsAssumption
<1>1. Init => BreakEvenInv
  BY DEF Init, BreakEvenInv, Registered
<1>2. TypeOK /\ BreakEvenInv /\ [Next]_vars => BreakEvenInv'
  <2> SUFFICES ASSUME TypeOK, BreakEvenInv, [Next]_vars
               PROVE  BreakEvenInv'
    OBVIOUS
  <2> USE DEF BreakEvenInv
  <2>1. CASE BrokerCloses
    BY <2>1 DEF BrokerCloses
  <2>2. ASSUME NEW gain \in Gains, UpdatePrice(gain)
        PROVE  BreakEvenInv'
    <3> DEFINE ticked == [order EXCEPT !.peak = PeakAt(gain)]
    <3>1. /\ ticked \in ManagedOrder /\ ticked.sl = order.sl
          /\ ticked.breakEvenSet = order.breakEvenSet
      BY TickedFields
    <3>2. disk' = disk
      BY <2>2 DEF UpdatePrice
    <3>3. CASE BreakEvenDue(gain)
      <4>1. ~order.breakEvenSet /\ ~disk.breakEvenSet
        BY <3>3 DEF BreakEvenDue
      <4>2. PICK ok \in BOOLEAN : /\ ModifyStop(BeOffset, ok)
                                  /\ order' = AfterBreakEven(ticked, ok)
        BY <2>2, <3>3 DEF UpdatePrice
      <4>3. ok => stop' = BeOffset \/ units = 0
        BY <4>2 DEF ModifyStop, Answered
      <4>4. /\ ok => order'.sl = BeOffset
            /\ ~ok => ~order'.breakEvenSet
        BY <3>1, <4>1, <4>2, AfterBreakEvenFields
      <4>5. units' = units /\ BeOffset >= BeOffset
        BY <2>2 DEF UpdatePrice
      <4>6. CASE ok
        <5>1. order'.breakEvenSet => /\ order'.sl >= BeOffset
                                     /\ units' > 0 => stop' >= BeOffset
          BY <4>3, <4>4, <4>5, <4>6
        <5>2. disk'.breakEvenSet => disk'.sl >= BeOffset /\ order'.breakEvenSet
          BY <3>2, <4>1
        <5> QED
          BY <5>1, <5>2
      <4>7. CASE ~ok
        BY <3>2, <4>1, <4>4, <4>7
      <4> QED
        BY <4>6, <4>7
    <3>4. CASE ~BreakEvenDue(gain)
      <4>1. order' = ticked /\ stop' = stop
        BY <2>2, <3>4 DEF UpdatePrice
      <4>2. units' = units
        BY <2>2 DEF UpdatePrice
      <4> QED
        BY <3>1, <3>2, <4>1, <4>2
    <3> QED
      BY <3>3, <3>4
  <2>3. CASE PartialClose
    <3>1. /\ order'.breakEvenSet = order.breakEvenSet
          /\ order'.sl = order.sl
      BY <2>3, AfterPartialFields DEF PartialClose
    <3>2. units' > 0 => units > 0
      BY <2>3 DEF PartialClose, CloseUnits, Answered, TypeOK
    <3> QED
      BY <2>3, <3>1, <3>2 DEF PartialClose
  <2>4. CASE Trail
    <3>1. CASE TrailDue
      <4>1. /\ order.peak - TrailDistance > order.sl
            /\ order.peak - TrailDistance \in Int /\ order.sl \in Int
        BY <3>1 DEF TrailDue, TypeOK, ManagedOrder
      <4>2. PICK ok \in BOOLEAN : /\ ModifyStop(order.peak - TrailDistance, ok)
                                  /\ order' = AfterTrail(ok)
        BY <2>4, <3>1 DEF Trail
      <4>3. stop' = order.peak - TrailDistance \/ stop' = stop
        BY <4>2 DEF ModifyStop, Answered
      <4>4. /\ order'.breakEvenSet = order.breakEvenSet
            /\ order'.sl = order.sl \/ order'.sl = order.peak - TrailDistance
        BY <4>2, AfterTrailFields
      <4>5. disk' = disk /\ units' = units
        BY <2>4 DEF Trail
      <4> QED
        BY <4>1, <4>3, <4>4, <4>5
    <3>2. CASE ~TrailDue
      BY <2>4, <3>2 DEF Trail
    <3> QED
      BY <3>1, <3>2
  <2>5. CASE SaveState
    BY <2>5 DEF SaveState, brokerVars
  <2>6. CASE Shutdown
    BY <2>6 DEF Shutdown, brokerVars
  <2>7. CASE Crash
    BY <2>7 DEF Crash, brokerVars
  <2>8. CASE LoadState
    BY <2>8 DEF LoadState, brokerVars
  <2>9. CASE UNCHANGED vars
    BY <2>9 DEF vars, brokerVars
  <2> QED
    BY <2>1, <2>2, <2>3, <2>4, <2>5, <2>6, <2>7, <2>8, <2>9 DEF Next
<1>3. BreakEvenInv => BreakEvenKept
  BY DEF BreakEvenInv, BreakEvenKept
<1> QED
  BY TypeCorrect, <1>1, <1>2, <1>3, PTL DEF Spec

\* The broker never holds more units than the order, nor the order in memory
\* more than the saved one.
UnitsInv == units <= order.units /\ order.units <= disk.units

\* However the calls fail or lose their replies, and whatever copy of the order
\* is reloaded, the manager never believes in fewer units than are open, as long
\* as a refusal is answered as one (update_price, order.units).
THEOREM NoUnitsForgottenCorrect ==
    ASSUME "refused_unseen" \notin Faults
    PROVE  Spec => []NoUnitsForgotten
<1> USE TicksAssumption, UnitsAssumption
<1>1. Init => UnitsInv
  BY DEF Init, UnitsInv, Registered
<1>2. TypeOK /\ UnitsInv /\ [Next]_vars => UnitsInv'
  <2> SUFFICES ASSUME TypeOK, UnitsInv, [Next]_vars
               PROVE  UnitsInv'
    OBVIOUS
  <2> USE DEF UnitsInv
  <2>0. /\ units \in Nat /\ order.units \in Nat /\ disk.units \in Nat
        /\ order.units \in 0..Units
    BY DEF TypeOK, ManagedOrder
  <2>1. CASE BrokerCloses
    BY <2>0, <2>1 DEF BrokerCloses
  <2>2. ASSUME NEW gain \in Gains, UpdatePrice(gain)
        PROVE  UnitsInv'
    BY <2>2, UpdateKeepsUnits DEF UpdatePrice
  <2>3. CASE PartialClose
    <3>1. UnitsToClose(order.units) \in 0..order.units
      BY <2>0, UnitsToCloseBound
    <3>2. CASE PartialDue
      <4>1. PICK ok \in BOOLEAN : /\ CloseUnits(UnitsToClose(order.units), ok)
                                  /\ order' = AfterPartial(ok)
        BY <2>3, <3>2 DEF PartialClose
      <4>2. /\ ok => order'.units = order.units - UnitsToClose(order.units)
            /\ ~ok => order'.units = order.units
        BY <4>1, AfterPartialFields
      <4>3. /\ units' <= units
            /\ ok => units' = 0 \/ units' = units - UnitsToClose(order.units)
        BY <2>0, <3>1, <4>1 DEF CloseUnits, Answered
      <4>4. disk' = disk
        BY <2>3 DEF PartialClose
      <4>5. disk'.units = disk.units
        BY <4>4
      <4> DEFINE n == UnitsToClose(order.units)
      <4>6. n \in 0..order.units
        BY <3>1
      <4> HIDE DEF n
      <4>7. CASE ok
        <5>1. order'.units = order.units - n /\ (units' = 0 \/ units' = units - n)
          BY <4>2, <4>3, <4>7 DEF n
        <5> QED
          BY <2>0, <4>5, <4>6, <5>1
      <4>8. CASE ~ok
        <5>1. order'.units = order.units /\ units' <= units /\ units' \in Nat
          BY <2>0, <3>1, <4>1, <4>2, <4>3, <4>8 DEF CloseUnits, Answered
        <5> QED
          BY <2>0, <4>5, <5>1
      <4> QED
        BY <4>7, <4>8
    <3>3. CASE ~PartialDue
      BY <2>3, <3>3 DEF PartialClose
    <3> QED
      BY <3>2, <3>3
  <2>4. CASE Trail
    BY <2>4, TrailKeepsUnits DEF Trail
  <2>5. CASE SaveState
    BY <2>0, <2>5 DEF SaveState, brokerVars
  <2>6. CASE Shutdown
    BY <2>0, <2>6 DEF Shutdown, brokerVars
  <2>7. CASE Crash
    BY <2>7 DEF Crash, brokerVars
  <2>8. CASE LoadState
    BY <2>0, <2>8 DEF LoadState, brokerVars
  <2>9. CASE UNCHANGED vars
    BY <2>9 DEF vars, brokerVars
  <2> QED
    BY <2>1, <2>2, <2>3, <2>4, <2>5, <2>6, <2>7, <2>8, <2>9 DEF Next
<1>3. UnitsInv => NoUnitsForgotten
  BY DEF UnitsInv, NoUnitsForgotten
<1> QED
  BY TypeCorrect, <1>1, <1>2, <1>3, PTL DEF Spec

-----------------------------------------------------------------------------
(* Without a crash and with every close's reply: one partial close          *)

\* A stopped process has saved what it knows, and the flag is set no later than
\* the close it stands for.
OnceInv ==
    /\ pc = "down" => disk = order
    /\ partials = 0 \/ (partials = 1 /\ order.partialClosed)

\* What PartialClose does to the order and the broker when it is due.
LEMMA PartialDueSteps ==
    ASSUME TypeOK, PartialDue, PartialClose
    PROVE  \E ok \in BOOLEAN :
             /\ CloseUnits(UnitsToClose(order.units), ok)
             /\ ~order.partialClosed
             /\ IF ok THEN /\ order'.partialClosed
                           /\ order'.units = order.units - UnitsToClose(order.units)
                      ELSE order' = order
<1>1. PICK ok \in BOOLEAN : /\ CloseUnits(UnitsToClose(order.units), ok)
                            /\ order' = AfterPartial(ok)
  BY DEF PartialClose
<1>2. ~order.partialClosed
  BY DEF PartialDue
<1> QED
  BY <1>1, <1>2, AfterPartialFields

\* Whatever else the broker refuses, executes or claims to have executed, and
\* whenever the operator restarts the runner, a trade is partially closed at most
\* once (update_price, partial_closed).
THEOREM PartialCloseOnceCorrect ==
    ASSUME {"lost_close", "crash"} \cap Faults = {}
    PROVE  Spec => []PartialCloseOnce
<1> USE TicksAssumption, UnitsAssumption
<1>0. "lost_close" \notin Faults /\ "crash" \notin Faults
  OBVIOUS
<1>1. Init => OnceInv
  BY DEF Init, OnceInv, Registered
<1>2. TypeOK /\ OnceInv /\ [Next]_vars => OnceInv'
  <2> SUFFICES ASSUME TypeOK, OnceInv, [Next]_vars
               PROVE  OnceInv'
    OBVIOUS
  <2> USE DEF OnceInv
  <2>1. CASE BrokerCloses
    BY <2>1 DEF BrokerCloses
  <2>2. ASSUME NEW gain \in Gains, UpdatePrice(gain)
        PROVE  OnceInv'
    BY <2>2, UpdateKeepsUnits DEF UpdatePrice
  <2>3. CASE PartialClose
    <3>1. pc' = "trail"
      BY <2>3 DEF PartialClose
    <3>2. CASE PartialDue
      <4>1. PICK ok \in BOOLEAN :
              /\ CloseUnits(UnitsToClose(order.units), ok)
              /\ ~order.partialClosed
              /\ IF ok THEN /\ order'.partialClosed
                            /\ order'.units = order.units - UnitsToClose(order.units)
                       ELSE order' = order
        BY <2>3, <3>2, PartialDueSteps
      <4>2. /\ partials = 0
            /\ partials' = partials \/ (ok /\ partials' = 1)
        BY <1>0, <4>1 DEF CloseUnits, Answered
      <4> QED
        BY <3>1, <4>1, <4>2
    <3>3. CASE ~PartialDue
      BY <2>3, <3>1, <3>3 DEF PartialClose
    <3> QED
      BY <3>2, <3>3
  <2>4. CASE Trail
    BY <2>4, TrailKeepsUnits DEF Trail
  <2>5. CASE SaveState
    BY <2>5 DEF SaveState, brokerVars
  <2>6. CASE Shutdown
    BY <2>6 DEF Shutdown, brokerVars
  <2>7. CASE Crash
    BY <1>0, <2>7 DEF Crash
  <2>8. CASE LoadState
    BY <2>8 DEF LoadState, brokerVars
  <2>9. CASE UNCHANGED vars
    BY <2>9 DEF vars, brokerVars
  <2> QED
    BY <2>1, <2>2, <2>3, <2>4, <2>5, <2>6, <2>7, <2>8, <2>9 DEF Next
<1>3. OnceInv => PartialCloseOnce
  BY DEF OnceInv, PartialCloseOnce
<1> QED
  BY TypeCorrect, <1>1, <1>2, <1>3, PTL DEF Spec

\* The two sides count alike until the position is gone.
AgreeInv ==
    /\ pc = "down" => disk = order
    /\ units > 0 => units = order.units

\* When moreover a refusal is answered as one, the manager's units are the
\* broker's, whatever call fails and whenever the runner is restarted.
THEOREM UnitsAgreeCorrect ==
    ASSUME {"lost_close", "refused_unseen", "crash"} \cap Faults = {}
    PROVE  Spec => []UnitsAgree
<1> USE TicksAssumption, UnitsAssumption
<1>0. "lost_close" \notin Faults /\ "refused_unseen" \notin Faults /\ "crash" \notin Faults
  OBVIOUS
<1>1. Init => AgreeInv
  BY DEF Init, AgreeInv, Registered
<1>2. TypeOK /\ AgreeInv /\ [Next]_vars => AgreeInv'
  <2> SUFFICES ASSUME TypeOK, AgreeInv, [Next]_vars
               PROVE  AgreeInv'
    OBVIOUS
  <2> USE DEF AgreeInv
  <2>1. CASE BrokerCloses
    BY <2>1 DEF BrokerCloses
  <2>2. ASSUME NEW gain \in Gains, UpdatePrice(gain)
        PROVE  AgreeInv'
    BY <2>2, UpdateKeepsUnits DEF UpdatePrice
  <2>3. CASE PartialClose
    <3>1. pc' = "trail"
      BY <2>3 DEF PartialClose
    <3>2. CASE PartialDue
      <4> DEFINE n == UnitsToClose(order.units)
      <4>1. n \in 0..order.units /\ order.units \in 0..Units /\ units \in 0..Units
        BY UnitsToCloseBound DEF TypeOK, ManagedOrder
      <4>2. PICK ok \in BOOLEAN :
              /\ CloseUnits(n, ok)
              /\ IF ok THEN order'.units = order.units - n ELSE order' = order
        BY <2>3, <3>2, PartialDueSteps
      <4>3. units > 0 => IF ok THEN units' = (IF n < units THEN units - n ELSE 0)
                               ELSE units' = units
        BY <1>0, <4>2 DEF CloseUnits, Answered
      <4>4. units = 0 => units' = 0
        BY <4>2 DEF CloseUnits, Answered
      <4> HIDE DEF n
      <4> QED
        BY <3>1, <4>1, <4>2, <4>3, <4>4
    <3>3. CASE ~PartialDue
      BY <2>3, <3>1, <3>3 DEF PartialClose
    <3> QED
      BY <3>2, <3>3
  <2>4. CASE Trail
    BY <2>4, TrailKeepsUnits DEF Trail
  <2>5. CASE SaveState
    BY <2>5 DEF SaveState, brokerVars
  <2>6. CASE Shutdown
    BY <2>6 DEF Shutdown, brokerVars
  <2>7. CASE Crash
    BY <1>0, <2>7 DEF Crash
  <2>8. CASE LoadState
    BY <2>8 DEF LoadState, brokerVars
  <2>9. CASE UNCHANGED vars
    BY <2>9 DEF vars, brokerVars
  <2> QED
    BY <2>1, <2>2, <2>3, <2>4, <2>5, <2>6, <2>7, <2>8, <2>9 DEF Next
<1>3. AgreeInv => UnitsAgree
  BY DEF AgreeInv, UnitsAgree
<1> QED
  BY TypeCorrect, <1>1, <1>2, <1>3, PTL DEF Spec

-----------------------------------------------------------------------------
(* When every move of the stop succeeds                                     *)

\* The conditions of the default configuration: break-even is enabled, comes
\* no later than the trail and improves the stop; and no call that moves the
\* stop is refused.
StopMovesSucceed ==
    /\ Faults \subseteq {"close_fails", "lost_close", "amend_fails", "stop"}
    /\ "break_even" \in Enabled
    /\ BeTrigger <= TrailActivation /\ 0 < TrailActivation
    /\ -Risk <= BeOffset

\* The manager knows an open position's stop from break-even on; before, it is the first
\* stop or none.  Within an update whose price is past the trigger,
\* break-even has been set, so the trail only works on a stop it knows.
StopInv ==
    /\ pc = "down" => disk = order
    /\ order.breakEvenSet /\ units > 0 => stop = order.sl
    /\ ~order.breakEvenSet => order.sl = -Risk /\ stop <= -Risk
    /\ pc \in {"partial", "trail"} /\ seen >= BeTrigger => order.breakEvenSet

\* The peak is the best price once that is above the entry, and a price at or
\* above the activation leaves the stop behind it, at the latest when its
\* update ends.
ProfitInv ==
    /\ order.peak <= best /\ (best > 0 => order.peak = best)
    /\ seen <= best /\ 0 <= best
    /\ best >= TrailActivation => order.breakEvenSet
    /\ (/\ units > 0 /\ "trailing_stop" \in Enabled /\ best >= TrailActivation
        /\ ~(pc \in {"partial", "trail"} /\ seen >= TrailActivation))
       => stop >= best - TrailDistance

LEMMA UpdatePriceKeepsStop ==
    ASSUME StopMovesSucceed, TypeOK, StopInv, ProfitInv,
           NEW gain \in Gains, UpdatePrice(gain)
    PROVE  StopInv' /\ ProfitInv'
<1> USE TicksAssumption, UnitsAssumption
<1> DEFINE ticked == [order EXCEPT !.peak = PeakAt(gain)]
<1>1. /\ ticked \in ManagedOrder /\ ticked.sl = order.sl
      /\ ticked.breakEvenSet = order.breakEvenSet /\ ticked.peak = PeakAt(gain)
  BY TickedFields
<1>2. /\ gain \in Int /\ best \in Int /\ stop \in Int /\ order.peak \in Int
      /\ order.sl \in Int /\ side \in {"LONG", "SHORT"}
      /\ order.breakEvenSet \in BOOLEAN
  BY DEF TypeOK, ManagedOrder, Gains
<1>3. /\ pc = "idle" /\ pc' = "partial" /\ units > 0 /\ units' = units
      /\ seen' = gain /\ best' = IF gain > best THEN gain ELSE best
  BY DEF UpdatePrice
<1>4. \/ /\ BreakEvenDue(gain) /\ stop' = BeOffset
         /\ order' = AfterBreakEven(ticked, TRUE)
      \/ ~BreakEvenDue(gain) /\ order' = ticked /\ stop' = stop
  <2>1. CASE BreakEvenDue(gain)
    <3>1. PICK ok \in BOOLEAN : /\ ModifyStop(BeOffset, ok)
                                /\ order' = AfterBreakEven(ticked, ok)
      BY <2>1 DEF UpdatePrice
    <3>2. ok = TRUE /\ stop' = BeOffset
      BY <1>3, <3>1 DEF ModifyStop, Answered, StopMovesSucceed
    <3> HIDE DEF ticked
    <3> QED
      BY <2>1, <3>1, <3>2
  <2>2. CASE ~BreakEvenDue(gain)
    BY <2>2 DEF UpdatePrice
  <2> QED
    BY <2>1, <2>2
<1> HIDE DEF ticked
<1>5. order'.peak = PeakAt(gain)
  BY <1>1, <1>4, AfterBreakEvenFields
<1>6. \/ /\ ~order.breakEvenSet /\ gain >= BeTrigger /\ stop' = BeOffset
         /\ order'.sl = BeOffset /\ order'.breakEvenSet
      \/ /\ order.breakEvenSet \/ ~(gain >= BeTrigger)
         /\ order'.sl = order.sl /\ order'.breakEvenSet = order.breakEvenSet
         /\ stop' = stop
  <2>1. CASE BreakEvenDue(gain)
    <3>1. order'.sl = BeOffset /\ order'.breakEvenSet /\ stop' = BeOffset
      BY <1>1, <1>4, <2>1, AfterBreakEvenFields
    <3> QED
      BY <2>1, <3>1 DEF BreakEvenDue
  <2>2. CASE ~BreakEvenDue(gain)
    BY <1>1, <1>4, <2>2 DEF BreakEvenDue, StopMovesSucceed
  <2> QED
    BY <2>1, <2>2
<1>7. StopInv'
  BY <1>2, <1>3, <1>6 DEF StopInv
<1>8. /\ order'.peak <= best' /\ (best' > 0 => order'.peak = best')
      /\ seen' <= best' /\ 0 <= best'
  BY <1>2, <1>3, <1>5 DEF ProfitInv, PeakAt
<1>9. best' >= TrailActivation => order'.breakEvenSet
  BY <1>2, <1>3, <1>6 DEF ProfitInv, StopMovesSucceed
<1>10. ASSUME "trailing_stop" \in Enabled, best' >= TrailActivation,
              ~(seen' >= TrailActivation)
       PROVE  stop' >= best' - TrailDistance
  <2>1. best' = best /\ best >= TrailActivation
    BY <1>2, <1>3, <1>10
  <2>2. stop' = stop
    BY <1>6, <2>1 DEF ProfitInv
  <2> QED
    BY <1>3, <1>10, <2>1, <2>2 DEF ProfitInv
<1> QED
  BY <1>3, <1>7, <1>8, <1>9, <1>10 DEF ProfitInv

LEMMA PartialCloseKeepsStop ==
    ASSUME StopMovesSucceed, TypeOK, StopInv, ProfitInv, PartialClose
    PROVE  StopInv' /\ ProfitInv'
<1> USE TicksAssumption, UnitsAssumption
<1>1. /\ order'.sl = order.sl /\ order'.peak = order.peak
      /\ order'.breakEvenSet = order.breakEvenSet
  BY AfterPartialFields DEF PartialClose
<1>2. /\ pc = "partial" /\ pc' = "trail"
      /\ UNCHANGED <<side, seen, best, stop, disk>>
  BY DEF PartialClose
<1>3. units' > 0 => units > 0
  BY DEF PartialClose, CloseUnits, Answered, TypeOK
<1> QED
  BY <1>1, <1>2, <1>3 DEF StopInv, ProfitInv

LEMMA TrailKeepsStop ==
    ASSUME StopMovesSucceed, TypeOK, StopInv, ProfitInv, Trail
    PROVE  StopInv' /\ ProfitInv'
<1> USE TicksAssumption, UnitsAssumption
<1> DEFINE target == order.peak - TrailDistance
<1>1. /\ seen \in Int /\ best \in Int /\ stop \in Int /\ order.peak \in Int
      /\ order.sl \in Int /\ target \in Int /\ order.breakEvenSet \in BOOLEAN
  BY DEF TypeOK, ManagedOrder, Gains
<1>2. /\ pc = "trail" /\ pc' = "idle" /\ seen' = 0
      /\ UNCHANGED <<side, best, units, partials, disk>>
  BY DEF Trail
<1>3. TrailDue => order.breakEvenSet /\ (units > 0 => stop = order.sl)
  BY <1>1, <1>2 DEF TrailDue, StopInv, StopMovesSucceed
<1>4. \/ TrailDue /\ units > 0 /\ stop' = target /\ order' = AfterTrail(TRUE)
      \/ /\ TrailDue /\ units = 0 /\ stop' = stop
         /\ \E ok \in BOOLEAN : order' = AfterTrail(ok)
      \/ ~TrailDue /\ stop' = stop /\ order' = order
  BY DEF Trail, ModifyStop, Answered, StopMovesSucceed, TypeOK
<1>5. /\ order'.peak = order.peak /\ order'.breakEvenSet = order.breakEvenSet
      /\ \/ TrailDue /\ units > 0 /\ stop' = target /\ order'.sl = target
         \/ TrailDue /\ units = 0 /\ stop' = stop
         \/ ~TrailDue /\ stop' = stop /\ order'.sl = order.sl
  BY <1>4, AfterTrailFields
<1>6. StopInv'
  BY <1>1, <1>2, <1>3, <1>5 DEF StopInv
<1>7. ASSUME units > 0, "trailing_stop" \in Enabled, best >= TrailActivation
      PROVE  stop' >= best - TrailDistance
  <2>1. best > 0 /\ order.peak = best /\ order.breakEvenSet /\ stop = order.sl
    BY <1>1, <1>7 DEF ProfitInv, StopInv, StopMovesSucceed
  <2>2. CASE TrailDue
    BY <1>1, <1>5, <1>7, <2>1, <2>2
  <2>3. CASE ~TrailDue /\ seen >= TrailActivation
    BY <1>1, <1>5, <1>7, <2>1, <2>3 DEF TrailDue
  <2>4. CASE ~TrailDue /\ ~(seen >= TrailActivation)
    BY <1>5, <1>7, <2>4 DEF ProfitInv
  <2> QED
    BY <2>2, <2>3, <2>4
<1>8. 0 <= best
  BY <1>1, <1>2 DEF ProfitInv
<1> QED
  BY <1>1, <1>2, <1>5, <1>6, <1>7, <1>8 DEF ProfitInv

LEMMA StopInvInvariant ==
    ASSUME StopMovesSucceed
    PROVE  Spec => [](StopInv /\ ProfitInv)
<1> USE TicksAssumption, UnitsAssumption
<1>1. Init => StopInv /\ ProfitInv
  BY DEF Init, StopInv, ProfitInv, Registered, NoStop, StopMovesSucceed
<1>2. TypeOK /\ StopInv /\ ProfitInv /\ [Next]_vars => StopInv' /\ ProfitInv'
  <2> SUFFICES ASSUME TypeOK, StopInv, ProfitInv, [Next]_vars
               PROVE  StopInv' /\ ProfitInv'
    OBVIOUS
  <2>1. CASE BrokerCloses
    BY <2>1 DEF BrokerCloses, StopInv, ProfitInv, TypeOK
  <2>2. ASSUME NEW gain \in Gains, UpdatePrice(gain)
        PROVE  StopInv' /\ ProfitInv'
    BY <2>2, UpdatePriceKeepsStop
  <2>3. CASE PartialClose
    BY <2>3, PartialCloseKeepsStop
  <2>4. CASE Trail
    BY <2>4, TrailKeepsStop
  <2>5. CASE SaveState
    BY <2>5 DEF SaveState, brokerVars, StopInv, ProfitInv
  <2>6. CASE Shutdown
    BY <2>6 DEF Shutdown, brokerVars, StopInv, ProfitInv
  <2>7. CASE Crash
    BY <2>7 DEF Crash, StopMovesSucceed
  <2>8. CASE LoadState
    BY <2>8 DEF LoadState, brokerVars, StopInv, ProfitInv
  <2>9. CASE UNCHANGED vars
    BY <2>9 DEF vars, brokerVars, StopInv, ProfitInv
  <2> QED
    BY <2>1, <2>2, <2>3, <2>4, <2>5, <2>6, <2>7, <2>8, <2>9 DEF Next
<1> QED
  BY TypeCorrect, <1>1, <1>2, PTL DEF Spec

\* The stop the broker holds only ever moves in the trade's favour.
THEOREM StopNeverLoosensCorrect ==
    ASSUME StopMovesSucceed
    PROVE  Spec => StopNeverLoosens
<1> USE TicksAssumption, UnitsAssumption
<1>1. TypeOK /\ StopInv /\ [Next]_vars => [stop' >= stop]_vars
  <2> SUFFICES ASSUME TypeOK, StopInv, [Next]_vars
               PROVE  stop' >= stop \/ UNCHANGED vars
    OBVIOUS
  <2>0. stop \in Int
    BY DEF TypeOK
  <2>1. CASE UNCHANGED <<units, stop, partials>> \/ UNCHANGED stop
    BY <2>0, <2>1
  <2>2. ASSUME NEW gain \in Gains, UpdatePrice(gain)
        PROVE  stop' >= stop
    <3>1. stop' = stop \/ (BreakEvenDue(gain) /\ stop' = BeOffset)
      BY <2>2 DEF UpdatePrice, ModifyStop, Answered
    <3> QED
      BY <2>0, <3>1 DEF BreakEvenDue, StopInv, StopMovesSucceed
  <2>3. CASE Trail
    <3>1. \/ stop' = stop
          \/ TrailDue /\ units > 0 /\ stop' = order.peak - TrailDistance
      BY <2>3 DEF Trail, ModifyStop, Answered
    <3>2. TrailDue => seen >= TrailActivation /\ pc = "trail"
      BY <2>3 DEF TrailDue, Trail
    <3>3. seen \in Int
      BY DEF TypeOK, Gains
    <3>4. TrailDue /\ units > 0 => stop = order.sl
      BY <3>2, <3>3 DEF StopInv, StopMovesSucceed
    <3> QED
      BY <2>0, <3>1, <3>4 DEF TrailDue, TypeOK, ManagedOrder
  <2> QED
    BY <2>0, <2>1, <2>2, <2>3
    DEF Next, vars, brokerVars, BrokerCloses, PartialClose, SaveState, Shutdown,
        Crash, LoadState
<1> QED
  BY TypeCorrect, StopInvInvariant, <1>1, PTL DEF Spec, StopNeverLoosens

\* Once the best price has activated the trail, an open position keeps that
\* price less the trail distance, between any two updates.
THEOREM LockedProfitCorrect ==
    ASSUME StopMovesSucceed
    PROVE  Spec => []LockedProfit
<1>1. ProfitInv => LockedProfit
  BY DEF ProfitInv, LockedProfit
<1> QED
  BY StopInvInvariant, <1>1, PTL
=============================================================================
