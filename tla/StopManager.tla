---------------------------- MODULE StopManager ----------------------------
(***************************************************************************)
(* The life of one managed order of QuantBuild's OrderManager              *)
(* (quantbuild/src/quantbuild/execution/order_manager.py): break-even,     *)
(* partial close and trailing stop, each a call to the broker that may     *)
(* fail, and the copy of the order in state.json, written only when some   *)
(* trade is registered or unregistered and when the runner stops.          *)
(*                                                                         *)
(* Prices are gains: ticks in the favourable direction since the entry, so *)
(* LONG and SHORT differ only in how the peak is kept.  The stop is a gain *)
(* too; the broker closes the position when the gain falls to it.          *)
(***************************************************************************)
EXTENDS Integers

CONSTANTS
    Risk,             \* |entry - original_sl| in ticks: one R
    BeTrigger,        \* break_even.trigger_r, in ticks
    BeOffset,         \* break_even.offset_pips, in ticks
    PartialTrigger,   \* partial_close.trigger_r, in ticks
    ClosePct,         \* partial_close.close_pct
    TrailActivation,  \* trailing_stop.activation_r, in ticks
    TrailDistance,    \* trailing_stop.trail_distance_r, in ticks
    Enabled,          \* which of the three mechanisms are enabled
    Units,            \* units of the trade when it is registered
    MaxLoss, MaxGain, \* bounds of the gains the market visits
    Faults

Mechanisms == {"break_even", "partial_close", "trailing_stop"}

\* modify_fails, close_fails: the call returns False and nothing happened;
\* lost_modify, lost_close: it returns False, a timeout, though it was executed;
\* refused_unseen: the server refuses and the call returns True, as the client
\* looks at no answer;
\* amend_fails: the stop was never attached when the order was submitted;
\* stop: the operator stops the runner; crash: the process dies.
FaultNames == {"modify_fails", "close_fails", "lost_modify", "lost_close",
               "refused_unseen", "amend_fails", "stop", "crash"}

ASSUME TicksAssumption ==
    /\ Risk \in Nat \ {0} /\ BeTrigger \in Int /\ BeOffset \in Int
    /\ PartialTrigger \in Int /\ TrailActivation \in Int /\ TrailDistance \in Int
    /\ MaxLoss \in Nat /\ MaxGain \in Nat /\ Risk <= MaxLoss
ASSUME UnitsAssumption == Units \in Nat \ {0} /\ ClosePct \in 0..100
ASSUME SwitchAssumption == Enabled \subseteq Mechanisms /\ Faults \subseteq FaultNames

VARIABLES
    side,        \* "LONG" or "SHORT"
    seen,        \* the gain the update in progress works with, 0 between updates
    best,        \* history: the best gain an update has seen
    units,       \* units open at the broker, 0 once the position is closed
    stop,        \* the stop the broker holds
    partials,    \* history: partial closes the broker executed, capped at 2
    pc,          \* "down", "idle" or the mechanism that comes next
    order,       \* the ManagedOrder in memory
    disk         \* the ManagedOrder in state.json

brokerVars == <<units, stop, partials>>
vars == <<side, seen, best, brokerVars, pc, order, disk>>

Gains == (-MaxLoss)..MaxGain

\* A stop the market cannot reach: the broker holds none.
NoStop == -(MaxLoss + 1)

\* (A mutant: the percentage taken for a fraction.)
UnitsToCloseUnscaled(u) == u * ClosePct

\* Python's round(u * ClosePct / 100): ties go to the even number.
UnitsToClose(u) ==
    LET q == (u * ClosePct) \div 100
        r == (u * ClosePct) % 100
    IN  IF r > 50 \/ (r = 50 /\ q % 2 = 1) THEN q + 1 ELSE q

ManagedOrder == [units : 0..Units, sl : Int, peak : Int, breakEvenSet : BOOLEAN,
                 partialClosed : BOOLEAN, trailingActive : BOOLEAN]

Registered == [units |-> Units, sl |-> -Risk, peak |-> 0, breakEvenSet |-> FALSE,
               partialClosed |-> FALSE, trailingActive |-> FALSE]

TypeOK ==
    /\ side \in {"LONG", "SHORT"}
    /\ seen \in Gains /\ best \in Int
    /\ units \in 0..Units /\ stop \in Int /\ partials \in 0..2
    /\ pc \in {"down", "idle", "partial", "trail"}
    /\ order \in ManagedOrder /\ disk \in ManagedOrder

\* The trade has just been registered, which saved it.
Init ==
    /\ side \in {"LONG", "SHORT"}
    /\ seen = 0 /\ best = 0
    /\ units = Units /\ partials = 0
    /\ stop \in {-Risk} \cup IF "amend_fails" \in Faults THEN {NoStop} ELSE {}
    /\ pc = "idle"
    /\ order = Registered /\ disk = Registered

-----------------------------------------------------------------------------
(* The broker *)

\* Stopped out, or closed by its target or by hand.
BrokerCloses ==
    /\ units > 0
    /\ units' = 0
    /\ UNCHANGED <<side, seen, best, stop, partials, pc, order, disk>>

\* A call that the broker executed or not, and what the client answers.  A
\* position that is gone is not touched, and the answer then means nothing.
Answered(done, ok, fails, lost) ==
    /\ done => units > 0 /\ (ok \/ lost \in Faults)
    /\ ~done => \/ units = 0
                \/ ok /\ "refused_unseen" \in Faults
                \/ ~ok /\ fails \in Faults

\* modify_trade, with what it returns.
ModifyStop(newStop, ok) == \E done \in BOOLEAN :
    /\ Answered(done, ok, "modify_fails", "lost_modify")
    /\ stop' = IF done THEN newStop ELSE stop

\* close_trade with a number of units, with what it returns.
CloseUnits(n, ok) == \E done \in BOOLEAN :
    /\ Answered(done, ok, "close_fails", "lost_close")
    /\ units' = IF ~done THEN units ELSE IF n < units THEN units - n ELSE 0
    /\ partials' = IF done /\ partials < 2 THEN partials + 1 ELSE partials

-----------------------------------------------------------------------------
(* OrderManager.update_price, one step per call to the broker *)

PeakAt(gain) == IF gain > order.peak \/ (side = "SHORT" /\ order.peak = 0)
                  THEN gain ELSE order.peak

\* (A mutant: break-even repeated on every tick.)
BreakEvenDueAgain(gain) == "break_even" \in Enabled /\ gain >= BeTrigger

BreakEvenDue(gain) ==
    "break_even" \in Enabled /\ ~order.breakEvenSet /\ gain >= BeTrigger

\* (A mutant: the flag is set though the broker refused.)
AfterBreakEvenUnchecked(o, ok) ==
    [o EXCEPT !.sl = IF ok THEN BeOffset ELSE @, !.breakEvenSet = TRUE]

AfterBreakEven(o, ok) ==
    IF ok THEN [o EXCEPT !.sl = BeOffset, !.breakEvenSet = TRUE] ELSE o

\* The price of a broker trade that was open in the snapshot, wherever the
\* market went since the last one: the peak, then break-even, which does not
\* look at the stop it replaces.
UpdatePrice(gain) ==
    /\ pc = "idle"
    /\ units > 0
    /\ seen' = gain
    /\ best' = IF gain > best THEN gain ELSE best
    /\ LET ticked == [order EXCEPT !.peak = PeakAt(gain)] IN
       \/ /\ BreakEvenDue(gain)
          /\ \E ok \in BOOLEAN : /\ ModifyStop(BeOffset, ok)
                                /\ order' = AfterBreakEven(ticked, ok)
       \/ ~BreakEvenDue(gain) /\ order' = ticked /\ stop' = stop
    /\ pc' = "partial"
    /\ UNCHANGED <<side, units, partials, disk>>

\* (A mutant: the flag is not looked at.)
PartialDueAgain ==
    /\ "partial_close" \in Enabled /\ seen >= PartialTrigger
    /\ UnitsToClose(order.units) > 0

PartialDue ==
    /\ "partial_close" \in Enabled /\ ~order.partialClosed /\ seen >= PartialTrigger
    /\ UnitsToClose(order.units) > 0

\* (A mutant: the units are not reduced.)
AfterPartialKeepsUnits(ok) == IF ok THEN [order EXCEPT !.partialClosed = TRUE] ELSE order

\* (A mutant: the units are reduced though the broker refused.)
AfterPartialUnchecked(ok) ==
    [order EXCEPT !.partialClosed = ok, !.units = @ - UnitsToClose(@)]

AfterPartial(ok) ==
    IF ok THEN [order EXCEPT !.partialClosed = TRUE, !.units = @ - UnitsToClose(@)]
          ELSE order

PartialClose ==
    /\ pc = "partial"
    /\ \/ /\ PartialDue
          /\ \E ok \in BOOLEAN : /\ CloseUnits(UnitsToClose(order.units), ok)
                                /\ order' = AfterPartial(ok)
       \/ ~PartialDue /\ UNCHANGED <<units, partials, order>>
    /\ pc' = "trail"
    /\ UNCHANGED <<side, seen, best, stop, disk>>

\* (A mutant: activated only beyond the threshold.)
TrailDueLate ==
    /\ "trailing_stop" \in Enabled /\ seen > TrailActivation
    /\ order.peak - TrailDistance > order.sl

TrailDue ==
    /\ "trailing_stop" \in Enabled /\ seen >= TrailActivation
    /\ order.peak - TrailDistance > order.sl

AfterTrail(ok) ==
    IF ok THEN [order EXCEPT !.sl = order.peak - TrailDistance, !.trailingActive = TRUE]
          ELSE order

Trail ==
    /\ pc = "trail"
    /\ \/ /\ TrailDue
          /\ \E ok \in BOOLEAN : /\ ModifyStop(order.peak - TrailDistance, ok)
                                /\ order' = AfterTrail(ok)
       \/ ~TrailDue /\ UNCHANGED <<stop, order>>
    /\ seen' = 0
    /\ pc' = "idle"
    /\ UNCHANGED <<side, best, units, partials, disk>>

-----------------------------------------------------------------------------
(* save_state and load_state *)

\* Another trade is registered or unregistered: every order is saved.
SaveState ==
    /\ pc = "idle"
    /\ disk' = order
    /\ UNCHANGED <<side, seen, best, brokerVars, pc, order>>

Shutdown ==
    /\ "stop" \in Faults
    /\ pc = "idle"
    /\ disk' = order
    /\ pc' = "down"
    /\ UNCHANGED <<side, seen, best, brokerVars, order>>

Crash ==
    /\ "crash" \in Faults
    /\ pc # "down"
    /\ seen' = 0
    /\ pc' = "down"
    /\ UNCHANGED <<side, best, brokerVars, order, disk>>

\* load_state: whatever the order was in memory, it is now what was saved.
LoadState ==
    /\ pc = "down"
    /\ order' = disk
    /\ pc' = "idle"
    /\ UNCHANGED <<side, seen, best, brokerVars, disk>>

-----------------------------------------------------------------------------
Next ==
    \/ BrokerCloses
    \/ (\E gain \in Gains : UpdatePrice(gain)) \/ PartialClose \/ Trail
    \/ SaveState \/ Shutdown \/ Crash \/ LoadState

Spec == Init /\ [][Next]_vars

-----------------------------------------------------------------------------
(* Properties.  Each names the faults it tolerates; the runs choose them.   *)

\* The broker's stop is only ever moved in the trade's favour.  Break-even
\* sets its stop without looking at the one in force, so this rests on
\* break-even coming first and succeeding.  Tolerates close_fails,
\* lost_close, amend_fails and stop.
StopNeverLoosens == [][stop' >= stop]_vars

\* At most one partial close per trade: the flag that forbids the second is set
\* with the answer to the first.  Tolerates all but lost_close and crash.
PartialCloseOnce == partials <= 1

\* Between updates the manager and the broker agree on the open units.
\* Tolerates all but lost_close, refused_unseen and crash.
UnitsAgree == pc = "idle" /\ units > 0 => units = order.units

\* The manager, and whatever copy it reloads, never believes in fewer units than
\* are open: no part of the position is left unmanaged.  Tolerates all but
\* refused_unseen.
NoUnitsForgotten == units <= order.units

\* Once break-even is noted as set, the open position cannot lose any more,
\* whatever else fails and whatever state is reloaded.  Tolerates all but
\* refused_unseen.
BreakEvenKept == pc # "down" /\ units > 0 /\ order.breakEvenSet => stop >= BeOffset

\* Once the best price seen has activated the trail, the open position keeps that
\* price less the trail distance.  Tolerates close_fails, lost_close,
\* amend_fails and stop.
LockedProfit ==
    pc = "idle" /\ units > 0 /\ "trailing_stop" \in Enabled /\ best >= TrailActivation
        => stop >= best - TrailDistance
=============================================================================
