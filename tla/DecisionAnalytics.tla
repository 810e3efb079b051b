------------------------- MODULE DecisionAnalytics -------------------------
(***************************************************************************)
(* What QuantAnalytics makes of a journal: reconstruct_decision_cycles,    *)
(* analyze_throughput, analyze_guards and score_decision_cycles            *)
(* (quantanalytics/src/quantanalytics/guard_attribution/).  Rows are those *)
(* of QuantLogValidator.  Averages and labels are left out.                *)
(***************************************************************************)
EXTENDS QuantLogValidator

\* Events are grouped by decision_cycle_id; one without it is a group of its own.
CycleId(rows, i) == 
    IF rows[i].cycle = NoId THEN <<"missing-cycle", i>> ELSE <<"cycle", rows[i].cycle>>
CycleIds(rows) == {CycleId(rows, i) : i \in 1 .. Len(rows)}
Group(rows, c) == {i \in 1 .. Len(rows) : CycleId(rows, i) = c}

\* A slot holds the last event of its type, so two of them leave one.
OfType(rows, c, type) == {i \in Group(rows, c) : rows[i].type = type}
Filled(rows, c, type) == OfType(rows, c, type) # {}
Slot(rows, c, type) ==
    rows[CHOOSE i \in OfType(rows, c, type) : \A j \in OfType(rows, c, type) : j <= i]

\* The first decision in any payload, be it a guard's or the action's.
GuardDecisionOf(rows, c) ==
    LET decided == {i \in Group(rows, c) : rows[i].decision # "none"}
    IN IF decided = {} THEN "none" ELSE rows[FirstOf(decided)].decision

ChainComplete(rows, c) == \A type \in ChainEventTypes : Filled(rows, c, type)

Warnings(rows, c) ==
    {w \in {"TRADE_ACTION_MISSING"} : ~Filled(rows, c, "trade_action")}
    \cup {w \in {"RISK_DECISION_MISSING"} : ~Filled(rows, c, "risk_guard_decision")}
    \cup {w \in {"TRADE_CLOSED_WITHOUT_EXECUTION"} :
            Filled(rows, c, "trade_closed") /\ ~Filled(rows, c, "trade_executed")}
    \cup {w \in {"EXECUTION_WITHOUT_DECISION"} :
            Filled(rows, c, "trade_executed") /\ ~Filled(rows, c, "risk_guard_decision")}
    \cup {w \in {"CYCLE_INCOMPLETE"} : ~ChainComplete(rows, c)}

-----------------------------------------------------------------------------
(* analyze_throughput.                                                      *)

Acting(rows, decisions) ==
    {c \in CycleIds(rows) :
        /\ Filled(rows, c, "trade_action")
        /\ Slot(rows, c, "trade_action").decision \in decisions}
EnteredCycles(rows) == Acting(rows, {"ENTER", "REVERSE"})
NoActionCycles(rows) == Acting(rows, {"NO_ACTION"})
ExecutedCycles(rows) == {c \in CycleIds(rows) : Filled(rows, c, "trade_executed")}
RiskDecided(rows) == {c \in CycleIds(rows) : Filled(rows, c, "risk_guard_decision")}
BlockedCycles(rows) ==
    {c \in RiskDecided(rows) : Slot(rows, c, "risk_guard_decision").decision = "BLOCK"}

RawSignalsDetected(rows) == {i \in 1 .. Len(rows) : rows[i].type = "signal_detected"}
SignalsAfterFilters(rows) == RiskDecided(rows) \ BlockedCycles(rows)

-----------------------------------------------------------------------------
(* analyze_guards: a block with an outcome counts as a counterfactual, and  *)
(* only a trade_closed carries one.                                         *)

CounterfactualAvailable(rows, c) ==
    GuardDecisionOf(rows, c) = "BLOCK" /\ Filled(rows, c, "trade_closed")

\* score_decision_cycles: what the shape of a cycle costs it.
ShapePenalty(rows, c) ==
    (IF ChainComplete(rows, c) THEN 0 ELSE 1)
        + (IF Filled(rows, c, "trade_action") THEN 0 ELSE 2)
        + (IF "EXECUTION_WITHOUT_DECISION" \in Warnings(rows, c) THEN 2 ELSE 0)
=============================================================================
