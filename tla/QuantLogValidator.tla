------------------------- MODULE QuantLogValidator -------------------------
(***************************************************************************)
(* What QuantLog's validator says of a journal (quantlog/src/quantlog/     *)
(* validate/validator.py).  A journal is a sequence of rows in file order; *)
(* a row keeps the fields the cross-event checks read.  Whitespace,        *)
(* wording and the optional research fields of a payload are left out; an  *)
(* identifier that is absent, empty or of the wrong type is NoId.          *)
(*                                                                         *)
(* Rows are appended with the clock running forward and files are read in  *)
(* the order of their dates, so the order by timestamp is the order of the *)
(* rows.                                                                   *)
(***************************************************************************)
EXTENDS Integers, Sequences, FiniteSets

CONSTANT NoId

\* DECISION_CHAIN_EVENT_ORDER_RANK.
ChainRank == [signal_detected |-> 0, signal_evaluated |-> 1,
              risk_guard_decision |-> 2, trade_action |-> 3]
ChainEventTypes == DOMAIN ChainRank

\* NO_ACTION_REASONS_ALLOWED.
NoActionReasonsAllowed ==
    {"no_setup", "regime_blocked", "session_blocked", "risk_blocked", "spread_too_high",
     "news_filter_active", "position_limit_reached", "cooldown_active", "broker_unavailable",
     "market_data_unavailable", "execution_disabled", "confidence_too_low"}

IsChainRow(row) == row.source = "quantbuild" /\ row.type \in ChainEventTypes

-----------------------------------------------------------------------------
(* Checks of one line.                                                      *)

EnvelopeValid(row) ==
    /\ NoId \notin {row.run, row.session, row.trace}
    /\ IsChainRow(row) => row.cycle # NoId

PayloadValid(row) ==
    /\ row.type = "trade_action" =>
          /\ row.decision = "NO_ACTION" => row.reason \in NoActionReasonsAllowed
          /\ row.decision = "ENTER" => row.trade # NoId
    /\ row.type = "signal_filtered" => row.reason \in NoActionReasonsAllowed

Stream(row) == <<row.source, row.run, row.session>>

\* The highest number accepted so far on the stream is the highest so far.
SourceSeqNotMonotonic(rows, i) ==
    \E j \in 1 .. i - 1 : rows[i].seq <= rows[j].seq /\ Stream(rows[j]) = Stream(rows[i])

\* The lines the cross-event checks get to see.
RefRows(rows) ==
    {i \in 1 .. Len(rows) : /\ EnvelopeValid(rows[i])
                            /\ PayloadValid(rows[i])
                            /\ ~SourceSeqNotMonotonic(rows, i)}

FirstOf(S) == CHOOSE i \in S : \A j \in S : i <= j

-----------------------------------------------------------------------------
(* The checks across lines; ok is RefRows(rows).                            *)

(* The first row that carries a trade_id or an order_ref fixes what the     *)
(* later ones must carry.                                                   *)
RunSession(row) == <<row.run, row.session>>
RunSessionTrace(row) == <<row.run, row.session, row.trace>>

TradeIdCorrelationMismatch(rows, ok, i) ==
    /\ rows[i].trade # NoId
    /\ LET seen == {j \in ok : j <= i /\ rows[j].trade = rows[i].trade}
       IN RunSessionTrace(rows[i]) # RunSessionTrace(rows[FirstOf(seen)])

OrderRefRows(rows, ok, i) == {j \in ok : j <= i /\ rows[j].orderRef = rows[i].orderRef}

OrderRefRunSessionMismatch(rows, ok, i) ==
    /\ rows[i].orderRef # NoId
    /\ RunSession(rows[i]) # RunSession(rows[FirstOf(OrderRefRows(rows, ok, i))])

\* The trade of an order reference is that of the first row which has both
\* and belongs to the run and session of the reference's first row.
OrderRefTradeIdMismatch(rows, ok, i) ==
    /\ rows[i].orderRef # NoId
    /\ rows[i].trade # NoId
    /\ ~OrderRefRunSessionMismatch(rows, ok, i)
    /\ LET seen == {j \in OrderRefRows(rows, ok, i) :
                        rows[j].trade # NoId /\ ~OrderRefRunSessionMismatch(rows, ok, j)}
       IN rows[i].trade # rows[FirstOf(seen)].trade

CorrelationIssues(rows) ==
    LET ok == RefRows(rows)
    IN {<<i, "trade_id_correlation_mismatch">> : i \in
            {k \in ok : TradeIdCorrelationMismatch(rows, ok, k)}}
        \cup {<<i, "order_ref_run_session_mismatch">> : i \in
            {k \in ok : OrderRefRunSessionMismatch(rows, ok, k)}}
        \cup {<<i, "order_ref_trade_id_mismatch">> : i \in
            {k \in ok : OrderRefTradeIdMismatch(rows, ok, k)}}

(* An ENTER ties its decision cycle to a trade.                             *)
EnterRows(rows, ok, dc) ==
    {i \in ok : /\ rows[i].source = "quantbuild"
                /\ rows[i].type = "trade_action"
                /\ rows[i].decision = "ENTER"
                /\ rows[i].cycle = dc
                /\ rows[i].trade # NoId}

LinkageIssues(rows) ==
    LET ok == RefRows(rows)
        enters(i) == EnterRows(rows, ok, rows[i].cycle)
        linked == {i \in ok : rows[i].cycle # NoId /\ rows[i].trade # NoId /\ enters(i) # {}}
    IN {<<i, "decision_cycle_trade_id_linkage_mismatch">> :
            i \in {k \in linked : rows[k].trade # rows[FirstOf(enters(k))].trade}}

(* The chain of one decision cycle; anchors are its rows.                   *)
Anchors(rows, ok, dc) == {i \in ok : IsChainRow(rows[i]) /\ rows[i].cycle = dc}

Cycles(rows) == {rows[i].cycle : i \in {k \in RefRows(rows) : IsChainRow(rows[k])}}

DecisionCycleIdentityMismatch(rows, anchors) ==
    \E i \in anchors : RunSessionTrace(rows[i]) # RunSessionTrace(rows[FirstOf(anchors)])

DecisionChainOrderViolation(rows, anchors) ==
    \E i, j \in anchors : j < i /\ ChainRank[rows[i].type] < ChainRank[rows[j].type]

TradeActions(rows, anchors) == {i \in anchors : rows[i].type = "trade_action"}

\* What the check reports of one cycle, as issue codes.
SequenceIssues(rows, dc) ==
    LET anchors == Anchors(rows, RefRows(rows), dc)
        actions == Cardinality(TradeActions(rows, anchors))
    IN {code \in {"decision_cycle_identity_mismatch"} :
            DecisionCycleIdentityMismatch(rows, anchors)}
        \cup {code \in {"decision_cycle_missing_trade_action"} : actions = 0}
        \cup {code \in {"duplicate_trade_action_decision_cycle"} : actions > 1}
        \cup {code \in {"decision_chain_order_violation"} :
            DecisionChainOrderViolation(rows, anchors)}
=============================================================================
