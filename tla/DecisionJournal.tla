-------------------------- MODULE DecisionJournal --------------------------
(***************************************************************************)
(* The journal of the live runner as its two readers see it: the runner's  *)
(* decisions (DecisionCycle) composed with QuantLog's validator and with   *)
(* QuantAnalytics' guard attribution.                                      *)
(***************************************************************************)
EXTENDS DecisionCycle, DecisionAnalytics

PollCycles == {<<"cycle", n>> : n \in 1 .. polls}

\* As long as the first process lives and a poll decides on one direction,
\* the funnel adds up: every poll is either an entry or a NO_ACTION, an entry
\* is what was executed, a block never entered, and the groups that are no
\* poll's are the filtered signals, the warnings of stale data and the closes of trades
\* it did not enter or had logged closed before.
\* A guard is reported only when it blocks: throughput.py counts no signal
\* that came through the filters, and every cycle that traded is warned about
\* and scored down as one that executed without a decision.
FunnelAddsUp ==
    Settled /\ process = 1 /\ "both_sides" \notin setting =>
        /\ EnteredCycles(journal) = ExecutedCycles(journal)
        /\ EnteredCycles(journal) \cup NoActionCycles(journal) = PollCycles
        /\ EnteredCycles(journal) \cap BlockedCycles(journal) = {}
        /\ Cardinality(CycleIds(journal) \ PollCycles)
            = Cardinality({i \in Rows : journal[i].type = "signal_filtered"})
                + Cardinality({i \in Rows : journal[i].type = "market_data_stale_warning"})
                + Cardinality({i \in Rows : /\ journal[i].type = "trade_closed"
                                            /\ journal[i].cycle = NoId})
        /\ SignalsAfterFilters(journal) = {}
        /\ \A c \in ExecutedCycles(journal) :
              /\ {"EXECUTION_WITHOUT_DECISION", "CYCLE_INCOMPLETE"} \subseteq Warnings(journal, c)
              /\ ShapePenalty(journal, c) = 3

\* The outcome guard attribution finds for a block is never that of a trade
\* somebody held: only the slippage guard's own close carries one.
BlockOutcomeIsSlippage ==
    "both_sides" \notin setting =>
        \A c \in CycleIds(journal) : CounterfactualAvailable(journal, c) =>
            \E i \in Group(journal, c) : journal[i].reason = "slippage_flatten"
=============================================================================
