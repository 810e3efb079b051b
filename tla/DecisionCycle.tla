--------------------------- MODULE DecisionCycle ---------------------------
(***************************************************************************)
(* The decisions of QuantBuild's live runner and the journal it keeps of   *)
(* them: one poll of _check_signals (or, with research_raw_first, of       *)
(* _check_signals_research_raw_first), the cascade of guards a signal goes *)
(* through in _evaluate_and_execute, and the QuantLog events every branch  *)
(* emits (quantbuild/src/quantbuild/execution/live_runner.py).             *)
(*                                                                         *)
(* A handler decides first and emits after: what it still has to do is its *)
(* agenda, and each event written is a step, because emit raises when the  *)
(* lock of the file cannot be had (which ends the runner) and the process  *)
(* may die between two events.  Which guard fires is the environment's     *)
(* choice where the guard reads the market, the news or the clock, and     *)
(* follows from the state where it reads the runner's own books.  How the  *)
(* books are kept is module LiveRunner; what QuantLog says of the journal  *)
(* is module QuantLogValidator.                                            *)
(***************************************************************************)
EXTENDS QuantLogValidator, SequencesExt

CONSTANTS
    Settings,    \* the settings considered, a subset of SettingNames
    Alone,       \* bound: directions of a signal that is the only one of its bar
    MaxOpen,     \* execution_guards.max_open_positions
    MaxPolls,    \* bound: polls of a behaviour
    MaxPollsElse, \* bound: the same, with any setting turned on
    MaxStarts,   \* bound: processes of a behaviour
    FaultRows    \* bound: listings and exits fail only while there are fewer rows

\* research: research_raw_first is on, signals are detected before the regime
\* and session gates; both_sides: strategy.require_structure is off, so that
\* a bar can signal both directions.
SettingNames == {"research", "both_sides"}

Directions == {"LONG", "SHORT"}

ASSUME DecisionAssumption ==
    /\ Alone \subseteq Directions
    /\ Settings \subseteq SUBSET SettingNames
    /\ MaxOpen \in Nat \ {0}
    /\ MaxPolls \in Nat
    /\ MaxPollsElse \in Nat
    /\ MaxStarts \in Nat
    /\ FaultRows \in Nat

\* What is absent is neither a number, nor the id of a signal or a trade, nor
\* the trace of a close.
ASSUME NoIdAssumption ==
    NoId \notin Nat \cup (Nat \X (Directions \cup {"cycle", "synthetic", "stale"}))
                   \cup (Nat \X Directions \X {"close"} \X Nat)

VARIABLES
    setting,   \* what the configuration file turns on; never changes
    pc,        \* "down", or the next handler of the loop: "sync", "signals", "stale", "monitor"
    agenda,    \* what the running handler still has to do, in order
    process,   \* number of processes so far; run and session ids are fresh for each
    sourceSeq, \* source_seq of the emitter
    polls,     \* polls so far; the number is also the decision_cycle_id
    barDone,   \* _last_bar_ts is the latest bar
    staleWarned, \* _stale_bar_warn_latched
    open,      \* trades open at the broker
    tracked,   \* trades of the position monitor
    invalid,   \* those of them whose thesis is not valid
    meta,      \* _open_trade_quantlog: the trades it holds the trace and cycle of
    journal    \* the rows written

loopVars == <<setting, pc, agenda, process, sourceSeq, polls, barDone, staleWarned>>
bookVars == <<open, tracked, invalid, meta>>
vars == <<loopVars, bookVars, journal>>

\* signals_to_check: LONG comes first; both only without the structure filter.
Signals == {<<>>} \cup {<<d>> : d \in Alone}
            \cup IF "both_sides" \in setting THEN {<<"LONG", "SHORT">>} ELSE {}

\* What belongs to direction d of poll n: its trace, its signal, its trade.
Of(n, d) == <<n, d>>
CycleTrace(n) == Of(n, "cycle")
\* A new one each time: the number of rows tells two closes of a trade apart.
CloseTrace(trade) == <<trade[1], trade[2], "close", Len(journal)>>

\* canonical_no_action_reason: internal codes to the codes QuantLog allows.
Canonical ==
    [regime_block |-> "regime_blocked", outside_killzone |-> "session_blocked",
     time_filter_block |-> "session_blocked", position_limit_block |-> "position_limit_reached",
     daily_loss_block |-> "risk_blocked", bars_missing |-> "market_data_unavailable",
     same_bar_already_processed |-> "cooldown_active", no_entry_signal |-> "no_setup",
     news_block |-> "news_filter_active", llm_advice_block |-> "confidence_too_low",
     spread_block |-> "spread_too_high", price_unavailable |-> "broker_unavailable",
     atr_unavailable |-> "market_data_unavailable", risk_block |-> "risk_blocked",
     execution_exception |-> "broker_unavailable", execution_reject |-> "broker_unavailable",
     slippage_block |-> "risk_blocked"]
CanonicalNoActionReason(reason) ==
    IF reason \in DOMAIN Canonical THEN Canonical[reason] ELSE "risk_blocked"

-----------------------------------------------------------------------------
(* The events, as the emitters build them; run, session and number are put *)
(* on by the emitter when the row is written.                               *)

Event(type, trace, cycle) ==
    [source |-> "quantbuild", type |-> type, trace |-> trace, cycle |-> cycle,
     signal |-> NoId, trade |-> NoId, orderRef |-> NoId, decision |-> "none", reason |-> "none",
     run |-> NoId, session |-> NoId, seq |-> 0]

SignalDetected(trace, cycle, signal) ==
    [Event("signal_detected", trace, cycle) EXCEPT !.signal = signal]
\* The anchor of a poll that has no signal of its own.
PipelineGateSignalDetected(n) == SignalDetected(CycleTrace(n), n, Of(n, "synthetic"))
SignalEvaluated(trace, cycle) == Event("signal_evaluated", trace, cycle)
GuardDecision(trace, cycle, reason) ==
    [Event("risk_guard_decision", trace, cycle)
        EXCEPT !.decision = "BLOCK", !.reason = CanonicalNoActionReason(reason)]
NoAction(trace, cycle, reason) ==
    [Event("trade_action", trace, cycle)
        EXCEPT !.decision = "NO_ACTION", !.reason = CanonicalNoActionReason(reason)]
EnterAction(trace, cycle, trade) ==
    [Event("trade_action", trace, cycle) EXCEPT !.decision = "ENTER", !.trade = trade]
\* Without a decision_cycle_id: it is not an event of the chain.
SignalFiltered(trace, signal, reason) ==
    [Event("signal_filtered", trace, NoId)
        EXCEPT !.signal = signal, !.reason = CanonicalNoActionReason(reason)]
TradeExecuted(trace, cycle, signal, trade) ==
    [Event("trade_executed", trace, cycle)
        EXCEPT !.signal = signal, !.trade = trade, !.orderRef = trade]
\* Trace and cycle of the entry when the process still has them, else a new
\* trace and no cycle.
TradeClosed(trade, known) ==
    [Event("trade_closed",
           IF known THEN trade ELSE CloseTrace(trade),
           IF known THEN trade[1] ELSE NoId)
        EXCEPT !.trade = trade, !.orderRef = trade]

\* Of no cycle and under a trace of its own.
MarketDataStaleWarning(n) == Event("market_data_stale_warning", Of(n, "stale"), NoId)

Emit(event) == [do |-> "emit", event |-> event]
Execute(d) == [do |-> "execute", dir |-> d]

-----------------------------------------------------------------------------

ResearchRawFirst == "research" \in setting

Init ==
    /\ setting \in Settings
    /\ pc = "down"
    /\ agenda = <<>>
    /\ process = 0
    /\ sourceSeq = 0
    /\ polls = 0
    /\ barDone = FALSE
    /\ staleWarned = FALSE
    /\ open = {}
    /\ tracked = {}
    /\ invalid = {}
    /\ meta = {}
    /\ journal = <<>>

\* A process starts: nothing is known of the trades of the one before.
Start ==
    /\ pc = "down"
    /\ process < MaxStarts
    /\ pc' = "sync"
    /\ process' = process + 1
    /\ sourceSeq' = 0
    /\ barDone' = FALSE
    /\ staleWarned' = FALSE
    /\ tracked' = {}
    /\ invalid' = {}
    /\ meta' = {}
    /\ UNCHANGED <<setting, agenda, polls, open, journal>>

\* It dies, or an event cannot be written.
Crash ==
    /\ pc # "down"
    /\ pc' = "down"
    /\ agenda' = <<>>
    /\ UNCHANGED <<setting, process, sourceSeq, polls, barDone, staleWarned, bookVars, journal>>

NewBar ==
    /\ barDone
    /\ barDone' = FALSE
    /\ UNCHANGED <<setting, pc, agenda, process, sourceSeq, polls, staleWarned, bookVars,
                   journal>>

\* Stop, target or the operator.
BrokerCloses(t) ==
    /\ t \in open
    /\ open' = open \ {t}
    /\ UNCHANGED <<loopVars, tracked, invalid, meta, journal>>

\* QuantLogEmitter.emit.
WriteEvent ==
    /\ agenda # <<>>
    /\ Head(agenda).do = "emit"
    /\ sourceSeq' = sourceSeq + 1
    /\ journal' = Append(journal, [Head(agenda).event EXCEPT !.run = process, !.session = process,
                                                              !.seq = sourceSeq + 1])
    /\ agenda' = Tail(agenda)
    /\ UNCHANGED <<setting, pc, process, polls, barDone, staleWarned, bookVars>>

-----------------------------------------------------------------------------
(* The books.                                                               *)

\* Counter news makes the thesis of some positions invalid.
PollNews ==
    /\ pc = "sync"
    /\ agenda = <<>>
    /\ \E hit \in SUBSET tracked : invalid' = invalid \cup hit
    /\ UNCHANGED <<loopVars, open, tracked, meta, journal>>

\* (A mutant: what is known of a trade is gone before it is logged.)
LogClosedForgotten(gone) ==
    /\ agenda' = [i \in 1 .. Cardinality(gone) |-> Emit(TradeClosed(SetToSeq(gone)[i], FALSE))]
    /\ meta' = meta \ gone
    /\ invalid' = invalid \ gone

\* Positions leave the monitor: a trade_closed each, which uses up what is known of them.
LogClosed(gone) ==
    /\ agenda' = [i \in 1 .. Cardinality(gone) |->
                    LET t == SetToSeq(gone)[i] IN Emit(TradeClosed(t, t \in meta))]
    /\ meta' = meta \ gone
    /\ invalid' = invalid \ gone

\* Whether a request to the broker may still fail.
MayFail == Len(journal) < FaultRows

\* The monitor takes what the broker lists, which is nothing when the request fails:
\* get_open_trades answers an empty list then, and what is open counts as closed until
\* the next sync adopts it again.
SyncPositions ==
    /\ pc = "sync"
    /\ agenda = <<>>
    /\ \/ tracked' = open
       \/ tracked' = {} /\ MayFail
    /\ LogClosed(tracked \ tracked')
    /\ pc' = "signals"
    /\ UNCHANGED <<setting, process, sourceSeq, polls, barDone, staleWarned, open, journal>>

\* The broker is not connected.
SkipSync ==
    /\ pc = "sync"
    /\ agenda = <<>>
    /\ pc' = "signals"
    /\ UNCHANGED <<setting, agenda, process, sourceSeq, polls, barDone, staleWarned, bookVars,
                   journal>>

\* A position with an invalid thesis is closed and given up whatever the broker answers.
MonitorPositions(t) ==
    /\ pc = "monitor"
    /\ agenda = <<>>
    /\ t \in invalid
    /\ \/ open' = open \ {t}
       \/ open' = open /\ MayFail
    /\ tracked' = tracked \ {t}
    /\ LogClosed({t})
    /\ UNCHANGED <<setting, pc, process, sourceSeq, polls, barDone, staleWarned, journal>>

MonitorDone ==
    /\ pc = "monitor"
    /\ agenda = <<>>
    /\ invalid = {}
    /\ pc' = "sync"
    /\ UNCHANGED <<setting, agenda, process, sourceSeq, polls, barDone, staleWarned, bookVars,
                   journal>>

-----------------------------------------------------------------------------
(* A poll: the guards before a signal is looked for.                        *)

PositionOk == Cardinality(tracked \ invalid) < MaxOpen

PollBound == IF setting = {} THEN MaxPolls ELSE MaxPollsElse

Polling ==
    /\ pc = "signals"
    /\ agenda = <<>>
    /\ pc' = "stale"
    /\ polls' = polls + 1
    /\ polls < PollBound
    /\ UNCHANGED <<setting, process, sourceSeq, staleWarned, bookVars, journal>>

\* Detect, evaluate, act: what every branch of a poll without a signal emits.
GateBlocks(reason) ==
    LET n == polls + 1
    IN agenda' = << Emit(PipelineGateSignalDetected(n)),
                    Emit(SignalEvaluated(CycleTrace(n), n)),
                    Emit(NoAction(CycleTrace(n), n, reason)) >>

\* Regime, session and hour of the standard path come before the bar is read.
RegimeSkip == ~ResearchRawFirst /\ GateBlocks("regime_block") /\ UNCHANGED barDone
OutsideKillzone == ~ResearchRawFirst /\ GateBlocks("outside_killzone") /\ UNCHANGED barDone
TimeFilter == ~ResearchRawFirst /\ GateBlocks("time_filter_block") /\ UNCHANGED barDone

PositionLimit == ~PositionOk /\ GateBlocks("position_limit_block") /\ UNCHANGED barDone
DailyLoss == PositionOk /\ GateBlocks("daily_loss_block") /\ UNCHANGED barDone
BarsMissing == PositionOk /\ GateBlocks("bars_missing") /\ UNCHANGED barDone
SameBar == PositionOk /\ barDone /\ GateBlocks("same_bar_already_processed") /\ UNCHANGED barDone
NewBarRead == PositionOk /\ ~barDone /\ barDone' = TRUE
NoEntrySignal == NewBarRead /\ GateBlocks("no_entry_signal")

\* Standard path: each direction is detected, evaluated and executed in turn.
StandardSignals(dirs) ==
    LET n == polls + 1
        steps(d) == << Emit(SignalDetected(Of(n, d), n, Of(n, d))),
                       Emit(SignalEvaluated(Of(n, d), n)),
                       Execute(d) >>
    IN /\ ~ResearchRawFirst
       /\ NewBarRead
       /\ agenda' = FlattenSeq([i \in DOMAIN dirs |-> steps(dirs[i])])

\* Research path: every direction is detected before the gates it may fail.
PendingDetected(n, dirs) ==
    [i \in DOMAIN dirs |-> Emit(SignalDetected(Of(n, dirs[i]), n, Of(n, dirs[i])))]

ResearchGate(dirs, reason) ==
    LET n == polls + 1
    IN /\ ResearchRawFirst
       /\ NewBarRead
       /\ agenda' = PendingDetected(n, dirs)
                \o [i \in DOMAIN dirs |->
                        Emit(SignalFiltered(Of(n, dirs[i]), Of(n, dirs[i]), reason))]
                \o << Emit(SignalEvaluated(CycleTrace(n), n)),
                      Emit(NoAction(CycleTrace(n), n, reason)) >>

ResearchRegimeSkip(dirs) == ResearchGate(dirs, "regime_block")
ResearchOutsideKillzone(dirs) == ResearchGate(dirs, "outside_killzone")
ResearchTimeFilter(dirs) == ResearchGate(dirs, "time_filter_block")

ResearchSignals(dirs) ==
    LET n == polls + 1
        steps(d) == << Emit(SignalEvaluated(Of(n, d), n)), Execute(d) >>
    IN /\ ResearchRawFirst
       /\ NewBarRead
       /\ agenda' = PendingDetected(n, dirs)
                \o FlattenSeq([i \in DOMAIN dirs |-> steps(dirs[i])])

CheckSignals ==
    /\ Polling
    /\ \/ RegimeSkip \/ OutsideKillzone \/ TimeFilter
       \/ PositionLimit \/ DailyLoss \/ BarsMissing \/ SameBar \/ NoEntrySignal
       \/ \E dirs \in Signals \ {<<>>} :
            \/ StandardSignals(dirs)
            \/ ResearchRegimeSkip(dirs) \/ ResearchOutsideKillzone(dirs)
            \/ ResearchTimeFilter(dirs) \/ ResearchSignals(dirs)

\* Not an entry session.
SkipSignals ==
    /\ pc = "signals"
    /\ agenda = <<>>
    /\ pc' = "monitor"
    /\ UNCHANGED <<setting, agenda, process, sourceSeq, polls, barDone, staleWarned, bookVars,
                   journal>>

\* The lag of the last bar that was looked at: unknown, or long and warned of already;
\* short, which ends an episode; long, which is warned of once.
StaleWarning ==
    /\ pc = "stale"
    /\ agenda = <<>>
    /\ \/ UNCHANGED <<agenda, staleWarned>>
       \/ staleWarned' = FALSE /\ agenda' = agenda
       \/ ~staleWarned /\ staleWarned' = TRUE /\ agenda' = <<Emit(MarketDataStaleWarning(polls))>>
    /\ pc' = "monitor"
    /\ UNCHANGED <<setting, process, sourceSeq, polls, barDone, bookVars, journal>>

-----------------------------------------------------------------------------
(* The guards of one signal, _evaluate_and_execute.                         *)

Executing(d) == agenda # <<>> /\ Head(agenda) = Execute(d)

Continue(events) == agenda' = [i \in DOMAIN events |-> Emit(events[i])] \o Tail(agenda)

\* (A mutant: the action is written before the decision it follows from.)
BlockEventsActFirst(d, reason) ==
    << NoAction(Of(polls, d), polls, reason),
       GuardDecision(Of(polls, d), polls, reason),
       SignalFiltered(Of(polls, d), Of(polls, d), reason) >>

\* (A mutant: the signal is not written off.)
BlockEventsUnfiltered(d, reason) ==
    << GuardDecision(Of(polls, d), polls, reason), NoAction(Of(polls, d), polls, reason) >>

BlockEvents(d, reason) ==
    << GuardDecision(Of(polls, d), polls, reason),
       NoAction(Of(polls, d), polls, reason),
       SignalFiltered(Of(polls, d), Of(polls, d), reason) >>

Blocked(d, reason) ==
    /\ Executing(d)
    /\ Continue(BlockEvents(d, reason))
    /\ UNCHANGED <<setting, pc, process, sourceSeq, polls, barDone, staleWarned, bookVars, journal>>

NewsGate(d) == Blocked(d, "news_block")
LlmAdvice(d) == Blocked(d, "llm_advice_block")
SpreadGuard(d) == Blocked(d, "spread_block") \/ Blocked(d, "price_unavailable")
AtrGuard(d) == Blocked(d, "atr_unavailable")
PriceFeed(d) == Blocked(d, "price_unavailable")
PositionSizing(d) == Blocked(d, "risk_block")

\* (A mutant: the trade is put on the books before the broker has answered.)
ExecutionFailsOnBooks(d, reason) ==
    /\ Executing(d)
    /\ Continue(BlockEvents(d, reason))
    /\ open' = open \cup {Of(polls, d)}
    /\ tracked' = tracked \cup {Of(polls, d)}
    /\ meta' = meta \cup {Of(polls, d)}
    /\ UNCHANGED <<setting, pc, process, sourceSeq, polls, barDone, staleWarned, invalid, journal>>

\* The broker was asked: the order may be filled though the answer says not.
ExecutionFails(d, reason) ==
    /\ Executing(d)
    /\ Continue(BlockEvents(d, reason))
    /\ open' \in {open, open \cup {Of(polls, d)}}
    /\ UNCHANGED <<setting, pc, process, sourceSeq, polls, barDone, staleWarned, tracked, invalid,
                   meta, journal>>

ExecutionException(d) == ExecutionFails(d, "execution_exception")
ExecutionReject(d) == ExecutionFails(d, "execution_reject")

\* A fill too far from the price asked for is closed again, which may fail,
\* and is logged as a close without an entry.
SlippageGuard(d) ==
    /\ Executing(d)
    /\ Continue(<<[TradeClosed(Of(polls, d), TRUE) EXCEPT !.reason = "slippage_flatten"]>>
                    \o BlockEvents(d, "slippage_block"))
    /\ open' \in {open, open \cup {Of(polls, d)}}
    /\ UNCHANGED <<setting, pc, process, sourceSeq, polls, barDone, staleWarned, tracked, invalid,
                   meta, journal>>

\* (A mutant: the fill is not reported.)
EnterUnreported(d) ==
    LET t == Of(polls, d)
    IN /\ Executing(d)
       /\ Continue(<<EnterAction(t, polls, t)>>)
       /\ open' = open \cup {t}
       /\ tracked' = tracked \cup {t}
       /\ meta' = meta \cup {t}
       /\ UNCHANGED <<setting, pc, process, sourceSeq, polls, barDone, staleWarned, invalid, journal>>

Enter(d) ==
    LET t == Of(polls, d)
    IN /\ Executing(d)
       /\ Continue(<<EnterAction(t, polls, t), TradeExecuted(t, polls, t, t)>>)
       /\ open' = open \cup {t}
       /\ tracked' = tracked \cup {t}
       /\ meta' = meta \cup {t}
       /\ UNCHANGED <<setting, pc, process, sourceSeq, polls, barDone, staleWarned, invalid, journal>>

EvaluateAndExecute(d) ==
    \/ NewsGate(d) \/ LlmAdvice(d) \/ SpreadGuard(d) \/ AtrGuard(d) \/ PriceFeed(d)
    \/ PositionSizing(d) \/ ExecutionException(d) \/ ExecutionReject(d)
    \/ SlippageGuard(d) \/ Enter(d)

-----------------------------------------------------------------------------

Run ==
    \/ WriteEvent \/ PollNews \/ SyncPositions \/ SkipSync \/ CheckSignals \/ SkipSignals
    \/ StaleWarning \/ (\E t \in invalid : MonitorPositions(t)) \/ MonitorDone
    \/ \E d \in Directions : EvaluateAndExecute(d)

Next == Start \/ Crash \/ NewBar \/ (\E t \in open : BrokerCloses(t)) \/ Run

Spec == Init /\ [][Next]_vars

-----------------------------------------------------------------------------

Rows == 1 .. Len(journal)

\* The handlers of the running process have all run to their end.
Settled == pc # "down" /\ agenda = <<>>
OfThisProcess(i) == journal[i].session = process

\* QuantLog accepts the chain of every decision cycle: one trade_action, the
\* ranks in order, one run, session and trace.  A cycle the process did not
\* survive may lack its trade_action and nothing else.  Of the standard path
\* with one direction at a time.
ChainsAccepted ==
    \A dc \in Cycles(journal) :
        LET issues == SequenceIssues(journal, dc)
        IN  /\ issues \subseteq {"decision_cycle_missing_trade_action"}
            /\ Settled /\ (\E i \in Rows : journal[i].cycle = dc /\ OfThisProcess(i))
                    => issues = {}
StandardChainsAccepted == setting = {} => ChainsAccepted

\* A signal that was detected is filtered or executed, once, under its own
\* trace, in every configuration and whichever guard or gate stops it.
SignalOutcomes(i) ==
    {j \in Rows : /\ journal[j].type \in {"signal_filtered", "trade_executed"}
                  /\ journal[j].signal = journal[i].signal}
EverySignalResolved ==
    Settled => \A i \in Rows :
        /\ journal[i].type = "signal_detected"
        /\ journal[i].signal[2] \in Directions
        /\ OfThisProcess(i)
        => /\ Cardinality(SignalOutcomes(i)) = 1
           /\ \A j \in SignalOutcomes(i) : journal[j].trace = journal[i].trace

\* The events of a trade keep its run, session and trace until the process that entered
\* it is gone or has logged it closed, as it does, too early, after a slippage flatten, an
\* exit that failed or a listing that failed; and a cycle that entered is linked to one
\* trade, unless both directions of a bar did.
TradeEventsCorrelate ==
    /\ \A issue \in CorrelationIssues(journal) :
          LET row == journal[issue[1]]
          IN \E j \in 1 .. issue[1] - 1 :
              /\ journal[j].trade = row.trade
              /\ journal[j].session # row.session \/ journal[j].type = "trade_closed"
    /\ "both_sides" \notin setting => LinkageIssues(journal) = {}
=============================================================================
