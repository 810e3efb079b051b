----------------------------- MODULE LiveRunner -----------------------------
(***************************************************************************)
(* The main loop of QuantBuild's live runner (quantbuild/src/quantbuild/   *)
(* execution/live_runner.py) in live mode, with the part of OrderManager   *)
(* and PositionMonitor it drives: which trades are open at the broker,     *)
(* which the process tracks and manages, what state.json holds, and which  *)
(* trade events the QuantLog journal received.                             *)
(*                                                                         *)
(* The loop is single threaded, so a step is a stretch of code between two *)
(* points where something else can act: the broker closing a position at   *)
(* its stop or target, a new bar, midnight, or the death of the process.   *)
(* Every call to the broker, every write of state.json and every event     *)
(* emitted is a step of its own, because a crash can fall between two of   *)
(* them.  How a stop moves while a trade is managed is module StopManager. *)
(***************************************************************************)
EXTENDS Naturals, Sequences, FiniteSets

CONSTANTS
    Trades,          \* the trade ids the broker can issue
    NoTrade,         \* "no trade in hand"
    MaxOpen,         \* execution_guards.max_open_positions
    MaxDailyLossR,   \* risk.max_daily_loss_r
    MaxBar,          \* bound: the number of 15m bars of a behaviour
    Filters,         \* the effective filters that are on
    Faults           \* the faults the environment may produce

FilterNames == {"position_limit", "cooldown", "daily_loss"}

\* sync_error: get_open_trades answers [] though positions are open;
\* close_fails: close_trade returns False and the position stays open;
\* lost_fill: an order that filled is reported as not filled;
\* order_id: a fill is answered with an order id (or none, hence "UNK_...")
\*           in place of the id of the position;
\* stop: the operator stops the runner between two iterations;
\* crash: the process dies, or an exception ends it, at any point;
\* torn_save: the process dies inside write_text and leaves state.json unreadable.
FaultNames == {"sync_error", "close_fails", "lost_fill", "order_id", "stop",
               "crash", "torn_save"}

ASSUME TradesAssumption == IsFiniteSet(Trades) /\ NoTrade \notin Trades
ASSUME LimitsAssumption == /\ MaxOpen \in Nat \ {0}
                           /\ MaxDailyLossR \in Nat \ {0}
                           /\ MaxBar \in Nat
ASSUME SwitchAssumption == Filters \subseteq FilterNames /\ Faults \subseteq FaultNames

VARIABLES
    \* the broker and the market
    open,        \* trades with an open position at the broker
    issued,      \* trade ids the broker has issued so far
    bar,         \* the latest 15m bar
    lossToday,   \* R lost today by trades that closed (capped at MaxDailyLossR)
    \* the memory of the runner process
    pc,          \* where the loop is
    tracked,     \* PositionMonitor._positions
    invalid,     \* the tracked positions whose thesis_valid is False
    managed,     \* OrderManager.managed_orders
    meta,        \* _open_trade_quantlog
    lastBar,     \* _last_bar_ts, 0 for None
    evalBar,     \* the bar whose signals are being evaluated
    todo,        \* signals_to_check still to be evaluated, in order
    drop,        \* trades a sync or a monitor pass still has to retire
    cur,         \* the trade in hand
    dailyPnlR,   \* -_daily_pnl_r
    \* what outlives the process
    saved,       \* the keys of state.json
    executedLog, \* trades with a trade_executed event
    closedLog,   \* number of trade_closed events of each trade, capped at 2
    entered      \* <<bar, direction>> pairs of the ENTER decisions

brokerVars == <<open, issued, bar, lossToday>>
bookVars == <<tracked, invalid, managed, meta>>
localVars == <<lastBar, evalBar, todo, drop, cur, dailyPnlR>>
logVars == <<executedLog, closedLog, entered>>
vars == <<brokerVars, pc, bookVars, localVars, saved, logVars>>

Directions == {"LONG", "SHORT"}
Signals == {<<>>, <<"LONG">>, <<"SHORT">>, <<"LONG", "SHORT">>}

PCs == {"down", "boot", "top", "sync", "sync_drop", "sync_emit", "signals",
        "entry", "filled", "registered", "slipped",
        "monitor", "exit", "exit_retire", "exit_emit"}

TypeOK ==
    /\ open \subseteq Trades /\ issued \subseteq Trades
    /\ bar \in 1..(MaxBar + 1) /\ lossToday \in 0..MaxDailyLossR
    /\ pc \in PCs
    /\ tracked \subseteq Trades /\ invalid \subseteq Trades
    /\ managed \subseteq Trades /\ meta \subseteq Trades
    /\ lastBar \in 0..(MaxBar + 1) /\ evalBar \in 0..(MaxBar + 1)
    /\ todo \in Signals
    /\ drop \subseteq Trades /\ cur \in Trades \cup {NoTrade}
    /\ dailyPnlR \in 0..MaxDailyLossR
    /\ saved \subseteq Trades /\ executedLog \subseteq Trades
    /\ closedLog \in [Trades -> 0..2]
    /\ entered \subseteq (1..(MaxBar + 1)) \X Directions

\* open_positions: a position whose thesis is invalid no longer counts.
OpenPositions == tracked \ invalid

\* (A mutant: the limit itself still allows another position.)
CheckPositionLimitInclusive == Cardinality(OpenPositions) <= MaxOpen

CheckPositionLimit == Cardinality(OpenPositions) < MaxOpen

CheckDailyLossLimit == dailyPnlR < MaxDailyLossR

\* The first start of the service: nothing open, no state.json.
Init ==
    /\ open = {} /\ issued = {} /\ bar = 1 /\ lossToday = 0
    /\ pc = "down"
    /\ tracked = {} /\ invalid = {} /\ managed = {} /\ meta = {}
    /\ lastBar = 0 /\ evalBar = 0 /\ todo = <<>> /\ drop = {} /\ cur = NoTrade
    /\ dailyPnlR = 0
    /\ saved = {} /\ executedLog = {} /\ closedLog = [t \in Trades |-> 0]
    /\ entered = {}

-----------------------------------------------------------------------------
(* The environment *)

\* The broker closes a position: stop loss, take profit or a manual close.
BrokerCloses(t) ==
    /\ t \in open
    /\ open' = open \ {t}
    /\ \E r \in {0, 1} : lossToday' = IF lossToday + r > MaxDailyLossR
                                        THEN MaxDailyLossR ELSE lossToday + r
    /\ UNCHANGED <<issued, bar, pc, bookVars, localVars, saved, logVars>>

NewBar ==
    /\ bar <= MaxBar
    /\ bar' = bar + 1
    /\ UNCHANGED <<open, issued, lossToday, pc, bookVars, localVars, saved, logVars>>

\* The process is gone: its memory is lost, state.json and the journal stay.
LoseMemory ==
    /\ pc' = "down"
    /\ tracked' = {} /\ invalid' = {} /\ managed' = {} /\ meta' = {}
    /\ lastBar' = 0 /\ evalBar' = 0 /\ todo' = <<>> /\ drop' = {} /\ cur' = NoTrade
    /\ dailyPnlR' = 0
    /\ UNCHANGED <<brokerVars, logVars>>

\* The next step of the process writes state.json.
AboutToSave ==
    \/ pc = "sync_drop" /\ drop \cap managed # {}
    \/ pc = "filled"
    \/ pc = "exit_retire" /\ cur \in managed

\* Dying inside save_state leaves a file load_state cannot read.
Crash ==
    /\ pc # "down"
    /\ \/ "crash" \in Faults /\ saved' = saved
       \/ "torn_save" \in Faults /\ AboutToSave /\ saved' = {}
    /\ LoseMemory

\* SIGINT ends the loop after an iteration; _shutdown saves and disconnects.
Shutdown ==
    /\ "stop" \in Faults
    /\ pc = "top"
    /\ saved' = managed
    /\ LoseMemory

-----------------------------------------------------------------------------
(* Startup: connect, bootstrap, load_state, first sync *)

\* (A mutant: state.json is not read.)
NoLoadedState == {}

\* load_state: the managed orders of the previous run.
LoadedState == saved

Start ==
    /\ pc = "down"
    /\ managed' = LoadedState
    /\ pc' = "boot"
    /\ UNCHANGED <<brokerVars, tracked, invalid, meta, localVars, saved, logVars>>

\* What get_open_trades answers.
BrokerTrades == {open} \cup IF "sync_error" \in Faults THEN {{}} ELSE {}

\* The first sync: nothing is tracked yet, so it only adopts positions.
BootSync ==
    /\ pc = "boot"
    /\ tracked' \in BrokerTrades
    /\ pc' = "top"
    /\ UNCHANGED <<brokerVars, invalid, managed, meta, localVars, saved, logVars>>

-----------------------------------------------------------------------------
(* One iteration of the loop *)

\* The top of the loop: _reset_daily_tracking when the date changed, then
\* the news poll, which may invalidate the thesis of tracked positions.
NewDay ==
    /\ pc = "top"
    /\ lossToday' = 0 /\ dailyPnlR' = 0
    /\ UNCHANGED <<open, issued, bar, pc, bookVars, lastBar, evalBar, todo, drop, cur,
                   saved, logVars>>

PollNews ==
    /\ pc = "top"
    /\ \E hit \in SUBSET tracked : invalid' = invalid \cup hit
    /\ pc' = "sync"
    /\ UNCHANGED <<brokerVars, tracked, managed, meta, localVars, saved, logVars>>

\* (A mutant: nothing is ever found missing.)
NoneMissing(snapshot) == {}

\* The tracked positions the broker no longer reports.
Missing(snapshot) == tracked \ snapshot

\* One snapshot of the broker decides what is adopted and what is dropped.
\* An adopted position is tracked, and never registered with OrderManager.
SyncPositions ==
    /\ pc = "sync"
    /\ \E snapshot \in BrokerTrades :
          /\ tracked' = tracked \cup snapshot
          /\ drop' = Missing(snapshot)
    /\ pc' = "sync_drop"
    /\ UNCHANGED <<brokerVars, invalid, managed, meta, lastBar, evalBar, todo, cur,
                   dailyPnlR, saved, logVars>>

\* (Mutants: state.json is not written; the order stays registered; the
\* position stays tracked.)
RetireUnsaved(t) ==
    /\ tracked' = tracked \ {t} /\ invalid' = invalid \ {t}
    /\ managed' = managed \ {t} /\ saved' = saved /\ cur' = t

RetireKeepsOrder(t) ==
    /\ tracked' = tracked \ {t} /\ invalid' = invalid \ {t}
    /\ cur' = t /\ UNCHANGED <<managed, saved>>

RetireKeepsPosition(t) ==
    /\ managed' = managed \ {t} /\ saved' = managed \ {t}
    /\ cur' = t /\ UNCHANGED <<tracked, invalid>>

\* remove_position and unregister_trade (which saves when it removes something).
Retire(t) ==
    /\ tracked' = tracked \ {t}
    /\ invalid' = invalid \ {t}
    /\ managed' = managed \ {t}
    /\ saved' = IF t \in managed THEN managed \ {t} ELSE saved
    /\ cur' = t

SyncDrop(t) ==
    /\ pc = "sync_drop"
    /\ t \in drop
    /\ Retire(t)
    /\ drop' = drop \ {t}
    /\ pc' = "sync_emit"
    /\ UNCHANGED <<brokerVars, meta, lastBar, evalBar, todo, dailyPnlR, logVars>>

\* (A mutant: only a trade that is still managed is reported.)
EmitTradeClosedIfManaged ==
    /\ closedLog' = [closedLog EXCEPT ![cur] = IF cur \in managed /\ @ < 2 THEN @ + 1 ELSE @]
    /\ meta' = meta \ {cur} /\ cur' = NoTrade
    /\ UNCHANGED <<executedLog, entered>>

EmitTradeClosed ==
    /\ closedLog' = [closedLog EXCEPT ![cur] = IF @ < 2 THEN @ + 1 ELSE @]
    /\ meta' = meta \ {cur}
    /\ cur' = NoTrade
    /\ UNCHANGED <<executedLog, entered>>

SyncEmit ==
    /\ pc = "sync_emit"
    /\ EmitTradeClosed
    /\ pc' = "sync_drop"
    /\ UNCHANGED <<brokerVars, tracked, invalid, managed, lastBar, evalBar, todo,
                   drop, dailyPnlR, saved>>

SyncDone ==
    /\ pc = "sync_drop"
    /\ drop = {}
    /\ pc' = "signals"
    /\ UNCHANGED <<brokerVars, bookVars, localVars, saved, logVars>>

\* Outside the entry sessions, or a gate that returns before the bar is
\* consumed: regime, session, hour, position limit, daily loss, bars, cooldown.
SkipSignals ==
    /\ pc = "signals"
    /\ pc' = "monitor"
    /\ UNCHANGED <<brokerVars, bookVars, localVars, saved, logVars>>

\* (Mutants: the bar is not consumed; the bar after it is.)
BarNotProcessed == lastBar

NextBarProcessed == bar + 1

\* _last_bar_ts once the bar counts as processed.
ProcessedBar == IF "cooldown" \in Filters THEN bar ELSE lastBar

\* All gates passed, each read once for both directions; the bar counts as
\* processed before any signal of it is evaluated.
CheckSignals ==
    /\ pc = "signals"
    /\ "position_limit" \in Filters => CheckPositionLimit
    /\ "daily_loss" \in Filters => CheckDailyLossLimit
    /\ "cooldown" \in Filters => bar > lastBar
    /\ lastBar' = ProcessedBar
    /\ evalBar' = bar
    /\ todo' \in Signals
    /\ pc' = "entry"
    /\ UNCHANGED <<brokerVars, bookVars, drop, cur, dailyPnlR, saved, logVars>>

SignalsDone ==
    /\ pc = "entry"
    /\ todo = <<>>
    /\ pc' = "monitor"
    /\ UNCHANGED <<brokerVars, bookVars, localVars, saved, logVars>>

\* No position results: a gate, no price, no size, an exception or a rejection.
\* With lost_fill the rejected order has filled all the same.
EntryBlocked ==
    /\ pc = "entry"
    /\ todo # <<>>
    /\ \/ UNCHANGED <<open, issued>>
       \/ /\ "lost_fill" \in Faults
          /\ \E t \in Trades \ issued : open' = open \cup {t} /\ issued' = issued \cup {t}
    /\ todo' = Tail(todo)
    /\ UNCHANGED <<bar, lossToday, pc, bookVars, lastBar, evalBar, drop, cur, dailyPnlR,
                   saved, logVars>>

OrderFilled(t) ==
    /\ pc = "entry"
    /\ todo # <<>>
    /\ t \notin issued
    /\ open' = open \cup {t}
    /\ \E answer \in {t} \cup IF "order_id" \in Faults THEN Trades \ issued ELSE {} :
          /\ issued' = issued \cup {t, answer}
          /\ cur' = answer
    /\ pc' = "filled"
    /\ UNCHANGED <<bar, lossToday, bookVars, lastBar, evalBar, todo, drop, dailyPnlR,
                   saved, logVars>>

\* (A mutant: the close is never sent.)
CloseNotSent(t) == open' = open

\* close_trade; its callers here ignore the result.
CloseAtBroker(t) ==
    \/ open' = open \ {t}
    \/ "close_fails" \in Faults /\ open' = open

SlippageFlatten ==
    /\ pc = "filled"
    /\ CloseAtBroker(cur)
    /\ pc' = "slipped"
    /\ UNCHANGED <<issued, bar, lossToday, bookVars, localVars, saved, logVars>>

SlippageEmit ==
    /\ pc = "slipped"
    /\ EmitTradeClosed
    /\ todo' = Tail(todo)
    /\ pc' = "entry"
    /\ UNCHANGED <<brokerVars, tracked, invalid, managed, lastBar, evalBar, drop,
                   dailyPnlR, saved>>

\* register_trade (which saves), add_position, _register_open_trade_quantlog.
RegisterTrade ==
    /\ pc = "filled"
    /\ managed' = managed \cup {cur}
    /\ saved' = managed \cup {cur}
    /\ tracked' = tracked \cup {cur}
    /\ meta' = meta \cup {cur}
    /\ pc' = "registered"
    /\ UNCHANGED <<brokerVars, invalid, localVars, logVars>>

EmitTradeExecuted ==
    /\ pc = "registered"
    /\ executedLog' = executedLog \cup {cur}
    /\ entered' = entered \cup {<<evalBar, Head(todo)>>}
    /\ todo' = Tail(todo)
    /\ cur' = NoTrade
    /\ pc' = "entry"
    /\ UNCHANGED <<brokerVars, bookVars, lastBar, evalBar, drop, dailyPnlR, saved, closedLog>>

\* (A mutant: only the positions this process entered itself are looked at.)
ThesisInvalidOwnEntries == tracked \cap invalid \cap meta

ThesisInvalid == tracked \cap invalid

\* _monitor_positions goes over the positions tracked when it starts.
MonitorPositions ==
    /\ pc = "monitor"
    /\ drop' = ThesisInvalid
    /\ pc' = "exit"
    /\ UNCHANGED <<brokerVars, bookVars, lastBar, evalBar, todo, cur, dailyPnlR, saved, logVars>>

ExitClose(t) ==
    /\ pc = "exit"
    /\ t \in drop
    /\ CloseAtBroker(t)
    /\ cur' = t
    /\ pc' = "exit_retire"
    /\ UNCHANGED <<issued, bar, lossToday, bookVars, lastBar, evalBar, todo, drop,
                   dailyPnlR, saved, logVars>>

ExitRetire ==
    /\ pc = "exit_retire"
    /\ Retire(cur)
    /\ drop' = drop \ {cur}
    /\ pc' = "exit_emit"
    /\ UNCHANGED <<brokerVars, meta, lastBar, evalBar, todo, dailyPnlR, logVars>>

ExitEmit ==
    /\ pc = "exit_emit"
    /\ EmitTradeClosed
    /\ pc' = "exit"
    /\ UNCHANGED <<brokerVars, tracked, invalid, managed, lastBar, evalBar, todo,
                   drop, dailyPnlR, saved>>

\* The status report and the sleep until the next poll.
Sleep ==
    /\ pc = "exit"
    /\ drop = {}
    /\ pc' = "top"
    /\ UNCHANGED <<brokerVars, bookVars, localVars, saved, logVars>>

-----------------------------------------------------------------------------
Sync == SyncPositions \/ (\E t \in Trades : SyncDrop(t)) \/ SyncEmit \/ SyncDone

Entry ==
    \/ SkipSignals \/ CheckSignals \/ SignalsDone \/ EntryBlocked
    \/ \E t \in Trades : OrderFilled(t)
    \/ SlippageFlatten \/ SlippageEmit \/ RegisterTrade \/ EmitTradeExecuted

Monitor ==
    \/ MonitorPositions \/ (\E t \in Trades : ExitClose(t)) \/ ExitRetire
    \/ ExitEmit \/ Sleep

\* What the process does once it is started.
Run == BootSync \/ PollNews \/ Sync \/ Entry \/ Monitor

Environment == (\E t \in Trades : BrokerCloses(t)) \/ NewBar \/ NewDay \/ Crash \/ Shutdown

Next == Start \/ Run \/ Environment

Spec == Init /\ [][Next]_vars

\* The process keeps running (time.sleep returns, broker calls time out), and
\* systemd starts it again (Restart=always in the deployment runbook).
FairSpec == Spec /\ WF_vars(Run) /\ WF_vars(Start)

-----------------------------------------------------------------------------
(* Properties.  Each names the faults it tolerates; the runs choose them.   *)

\* Between two iterations: the only point where no step is half done.
Idle == pc = "top"

\* The exposure that position_limit really bounds: one more than the limit,
\* because the limit is read once and both directions may then enter
\* (_check_signals).  Tolerates stop.
ExposureBound ==
    "position_limit" \in Filters => Cardinality(OpenPositions) <= MaxOpen + 1

\* Every tracked position has a managed order, so its stop keeps being moved
\* by update_price.  Tolerates stop, and needs every fill to be registered.
EveryPositionManaged == pc # "down" => tracked \subseteq managed

\* Nothing kept about a trade survives its position: a managed order left behind
\* would be written to state.json for ever, and ENTER metadata left behind would
\* join a later trade_closed on a position that is gone.  Tolerates every fault but
\* a restart.
NoOrphanOrder == Idle => managed \subseteq tracked /\ meta \subseteq tracked

\* A trade the journal says was executed is tracked, or the journal has its
\* close.  Tolerates every fault but a restart.
NoUnloggedClose ==
    Idle => \A t \in executedLog : t \in tracked \/ closedLog[t] > 0

\* trade_closed is emitted only for a position that is closed at the broker.
\* Tolerates crashes and lost fills.
NoPrematureClose == \A t \in Trades : closedLog[t] > 0 => t \notin open

\* state.json names exactly the managed orders, whatever fails: each of the
\* calls that change managed_orders saves before it returns.
DiskAgrees == pc # "down" => saved = managed

\* The cooldown filter: a bar and direction is entered at most once, also
\* when the poll is repeated within the bar.  Tolerates every fault but a
\* restart, which forgets _last_bar_ts.
NoReentryOnSameBar ==
    [][ "cooldown" \in Filters /\ pc = "registered" /\ pc' = "entry"
          => <<evalBar, Head(todo)>> \notin entered ]_vars

\* The daily loss guard: once the day has lost its limit no order is placed.
NoEntryAfterDailyLoss ==
    [][ "daily_loss" \in Filters /\ pc = "signals" /\ pc' = "entry"
          => lossToday < MaxDailyLossR ]_vars

\* The runner implements the journal's promise: what it writes about a trade
\* is in order, at most once, and never ahead of the broker.  Tolerates
\* crashes and lost fills; a wrong answer of the broker breaks it.
Journal == INSTANCE TradeJournal WITH
    live <- open, seen <- issued, executed <- executedLog, closed <- closedLog

ImplementsJournal == Journal!Spec

\* A position the broker closed is in the journal in the end, unless the
\* process stops first.
BrokerCloseIsJournalled ==
    \A t \in Trades :
        (t \in tracked /\ t \notin open) ~> (closedLog[t] > 0 \/ pc = "down")

\* A position whose thesis is invalid is flat in the end, unless the process
\* stops first.
InvalidThesisIsClosed ==
    \A t \in Trades : (t \in invalid) ~> (t \notin open \/ pc = "down")
=============================================================================
