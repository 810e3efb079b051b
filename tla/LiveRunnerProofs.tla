-------------------------- MODULE LiveRunnerProofs --------------------------
(***************************************************************************)
(* What holds of the live runner for any number of trades, bars and        *)
(* positions: types and the agreement of memory and disk under every       *)
(* fault; when the broker answers truthfully, that what it writes to the   *)
(* journal implements TradeJournal wherever the process dies; and, across  *)
(* orderly restarts, that every position is managed and the exposure is    *)
(* bounded.                                                                *)
(***************************************************************************)
EXTENDS LiveRunner, FiniteSetTheorems, TLAPS

-----------------------------------------------------------------------------
(* Types *)

\* Both directions of a bar, or what is left of them.
LEMMA SignalsLeft ==
    ASSUME NEW s \in Signals, s # <<>>
    PROVE  Tail(s) \in Signals /\ Head(s) \in Directions
<1>1. CASE s = <<"LONG">>
  <2>1. Tail(s) = <<>> /\ Head(s) = "LONG"
    BY <1>1
  <2> QED
    BY <2>1 DEF Signals, Directions
<1>2. CASE s = <<"SHORT">>
  <2>1. Tail(s) = <<>> /\ Head(s) = "SHORT"
    BY <1>2
  <2> QED
    BY <2>1 DEF Signals, Directions
<1>3. CASE s = <<"LONG", "SHORT">>
  <2>1. Tail(s) = <<"SHORT">> /\ Head(s) = "LONG"
    BY <1>3
  <2> QED
    BY <2>1 DEF Signals, Directions
<1> QED
  BY <1>1, <1>2, <1>3 DEF Signals

\* Counting one more close keeps the counts in range.
LEMMA EmitTradeClosedType ==
    ASSUME TypeOK, EmitTradeClosed
    PROVE  closedLog' \in [Trades -> 0..2]
<1> DEFINE count == IF closedLog[cur] < 2 THEN closedLog[cur] + 1 ELSE closedLog[cur]
<1>1. closedLog \in [Trades -> 0..2] /\ closedLog' = [closedLog EXCEPT ![cur] = count]
  BY DEF TypeOK, EmitTradeClosed
<1>2. cur \in Trades => count \in 0..2
  BY <1>1
<1> HIDE DEF count
<1> QED
  BY <1>1, <1>2

\* Between the fill of an order and its last event a signal, its bar and the
\* trade are in hand; so is the trade a sync or a monitor pass retires.
HandInv ==
    /\ pc \in {"filled", "slipped", "registered"} => todo # <<>>
    /\ pc \in {"entry", "filled", "slipped", "registered"} => evalBar # 0
    /\ pc \in {"filled", "slipped", "registered", "sync_emit", "exit_retire", "exit_emit"}
         => cur \in Trades

LEMMA TypeInvariant == Spec => [](TypeOK /\ HandInv)
<1> USE TradesAssumption, LimitsAssumption
<1>1. Init => TypeOK /\ HandInv
  BY DEF Init, HandInv, TypeOK, PCs, Signals
<1>2. TypeOK /\ HandInv /\ [Next]_vars => TypeOK' /\ HandInv'
  <2> SUFFICES ASSUME TypeOK, HandInv, [Next]_vars
               PROVE  TypeOK' /\ HandInv'
    OBVIOUS
  <2> USE DEF TypeOK, HandInv, PCs
  <2>1. ASSUME NEW t \in Trades, BrokerCloses(t)
        PROVE  TypeOK' /\ HandInv'
    BY <2>1 DEF BrokerCloses, bookVars, localVars, logVars
  <2>2. CASE NewBar
    BY <2>2 DEF NewBar, bookVars, localVars, logVars
  <2>3. CASE Crash
    BY <2>3 DEF Crash, LoseMemory, brokerVars, logVars, Signals
  <2>4. CASE Shutdown
    BY <2>4 DEF Shutdown, LoseMemory, brokerVars, logVars, Signals
  <2>5. CASE Start
    BY <2>5 DEF Start, LoadedState, brokerVars, localVars, logVars
  <2>6. CASE BootSync
    BY <2>6 DEF BootSync, BrokerTrades, brokerVars, localVars, logVars
  <2>7. CASE NewDay
    BY <2>7 DEF NewDay, bookVars, logVars
  <2>8. CASE PollNews
    BY <2>8 DEF PollNews, brokerVars, localVars, logVars
  <2>9. CASE SyncPositions
    BY <2>9 DEF SyncPositions, BrokerTrades, Missing, brokerVars, logVars
  <2>10. ASSUME NEW t \in Trades, SyncDrop(t)
         PROVE  TypeOK' /\ HandInv'
    BY <2>10 DEF SyncDrop, Retire, brokerVars, logVars
  <2>11. CASE SyncEmit
    BY <2>11, EmitTradeClosedType DEF SyncEmit, EmitTradeClosed, brokerVars
  <2>12. CASE SyncDone
    BY <2>12 DEF SyncDone, brokerVars, bookVars, localVars, logVars
  <2>13. CASE SkipSignals
    BY <2>13 DEF SkipSignals, brokerVars, bookVars, localVars, logVars
  <2>14. CASE CheckSignals
    BY <2>14 DEF CheckSignals, ProcessedBar, brokerVars, bookVars, logVars
  <2>15. CASE SignalsDone
    BY <2>15 DEF SignalsDone, brokerVars, bookVars, localVars, logVars
  <2>16. CASE EntryBlocked
    BY <2>16, SignalsLeft DEF EntryBlocked, bookVars, logVars
  <2>17. ASSUME NEW t \in Trades, OrderFilled(t)
         PROVE  TypeOK' /\ HandInv'
    BY <2>17 DEF OrderFilled, bookVars, logVars
  <2>18. CASE SlippageFlatten
    BY <2>18 DEF SlippageFlatten, CloseAtBroker, bookVars, localVars, logVars
  <2>19. CASE SlippageEmit
    BY <2>19, SignalsLeft, EmitTradeClosedType DEF SlippageEmit, EmitTradeClosed, brokerVars
  <2>20. CASE RegisterTrade
    BY <2>20 DEF RegisterTrade, brokerVars, localVars, logVars
  <2>21. CASE EmitTradeExecuted
    BY <2>21, SignalsLeft DEF EmitTradeExecuted, brokerVars, bookVars
  <2>22. CASE MonitorPositions
    BY <2>22 DEF MonitorPositions, ThesisInvalid, brokerVars, bookVars, logVars
  <2>23. ASSUME NEW t \in Trades, ExitClose(t)
         PROVE  TypeOK' /\ HandInv'
    BY <2>23 DEF ExitClose, CloseAtBroker, bookVars, logVars
  <2>24. CASE ExitRetire
    BY <2>24 DEF ExitRetire, Retire, brokerVars, logVars
  <2>25. CASE ExitEmit
    BY <2>25, EmitTradeClosedType DEF ExitEmit, EmitTradeClosed, brokerVars
  <2>26. CASE Sleep
    BY <2>26 DEF Sleep, brokerVars, bookVars, localVars, logVars
  <2>27. CASE UNCHANGED vars
    BY <2>27 DEF vars, brokerVars, bookVars, localVars, logVars
  <2> QED
    BY <2>1, <2>2, <2>3, <2>4, <2>5, <2>6, <2>7, <2>8, <2>9, <2>10, <2>11, <2>12,
       <2>13, <2>14, <2>15, <2>16, <2>17, <2>18, <2>19, <2>20, <2>21, <2>22, <2>23,
       <2>24, <2>25, <2>26, <2>27
    DEF Next, Run, Environment, Sync, Entry, Monitor
<1> QED
  BY <1>1, <1>2, PTL DEF Spec

\* Every variable keeps its type, whatever fails.
THEOREM TypeCorrect == Spec => []TypeOK
  BY TypeInvariant, PTL

-----------------------------------------------------------------------------
(* Memory and disk                                                          *)

\* state.json names the managed orders whenever the process runs, whatever
\* fails: register_trade and unregister_trade save before they return.
THEOREM DiskAgreesCorrect == Spec => []DiskAgrees
<1>1. Init => DiskAgrees
  BY DEF Init, DiskAgrees
<1>2. DiskAgrees /\ [Next]_vars => DiskAgrees'
  <2> SUFFICES ASSUME DiskAgrees, [Next]_vars
               PROVE  DiskAgrees'
    OBVIOUS
  <2> USE DEF DiskAgrees
  <2>1. ASSUME NEW t \in Trades, BrokerCloses(t)
       PROVE  DiskAgrees'
    BY <2>1 DEF BrokerCloses, bookVars, localVars, logVars
  <2>2. CASE NewBar
    BY <2>2 DEF NewBar, bookVars, localVars, logVars
  <2>3. CASE Crash
    BY <2>3 DEF Crash, LoseMemory, brokerVars, logVars
  <2>4. CASE Shutdown
    BY <2>4 DEF Shutdown, LoseMemory, brokerVars, logVars
  <2>5. CASE Start
    BY <2>5 DEF Start, LoadedState, brokerVars, localVars, logVars
  <2>6. CASE BootSync
    BY <2>6 DEF BootSync, BrokerTrades, brokerVars, localVars, logVars
  <2>7. CASE NewDay
    BY <2>7 DEF NewDay, bookVars, logVars
  <2>8. CASE PollNews
    BY <2>8 DEF PollNews, brokerVars, localVars, logVars
  <2>9. CASE SyncPositions
    BY <2>9 DEF SyncPositions, BrokerTrades, Missing, logVars, brokerVars
  <2>10. ASSUME NEW t \in Trades, SyncDrop(t)
        PROVE  DiskAgrees'
    BY <2>10 DEF SyncDrop, Retire, brokerVars, logVars
  <2>11. CASE SyncEmit
    BY <2>11 DEF SyncEmit, EmitTradeClosed, brokerVars
  <2>12. CASE SyncDone
    BY <2>12 DEF SyncDone, brokerVars, bookVars, localVars, logVars
  <2>13. CASE SkipSignals
    BY <2>13 DEF SkipSignals, brokerVars, bookVars, localVars, logVars
  <2>14. CASE CheckSignals
    BY <2>14 DEF CheckSignals, brokerVars, bookVars, logVars
  <2>15. CASE SignalsDone
    BY <2>15 DEF SignalsDone, brokerVars, bookVars, localVars, logVars
  <2>16. CASE EntryBlocked
    BY <2>16 DEF EntryBlocked, bookVars, logVars
  <2>17. ASSUME NEW t \in Trades, OrderFilled(t)
        PROVE  DiskAgrees'
    BY <2>17 DEF OrderFilled, bookVars, logVars
  <2>18. CASE SlippageFlatten
    BY <2>18 DEF SlippageFlatten, CloseAtBroker, bookVars, localVars, logVars
  <2>19. CASE SlippageEmit
    BY <2>19 DEF SlippageEmit, EmitTradeClosed, brokerVars
  <2>20. CASE RegisterTrade
    BY <2>20 DEF RegisterTrade, brokerVars, localVars, logVars
  <2>21. CASE EmitTradeExecuted
    BY <2>21 DEF EmitTradeExecuted, brokerVars, bookVars
  <2>22. CASE MonitorPositions
    BY <2>22 DEF MonitorPositions, ThesisInvalid, brokerVars, bookVars, logVars
  <2>23. ASSUME NEW t \in Trades, ExitClose(t)
        PROVE  DiskAgrees'
    BY <2>23 DEF ExitClose, CloseAtBroker, bookVars, logVars
  <2>24. CASE ExitRetire
    BY <2>24 DEF ExitRetire, Retire, brokerVars, logVars
  <2>25. CASE ExitEmit
    BY <2>25 DEF ExitEmit, EmitTradeClosed, brokerVars
  <2>26. CASE Sleep
    BY <2>26 DEF Sleep, brokerVars, bookVars, localVars, logVars
  <2>27. CASE UNCHANGED vars
    BY <2>27 DEF vars, brokerVars, bookVars, localVars, logVars
  <2> QED
    BY <2>1, <2>2, <2>3, <2>4, <2>5, <2>6, <2>7, <2>8, <2>9, <2>10, <2>11, <2>12,
       <2>13, <2>14, <2>15, <2>16, <2>17, <2>18, <2>19, <2>20, <2>21, <2>22, <2>23, <2>24,
       <2>25, <2>26, <2>27
    DEF Next, Run, Environment, Sync, Entry, Monitor
<1> QED
  BY <1>1, <1>2, PTL DEF Spec

-----------------------------------------------------------------------------
(* The journal, when the broker answers truthfully                          *)

\* get_open_trades reports what is open, close_trade closes, and a fill is
\* answered with the id of its position.  Fills may still be lost, and the
\* process may die at any point.
BrokerTruthful == Faults \cap {"sync_error", "close_fails", "order_id"} = {}

\* A trade that is tracked, in hand before its ENTER, or about to be reported
\* has no trade_closed yet; one that is about to be reported is neither open
\* nor tracked any more; and a closed trade is never open again.
JournalInv ==
    /\ open \subseteq issued /\ tracked \subseteq issued /\ executedLog \subseteq issued
    /\ \A t \in Trades : closedLog[t] > 0 => t \in issued \ open
    /\ \A t \in tracked : closedLog[t] = 0
    /\ pc \in {"sync_drop", "sync_emit"} => drop \subseteq tracked \ open
    /\ pc \in {"exit", "exit_retire", "exit_emit"} => drop \subseteq tracked
    /\ pc = "exit_retire" => cur \in drop \ open
    /\ pc \in {"sync_emit", "exit_emit", "slipped"} => cur \notin open
    /\ pc \in {"sync_emit", "exit_emit", "filled", "slipped"} => cur \notin tracked
    /\ pc \in {"sync_emit", "exit_emit", "filled", "slipped", "registered"}
         => cur \in issued /\ closedLog[cur] = 0
    /\ pc \in {"filled", "registered"} => cur \notin executedLog

LEMMA JournalInvariant ==
    ASSUME BrokerTruthful
    PROVE  Spec => []JournalInv
<1>1. Init => JournalInv
  BY DEF Init, JournalInv
<1>2. TypeOK /\ HandInv /\ JournalInv /\ [Next]_vars => JournalInv'
  <2> SUFFICES ASSUME TypeOK, HandInv, JournalInv, [Next]_vars
               PROVE  JournalInv'
    OBVIOUS
  <2> USE DEF TypeOK, HandInv, JournalInv
  <2>1. ASSUME NEW t \in Trades, BrokerCloses(t)
       PROVE  JournalInv'
    BY <2>1 DEF BrokerCloses, bookVars, localVars, logVars
  <2>2. CASE NewBar
    BY <2>2 DEF NewBar, bookVars, localVars, logVars
  <2>3. CASE Crash
    BY <2>3 DEF Crash, LoseMemory, brokerVars, logVars
  <2>4. CASE Shutdown
    BY <2>4 DEF Shutdown, LoseMemory, brokerVars, logVars
  <2>5. CASE Start
    BY <2>5 DEF Start, brokerVars, localVars, logVars
  <2>6. CASE BootSync
    BY <2>6 DEF BootSync, BrokerTrades, BrokerTruthful, brokerVars, localVars, logVars
  <2>7. CASE NewDay
    BY <2>7 DEF NewDay, bookVars, logVars
  <2>8. CASE PollNews
    BY <2>8 DEF PollNews, brokerVars, localVars, logVars
  <2>9. CASE SyncPositions
    BY <2>9 DEF SyncPositions, BrokerTrades, BrokerTruthful, Missing, logVars, brokerVars
  <2>10. ASSUME NEW t \in Trades, SyncDrop(t)
        PROVE  JournalInv'
    BY <2>10 DEF SyncDrop, Retire, brokerVars, logVars
  <2>11. CASE SyncEmit
    BY <2>11 DEF SyncEmit, EmitTradeClosed, brokerVars
  <2>12. CASE SyncDone
    BY <2>12 DEF SyncDone, brokerVars, bookVars, localVars, logVars
  <2>13. CASE SkipSignals
    BY <2>13 DEF SkipSignals, brokerVars, bookVars, localVars, logVars
  <2>14. CASE CheckSignals
    BY <2>14 DEF CheckSignals, brokerVars, bookVars, logVars
  <2>15. CASE SignalsDone
    BY <2>15 DEF SignalsDone, brokerVars, bookVars, localVars, logVars
  <2>16. CASE EntryBlocked
    BY <2>16 DEF EntryBlocked, bookVars, logVars
  <2>17. ASSUME NEW t \in Trades, OrderFilled(t)
        PROVE  JournalInv'
    BY <2>17 DEF OrderFilled, BrokerTruthful, bookVars, logVars
  <2>18. CASE SlippageFlatten
    BY <2>18 DEF SlippageFlatten, CloseAtBroker, BrokerTruthful, bookVars, localVars, logVars
  <2>19. CASE SlippageEmit
    BY <2>19 DEF SlippageEmit, EmitTradeClosed, brokerVars
  <2>20. CASE RegisterTrade
    BY <2>20 DEF RegisterTrade, brokerVars, localVars, logVars
  <2>21. CASE EmitTradeExecuted
    BY <2>21 DEF EmitTradeExecuted, brokerVars, bookVars
  <2>22. CASE MonitorPositions
    BY <2>22 DEF MonitorPositions, ThesisInvalid, brokerVars, bookVars, logVars
  <2>23. ASSUME NEW t \in Trades, ExitClose(t)
        PROVE  JournalInv'
    BY <2>23 DEF ExitClose, CloseAtBroker, BrokerTruthful, bookVars, logVars
  <2>24. CASE ExitRetire
    BY <2>24 DEF ExitRetire, Retire, brokerVars, logVars
  <2>25. CASE ExitEmit
    BY <2>25 DEF ExitEmit, EmitTradeClosed, brokerVars
  <2>26. CASE Sleep
    BY <2>26 DEF Sleep, brokerVars, bookVars, localVars, logVars
  <2>27. CASE UNCHANGED vars
    BY <2>27 DEF vars, brokerVars, bookVars, localVars, logVars
  <2> QED
    BY <2>1, <2>2, <2>3, <2>4, <2>5, <2>6, <2>7, <2>8, <2>9, <2>10, <2>11, <2>12,
       <2>13, <2>14, <2>15, <2>16, <2>17, <2>18, <2>19, <2>20, <2>21, <2>22, <2>23, <2>24,
       <2>25, <2>26, <2>27
    DEF Next, Run, Environment, Sync, Entry, Monitor
<1> QED
  BY TypeInvariant, <1>1, <1>2, PTL DEF Spec

\* trade_closed is only ever written for a position that is closed.
THEOREM NoPrematureCloseCorrect ==
    ASSUME BrokerTruthful
    PROVE  Spec => []NoPrematureClose
<1>1. JournalInv => NoPrematureClose
  BY DEF JournalInv, NoPrematureClose
<1> QED
  BY JournalInvariant, <1>1, PTL

\* Every step of the runner is a step of the journal or leaves it alone.
LEMMA JournalStep ==
    ASSUME BrokerTruthful, TypeOK, HandInv, JournalInv, [Next]_vars
    PROVE  [Journal!Next]_(Journal!jvars)
<1> USE DEF TypeOK, HandInv, JournalInv, Journal!jvars
<1> DEFINE Quiet == UNCHANGED <<open, issued, executedLog, closedLog>>
<1>1. ASSUME NEW t \in Trades, t \in open, open' = open \ {t},
             UNCHANGED <<issued, executedLog, closedLog>>
      PROVE  Journal!Next
  BY <1>1 DEF Journal!Next, Journal!Flatten
<1>2. ASSUME NEW t \in Trades, t \notin issued, open' = open \cup {t},
             issued' = issued \cup {t}, UNCHANGED <<executedLog, closedLog>>
      PROVE  Journal!Next
  BY <1>2 DEF Journal!Next, Journal!Fill
<1>3. ASSUME EmitTradeClosed, UNCHANGED <<open, issued>>, cur \in Trades,
             cur \in issued \ open, closedLog[cur] = 0
      PROVE  Journal!Next
  <2>1. closedLog' = [closedLog EXCEPT ![cur] = 1] /\ executedLog' = executedLog
    BY <1>3 DEF EmitTradeClosed
  <2> QED
    BY <1>3, <2>1 DEF Journal!Next, Journal!JournalClosed
<1>4. ASSUME CloseAtBroker(cur), cur \in Trades, UNCHANGED <<issued, executedLog, closedLog>>
      PROVE  Journal!Next \/ Quiet
  <2>1. open' = open \ {cur}
    BY <1>4 DEF CloseAtBroker, BrokerTruthful
  <2>2. CASE cur \in open
    BY <1>1, <1>4, <2>1, <2>2
  <2>3. CASE cur \notin open
    BY <1>4, <2>1, <2>3
  <2> QED
    BY <2>2, <2>3
<1>5. ASSUME NEW t \in Trades, BrokerCloses(t)
      PROVE  Journal!Next
  BY <1>1, <1>5 DEF BrokerCloses, logVars
<1>6. CASE EntryBlocked
  BY <1>2, <1>6 DEF EntryBlocked, logVars
<1>7. ASSUME NEW t \in Trades, OrderFilled(t)
      PROVE  Journal!Next
  <2>1. issued' = issued \cup {t}
    BY <1>7 DEF OrderFilled, BrokerTruthful
  <2> QED
    BY <1>2, <1>7, <2>1 DEF OrderFilled, logVars
<1>8. CASE SyncEmit
  BY <1>3, <1>8 DEF SyncEmit, brokerVars
<1>9. CASE SlippageEmit
  BY <1>3, <1>9 DEF SlippageEmit, brokerVars
<1>10. CASE ExitEmit
  BY <1>3, <1>10 DEF ExitEmit, brokerVars
<1>11. CASE SlippageFlatten
  BY <1>4, <1>11 DEF SlippageFlatten, logVars
<1>12. ASSUME NEW t \in Trades, ExitClose(t)
       PROVE  Journal!Next \/ Quiet
  <2>1. open' = open \ {t}
    BY <1>12 DEF ExitClose, CloseAtBroker, BrokerTruthful
  <2> QED
    BY <1>1, <1>12, <2>1 DEF ExitClose, logVars
<1>13. CASE EmitTradeExecuted
  <2>1. /\ cur \in issued \ executedLog /\ cur \in Trades /\ closedLog[cur] = 0
        /\ executedLog' = executedLog \cup {cur}
        /\ UNCHANGED <<open, issued, closedLog>>
    BY <1>13 DEF EmitTradeExecuted, brokerVars
  <2> QED
    BY <2>1 DEF Journal!Next, Journal!JournalExecuted
<1>14. CASE \/ NewBar \/ NewDay \/ Crash \/ Shutdown \/ Start \/ BootSync \/ PollNews
            \/ SyncPositions \/ (\E t \in Trades : SyncDrop(t)) \/ SyncDone
            \/ SkipSignals \/ CheckSignals \/ SignalsDone \/ RegisterTrade
            \/ MonitorPositions \/ ExitRetire \/ Sleep \/ UNCHANGED vars
  <2>1. Quiet
    BY <1>14
    DEF NewBar, NewDay, Crash, Shutdown, LoseMemory, Start, BootSync, PollNews,
        SyncPositions, SyncDrop, SyncDone, SkipSignals, CheckSignals, SignalsDone,
        RegisterTrade, MonitorPositions, ExitRetire, Sleep, vars, brokerVars, logVars
  <2> QED
    BY <2>1
<1> QED
  BY <1>5, <1>6, <1>7, <1>8, <1>9, <1>10, <1>11, <1>12, <1>13, <1>14
  DEF Next, Run, Environment, Sync, Entry, Monitor

\* With a truthful broker the runner implements the journal: each trade is
\* reported in order, at most once, and closed only when it is, wherever the
\* process dies and whichever fills are lost.
THEOREM ImplementsJournalCorrect ==
    ASSUME BrokerTruthful
    PROVE  Spec => ImplementsJournal
<1>1. Init => Journal!Init
  BY DEF Init, Journal!Init
<1>2. TypeOK /\ HandInv /\ JournalInv /\ [Next]_vars => [Journal!Next]_(Journal!jvars)
  BY JournalStep
<1> QED
  BY TypeInvariant, JournalInvariant, <1>1, <1>2, PTL
  DEF Spec, ImplementsJournal, Journal!Spec

-----------------------------------------------------------------------------
(* One lifetime of the process, whatever the broker answers                 *)

\* The process is started once and is not interrupted.
OneLifetime == Faults \cap {"stop", "crash", "torn_save"} = {}

\* The order, the metadata and the ENTER of a trade go with its tracked
\* position; the trade whose close is about to be reported is the exception.
LifetimeInv ==
    /\ pc = "down" => saved = {}
    /\ pc \in {"down", "boot"} => managed = {} /\ meta = {} /\ executedLog = {}
    /\ managed \subseteq tracked
    /\ \A t \in meta : t \in tracked \/ (pc \in {"sync_emit", "exit_emit"} /\ t = cur)
    /\ \A t \in executedLog : \/ t \in tracked \/ closedLog[t] > 0
                              \/ pc \in {"sync_emit", "exit_emit"} /\ t = cur
    /\ pc = "registered" => cur \in tracked

LEMMA LifetimeInvariant ==
    ASSUME OneLifetime
    PROVE  Spec => []LifetimeInv
<1>1. Init => LifetimeInv
  BY DEF Init, LifetimeInv
<1>2. TypeOK /\ HandInv /\ LifetimeInv /\ [Next]_vars => LifetimeInv'
  <2> SUFFICES ASSUME TypeOK, HandInv, LifetimeInv, [Next]_vars
               PROVE  LifetimeInv'
    OBVIOUS
  <2> USE DEF TypeOK, HandInv, LifetimeInv
  <2>1. ASSUME NEW t \in Trades, BrokerCloses(t)
        PROVE  LifetimeInv'
    BY <2>1 DEF BrokerCloses, bookVars, localVars, logVars
  <2>2. CASE NewBar
    BY <2>2 DEF NewBar, bookVars, localVars, logVars
  <2>3. CASE Crash
    BY <2>3 DEF Crash, LoseMemory, brokerVars, logVars, OneLifetime
  <2>4. CASE Shutdown
    BY <2>4 DEF Shutdown, LoseMemory, brokerVars, logVars, OneLifetime
  <2>5. CASE Start
    BY <2>5 DEF Start, LoadedState, brokerVars, localVars, logVars
  <2>6. CASE BootSync
    BY <2>6 DEF BootSync, BrokerTrades, brokerVars, localVars, logVars
  <2>7. CASE NewDay
    BY <2>7 DEF NewDay, bookVars, logVars
  <2>8. CASE PollNews
    BY <2>8 DEF PollNews, brokerVars, localVars, logVars
  <2>9. CASE SyncPositions
    BY <2>9 DEF SyncPositions, BrokerTrades, Missing, logVars, brokerVars
  <2>10. ASSUME NEW t \in Trades, SyncDrop(t)
         PROVE  LifetimeInv'
    BY <2>10 DEF SyncDrop, Retire, brokerVars, logVars
  <2>11. CASE SyncEmit
    BY <2>11 DEF SyncEmit, EmitTradeClosed, brokerVars
  <2>12. CASE SyncDone
    BY <2>12 DEF SyncDone, brokerVars, bookVars, localVars, logVars
  <2>13. CASE SkipSignals
    BY <2>13 DEF SkipSignals, brokerVars, bookVars, localVars, logVars
  <2>14. CASE CheckSignals
    BY <2>14 DEF CheckSignals, ProcessedBar, brokerVars, bookVars, logVars
  <2>15. CASE SignalsDone
    BY <2>15 DEF SignalsDone, brokerVars, bookVars, localVars, logVars
  <2>16. CASE EntryBlocked
    BY <2>16 DEF EntryBlocked, bookVars, logVars
  <2>17. ASSUME NEW t \in Trades, OrderFilled(t)
         PROVE  LifetimeInv'
    BY <2>17 DEF OrderFilled, bookVars, logVars
  <2>18. CASE SlippageFlatten
    BY <2>18 DEF SlippageFlatten, CloseAtBroker, bookVars, localVars, logVars
  <2>19. CASE SlippageEmit
    BY <2>19 DEF SlippageEmit, EmitTradeClosed, brokerVars
  <2>20. CASE RegisterTrade
    BY <2>20 DEF RegisterTrade, brokerVars, localVars, logVars
  <2>21. CASE EmitTradeExecuted
    BY <2>21 DEF EmitTradeExecuted, brokerVars, bookVars
  <2>22. CASE MonitorPositions
    BY <2>22 DEF MonitorPositions, ThesisInvalid, brokerVars, bookVars, logVars
  <2>23. ASSUME NEW t \in Trades, ExitClose(t)
         PROVE  LifetimeInv'
    BY <2>23 DEF ExitClose, CloseAtBroker, bookVars, logVars
  <2>24. CASE ExitRetire
    BY <2>24 DEF ExitRetire, Retire, brokerVars, logVars
  <2>25. CASE ExitEmit
    BY <2>25 DEF ExitEmit, EmitTradeClosed, brokerVars
  <2>26. CASE Sleep
    BY <2>26 DEF Sleep, brokerVars, bookVars, localVars, logVars
  <2>27. CASE UNCHANGED vars
    BY <2>27 DEF vars, brokerVars, bookVars, localVars, logVars
  <2> QED
    BY <2>1, <2>2, <2>3, <2>4, <2>5, <2>6, <2>7, <2>8, <2>9, <2>10, <2>11, <2>12,
       <2>13, <2>14, <2>15, <2>16, <2>17, <2>18, <2>19, <2>20, <2>21, <2>22, <2>23, <2>24,
       <2>25, <2>26, <2>27
    DEF Next, Run, Environment, Sync, Entry, Monitor
<1> QED
  BY TypeInvariant, <1>1, <1>2, PTL DEF Spec

\* An executed trade that is no longer tracked has its trade_closed.
THEOREM NoUnloggedCloseCorrect ==
    ASSUME OneLifetime
    PROVE  Spec => []NoUnloggedClose
<1>1. LifetimeInv => NoUnloggedClose
  BY DEF LifetimeInv, NoUnloggedClose, Idle
<1> QED
  BY LifetimeInvariant, <1>1, PTL

\* No managed order, and so no entry of state.json, and no ENTER metadata outlives
\* its position.
THEOREM NoOrphanOrderCorrect ==
    ASSUME OneLifetime
    PROVE  Spec => []NoOrphanOrder
<1>1. LifetimeInv => NoOrphanOrder
  BY DEF LifetimeInv, NoOrphanOrder, Idle
<1> QED
  BY LifetimeInvariant, <1>1, PTL

-----------------------------------------------------------------------------
(* The cooldown filter                                                      *)

\* The directions a list of signals names, and those left to evaluate.
DirectionsOf(s) == { s[i] : i \in 1..Len(s) }

Left == DirectionsOf(todo)

\* Entered bars are processed bars, and of the bar being evaluated only the
\* directions that are no longer left.
ReentryInv ==
    /\ \A p \in entered : p[1] <= lastBar
    /\ pc \in {"entry", "filled", "slipped", "registered"} =>
          /\ evalBar <= lastBar
          /\ \A p \in entered : p[1] = evalBar => p[2] \notin Left

\* A direction occurs once, so evaluating it takes it out for good.
LEMMA TailOmitsHead ==
    ASSUME NEW s \in Signals, s # <<>>
    PROVE  /\ Head(s) \in DirectionsOf(s)
           /\ \A d \in DirectionsOf(Tail(s)) : d \in DirectionsOf(s) /\ d # Head(s)
<1>1. ASSUME NEW d, s = <<d>>
      PROVE  /\ Head(s) \in DirectionsOf(s)
             /\ DirectionsOf(Tail(s)) = {}
  <2>1. Len(s) = 1 /\ s[1] = d /\ Head(s) = d
    BY <1>1
  <2>2. Tail(s) = <<>>
    BY <1>1
  <2>3. 1 \in 1..Len(s) /\ 1..Len(<<>>) = {}
    BY <2>1
  <2>4. Head(s) \in DirectionsOf(s)
    BY <2>1, <2>3, Zenon DEF DirectionsOf
  <2>5. DirectionsOf(Tail(s)) = {}
    BY <2>2, <2>3, Zenon DEF DirectionsOf
  <2> QED
    BY <2>4, <2>5
<1>2. CASE s = <<"LONG", "SHORT">>
  <2> DEFINE r == Tail(s)
  <2>1. Len(s) = 2 /\ s[1] = "LONG" /\ s[2] = "SHORT" /\ Head(s) = "LONG"
    BY <1>2
  <2>2. r = <<"SHORT">>
    BY <1>2
  <2> HIDE DEF r
  <2>3. Len(r) = 1 /\ r[1] = "SHORT"
    BY <2>2
  <2>4. 1 \in 1..Len(s) /\ 2 \in 1..Len(s) /\ 1..Len(r) = {1}
    BY <2>1, <2>3
  <2>5. "LONG" \in DirectionsOf(s) /\ "SHORT" \in DirectionsOf(s)
    BY <2>1, <2>4, Zenon DEF DirectionsOf
  <2>6. \A d \in DirectionsOf(r) : d = "SHORT"
    BY <2>3, <2>4, Zenon DEF DirectionsOf
  <2> QED
    BY <2>1, <2>5, <2>6 DEF r
<1>3. s \in {<<"LONG">>, <<"SHORT">>, <<"LONG", "SHORT">>}
  BY DEF Signals
<1> QED
  BY <1>1, <1>2, <1>3

LEMMA LeftShrinks ==
    ASSUME TypeOK, todo # <<>>, todo' = Tail(todo)
    PROVE  Head(todo) \in Left /\ Left' \subseteq Left \ {Head(todo)}
<1>1. todo \in Signals
  BY DEF TypeOK
<1>2. Left' = DirectionsOf(Tail(todo))
  BY DEF Left
<1> QED
  BY <1>1, <1>2, TailOmitsHead DEF Left

LEMMA ReentryInvariant ==
    ASSUME OneLifetime, "cooldown" \in Filters
    PROVE  Spec => []ReentryInv
<1> USE LimitsAssumption
<1>1. Init => ReentryInv
  BY DEF Init, ReentryInv
<1>2. TypeOK /\ HandInv /\ LifetimeInv /\ ReentryInv /\ [Next]_vars => ReentryInv'
  <2> SUFFICES ASSUME TypeOK, HandInv, LifetimeInv, ReentryInv, [Next]_vars
               PROVE  ReentryInv'
    OBVIOUS
  <2>1. entered \subseteq (1..(MaxBar + 1)) \X Directions
    BY DEF TypeOK
  <2>2. lastBar \in Nat /\ evalBar \in Nat /\ bar \in Nat
    BY DEF TypeOK
  <2> DEFINE EvalPCs == {"entry", "filled", "slipped", "registered"}
  <2>3. ASSUME UNCHANGED <<entered, lastBar, evalBar, todo>>,
               pc' \in EvalPCs => pc \in EvalPCs
        PROVE  ReentryInv'
    BY <2>3 DEF ReentryInv, Left
  <2>4. ASSUME UNCHANGED <<entered, lastBar, evalBar>>, pc \in EvalPCs,
               todo # <<>>, todo' = Tail(todo)
        PROVE  ReentryInv'
    BY <2>4, LeftShrinks DEF ReentryInv
  <2>5. CASE CheckSignals
    <3>1. /\ bar > lastBar /\ lastBar' = bar /\ evalBar' = bar
          /\ entered' = entered
      BY <2>5 DEF CheckSignals, ProcessedBar, logVars
    <3>2. \A p \in entered : p[1] < bar /\ p[1] \in Nat
      BY <2>1, <2>2, <3>1 DEF ReentryInv
    <3> QED
      BY <2>2, <3>1, <3>2 DEF ReentryInv
  <2>6. CASE EmitTradeExecuted
    <3>1. /\ entered' = entered \cup {<<evalBar, Head(todo)>>}
          /\ todo' = Tail(todo) /\ UNCHANGED <<lastBar, evalBar>>
          /\ pc = "registered" /\ todo # <<>>
      BY <2>6 DEF EmitTradeExecuted, HandInv
    <3>2. Head(todo) \in Left /\ Left' \subseteq Left \ {Head(todo)}
      BY <3>1, LeftShrinks
    <3> QED
      BY <3>1, <3>2 DEF ReentryInv
  <2>7. CASE EntryBlocked
    BY <2>4, <2>7 DEF EntryBlocked, logVars
  <2>8. CASE SlippageEmit
    BY <2>4, <2>8 DEF SlippageEmit, EmitTradeClosed, HandInv
  <2>9. CASE Crash \/ Shutdown
    BY <2>9 DEF Crash, Shutdown, OneLifetime
  <2>10. CASE \/ (\E t \in Trades : BrokerCloses(t)) \/ NewBar \/ NewDay \/ Start
              \/ BootSync \/ PollNews \/ SyncPositions
              \/ (\E t \in Trades : SyncDrop(t)) \/ SyncEmit \/ SyncDone
              \/ SkipSignals \/ SignalsDone
    BY <2>3, <2>10
    DEF BrokerCloses, NewBar, NewDay, Start, BootSync, PollNews, SyncPositions,
        SyncDrop, SyncEmit, SyncDone, SkipSignals, SignalsDone, EmitTradeClosed,
        localVars, logVars
  <2>11. CASE \/ (\E t \in Trades : OrderFilled(t)) \/ SlippageFlatten
              \/ RegisterTrade \/ MonitorPositions
              \/ (\E t \in Trades : ExitClose(t)) \/ ExitRetire \/ ExitEmit
              \/ Sleep \/ UNCHANGED vars
    BY <2>3, <2>11
    DEF OrderFilled, SlippageFlatten, RegisterTrade, MonitorPositions, ExitClose,
        ExitRetire, ExitEmit, Sleep, EmitTradeClosed, vars, localVars, logVars
  <2> QED
    BY <2>5, <2>6, <2>7, <2>8, <2>9, <2>10, <2>11
    DEF Next, Run, Environment, Sync, Entry, Monitor
<1> QED
  BY TypeInvariant, LifetimeInvariant, <1>1, <1>2, PTL DEF Spec

\* With the cooldown filter on, a bar is entered at most once in a direction,
\* however often it is polled (_last_bar_ts).
THEOREM NoReentryOnSameBarCorrect ==
    ASSUME OneLifetime, "cooldown" \in Filters
    PROVE  Spec => NoReentryOnSameBar
<1>1. TypeOK /\ HandInv /\ ReentryInv /\ [Next]_vars
        => [pc = "registered" /\ pc' = "entry"
              => <<evalBar, Head(todo)>> \notin entered]_vars
  <2> SUFFICES ASSUME TypeOK, HandInv, ReentryInv, pc = "registered"
               PROVE  <<evalBar, Head(todo)>> \notin entered
    OBVIOUS
  <2>1. Head(todo) \in Left
    BY TailOmitsHead DEF HandInv, TypeOK, Left
  <2> QED
    BY <2>1 DEF ReentryInv
<1> QED
  BY TypeInvariant, ReentryInvariant, <1>1, PTL DEF Spec, NoReentryOnSameBar

-----------------------------------------------------------------------------
(* Orderly restarts: the operator may stop the runner between iterations    *)

\* The broker answers truthfully, no fill is lost, and the process ends only
\* between two iterations, through _shutdown.
OrderlyRestarts == Faults \subseteq {"stop"}

\* Whatever is open at the broker is on disk while the process is down, and
\* tracked (or in hand) while it runs, so that the first sync adopts only
\* positions load_state has restored the managed order of.
RestartInv ==
    /\ pc = "down" => open \subseteq saved
    /\ pc = "boot" => open \subseteq managed
    /\ pc \in {"down", "boot"} => tracked = {}
    /\ pc \notin {"down", "boot"} =>
          open \subseteq tracked \cup (IF pc = "filled" THEN {cur} ELSE {})
    /\ tracked \subseteq managed /\ invalid \subseteq tracked
    /\ pc \in {"sync_drop", "sync_emit"} => drop \cap open = {}
    /\ pc = "exit_retire" => cur \notin open
    /\ pc \in {"exit", "exit_retire", "exit_emit"} => invalid \subseteq drop
    /\ pc = "top" => invalid = {}

LEMMA RestartInvariant ==
    ASSUME OrderlyRestarts
    PROVE  Spec => []RestartInv
<1>1. Init => RestartInv
  BY DEF Init, RestartInv
<1>2. TypeOK /\ HandInv /\ RestartInv /\ [Next]_vars => RestartInv'
  <2> SUFFICES ASSUME TypeOK, HandInv, RestartInv, [Next]_vars
               PROVE  RestartInv'
    OBVIOUS
  <2> USE DEF TypeOK, HandInv, RestartInv
  <2>1. ASSUME NEW t \in Trades, BrokerCloses(t)
        PROVE  RestartInv'
    BY <2>1 DEF BrokerCloses, bookVars, localVars, logVars
  <2>2. CASE NewBar
    BY <2>2 DEF NewBar, bookVars, localVars, logVars
  <2>3. CASE Crash
    BY <2>3 DEF Crash, LoseMemory, brokerVars, logVars, OrderlyRestarts
  <2>4. CASE Shutdown
    BY <2>4 DEF Shutdown, LoseMemory, brokerVars, logVars
  <2>5. CASE Start
    BY <2>5 DEF Start, LoadedState, brokerVars, localVars, logVars
  <2>6. CASE BootSync
    BY <2>6 DEF BootSync, BrokerTrades, brokerVars, localVars, logVars, OrderlyRestarts
  <2>7. CASE NewDay
    BY <2>7 DEF NewDay, bookVars, logVars
  <2>8. CASE PollNews
    BY <2>8 DEF PollNews, brokerVars, localVars, logVars
  <2>9. CASE SyncPositions
    BY <2>9 DEF SyncPositions, BrokerTrades, Missing, logVars, brokerVars, OrderlyRestarts
  <2>10. ASSUME NEW t \in Trades, SyncDrop(t)
         PROVE  RestartInv'
    BY <2>10 DEF SyncDrop, Retire, brokerVars, logVars
  <2>11. CASE SyncEmit
    BY <2>11 DEF SyncEmit, EmitTradeClosed, brokerVars
  <2>12. CASE SyncDone
    BY <2>12 DEF SyncDone, brokerVars, bookVars, localVars, logVars
  <2>13. CASE SkipSignals
    BY <2>13 DEF SkipSignals, brokerVars, bookVars, localVars, logVars
  <2>14. CASE CheckSignals
    BY <2>14 DEF CheckSignals, ProcessedBar, brokerVars, bookVars, logVars
  <2>15. CASE SignalsDone
    BY <2>15 DEF SignalsDone, brokerVars, bookVars, localVars, logVars
  <2>16. CASE EntryBlocked
    BY <2>16 DEF EntryBlocked, bookVars, logVars, OrderlyRestarts
  <2>17. ASSUME NEW t \in Trades, OrderFilled(t)
         PROVE  RestartInv'
    BY <2>17 DEF OrderFilled, bookVars, logVars, OrderlyRestarts
  <2>18. CASE SlippageFlatten
    BY <2>18 DEF SlippageFlatten, CloseAtBroker, OrderlyRestarts, bookVars, localVars,
                logVars
  <2>19. CASE SlippageEmit
    BY <2>19 DEF SlippageEmit, EmitTradeClosed, brokerVars
  <2>20. CASE RegisterTrade
    BY <2>20 DEF RegisterTrade, brokerVars, localVars, logVars
  <2>21. CASE EmitTradeExecuted
    BY <2>21 DEF EmitTradeExecuted, brokerVars, bookVars
  <2>22. CASE MonitorPositions
    BY <2>22 DEF MonitorPositions, ThesisInvalid, brokerVars, bookVars, logVars
  <2>23. ASSUME NEW t \in Trades, ExitClose(t)
         PROVE  RestartInv'
    BY <2>23 DEF ExitClose, CloseAtBroker, OrderlyRestarts, bookVars, logVars
  <2>24. CASE ExitRetire
    BY <2>24 DEF ExitRetire, Retire, brokerVars, logVars
  <2>25. CASE ExitEmit
    BY <2>25 DEF ExitEmit, EmitTradeClosed, brokerVars
  <2>26. CASE Sleep
    BY <2>26 DEF Sleep, brokerVars, bookVars, localVars, logVars
  <2>27. CASE UNCHANGED vars
    BY <2>27 DEF vars, brokerVars, bookVars, localVars, logVars
  <2> QED
    BY <2>1, <2>2, <2>3, <2>4, <2>5, <2>6, <2>7, <2>8, <2>9, <2>10, <2>11, <2>12,
       <2>13, <2>14, <2>15, <2>16, <2>17, <2>18, <2>19, <2>20, <2>21, <2>22, <2>23, <2>24,
       <2>25, <2>26, <2>27
    DEF Next, Run, Environment, Sync, Entry, Monitor
<1> QED
  BY TypeInvariant, <1>1, <1>2, PTL DEF Spec

\* Every tracked position has a managed order, also across restarts, so its
\* stop keeps being moved by update_price.
THEOREM EveryPositionManagedCorrect ==
    ASSUME OrderlyRestarts
    PROVE  Spec => []EveryPositionManaged
<1>1. RestartInv => EveryPositionManaged
  BY DEF RestartInv, EveryPositionManaged
<1> QED
  BY RestartInvariant, <1>1, PTL

\* The signals of the bar under evaluation that may still become positions.
StillToEnter ==
    IF pc \in {"entry", "filled", "slipped"} THEN Len(todo)
    ELSE IF pc = "registered" THEN Len(todo) - 1
    ELSE 0

\* position_limit is read once per bar, so the positions already counted and
\* the signals still to enter stay together within one more than the limit;
\* so do the positions a start may find at the broker.
BoundInv ==
    /\ pc \in {"down", "boot"} => Cardinality(open) <= MaxOpen + 1
    /\ Cardinality(OpenPositions) + StillToEnter <= MaxOpen + 1

\* A set of trades is finite, and so are its subsets.
LEMMA CountTrades ==
    ASSUME NEW S \in SUBSET Trades
    PROVE  /\ IsFiniteSet(S) /\ Cardinality(S) \in Nat
           /\ \A T \in SUBSET S : Cardinality(T) \in Nat /\ Cardinality(T) <= Cardinality(S)
           /\ \A t \in Trades : Cardinality(S \cup {t}) <= Cardinality(S) + 1
<1>1. IsFiniteSet(S)
  BY FS_Subset, TradesAssumption
<1>2. ASSUME NEW T \in SUBSET S
      PROVE  Cardinality(T) \in Nat /\ Cardinality(T) <= Cardinality(S)
  BY <1>1, FS_Subset, FS_CardinalityType
<1>3. ASSUME NEW t \in Trades
      PROVE  Cardinality(S \cup {t}) <= Cardinality(S) + 1
  <2>1. Cardinality(S \cup {t}) = IF t \in S THEN Cardinality(S) ELSE Cardinality(S) + 1
    BY <1>1, FS_AddElement
  <2>2. Cardinality(S) \in Nat
    BY <1>1, FS_CardinalityType
  <2> QED
    BY <2>1, <2>2
<1> QED
  BY <1>1, <1>2, <1>3, FS_CardinalityType

\* At most two signals, and one less after each.
LEMMA SignalCount ==
    ASSUME NEW s \in Signals
    PROVE  /\ Len(s) \in 0..2
           /\ s # <<>> => Len(s) > 0 /\ Len(Tail(s)) = Len(s) - 1
<1>1. s \in Seq(Directions)
  <2>1. <<>> \in Seq(Directions)
    OBVIOUS
  <2>2. \A d, e \in Directions : <<d>> \in Seq(Directions) /\ <<d, e>> \in Seq(Directions)
    OBVIOUS
  <2> QED
    BY <2>1, <2>2 DEF Signals, Directions
<1>2. Len(<<>>) = 0 /\ Len(<<"LONG">>) = 1 /\ Len(<<"SHORT">>) = 1
      /\ Len(<<"LONG", "SHORT">>) = 2
  OBVIOUS
<1>3. Len(s) \in 0..2
  BY <1>2 DEF Signals
<1> QED
  BY <1>1, <1>3

LEMMA BoundInvariant ==
    ASSUME OrderlyRestarts, "position_limit" \in Filters
    PROVE  Spec => []BoundInv
<1> USE LimitsAssumption
<1>1. Init => BoundInv
  BY FS_EmptySet DEF Init, BoundInv, StillToEnter, OpenPositions
<1>2. TypeOK /\ HandInv /\ RestartInv /\ RestartInv' /\ BoundInv /\ [Next]_vars => BoundInv'
  <2> SUFFICES ASSUME TypeOK, HandInv, RestartInv, RestartInv', BoundInv, [Next]_vars
               PROVE  BoundInv'
    OBVIOUS
  <2> DEFINE EnterPCs == {"entry", "filled", "slipped", "registered"}
  <2>0. /\ Cardinality(open) \in Nat /\ Cardinality(OpenPositions) \in Nat
        /\ StillToEnter \in 0..2 /\ MaxOpen \in Nat
        /\ pc \notin EnterPCs => StillToEnter = 0
    BY CountTrades, SignalCount DEF TypeOK, HandInv, OpenPositions, StillToEnter
  \* No position is added and nothing more is left to enter.
  <2>1. ASSUME OpenPositions' \subseteq OpenPositions, StillToEnter' <= StillToEnter,
               StillToEnter' \in Nat,
               pc' \in {"down", "boot"} => /\ pc \in {"down", "boot"}
                                           /\ open' \subseteq open
        PROVE  BoundInv'
    <3>1. /\ Cardinality(OpenPositions') \in Nat
          /\ Cardinality(OpenPositions') <= Cardinality(OpenPositions)
      BY <2>1, CountTrades DEF TypeOK, OpenPositions
    <3>2. open' \subseteq open
            => Cardinality(open') \in Nat /\ Cardinality(open') <= Cardinality(open)
      BY CountTrades DEF TypeOK
    <3> QED
      BY <2>0, <2>1, <3>1, <3>2 DEF BoundInv, OpenPositions
  \* The loop is at no point of the entry, or stays at the same one.
  <2>2. ASSUME pc' = pc, todo' = todo, OpenPositions' \subseteq OpenPositions, open' \subseteq open
        PROVE  BoundInv'
    BY <2>0, <2>1, <2>2 DEF StillToEnter
  <2>3. ASSUME pc' \notin EnterPCs \cup {"down", "boot"}, OpenPositions' \subseteq OpenPositions
        PROVE  BoundInv'
    <3>1. StillToEnter' = 0
      BY <2>3 DEF StillToEnter
    <3> QED
      BY <2>0, <2>1, <2>3, <3>1
  <2>4. CASE NewBar \/ NewDay \/ (\E t \in Trades : BrokerCloses(t)) \/ UNCHANGED vars
    BY <2>2, <2>4
    DEF NewBar, NewDay, BrokerCloses, vars, brokerVars, bookVars, localVars, OpenPositions
  <2>5. CASE Crash
    BY <2>5 DEF Crash, OrderlyRestarts
  <2>6. CASE Shutdown
    <3>1. open \subseteq OpenPositions /\ open' = open /\ OpenPositions' = {} /\ pc' = "down"
      BY <2>6 DEF Shutdown, LoseMemory, brokerVars, OpenPositions, RestartInv
    <3>2. Cardinality(open) <= Cardinality(OpenPositions)
      BY <3>1, CountTrades DEF TypeOK, OpenPositions
    <3>3. Cardinality(OpenPositions') = 0 /\ StillToEnter' = 0
      BY <3>1, FS_EmptySet DEF StillToEnter
    <3> QED
      BY <2>0, <3>1, <3>2, <3>3 DEF BoundInv
  <2>7. CASE Start
    <3>1. pc = "down" /\ pc' = "boot" /\ UNCHANGED <<open, tracked, invalid, todo>>
      BY <2>7 DEF Start, brokerVars, localVars
    <3>2. StillToEnter' = 0
      BY <3>1 DEF StillToEnter
    <3> QED
      BY <2>0, <2>1, <3>1, <3>2 DEF OpenPositions
  <2>8. CASE BootSync
    <3>1. pc = "boot" /\ tracked' = open /\ pc' = "top" /\ UNCHANGED <<invalid, open>>
      BY <2>8 DEF BootSync, BrokerTrades, OrderlyRestarts, brokerVars
    <3>2. OpenPositions' \subseteq open
      BY <3>1 DEF OpenPositions
    <3>3. Cardinality(OpenPositions') \in Nat /\ Cardinality(OpenPositions') <= Cardinality(open)
      BY <3>2, CountTrades DEF TypeOK
    <3>4. StillToEnter' = 0
      BY <3>1 DEF StillToEnter
    <3> QED
      BY <2>0, <3>1, <3>3, <3>4 DEF BoundInv
  <2>9. CASE PollNews
    BY <2>3, <2>9 DEF PollNews, OpenPositions
  <2>10. CASE SyncPositions
    <3>1. pc = "sync" /\ tracked' = tracked \cup open /\ pc' = "sync_drop" /\ invalid' = invalid
      BY <2>10 DEF SyncPositions, BrokerTrades, OrderlyRestarts
    <3>2. OpenPositions' \subseteq OpenPositions
      BY <3>1 DEF RestartInv, OpenPositions
    <3> QED
      BY <2>3, <3>1, <3>2
  <2>11. CASE (\E t \in Trades : SyncDrop(t)) \/ ExitRetire
    BY <2>3, <2>11 DEF SyncDrop, ExitRetire, Retire, OpenPositions
  <2>12. CASE \/ SyncEmit \/ SyncDone \/ SkipSignals \/ SignalsDone \/ MonitorPositions
              \/ (\E t \in Trades : ExitClose(t)) \/ ExitEmit \/ Sleep
    BY <2>3, <2>12
    DEF SyncEmit, SyncDone, SkipSignals, SignalsDone, MonitorPositions, ExitClose,
        ExitEmit, Sleep, bookVars, OpenPositions
  <2>13. CASE CheckSignals
    <3>1. /\ Cardinality(OpenPositions) < MaxOpen /\ todo' \in Signals /\ pc' = "entry"
          /\ UNCHANGED <<tracked, invalid>>
      BY <2>13 DEF CheckSignals, CheckPositionLimit, bookVars
    <3>2. OpenPositions' = OpenPositions /\ StillToEnter' = Len(todo')
      BY <3>1 DEF OpenPositions, StillToEnter
    <3>3. Len(todo') \in 0..2
      BY <3>1, SignalCount
    <3> QED
      BY <2>0, <3>1, <3>2, <3>3 DEF BoundInv
  <2>14. CASE EntryBlocked \/ SlippageEmit
    <3>1. /\ pc \in {"entry", "slipped"} /\ todo # <<>> /\ todo' = Tail(todo) /\ pc' = "entry"
          /\ UNCHANGED <<tracked, invalid>>
      BY <2>14 DEF EntryBlocked, SlippageEmit, bookVars, HandInv
    <3>2. /\ StillToEnter = Len(todo) /\ StillToEnter' = Len(Tail(todo))
          /\ OpenPositions' = OpenPositions
      BY <3>1 DEF StillToEnter, OpenPositions
    <3>3. Len(todo) \in 0..2 /\ Len(todo) > 0 /\ Len(Tail(todo)) = Len(todo) - 1
      BY <3>1, SignalCount DEF TypeOK
    <3> QED
      BY <2>0, <2>1, <3>1, <3>2, <3>3
  <2>15. CASE (\E t \in Trades : OrderFilled(t)) \/ SlippageFlatten
    <3>1. /\ pc \in {"entry", "filled"} /\ pc' \in {"filled", "slipped"}
          /\ UNCHANGED <<todo, tracked, invalid>>
      BY <2>15 DEF OrderFilled, SlippageFlatten, bookVars, localVars
    <3>2. StillToEnter' = StillToEnter /\ OpenPositions' = OpenPositions
      BY <3>1 DEF StillToEnter, OpenPositions
    <3> QED
      BY <2>0, <2>1, <3>1, <3>2
  <2>16. CASE RegisterTrade
    <3>1. /\ pc = "filled" /\ pc' = "registered" /\ tracked' = tracked \cup {cur}
          /\ UNCHANGED <<todo, invalid>> /\ cur \in Trades
      BY <2>16 DEF RegisterTrade, localVars, HandInv
    <3>2. StillToEnter' = StillToEnter - 1
      BY <3>1 DEF StillToEnter
    <3>3. /\ OpenPositions' \subseteq OpenPositions \cup {cur}
          /\ OpenPositions \cup {cur} \subseteq Trades
      BY <3>1 DEF OpenPositions, TypeOK
    <3>4. /\ Cardinality(OpenPositions \cup {cur}) \in Nat
          /\ Cardinality(OpenPositions \cup {cur}) <= Cardinality(OpenPositions) + 1
      BY <3>1, <3>3, CountTrades
    <3>5. /\ Cardinality(OpenPositions') \in Nat
          /\ Cardinality(OpenPositions') <= Cardinality(OpenPositions \cup {cur})
      BY <3>3, CountTrades
    <3> QED
      BY <2>0, <3>1, <3>2, <3>4, <3>5 DEF BoundInv
  <2>17. CASE EmitTradeExecuted
    <3>1. /\ pc = "registered" /\ pc' = "entry" /\ todo # <<>> /\ todo' = Tail(todo)
          /\ UNCHANGED <<tracked, invalid>>
      BY <2>17 DEF EmitTradeExecuted, bookVars, HandInv
    <3>2. /\ StillToEnter = Len(todo) - 1 /\ StillToEnter' = Len(Tail(todo))
          /\ OpenPositions' = OpenPositions
      BY <3>1 DEF StillToEnter, OpenPositions
    <3>3. Len(todo) \in 0..2 /\ Len(todo) > 0 /\ Len(Tail(todo)) = Len(todo) - 1
      BY <3>1, SignalCount DEF TypeOK
    <3> QED
      BY <2>0, <2>1, <3>1, <3>2, <3>3
  <2> QED
    BY <2>4, <2>5, <2>6, <2>7, <2>8, <2>9, <2>10, <2>11, <2>12, <2>13, <2>14, <2>15,
       <2>16, <2>17
    DEF Next, Run, Environment, Sync, Entry, Monitor
<1> QED
  BY TypeInvariant, RestartInvariant, <1>1, <1>2, PTL DEF Spec

\* The exposure stays within one more than max_open_positions.
THEOREM ExposureBoundCorrect ==
    ASSUME OrderlyRestarts
    PROVE  Spec => []ExposureBound
<1>1. ASSUME "position_limit" \in Filters
      PROVE  Spec => []ExposureBound
  <2>1. TypeOK /\ HandInv /\ BoundInv => ExposureBound
    <3> SUFFICES ASSUME TypeOK, HandInv, BoundInv
                 PROVE  Cardinality(OpenPositions) <= MaxOpen + 1
      BY DEF ExposureBound
    <3>1. Cardinality(OpenPositions) \in Nat /\ StillToEnter \in 0..2
      BY CountTrades, SignalCount DEF TypeOK, HandInv, OpenPositions, StillToEnter
    <3>2. Cardinality(OpenPositions) + StillToEnter <= MaxOpen + 1 /\ MaxOpen \in Nat
      BY LimitsAssumption DEF BoundInv
    <3> QED
      BY <3>1, <3>2
  <2> QED
    BY <1>1, TypeInvariant, BoundInvariant, <2>1, PTL
<1>2. ASSUME "position_limit" \notin Filters
      PROVE  Spec => []ExposureBound
  <2>1. ExposureBound
    BY <1>2 DEF ExposureBound
  <2> QED
    BY <2>1, PTL
<1> QED
  BY <1>1, <1>2
=============================================================================
