---------------------------- MODULE TradeJournal ----------------------------
(***************************************************************************)
(* What the QuantLog journal promises about trades, whoever writes it:     *)
(* trade_executed and trade_closed of a trade come in that order, at most  *)
(* once each, and trade_closed only once the position is gone.  It says    *)
(* nothing about when an event is written, nor that it is: a process that  *)
(* dies may never write it.                                                *)
(***************************************************************************)
EXTENDS Naturals

CONSTANT Trades

VARIABLES
    live,       \* trades with an open position at the broker
    seen,       \* trades that were ever filled
    executed,   \* trades with a trade_executed event
    closed      \* number of trade_closed events of each trade

jvars == <<live, seen, executed, closed>>

Init ==
    /\ live = {} /\ seen = {} /\ executed = {}
    /\ closed = [t \in Trades |-> 0]

Fill(t) ==
    /\ t \notin seen
    /\ live' = live \cup {t} /\ seen' = seen \cup {t}
    /\ UNCHANGED <<executed, closed>>

Flatten(t) ==
    /\ t \in live
    /\ live' = live \ {t}
    /\ UNCHANGED <<seen, executed, closed>>

JournalExecuted(t) ==
    /\ t \in seen \ executed
    /\ closed[t] = 0
    /\ executed' = executed \cup {t}
    /\ UNCHANGED <<live, seen, closed>>

JournalClosed(t) ==
    /\ t \in seen \ live
    /\ closed[t] = 0
    /\ closed' = [closed EXCEPT ![t] = 1]
    /\ UNCHANGED <<live, seen, executed>>

Next == \E t \in Trades : Fill(t) \/ Flatten(t) \/ JournalExecuted(t) \/ JournalClosed(t)

Spec == Init /\ [][Next]_jvars
=============================================================================
