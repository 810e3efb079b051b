--------------------------- MODULE BridgeAccount ---------------------------
(***************************************************************************)
(* One broker account as QuantBridge's processes share it: its positions   *)
(* of one symbol, its status in account_states.json, the marker file       *)
(* state/trading.paused, and the failsafe, which the runtime loop and the  *)
(* order script each run in a RuntimeControlLoop object of their own       *)
(* (quantbridge/src/quantbridge/execution/runtime_control.py).             *)
(*                                                                         *)
(* The status changes in one step here; AccountStates looks inside.        *)
(***************************************************************************)
EXTENDS Naturals, FiniteSets

CONSTANTS
    MaxTrade,    \* bound: positions are numbered 1..MaxTrade in the order of their orders
    LoopCloses,  \* close_on_failsafe of the runtime loop
    Faults       \* the faults the environment may produce

\* sync_error: get_open_trades answers [] though positions are open;
\* close_fails, modify_fails: the call returns False and nothing happened;
\* unprotected: the fill does not carry the stop and target of the order;
\* partial_fill: fewer units fill than were ordered;
\* lost_fill: the request times out, the order fills all the same;
\* no_trade_id: the answer to a fill names the order and no position;
\* late_fill: the order fills after the script stopped waiting for it;
\* disconnect: the broker cannot be reached; crash: a process dies.
FaultNames == {"sync_error", "close_fails", "modify_fails", "unprotected", "partial_fill",
               "lost_fill", "no_trade_id", "late_fill", "disconnect", "crash"}

ASSUME AccountAssumption ==
    MaxTrade \in Nat /\ LoopCloses \in BOOLEAN /\ Faults \subseteq FaultNames

Trades == 1..MaxTrade
NoTrade == 0

Processes == {"loop", "order"}

VARIABLES
    open,        \* the open positions
    lastTrade,   \* the newest number a position was given
    fullSize,    \* the open positions that have the units that were ordered
    guarded,     \* the open positions that carry the requested stop and target
    ver,         \* changes when stop, target or size of the newest position change
    status,      \* "active", or "blocked": paused, breached or disabled
    marker,      \* state/trading.paused exists
    fsPc,        \* where the failsafe of each process is, "none" outside it
    fsLeft,      \* the positions its close_all still has to close
    paused       \* RuntimeControlLoop._paused of each process

positionVars == <<open, lastTrade, fullSize, guarded, ver>>
failsafeVars == <<marker, fsPc, fsLeft, paused>>
accountVars == <<positionVars, status, failsafeVars>>

AccountTypeOK ==
    /\ open \subseteq Trades /\ lastTrade \in 0..MaxTrade
    /\ fullSize \subseteq Trades /\ guarded \subseteq Trades
    /\ ver \in {0, 1}
    /\ status \in {"active", "blocked"} /\ marker \in BOOLEAN
    /\ fsPc \in [Processes -> {"none", "snapshot", "close", "pause"}]
    /\ fsLeft \in [Processes -> SUBSET Trades]
    /\ paused \in [Processes -> BOOLEAN]

AccountInit ==
    /\ open = {} /\ lastTrade = 0 /\ fullSize = {} /\ guarded = {} /\ ver = 0
    /\ status = "active" /\ marker = FALSE
    /\ fsPc = [p \in Processes |-> "none"]
    /\ fsLeft = [p \in Processes |-> {}]
    /\ paused = [p \in Processes |-> FALSE]

\* What sync_positions answers, to anyone, at this moment.
Listings == {open} \cup IF "sync_error" \in Faults THEN {{}} ELSE {}

-----------------------------------------------------------------------------
(* The broker and the operator *)

Touch == ver' = 1 - ver

\* A position gets its number when its order is accepted.
Number(t) ==
    /\ t = lastTrade + 1
    /\ t <= MaxTrade
    /\ lastTrade' = t

\* It opens; what the order asked for may be missing.
Fill(t, full, guards) ==
    /\ open' = open \cup {t}
    /\ fullSize' = IF full THEN fullSize \cup {t} ELSE fullSize
    /\ guarded' = IF guards THEN guarded \cup {t} ELSE guarded
    /\ UNCHANGED ver

RemovePosition(t) ==
    /\ open' = open \ {t}
    /\ fullSize' = fullSize \ {t}
    /\ guarded' = guarded \ {t}
    /\ UNCHANGED <<lastTrade, ver>>

\* Stop, target or a manual close.
BrokerCloses(t) ==
    /\ t \in open
    /\ RemovePosition(t)
    /\ UNCHANGED <<status, failsafeVars>>

\* A stop or target was moved, or part of the position closed, by another
\* system (QuantBuild trades the same accounts) or by hand.
PositionChanges ==
    /\ open # {}
    /\ Touch
    /\ UNCHANGED <<open, lastTrade, fullSize, guarded, status, failsafeVars>>

\* Another system or a person opens a position.
ForeignOpen ==
    /\ Number(lastTrade + 1)
    /\ Fill(lastTrade + 1, TRUE, TRUE)
    /\ UNCHANGED <<status, failsafeVars>>

\* account_control pause, breach and resume; no code removes the marker, so
\* whoever wants orders again removes it by hand.
OperatorBlocks ==
    /\ status' = "blocked"
    /\ UNCHANGED <<positionVars, failsafeVars>>

OperatorResumes ==
    /\ status' = "active"
    /\ UNCHANGED <<positionVars, failsafeVars>>

OperatorRemovesMarker ==
    /\ marker' = FALSE
    /\ UNCHANGED <<positionVars, status, fsPc, fsLeft, paused>>

AccountEnvironment ==
    \/ \E t \in Trades : BrokerCloses(t)
    \/ PositionChanges \/ ForeignOpen
    \/ OperatorBlocks \/ OperatorResumes \/ OperatorRemovesMarker

-----------------------------------------------------------------------------
(* _trigger_failsafe of process p: close everything, then pause *)

\* The call; a process that is paused already returns at once.
TriggerFailsafe(p) ==
    fsPc' = [fsPc EXCEPT ![p] = IF paused[p] THEN "none"
                                ELSE IF p = "loop" /\ ~LoopCloses THEN "close"
                                ELSE "snapshot"]

\* _close_all_positions: one listing decides what is closed.
FailsafeSnapshot(p) ==
    /\ fsPc[p] = "snapshot"
    /\ \E listing \in Listings : fsLeft' = [fsLeft EXCEPT ![p] = listing]
    /\ fsPc' = [fsPc EXCEPT ![p] = "close"]
    /\ UNCHANGED <<positionVars, status, marker, paused>>

\* A position that is gone by now cannot be closed; the result only counts.
FailsafeClose(p) ==
    /\ fsPc[p] = "close"
    /\ \E t \in fsLeft[p] :
          /\ fsLeft' = [fsLeft EXCEPT ![p] = @ \ {t}]
          /\ \/ t \in open /\ RemovePosition(t)
             \/ (t \notin open \/ "close_fails" \in Faults) /\ UNCHANGED positionVars
    /\ UNCHANGED <<status, marker, fsPc, paused>>

\* _paused and the marker, and only then the account.
FailsafeMark(p) ==
    /\ fsPc[p] = "close"
    /\ fsLeft[p] = {}
    /\ paused' = [paused EXCEPT ![p] = TRUE]
    /\ marker' = TRUE
    /\ fsPc' = [fsPc EXCEPT ![p] = "pause"]
    /\ UNCHANGED <<positionVars, status, fsLeft>>

FailsafePause(p) ==
    /\ fsPc[p] = "pause"
    /\ status' = "blocked"
    /\ fsPc' = [fsPc EXCEPT ![p] = "none"]
    /\ UNCHANGED <<positionVars, marker, fsLeft, paused>>

Failsafe(p) ==
    FailsafeSnapshot(p) \/ FailsafeClose(p) \/ FailsafeMark(p) \/ FailsafePause(p)

\* A process ends, or starts afresh: its object is gone.
ForgetFailsafe(p) ==
    /\ fsPc' = [fsPc EXCEPT ![p] = "none"]
    /\ fsLeft' = [fsLeft EXCEPT ![p] = {}]
    /\ paused' = [paused EXCEPT ![p] = FALSE]
=============================================================================
