------------------------------ MODULE Routing ------------------------------
(***************************************************************************)
(* QuantBridge's multi-account execution: AccountSelector ranks the        *)
(* accounts, ExecutionPlanBuilder makes a plan of them, and                *)
(* MultiAccountExecutionOrchestrator works it off, one order manager per   *)
(* account (quantbridge/src/quantbridge/router/), with the risk check of   *)
(* scripts/run_multi_account_execution_check.py, which wires no failsafe.  *)
(*                                                                         *)
(* Accounts are numbered by priority.  What the selector and the risk      *)
(* check read of an account is outside this module: it is chosen when it   *)
(* is read, so it may have changed since the plan was made.  What          *)
(* place_and_validate goes through is module OrderLifecycle; here it is    *)
(* its outcomes, each with the position it may leave behind.               *)
(***************************************************************************)
EXTENDS PropGuard, FiniteSets, Sequences, SequencesExt

CONSTANTS
    NumAccounts    \* accounts with a policy

ASSUME RoutingAssumption == NumAccounts \in Nat \ {0}

Accounts == 1 .. NumAccounts

\* The AccountLimits of every account, and its balance.
Limits == [dailyDrawdown |-> 4, totalDrawdown |-> 8, maxPositions |-> 1,
           maxOpenRisk |-> 3, symbolExposure |-> 3, maxRiskPerTrade |-> 1,
           minUnits |-> 2, maxUnits |-> 4]
Balance == 100

\* What the broker says of an account when the risk check asks.
Answers == [readable : BOOLEAN, equity : {95, 100}, positions : {0, 1}]

Modes == {"single", "primary_backup", "fanout"}
Successes == {"filled", "validated"}
Confirmed == Successes \cup {"protection_unconfirmed"}
Outcomes == Confirmed \cup {"risk_blocked", "rejected", "fill_unconfirmed"}

VARIABLES
    routePc,    \* "idle", "plan" or "attempt"
    request,    \* mode, account group, fanout limit and units
    plan,       \* the planned accounts in order
    eligible,   \* history: the accounts the selector found eligible
    results,    \* AccountExecutionResults so far
    answer,     \* overall_success, "none" before it is known
    gained,     \* history: accounts with a position opened by this request
    rows        \* the execution events of this request

routeVars == <<routePc, request, plan, eligible, results, answer, gained, rows>>

NoRequest == [mode |-> "single", group |-> {}, fanout |-> 0, units |-> 1]

RouteInit ==
    /\ routePc = "idle" /\ request = NoRequest
    /\ plan = <<>> /\ eligible = {} /\ results = <<>>
    /\ answer = "none" /\ gained = {} /\ rows = <<>>

\* A request comes in, with a client_order_ref of its own.
Submit ==
    /\ routePc = "idle"
    /\ \E mode \in Modes, group \in SUBSET Accounts, fanout \in Accounts \cup {0}, units \in {1, 3} :
            /\ mode # "fanout" => fanout = 0
            /\ request' = [mode |-> mode, group |-> group, fanout |-> fanout, units |-> units]
    /\ routePc' = "plan"
    /\ plan' = <<>> /\ eligible' = {} /\ results' = <<>>
    /\ answer' = "none" /\ gained' = {} /\ rows' = <<>>

-----------------------------------------------------------------------------
(* Selection and plan.                                                      *)

\* rank_eligible: the accounts without a reason to skip them, by priority.
RankEligible(able) ==
    CHOOSE ranked \in [1 .. Cardinality(able) -> able] :
        \A i, j \in DOMAIN ranked : i < j => ranked[i] < ranked[j]

First(seq, n) == SubSeq(seq, 1, IF n < Len(seq) THEN n ELSE Len(seq))

\* Which of the eligible accounts get an order.
Planned(r, able) ==
    LET ranked == RankEligible(able)
    IN CASE r.mode = "single" -> First(ranked, 1)
         [] r.mode = "primary_backup" -> ranked
         [] r.mode = "fanout" -> First(ranked, r.fanout)

\* An empty plan is answered at once.
BuildPlan ==
    /\ routePc = "plan"
    /\ \E able \in SUBSET request.group :
            /\ eligible' = able
            /\ plan' = Planned(request, able)
    /\ IF plan' = <<>>
         THEN routePc' = "idle" /\ answer' = "failure"
         ELSE routePc' = "attempt" /\ UNCHANGED answer
    /\ UNCHANGED <<request, results, gained, rows>>

-----------------------------------------------------------------------------
(* Execution.                                                               *)

\* over is history: the account was known to be at a limit of its own.
Result(a, attempted, status, over) ==
    [account |-> a, attempted |-> attempted, status |-> status, over |-> over,
     success |-> attempted /\ status \in Successes]

AtLimit(said) ==
    \/ said.readable /\ (Balance - said.equity) * 100 >= Limits.dailyDrawdown * Balance
    \/ said.positions >= Limits.maxPositions

SuccessSeen == \E i \in DOMAIN results : results[i].success
NextAccount == plan[Len(results) + 1]
Working == routePc = "attempt" /\ Len(results) < Len(plan)

\* The script's _risk_check: what cannot be read counts as 0, and the
\* balance of the moment stands for that of the day and of the start.
Snapshot(said) ==
    LET balance == IF said.readable THEN Balance ELSE 0
    IN [breached |-> FALSE, paused |-> FALSE, dayBalance |-> balance, startBalance |-> balance,
        equity |-> IF said.readable THEN said.equity ELSE 0,
        positions |-> said.positions, openRisk |-> 0, exposure |-> 0]

RiskDecision(said) == Evaluate(Limits, [units |-> request.units, risk |-> 0], Snapshot(said))

Row(type, a) == [type |-> type, account |-> a]

\* (A mutant: only a success is reported as filled.)
ExecutionEventsOfSuccess(a, status, traded) ==
    (IF traded THEN <<Row("order_submitted", a)>> ELSE <<>>) \o
    (IF status \in Successes THEN <<Row("order_filled", a), Row("trade_executed", a)>> ELSE <<>>)

\* _emit_quantlog_execution_events: order_submitted needs a trade id,
\* order_filled and trade_executed a confirmed fill.
ExecutionEvents(a, status, traded) ==
    (IF traded THEN <<Row("order_submitted", a)>> ELSE <<>>) \o
    (IF status \in Confirmed THEN <<Row("order_filled", a), Row("trade_executed", a)>> ELSE <<>>)

Record(a, said, status, traded, opened) ==
    /\ results' = Append(results, Result(a, TRUE, status, AtLimit(said)))
    /\ rows' = rows \o ExecutionEvents(a, status, traded)
    /\ gained' = IF opened THEN gained \cup {a} ELSE gained
    /\ UNCHANGED <<routePc, request, plan, eligible, answer>>

\* One account of the plan: place_and_validate and its outcome.
RiskBlocked(a, said) ==
    /\ ~RiskDecision(said).allowed
    /\ Record(a, said, "risk_blocked", FALSE, FALSE)

\* The broker said no; the position may be there all the same.
Rejected(a, said) ==
    /\ RiskDecision(said).allowed
    /\ \E lost, traded \in BOOLEAN : Record(a, said, "rejected", traded, lost)

FillUnconfirmed(a, said) ==
    /\ RiskDecision(said).allowed
    /\ \E opened, traded \in BOOLEAN : Record(a, said, "fill_unconfirmed", traded, opened)

FillConfirmed(a, said) ==
    /\ RiskDecision(said).allowed
    /\ \E status \in Confirmed : Record(a, said, status, TRUE, TRUE)

MayAttempt == request.mode # "primary_backup" \/ ~SuccessSeen

Attempt ==
    /\ Working
    /\ MayAttempt
    /\ \E said \in Answers :
          \/ RiskBlocked(NextAccount, said) \/ Rejected(NextAccount, said)
          \/ FillUnconfirmed(NextAccount, said) \/ FillConfirmed(NextAccount, said)

NotAttempted ==
    /\ Working
    /\ ~MayAttempt
    /\ results' = Append(results, Result(NextAccount, FALSE, "not_attempted_after_success", FALSE))
    /\ UNCHANGED <<routePc, request, plan, eligible, answer, gained, rows>>

AnySuccess == \E i \in DOMAIN results : results[i].success
AllSuccess == \A i \in DOMAIN results : results[i].attempted => results[i].success

OverallSuccess ==
    IF request.mode \in {"primary_backup", "single"}
      THEN AnySuccess
      ELSE AllSuccess /\ \E i \in DOMAIN results : results[i].attempted

Aggregate ==
    /\ routePc = "attempt"
    /\ Len(results) = Len(plan)
    /\ answer' = IF OverallSuccess THEN "success" ELSE "failure"
    /\ routePc' = "idle"
    /\ UNCHANGED <<request, plan, eligible, results, gained, rows>>

\* An order manager raises, or the process dies: nobody is answered.
Abort ==
    /\ routePc # "idle"
    /\ routePc' = "idle"
    /\ UNCHANGED <<request, plan, eligible, results, answer, gained, rows>>

RouteNext == Submit \/ BuildPlan \/ Attempt \/ NotAttempted \/ Aggregate \/ Abort

RouteSpec == RouteInit /\ [][RouteNext]_routeVars

-----------------------------------------------------------------------------
(* Properties.                                                              *)

ResultsOf(a) == {i \in DOMAIN results : results[i].account = a}
Attempted(a) == \E i \in ResultsOf(a) : results[i].attempted

\* primary_backup goes through the accounts by priority: an order is sent for
\* an account only if every eligible account before it was tried and did not
\* succeed (execution_orchestrator.py execute, account_selector.py).
BackupOnlyAfterFailure ==
    request.mode = "primary_backup" =>
        \A i \in DOMAIN results : results[i].attempted =>
            \A b \in eligible : b < results[i].account =>
                \E j \in ResultsOf(b) : results[j].attempted /\ ~results[j].success

\* With an answer out, every position the request opened is on an account the
\* answer says was attempted, not blocked by the risk check, and the events
\* say it was filled unless its result says it is not known to be.
ExposureReported ==
    answer # "none" =>
        \A a \in gained :
            \E i \in ResultsOf(a) :
                \/ results[i].status \in {"rejected", "fill_unconfirmed"}
                \/ results[i].status \in Confirmed
                   /\ \E j \in DOMAIN rows : rows[j] = Row("order_filled", a)

\* overall_success means what the routing mode promises: the one order of
\* single and primary_backup, or all the orders of a fanout, are filled.
SuccessIsComplete ==
    answer = "success" =>
        IF request.mode = "fanout"
          THEN \A i \in DOMAIN plan : plan[i] \in gained /\ ResultsOf(plan[i]) # {}
          ELSE Cardinality({i \in DOMAIN results : results[i].success}) = 1

\* No order is sent for an account that is known to have a floating loss of
\* the daily limit or its maximum of positions (prop_guard.py evaluate).
AccountAtLimitNotTraded ==
    \A i \in DOMAIN results : results[i].over => results[i].status = "risk_blocked"

\* Whatever each account answers, and in every mode: no backup before the
\* primary failed, no position without an answer for it, no success that is
\* not complete, no order on an account known to be at a limit.
RoutedSafely ==
    /\ BackupOnlyAfterFailure
    /\ ExposureReported
    /\ SuccessIsComplete
    /\ AccountAtLimitNotTraded
=============================================================================
