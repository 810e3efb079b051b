---------------------------- MODULE RoutingProofs ----------------------------
(***************************************************************************)
(* What the routing of orders guarantees for any number of accounts: an    *)
(* account known to be at a limit is not traded, no position is opened     *)
(* that the results and the events do not account for, a backup waits for  *)
(* the accounts before it to fail, and a success is complete.              *)
(***************************************************************************)
EXTENDS Routing, FiniteSetTheorems, WellFoundedInduction, TLAPS

\* Result i accounts for the position that a has.
Reports(i, a) ==
    /\ results[i].account = a
    /\ \/ results[i].status \in {"rejected", "fill_unconfirmed"}
       \/ results[i].status \in Confirmed
          /\ \E j \in DOMAIN rows : rows[j] = Row("order_filled", a)

\* Every position is accounted for as soon as it is there, not only when the
\* request is answered; that makes the property inductive.
RoutingInv ==
    /\ \E S : results \in Seq(S)
    /\ \E S : rows \in Seq(S)
    /\ AccountAtLimitNotTraded
    /\ \A a \in gained : \E i \in DOMAIN results : Reports(i, a)

-----------------------------------------------------------------------------
(* Sequences that grow, whatever is in them.                                *)

LEMMA SeqWidened == ASSUME NEW S, NEW T, S \subseteq T, NEW s \in Seq(S) PROVE s \in Seq(T)
OBVIOUS

LEMMA AppendGrows ==
    ASSUME NEW S, NEW s \in Seq(S), NEW e
    PROVE  /\ Append(s, e) \in Seq(S \cup {e})
           /\ \A i \in DOMAIN s : i \in DOMAIN Append(s, e) /\ Append(s, e)[i] = s[i]
           /\ \A i \in DOMAIN Append(s, e) : i \in DOMAIN s \/ Append(s, e)[i] = e
           /\ \E i \in DOMAIN Append(s, e) : Append(s, e)[i] = e
<1>1. s \in Seq(S \cup {e}) /\ e \in S \cup {e}
  BY SeqWidened
<1>2. /\ Append(s, e) \in Seq(S \cup {e})
      /\ DOMAIN s = 1 .. Len(s) /\ DOMAIN Append(s, e) = 1 .. Len(s) + 1
      /\ \A i \in 1 .. Len(s) : Append(s, e)[i] = s[i]
      /\ Append(s, e)[Len(s) + 1] = e
  BY <1>1
<1>3. Len(s) \in Nat
  OBVIOUS
<1> QED BY <1>2, <1>3

LEMMA ConcatReaches ==
    ASSUME NEW S, NEW s \in Seq(S), NEW T, NEW t \in Seq(T), NEW k \in DOMAIN t
    PROVE  \E i \in DOMAIN (s \o t) : (s \o t)[i] = t[k]
<1>1. s \in Seq(S \cup T) /\ t \in Seq(S \cup T)
  BY SeqWidened
<1>2. Len(s) + k \in DOMAIN (s \o t) /\ (s \o t)[Len(s) + k] = t[k]
  BY <1>1
<1> QED BY <1>2

LEMMA ConcatGrows ==
    ASSUME NEW S, NEW s \in Seq(S), NEW T, NEW t \in Seq(T)
    PROVE  /\ s \o t \in Seq(S \cup T)
           /\ \A i \in DOMAIN s : i \in DOMAIN (s \o t) /\ (s \o t)[i] = s[i]
<1>1. s \in Seq(S \cup T) /\ t \in Seq(S \cup T)
  BY SeqWidened
<1>2. s \o t \in Seq(S \cup T)
  BY <1>1
<1>3. \A i \in DOMAIN s : i \in DOMAIN (s \o t) /\ (s \o t)[i] = s[i]
  BY <1>1
<1> QED BY <1>2, <1>3

-----------------------------------------------------------------------------
(* The risk check refuses an account that is at a limit of its own.         *)

LEMMA LimitRefused ==
    ASSUME NEW said \in Answers, AtLimit(said)
    PROVE  ~RiskDecision(said).allowed
<1> DEFINE intent == [units |-> request.units, risk |-> 0]
           checks == Refusals(Limits, intent, Snapshot(said))
           hits == {i \in DOMAIN checks : checks[i].hit}
<1>1. CASE said.positions >= Limits.maxPositions
  <2>1. Snapshot(said).positions >= Limits.maxPositions
    BY <1>1 DEF Snapshot
  <2>2. 5 \in hits
    <3>1. DOMAIN checks = 1 .. 8
      BY DEF Refusals
    <3>2. checks[5].hit
      BY <2>1 DEF Refusals
    <3> HIDE DEF checks
    <3> QED BY <3>1, <3>2
  <2> QED BY <2>2 DEF RiskDecision, Evaluate
<1>2. CASE said.readable /\ (Balance - said.equity) * 100 >= Limits.dailyDrawdown * Balance
  <2>1. said.equity = 95
    BY <1>2 DEF Answers, Balance, Limits
  <2>2. Snapshot(said).dayBalance = 100 /\ Snapshot(said).equity = 95
    BY <1>2, <2>1 DEF Snapshot, Balance
  <2>3. DrawdownPct(100, 95) = 5
    BY DEF DrawdownPct
  <2>4. DrawdownPct(Snapshot(said).dayBalance, Snapshot(said).equity) >= Limits.dailyDrawdown
    BY <2>2, <2>3 DEF Limits
  <2>5. 3 \in hits
    <3>1. DOMAIN checks = 1 .. 8
      BY DEF Refusals
    <3>2. checks[3].hit
      BY <2>4 DEF Refusals
    <3> HIDE DEF checks
    <3> QED BY <3>1, <3>2
  <2> QED BY <2>5 DEF RiskDecision, Evaluate
<1> QED BY <1>1, <1>2 DEF AtLimit

-----------------------------------------------------------------------------

\* The rows of an order; a confirmed fill is among them.
LEMMA EventRows ==
    ASSUME NEW a, NEW status, NEW traded \in BOOLEAN
    PROVE  LET more == ExecutionEvents(a, status, traded)
           IN /\ \E S : more \in Seq(S)
              /\ status \in Confirmed => \E k \in DOMAIN more : more[k] = Row("order_filled", a)
<1> DEFINE sent == IF traded THEN <<Row("order_submitted", a)>> ELSE <<>>
           done == IF status \in Confirmed
                     THEN <<Row("order_filled", a), Row("trade_executed", a)>> ELSE <<>>
           S == {Row("order_submitted", a), Row("order_filled", a), Row("trade_executed", a)}
<1>1. ExecutionEvents(a, status, traded) = sent \o done
  BY DEF ExecutionEvents
<1>2. /\ Row("order_submitted", a) \in S /\ Row("order_filled", a) \in S
      /\ Row("trade_executed", a) \in S
  OBVIOUS
<1>3. status \in Confirmed => 1 \in DOMAIN done /\ done[1] = Row("order_filled", a)
  OBVIOUS
<1> HIDE DEF S
<1>4. sent \in Seq(S) /\ done \in Seq(S)
  BY <1>2
<1> HIDE DEF sent, done
<1>5. /\ \E U : sent \o done \in Seq(U)
      /\ status \in Confirmed =>
            \E k \in DOMAIN (sent \o done) : (sent \o done)[k] = Row("order_filled", a)
  <2>1. sent \o done \in Seq(S \cup S)
    BY <1>4, ConcatGrows
  <2>2. \A k \in DOMAIN done : \E i \in DOMAIN (sent \o done) : (sent \o done)[i] = done[k]
    BY <1>4, ConcatReaches
  <2> QED BY <1>3, <2>1, <2>2, Zenon
<1> QED BY <1>1, <1>5

\* A result is recorded: that of an account at a limit is a refusal, and that
\* of a new position reports it.
LEMMA RecordInv ==
    ASSUME RoutingInv, NEW a, NEW said \in Answers, NEW status,
           NEW traded \in BOOLEAN, NEW opened \in BOOLEAN,
           Record(a, said, status, traded, opened),
           AtLimit(said) => status = "risk_blocked",
           opened => status \in Confirmed \cup {"rejected", "fill_unconfirmed"}
    PROVE  RoutingInv'
<1> DEFINE new == Result(a, TRUE, status, AtLimit(said))
           more == ExecutionEvents(a, status, traded)
<1>1. new.account = a /\ new.status = status /\ (new.over => AtLimit(said))
  BY DEF Result
<1>2. results' = Append(results, new) /\ rows' = rows \o more
  BY DEF Record
<1>3. PICK S : more \in Seq(S)
  BY EventRows
<1>4. status \in Confirmed => \E k \in DOMAIN more : more[k] = Row("order_filled", a)
  BY EventRows
<1> HIDE DEF new, more
<1>5. PICK R, W : results \in Seq(R) /\ rows \in Seq(W)
  BY DEF RoutingInv
<1>6. /\ results' \in Seq(R \cup {new})
      /\ \A i \in DOMAIN results : i \in DOMAIN results' /\ results'[i] = results[i]
      /\ \A i \in DOMAIN results' : i \in DOMAIN results \/ results'[i] = new
      /\ \E i \in DOMAIN results' : results'[i] = new
  <2>1. results \in Seq(R)
    BY <1>5
  <2> DEFINE longer == Append(results, new)
  <2>2. /\ longer \in Seq(R \cup {new})
        /\ \A i \in DOMAIN results : i \in DOMAIN longer /\ longer[i] = results[i]
        /\ \A i \in DOMAIN longer : i \in DOMAIN results \/ longer[i] = new
        /\ \E i \in DOMAIN longer : longer[i] = new
    BY <2>1, AppendGrows
  <2> HIDE DEF longer
  <2>3. results' = longer
    BY <1>2 DEF longer
  <2> QED BY <2>2, <2>3, Zenon
<1>7. /\ rows' \in Seq(W \cup S)
      /\ \A j \in DOMAIN rows : j \in DOMAIN rows' /\ rows'[j] = rows[j]
      /\ \A k \in DOMAIN more : \E j \in DOMAIN rows' : rows'[j] = more[k]
  <2>1. rows \in Seq(W)
    BY <1>5
  <2> DEFINE longer == rows \o more
  <2>2. /\ longer \in Seq(W \cup S)
        /\ \A j \in DOMAIN rows : j \in DOMAIN longer /\ longer[j] = rows[j]
        /\ \A k \in DOMAIN more : \E j \in DOMAIN longer : longer[j] = more[k]
    <3>1. longer \in Seq(W \cup S)
      BY <1>3, <2>1, ConcatGrows
    <3>2. \A j \in DOMAIN rows : j \in DOMAIN longer /\ longer[j] = rows[j]
      BY <1>3, <2>1, ConcatGrows
    <3>3. ASSUME NEW k \in DOMAIN more
          PROVE  \E j \in DOMAIN longer : longer[j] = more[k]
      BY <1>3, <2>1, ConcatReaches
    <3> QED BY <3>1, <3>2, <3>3
  <2> HIDE DEF longer
  <2>3. rows' = longer
    BY <1>2 DEF longer
  <2> QED BY <2>2, <2>3, Zenon
<1>8. AccountAtLimitNotTraded'
  BY <1>1, <1>6 DEF RoutingInv, AccountAtLimitNotTraded
<1>9. ASSUME NEW b \in gained'
      PROVE  \E i \in DOMAIN results' : Reports(i, b)'
  <2>1. CASE b \in gained
    <3>1. PICK i \in DOMAIN results : Reports(i, b)
      BY <2>1 DEF RoutingInv
    <3>2. i \in DOMAIN results' /\ Reports(i, b)'
      BY <1>6, <1>7, <3>1 DEF Reports
    <3> QED BY <3>2
  <2>2. CASE b \notin gained
    <3>1. b = a /\ opened
      BY <1>9, <2>2 DEF Record
    <3>2. status \in Confirmed => \E j \in DOMAIN rows' : rows'[j] = Row("order_filled", a)
      BY <1>4, <1>7
    <3>3. PICK last \in DOMAIN results' : results'[last] = new
      BY <1>6
    <3>4. Reports(last, b)'
      BY <1>1, <3>1, <3>2, <3>3 DEF Reports
    <3> QED BY <3>4
  <2> QED BY <2>1, <2>2
<1> QED BY <1>6, <1>7, <1>8, <1>9 DEF RoutingInv

LEMMA AttemptInv == ASSUME RoutingInv, Attempt PROVE RoutingInv'
<1> DEFINE a == NextAccount
<1>1. PICK said \in Answers :
        RiskBlocked(a, said) \/ Rejected(a, said) \/ FillUnconfirmed(a, said) \/ FillConfirmed(a, said)
  BY DEF Attempt
<1> HIDE DEF a
<1>2. CASE RiskBlocked(a, said)
  <2>1. Record(a, said, "risk_blocked", FALSE, FALSE)
    BY <1>2 DEF RiskBlocked
  <2> QED BY <2>1, RecordInv
<1>3. CASE Rejected(a, said)
  <2>1. PICK lost \in BOOLEAN, traded \in BOOLEAN : Record(a, said, "rejected", traded, lost)
    BY <1>3 DEF Rejected
  <2>2. ~AtLimit(said)
    BY <1>3, LimitRefused DEF Rejected
  <2> QED BY <2>1, <2>2, RecordInv
<1>4. CASE FillUnconfirmed(a, said)
  <2>1. PICK opened \in BOOLEAN, traded \in BOOLEAN :
          Record(a, said, "fill_unconfirmed", traded, opened)
    BY <1>4 DEF FillUnconfirmed
  <2>2. ~AtLimit(said)
    BY <1>4, LimitRefused DEF FillUnconfirmed
  <2> QED BY <2>1, <2>2, RecordInv
<1>5. CASE FillConfirmed(a, said)
  <2>1. PICK status \in Confirmed : Record(a, said, status, TRUE, TRUE)
    BY <1>5 DEF FillConfirmed
  <2>2. ~AtLimit(said)
    BY <1>5, LimitRefused DEF FillConfirmed
  <2> QED BY <2>1, <2>2, RecordInv
<1> QED BY <1>1, <1>2, <1>3, <1>4, <1>5

LEMMA NotAttemptedInv == ASSUME RoutingInv, NotAttempted PROVE RoutingInv'
<1> DEFINE new == Result(NextAccount, FALSE, "not_attempted_after_success", FALSE)
<1>1. ~new.over
  BY DEF Result
<1>2. results' = Append(results, new) /\ UNCHANGED <<rows, gained>>
  BY DEF NotAttempted
<1> HIDE DEF new
<1>3. PICK R : results \in Seq(R)
  BY DEF RoutingInv
<1>4. /\ results' \in Seq(R \cup {new})
      /\ \A i \in DOMAIN results : i \in DOMAIN results' /\ results'[i] = results[i]
      /\ \A i \in DOMAIN results' : i \in DOMAIN results \/ results'[i] = new
  BY <1>2, <1>3, AppendGrows
<1>5. AccountAtLimitNotTraded'
  BY <1>1, <1>4 DEF RoutingInv, AccountAtLimitNotTraded
<1>6. \A a \in gained' : \E i \in DOMAIN results' : Reports(i, a)'
  BY <1>2, <1>4 DEF RoutingInv, Reports
<1> QED BY <1>2, <1>4, <1>5, <1>6 DEF RoutingInv

-----------------------------------------------------------------------------

\* Each step keeps the invariant.
LEMMA RoutingNextInv == ASSUME RoutingInv, RouteNext PROVE RoutingInv'
<1>1. CASE Submit
  <2>1. results' = <<>> /\ rows' = <<>> /\ gained' = {}
    BY <1>1 DEF Submit
  <2>2. results' \in Seq({}) /\ rows' \in Seq({}) /\ DOMAIN results' = {}
    BY <2>1
  <2> QED BY <2>1, <2>2 DEF RoutingInv, AccountAtLimitNotTraded
<1>2. CASE BuildPlan
  BY <1>2 DEF BuildPlan, RoutingInv, AccountAtLimitNotTraded, Reports
<1>3. CASE Attempt
  BY <1>3, AttemptInv
<1>4. CASE NotAttempted
  BY <1>4, NotAttemptedInv
<1>5. CASE Aggregate
  BY <1>5 DEF Aggregate, RoutingInv, AccountAtLimitNotTraded, Reports
<1>6. CASE Abort
  BY <1>6 DEF Abort, RoutingInv, AccountAtLimitNotTraded, Reports
<1> QED BY <1>1, <1>2, <1>3, <1>4, <1>5, <1>6 DEF RouteNext

LEMMA RoutingInitInv == ASSUME RouteInit PROVE RoutingInv
<1>1. results = <<>> /\ rows = <<>> /\ gained = {}
  BY DEF RouteInit
<1>2. results \in Seq({}) /\ rows \in Seq({}) /\ DOMAIN results = {}
  BY <1>1
<1> QED BY <1>1, <1>2 DEF RoutingInv, AccountAtLimitNotTraded

LEMMA RoutingStutter == ASSUME RoutingInv, UNCHANGED routeVars PROVE RoutingInv'
BY DEF RoutingInv, AccountAtLimitNotTraded, Reports, routeVars

THEOREM RoutingInvariant == RouteSpec => []RoutingInv
<1>1. RouteInit => RoutingInv
  BY RoutingInitInv
<1>2. RoutingInv /\ [RouteNext]_routeVars => RoutingInv'
  BY RoutingNextInv, RoutingStutter
<1> QED BY <1>1, <1>2, PTL DEF RouteSpec

\* Whatever the broker says of an account and however a request ends, an
\* account known to be at its limit gets no order.
THEOREM AccountAtLimitNotTradedCorrect == RouteSpec => []AccountAtLimitNotTraded
<1>1. RoutingInv => AccountAtLimitNotTraded
  BY DEF RoutingInv
<1> QED BY <1>1, RoutingInvariant, PTL

\* The part of RoutedSafely about positions: an answered request accounts for
\* every position it opened.
THEOREM ExposureReportedCorrect == RouteSpec => []ExposureReported
<1>1. RoutingInv => ExposureReported
  BY DEF RoutingInv, Reports, ExposureReported, ResultsOf
<1> QED BY <1>1, RoutingInvariant, PTL

-----------------------------------------------------------------------------
(* The order of the accounts                                                *)

\* ranked lists the accounts of able by priority.
ListsInOrder(ranked, able) ==
    /\ ranked \in [1 .. Cardinality(able) -> able]
    /\ \A i, j \in DOMAIN ranked : i < j => ranked[i] < ranked[j]

HasOrder(n) == \A able \in SUBSET (1 .. n) : \E ranked : ListsInOrder(ranked, able)

\* What is chosen from 1..n is finite.
LEMMA UpToFinite ==
    ASSUME NEW n \in Nat, NEW S \in SUBSET (1 .. n)
    PROVE  IsFiniteSet(S) /\ Cardinality(S) \in Nat
<1>1. IsFiniteSet(1 .. n)
  BY FS_Interval
<1>2. IsFiniteSet(S)
  BY <1>1, FS_Subset
<1> QED
  BY <1>2, FS_CardinalityType

\* One more number to choose from can only be the last one of a list.
LEMMA OrderExtends ==
    ASSUME NEW n \in Nat, HasOrder(n)
    PROVE  HasOrder(n + 1)
<1> SUFFICES ASSUME NEW able \in SUBSET (1 .. n + 1)
             PROVE  \E ranked : ListsInOrder(ranked, able)
  BY DEF HasOrder
<1>1. CASE n + 1 \notin able
  <2>1. able \in SUBSET (1 .. n)
    BY <1>1
  <2> QED
    BY <2>1 DEF HasOrder
<1>2. CASE n + 1 \in able
  <2> DEFINE rest == able \ {n + 1}
             size == Cardinality(rest)
  <2>1. rest \in SUBSET (1 .. n) /\ IsFiniteSet(rest)
    <3>1. rest \in SUBSET (1 .. n)
      OBVIOUS
    <3> QED
      BY <3>1, UpToFinite
  <2>2. size \in Nat /\ Cardinality(able) = size + 1
    <3>1. able = rest \cup {n + 1} /\ n + 1 \notin rest
      BY <1>2
    <3> QED
      BY <2>1, <3>1, FS_AddElement, FS_CardinalityType
  <2>3. PICK start : ListsInOrder(start, rest)
    BY <2>1 DEF HasOrder
  <2> DEFINE ranked == [i \in 1 .. size + 1 |-> IF i <= size THEN start[i] ELSE n + 1]
  <2>4. /\ start \in [1 .. size -> rest] /\ \A i \in 1 .. size : start[i] \in rest
        /\ \A i, j \in 1 .. size : i < j => start[i] < start[j]
    BY <2>3 DEF ListsInOrder
  <2> HIDE DEF size
  <2>5. ranked \in [1 .. size + 1 -> able]
    BY <1>2, <2>2, <2>4
  <2>6. ASSUME NEW i \in 1 .. size + 1, NEW j \in 1 .. size + 1, i < j
        PROVE  ranked[i] < ranked[j]
    <3>1. i \in 1 .. size /\ ranked[i] = start[i] /\ start[i] \in 1 .. n
      <4>1. i \in 1 .. size
        BY <2>2, <2>6
      <4>2. ranked[i] = start[i]
        BY <2>2, <4>1
      <4> QED
        BY <2>1, <2>4, <4>1, <4>2
    <3>2. CASE j \in 1 .. size
      BY <2>2, <2>4, <2>6, <3>1, <3>2
    <3>3. CASE j = size + 1
      BY <2>2, <3>1, <3>3
    <3> QED
      BY <2>2, <3>2, <3>3
  <2>7. ListsInOrder(ranked, able)
    BY <2>2, <2>5, <2>6 DEF ListsInOrder
  <2> QED
    BY <2>7
<1> QED
  BY <1>1, <1>2

\* Any set of numbers up to a bound can be listed in order: the least bound
\* that fails would follow one that does not.
LEMMA OrderExists ==
    ASSUME NEW n \in Nat
    PROVE  HasOrder(n)
<1> DEFINE Less == {p \in Nat \X Nat : p[1] < p[2]}
           Fails == {m \in Nat : ~HasOrder(m)}
<1> SUFFICES ASSUME Fails # {}
             PROVE  FALSE
  OBVIOUS
<1>1. IsWellFoundedOn(Less, Nat)
  BY NatLessThanWellFounded, Zenon DEF OpToRel
<1>2. PICK m \in Fails : \A k \in Fails : <<k, m>> \notin Less
  BY <1>1, WFMin
<1>3. m # 0
  <2>1. HasOrder(0)
    <3>1. ASSUME NEW able \in SUBSET (1 .. 0)
          PROVE  \E ranked : ListsInOrder(ranked, able)
      <4>1. able = {} /\ Cardinality(able) = 0
        <5>1. able = {}
          BY <3>1
        <5> QED
          BY <5>1, FS_EmptySet
      <4>2. <<>> \in [1 .. 0 -> {}] /\ DOMAIN <<>> = {}
        OBVIOUS
      <4>3. ListsInOrder(<<>>, able)
        BY <4>1, <4>2 DEF ListsInOrder
      <4> QED
        BY <4>3
    <3> QED
      BY <3>1 DEF HasOrder
  <2> QED
    BY <2>1
<1>4. m - 1 \in Nat /\ <<m - 1, m>> \in Less
  BY <1>3
<1>5. HasOrder(m - 1)
  BY <1>2, <1>4
<1>6. HasOrder((m - 1) + 1)
  BY <1>4, <1>5, OrderExtends
<1> QED
  BY <1>6

\* rank_eligible lists every eligible account, by priority.
LEMMA RankedInOrder ==
    ASSUME NEW able \in SUBSET Accounts
    PROVE  /\ ListsInOrder(RankEligible(able), able)
           /\ \A b \in able : \E k \in DOMAIN RankEligible(able) : RankEligible(able)[k] = b
<1> DEFINE ranked == RankEligible(able)
           size == Cardinality(able)
<1>1. \E r : ListsInOrder(r, able)
  BY OrderExists, RoutingAssumption DEF HasOrder, Accounts
<1>2. ListsInOrder(ranked, able)
  BY <1>1 DEF ListsInOrder, RankEligible
<1> HIDE DEF ranked
<1>3. IsFiniteSet(able) /\ size \in Nat
  BY UpToFinite, RoutingAssumption DEF Accounts
<1>4. ranked \in [1 .. size -> able] /\ \A i, j \in 1 .. size : i < j => ranked[i] < ranked[j]
  BY <1>2 DEF ListsInOrder
<1>5. \A i, j \in 1 .. size : ranked[i] = ranked[j] => i = j
  <2> SUFFICES ASSUME NEW i \in 1 .. size, NEW j \in 1 .. size, ranked[i] = ranked[j], i # j
               PROVE  FALSE
    OBVIOUS
  <2>1. ranked[i] \in Nat /\ ranked[j] \in Nat
    <3>1. ranked[i] \in able /\ ranked[j] \in able
      BY <1>4
    <3>2. able \subseteq Nat
      BY RoutingAssumption DEF Accounts
    <3> QED
      BY <3>1, <3>2
  <2>2. i < j \/ j < i
    BY <1>3
  <2> QED
    BY <1>4, <2>1, <2>2
<1>6. IsFiniteSet(1 .. size) /\ Cardinality(1 .. size) = size
  BY <1>3, FS_Interval
<1>7. ranked \in Surjection(1 .. size, able)
  <2>1. ranked \in Injection(1 .. size, able)
    BY <1>4, <1>5 DEF Injection, IsInjective
  <2> QED
    BY <1>3, <1>6, <2>1, FS_Injection
<1> QED
  BY <1>2, <1>4, <1>7 DEF Surjection, ranked

-----------------------------------------------------------------------------
(* The plan and what came of it                                             *)

RequestOK ==
    request.mode \in Modes /\ request.group \subseteq Accounts /\ request.fanout \in Nat

\* The plan is a list of accounts without repetition; that of primary_backup
\* has every eligible account by priority, and that of single one at most.
PlanOK(p, able) ==
    /\ p \in Seq(Accounts)
    /\ request.mode = "single" => Len(p) <= 1
    /\ request.mode = "primary_backup" =>
          /\ \A i, j \in DOMAIN p : i < j => p[i] < p[j]
          /\ \A b \in able : \E k \in DOMAIN p : p[k] = b

\* The results follow the plan.  A success was attempted and left its
\* position; only primary_backup leaves an account out, and only after a
\* success, before which everything was tried and failed.
ResultsInv ==
    /\ \E S : results \in Seq(S)
    /\ \A i \in DOMAIN results :
          /\ i \in DOMAIN plan /\ results[i].account = plan[i]
          /\ results[i].success => results[i].attempted /\ plan[i] \in gained
          /\ request.mode # "primary_backup" => results[i].attempted
    /\ request.mode = "primary_backup" =>
          /\ (\E i \in DOMAIN results : ~results[i].attempted) => SuccessSeen
          /\ \A i, j \in DOMAIN results :
                results[i].attempted /\ j < i => results[j].attempted /\ ~results[j].success

OrderInv ==
    /\ RequestOK
    /\ routePc = "plan" => plan = <<>>
    /\ plan = <<>> \/ PlanOK(plan, eligible)
    /\ ResultsInv
    /\ answer # "none" => routePc = "idle"
    /\ SuccessIsComplete

\* A plan has a first part.
LEMMA FirstType ==
    ASSUME NEW S, NEW s \in Seq(S), NEW n \in Nat
    PROVE  First(s, n) \in Seq(S) /\ Len(First(s, n)) <= n
<1> DEFINE m == IF n < Len(s) THEN n ELSE Len(s)
<1>1. m \in 0 .. Len(s) /\ m <= n
  OBVIOUS
<1>2. First(s, n) = SubSeq(s, 1, m)
  BY DEF First
<1> HIDE DEF m
<1>3. SubSeq(s, 1, m) \in Seq(S) /\ Len(SubSeq(s, 1, m)) = m
  BY <1>1
<1> QED
  BY <1>1, <1>2, <1>3

\* What the builder makes of the eligible accounts.
LEMMA PlannedOK ==
    ASSUME RequestOK, NEW able \in SUBSET Accounts
    PROVE  PlanOK(Planned(request, able), able)
<1> DEFINE ranked == RankEligible(able)
           size == Cardinality(able)
<1>1. /\ ranked \in [1 .. size -> able]
      /\ \A i, j \in DOMAIN ranked : i < j => ranked[i] < ranked[j]
      /\ \A b \in able : \E k \in DOMAIN ranked : ranked[k] = b
  BY RankedInOrder DEF ListsInOrder
<1>2. size \in Nat
  BY UpToFinite, RoutingAssumption DEF Accounts
<1>3. /\ request.mode = "single" => Planned(request, able) = First(ranked, 1)
      /\ request.mode = "primary_backup" => Planned(request, able) = ranked
      /\ request.mode = "fanout" => Planned(request, able) = First(ranked, request.fanout)
  BY DEF Planned
<1> HIDE DEF ranked, size
<1>4. ranked \in Seq(Accounts)
  <2>1. ranked \in [1 .. size -> Accounts]
    BY <1>1
  <2> QED
    BY <1>2, <2>1
<1>5. CASE request.mode = "single"
  BY <1>3, <1>4, <1>5, FirstType DEF PlanOK
<1>6. CASE request.mode = "primary_backup"
  BY <1>1, <1>3, <1>4, <1>6 DEF PlanOK
<1>7. CASE request.mode = "fanout"
  BY <1>3, <1>4, <1>7, FirstType DEF PlanOK, RequestOK
<1> QED
  BY <1>5, <1>6, <1>7 DEF RequestOK, Modes

\* One more result, which fits the plan and the results before it.
LEMMA ResultAppended ==
    ASSUME OrderInv, Working, UNCHANGED <<routePc, request, plan, eligible, answer>>,
           gained \subseteq gained', NEW new, results' = Append(results, new),
           new.account = NextAccount,
           new.success => new.attempted /\ NextAccount \in gained',
           new.attempted <=> MayAttempt
    PROVE  OrderInv'
<1>1. PICK S : results \in Seq(S)
  BY DEF OrderInv, ResultsInv
<1>2. PICK n \in Nat : n = Len(results)
  BY <1>1
<1> DEFINE longer == Append(results, new)
<1>3. /\ longer \in Seq(S \cup {new}) /\ DOMAIN longer = 1 .. n + 1
      /\ DOMAIN results = 1 .. n
      /\ \A i \in 1 .. n : longer[i] = results[i]
      /\ longer[n + 1] = new
  <2>1. results \in Seq(S \cup {new}) /\ new \in S \cup {new}
    BY <1>1, SeqWidened
  <2> QED
    BY <1>2, <2>1
<1> HIDE DEF longer
<1>4. /\ results' \in Seq(S \cup {new}) /\ DOMAIN results' = 1 .. n + 1
      /\ DOMAIN results = 1 .. n
      /\ \A i \in 1 .. n : results'[i] = results[i]
      /\ results'[n + 1] = new
  BY <1>3 DEF longer
<1>5. n + 1 \in DOMAIN plan /\ NextAccount = plan[n + 1]
  <2>1. n < Len(plan)
    BY <1>2 DEF Working
  <2>2. plan \in Seq(Accounts)
    BY <2>1 DEF OrderInv, PlanOK
  <2> QED
    BY <1>2, <2>1, <2>2 DEF NextAccount
<1>6. answer = "none" /\ answer' = "none"
  BY DEF OrderInv, Working
<1>7. ResultsInv'
  <2>1. \A i \in DOMAIN results' :
          /\ i \in DOMAIN plan' /\ results'[i].account = plan'[i]
          /\ results'[i].success => results'[i].attempted /\ plan'[i] \in gained'
          /\ request'.mode # "primary_backup" => results'[i].attempted
    BY <1>2, <1>4, <1>5 DEF OrderInv, ResultsInv, MayAttempt
  <2>2. ASSUME request.mode = "primary_backup",
               NEW i \in DOMAIN results', ~results'[i].attempted
        PROVE  SuccessSeen'
    <3>1. SuccessSeen
      BY <1>2, <1>4, <2>2 DEF OrderInv, ResultsInv, MayAttempt
    <3> QED
      BY <1>2, <1>4, <3>1 DEF SuccessSeen
  <2>3. ASSUME request.mode = "primary_backup",
               NEW i \in DOMAIN results', NEW j \in DOMAIN results',
               results'[i].attempted, j < i
        PROVE  results'[j].attempted /\ ~results'[j].success
    <3>1. j \in 1 .. n /\ results'[j] = results[j]
      BY <1>2, <1>4, <2>3
    <3>2. CASE i \in 1 .. n
      BY <1>4, <2>3, <3>1, <3>2 DEF OrderInv, ResultsInv
    <3>3. CASE i = n + 1
      <4>1. ~SuccessSeen
        BY <1>4, <2>3, <3>3 DEF MayAttempt
      <4> QED
        BY <1>4, <2>3, <3>1, <4>1 DEF OrderInv, ResultsInv, SuccessSeen
    <3> QED
      BY <1>2, <1>4, <3>2, <3>3
  <2> QED
    BY <1>4, <2>1, <2>2, <2>3 DEF ResultsInv
<1> QED
  BY <1>6, <1>7 DEF OrderInv, RequestOK, PlanOK, SuccessIsComplete

\* An attempt follows the plan, and its success is a position of its account.
LEMMA RecordFollowsPlan ==
    ASSUME OrderInv, Working, MayAttempt, NEW said, NEW status, NEW traded, NEW opened,
           Record(NextAccount, said, status, traded, opened), status \in Successes => opened
    PROVE  OrderInv'
<1> DEFINE a == NextAccount
           new == Result(a, TRUE, status, AtLimit(said))
<1>1. new.account = a /\ (new.success => status \in Successes) /\ new.attempted
  BY DEF Result
<1>2. /\ results' = Append(results, new)
      /\ gained' = IF opened THEN gained \cup {a} ELSE gained
      /\ UNCHANGED <<routePc, request, plan, eligible, answer>>
  BY DEF Record
<1> HIDE DEF new
<1> QED
  BY <1>1, <1>2, ResultAppended DEF a

LEMMA AttemptFollowsPlan == ASSUME OrderInv, Attempt PROVE OrderInv'
<1> DEFINE a == NextAccount
<1>1. PICK said \in Answers :
        RiskBlocked(a, said) \/ Rejected(a, said) \/ FillUnconfirmed(a, said) \/ FillConfirmed(a, said)
  BY DEF Attempt
<1>2. Working /\ MayAttempt
  BY DEF Attempt
<1>3. CASE RiskBlocked(a, said)
  <2>1. Record(a, said, "risk_blocked", FALSE, FALSE) /\ "risk_blocked" \notin Successes
    BY <1>3 DEF RiskBlocked, Successes
  <2> QED
    BY <1>2, <2>1, RecordFollowsPlan
<1>4. CASE Rejected(a, said)
  <2>1. PICK lost \in BOOLEAN, traded \in BOOLEAN : Record(a, said, "rejected", traded, lost)
    BY <1>4 DEF Rejected
  <2>2. "rejected" \notin Successes
    BY DEF Successes
  <2> QED
    BY <1>2, <2>1, <2>2, RecordFollowsPlan
<1>5. CASE FillUnconfirmed(a, said)
  <2>1. PICK opened \in BOOLEAN, traded \in BOOLEAN :
          Record(a, said, "fill_unconfirmed", traded, opened)
    BY <1>5 DEF FillUnconfirmed
  <2>2. "fill_unconfirmed" \notin Successes
    BY DEF Successes
  <2> QED
    BY <1>2, <2>1, <2>2, RecordFollowsPlan
<1>6. CASE FillConfirmed(a, said)
  <2>1. PICK status \in Confirmed : Record(a, said, status, TRUE, TRUE)
    BY <1>6 DEF FillConfirmed
  <2> QED
    BY <1>2, <2>1, RecordFollowsPlan
<1> QED
  BY <1>1, <1>3, <1>4, <1>5, <1>6

LEMMA NotAttemptedFollowsPlan == ASSUME OrderInv, NotAttempted PROVE OrderInv'
<1> DEFINE new == Result(NextAccount, FALSE, "not_attempted_after_success", FALSE)
<1>1. new.account = NextAccount /\ ~new.success /\ ~new.attempted
  BY DEF Result
<1>2. /\ results' = Append(results, new) /\ gained' = gained
      /\ UNCHANGED <<routePc, request, plan, eligible, answer>>
      /\ Working /\ ~MayAttempt
  BY DEF NotAttempted
<1> HIDE DEF new
<1> QED
  BY <1>1, <1>2, ResultAppended

\* The plan is worked off and its answer follows from the results.
LEMMA SuccessComplete ==
    ASSUME OrderInv, routePc = "attempt", Len(results) = Len(plan), OverallSuccess
    PROVE  IF request.mode = "fanout"
             THEN \A i \in DOMAIN plan : plan[i] \in gained /\ ResultsOf(plan[i]) # {}
             ELSE Cardinality({i \in DOMAIN results : results[i].success}) = 1
<1>1. PICK S : results \in Seq(S)
  BY DEF OrderInv, ResultsInv
<1>2. DOMAIN results = 1 .. Len(results) /\ Len(results) \in Nat
  BY <1>1
<1>3. CASE request.mode = "fanout"
  <2> SUFFICES ASSUME NEW i \in DOMAIN plan
               PROVE  plan[i] \in gained /\ ResultsOf(plan[i]) # {}
    BY <1>3
  <2>1. plan \in Seq(Accounts) \/ plan = <<>>
    BY DEF OrderInv, PlanOK
  <2>2. i \in DOMAIN results
    BY <1>2, <2>1
  <2>3. results[i].attempted /\ results[i].account = plan[i]
    BY <1>3, <2>2 DEF OrderInv, ResultsInv
  <2>4. results[i].success
    BY <1>3, <2>2, <2>3 DEF OverallSuccess, AllSuccess
  <2> QED
    BY <2>2, <2>3, <2>4 DEF OrderInv, ResultsInv, ResultsOf
<1>4. CASE request.mode # "fanout"
  <2> DEFINE wins == {i \in DOMAIN results : results[i].success}
  <2>1. PICK w \in DOMAIN results : results[w].success
    BY <1>4 DEF OverallSuccess, AnySuccess, OrderInv, RequestOK, Modes
  <2>2. ASSUME NEW v \in DOMAIN results, results[v].success
        PROVE  v = w
    <3>1. CASE request.mode = "single"
      <4>1. Len(plan) <= 1
        <5>1. w \in DOMAIN plan
          BY <2>1 DEF OrderInv, ResultsInv
        <5>2. plan # <<>>
          BY <5>1
        <5> QED
          BY <3>1, <5>2 DEF OrderInv, PlanOK
      <4> QED
        BY <1>2, <2>1, <2>2, <4>1
    <3>2. CASE request.mode = "primary_backup"
      <4>1. results[v].attempted /\ results[w].attempted
        BY <2>1, <2>2 DEF OrderInv, ResultsInv
      <4>2. ~(v < w) /\ ~(w < v)
        BY <2>1, <2>2, <3>2, <4>1 DEF OrderInv, ResultsInv
      <4> QED
        BY <1>2, <2>1, <2>2, <4>2
    <3> QED
      BY <1>4, <3>1, <3>2 DEF OrderInv, RequestOK, Modes
  <2>3. wins = {w}
    BY <2>1, <2>2
  <2>4. Cardinality(wins) = 1
    BY <2>3, FS_Singleton
  <2> QED
    BY <1>4, <2>4
<1> QED
  BY <1>3, <1>4

\* Each step keeps the invariant.
LEMMA OrderNextInv == ASSUME OrderInv, RouteNext PROVE OrderInv'
<1> USE DEF OrderInv
<1>1. CASE Submit
  <2>1. /\ RequestOK' /\ plan' = <<>> /\ results' = <<>> /\ answer' = "none"
    BY <1>1, RoutingAssumption DEF Submit, RequestOK, Accounts
  <2>2. results' \in Seq({}) /\ DOMAIN results' = {}
    BY <2>1
  <2>3. ResultsInv'
    BY <2>2 DEF ResultsInv
  <2> QED
    BY <2>1, <2>3 DEF SuccessIsComplete
<1>2. CASE BuildPlan
  <2>1. PICK able \in SUBSET request.group : eligible' = able /\ plan' = Planned(request, able)
    BY <1>2 DEF BuildPlan
  <2>2. /\ routePc = "plan" /\ UNCHANGED <<request, results, gained, rows>>
        /\ answer = "none" /\ plan = <<>>
        /\ \/ answer' = "failure" /\ routePc' = "idle"
           \/ answer' = answer /\ routePc' = "attempt"
    BY <1>2 DEF BuildPlan
  <2>3. PlanOK(plan', able)
    BY <2>1, PlannedOK DEF RequestOK
  <2>4. (plan = <<>> \/ PlanOK(plan, eligible))'
    BY <2>1, <2>2, <2>3 DEF PlanOK
  <2>5. DOMAIN results = {}
    <3>1. DOMAIN plan = {}
      BY <2>2
    <3> QED
      BY <3>1 DEF ResultsInv
  <2>6. ResultsInv'
    BY <2>2, <2>5 DEF ResultsInv
  <2> QED
    BY <2>2, <2>4, <2>6 DEF RequestOK, SuccessIsComplete
<1>3. CASE Attempt
  BY <1>3, AttemptFollowsPlan
<1>4. CASE NotAttempted
  BY <1>4, NotAttemptedFollowsPlan
<1>5. CASE Aggregate
  <2>1. /\ routePc = "attempt" /\ Len(results) = Len(plan) /\ routePc' = "idle"
        /\ answer' = (IF OverallSuccess THEN "success" ELSE "failure")
        /\ UNCHANGED <<request, plan, eligible, results, gained, rows>>
    BY <1>5 DEF Aggregate
  <2>2. SuccessIsComplete'
    BY <2>1, SuccessComplete DEF SuccessIsComplete, ResultsOf
  <2> QED
    BY <2>1, <2>2 DEF RequestOK, PlanOK, ResultsInv, SuccessSeen
<1>6. CASE Abort
  BY <1>6 DEF Abort, RequestOK, PlanOK, ResultsInv, SuccessSeen, SuccessIsComplete, ResultsOf
<1> QED
  BY <1>1, <1>2, <1>3, <1>4, <1>5, <1>6 DEF RouteNext

LEMMA OrderInvariant == RouteSpec => []OrderInv
<1>1. RouteInit => OrderInv
  <2> SUFFICES ASSUME RouteInit
               PROVE  OrderInv
    OBVIOUS
  <2>1. /\ RequestOK /\ plan = <<>> /\ results = <<>> /\ answer = "none" /\ routePc = "idle"
    BY DEF RouteInit, NoRequest, RequestOK, Modes
  <2>2. results \in Seq({}) /\ DOMAIN results = {}
    BY <2>1
  <2>3. ResultsInv
    BY <2>2 DEF ResultsInv
  <2> QED
    BY <2>1, <2>3 DEF OrderInv, SuccessIsComplete
<1>2. OrderInv /\ [RouteNext]_routeVars => OrderInv'
  <2>1. ASSUME OrderInv, UNCHANGED routeVars
        PROVE  OrderInv'
    BY <2>1
    DEF routeVars, OrderInv, RequestOK, PlanOK, ResultsInv, SuccessSeen, SuccessIsComplete,
        ResultsOf
  <2> QED
    BY <2>1, OrderNextInv
<1> QED
  BY <1>1, <1>2, PTL DEF RouteSpec

\* A backup is tried only after every eligible account before it was, and
\* failed; a success is the one order that was asked for, or all of a fanout;
\* an answered request accounts for every position it opened; and an account
\* known to be at its limit gets no order.
THEOREM RoutedSafelyCorrect == RouteSpec => []RoutedSafely
<1>1. OrderInv => BackupOnlyAfterFailure
  <2> SUFFICES ASSUME OrderInv, request.mode = "primary_backup",
                      NEW i \in DOMAIN results, results[i].attempted,
                      NEW b \in eligible, b < results[i].account
               PROVE  \E j \in ResultsOf(b) : results[j].attempted /\ ~results[j].success
    BY DEF BackupOnlyAfterFailure
  <2>1. i \in DOMAIN plan /\ results[i].account = plan[i] /\ plan # <<>>
    BY DEF OrderInv, ResultsInv
  <2>2. PlanOK(plan, eligible)
    BY <2>1 DEF OrderInv
  <2>3. PICK k \in DOMAIN plan : plan[k] = b
    BY <2>2 DEF PlanOK
  <2>4. plan[i] \in Nat /\ plan[k] \in Nat /\ i \in Nat /\ k \in Nat
    BY <2>1, <2>2, <2>3, RoutingAssumption DEF PlanOK, Accounts
  <2>5. k < i
    <3>1. ~(i < k) /\ i # k
      BY <2>1, <2>2, <2>3, <2>4 DEF PlanOK
    <3> QED
      BY <2>4, <3>1
  <2>6. k \in DOMAIN results
    <3>1. PICK S : results \in Seq(S)
      BY DEF OrderInv, ResultsInv
    <3>2. plan \in Seq(Accounts)
      BY <2>2 DEF PlanOK
    <3> QED
      BY <2>3, <2>4, <2>5, <3>1, <3>2
  <2>7. results[k].attempted /\ ~results[k].success /\ results[k].account = b
    BY <2>3, <2>5, <2>6 DEF OrderInv, ResultsInv
  <2> QED
    BY <2>6, <2>7 DEF ResultsOf
<1>2. OrderInv /\ ExposureReported /\ AccountAtLimitNotTraded => RoutedSafely
  BY <1>1 DEF OrderInv, RoutedSafely
<1> QED
  BY <1>2, OrderInvariant, ExposureReportedCorrect, AccountAtLimitNotTradedCorrect, PTL
=============================================================================
