-------------------------- MODULE AccountLifecycle --------------------------
(***************************************************************************)
(* QuantBuild's AccountLifecycleManager (quantbuild/src/quantbuild/        *)
(* execution/account_lifecycle.py): challenge accounts that pass, fail or  *)
(* run out of time, and funded accounts, which follow from a challenge or  *)
(* are created as such.  It keeps accounts in a dictionary and is called   *)
(* by its owner: accounts are created, also over one that is there; trades *)
(* are recorded as they close; daily_check, start_new_day and payouts.     *)
(*                                                                         *)
(* Each name has two ids, its own and <name>-funded.  A bound: under the   *)
(* second no challenge is created, whose pass would need a third id.       *)
(* Thresholds are the code's defaults.                                     *)
(***************************************************************************)
EXTENDS Integers

CONSTANTS
    Names,          \* names of accounts
    Balances,       \* starting_balance
    TradeResults,   \* pnl_dollars of a trade
    MinEquity, MaxEquity,   \* bounds: trades keep the equity within them
    MaxDaily,       \* bound: what a day's trades may add up to, either way
    LosingDaysHalt  \* consecutive_losing_days_halt, beyond which nothing changes

ASSUME LifecycleAssumption ==
    /\ Balances \subseteq Nat /\ TradeResults \subseteq Int
    /\ MinEquity \in Nat /\ MaxEquity \in Nat /\ MaxDaily \in Nat /\ LosingDaysHalt \in Nat

VARIABLE accounts    \* _accounts: the AccountState of each id

lifeVars == <<accounts>>

Ids == Names \X {"own", "funded"}
FundedId(id) == <<id[1], "funded">>
Kinds == {"challenge", "funded"}
Statuses == {"none", "active", "passed", "failed", "halted"}

\* late: more than 30 days since start_date; graduated: the note of _pass_challenge.
NoAccount == [kind |-> "none", status |-> "none", start |-> 0, equity |-> 0, peak |-> 0,
              daily |-> 0, losingDays |-> 0, late |-> FALSE, payouts |-> 0, graduated |-> FALSE]

NewAccount(kind, balance, graduated) ==
    [NoAccount EXCEPT !.kind = kind, !.status = "active", !.start = balance,
                      !.equity = balance, !.peak = balance, !.graduated = graduated]

LifeInit == accounts = [id \in Ids |-> NoAccount]

\* create_account overwrites what the id had before, whatever its status.
CreateAccount(id, kind, balance) ==
    /\ kind = "challenge" => id[2] = "own"
    /\ accounts' = [accounts EXCEPT ![id] = NewAccount(kind, balance, FALSE)]

\* (A mutant: a trade counts whatever the status.)
TradedAlways(account, pnl) ==
    [account EXCEPT !.equity = @ + pnl, !.daily = @ + pnl,
                    !.peak = IF account.equity + pnl > @ THEN account.equity + pnl ELSE @]

Traded(account, pnl) ==
    IF account.status # "active" THEN account
    ELSE [account EXCEPT !.equity = @ + pnl, !.daily = @ + pnl,
                         !.peak = IF account.equity + pnl > @ THEN account.equity + pnl ELSE @]

RecordTradeOn(id, pnl) ==
    /\ accounts[id].status # "none"
    /\ accounts[id].equity + pnl \in MinEquity .. MaxEquity
    /\ accounts[id].daily + pnl \in -MaxDaily .. MaxDaily
    /\ accounts' = [accounts EXCEPT ![id] = Traded(@, pnl)]

\* Percent of a reference, times the reference, to stay in whole numbers.
DrawdownReaches(account, pct) ==
    account.peak > 0 /\ (account.peak - account.equity) * 100 >= pct * account.peak
GainReaches(account, pct) ==
    account.start > 0 /\ (account.equity - account.start) * 100 >= pct * account.start

\* (A mutant: the funded account starts with the balance of the challenge.)
PassFreshBalance(id) ==
    accounts' = [accounts EXCEPT
        ![id].status = "passed",
        ![FundedId(id)] = NewAccount("funded", accounts[id].start, TRUE)]

\* _pass_challenge creates the funded account, also over one that is there.
Pass(id) ==
    accounts' = [accounts EXCEPT
        ![id].status = "passed",
        ![FundedId(id)] = NewAccount("funded", accounts[id].equity, TRUE)]

\* _check_challenge: the target comes before the drawdown and the time.
CheckChallenge(id) ==
    /\ accounts[id].status = "active" /\ accounts[id].kind = "challenge"
    /\ \/ GainReaches(accounts[id], 10) /\ Pass(id)
       \/ /\ ~GainReaches(accounts[id], 10)
          /\ DrawdownReaches(accounts[id], 8) \/ accounts[id].late
          /\ accounts' = [accounts EXCEPT ![id].status = "failed"]

\* _check_funded: only the drawdown changes the account; a daily loss and a
\* losing streak are answers to the owner.
CheckFunded(id) ==
    /\ accounts[id].status = "active" /\ accounts[id].kind = "funded"
    /\ DrawdownReaches(accounts[id], 5)
    /\ accounts' = [accounts EXCEPT ![id].status = "halted"]

DayAfter(account) ==
    [account EXCEPT
        !.losingDays = IF account.daily >= 0 THEN 0 ELSE IF @ < LosingDaysHalt THEN @ + 1 ELSE @,
        !.daily = 0]

StartNewDay(id) ==
    /\ accounts[id].status # "none"
    /\ accounts' = [accounts EXCEPT ![id] = DayAfter(@)]

\* The 30 days of a challenge are over.
TimePasses(id) ==
    /\ accounts[id].kind = "challenge"
    /\ accounts' = [accounts EXCEPT ![id].late = TRUE]

\* record_payout, whatever the kind and the status; the equity is not touched.  The first
\* one is counted.
RecordPayout(id) ==
    /\ accounts[id].status # "none"
    /\ accounts' = [accounts EXCEPT ![id].payouts = 1]

LifeNext ==
    \E id \in Ids :
        \/ \E kind \in Kinds, balance \in Balances : CreateAccount(id, kind, balance)
        \/ \E pnl \in TradeResults : RecordTradeOn(id, pnl)
        \/ CheckChallenge(id) \/ CheckFunded(id)
        \/ StartNewDay(id) \/ TimePasses(id) \/ RecordPayout(id)

LifeSpec == LifeInit /\ [][LifeNext]_lifeVars

-----------------------------------------------------------------------------
(* Properties.                                                              *)

\* Types: only a challenge passes or fails and only a funded account halts, none is a
\* challenge under a funded id, and a peak is at least the equity.
Account ==
    {a \in [kind : Kinds \cup {"none"}, status : Statuses, start : Int, equity : Int, peak : Int,
            daily : Int, losingDays : Int, late : BOOLEAN, payouts : Int, graduated : BOOLEAN] :
        /\ a.status \in {"passed", "failed"} => a.kind = "challenge"
        /\ a.status = "halted" => a.kind = "funded"
        /\ a.kind = "none" <=> a.status = "none"
        /\ a.equity <= a.peak}
LifeTypeOK ==
    /\ accounts \in [Ids -> Account]
    /\ \A id \in Ids : accounts[id].kind = "challenge" => id[2] = "own"

(* The account a passed challenge was told to switch to is there, a funded  *)
(* one; and unless its owner created it again since, it began with what the *)
(* challenge ended with, a tenth above its start: trades that come for the  *)
(* challenge afterwards and a name that is used again do not part the two.  *)
FundedFollowsPass ==
    \A id \in Ids : accounts[id].status = "passed" =>
        LET funded == accounts[FundedId(id)]
        IN /\ funded.kind = "funded"
           /\ funded.graduated => /\ funded.start = accounts[id].equity
                                  /\ 10 * funded.start >= 11 * accounts[id].start

\* Somebody begins the account anew: its owner, or the pass of its challenge.
Renewed(id) ==
    \/ \E kind \in Kinds, balance \in Balances : CreateAccount(id, kind, balance)
    \/ \E c \in Ids : FundedId(c) = id /\ CheckChallenge(c) /\ Pass(c)

\* What is over stays over, whatever is recorded on it: an account that passed, failed or
\* was halted keeps status and equity until it is begun anew.
HaltIsFinal ==
    [][\A id \in Ids :
          accounts[id].status \in {"passed", "failed", "halted"} =>
              \/ /\ accounts'[id].status = accounts[id].status
                 /\ accounts'[id].equity = accounts[id].equity
              \/ Renewed(id)]_lifeVars
=============================================================================
