# QuantMetrics Suite: formal models

TLA+ models of the parts of this repository that put money at risk, the TLC runs
that check them on small instances, and the TLAPS proofs of what holds for every
value of the constants. Source paths are relative to the root of the repository.

`PROJECT.json` is the index: components, runs, mutants (one per checked
property: a plausible bug in the code that the property catches), the source
lines each definition models, findings, hazards and theorems.

## 1. The system and its parts

The suite is six Python packages.

| Package | What it does | State it keeps | Modelled |
| --- | --- | --- | --- |
| `quantbuild` | the trading engine: live runner, order manager, risk layers, backtests, news | `state.json`, memory of one process, the broker | live runner, its decisions and their journal, order manager, risk layers, backtests |
| `quantbridge` | accounts, order execution and safety control at the broker | `state/account_states.json`, `state/positions.json`, `state/trading.paused`, the broker | account states, runtime control, order lifecycle, prop guard, routing |
| `quantlog` | the event journal: emit, validate, replay, summarise | append-only JSONL per day | the validator's rules |
| `quantanalytics` | read-only reports over the journal | none | decision cycles, funnel, guard attribution |
| `quantresearch` | experiment ledger, edge registry, dossiers | JSON and Markdown ledgers | no |
| `quantmetrics_os` | starts the others, artifacts, promotion gate | run directories | no |

### QuantBuild live runner (`quantbuild/src/quantbuild/execution/live_runner.py`)

- **State.** `PositionMonitor._positions` (tracked positions and whether their
  thesis holds), `OrderManager.managed_orders`, `_open_trade_quantlog` (the ENTER
  metadata later events join on), `_last_bar_ts`, `_daily_pnl_r`; on disk
  `state.json` (managed orders) and the QuantLog journal.
- **Operations.** One single-threaded loop: reset of the day, news poll, position
  sync, signal check with entries, monitor pass, sleep. Start loads `state.json`
  and syncs; shutdown saves.
- **Interaction.** Calls to the broker (list, submit, modify, close), events to
  QuantLog, callbacks of the news pipeline that invalidate a thesis. systemd
  restarts the process.
- **Hard.** Every call to the broker can fail or answer wrongly; the broker closes
  positions between any two statements; the process can die between the fill of
  an order and its registration, inside a write of `state.json`, or between the
  retirement of a trade and its event.
- **Correct means.** Bounded exposure; every tracked position has its stop
  managed; memory and disk agree; the journal tells the truth, once and in order;
  a bar is not entered twice; what the broker closed or the news invalidated is
  dealt with in the end.

### QuantBuild order manager (`.../execution/order_manager.py`)

- **State.** Per trade: stop, peak price, units, and the flags `break_even_set`,
  `partial_closed`, `trailing_active`; a copy of each in `state.json`.
- **Operations.** `register_trade`, `update_price` (break-even, partial close,
  trailing stop, in this order), `unregister_trade`, `save_state`, `load_state`.
- **Hard.** The three mechanisms work on one stop through calls that may fail, that
  answer a failure though the broker executed them (a timeout) or a success though it
  refused; `update_price` does not save, so a restart works with an older copy.
- **Correct means.** The stop only moves in the trade's favour; break-even once
  noted is real; one partial close; manager and broker count the same units; an
  activated trail keeps its profit.

### QuantBridge account states (`quantbridge/src/quantbridge/accounts/`)

- **State.** One JSON file: per account a status and three annotations.
- **Operations.** `pause`, `breach`, `resume`, `set_health_state`,
  `record_risk_block`, `set_state`: each loads the file twice, changes one entry,
  writes `<file>.tmp` and renames it.
- **Interaction.** Written by the runtime loop at every poll, by the failsafe, by
  `account_control.py`; read by the account selector, the order script and the loop.
- **Hard.** No lock, a temporary file name all writers share, deaths in between.
- **Correct means.** An operation changes its own account in its own fields, and
  nothing but an operation meant to do so makes a blocked account tradeable.

### QuantBridge runtime control and order lifecycle (`quantbridge/src/quantbridge/execution/`)

- **State.** The broker's positions; the registry `state/positions.json` (one row
  per symbol); the mismatch streak; `_paused` of each process; the marker file;
  the status of the account.
- **Operations.** The loop: check the account, connect, list, reconcile, count
  mismatches, failsafe (close everything, then pause). The order script: account
  gate, risk check, submit, confirm the fill by polling, ensure stop and target,
  failsafe on anything else.
- **Interaction.** Two processes that share the broker, the marker and the status;
  QuantBuild or a person may trade the same account.
- **Hard.** Listings that lie, fills that come late, partial, bare or unreported;
  amendments whose result is ignored; deaths and restarts in every step.
- **Correct means.** No order ends as a position that is not what was asked for;
  the failsafe runs only for real changes; the registry follows the broker.

### Decisions and their journal (`live_runner.py`, `quantlog/.../validator.py`, `quantanalytics/.../guard_attribution/`)

- **State.** What one poll knows: the bar it is on, the decision cycle, the source
  sequence number, the metadata of open trades; the journal on disk.
- **Operations.** `_check_signals` and `_evaluate_and_execute` with every guard,
  early return and event; the position sync and the monitor with the closes they log;
  the warning of stale data; on the other side the validator's checks over a whole
  journal, and the funnel and attribution computed from it.
- **Hard.** About twenty ways out of a poll, each with its own events; both
  directions of a bar share one decision cycle; a death leaves half a chain, and a
  restart begins a new run and session with old trades still open; a listing or an exit
  that failed logs a trade closed that is adopted again; some rows have no cycle.
- **Correct means.** The validator accepts what the runner writes; every detected
  signal is resolved once; what the analytics count is what happened.

### Routing and the prop guard (`quantbridge/.../router/`, `.../risk/`)

- **State.** The orchestrator keeps none between requests; within one, the plan,
  the attempts so far and the answer being put together.
- **Operations.** Rank the eligible accounts, build a plan (single, fan-out, primary
  and backup), attempt each account (risk check, order, confirmation), aggregate.
- **Hard.** Some accounts fill and some do not; an order that is not confirmed may
  have filled; an exception in the middle answers nothing; account states that
  cannot be read.
- **Correct means.** The backup only after a failure; every position opened is in
  the answer; no order on an account known to be at a limit.

### Risk layers (`portfolio_heat.py`, `adaptive_mode.py`, `pass_accelerator.py`, `account_lifecycle.py` and the simulations that run them)

- **State.** Open positions and their heat; the mode and its streaks; the phase of a
  challenge; per account status, equity and peak.
- **Hard.** Several thresholds overlap, each layer keeps its own peak, calls come in
  any order, the simulations decide with `abs(daily)` and with an always
  empty portfolio, and an account may be created over one that is there.
- **Correct means.** Heat and clusters bound what is open when it is opened; near the
  drawdown limit no layer attacks; a passed challenge kept its limits on every day; the
  funded account of a passed challenge is there; what passed, failed or was halted
  stays as it is until it is begun anew.

### Backtests (`backtest/engine.py` and the engines in `strategies/`)

- **State.** The signals still to be walked, the trades, the books (day, equity,
  peak, streak), whether the kill switch was pulled.
- **Hard.** Signals are found in all of the data first and then walked in the order
  of entry; a trade is simulated to its exit at once, so books are ahead of time; its
  size follows the regime and the news; the H1 bias reads pivots of a centred window.
- **Correct means.** One open trade where promised; day, equity and streak limits
  bound what is lost; the report agrees with the books; how far ahead of its entry a
  signal reads is known, and no bar beyond changes it.

### Parts that are not modelled

- **Paper shadow trader**: a list in memory that only its own summary reads.
- **Market data loaders, alerts, dashboard, broker connections, credentials**: input
  and output; what they answer is the environment of the models.
- **Indicators, SQE conditions, regime detector, news classification**: numeric or
  textual functions of data; the models take every signal, regime or thesis a bar
  may have.
- **Replay, summary and quality of QuantLog, other reports of QuantAnalytics**:
  sums and tables over rows.
- **QuantResearch, QuantMetrics OS**: scripts that one person runs one at a time over
  files; what matters in them is the text they produce.
- The scripts in `quantbuild/scripts` and `docs/` (copies of code for audits,
  diagnostics, parameter studies) are not parts of the running system.

The models cover the control of the programs that decide about money; most
other lines of the repository are numeric analyses, reports and copies.

## 2. Modules

| Module | Role | Models |
| --- | --- | --- |
| `LiveRunner` | component | the runner's loop with the part of order manager and monitor it drives |
| `TradeJournal` | abstract | what the journal promises about trade events |
| `StopManager` | component | the life of one managed order |
| `AccountEntries` | operators | entries of the account file, the effect of each operation |
| `AccountGovernance` | abstract | atomic account operations |
| `AccountStates` | component | the same operations through a file, by processes that die and race |
| `BridgeAccount` | shared | broker account, operator, and the failsafe each process can run |
| `RuntimeControl` | component | the runtime loop |
| `OrderLifecycle` | component | the order script and `place_and_validate` |
| `Bridge` | composition | loop and order script on one account |
| `DecisionCycle` | component | one poll of the runner: guards, early returns, events, deaths and restarts |
| `QuantLogValidator` | operators | the validator's rules over a journal |
| `DecisionAnalytics` | operators | QuantAnalytics' decision cycles, funnel and attribution |
| `DecisionJournal` | composition | the properties of journals of `DecisionCycle` under both |
| `PropGuard` | operators | the limits of the prop guard in their order, scaling and failsafe codes |
| `Routing` | component | one request over several accounts |
| `PortfolioHeat` | component | opening and removing positions under the heat engine |
| `AdaptiveMode` | operators | mode and phase transitions |
| `AdaptiveSims` | component | the loops of the portfolio, challenge and funded simulations |
| `AccountLifecycle` | component | challenge and funded accounts with their checks |
| `SweepSetups` | operators | how the two New York sweep engines find entries |
| `Backtest` | component | the walk of a backtest of each engine |
| `Policies` | composition | the last five components next to one another, one per behaviour |
| `MC*` | instances | the sets of faults, results and bars, and the symmetry of the runs |
| `*Proofs` | proofs | theorems about the component of that name; `PoliciesProofs` about the heat engine, the simulations, the lifecycle of an account and the composition |

**How steps correspond to code.** `LiveRunner` is single threaded in the code, so an
action is the stretch between two points where another party can act: each call
to the broker, each write of `state.json` and each event is an action of its own,
because the broker or a crash can fall between two of them. `Retire` is
`positions.pop` plus `unregister_trade` with its save. `pc` names the place in
`run()`. `drop` and `cur` are the Python locals that survive such a point.

`StopManager` measures price in ticks of gain, so LONG and SHORT differ only in how
the code initialises and keeps the peak. `UpdatePrice`, `PartialClose` and `Trail`
are the three stretches of `update_price` between its calls to the broker;
`Answered` says of every such call, of a close as of a move of the stop, whether the
broker executed it and what the client answers: a refusal, a timeout after the broker
executed the order (`lost_modify`, `lost_close`), or `True` for something the server
refused (`refused_unseen`: the client looks at no answer);
`UnitsToClose` is Python's `round` with ties to even. An infinite set of prices
becomes `-MaxLoss..MaxGain`.

`AccountStates` follows one call of an operation through `get` (first load), `load`
(second load, new dictionary), `open` (truncate the temporary file), `write` and
`replace`. `fd` is the name a process's open file has by now, because another
process may rename it between opening and writing. Text fields that no decision
reads (`reason`, `paused_by`, `updated_at`) are left out.

`Bridge` lets the account's status change in one step (the inside of that step is
`AccountStates`). Positions are numbered in the order of their orders, `ver` stands
for the stop, target and size of the newest one, and a registry row is the pair of
both: exactly what `StateValidator.reconcile` compares. `changed`, `changes` and
`mine` are history variables: no step reads them.

`DecisionCycle` has two settings that stay as they are for a behaviour: whether the
research path is taken (`research_raw_first`) and whether a bar can signal both
directions. A filter that is off is a guard that never blocks: a gate the environment
leaves open, a `MaxOpen` no poll reaches, a new bar for every poll. A dry run, whose
trades no broker has, is left out. An action is a stretch
between two events that a death may separate; guards follow in the order of the code,
and each way out writes its events. `pc` names the next handler of the loop: news and
position sync, signals, the warning of stale data, the monitor. `SyncPositions` takes
what the broker lists, or nothing when the request fails; `MonitorPositions` closes a
position with an invalid thesis and gives it up whatever the broker answers. Both
`LogClosed`: a `trade_closed` under the trace and cycle of the entry, which are used up,
or else under a new trace and no cycle. So a trade that a failed listing or exit logged
closed is adopted by the next sync and logged closed once more under another trace, by
the same process. A row of the journal has the fields the validator and the analytics
read. `DecisionJournal` applies the validator's operators to whole journals.

`Routing` numbers accounts by rank; an attempt chooses the answer of the broker's
account state, of the risk check and of the order manager. `PortfolioHeat` works
with variances, since `effective_heat` compares a square root with a limit. In
`AdaptiveSims` results are hundredths of R; `worstDay` is a history of how the days
ended, which no step reads. `AccountLifecycle` keeps one entry for each id: an owner may
create an account of either kind at any time, also over one that is there, and the
pass of a challenge writes over its funded id; nothing but the checks looks at a
threshold. `Backtest` leaves prices out: a trade is
its bars and a result times its size, the size of the regime (`position_size_mult`)
times the boost of the news gate, which only the `sqe` engine asks. The overlap guard of
the component engines is on when `risk.max_concurrent` is at most 1. The data of a sweep
engine is a sequence of kinds of bars relative to the London levels, with a high and a
low that only the H1 bias of the reversion engine reads: an H1 bar is made of its M15
bars, a pivot is compared with the hours before and after it, and each bar reads the
label of its whole hour. The bars are dropped once the signals are
found, as nothing after reads them. The signals are a set, and the walk takes of
those that are left the one entered first: what the code's `sort` and `for` do.

**Faults.** Each component of the first group has a constant `Faults`, a set of named faults the
environment may produce; each property says which of them it tolerates, and the
run's set is chosen accordingly. A property is thereby stated together with the
circumstances it needs, and the limits in section 5 are the other side.

## 3. Runs

| Run | Shows |
| --- | --- |
| `runner_restart` | orderly stops and restarts: exposure at most one above the limit, every tracked position managed; a fair loop journals what the broker closed and flattens what the news invalidated |
| `runner_crash` | death at any point, torn writes, lost fills: `trade_closed` is never ahead of the broker, the runner implements `TradeJournal`, `state.json` names the managed orders |
| `runner_broker` | a broker that lists nothing, refuses closes, loses fills and answers order ids: tracked positions, managed orders and metadata stay consistent within one lifetime, and no bar is entered twice |
| `runner_daily` (violation) | the daily loss guard never closes |
| `stop_orderly` | calls that move the stop succeed, closes may be refused: the stop never loosens, the trail keeps its profit, one partial close is made, and manager and broker count the same units |
| `stop_faults` | any refusal that is answered as one, any lost reply (of a close as well) and a crash at any point: break-even once noted holds, and the manager never believes in fewer units than are open |
| `stop_crash_partial` (violation) | after a crash the reloaded order has its 5 units and no flag: a second partial close takes 2 of the 3 that are left |
| `accounts_crash` | one operation after another, each may die anywhere: the file implements `AccountGovernance`, only a resume or override unblocks |
| `accounts_race` (violation) | two pauses of one account at once: the second writes through a descriptor of the shared `.tmp` that the first has already renamed over the state file; the file no longer parses and the paused account is eligible again |
| `bridge_orders` | loop and order script with bare, partial and lost fills, refused amendments, lost connections and deaths: no naked order, an earned failsafe, a current registry |
| `decision_journal` | every branch of a poll in both settings, with a listing that answers nothing, an exit that fails, a death between any two events and a restart: standard chains are accepted, a detected signal is resolved once, the events of a trade correlate until its process is gone or has logged it closed (after a failed listing or exit while it is open), the funnel adds up (with what it misses: signals that no guard blocked, the entries it warns about, and the rows of no cycle, each a group of its own), and the outcome attribution finds for a block is only ever that of a slippage close |
| `policies_parts` | routing in every mode with every outcome and an exception anywhere; heat and clusters; the simulations; challenge and funded accounts that are created anew at any time; backtests of all engines at every size. `RoutedSafely` and `LossesBounded` are conjunctions of named parts: backup after failure, exposure accounted for, success complete, no order at a limit; day, drawdown and streak limits |

**Bounds and why they are enough.**

- Runner: three trades, `MaxOpen = 1`, two bars. Two trades fill the limit and
  exceed it by one (both directions of a bar); the third shows that what a retired
  trade left behind does not affect the next. Event counts are capped at 2: a
  property only asks for 0, 1 or more. Trade ids are symmetric in the safety runs;
  `runner_restart` checks liveness and uses no symmetry.
- Stop: one R is four ticks with the default thresholds (break-even and half the
  units at 1R, trail from 1.5R at distance 1R), so every order of the thresholds,
  the break-even offset of one tick and several trail steps occur; five units make
  `round` meet a tie.
- Accounts: two accounts (one operation must not touch the other), one mode, one
  note besides the empty one. Reads and writes are per entry, so values only need
  to differ. The race needs two processes.
- Bridge: two positions (an order of the script next to a foreign one, or two
  orders in a row) and a streak of two. Two positions are needed for the one-row
  registry to hide one; the proofs lift both bounds for the loop's properties.
- Decisions: `MaxPolls` and `MaxStarts` of two and `MaxOpen` of one: two polls reach
  what one leaves to the next (metadata, the bar already done, an open position),
  one restart separates two sessions. Longer journals repeat these. `MaxPollsElse` is
  one: with the research path or both directions a poll stands alone, as what it leaves to
  the next is the same in every setting. `Alone` is the
  direction of a signal that is the only one of its bar: LONG, as no guard tells the two
  apart. `FaultRows` lets a listing or an exit fail while the journal has fewer rows than
  that: with six, right after the four rows of an entry or
  a warning of stale data, so that the trade is logged
  closed too early, adopted again, and logged so a second time in the polls that follow.
  The proofs lift all of these bounds.
- Routing: three accounts: a primary, a backup and one more; a plan of three has a
  first, a middle and a last attempt.
- Heat: five symbols with the mirrored, hedged and plain correlations of the code's
  matrix, two risks, a heat limit of two large positions, four trades a day at most.
- Simulations: four days of three trades (`AttackUntil` and `PushDays` of one) with a
  loss of 1R and a win of 2R: every mode and phase is entered and left.
- Lifecycle: one name (a challenge and its funded account; names do not touch each
  other), a balance of 100, trades of a tenth of it either way within `MinEquity` and
  `MaxEquity`: target, drawdown and the end of the 30 days can all be first, for a new
  account and for one created over another. A payout and a losing day are counted once.
- Backtests: seven bars in days of three, five kinds of bars for each sweep engine
  (all series of them are tried), at most three signals on the bars `SignalBars` for
  the others, a stop of two, a target of four and a timeout of minus one, sizes of one
  and two with a boost of the news of 1 or 1.5 (`One` is the unit; smaller boosts only
  lose less, and the proof has them all), limits that these results reach exactly and
  exceed. A streak and a cap both end before a third trade, which may be in a new day.
  For the bias an hour is one bar, with pivots over two hours and a lookback of three:
  bars of four heights make and unmake a pivot within the seven.

**Fairness.** `LiveRunner!FairSpec` assumes weak fairness of `Run` (the loop never
blocks for ever: `time.sleep` returns and broker calls have timeouts) and of `Start`
(`Restart=always`, `quantbuild/docs/VPS_DEPLOYMENT_RUNBOOK.md:207`). The environment
(broker, market, crash, stop) has none. The other specifications are checked for
safety only and state no fairness.

**Deadlock** is checked in the runs of the runner, the orders, the accounts and the
bridge: someone can always act. `decision_journal` and `policies_parts` say
`CHECK_DEADLOCK FALSE`, since what they model ends: the polls and starts are bounded, a
request is answered, a simulation and a backtest reach their last day or bar.

## 4. Proofs

All theorems hold for every value of the constants within the modules' `ASSUME`s.

*LiveRunner.* `HandInv` says what is in hand between two steps (a trade between its
fill and its last event is fresh, tracked, or on its way out). It makes `TypeOK`
inductive. `DiskAgrees` is inductive by itself: every call that changes
`managed_orders` saves before returning, and both ends of a lifetime agree. With
`BrokerTruthful` (no empty listing, refused close or order id), `JournalInv` adds
what the promise of the journal rests on: the trade about to be reported is
neither open nor tracked, and a tracked trade has no `trade_closed`. From it follow
`NoPrematureClose` and, step by step, the refinement of `TradeJournal`. With
`OneLifetime` (no stop or crash), `LifetimeInv` ties order, metadata and ENTER to
the tracked position, the trade being reported excepted; `ReentryInv` says that
entered bars are processed bars and that of the current bar only directions no
longer in `todo` were entered. With `OrderlyRestarts` (no fault but a stop between two
iterations), `RestartInv` says where every open position is known: on disk while the
process is down, in `managed_orders` once it has loaded, in `tracked` (or in hand) after
the first sync. `EveryPositionManaged` is a part of it; `ExposureBound` follows because
what the position limit counts is then what is open, and `todo` holds two
directions at most.

*StopManager.* `UnitsToClose` is bounded by its argument for every percentage (the
lemma type correctness rests on). `BreakEvenInv` says that a saved order knows at
most what the one in memory knows, and that both imply a stop at break-even or
better: this is why a reload cannot break `BreakEvenKept`, under every fault but a
refusal nobody sees. `UnitsInv` says the same of the units: what is open is at most what
the order in memory counts, and that at most what the saved one counts, so a lost reply
or a reload errs on the side of too many (`NoUnitsForgotten`). `OnceInv` (no lost close,
no crash) ties the flag to the broker's count of partial closes, and `AgreeInv` (no
unseen refusal either) both units to each other; section 5 says what happens without
each exclusion, and `stop_crash_partial` shows it of the crash. `StopInv` and
`ProfitInv` (`StopMovesSucceed`: no refused or lost move, no crash) relate peak,
trail and the stop at the broker in the middle of an update.

*AccountStates.* `TypeCorrect` holds for any number of racing processes. With
`OneWriter` (at most one process), `FileInv` says that the file is always a whole
dictionary, that what an operation read is still what the file holds, and that
the temporary file about to be renamed is the file with that one entry changed.
Hence every step maps to one operation of `AccountGovernance` or to a stutter, and
`OnlyResumeUnblocks` follows. `accounts_race` shows that `OneWriter` is needed.

*Bridge.* `LoopInv` says, between two polls and in the middle of one, what the
registry and the listing in hand know of the broker. With truthful listings it
gives `StreakIsEarned` and `RegistryIsCurrent` for any number of positions, any
streak and every other fault, because the other parties reach the loop only
through the positions. `TypeOK` needs no restriction on the faults. With
`OrdersAnswered` (truthful listings, closes that succeed, no fill after the deadline),
`OrderInv` follows the position of an order from its submission to the end of the
script: by what number the script knows it, when it is complete, and that a failsafe
that reached its pause has closed it. The other parties are shown to leave all of
this alone (`OrderUnmoved`), and `NoNakedOrder` is its last conjunct.

*AccountLifecycle.* `LifeInv` is `FundedFollowsPass` with the types of all accounts (only a
challenge passes or fails, only a funded account halts, and no challenge has a funded
id); each update is shown to change only the fields it names, and a creation only the
account of its id, so that the funded account of a passed challenge survives what
happens to others. The property says nothing of an account its owner created: a funded
account needs no pass in the code. `HaltIsFinal` follows from the steps: what is over
keeps status and equity until somebody begins it anew. That only an owner does so is
not true (section 5). Both hold for any balances, bounds and limits.

*Backtest.* `WalkInv` says that every signal that is left lies within the data and
that, where the overlap guard is on, every booked trade ends no later than
`lastExit`; a signal is taken only from a later bar, so `OneOpenTrade` holds. It also
says that `lossRun` is at least the length of every streak of losses that ends with
the last trade: a streak of `StopStreak` therefore ends the walk. The first bar of a
set exists because `<` on the naturals is well-founded. Neither the contents nor the
number of bars is bounded. `BooksInv` ties the books to the trades: each day's result
is the sum of the trades entered on it, `total` of all of them, and `peakR` is the
largest equity there was. A guard that lets a signal pass leaves room for one more
`WorstLoss`, a stop at the largest size that regime and news can give together, hence
`LossesBounded`; the report's drawdown is compared with the same
sums in `DrawdownReported`. Sums are `FoldSet`s, whose recursive function is justified
by a least counterexample on the size of the set (`AdderExists`), as cardinalities
are well-founded; `SumWithout` and `SumSame` are what the books use. `SignalsDecided`
rests on `SearchUpTo`: the first bar of a window with a property that only looks
back is the same in two series of data that agree up to it. For the bias it is shown that
the structure of an hour reads the bars of `PivotBars` more hours and no others. That a
signal stands on its entry bar does not hold, for either engine: the property says
from which bar on it does. `StopAssumption` says
that a timeout, a midline exit and a target give at least minus one stop:
`_simulate_trade` (`backtest/engine.py:176`) searches a bar for the stop before
anything else, so a trade that is still open at its close is not beyond it.

*AdaptiveSims.* `SimInv` says that the accelerator's peak is the simulation's (both see
every equity) and that its phase is the one for the equity of the moment. `DaysInv` is
what `PassedWithinLimits` rests on: a challenge that goes on has ended each of its days
within the limit, either way, and so has won less than one limit a day. In the heat
engine, `MirrorPairExclusive` is inductive with the type of the positions: what is
left of them was there before, and a new leg is refused while the other is
held, whatever the correlations and limits.

*Routing.* `LimitRefused` shows that the risk check refuses what `AtLimit` knows, also
when the balance cannot be read. `RoutingInv` strengthens `ExposureReported` to every
moment of a request: a position and its report arrive in one step. `OrderInv` says
that the results follow the plan, one by one; that the plan of primary and backup is all
eligible accounts in the order of their rank (`RankedInOrder`: a finite set of numbers has
exactly one such listing, shown by taking out its largest member); and that there
only a success leaves an account out. It gives two of the other parts of `RoutedSafely`.

*Policies.* A behaviour of the composition is one of each part (`PartsAreTheirs`), so the
theorems above hold in it. The simulations and the heat engine share `positions`, which
a simulation changes as well: `SharedInv` says that its heat engine holds nothing
between two signals, because each position added for the record is released again
(`ReleasedAgain`). `PoliciesCorrect` states all ten properties of `policies_parts`.

*DecisionJournal.* An event is decided in one step and written in a later one, and a
crash may fall between, so no property of the journal alone is inductive. The
invariants are about the *story* (`Story`): the rows of the journal followed by the rows
the agenda will write, where a direction still to be executed is a row of its own.
Writing an event leaves the story as it is; a crash cuts it back to the journal; the
closes of a sync or an exit and a warning (`Logs`), a poll and the decision on a signal
put rows on it, and the decision puts them in the
place of the row for the execution. The lemma `Steps` says that every step is one of these
six, so each part of `IInv` is proved over them and not over every action:
`JournalInv` (the numbers of a process increase, so no row is refused by the emitter's
stream check), `RowsInv` (what each kind of row carries), `OutcomeInv` (one outcome for
each signal), `TradeInv` (a direction to be executed has no trade yet; a trade this
process has written of is in `meta` or has a row that logs it closed; and two of its rows
under different traces have such a row before the later one),
`ActionInv` (a poll acts once), `OneTradeInv` (one trade to a cycle), `GuardInv` (a
cycle somebody held was not blocked) and `ChainInv` (ranks, process and trace of a
chain). All but the first four need polls that decide on one direction, and `ChainInv`
the standard path, as the properties say. No part assumes a broker that answers
truthfully. The five properties of `decision_journal` follow from `IInv` in every state: the validator's reference set is then all rows
(`RowsAccepted`), and the first row of a group exists because `<` on the naturals is
well-founded (`FirstIs`). `NoIdAssumption` says that an absent identifier is not one of
the identifiers: neither a number nor the name of a signal, trade or close.

*Model-checked only.* Both liveness properties: liveness under fairness is beyond the
prover.

## 5. Limits: what the code does not guarantee

Findings, each shown by a violation run, are in `PROJECT.json`. Besides:

- A crash between fill and `register_trade` leaves a position that is tracked after
  the restart but not managed (`EveryPositionManaged` tolerates stops only).
- A position closed while the process is down never gets its `trade_closed`, and
  its order stays in `state.json` for ever (`OneLifetime`).
- `_last_bar_ts` is lost by a restart: the same bar can be entered again.
- When a close is refused, the position is journalled as closed and tracked again
  by the next sync, with a valid thesis and without a managed order.
- `StopNeverLoosens` fails when break-even is refused first and granted after a
  trailing step, and after a crash.
- `close_trade` answers `False` when the request timed out after the broker executed it
  (`ctrader_openapi_client.py:572-577`): the next update closes a second part, without any
  crash, and the manager then counts more units than there are. With `lost_close` among
  the faults `PartialCloseOnce` and `UnitsAgree` fail.
- `modify_trade` and `close_trade` answer `True` for what the server refused (`:596-598`,
  no answer is looked at): break-even is noted and not set, or units are open that are no
  longer counted. With `refused_unseen` among the faults `BreakEvenKept`, `UnitsAgree` and
  `NoUnitsForgotten` fail; `PartialCloseOnce` does not.
- Positions with an invalid thesis do not count against the limit.
- QuantBridge: a failed listing answers `[]` and counts as a mismatch; a failsafe
  closes before it pauses, so another process's order in between stays open, and
  a death in between loses the pause; a fill after the deadline and after the
  failsafe's listing stays open; a pause between gate and submission does not
  stop the order.

- LONG and SHORT of one poll can exceed `max_open_positions` by one: both are checked
  before either is tracked (`ExposureBound` allows it).
- An empty answer of a failed listing journals open positions as closed
  (`NoPrematureClose` and the refinement assume `BrokerTruthful`).
- Journal: on the research path, and when both directions of a bar are signalled, the
  validator rejects the chain (two actions in one decision cycle);
  `StandardChainsAccepted` is about the others. After a restart the events of an old
  trade carry a new session, which the validator also reports; and a trade that a failed
  listing or exit logged closed has its real close under another trace and no cycle, in
  the same process (`TradeEventsCorrelate` says that nothing else is reported).
- Routing: an order that is not confirmed and fills later, followed by the backup,
  doubles the exposure; after an exception nobody is told of the positions already
  opened; an account whose state cannot be read is treated as one without loss or
  positions, and the order is allowed.
- Risk layers: the cluster check looks at the heat before the new position, so a cap
  of 1.5 % can become 2.25 %; removing one leg of a hedge can raise the effective
  heat above its limit; `LOCKDOWN` is never left where trades are blocked in it; the
  challenge simulations compare `abs(daily)` with the limit, so a winning day of that
  size fails the account; the portfolio simulation releases a position before the
  next is asked for, so correlation never blocks there. `create_account` overwrites any
  account, and a challenge that passes overwrites the funded one of its name, one that
  was halted included, though a halt asks for a manual review
  (`account_lifecycle.py:31`); `record_trade` looks at no threshold, unlike its docstring
  says (`:124`), so trades are recorded beyond the drawdown until the daily check.
- Backtests: a reclaim can be entered before the failure window that confirms it has
  ended; a bar that sweeps and closes back inside is not left out, unlike
  `configs/experiments/ny_sweep_reversion/HYP-002_NY_SWEEP_FAILURE_RECLAIM/spec.yaml:10`
  says; only the bar of the sweep must lie in the trading window; the SQE and
  breakout engines let trades overlap, the component engines with `risk.max_concurrent`
  above 1; the H1 bias of a reversion reads the hour of the sweep to its end and two more
  (`structure_context.py:17` centres its pivots), so that bars after the entry may add
  or remove a signal (`SignalsDecided` says how far); guards count results of trades that end
  later than the next entry; the reported drawdown leaves out a loss of the first
  trade; `mock_spread`, which makes a stop cost more than one R, is not modelled.

Not in the models: regime updates and LLM advice of the runner
(they choose signals), the day's reset anywhere but at the top of the loop (where
the code calls it), the `--close-after` option of the order script (any position may
be closed by the broker at any time), and the contents of events beyond their kind
and trade.

## 6. What is left

1. `Bridge` with `AccountStates` in place of its one-step status, and a statement of
   what both failsafes together leave behind.
2. At-most-once execution of a request as an abstract specification, implemented by
   primary and backup routing under the outcomes for which it holds.
3. The events of backtests under `QuantLogValidator`.
