# Verification of GRANDE Alpha

GRANDE Alpha trades a small list of stocks and two leveraged ETFs through one broker account. A hidden
worker process owns the broker connection, and a desktop window and a command line send it commands.
This directory holds TLA+ models of the parts that decide whether, when and how often an order leaves
the machine, the TLC runs that check them, and TLAPS proofs about them. `PROJECT.json` lists the
components, runs, mutants, hazards and theorems, and maps each definition to the lines it stands for.

## Inventory

Paths are below `src/scripts/`. "H" marks the behaviours that are hard to test.

| Part | State | Operations | Hard behaviour and what makes it correct |
|---|---|---|---|
| Equity ledger, `execution/equity_ledger.py` | intents, dispatch, fills, engine lease (SQLite) | lease acquire, renew, release; reserve, mark, abandon, observe | H: provider rows late, repeated, mixed up; processes overlapping. One ticket in doubt per account, one identity per order and fill, a complete daily count, an exclusive lease |
| Mixed engine, `execution/mixed_engine.py` | authority, lease owner, one cycle's locals | arm, recover, run_cycles, cycle, heartbeat, stop | H: crash, expired lease, stop or timeout at every await. At most one exposed order, no uncovered sell, no repeated order, it ends when told to |
| Standing authority, `persistence/execution_authority.py` | `standing_sessions` | register, active, active for scope, stop | recovery takes over the only active authority, never a guess |
| Session runtime, `execution/session_runtime.py` | broker object, connect task, research service | connect, review, permit, run, recover, close, cleanup report | H: connect shared by commands, close during connect. One broker owner |
| Broker transport, `broker/robinhood_transport.py` | request queue, owner task | connect, call, serve, stop, disconnect | H: teardown with calls in flight. Every caller gets an answer, no second owner |
| Control record, `execution/worker_control.py`, `worker_status.py` | one row: generation, running, scope | review, start, stop, emergency fence | H: two processes. A generation identifies a session |
| Session worker, `execution/session_worker.py` | runner task, stop counter, shutdown flag | commands, recover, done callback, close | H: handlers interleave at awaits, deadlines cancel them. One runner, of the recorded, approved session; stop wins |
| Worker process and control server, `execution/worker_process.py`, `worker_ipc.py`, `process_lock.py` | process lock, server | serve, dispatch, close | H: recovery at start, exit while commands run |
| User permit, `execution/authorization.py` | one JSON file per path | create, revoke, gate | H: replaced in two file operations. Never more than the user approved |
| Daily risk, `persistence/execution_risk.py`, `domain/loss_recovery.py` | a day's peak, latch and pause | record, acknowledge | H: new days, new scopes, clock arithmetic. A breach stops the day, a pause lasts as long as promised |
| Legacy ETF records, `persistence/execution_orders.py` | intents, executions | bind, record | as the ledger, for an older route |
| Transactions and store, `persistence/transactions.py`, `schema.py`, `receipts.py` | one connection, nesting depth, callbacks; the file's version | transaction, after_commit, open | H: failed inner transactions, migrations cut short. All or nothing, callbacks only after the commit |
| Holdouts and research evidence, `persistence/research_*.py`, `research/evidence_*.py` | sealed blocks and their status | reserve, freeze, claim, consume | H: reuse of data already seen |
| Agent and mailbox, `research/agent_*.py`, `worker_research.py` | mailbox rows, research task | enable, poll, request, stop | H: expiry, revocation, enable across an await |
| Paper trading, `research/paper/` | cash, positions, pending, journal | start, consume, cancel | H: two feeds, failed saves |
| Market and earnings data, `data/`, `persistence/market.py` | observations, request budget; batches of quotes | fetch, record, verify, prune, read into bars | H: a shared sliding budget; streams that alternate, quotes that come late. A bar sees its own quotes and no later ones |
| Searches over settings, `research/evidence_search.py`, `strategy_selection.py` | folds, blocks, one choice | walk forward, compare, open the last block | boundaries of splits. No choice rests on what it is tested on |
| Replays and executors, `strategy/quote_simulation.py`, `research/bar_replay.py`, `runtime_replay.py`, `portfolio_replay.py` | cash, settlements, a position, pending orders, pauses | one frame or bar at a time | H: partial fills, gaps, latency. Money adds up, a decided exit is carried out |
| Strategies, `strategy/core.py`, calendar, `domain/market_calendar.py`, deadlines | what a rule remembers of bars | one bar; one date | arithmetic over boundaries: sessions, years, changes of the clocks |
| Broker reads and crypto adapter, `broker/robinhood_mcp.py`, `broker/crypto.py` | previews, used references, cursors | preview, place, cancel, list | H: rows that move between pages, reconnects under an operation. A reference leaves once; a listing is whole or an error |
| Session window, `ui/session_window.py`, `session_lifecycle.py` | the reviewed scope, the last worker record seen, latches | connect, review, approve, start, stop, paper, exit | H: answers late, lost or superseded, other clients. A stopped session stays stopped, a session runs as it was approved |
| Command line and worker start, `interfaces/cli/worker_cli.py`, `persistence/upgrade.py` | the credential, the local channel, the process lock | send, spawn, fence; import of an older journal | H: starts beside an ending worker, crashes. One worker answers, a Stop is on record |
| Shadow records, `persistence/shadow.py` | a hash chain of checkpoints | append, latest, listing | H: two writers, failed appends, damage. It reads as recorded or not at all |
| Panels, editors, build | widgets, files | show, edit | no state that interleaves with the worker |

How they interact. A client sends a command over the control socket; `worker_ipc.py` runs the session
worker's handler under the request's deadline. The worker changes the control record and creates the
runner task, which is `BrokerSessionRuntime.run`. That builds a mixed engine whose authorization gate asks
the control record (same generation, same scope, still running) and the permit file. The engine drives
cycles: two broker snapshots, one ticket at most, dispatch through the transport's queue, and the ledger
around it. Another process can always fence the control record. All durable state is in SQLite
transactions, and so each call on the ledger or the record is one atomic step.

## Modules

| Module | Models | Rests on |
|---|---|---|
| `EquityLedger` | the ledger's tables and operations, under any client and provider | |
| `OrderFate` | the abstract promise: one ticket at a time, handed over once, released only when unsent or finished | |
| `MixedEngine` | engines, start and recovery, standing authorities, the placement queue, the provider | `INSTANCE EquityLedger`, refines `OrderFate` |
| `WorkerControl` | the control record's transactions, as operators | |
| `SessionWorker` | the worker, its process, its clients, deadlines, crashes and emergency fences | `EXTENDS WorkerControl` |
| `DailyRisk` | the day's peak, limit and latch, the recovery pause, engines of changing scopes | |
| `LossRecovery` | the recovery deadline, as operators on a calendar | |
| `BrokerTransport` | the session's owner task, its queue, connect, disconnect and calls | |
| `AgentBridge` | the research mailbox: its senders, and the owner's transactions as operators | |
| `ResearchHost` | research beside trading: the desk, its runs, the commands and the runner that stop them, the poll loop | `EXTENDS AgentBridge, WorkerControl` |
| `BrokerSession` | the broker object a worker holds: connects of several commands, teardown, readers, close | |
| `ControlChannel` | worker processes, their lock, credential and channel, the clients that start, ask and fence them | |
| `SessionDesk` | the desktop window's tasks, the requests they send, another client beside it | |
| `CryptoRoute` | previews, placements and cancellations of crypto orders over reconnects | |
| `BrokerReads` | a listing read page by page while its rows move | |
| `LegacyOrders` | the retired route's intents, executions and holding | |
| `PaperTrading` | the paper ledger, its rules and limits, its two market workers, its journal | |
| `EvidenceLab` | trials, sealed holdouts and promotions over several labs and one store | |
| `AuditTransactions` | nested transactions with callbacks and the receipts that alert the user | |
| `StoreSchema`, `StoreUpgrade` | opening an older file; importing an older version's journal | |
| `ShadowChain` | the hash chain of virtual checkpoints | |
| `EarningsStore` | earnings point in time under a shared request budget | |
| `CandidateRules` | sizing, prices, windows and limits of a candidate, as operators | |
| `QuoteExecutor`, `BarReplay` | the executor of quotes with its checkpoint, the replay of bars | `EXTENDS CandidateRules` |
| `RuntimeReplay` | the replay of recorded observations over sessions and streams | `EXTENDS QuoteExecutor` |
| `RuntimeTrace` | the ledger of quote batches and its reading into bars | |
| `StrategySelection` | which sessions a walk-forward study and a comparison of rules read, and when | |
| `PortfolioReplay` | the mixed portfolio's plan and its replay | |
| `Strategies` | what the rules remember of bars and sessions, the ensemble's vote | |
| `MarketCalendar` | holidays and early closes of every year | |
| `EquityLedgerProofs`, `MixedEngineProofs`, `SessionWorkerProofs`, `DailyRiskProofs`, `BrokerTransportProofs`, `PaperTradingProofs` | theorems | the modules of the same name |
| `WorkerParts` | the parts of a worker side by side: research, broker object, channel, crypto, listings, window | `EXTENDS ResearchHost`, instances of `BrokerSession`, `ControlChannel`, `CryptoRoute`, `BrokerReads`, `SessionDesk` |
| `WorkerPartsProofs` | theorems | `ResearchHost`, `WorkerParts` and the five modules it instantiates |
| `StoreParts` | the record keepers side by side: paper ledger, evidence, searches, transactions, import, opening, chain, trace, earnings | `EXTENDS PaperTrading`, instances of `EvidenceLab`, `StrategySelection`, `AuditTransactions`, `StoreUpgrade`, `StoreSchema`, `ShadowChain`, `RuntimeTrace`, `EarningsStore` |
| `StorePartsProofs` | theorems | `StoreParts` and the eight modules it instantiates; `EXTENDS PaperTradingProofs` |
| `MC...` | values and composition for TLC; ledger, engine, worker and transport are checked as they are, `LedgerSymmetry` and `EngineSymmetry` stand in the modules | |

`MCCalculations`, `StoreParts` (given values by `MCRecords`), `WorkerParts` (given values by `MCResearchHost`) and `MCDailyRisk` each put
several parts side by side that share no state: `part` is chosen in the initial state, one part runs and the variables of the others stay at their beginning. What
such a run explores is therefore the sum of its parts, not their product, and a property that conjoins
the promises of several parts says of each what the part alone would have to satisfy. Parts that interact are composed
by `INSTANCE` or `EXTENDS` instead (`MixedEngine` over `EquityLedger`, `ResearchHost` over the mailbox and
the control record). A combined property has one mutant in `PROJECT.json`; definitions whose comment
begins with "Mutant:" break the other conjuncts.

### EquityLedger

An operation of `EquityLedger` is one action with the operation's name. What the SQL and the Python checks
refuse is the action's guard; where the caller has to react to the refusal the guard has a name of its own
(`Acquirable`, `Reservable`, `Observable`). The two partial unique indexes are guards too: a second pending
ticket or a second claim of a provider order makes the statement raise and roll back. `MarkSubmitting` has both branches of
`mark_submitting`: with the dispatch time it writes the dispatch row, without (the argument's default, which the engine never
uses) it only moves the ticket. `UsageKnown` is the condition under which `daily_usage` answers instead of raising. `Payload` stands for
everything `observe` compares with the ticket (symbol, side, route, amount, creation time). A row is
`terminal` when its state is one of `TERMINAL_ORDER_STATES`. A lease holds the ticks that are left, so that
`Tick` replaces the clock; the order of expiry times is what the code compares.

### MixedEngine

One engine object per run, named by its lease owner. The program counter names the awaits and commits of
`run_cycles` and `cycle`; `rows`, `position` and `ticket` are what a cycle carries across an await. `Check`
is `_check`. `Heartbeat`, `BeginCycle`, `FirstSnapshotDone` and so on are enabled only while it holds, and
`CheckFails` takes the exception. `Interrupt` is every way in which an await ends in an exception: the
watcher or Stop cancels the driver, the thirty seconds pass, the broker raises. The failure path runs in the
code's order: authority, lease, ticket, each its own transaction. The process lock is not assumed, so two
engines may be alive at once; the properties then rest on the ledger and on the order of the checks.

The provider sends what is queued, accepts it any time later, executes it one unit at a time and finishes
it. `Respond` captures an order's state when the provider answers and `RecordResponse` writes it later, so
a response may be old. A unit stands for one execution, in one symbol. Nothing else trades the account: an
outside trade makes inventory and positions differ, and the engine stops at `Verify`.

### SessionWorker

Each client has at most one command in progress and `serve()` itself is one more actor, `Main`, whose only
command is `close`. A step is what the event loop runs between two awaits. `handler` holds what a command
keeps across its await: what it is, the generation and scope it was approved for, the task it waits for. A runner
task is named by generation and by whether recovery made it, because recovery reuses the recorded
generation. `wait_for` on a cancelled task returns only once that task is done (Python 3.12), so `EndStop`
waits for the runner. An error the runner ends with, other than its cancellation, comes out of `stop()`: a revocation then leaves
the permit as it was and a shutdown skips its report (`MayRaise`). `Deadline` leaves a joining stop alone and cancels any other await. On
Windows the pipe thread takes commands before `recover()` has run, and this is why `Boot` opens the server first.

### DailyRisk and LossRecovery

`days` and `pause` are the tables `mixed_daily_pnl` and `loss_recovery`. A call of `record_mixed_daily_pnl` is
the step `Record`: `Observed` is the row it writes and `Paused` what `_record_loss_pause` leaves. The engine
calls it twice in a cycle, from `_snapshot` (`Snapshot`, which carries the previous day's last value over) and
before a ticket is assessed (`Ticket`, which does not). `Restart` stands for every end of an engine and start
of another, whose scope may have another limit and another delay. The profit or loss is an input: the marks
of the ledger are `EquityLedger`'s matter. The older route's placements on a day make a missing row an error;
that route is retired, so they can only be met on the first day of a behaviour. One engine is
assumed, which is what the lease establishes. The code reads the clock once for the date and once for the
pause; the model takes both at one instant. An entry needs the regular session, which is hours from midnight,
so that its snapshot has observed the same date.

`log` is a history of the calls; the properties compare the tables with what that history says. It is there for the
properties only and no action reads more of it than its length.

`LossRecovery` counts hours of UTC and has one change of the clocks in each direction. `Instant` is how
`astimezone` reads a wall-clock time that is skipped or comes twice, with `fold`.

### BrokerTransport

`op` is the connect or disconnect that holds the lifecycle lock, and its program counter the await it is at.
`GraceOver` and `CancelOver` are the two timeouts of `_stop_worker`, `CancelOp` the cancellation of the
operation at any of its awaits. `Interrupted` is whatever ends the owner from outside: its cancellation, or
the failure of the streams. `Opened` sets the flags before it completes the readiness future, as the code
does; when connect has been cancelled meanwhile, completing it raises and the owner leaves again. `sent` is a history
of what was handed to `session.call_tool`. Each connect makes a new owner, numbered by `Gen`.

### AgentBridge and ResearchHost

A request is a row of the mailbox under a session token; its sender and the owner meet only there. Ages are
sets and flags (`aged`: written more than ten seconds ago; `beating`: heartbeat at most five seconds old),
which time may change at any point. Every write of the file may fail where the code goes on after a failure
(`Leave`, `DisableBridge`). A poll is one transaction on the event loop: `BeginPoll` reads a batch, each `Handled`
runs one handler, whose effect on the desk is immediate, and `CommitPoll` or `PollFails` ends it. A crash
can fall between them.

`ResearchHost` follows each handler from await to await. `stop_research` is a step up to its first await
(`StopResearch`: mailbox revoked, agent stopped, revisions counted), a second stop when the poll task has ended
(`PollEnded`), and the end of the run it waits for (`Joined`). `current` stands for the comparison of the desk's revision
counters: it turns false when one that the handler compares is counted. A code path that finds no poll task
or no research run does not really yield; the model lets others in there too. The worker's own bookkeeping
is reduced to what decides about research; `SessionWorker` has the rest. Not followed: a run of a desk that connect
has closed, and which broker object a desk holds.

### BrokerSession

`Ask` is a command that needs the broker (connect, review, run); `Locked` and `Returned` are its steps through
`_connect_lock`, `Begin` to `Checked` those of the one connection task (`_connect_fresh`): mark unavailable, tear down
the object it replaces, make a new one, connect, check contract and accounts. `Undone` and `Interrupted` end it otherwise, and
`Close...` is the runtime's close, which waits for the task and takes the lock itself. A teardown that raises keeps
its object. `Dropped` is a connect that finds on return that the runtime is closing; `Read` is a reading of accounts, or a run's
engine, through the object the command began with. What the transport does inside is `BrokerTransport`'s.

### ControlChannel

A worker process acquires the lock, examines the intent, creates, writes or reads the credential, binds its address and serves; it may
crash between any two. A client that finds no worker spawns one and polls, sends its command, waits, and falls
back to the emergency fence if it is a Stop. `posix` distinguishes the builds: there the address is a file that outlives
its process, and the credential may have been created but not written.

### SessionDesk

Each of the window's tasks has at most one request out. `desk` holds the fields the coroutines read after their
awaits: the review, the open dialog, `_stop_requested`, the latest record seen and the status epoch (`moved`).
`Applied` is `_apply_status`, which drops an answer older than the record on display and voids a
review that no longer matches. A request given up (`late`) may still be handled. `Elsewhere` is another client. An
approval carries a number (`tag`), so that the properties can tell which press of the button started what runs.

### CryptoRoute and BrokerReads

One lock serialises the operations on crypto orders, hence one `op`; each action is the arrival of one answer and
everything up to the next call. `Dispatch` uses up the reference before the call leaves. The end of a connection,
asked for (`Disconnect`) or not (`Down`), makes previews void. `BrokerReads` walks pages of a list whose rows are
pushed back while it is read. The broker is assumed to end a listing truthfully and never to withdraw a row
during it; a repeated cursor, a repeated identity, a row that does not parse and the hundredth page are errors, as in the code.

### PaperTrading, EvidenceLab

`WorkerConsumes` is one call of `PaperLedger.consume`: quotes, fills of earlier signals, the rule's
decisions and the save, in this order and without a pause between them. A save inserts the fills that are new to memory and is refused
if one of their keys exists (`Insertable`). `CancelPending` is `cancel_pending`, which saves only if something waits; that save may fail, and
then memory has dropped what waited for its fill and `disk` has not (`DiscardIntents`). `Resume` is refused after such a failure. A
crash and `Reopen` bring back what was saved. Two workers, one per market, take turns on the same ledger. `traded` is a
history. In `EvidenceLab` a lab is one run of `run_evidence_lab`, whose steps are its commits: trials, reserve,
freeze, claim, evaluate, consume, promote. Labs die between any two. The statistics are a verdict (`judged`,
`passed`), and `Certified` is the assessment of runtime parity, which is constantly negative today: with it `FALSE`
nothing becomes eligible, so that the runs take it as `TRUE`.

### AuditTransactions, StoreSchema, StoreUpgrade, ShadowChain

`stack` holds the open savepoints with the number of callbacks at their beginning, to which a failure
truncates. Callbacks run outside the lock, so that two threads' alerts interleave (`due`). `StoreSchema` opens a file of an older
version from several processes; each `ALTER TABLE` commits by itself, and so does the copy table. `StoreUpgrade` is the
import of an older journal under both write locks and the process lock, beside the older version and a
worker. In `ShadowChain` a checkpoint is its own digest; `Damage` loses or alters rows on disk. A listing is every row of a run in
the order of the sequence (`Ordered`), as the query's `ORDER BY` gives it.

### EarningsStore

One symbol, whose two datasets change from "old" to "new" at any time. A refresh asks for them one after the other under the time it
began with. A row of `requests` holds the time it is recorded under (`at`) and the time it really left (`left`); they differ because
a request is recorded before it is sent and under the time its refresh began. `Snapshot` is the worker handing the events it built to the engine.

### LegacyOrders

One account and one fund. `Report` is `record_broker_order_executions` with a report that is complete or cut
short, names any intent or none, has another price, or lists an execution of another order; an answer may bind an intent to any order. An execution is known by its
instant in the whole account, as the code knows it by account and id, and `Conflicts` is the comparison with what is on record. `History` is
`active_holding_start`, the fold over executions in the order of their times, and `Reconciled` the comparison with what the
provider holds. Its callers are gone from the source, and so reports and calls come in any order.

### RuntimeTrace, RuntimeReplay, StrategySelection

`Record` and `Prune` are the transactions of `persistence/market.py`, `Count` and `Open` the two statements of the
trace loader, between which others may write, and `Chunk` its work on one batch: the checks, the change of stream, the late quote,
`BarBuilder.update` (`Updated`) and the frame. The loader pages by id: `Unread` are the rows past the last one read, `Foremost` the next of them. A price is left out, since only which quotes a bar is made of matters, and a batch is the time of its
QQQ quote and the latest time of the others. Nothing in the source records batches at present, so streams append in any order.
`RuntimeReplay` extends the executor of quotes: `Observe` is one turn of the loop of `run`, with `Finished` for the session it may
end; the strategy is the set of session and stream whose bars it has seen. In `StrategySelection` a session is a number, a replay a
verdict, and `reads` the history of which sessions were read for which purpose; `Fold`, `JudgeRule` and `Final` make several replays each, in the code's order.

### CandidateRules, QuoteExecutor, BarReplay, PortfolioReplay, Strategies, MarketCalendar

These are sequential. One action takes a frame, a bar or a year and computes the next state in the order of the code; the
inputs (prices, gaps, missing quotes, rejections, volatility scales) are chosen freely. Money and quantities are integers and
divisions round down, where the code uses `Decimal` and rounds to a quantum. `SizeEntry`, `Fillable`, `Window` and the rest
of `CandidateRules` are shared by both executors, as `candidate_execution.py` is. A checkpoint is what `Restorable` accepts.
In `PortfolioReplay` the scores of stocks and the qualified fund are inputs, the plan (caps by kind, sector, symbol and
leverage, the rebalancing band) and the replay (settle, mark, latch, trade, plan) are computed. In `Strategies` a bar is
up or down; the rules keep what the code's windows keep. `MarketCalendar` computes with day numbers.

## Runs

| Run | Instance | Question |
|---|---|---|
| `ledger` | 2 accounts, 2 references, 2 orders, 2 executions of 2 sizes, 2 payloads, 2 owners, TTL 2 | identities, counts and lease under every sequence of calls and rows |
| `engines` | 2 engines, 3 references, lots of 1, TTL 1, 1 buy a day | exposure, coverage of sells, the day's number of buys, refinement of `OrderFate` |
| `engines_partial_fills` | 2 engines, 1 reference, lots of 2, TTL 2 | the ledger against what happened, with partial fills and stale rows |
| `engines_end` | 2 engines, 1 reference, lots of 1, TTL 1, fair | a fenced engine ends, from every point of its start and cycle, also while engines wait for each other's lease |
| `stop_barrier` | 1 engine, 1 reference | the divergence below |
| `worker` | 2 clients, 2 scopes, 5 requests, 2 processes, fair | launch, stop, review, crash and fence in any order; fenced runners end, shutdown completes |
| `daily_risk` | a timed and a manual scope with limits 1 and 2, losses 0 to 2, 2 dates over 3 instants, 4 calls; beside it 2 intents, 2 orders of 2 shares, 2 prices, 3 executions | latch, entries and pauses over dates and scopes; the retired route's records |
| `manual_recovery` | the same with equal limits, 3 dates of 1 instant, a delay of 2 days, 5 calls | the divergence below |
| `transport` | 2 calls, 3 owners, fair | one owner, nobody forgotten, nothing falsely reported as unsent; callers and teardowns end |
| `research` | 2 clients, 3 commands, fences or restarts, 1 request, 2 mailbox sessions, 2 research runs; beside it `BrokerSession`, `ControlChannel`, `CryptoRoute`, `BrokerReads`, `SessionDesk` | research yields to trading, a request takes effect at most once; one worker with one broker object, orders, listings and a window that agree with it |
| `calculations` | `LossRecovery`, `MarketCalendar`, `Strategies`, `QuoteExecutor`, `BarReplay`, `RuntimeReplay`, `PortfolioReplay` | dates, memory, money and limits |
| `records` | `PaperTrading`, `EvidenceLab`, `StrategySelection`, `AuditTransactions`, `StoreUpgrade`, `StoreSchema`, `ShadowChain`, `RuntimeTrace`, `EarningsStore` | what is on record stays true over failed saves, concurrent processes, crashes and damage |

What the properties of the last three runs conjoin:

| Property | Promises |
|---|---|
| `OneWorkerOneBroker` | one transport not torn down, checked before use, the desk's object is the session's, closed for good (`BrokerSession`); one process answers, a Stop that succeeds is on record, no start inherits another's intent (`ControlChannel`); a reference leaves once, under a fresh preview, one identity per account (`CryptoRoute`); `ListingWhole`; a stop wins, also over a start that was given up, and a session runs as it was reviewed (`SessionDesk`) |
| `DeadlinesKeepTheirWord` | a pause ends at its date and time of day, a later stop later |
| `CalendarHolds` | Easter against the church's tables, holidays and early closes from 1950 to 2100 |
| `StrategiesRemember` | the session rules know what the day's bars say, a trend is unbroken, over gaps and resets |
| `ExecutorsKeepTrack` | money adds up; a checkpoint can always be restored; a paused session leaves its position; a scheduled exit is finished; over sessions the curve and the fills tell one story, shares bought are sold or reported held, and no session inherits from another (`RuntimeReplay`) |
| `PlansWithinMeans` | caps of the policy; no purchase after the day's loss; unsettled proceeds are not spent |
| `EarningsInTime` | dispatches within the budget over every window; what the engine is handed was known point in time |
| `SealedEvidence` | sealed data is looked at once, in order of time, and evidence for live review rests on such a look; training and choosing end a session before testing begins, the last block is read once for the one choice, a walk has folds, the blocks cover what they divide (`StrategySelection`) |
| `PaperKeepsItsRules` | fills follow signals in the order of quotes, the journal is complete, two markets share one set of limits |
| `StoresStayWhole` | alerts follow commits; an older file opens and loses nothing; an import is whole or not at all; a chain reads as it was recorded; bars are made of all quotes of their interval and stream and of no later one, and an accepted trace mixes no sessions (`RuntimeTrace`) |

Bounds, and why they are enough. Two of each identity is what a mix-up takes, and an operation of the
ledger never compares more than two rows. Two engines are a restarted process and the one before it; a
third meets the same tables. Three references are a buy and two sales: the second sale is sized on a position that the first
may use up between its reading and the placement, which is what `SellsCovered` is about. A buy may also follow a sale or another buy that a second
engine is about to dispatch; with one buy a day the count of both is 0 when they read it, so `DailyOrderCap` rests on more than the count. More buys a day are left to the theorems. Two ticks separate "about to expire" from "expired". The
worker's commands interfere through one record and one task: two clients and five requests allow review,
approve and start, then a stop by one client and a restart by the other. In `daily_risk` an older stop, a later
one, an acknowledgement and an entry are four calls, and a limit between the possible losses decides each of them.
Three executions are two purchases and the sale that closes them, or the reverse order of their reports, and two orders are what an execution can move between. In `transport` one call is
with the session and one in the queue; the third owner is the one that would start beside a second that is still closing.
In `research` a single request is followed, so that `MaxPending` and `Batch` do not bind there; two
commands are enough for each race of a start with research, and the third adds a stop, a fence or a restart. Two worker
processes are one that ends and one that starts meanwhile; two connections and two previews are a preview before and one after
a reconnect; four rows on pages of one, with four pages allowed, meet a pushed row, a repeated cursor and the page limit;
three writes of the control record are a review, a start and a stop, and each behaviour of the window has as many presses as kinds of button.

The recovery deadlines are asked for every hour of 12 days in 4 months of 2 to 4 days, with both changes of the clocks and
delays of 1 and 2 in every unit: months with fewer days than a delay can ask for meet every clamp of `min(day, monthrange)`. The calendar is asked for 151 years. The
executors see 6 frames and 5 bars over two days, where an entry, its partial exits, a second entry and a settlement over night fit; a contract that fills half of an order makes every
exit partial. Five bars in two days of five possible times fill every window of the rules (one to three bars) and leave gaps. Four observations
by two streams over two sessions are an entry, a partial exit, and a session after them, which the closing sale finishes. Four frames of the portfolio
are a plan, its purchases, a loss and a settlement on the next day.

Earnings are checked twice. A budget of two requests with two clients and two datasets makes the second dataset the one that is refused. A
worker alone (`Lone`) with a budget of three has the earnings, the consensus and the earnings again, which is what it takes to hand anything to
the engine: a consensus seen before an announcement and the result after it. Paper trading is checked twice as well. Two markets with a family of two funds
take two runs over four instants, which are a signal, its fill, the next signal and the sale; limits of one and two bind over both markets, a position is left
for its age and an intent expires. One coin (`Coin`) takes two sessions over eight instants, with late and refused quotes and a
cost on each fill: a sale, the pause after it, a second purchase, the drawdown at which entries end, and a session after a session. Two labs, two candidates
and three datasets (one overlapping, one of poor quality, one that cannot be sealed) make every refusal of a holdout; three alerts on two threads in three
levels of savepoints distinguish an inner failure from an outer one; two openers of a file of which two columns and a
table are old, three rows of a journal, and a chain of three checkpoints by two writers with one damaged row. Four batches of two streams are two bars of either stream, or
one bar of each; a day of four bars, the last of them closed, makes a bar run into the night and into the next session. The
datasets of a search lie on both sides of every threshold of its splits (15, 22, 30 and 35 sessions, lengths that stop growing at 45 and more).

`Requests`, `Restarts`, `Horizon`, `MaxLog`, `Sessions`, `Commands`, `Runs`, the owners left in `Gen`, and the constants whose names begin
with `Max` are the only bounds inside the guards of a specification, and they stand for events nobody is obliged
to produce.

Every property has a mutant of a mapped definition that violates it under the run's own configuration; the
mutants stand next to the definitions they alter and are used nowhere else.

Deadlock is checked in the `ledger` run only. Engines and workers may legitimately end, and the runs that
bound requests, engines, references, frames, owners or calls stop when these are used up.

## Fairness

`MixedEngine`: weak fairness of each engine's running: its own steps, because the event loop resumes a task
whose await is over, or `WatcherStops`, because the watcher and the idle loop check every tenth of a second.
One condition for both is enough, and the weaker assumption. There is none for the provider, the clock,
starting or selecting: a broker call may hang for ever, and `FencedEnginesEnd` has to hold then too.

`SessionWorker`: weak fairness of a handler's continuation, of callbacks, of recovery and exit, and of the
end of a runner that was cancelled or lost its permission. The last is what `FencedEnginesEnd` establishes
for the engine, and the ways into `run` that await the broker before it (connect, `get_accounts`) are bounded by
timeouts. No fairness for clients, crashes or fences.

`BrokerTransport`: weak fairness of the owner taking what is queued and of connect and disconnect resuming,
which is the event loop's; of a call ending, because each has a read timeout; of the grace periods; and of a
cancelled owner noticing. None for opening a session, which waits for the user up to five minutes, and none for leaving
its contexts, which is the library's. `EveryCallEnds` therefore excepts a session that hangs there for ever;
`TeardownEnds` does not.

## Theorems

`EquityLedgerProofs` proves every property of the `ledger` run for all values of the constants, from
`QtyAssumption`, `TTLAssumption` and `NullAssumption` (NULL is no identity). The inductive invariant,
`LedgerInv`, conjoins the type invariant with the safety invariants: one ticket in doubt and unique
orders are each inductive only with the types, while fill identity needs that bound orders stay bound. `UsageComplete` is about
steps: a ticket can be attempted without provenance, so what holds is that an answered count leaves out no ticket attempted
before, agrees with the order rate, and that a count once refused stays refused. It needs that
only attempted tickets have dispatch rows (`DispatchedAttempted`) and that no later call adds one. The action properties follow from the invariant and one
step; the lease needs one further invariant, that a lease without an owner has no time left.

`MixedEngineProofs` proves every safety property of the engine runs, the refinement of `OrderFate` included,
for any number of engines, references and daily orders, any lot and any lease. The engine reads the
ledger and the provider at one await and acts on what it read several awaits later, and therefore no listed property
is inductive. The invariants are in layers.

- `SafetyInv` says what agrees with what at each program counter: the ledger has at most one pending ticket
  (`LedgerRows`); a request that left belongs to an attempted ticket, and a terminal ticket to a finished order
  (`WireAgrees`); a row that an engine read is never ahead of the provider's order, and the ticket in its hands is in
  the state that its place in the cycle implies (`EnginesFit`); no two engines hold one reference (`RefsOwned`).
  `SingleExposure` follows: every exposed order is an unresolved ticket. So does the refinement, because each step
  of an engine is a step of `OrderFate` or leaves ticket and order alone.
- `CapInv` is about a count that is compared in `assess_ticket` and used at the dispatch. While an engine that
  holds the lease has a verified snapshot, a pending ticket can only be one that nobody is about to dispatch
  (`AccountClear`), so the count is still below the cap when the buy crosses (`CountInTime`). An engine
  whose lease has passed to another gets over the boundary only with the ticket it had reserved before.
- `FillsTrue` says that the fills of an order are executions of the provider, and all of them once the ticket
  is terminal; `LedgerTellsTruth` counts them. Responses may come late and in any order.
- `CoverInv` is about a position that is read at the snapshot: it is still the account's, or covers the sale, at
  every await up to the placement (`PositionInTime`). `SellsCovered` adds up quantities over sets of orders. A fold has no
  induction theorem here, so the laws of the sum are proved from a smallest set that would break them, which
  the well-foundedness of `Nat` provides.

The assumptions are `LotAssumption`, `MaxOrdersAssumption`, `TermAssumption` (`acquire_lease` refuses less than five seconds) and
`AbsentAssumption` (NULL is no account, reference, ticket or engine).

`SessionWorkerProofs` proves every safety property of the `worker` run for any number of clients, scopes,
requests and restarts. The listed properties are not inductive. `WorkerInv` strengthens them with three
facts: tasks carry generations no newer than the record's, and `task` is the newest (`TasksIdentified`);
while a stop is in progress the record is fenced (`StopsFence`); a start in progress was approved under a
permit (`StartsCurrent`). TLC checked these conjuncts on the `worker` instance before they were proved.

`DailyRiskProofs` proves every safety property of `DailyRisk` for any limits, calendar, deadlines and
histories, from the module's assumptions; one of them is that the Eastern date does not decrease with the instant
(`DateOrderAssumption`), which is so because no change of the clocks there falls near midnight. `NoEntryAfterBreach` speaks of three earlier calls, so it cannot follow from the
tables alone: `RiskInv` adds that today's row dominates the history (`RowsDominate`: its peak is no less than any
observation of its day, its limit no more than any scope's that observed it) and that a breach among them has
set the latch (`BreachesLatch`). `LatchIsDrawdown` is an equivalence, and its other half needs more: that the peak
and the limit are those of some call, not only bounds (`RowsExact`). The first row of a day carries the last
value of an earlier day over, so the calls have to be in the order of their dates (`CallsInOrder`), and a ticket, which carries
nothing, makes the same row because it marks what was observed last (`HeldIsLatest`); `ExactInv` is the
conjunction. `PauseHolds` is about the history while a step reads only the row on record. `PauseInv` ties
the two: which stop began the row (`PauseOrigin`), and that a stop that opened a pause has been acknowledged, is
past its deadline or is the pause in force (`OpeningsTracked`).

`BrokerTransportProofs` proves every safety property of the `transport` run for any number of calls and owners.
`TransportInv` needs three facts beside them: worker and queue exist together and an operation in progress
has a worker (`WorkerKnown`), an owner that is done has emptied its queue (`DoneIsEmpty`), and a waiting request
is in the queue or active in the present owner (`WaitingHeld`). `OneQuietOwner` conjoins the last two of the theorems
before it, so that one run asks for both; `CountedOnce` does the same for the identities of orders and fills.

`WorkerPartsProofs` begins with `ResearchYields` and `HandledOnce` of `ResearchHost`, for any sets of clients and requests and any number of
commands, sessions and runs. A runner trades long after it has stopped research, so `ResearchStopped` says what its
wait preserves: while its session is the one on record, the mailbox is shut, no command that may open it is current, and the last
run is on its way out, or out once the runner is past its join. It is inductive because research, also what the mailbox asks
for, is refused while the record runs, and because the runner's `disable` voids the commands that still wait for an answer (`_revision`). `HandledOnce` concerns only the mailbox. `MailboxStep` is what
any step of the worker does to it, and `MailboxInv` is kept by that: what an open poll has read was not handled
before (`PollConsistent`); a request that was handled but still stands as queued belongs to the open poll or to a session that is over
(`HandledIsOver`), which is what protects it after a failed save or a crash; and a sender was told that its request is
discarded only after its session had ended (`SendersKnow`).

It then proves `OneWorkerOneBroker` of `HostSpec` (`PartsKeepTheirPromises`) from `PartsAssumption`, which conjoins the
assumptions of the parts. Each part's promises are also theorems of that part's own specification. A step of the whole is a step of
one part, and the others stutter (`StepOfParts`); so the conjunction of the parts' invariants is inductive.

- Broker session. `OnlyThePresent` says that no transport is left but the present object's. It needs `LockGuards`: who waits for the
  connection or drops what came of it holds the lock, and the connection's task lives under the lock of a command that waits, also one that
  gave up. `UsableIsChecked` follows an object from its making to its use: what may be used, what a command reads through and what
  an engine was built on has been checked.
- Control channel. A process past its acquisition holds the lock (`HoldersLocked`), a process started without recovery found no running
  intent before it served (`NothingInherited`), and a stop past its handling has moved the record (`StopsFenced`). These give `OneServer`,
  `StopIsRecorded` and `NoInheritance`.
- Crypto orders. The order in which the code checks and awaits makes `SentOnce`, `FreshReview` and `OneIdentity` inductive only together with
  what the operation that holds the lock learned at each step (`OpKnows`), that an unused preview is of the present connection and of a
  reference not yet sent (`ReviewsCurrent`), that a placement has used its reference up (`RequestsUsed`), and that the pinned identity
  of an account is the one of all its previews (`IssuedPinned`).
- Listings. Records that arrive between two pages move those still to be read further back. So what a listing under way lacks
  is behind the pages it has read (`NothingSkipped`), and a listing that returns lacks nothing.
- Window. A start is answered, lost or late, and a stop may overtake it. `StartsAgree` says that every start the worker may still meet names
  the generation its user saw, none of the future; `HaltsHold` that stop and exit keep the window from starting anything until they are over;
  `StopsBite` that once the worker has taken a stop no start on its way is good any more and none that was good runs;
  `FencedIsVoid` that what was approved before the last confirmed stop stays void. `StopWins` follows, and `StartedAsReviewed` from `StartsAgree`.

`PaperTradingProofs` proves `JournalComplete`, `FillsFollowSignals` and `EntriesWithinLimits` for any markets, readings, limits and prices
and any number of runs and sessions, from `PaperAssumption` (finitely many instruments, lags and limits in `Nat`) and
`PaperNoneAssumption` (NULL is no position and no intent). The invariant `PaperInv` relates four things.

- The session. Its fills are numbered in their order (`FillsNumbered`), and there are balances and gains, one after each fill, that begin with the initial cash, follow each
  other by what a fill moves, are never negative, and end with its cash and profit (`Balances`). A witness replaces the sum, so that
  another fill only appends to it (`FilledOK`).
- Memory and disk. Both hold the same session but for intents that were dropped after a failed save (`LedgerOK`), and the rows of
  the saved session are its fills, one each (`RowsOK`).
- The fills made so far. The latest of an instrument says whether it is held and is no later than the quote last seen (`TradedOK`). So the next is of the
  other side and later, whatever crash or failed save came in between.
- The run. What waits for its fill was decided by the run that is on (`OwnIntents`), which is what dropping the intents at every start,
  stop and failure is for.

A batch is consumed one decision after the other, and the limits let its entries through one after the other. `Iterates` shows that a function defined step by
step on `0..n` exists and satisfies its definition; `BatchMade` and `LimitedTo` are what holds after the first decisions, and
`BatchGoesOn` and `LimitGoesOn` carry them over one more. That a batch fills an instrument at most once rests on a worker asking for each
of its instruments once (`ListedOnce`). `EntriesWithinLimits` follows from the last entry that was let through: it was counted against
everything else that is held or waits after the batch (`LastEntryCounts`, `OneOfFamily`).

`StorePartsProofs` proves `EarningsInTime`, `SealedEvidence`, `StoresStayWhole` and, with the theorems of `PaperTradingProofs`, `PaperKeepsItsRules`
of `RecordsSpec` from `PaperAssumption`, `PaperNoneAssumption` and `StoreAssumption`, which conjoins the assumptions of the other parts: any numbers of labs, threads, processes, rows, runs, streams and clients, any budget, any
damage. A step is a step of one part (`StepOfRecords`), and `RecordsInv` conjoins what each part keeps.

- Evidence lab. A reservation is moved by the lab that holds it and by nobody else, so that what a lab learned when it reserved,
  froze or claimed is still so when it acts on it (`LabKnows`). A block that was evaluated is past its claim, and was evaluated once (`ReadAlone`); one that is
  consumed was evaluated (`ConsumedWasRead`), and a promotion rests on such a block (`PromotionsStand`).
- Searches. Each reading lies in the sessions that are its own (`ReadInPlace`), and what may follow which reading is `ReadInOrder`; `StudyStands` says where
  the study is. The arithmetic of the splits gives the rest.
- Transactions. What a connection will commit and what waits to be shown differ from what is committed only above the open savepoints
  (`WorkHolds`); a savepoint remembers a prefix of the callbacks (`StackHolds`), so that a failure drops
  exactly the alerts of the rows it drops (`AlertsHold`).
- Import. The rows of the store are those of its marker, which names the imported journal, and those the worker recorded (`Origins`); no row is both (`OneOrigin`).
- Opening. Of processes that open the file at once none believes to be alone (`KnowsOthers`); a copy table is there only while
  one process moves the rows, or after one died doing so (`CopyIsHeld`); what a process that is alone believes missing is missing (`MissingIsMissing`).
- Checkpoints. What is on disk for a run, in the order of the sequence, is what was appended to it unless a row was lost or altered; damage
  shows as a gap or as a link that does not fit.
- Trace. Rows have ids in the order in which they were observed (`LedgerInv`). `ReaderInv` relates the reader to the rows up to its id: the open bar holds each quote of its
  interval that no later one of its stream had overtaken (`TakenOK`), so does each frame of the quotes before the one that closed it (`FrameOK`), frames advance within a
  stream (`Advance`). Bars begin at multiples of their length, so a quote and its bar share a day.
- Earnings. A refresh takes no longer than `Lag` (`RefreshesAreShort`, `RequestsLeaveSoon`). So every request that left in the window of `BudgetDay - Lag` that ends with a
  dispatch is among those the refresh counted. What is on record was shown by the provider by then (`AnswersWereShown`).

`Ordered`, `Foremost` and the first column still missing are choices by order among finitely many rows. Their existence is proved from
a least counterexample, which the well-foundedness of `Nat` provides, and for these predicates only; no theorem takes a predicate as a parameter.

TLC checked each of these invariants on an instance before it was proved.

Model-checked only:

- The liveness properties `FencedEnginesEnd`, `FencedRunnersEnd`, `ShutdownCompletes`, `EveryCallEnds` and `TeardownEnds`: temporal
  reasoning under fairness is out of the prover's reach.
- `CalendarHolds`, `StrategiesRemember`, `DeadlinesKeepTheirWord`, `ExecutorsKeepTrack` and `PlansWithinMeans`. Replays,
  memories and calendars are recursive functions over data, whose induction the prover cannot do, or claims about given years.
- `OrdersOnRecord`: a history of executions and the sums of what they hold, folds whose laws would need an induction each.

## What the work found

- **Stop and a queued placement.** `README.md:76` and `docs/USER_GUIDE.md:157` say that Stop blocks new local
  submissions. A request that is already in the transport's queue is sent without another look at the control
  record (`robinhood_transport.py:242` asks only whether its future was cancelled), and the watcher cancels
  it up to a tenth of a second after the fence. Run `stop_barrier` shows the trace.
- **Manual recovery inside a timed pause.** `docs/USER_GUIDE.md:172` says that manual loss-stop recovery requires
  an explicit acknowledgement. `_record_loss_pause` begins a pause only when none is open. A stop under a scope
  with manual recovery that falls into an older pause with a deadline leaves that row as it is
  (`execution_risk.py:210`), and once the deadline has passed entries resume without anybody acknowledging. Run
  `manual_recovery` shows the trace; `PauseHolds` states what does hold, for stops that found no pause open.
- **Connected, but refusing.** A disconnect that is cancelled before its owner left keeps the session open with calls
  refused, and the next connect returns at once because `connected` still holds. The session then answers "not
  connected" until it is disconnected again; nothing is lost or sent.
- **Fail closed, for good.** A ticket left `reserved` by a crash, or `submitting` when its request was
  dropped from the queue, keeps its account blocked: no operation resolves it without a provider row. The code
  says as much ("Attempted orders cannot be abandoned or reset"); the models confirm that nothing else does.
- **An open order ends the session.** A response that is still open is recorded as such; if the next cycle
  still lists it open, `_snapshot` raises and the engine stops. Trading resumes only by a new start.
- **Redundant guards.** One ticket at a time is kept by the pending index, the verification of each snapshot
  and the lease. Several single-guard mutants are therefore caught by the others; those listed were chosen
  where the guard decides.
- **Recovery and early commands.** A start that is accepted before `recover()` runs makes recovery raise
  "A live runner already owns this worker", which fences the new session. It is safe; the user sees the
  session refused.

- **Research is stopped twice, and has to be.** `start` awaits the end of research before it records the session.
  In the last instants of that await another client may start a demo, or begin to enable the mailbox, and
  `start` does not look again. What keeps research from running beside the session is that `run` stops it once more
  when the record already says running; without that second stop `ResearchYields` fails.
- **A desk with yesterday's broker.** While connect waits for the old broker object to disconnect
  (`session_runtime.py:105`, up to eight seconds), a demo started by another client makes a new desk around that old
  object. The desk survives the connect and answers every request to enable research with "Connect the broker before
  enabling research MCP", until the worker or the connection is restarted. `BrokerSession` contains this; what holds is
  `DeskFollowsBroker`: such a desk's object is never up.
- **"Request discarded".** A sender that finds another session in the mailbox says that its request was discarded.
  It will not be handled any more, but it may have been handled just before the revocation.
- **A worker that cannot start again (POSIX).** `worker_ipc.py:149` refuses a socket path that exists. After a crash
  the file stays, and every later worker refuses with "Local control socket already exists", although `CHANGELOG.md:160` counts
  fast crash recovery among the features. A crash between creating and writing the token file (`worker_ipc.py:68`) leaves an empty
  credential that is refused for good. `ControlChannel` has both, with `posix`; the fence still works, which `StopIsRecorded` shows.
- **A permit replaced by a failed approval.** `permit()` raises `RuntimeError` for a revoked or mismatched file, and so authorize
  cannot approve again at that path. It raises `FileNotFoundError` when the candidate file is gone, and then authorize goes
  on: over a revoked or older permit it moves that file to a backup, writes the new grant, and reports failure because its second
  look at the candidate fails as well (`authorization.py:64`, `session_runtime.py:166`). Start checks permit and candidate again, so
  nothing trades on it.
- **"Session did not start".** The window says so also when the answer to its start was lost or older than the record on display,
  while the session runs; its next status shows it. A paper start carries no generation: given up by the window and handled after a
  Stop it leaves a virtual session running. Hence `StopWins` is about broker sessions.
- **Losses of the retired route.** `execution_risk.py:20` says that the session peak latches. The peak is recomputed from the executions in the order of
  their times, so one that is reported late can lower it; the models leave the peak out. `update_intent(ref, None, state)` erases a binding.
- **A count that cannot be taken.** `mark_submitting` without a dispatch time, which is its default, leaves an attempted ticket without a dispatch row, and
  from then on `daily_usage` raises for that account. Nothing calls it so; `UsageComplete` says that the count is refused for good and never short.
- **A crypto reference is used up in memory.** `_sent_refs` ends with the process, and no caller of placements exists; the source
  leaves a journal to a future coordinator.
- **Earnings.** After responses A, B, A the cached one is B, because the re-checked A keeps its older `observed_at`; the next request repeats.
  Requests are recorded under the time a refresh began, so that the provider may see the budget exceeded over a day, though not over
  a day less the duration of a refresh (`ProviderBudget`).
- **Migrations.** A process that dies between making the copy table and renaming it leaves a file that every later opening refuses; two
  processes that open an old file at once can make one of them fail with a duplicate column. No row is lost (`StoreOpens`).
- **Two meanings of a loss.** `quote_simulation.py` counts each losing part of an exit towards the pause, `bar_replay.py:92` the trade
  once. With shares as units and half fills, the last share of a position cannot be sold in a replay. A missing quote takes the
  position out of the executor's equity for that frame, which can set off its daily pause.
- **Retention.** `market.py:176` compares ISO times ("2026-01-05T...") with SQLite's ("2026-01-05 ..."), as text. Rows of the day on which the
  retention ends are therefore kept until that day is over; nothing goes too early.
- **No fold.** `walk_forward` asks for training and test sessions but not for the purged one between them. With exactly that many it has no
  fold and divides by zero. The lab never asks for that (`WalkAnswers`).
- **The ensemble.** A docstring (`core.py:447`) says that disagreement gives a flat signal; two bullish votes against one bearish give a bullish one.
- **Checkpoints.** Nothing appends them at present. A run whose session went on after a failed append can never be appended to again; it is refused as a gap.

## Not modelled

- Readiness reports, downloads, provider schemas, file formats and digests, OAuth and its callback. They check or move data and keep no state that another step could find changed.
- Indicator and volatility arithmetic on reals, scores and statistics of a search or of evidence: their results are inputs or verdicts.
- Prices, fees and timestamps of a provider's execution rows in `EquityLedger`, and the marks derived from them: decimal arithmetic over what
  is recorded; `DailyRisk` takes their sum as an input.
- Priorities of requests in the transport's queue: the models serve a queue in any order, which includes the one of the priorities.
- `shutdown(cancel_open=True)` of the engine, `record_daily_risk` and the usage sums of the retired route: nothing calls them.
- `QuoteExecutor` without `execute_current_decision`; the cash strategy; the grids of rules other than moving averages.
- The window's research button, panels, editors and chat, the feeds and prompts of the agent, the command line's parsing and printing.
- Tools, packaging and release scripts.

## What is left

In order of importance: a composition of the session worker with an engine that discharges the worker's fairness of runners; theorems
about the order histories of the retired route. Of the sources, the engine's risk reasons and candidate checks before a
ticket are the largest part whose control is one refusal.
