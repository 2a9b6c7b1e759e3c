# dripline: verification project

dripline is a Solana trading bot: one long-running Rust process (`src/src/`) with a
dashboard, a Telegram bot, an MCP server and an Electron shell around it. This directory
holds TLA+ models of the parts of it whose correctness depends on the order in which
concurrent tasks, the chain, the database and crashes take their steps; TLC checks the
models on small instances and TLAPS proves theorems about them for every instance.

## 1. Inventory

State, operations, interactions and what makes each part hard. The third column says what
this project does with it.

| Part (under `src/src/`) | State and operations | Hard part | Here |
|---|---|---|---|
| `positions/state.rs`, `operations/open.rs`, dashboard handlers | semaphore of `max_open_positions` permits, `SLOT_HOLDERS`, `POSITIONS`, per-mint locks, pending-open marks; open, archive, unarchive, delete, force close, purge | several terminal paths for one position; snapshots used after an await; lock objects dropped while held; restart | `PositionSlots` |
| `positions/queue.rs`, `verifier.rs`, `apply.rs`, `worker.rs`, `state_pending.rs` | verification queue, attempts, expiry heights, pending DCA / partial-exit records, the books of a position | a signature that never lands, lands late or fails; RPC and database errors between two steps; retries; restart | `SwapVerification`, `SwapLedger` |
| `positions/operations/close.rs`, `partial_close.rs`, `dca.rs` | exit signature stamped on a position, pending registrations, enqueueing | exclusive exits, sizes taken from amounts still in motion, a crash between swap and save | `SwapVerification` |
| `positions/ledger` | rounds derived from wallet history; adopts, rewrites and inserts rows | stale snapshot written over a live row | planned |
| `wallets/watch/` | watch targets with their cursors, the dedupe table, pending signatures, per-target poll ranges, the activity broadcast | notification, poll and replay of one transaction; pages that run behind; the cursor against what was announced; crash between decision and announcement | `WalletWatch`, `ActivityFeed` |
| `trader/copy/` | tasks, claims, decisions, spend, paper book, the wallet's inventory; one loop, and the API next to it | a crash around a submission; reconciliation; sweep, reset and close of one holding; a task row and its watch written one after the other | `CopyTrading` |
| `trader/` (rest) | entry and exit monitors, loss limit, dip/DCA evaluators | two monitors acting on one position, period roll-over | planned |
| `swaps/` | quote, route fallback, submit, confirm | a fallback after an ambiguous submit sells twice | planned |
| `rpc/` | provider pool, circuit breakers, rate limiter, selection | concurrent calls between a check and its verdict, half-open probes, failover when all are open | `RpcFailover` |
| `services/` | dependency graph, start and stop order, health | order under failure, cycles, shutdown | planned |
| `actions/` | action records, steps, persistence, cancellation | completion racing cancellation, restart | planned |
| `transactions/` | fetch, classify, deduplicate, pending set | reordered and repeated signatures | planned |
| `global/state.rs` (update hold), `version/service.rs`, `policy.rs` | activity counters behind a flag, the readiness verdict, the claimed phase | work that begins while the verdict is read; an owner that drops its hold; the user next to the service | `UpdateHold` |
| `process/`, `global` (rest), `run` | process lock, startup barrier flags | two instances, stale lock | planned |
| `wallets/` | key storage, balance monitor, snapshots, worker | encryption, pure I/O | not modelled |
| `pools/`, `tokens/`, `ohlcvs/` | caches of prices, tokens and candles refreshed from the network | freshness, priorities; mostly I/O and arithmetic | not modelled |
| `filtering/`, `strategies/` | pure predicates over token data | arithmetic on floats | not modelled |
| `webserver/` (rest), `telegram/`, `assistant/`, `mcp/`, `agent_control/` | request handlers over the other parts | formatting and transport | not modelled |
| `apis/`, `chains/solana/`, `connectivity/`, `net/` | clients and decoders | wire formats | not modelled |
| `config/`, `database/`, `events/`, `logger/`, `paths`, `arguments`, `errors/`, `secure_storage/`, `reset/`, `version/` (rest), `features/`, `account/`, `llm_analysis/`, `tools/` | settings, storage plumbing, updater, utilities | I/O | not modelled |

How the modelled parts interact: `open_position_impl` takes a permit, then the mint's lock,
buys, saves the row, lists it, makes the permanent slot registration and enqueues the entry
for verification. The worker polls the queue, asks the chain about each signature and
applies one transition at a time to memory, then to the table, then to the slot registry.
Dashboard handlers act on the same list, table and registry without taking the mint's lock.
`initialize_positions_system` rebuilds everything from the table.

The watcher turns transactions of watched addresses into activities and broadcasts them; copy
trading subscribes to them, asks the watcher to watch a task's wallet and asks it later whether
it still does. A live copy goes through the trader's entry submission into
`open_position_impl`, and its position carries the task as its origin; copy trading reads the
position list to find out whether a copy was verified and whether one is still open. Every
request to the chain goes through the RPC manager's failover.

Sequence of a partial exit or an add: lock the mint, size the swap, mark it pending (partial),
submit, register it in the pending map and its metadata entry, enqueue its signature, unlock.
A full close stamps its signature on the position in memory instead of registering it. The
worker, one task, runs cycles: the guard re-enqueues stamped exits that are not queued, expired
items are collected, due items are polled and judged one after the other; a transition
changes `POSITIONS`, then the row, then the exit record, then the pending map, its metadata and
the mint's counter. Between any two of these steps callers, dashboard handlers and the chain
go on.

What makes each component correct:

- slots: every open position pays with one permit, each permit is given back once, a mint has
  one open position;
- verification: each swap that landed is booked once and no other is; what the books say is
  held is what the wallet holds, up to what is not booked yet; nothing submitted is forgotten,
  across restarts; exits settle;
- ledger sync: a plan computed from a snapshot never overwrites what the trader changed since;
- watch: a transaction of an address is announced at most once, lost only by a crash, and the
  cursor never passes one that is still to be handled, but where it cannot be read;
- copy trading: a real buy is always accounted for; no budget is exceeded; what the paper book
  sells it has; a task that says it copies is watched;
- trader: no two actions on one position overlap; the loss limit sees every loss once;
- rpc: a circuit opens for failures in a row only, a call gives up only after asking everybody
  it may ask, and an outage that is over is noticed;
- swaps: an ambiguous submission is never repeated;
- update: the service restarts under no running trade or tool, and a hold does not outlive its
  owner;
- services, actions, process: dependencies start first and stop last; an action ends once; one
  instance.

## 2. Modules

| Module | Content |
|---|---|
| `PositionSlots` | permits, slot registry, position list, table, mint locks; openers, the worker's transitions as far as slots are concerned, dashboard handlers, restart |
| `PositionSlotsProofs` | types, no permit minted, no unexplained leak, open positions hold slots, one open position per mint (TLAPS) |
| `SwapLedger` | abstract: the chain decides each signature once, a landed one is booked at most once |
| `SwapVerification` | the life of the swaps of one position, from the caller to the books |
| `SwapVerificationProofs` | its types, and the effect of each action's helpers, for the two modules below (TLAPS) |
| `SwapLedgerProofs` | what is booked while nothing fails: `SwapLedger` implemented, partial exits one at a time, books equal to the wallet (TLAPS) |
| `SwapRestartProofs` | what survives crashes: registered partial exits, the P&L of full closes (TLAPS) |
| `RpcFailover` | circuit breakers, their probe slots, and the calls that fail over between providers |
| `RpcFailoverProofs` | types, a circuit trips on failures in a row only, a call gives up after asking everybody (TLAPS) |
| `ActivityFeed` | abstract: each transaction is announced at most once, and what is decided stays decided |
| `WalletWatch` | one watched address: notifications, paged polls, replays, dedupe, cursor, the watch API, crash |
| `WalletWatchProofs` | types, what the cursor passes and which pending rows stay behind it, only a crash loses an announcement, `ActivityFeed` implemented (TLAPS) |
| `CopyTrading` | one copy task: the loop, its tables, the API's edits, the positions it opened |
| `CopyTradingProofs` | types, live spend accounted for, budget never exceeded, paper book balanced (TLAPS) |
| `UpdateHold` | the gates of trades and tools, the update hold, the readiness verdict and the restart |
| `UpdateHoldProofs` | one owner of the hold, exact counters, no work under an automatic restart, for every instance (TLAPS) |
| `MCPositionSlots`, `MCSwapVerification`, `MCRpcFailover`, `MCWalletWatch`, `MCCopyTrading` | operation sets, fault sets, symmetry, small sets for TLC |

Correspondence, `PositionSlots`: `mem`/`db` are `POSITIONS` and the positions table by id
(`rowid` order is id order), `avail`/`holders` the semaphore and `SLOT_HOLDERS`, `lockGen` the
identity of the mutex in `POSITION_LOCKS`, `pendingOpen` the 120 s marks. Each step of
`open_position_impl` up to its next await is an action (`lockGen` goes on over a restart, so that a
number stands for one mutex object only); each transition of `apply_transition`
is split where it awaits the database. The order of the worker's verdicts is left open there:
which signature is verified when is `SwapVerification`'s subject.

Correspondence, `SwapVerification`: `mem`/`db` are the position and its row, `pending` and
`metadata` the two pending maps and their metadata entries, `partials` the mint's counter,
`records` the signatures in `position_exits`, `queue` the `VERIFICATION_QUEUE`, `wrk` the step
the worker is at (`doing` is the transition being applied), `call` the step a caller is at.
Amounts are whole lots; times are replaced by the fault `late` (a signature that is not lost
may be undecided when a timeout is evaluated) and by the choice of the due items in `Poll`.
`LotsOf` counts lots as elements of a set, which says the same as their sum and can be reasoned
about without induction.
`Lands` and `Dies` are the chain. `registered` is history. A backoff that has elapsed is a
choice; an item without attempts is always due. `DropPartials` and the guard take their few
consecutive lock sections as one step. The events-table shortcut of `verify_transaction` yields
the verdicts of a failed transaction and is not separate. `PartialBegin` takes the check of the
mint's counter, the balance and the mark together: other callers wait for the mint's lock, the
worker can only count a counter down that is zero already, and a balance read later than the
position gives a size that the `balance` fault allows, too.

Correspondence, `RpcFailover`: per provider `state`, the counters and `slots` are the breaker's
atomics and `half_open_requests`, `lost` is history (a probe slot went to an answer that is no
verdict); per caller `pc`, `target`, `tried` are the point `execute_raw` has reached, the
provider selected and the ones excluded. Reading the state, taking a slot and recording the
verdict are separate actions, as the lock is let go in between. The cooling time is a choice.

Correspondence, `WalletWatch`: transactions of the address are numbered in chain order, those
that carry an activity are a constant. The tables (target, cursor, `known_signatures`, pending
rows) are variables that survive `Restart`; the catch-up range, the overflow streak and the
replay in progress do not. A signature is taken through decode, the durable commit, the clearing
of its pending row and the broadcast one action at a time, and a crash may come between any two.
Asking the dedupe table, decoding, recording and committing may fail, and the signature is tried
again; writing and deleting its pending row may fail as well, which the code logs and ignores
(`MarkPending`, `ClearRow`): a row that a failed delete leaves is kept in the history variable
`unswept`. Memory and table of the dedupe cache are one set; the pending map is its table; a
WebSocket notification may come again at any time. The watcher's own copy of the target may lag
behind the table until it is reloaded. Reading the cursor may fail, which counts as having none
(`CursorRead`); what the cursor passes in such a poll is `unread`, apart from `skipped`, which is
what an overflow, a baseline or a true first window passes on purpose. At a start the transactions
service, which the watcher waits for, marks signatures as known without announcing them: all
`recorded` ones, if that statement succeeds, and any of the own wallet's that it pages through
(`AtStart`). `ActivityFeed` therefore lets several transactions be dropped in one step.

Correspondence, `CopyTrading`: `task`, `decision`, `claim`, `spent`, `book`, `events`, `holding`
are the tables of `copy.db` for one task and token, `attached` is what `copy_source_active`
answers, `loop` is the step the one service loop is at with what it read before, `edit` the API
call in progress. A crash loses `loop` and `edit` and nothing else, so it is the same step as a
call that fails (`Fails`, `EditFails`). Read-only statements are taken together with the next
write of the same task unless an edit in between would change what follows. `entry` follows the
position that copied a buy. Sizes are units: one of budget per copy, `Lot` tokens per paper buy;
the pipeline, risk and filter checks other than the budget are a choice, as are prices, the
exit rules, the latency switch and `copy_trading.enabled`.

Correspondence, `UpdateHold`: `gate` is how far an execution is in `begin_trade` or `begin_tool`,
each atomic operation of them is an action; `auto` is the line `run_cycle` is at, with the policy
it read and whether it saw something running, `user` is an `apply_now` that holds. Sequential
consistency is what the code asks for (`SeqCst` everywhere). The first, unheld readiness verdict
decides nothing and is part of `AutoDue`; a request whose hold fails changes nothing. The
positions are one flag, which trades and verdicts set and clear.

## 3. Runs

| Run | Bounds | Shows |
|---|---|---|
| `SlotsDashboard` | one mint, opener, request; 2 positions; database calls may fail | `TypeOK`, `PermitsNeverMinted`, `OpenPositionHoldsSlot`, `NoUnexplainedLeak` over all five handlers |
| `SlotsOpeners` | two openers of one mint, 2 positions, archiving, one crash | `OneOpenWhileLockStands`, `OpenPositionHoldsSlot` |
| `SlotsDuplicateOpen` | as above with deletion, 3 positions | two open positions of one mint, after a removal dropped the mint's lock object |
| `SwapsBooks` | partial exits and adds; 4 lots, 3 swaps; one retry; late, balance and price faults | `TypeOK`, `BooksFollowWallet`, `LedgerSpec` |
| `SwapsExits` | partial exits and closes; 3 lots, 3 swaps, one retry; balance faults | `OnePartialInFlight`, `LedgerSpec` |
| `SwapsRestart` | partial exits; 4 lots, 3 swaps; failing writes, one crash | `NothingForgotten` |
| `SwapsExitSettles` | closes that may leave a residual; 3 lots, 2 swaps, one retry | `StampedExitSettles` |
| `RpcFailover` | two providers, two callers, one retry; thresholds 2 | circuits trip on failures in a row, callers ask every provider they may, calls end, open circuits are probed, half-open ones move on |
| `WalletWatch` | two transactions, one of them an activity, pages of one, one page per tick, streak 2, one crash, one API call | `TypeOK`, `CursorCoversHistory`, `LostOnlyByCrash`, `PendingIsReconciled`; nothing is announced twice or after it was dropped (refines `ActivityFeed`); everything settles |
| `CopyTrading` | two buys and a sell, budget 1, lots of 2, `hybrid` exits, one edit, crashes and failures without bound | spend, budget and paper book; claims resolve, submitted copies are confirmed, watch and task agree |
| `SwapsWrittenOff` | one close, late verdicts | an exit that landed is written off |
| `SwapsPartialTwice` | one partial exit, failing writes | a partial exit booked twice |

Why the bounds are enough: the slot accounting is per position, and two positions of one mint
give closed-then-bought-again, two terminal paths for one row and the wrong row for a mint; a
third is needed only for two opens next to a removed one. In the verification, three swaps of
one position are: one settling late, one in flight, one being submitted; a fourth repeats the
second. `MaxAttempts` (12 in the code) is 0 or 1: the cap is only compared with, and each
attempt below it is the same step. One caller at a time suffices where the mint's lock
serialises them (a second one waits); crashes are bounded by one, each starts from the table.
`MaxPositions`, `MaxSwaps`, `MaxBoots` are bounds of the models, not of the code. Two callers
and two providers give a verdict that arrives after its circuit changed and a failover while
the other provider is probed. Two transactions with pages of one give a full page that leaves its
range open, one that overflows, one that is followed by news, and a transaction without an activity
next to one with; a second crash or API call starts from the same tables. With three transactions,
two of them activities, and pages of two the four invariants hold as well (3.07 million states), and
they are proved for any number. Two buys with a budget of one give the refused copy and, with the sell
anywhere around them, every order of the three; one edit runs in several steps against the loop.
The safety invariants of `CopyTrading` hold with `MaxEdits = 2` as well (1.6 million states).
`MaxEdits` and `MaxRestarts` are bounds of the models too.

Deadlock: `PositionSlots` stops when its positions are used up, so its runs do not look for it;
the worker of `SwapVerification` always has a next step, so there deadlock is an error.

`WalletWatch` may stop when all transactions of the bounded chain are settled and the target is
gone, so its run does not look for it either. A caller of `RpcFailover` can always call again
and the loop of `CopyTrading` can always take a step, so there deadlock is an error.

Refinement: `WalletWatch` implements `ActivityFeed` (`FeedSpec`): announced transactions and the
decided ones read off its tables; no crash, edit or replay takes a decision back or announces
twice. `CopyTrading` relies on it: it receives a trade at most once.

Refinement: `SwapVerification` implements `SwapLedger` with `fate` read off the chain (failed
and lost are void) and `booked` read off the position (`LedgerSpec`). It holds per set of
operations; with closes that leave residuals, failing writes or a crash it does not, see
section 5.

Fairness (`FairSpec`): the worker and the tasks that run an operation are tokio tasks that are
always scheduled again (weak fairness of the worker's and of each caller's steps; starting an
operation is never required); the chain decides each signature; an item that stays in the queue
becomes due, since backoffs are finite (strong fairness of polling it); an RPC node that is
asked about a signature again and again gives the verdict in the end (strong fairness of
judging it). Without the last one `verify_transaction` may answer `RetryTransient` for ever.
With it, `StampedExitSettles` still needs the guard: `requeue` drops an item at its cap.

In `RpcFailover` a call that was started goes on (weak fairness of its steps; `execute_raw` has
a time limit on every request) and time passes; no provider is promised to recover, and a
circuit whose time has come is probed only if somebody asks. In `WalletWatch` the loop goes on and its timer fires;
reads, writes and decoding fail at times but not for ever (strong fairness of their success);
the address is not required to be quiet. In `CopyTrading` the loop goes on, and every step of
the minute's reconciliation that keeps coming up succeeds at some time (strong fairness); a
claim grows older than its 300 s, a row older than its 120 s. The API, the wallet and the
positions owe nothing: an edit may stop halfway.

## 4. Proofs

The theorems hold for every value of the constants that the modules' assumptions allow (any
number of mints, openers, requests, callers, swaps, providers, transactions, trades, retries and
crashes), with the further hypothesis named where there is one. Every safety invariant, every
action property and both refinements that a passing run checks are also theorems; where a theorem
has a hypothesis, the run's constants satisfy it unless said otherwise. Each proof is the same
three facts: the initial states satisfy an inductive invariant, each action keeps it, it implies
the property; only the last step of a theorem is temporal.

**`PositionSlotsProofs`**

- `TypeCorrect`: `TypeOK`. `NeverMinted`: `PermitsNeverMinted`, permits free, held by positions
  and carried by openers or unarchiving requests never exceed `cap`. That a release adds a permit
  only when it removes a holder, and that an acquisition makes exactly one new carrier, need the
  types; each action moves one permit between the four terms, removes one, or leaves them alone.
- `LeaksAreExplained`: `NoUnexplainedLeak`. A slot that pays for no open position is being
  released by somebody who is at work on it, or was missed on one of the paths the property
  names. The invariant adds how ids are handed out (`Numbered`), what a request in progress has
  already done (`RequestFacts`), and what the worker has (`WorkerFacts`).
- `OpenPositionsPay`: `OpenPositionHoldsSlot`, if `Serial`: where requests may unarchive, there is
  one request at a time. Without it the property is false (section 5, two archives and an
  unarchive). The invariant says besides that whoever is about to release a slot is still due to
  (`ReleasesAreDue`).
- `OneOpenPerStandingMint`: `OneOpenWhileLockStands`, if `Calm`: the database answers and the
  dashboard archives and unarchives only. The guard of an open reads memory, then the table; an
  error of the table counts as no, and a deletion, purge or forced close may hit a position that
  is stored and not yet listed, so that both reads miss it. The invariant: the mint's lock keeps
  the critical sections of two openers apart (`LockExcludes`), the table has every position that
  memory has (`TableCovers`), the open position of a mint is the latest (`OpenIsLatest`). The run
  `SlotsOpeners` lets the dashboard archive and unarchive too, and crashes once.

**`SwapVerificationProofs`, `SwapLedgerProofs`, `SwapRestartProofs`**

- `TypeCorrect`: `TypeOK` for all operations and faults together. The types are strengthened by
  where the worker and a caller stand (`WorkerOK`, `CallsOK`) and by signatures being handed out
  in turn (`ChainOK`).
- `BooksEachSwapOnce` (`BookedOnce`) and `ImplementsLedger` (`LedgerSpec`, the step refinement of
  `SwapLedger`), if `Undisturbed` (no failing write, no crash) and `Separate` (full closes are not
  mixed with adds nor with wallets split over accounts). The invariant `LedgerInv`: a partial exit
  or add is followed in one place at a time, at its caller, in the queue, in the batch or in the
  worker's hands (`OnePlace`), and in none of them that could book it again once it is booked
  (`Seen`); only landed swaps are booked, once (`Fate`); a full close takes all there is
  (`Closes`), so no residual is booked (`NoResidual`). Retry, renewal, expiry and the guard
  each move a signature between places. The hypotheses are needed: `SwapsPartialTwice` books twice
  after a failing write, an add is averaged in again after a crash, a residual is
  booked as the next close (section 5).
- `PartialsDoNotOverlap` (`OnePartialInFlight`), if also no signature is late. Added to the
  invariant: the mint's counter is 1 while a caller sizes a partial exit or one is alive
  (`OneAlive`), and the worker counts it down for a booked one only (`BookedFirst`).
- `BooksMatchTheWallet` (`BooksFollowWallet`), if `Undisturbed` and there are no full closes; late
  verdicts and failing lookups are allowed. Then a partial exit may be given up on while it is in
  flight, and the next one is sized from books that still hold its tokens. What makes the
  books right nevertheless is `Sized`: the one partial exit that can still be booked sells less
  than the position holds, so the saturating subtraction never saturates. It needs `OneAlive`:
  nothing but adds comes between sizing and booking.
- `LossesLandInFull` (`LossLandsInFull`), if `OnlyCloses` (full closes, verdicts in time, balance
  lookups that answer), with residuals, failing writes and crashes: of memory and of the row alike,
  only landed swaps are booked, a position closes when the wallet is empty, and its P&L then covers
  what it has booked (`Covered`). The hypothesis is needed: with a partial exit next to the close
  the property is false (section 5).
- `NoPartialIsForgotten` (`NothingForgotten`), if
  `OnlyPartials` (partial exits, verdicts in time, no failing write), with any number of crashes:
  the counter leaves one swap at a time in anyone's hands, so that the registry and its copy in the
  metadata differ only between one actor's two writes (`Alone`); what is booked is booked in memory
  first, then in the row, then in its record, and leaves the registry last (`WrittenInTurn`); a
  registered swap that is still going, or landed and not in the row yet, is in the metadata
  (`Durable`). Nothing keeps the registration of an add from running next to the
  worker's clearing of another, and the property is false (section 5). The run `SwapsRestart` checks the property with failing
  writes, too: that part is model-checked only.

**`RpcFailoverProofs`**, for finitely many providers: `TypeCorrect`; `TripsAreEarned`
(`TripIsEarned`), a closed circuit opens only after `FailureThreshold` failures with no success
between them, though the state is read, the slot taken and the verdict recorded under
separate locks; `AsksBeforeGivingUp` (`TriedBeforeGivingUp`). The invariant adds that a closed breaker's
count is at most its current streak of failures (`CountIsEarned`) and that a caller's excluded set
has as many members as it made attempts (`AllTried`).

**`WalletWatchProofs`**: `TypeCorrect`; `CursorCovers` (`CursorCoversHistory`);
`PendingReconciles` (`PendingIsReconciled`); `OnlyCrashesLose` (`LostOnlyByCrash`); and
`ImplementsFeed`, the refinement of `ActivityFeed`. The invariant says what each structure owes:
only transactions of the chain are known, only known ones are sent, each at most once (`Decided`);
a signature in the funnel is at the stage its record shows (`JobOK`); what a retained range has
replayed without a failure is settled, and all below the range (`RangeOK`) and up to the cursor
(`CursorOK`) is; without a restart, what is known and not sent is the one in the funnel
(`NothingLost`). Settled means: known and not pending, unless a failed delete left the row
(`unswept`), or passed over on purpose (`skipped`) or for want of the cursor (`unread`). Every
write of the cursor `Passes` only what is settled or noted in one of the two. The refinement rests
on a settled transaction staying settled, also when a start marks several at once.

**`CopyTradingProofs`**: `TypeCorrect`; `LiveBuysAccounted` (`LiveSpendIsAccounted`);
`NeverOverBudget` (`BudgetHolds`); `PaperBalances` (`PaperBookBalances`), with crashes and failing
calls at every step and edits at any time. The invariant adds that a trade nobody has taken up has
left no trace (`Untouched`), what the loop has read and holds at each step (`LoopOK`), that a
claimed trade is undecided (`ClaimedUndecided`), that each unit of live spend belongs to a live
decision (`Accounted`, `LiveLedger`).

**`UpdateHoldProofs`**, for finitely many trades and tools, with the user applying the update at
any time, settings that change at any time and restarts anywhere: `OneOwner`
(`HoldHasOneOwner`), `ExactCounters` (`WorkIsCounted`), `QuietRestart` (`NoWorkUnderRestart`).
The flag and the counter are two atomics that no lock joins. That it works out rests on three
facts together, the inductive invariant `IInv`: the hold stands while the service is between
taking and dropping it (so nobody else drops it), a counter is the number of executions that
are in or past the second test, and under a hold the second test turns them away; so a counter
read as zero means nothing of its kind runs, and stays so up to the restart (`Quiet`).
`UpdateHold` has no run among those of section 3; with two trades and one tool TLC visits 7924
states of `Spec` in seconds and finds the four invariants of the module to hold.

Only model-checked: all liveness (out of the prover's reach, as is ENABLED), the properties of the
runs that expect a violation, and `NothingForgotten` under failing writes.

## 5. Where the code and its comments part

Three disagreements have a run of their own (`SlotsDuplicateOpen`, `SwapsWrittenOff`,
`SwapsPartialTwice`). The models show more; each can be reproduced by changing the constants of
a run, or by checking the formula, as said here.

| What happens | Where | How to see it |
|---|---|---|
| An add is averaged in again by the verification restored after a crash ("must not be recorded (and averaged in) twice", `database/convenience.rs:537`) | `apply.rs:1058` | `BookedOnce`, adds only, one swap, `MaxBoots = 1` |
| A residual fill handled before its caller enqueued it is queued again, meets the next close and is booked as that one | `worker.rs:359` | `BookedOnce`, closes, `split`, two swaps |
| A residual fill counts down the counter of another partial exit, and two partials overlap ("Refuse to overlap two partial exits") | `apply.rs:890` | `OnePartialInFlight` in `SwapsExits` with `split` and 4 lots |
| A failing metadata write drops the mark of a partial exit that was submitted | `partial_close.rs:329` | `OnePartialInFlight`, partial exits, `db` |
| Clearing one add copies the registry, another add is registered and persisted, and the older copy overwrites it in the metadata: after a restart a registered add that landed is not verified ("ensures DCA verifications survive restarts", `state_pending.rs:19`) | `state_pending.rs:90` | `NothingForgotten`, adds, no fault, two swaps, `MaxBoots = 1` |
| A partial exit verified after the close it overlapped with is missing from the P&L given to the loss limit ("The loss lands, in full and exactly once, when the position closes", `apply.rs:794`) | `apply.rs:785` | `LossLandsInFull`, partial exits and closes, no fault, two lots and swaps |
| An add past its expiry height is declared failed without looking it up ("the transaction never landed") | `worker.rs:441` | `NothingForgotten`, adds, `late`, one swap |
| `requeue` drops a partial exit after 12 attempts; its marks refuse all later ones ("blocks every future exit") | `queue.rs:283` | `s \in pending["partial"] ~> s \notin pending["partial"]` under `FairSpec` |
| A failed add removes the position | `verifier.rs:169` | `mem.there`, adds, one swap |
| A partial exit not found for a minute is judged as a full exit | `verifier.rs:283` | action property on `mem.open`, `mem.exitSig`; partial exits and closes, `late`, two swaps |
| A failed close whose balance lookup fails is written off | `verifier.rs:146` | `mem.synthetic` only when `wallet = 0`; closes, `balance` |
| A stale verdict on an older close clears the stamp of the next | `apply.rs:403` | at most one close in flight; closes, three swaps |
| A close sized from a wallet that holds an unbooked add saturates the remaining amount at zero | `apply.rs:668` | `BooksFollowWallet`, all operations, three swaps |
| An archive that is about to give its slot back is overtaken by a second archive and an unarchive of the same position, which takes the slot again; then the first one gives it back: an open position without a slot | `webserver/routes/positions/manage.rs:94`, `:157` | `OpenPositionHoldsSlot` in `SlotsDashboard` with archive and unarchive, two requests, one position |
| A close whose table write fails keeps its slot; a position that leaves between `add_position` and `register_position_slot` is registered afterwards | `apply.rs:384`, `open.rs:373` | the exceptions in `stranded` of `NoUnexplainedLeak` |
| An orphan's row stays in the table and counts again after a restart; an orphan's removal by mint may take an older row | `apply.rs:551` | the exceptions in `slotless` of `OpenPositionHoldsSlot` |
| A probe answered with a rate limit keeps its slot; when all slots went that way the circuit stays half-open and refuses every call; `half_open_timeout` ("Timeout for probe requests in half-open state", `circuit_breaker/config.rs:20`) is read nowhere | `circuit_breaker/state.rs:77`, `manager.rs:441` | `HalfOpenMovesOn` without `lost[p]` |
| A replay goes on behind a signature it has to retry, so later ones are announced first ("retries it without losing ordering", `watch/service.rs:382`) | `watch/service.rs:202` | order of `Publish` steps in `WalletWatch` |
| A cursor that cannot be read counts as none: one page is taken and the cursor moves over all that is older ("a restart may re-page from the durable cursor, but cannot skip signatures", `watch/poller.rs:6`) | `watch/service.rs:111` | `CursorCoversHistory` without `unread`; three transactions, pages of one, no crash, no edit: four states |
| A pending row whose delete fails stays for a signature that is terminal, and the cursor moves past it; no later replay comes to it | `watch/service.rs:258` | `unswept` in `PendingIsReconciled` |
| A start marks signatures as known that were recorded, or are the own wallet's, and never announces them | `transactions/database/bootstrap.rs:94`, `transactions/service/bootstrap.rs:384` | `AtStart`; `LostOnlyByCrash` without `restarts = 0` |
| After a failed update the task is rolled back and its watch is not ("a failed write never leaves the watch source carrying values the task does not", `copy/control.rs:479`) | `copy/control.rs:520` | `UpdateWatch` with a rollback, then `UpdateStore`, in `CopyTrading` |
| An update compares the mode in one statement and writes it in the next: a return to paper in between is overwritten with live ("mode changes require the dedicated confirmation endpoint") | `copy/database.rs:286` | two edits; `task.mode` changes to live in `UpdateStore` |
| An update writes back the `enabled` it read: a pause by the latency switch in between is lost | `copy/control.rs:485` | `UpdateStore` after `PauseTask` |
| A task that was paused already when the watcher let go of its wallet is watched again within the minute ("A task the watcher detached stays detached") | `copy/guards.rs:60` | `Detach` while paused, then `SyncPausedWatch` |
| The reason `detached` keeps a paused task out of the reconciliation also when an update attached it again: the wallet stays watched after the last copy is gone | `copy/guards.rs:60` | `WatchFollowsTask` without the exception for `detached` |
| A live copy whose record is lost is not spent: its claim is given up, and the budget lets one more copy in | `copy/database/claims.rs:145` | `Cardinality({t \in Trades : entry[t] # "none"}) <= Budget` |
| A close by hand that read its holding before a reset and is recorded after the next buy sells the new holding | `copy/workspace/book.rs:158` | `CopyTrading`, two edits |
| A task back on paper no longer sells its live copies with the wallet's sells | `copy/service.rs:351` | `mirror` exits, `SetTaskMode` with `open # {}` |
| The readiness verdict reads the positions before the counters: a trade that opens one and ends in between is seen by neither read, and the process restarts with an open position although `defer_while_trading` is on ("work that started just before it remains counted and makes this final verdict defer the restart", `version/service.rs:111`) | `version/policy.rs:80` | `auto.at = "restart" /\ auto.defer => ~open` in `UpdateHold`, one trade |
| A request to apply the update that is dropped after its claim leaves the phase at `Applying`, which refuses every check, download and further attempt until the next start | `version/service.rs:187` | `UserClaims`, then `UserGone`, in `UpdateHold` |

## 6. Plan

In this order, the most important behaviour first:

1. `PositionSlots` with its proofs, `SwapVerification` with `SwapLedger`: done.
2. Proofs about `SwapVerification`: done for what section 4 lists. Left: `NoPartialIsForgotten` with
   failing writes as well; `ImplementsLedger` with adds and closes together, on a condition that
   keeps an add from landing before a close that did not count it.
3. The opening buy in the verification (entry verified twice, orphan removal by signature), and
   the composition of `PositionSlots` with it.
4. `positions/ledger`: plan and apply against a live list; abstractly, an atomic reconciliation.
5. `rpc/`, `wallets/watch`, `trader/copy`: done, as far as section 7 says. Their safety
   properties are proved.
6. `trader/`: entry and exit monitors, manual guard, loss limit with its period roll-over;
   the composition of `WalletWatch` and `CopyTrading` over the broadcast.
7. `UpdateHold` with its proofs: done. Its composition with `SwapVerification` (what a restart
   onto an update loses of the stamps in memory) multiplies the states by about fifty.
8. `swaps/`: route fallback; abstractly, at most one submission that may land.
9. `services/` start and stop order; `actions/`; `process/` lock.

Runs planned: the parts above as they are modelled. Theorems planned: those of step 2, the exact
bound on probe slots of `RpcFailover`, what one watch delivery means for `CopyTrading` when both
are composed.

## 7. Not modelled

Prices, fees, P&L values, slippage, route choice, block heights as numbers, token decimals,
dust; notifications, events and logs; the parts the inventory marks so, because they are I/O,
formatting or floating-point arithmetic. The position's entry is verified at the start of
`SwapVerification`. Token balances change by the position's own swaps only.

Of the RPC manager: latency statistics, the rate limiter (it delays a request; its reduced rate
is never consulted), the order the selection strategies give to the untried providers,
`force_open` and `force_close`, which nothing calls. Of the watcher: the transport of
notifications, the fields of an activity, the limit on targets and the `watch_enabled` switch;
the clean-up of old rows, which never touches `known_signatures`. A decoding that fails for another
reason than the transaction not being there yet is final in the code, even when the reason may pass;
such a transaction counts as one without an activity, since `Activity` is what decoding finds out. The RPC history is taken to be
consistent from page to page; a signature that can never be decoded holds its retained range
until a restart. A reload that fails to list the targets drops them until the next
reload and is left out. Of copy trading: creating, cloning and deleting tasks, several tasks and
tokens, the price of a fill, the change of exit mode (its failure is in `UpdateWatch`), two
multi-step calls of the API at once, a crash inside the swap before its position exists. Of the
updater: checks, downloads, staging and the desktop shell are a phase that changes by itself; the
shutdown of the services between the request to restart and the restart is one step.
