# A verification development for QuantBT

TLA+ modules that model the stateful core of QuantBT, the TLC configurations
that check them on small instances, and theorems about them with proofs that
TLAPS checks. `PROJECT.json` says, for every definition, which lines it models.

QuantBT is a backtesting library: Python on the outside (`src/src/quantbt`), a
Rust engine inside (`src/rust`). Most of its volume is arithmetic over arrays,
which has no states to explore. What does have them is the event session (orders
that live, wait, expire, fill, cancel and wake each other over many bars), the
transaction around a bar, and the runtimes that share one session or one pool of
workers between threads and processes. This development is about those.

## 1. Inventory

Paths starting with `engine/` are under `src/rust/crates/quantbt-engine/src`,
`native/` under `src/rust/native_event/src`, `py/` under `src/src/quantbt`.

### The event session

| part | state | operations | with whom | what is hard | what makes it correct |
|---|---|---|---|---|---|
| **order arena** `engine/orders/arena.rs` | slots with a generation, a stack of free slots, counters | `insert`, `remove`, `get`, `clear` | owned by the session; handles are kept in the indexes, the aliases and the matching snapshot | reuse of slots, the last generation, both limits, two branches of `clear` | a stale handle never names a later order; no slot is lost or handed out twice; `live` counts the orders |
| **lifecycle indexes** `engine/orders/indexes.rs` | lists of handles by activity, expiry bar, parent, OCO group, and a copy of the flags they are keyed by | `insert`, `set_activation`, `remove`, `clear`, lookups | updated by hand beside the arena, on every path an order can leave by | a dozen paths; the validator runs in tests only | each index is what it would be if rebuilt from the arena |
| **aliases** `engine/orders/aliases.rs` | id to handle and handle to ids | `bind_all`, `resolve`, `aliases_for`, `release` | commands name orders by id; REPLACE passes ids on | last writer wins; chains of replacements | both directions agree; an id leads to the newest order it was given to |
| **full session** `engine/session.rs` | clock, positions, balances, orders, scratch of the matching loop, caches | `step_with_buffers`, `reset`, snapshots | everything above; the execution model | orders woken and cancelled while the loop that matches them runs; a step that fails half way; liquidation at three points of a bar | each active order is considered once per bar; OCO siblings exclude each other; children follow parents |
| **execution model** `engine/execution_model.rs` | liquidity used in this bar | `begin_bar`, quotes, fills | called by matching, may refuse | liquidity shared by all orders of a bar | an order trades what it was asked to and no more; fill-or-kill all or nothing |
| **margin cache and account snapshot** `engine/session.rs` | values with the bar and version they hold for | read, update after a fill, invalidate | equity, fills, liquidation, the bar transaction | stale by bar, by rollback, by retry, by liquidation, by wrapped version | a cache that would be accepted is what would be recomputed |
| **bar transaction** `engine/session/transaction.rs` | a checkpoint of the mutable state | begin, retry, commit, abort | session, feedback session | a field left out of the checkpoint is found only by the right history | an abandoned attempt leaves no trace |
| **feedback session** `native/feedback_session.rs` | a session or none, an open transaction | `begin`, `step`, `commit`, `abort`, `reset`, `close` | called from Python, one caller at a time (the native methods take it mutably) | several attempts at a bar, failures in between | the committed history is a history of atomic bars |

### Runtimes

| part | state | operations | with whom | what is hard | what makes it correct |
|---|---|---|---|---|---|
| **prepared evaluation runtime** `native/prepared_evaluation.rs` | closed, active, generation, canceled and poisoned flags, a channel, worker threads | `bind`, `execute_score`, `cancel`, `reset`, `close` | worker threads, through two channels | panics, answers in any order, rebuilding the pool, joining it | one row for each binding; no stale binding runs; a clean pool for each batch |
| **its adapter** `py/backends/native_prepared_evaluation.py` | closed, active batches, generation, canceled, a lock | `bind_request`, `evaluate`, `evaluate_score_columns`, `cancel`, `reset`, `close` | Python threads; the native runtime | checks before the lock; `cancel` without it; two generations | every call returns; nothing runs after `close` |
| **prepared object cache** `py/preparation/cache.py` | an LRU of pinned entries, three tiers | get, put, pin, release, clear | adapter, preparation | pins are counts released by key | not modelled yet |
| **reactive walk-forward worker** `py/backends/reactive_wfo_workers.py` | the forked process with its generation, two pipes, the next request id | `score`, `_start`, `_discard`, `close`; in the child `recv`, score, answer, leave | the process it forked | death at any moment, torn and late answers, calls left by an exception, cancellation, a second thread | a row answers the very request it is returned for; a failed child runs nothing more; no child is lost; every call ends |
| **scalar session pool** same file | sessions by requirements, the active runner | `score`, `cancel_active`, `close` | the runtime; the native runner and its cancel flag; the cancelling thread | the runner is published before its reset; a poisoned runner must not be used again | a cancellation lets at most one more row through |
| **reactive walk-forward runtime** `py/backends/reactive_wfo.py` | a cancellation, a worker or a pool | `score_markers`, `cancel`, the clean-up of `backtest` | worker, pool | clean-up on every path | nothing of a backtest outlives it |
| **package execution** `quantbt-package/src/v2.rs`, its caller in `quantbt-execution` | the planner's units, equity, requested and filled quantities, residuals, commands | plan a package under one of four policies, unwind, refuse; compile to orders | the session: a projection of its account before the step, its matching after it | the same arithmetic in two places; legs refused or filled in part after others; unwinding that fails | what is previewed is what is committed, up to the planner's tolerance; atomic is all or nothing; reported exposure covers what is left |
| **continuation session** `py/optimization/continuation/session.py` | an Optuna study, pending trials, seen parameters, early stopping, a journal, a poison mark | `ask`, `report`, `should_prune`, `tell`, `dumps`, `loads` | Optuna; the checkpoint file | operations that raise half way; the event limit | a session that is not poisoned is what its journal replays to |
| **checkpoint file** `py/optimization/continuation/storage.py` | the file, its digest, a lock file, temporary files | `write_checkpoint`, `read_checkpoint` | the file system, other processes | stale writers, errors and deaths between any two steps, loss of power | acknowledged work is never taken back; the lock always comes free |

### Parts without a protocol of their own

Accounts and fill replay, metrics, portfolio arithmetic, strategy IR, options
pricing, reporting, domain tables and the extension glue are functions from
arrays to arrays, or presentation. They are listed one by one in
`PROJECT.json` with the reason each is left out. Target and intrabar execution
and the Python event oracle do have state and are in the plan below.

## 2. Modules

| module | models | notes |
|---|---|---|
| `OrderArena` | `arena.rs` | every operation, with widths as constants (`MaxGen`, `MaxSlots`) |
| `OrderArenaProofs` | | theorems about `OrderArena` |
| `OrderLifecycle` | `session.rs` stepping, `indexes.rs`, `aliases.rs`, `execution_model.rs` | one bar at a time, one command or one candidate per action |
| `OrderLifecycleProofs` | | theorems about it |
| `AtomicBars` | | what a feedback session promises: a history of atomic bars |
| `FeedbackSession` | `feedback_session.rs`, `session/transaction.rs`, the caches of `session.rs` | implements `AtomicBars` |
| `FeedbackSessionProofs` | | theorems about it, its refinement among them |
| `PreparedRuntime` | `prepared_evaluation.rs`, `native_prepared_evaluation.py` | threads, lock, interpreter lock, channels, workers |
| `PreparedRuntimeProofs` | | theorems about it |
| `ScoreWorker` | `reactive_wfo_workers.py`: the forked worker and its child | parent, child and pipes; no specification of its own |
| `ReactiveRuntime` | `reactive_wfo.py` `score_markers`, `cancel` and clean-up; the scalar session pool | composes `ScoreWorker` with a runtime or a direct caller |
| `ReactiveRuntimeProofs` | | theorems about both |
| `PackageExecution` | `quantbt-package/src/v2.rs`, `execute_package_market_v2` of `quantbt-execution`, marking and matching of `session.rs` | planner and session over one account |
| `PackageExecutionProofs` | | theorems about it |
| `StudySession` | `continuation/session.py`, `callbacks.py` early stopping | pure operators on a session record |
| `AtomicCheckpoint` | | what a checkpoint file promises |
| `StudyCheckpoint` | `continuation/storage.py` | processes, lock, file and disk; implements `AtomicCheckpoint` |
| `StudyCheckpointProofs` | | theorems about it |
| `DataLemmas` | | facts about numbers, finite sets, sums and folds that four of the proof modules use |
| `MC...` | | bounds and command sets for TLC |

Definitions marked `Fault:` are mutated forms of the definition that follows
them. No specification uses them; replacing the definition by its fault must
make TLC report the property listed beside it in `PROJECT.json`.

### `OrderArena`

Variables are the fields of the struct, and `issued`, the history of handles.
`InsertRecycled`, `InsertFresh` and `InsertOverflow` are the three ways `insert`
ends once the limits let it start; the last is the path on which the counters
have moved and the slot number does not fit. `Remove` covers both the recycling
and the retiring branch; `ClearIdle` and `ClearLive` are the two branches of
`clear`. Refused calls (a stale handle, a limit) change nothing and are not
steps. Slots are numbered from 1.

### `OrderLifecycle`

`book` holds the arena's orders, the indexes and the aliases, with one pure
operator for each function that maintains them (`Indexed`, `Unindexed`,
`Activated`, `Bound`, `Unbound`, `Inserted`, `Released`), so that an action can
apply them in the order of the code. A handle is the sequence number of its
order: that a real handle never names two orders is what `OrderArena` proves.
A bar is `OpenBar` (marks, then expiry), commands one by one (`Place`, `Cancel`,
`Amend`, `Replace`, `CancelAll`), `BeginMatching`, one action for each candidate
(`SkipStale`, `NoFill`, `CancelReduceOnly`, `KillPartial`, `RejectMargin`,
`Fill`) and `EndBar`. A fill does in one action what the code does in one
iteration: wake children, cancel siblings, book the fill, keep or release the
order. `FailStep` is the error return of the execution model, which leaves
everything in place. Handles enter the candidates in the order of their sequences:
`Ascending` gives each the place its rank has. Abstracted: one symbol; whether a price is touched and
whether margin suffices are free choices. `placed`, `filled` and `quantity` are histories: the last has, for each order,
what it was asked to trade (an amendment asks anew for what is left) and what its fills have traded.

### `FeedbackSession` and `AtomicBars`

The session is a record with the fields a checkpoint must cover. `Outcomes` is
the set of sessions one call of `step_with_buffers` can end in, successful or
not, built from `Marked`, `Funded`, `Placed`, `AllFilled`, `Liquidated` and
`Snapshot` in the order of the code; the orders a bar fills are any set of the live ones,
filled one by one in sequence order (`InOrder`). Amounts are replaced by the effects they
are sums of, so that a doubled or missing effect is visible; margin is the size
of the position. The refinement reads the committed bars off the checkpoint
while a bar is open.

### `PreparedRuntime`

`pc` gives each Python thread a place in its call. Python code moves only while
no native call holds the interpreter (`gil`), and may be preempted between any
two actions. Native code is one action up to where it detaches; detached code
(`Send`, `Receive`, `Collected`, `Recover`) interleaves with everything. Workers
take messages, check the cancel flag, run, panic and answer.

### `ScoreWorker` and `ReactiveRuntime`

`parent` is the worker object: `pc` is where its call of `score` stands, one value
for each point at which the code can be interrupted (`check` before the dispatch,
`send`, the loop's `wait`, `poll`, `alive` and `recv`). `child`, `request` and
`response` are indexed by generation: a discarded child lives on until it dies, and
its pipe keeps what it sent. `Discard` is every way a call gives its child up:
join, terminate if alive, close the pipes. `Interrupt` is an exception from outside
(KeyboardInterrupt) and leaves the call without clean-up, as the code does, which has
no `finally` there. A child may die at any time (`Crash`), in the middle of a send
(`ChildTears`, a torn message that `recv` raises on), by SIGTERM some time after it was
sent (`Terminated`), or by leaving. An answer keeps kind, request id and generation;
its row is the id of the request it was computed for.

`ReactiveRuntime` has three modes. In `process` and `inprocess`, `rpc` walks through
`score_markers` for `MaxScores` markers, and through the `finally` of a backtest.
In `direct` a caller drives the worker itself and may call again after a call that
raised. `Open` to `Deliver` are the pool's `score`, cut where `cancel_active` of the
other thread can fall between: publication of the runner, its reset, the run, the
return. `Cancel`, `CancelReads`, `CancelSignals` are that thread.

### `PackageExecution`

A bar is a callback and a step. In the callback the caller projects the account to where the
step will have brought it (`Projected`: marks, the two liquidations, funding) and hands the bar's
package to the planner. `AbortPackage`, `FailRun`, `RefusePackage` and `StartPlan` are the ways the
planner begins; `PlanAtomicLeg` and `PlanLeg` take one leg each; `FinishPlan` ends the first pass,
`UnwindLeg` and `FinishUnwind` the second. `StepLiquidated`, `StepLiquidates` and `StepOpens` are
the session's own marking, and `MatchOrder` one iteration of its matching loop over the compiled
orders. `Attempt` (attempt_leg) and `Fill` (preview_fill and the margin check) are two
translations of two functions that have to agree; neither refers to the other. Where they do not agree in the
code they do not agree in the model: the planner lets the demand of a leg exceed the free margin by
`EPSILON` (v2.rs:778), the constant `Tolerance` here; the session (session.rs:2979) does not. `Fill` returns
beside `allowed` whether the planner would have let the order pass (`tolerable`), and the history `refusal`
keeps, for the first order a bar's step rejects, by how much it was short: by the tolerance, or beyond it.

Amounts are integers: a price stands for price times contract size, rates are thousandths.
`Tolerance` is an amount of money, wherever the planner compares money (margin, minimal notional,
outstanding exposure); its tolerances on quantities are below the smallest unit, which integers cannot
miss by, and are left out. `before`, `path` and `refusal` are histories.
`best_effort` is planned like `sequential` and is not told apart. Left out: order ids, the totals of
reserved margin and fees, the list of transitions and fields that are
not finite. Orders of other origin in the same bar are not in the tape runner either.

### `StudySession`, `StudyCheckpoint` and `AtomicCheckpoint`

A session belongs to one thread, so its operations are functions from sessions to
sessions (`Ask`, `Report`, `ShouldPrune`, `Tell`), each with its guard (`MayAsk`, ...),
its journal entry (`Record`) and its failing variants (`AskFails`, `HalfDone`, and
`Record` at the event limit), which leave the poison mark. Sampler and pruner are
constants, operators of the trials: what they compute is Optuna's affair, that they
compute it from the trials only is what exact continuation rests on. `Replay` folds
the journal through the very same operators, as `loads` does, and `Loadable` compares
the result with the witness.

`StudyCheckpoint` gives the sessions to processes. A save is `Save`, `Lock`, `Guard`
or `GuardFails`, `WriteTemp`, `Replace`, `SyncDir`, `Return`, with `IOError` in between.
`mayBe` is the disk: what the name may hold after a loss of power, more than one
checkpoint between a rename and the sync of its directory. A digest stands for the
checkpoint it was computed from. `Reconcile` is the caller whose save raised after its
rename and who finds its own digest in the file. The refinement onto
`AtomicCheckpoint` is the identity on `file` and `acked`.

## 3. Runs

| run | shows | bounds |
|---|---|---|
| `arena` | soundness of slots, handles and counters under any history of calls | 3 slots, generations 0..2, 3 live, 5 created: a slot is recycled, reaches the last generation through `remove` and through `clear`, retires, and slot numbers run out |
| `orders` | an entry, its take-profit and its stop, amended, replaced by a fill-or-kill order and mass-cancelled; chains of replacement, takeovers, refusals, expiry | either brackets: 2 bars, 4 commands, liquidity 1 or 3 against quantity 2 (partial and full fills, children woken in the bar, siblings that are active, waiting and stale); or replacements: 3 bars, 5 commands, liquidity 1; 3 live orders, 4 sequences (both limits are met inside a replacement, orders expire in a bar after a failed step) |
| `full_fill_child` | *violated*: a child that waits for a full fill wakes on a partial one | brackets, 2 bars |
| `liquidation` | *violated*: orders of a liquidated account stay live | brackets, 2 bars |
| `feedback` | stepping, failing, retrying and aborting implement atomic bars; caches are current | 4 bars, funding in one, 3 orders, versions modulo 8 |
| `prepared` | stale bindings never run, rows are exact, the pool is clean, every call returns | 2 threads, 2 workers, 2 ids, 5 calls: reset between the halves of a bind, two concurrent batches, panic beside a running task, failed recovery, close against batch |
| `cancel_reset` | *violated*: adapter and runtime disagree on cancellation | 2 calls |
| `reactive` | rows answer their own requests, failed children stop, no child is lost, a cancellation lets one row through, calls and children end | 3 calls or markers, one key, a deadline: an interrupted call, a late answer and a third call beside them; up to 3 generations |
| `typed_failure` | *violated*: a typed error is lost when its child leaves between poll and look | 2 calls |
| `package` | the session commits what the planner previewed, unless an order is short by the tolerance; atomic packages are all or nothing; outstanding exposure is reported; hedges stay within their primary | 2 symbols, 4 bars of which 2 may hold a package, packages of 2 or 3 legs, 384 in all, capital 80, 241, 300 or 2000, tolerance 1: partial fills, margins that suffice by the tolerance only (capital 241), margins that run out in the first pass and in the unwinding, liquidation in a bar, at its close and after its orders |
| `package_tolerance` | *violated*: an atomic package loses a leg that its planner passed by the tolerance | as `package`, capital 241 |
| `continuation` | replay is exact, acknowledged work survives, saves end, the file implements an atomic checkpoint | 2 processes, 3 saves, 1 crash or loss of power, budget 2, 4 events: a stale writer, a save beside a rename that is not synced, a journal at its limit in the middle of a trial |

Why these bounds are enough to be worth running: between them the passing runs
fire every action, each limit in the code is reached, and each fault listed for
a run is caught. They are not a proof for larger instances; where that exists
it is listed in section 4.

What the code does not bound and the model does: `MaxCommands` (commands between two
resets), `MaxOrders` (orders of a feedback session), `MaxCalls` (calls into the
runtime), `MaxScores` (calls of a worker, markers of a backtest), `MaxReports`,
`MaxSaves` and `MaxCrashes`. `Budget` and `MaxEvents` (100,000 events in the code) are limits
of the code. What the code bounds with large numbers and the model with small ones:
`MaxGen` (`u32::MAX`), `MaxSlots`, `MaxSequence`, `Versions` (2^64). Versions wrap
at 8 in the model; a bar, with its snapshot, bumps them at most a few times and
every bar drops the snapshot first, so that the wrap is met and is harmless.
Symmetry is used in `arena` only, over the orders, with safety properties and one
action property that treats them alike.

The `orders` run has one state constraint, `OneKind`: between two resets a session sees brackets or
replacements, each with bounds of its own. Sessions that mix the two are cut; the theorems about `OrderLifecycle`
need no constraint.

The `continuation` run has two state constraints, because sessions are large. They are bounds,
not a reduction: behaviours are cut. `OneStudyAtATime` lets one process at a time be between two points
its session can be saved at, and two processes have unsaved work at once only between the first
save and the second, in studies of one trial. That is enough for two saves with different new work, from
one checkpoint or from none, to race for the lock, the guard and the name; races of larger studies, and
later ones, are not explored. `NoIdleWork` leaves out work no save is left for, work of both processes
before the first save, and, after the first checkpoint, reports, failures and, beyond the second
save, studies of more than one trial. For every safety property and for the refinement nothing hangs on it: the
theorems about `StudyCheckpoint` need no constraint. `SavesEnd` is checked under it only, with
contention for the lock.

Deadlock is checked in the arena and the lifecycle runs. It is off in `feedback`,
where `close` ends the session for good, in `prepared`, `cancel_reset`, `reactive`
and `typed_failure`, where the calls are bounded, in `package`, where the tape ends, and in
`continuation`, where the saves are; that nothing waits for ever is there the property `EveryCallReturns`, `CallEnds`
or `SavesEnd`.

**Fairness.** In `PreparedRuntime` each caller that is inside a
call goes on when it can, and each worker too, by weak fairness. This is the
operating system's scheduler; nobody has to make a call (`Begins` has no
fairness). A thread that waits for the adapter's lock would need strong fairness
if others could take it for ever; with a bounded number of calls they cannot, and
the property says nothing about starvation by an endless stream of calls.

In `ReactiveRuntime` the parent's loop, the runtime's own steps and a child's loop go on,
and a SIGTERM takes effect in the end (weak fairness, the operating system). Nothing is
assumed of the strategy a child runs: `CallEnds` says that only a strategy that goes
on running, uncanceled, keeps a call. In `StudyCheckpoint` a save under way goes on;
the lock needs strong fairness, since other processes take it in between and `flock`
queues its waiters. No caller has to save.

### Disagreements between code and documents

1. **Full-fill children** (`full_fill_child`). `activate_children` treats
   `ON_PARENT_FULL_FILL` like `ON_PARENT_FIRST_FILL`.
2. **Liquidation** (`liquidation`). The registry takes an active order to
   `LIQUIDATED`; `liquidate` leaves orders live.
3. **Cancel against reset** (`cancel_reset`). `cancel` takes no lock and may fall
   between the halves of `reset`, which leaves the native runtime canceled
   behind an adapter that says it is not.
4. **Typed failure** (`typed_failure`). After a poll that timed out, `score` looks at
   the process and not at the pipe again: the error a child has sent just before it left
   is lost, and a missed deadline is reported as a worker that "exited without a response".

5. **Package tolerance** (`package_tolerance`). `attempt_leg` accepts a leg whose demand exceeds the free
   margin by `EPSILON` (v2.rs:778), the session rejects its order (session.rs:2979). The contract calls an atomic package
   all or nothing (`docs/native_event_rust_full_contract.md:313-314`); in the trace its first leg stays in
   the account alone, and the plan reports `completed_hedged` with nothing outstanding. In the same way an unwinding trades
   against a leg that never filled. In floats the window is 1e-12 wide.

Seen while modelling, without a run: `remove` recycles a slot that has just reached the last
generation, which `docs/contracts/perf_02_session_reuse.md` says is retired, while `clear` retires
it (no handle aliases: `NoAlias` is proved for both). The Python reference of the package planner
(`package_execution_v2.py`) reports a rejection for want of margin, and a fill that rounds to zero,
with the reason of an accepted leg. A projected equity that is not positive, on an account that is
not liquidated, is an error of the whole run rather than of its package (`FailRun`). Unwinding
passes over a leg it cannot trade and still unwinds the primary, which can leave a hedge alone; the
exposure is then reported (`OutstandingCoversExposure`).

## 4. Proofs

`OrderArenaProofs` proves, for every value of the constants that satisfies
`ArenaAssumption` (limits are naturals, there is at least one slot number, and
the empty slot is not an order):

| theorem | statement |
|---|---|
| `ArenaInvariant` | `Spec => []IInv` |
| `ArenaTypeOK`, `ArenaOccupiedIsIssued` | types; every order is reachable through an issued handle |
| `ArenaFreeListExact` | the free list is exactly the usable empty slots, each once |
| `ArenaLiveCountsOccupied` | `live` counts the occupied slots |
| `ArenaNoAlias` | a stale handle never resolves again, and one that resolves keeps its order |

The inductive invariant is

    IInv == TypeOK /\ FreeListSound /\ NoSlotLost /\ OccupiedIsIssued /\ IssuedBehind

`NoAlias` is about a step, so it needs to know where a handle can stand *before*
the step. `IssuedBehind` says it: behind its slot's generation; at it, with the
order in place; or at the last generation of an empty slot that the free list
does not have. The third case is what retirement leaves behind, and the reason
that the last generation must never be recycled after it has been used. Keeping
it needs `FreeListSound` (a retired slot does not come back through a duplicate
entry), and `ClearLive` keeps it because the rebuilt free list leaves out every
slot at the last generation. There is one lemma for each action
(`RecycledIInv`, `FreshIInv`, `RemoveIInv`, `ClearIInv`) and one for what
`Emptied` does to a slot.

`LiveCountsOccupied` is proved relative to `IInv`: `OccupiedFinite` and
`OneMoreCounts` give the cardinalities, `NextLiveCounts` the step. While slots
can be numbered the count is exact; after an overflow it is an upper bound only,
which the invariant states.

`StudyCheckpointProofs` proves, for any set of processes, any sampler and pruner and
any bounds (`SessionAssumption`, `CheckpointAssumption`):

| theorem | statement |
|---|---|
| `AckedWorkSurvivesTheorem` | whatever the name may hold continues every acknowledged save |
| `TypeCorrect` | types of the processes, their sessions and pending saves, the lock and the bounds |
| `ReplayIsExact` | a session that is not poisoned is what its journal replays to, and what the name may hold loads |
| `OneWriterTheorem` | one process at most is between lock and release |
| `ImplementsAtomicCheckpoint` | `Spec` implements `AtomicCheckpoint` |

`AckedWorkSurvives` is not inductive: a writer that has passed the guard is about to
replace the file, so the invariant must say what it knows. `IInv` adds that a process
past the guard writes a continuation of the file as it is now (nobody else can have
changed it: mutual exclusion by the lock), that a process past its temporary file has it
synced, and that every session continues the checkpoint its process would name as
previous. Sessions enter through one lemma each (`RecordContinues`, ...): every
operation leaves the journal a continuation of what it was. The step simulation is by
cases over `Next`; all steps but `Replace`, `Return` and `PowerLoss` stutter.

`ReplayExact` has an invariant of its own, `ReplayInv`: every session is `Good`, that is
well formed (`Formed`) and, unless poisoned, equal to the replay of its journal (`Exact`), and
every checkpoint a process means to write or the name may hold describes a good session
(`Sound`). What a process may load is then good again, which a journal alone could not say.
The replay of a journal with one entry more is the replay of the journal with that entry applied
(`AfterAppend`), so each operation needs one fact only: applying the entry it records to the session it
started from gives the session it leaves. That is where the sampler and the pruner have to be
functions of the trials, and where a poisoned session is excused.

`ReactiveRuntimeProofs` proves, for any number of calls and keys, with and without a
deadline (`WorkerAssumption`, `KeyAssumption`):

| theorem | statement |
|---|---|
| `TypeCorrect` | types, and that ids and generations suffice |
| `RowOfItsOwnRequestTheorem`, `FailedChildRunsNothingTheorem`, `NoStrayChildTheorem`, `AtMostOneLateRowTheorem` | the four safety properties of the run |

The inductive invariant is

    IInv == WorkerInv /\ RuntimeType /\ Driven /\ LateEnds

`Counted` (part of `WorkerInv`) ties request ids and generations to the outcomes of calls,
which bounds both. `Owned` says that the parent owns its newest child or none, that no
later one exists, and that any other is dead or on its way out; `Driven` when the runtime
leaves its worker at rest; `LateEnds` that a late row is delivered only on the way out
of the loop. The many steps of a call come in three shapes (`CallShape`): they end it
and give the child up, end it and keep the child, or go on. Each shape keeps the
invariant (`EndsDiscardingKeeps`, `EndsKeepingKeeps`, `GoesOnKeeps`), and so does each
step of a child (`ChildMoveKeeps`).

`PreparedRuntimeProofs` proves, for any number of threads, calls, pool workers and
candidates (`RuntimeAssumption`: finitely many workers, at least one, and finitely many
candidates):

| theorem | statement |
|---|---|
| `TypeCorrect` | types, and no more rows than candidates |
| `StaleNeverRunsTheorem`, `OneRowPerBindingTheorem`, `PoolCleanForBatchTheorem`, `ClosedIsQuietTheorem` | the four safety properties of the run |

The inductive invariant is

    IInv == CallerTypes /\ PoolTypes /\ BatchFinite /\ Core
    Core == OneActive /\ Batched /\ RowsIn /\ Pool /\ Closing

`OneActive`: at most one call is between `ExecuteScore` and `Return`, and then the
runtime's active flag is set. It is what `StaleNeverRuns` rests on, because the native
reset asks for that flag alone. `Batched` is the conservation of a batch: while it is
collected, each binding is in at most one of the channel, a worker, the response channel and
the received rows. With as many received rows as bindings none can be left in the pool
(`AllRowsIn`, a counting argument through `RowsOfBatch`), which is why neither the
recovery nor the next batch finds an old task. `RowsIn` extends `OneRowPerBinding` over the
recovery. `Pool` relates the sender, the poison flag and panicked workers; `Closing` says
how far a close has come, and counts one shutdown message for each worker that is left to join,
so that the last join leaves the channel empty. Callers outside the native runtime share one
lemma (`OutsideStep`), and workers that answer another (`RespondsStep`).

`OrderLifecycleProofs` proves, for every set of commands (the fields of an order to place or to
replace have their types), any capacities, number of bars and limits of the arena and the
sequence (`LifecycleAssumption`):

| theorem | statement |
|---|---|
| `IndexesAgreeTheorem`, `AliasesAgreeTheorem` | the indexes and the aliases are those of the live orders |
| `NewestOrderAnswersTheorem`, `OcoSiblingsExclusiveTheorem`, `ChildFillsAfterParentTheorem`, `ExpiredBeforeMatchingTheorem` | the invariants of the same names |
| `QuantitiesAccountedTheorem` | over all fills and amendments, what an order has traded and what is left of it are what it was asked to trade |
| `ReduceOnlyReducesTheorem` | the action property |
| `TypeCorrect` | types; quantities and used liquidity do not fall below zero, and the cursor stays with the candidates |
| `EveryActiveOrderMatchedTheorem` | while a bar is matched, each active order is a candidate exactly once |

The inductive invariant is

    IInv == Typed /\ LiveInv(book, placed, filled, next_order_sequence) /\ ExpiredBeforeMatching
    LiveInv == BookInv /\ HistoryHolds /\ NamesHold /\ ChildrenHold /\ SiblingsHold

The histories only hold what has already happened, so each conjunct says what a live order
must still be worth: a live sibling of an order that filled was placed after that fill
(`SiblingsHold`), an active child has a parent that filled since (`ChildrenHold`), and no newer order
was ever given an id that is bound (`NamesHold`; without it a replacement could pass on an id
its target had lost). The indexes are what these rest on: `SiblingFound` and `DueFound` say that a
lookup misses no live order, and hold because `BookInv` has each index equal to its rebuild.
All operators on the book are pure, so the proof is in three layers: each operator keeps
`BookInv` (`ReleasedInv`, `InsertedInv`, `ActivatedInv`, `QuantityInv`); everything but an insertion
leaves a book that only lost orders (`Shrunk`), and a book that did keeps `LiveInv`
(`ShrunkKeeps`, `InsertedKeeps`, `FilledKeeps`); and one case for each action (`NextInv`).

`QuantitiesAccounted` is proved from an invariant beside the first, `Accounted`, which adds that a live
fill-or-kill order has traded nothing yet: its first fill releases it, so that a second one cannot add a part
to it. Releases and wake-ups keep quantities (`ReleasedKept`, `ActivatedKept`); what a fill takes off an order is at most what
is left of it, whatever the liquidity, the position and the amendments before it (`FillAccounts`).

The last two theorems rest on another invariant, proved beside the first:

    BarInv == OrdersHold(book) /\ Scratch /\ (phase = "matching" => Candidates)

`Candidates` adds to `EveryActiveOrderMatched` what makes it inductive: a candidate that is still
live is active. Without it a child that a fill wakes might be a candidate already and come twice;
with it, a woken child was waiting, so it is not among them. The children a fill appends have
all waited, so that those that never did stay in the order of their sequences. That the candidates are
sorted is a fact about ranks (`AscendingIs`, from `Ranked` and `RankOrder` of `DataLemmas`).

`PackageExecutionProofs` proves, for any finite set of symbols, any market, rates, capital and tolerance and packages of any length
(`PackageAssumption`: a package has at least one leg, steps are positive; `MarketAssumption`: prices
are not negative, as `validate_request` checks of the closes it is given):

| theorem | statement |
|---|---|
| `TypeCorrect` | types, and that the session stays within the commands of its plan |
| `PreviewCommits` | a planned package meets no liquidation, the account follows the plan order by order to its end, and the first order that is rejected, if one is, was short by the tolerance at most |
| `HedgeBounded` | no hedge before its primary, or beyond its ratio of what its source has filled |
| `AtomicIsAllOrNothing` | an atomic package is in the account with every leg, or with none, unless an order passed by the tolerance was refused |
| `OutstandingCoversAll` | the reported exposure covers every position the package moved, with the same exception |

The inductive invariant is

    IInv == TypeOK /\ Shape /\ Foretold /\ Hedged

`Foretold` is the argument: the planner writes down the account it expects after every command
(`path`), each command leads the session's own `Fill` from one of them to the next and is tolerable there (`OnPath`,
`Foreseen`), and
the path begins where the step will open (`Ahead`). The heart is `AttemptFills`, which shows that
what `attempt_leg` accepts is what the matching loop fills, with the same account after it, or rejects within the tolerance, though
one works on signed quantities and the other on a side and a size; `ProjectedAccount` says the same
of the marking, and is why no plan meets a liquidation. Both planner passes and the
unwinding then extend the path by one lemma, `PathExtends`, and the session walks it
until it rejects an order (`MatchOrderKeeps`). The converse of the exception, that a rejected order does break the promise, is what
`package_tolerance` shows.

The last two theorems need `Booked` as well: the planner's units of a symbol differ from the account's
by what the legs on that symbol have filled, net of the unwinding (`Balanced`); under the atomic policy each leg
has filled all it requested and nothing is left over (`Exact`). `PreviewCommits` carries this over to the account
after the step. `OutstandingCoversAll` adds the triangle inequality: the residual
legs are summed gross, the positions net by symbol, and the sum over symbols of a net cannot exceed
the sum over legs. Both sums are folds, and the induction over them is that of `DataLemmas`
(`TotalUpdate`, `TotalMonotone`).

`FeedbackSessionProofs` proves, for any number of bars, funding bars, command batches, orders and any
width of the versions, one included (`FeedbackAssumption`: a batch is a sequence of sides; the two
tokens for "no transaction" and "no attempt" are not values of the kind they stand in for):

| theorem | statement |
|---|---|
| `TypeCorrect` | types; an open bar is the next of its checkpoint, the session at most one bar ahead |
| `NoTrace` | while the open bar has no completed step, the session is what it was at `begin` |
| `MarginIsCurrent`, `SnapshotIsCurrent` | a cached value that would be accepted is what would be recomputed |
| `SessionImplementsAtomicBars` | `Spec` implements `AtomicBars` |

The inductive invariant is

    IInv == Rest(session) /\ Rest(begun) /\ closed \in BOOLEAN
              /\ (transaction = NoTransaction \/ Opened)

`Rest` is what a session between two calls satisfies: its types, one list of effects for each
bar, live orders numbered below the sequence, caches that are current. `Opened` says that the
checkpoint of an open bar is the session at `begin`, which `begun` remembers, and that the session is
either that one again or one that *one* complete step leads to from it (`Stepped`); so a retry starts from
the same state as the first attempt, and the caches, which are part of it, are rewound with it. `StepResult` says where a
call of `step_with_buffers` can end: in a session that is complete and at rest, or in one that `Restored`
takes back to the checkpoint. Inside a call the session is in neither state; `Mid` follows it from
the clock to the snapshot, and the fills by induction over their number (`AllFilledGoes`). The
cached margin is current after each of them, and there is no snapshot to be stale: the clock of every bar drops
it, so that the one taken at the end of a bar meets the versions of that bar only, and a wrap is harmless.
`Stepped` also says what the refinement asks of an attempt, one complete bar (`CompleteBar`) behind the effects
of the checkpoint; `NextImplements` then maps each action to the abstract one of its name, `Reset` and `Close` both
to `Reset`.

`DataLemmas` holds what these proofs need of data. The induction theorems of the library take the
hypothesis as an operator, which the provers cannot instantiate; here it is the *set* of the numbers, or subsets, it
holds for (`Induct`, `SubsetInduct`), and each lemma is first-order. From these follow: that a recursion over the subsets
of a finite set, which every fold of the community modules is, has the function it asks for (`Recursion`); sums over functions
(`TotalUpdate`, `TotalMonotone`, `TotalZero`); ranks in a finite set (`Ranked`, `RankOf`,
`RankOrder`); and folds over sequences, one entry more at a time (`AfterOne`, `AfterAppend`), for an
operation that a module supplies for the constant `Op` of `DataLemmas`.

Every invariant, action property and refinement of the passing runs is stated by one of these theorems.
Only model-checked are the four liveness properties, `EveryCallReturns`, `CallEnds`, `ChildrenGone` and
`SavesEnd`: fairness and ENABLED are beyond the prover.

## 5. Not modelled, and why

Prices, order types, triggers, slippage, fees and margin amounts: float
arithmetic that the control above is independent of. Several symbols: the
indexes by symbol and the interleaving of candidates of two symbols in one bar.
Output buffers, profiles and static tapes of the session: they record what the
actions did. Budgets, metrics and diagnostics of the runtime. Of the reactive
runtime: the selection of candidates, the witness variant of a worker's answer, the
batch scheduler (`reactive_wfo_batch.py`) and the meta-selection boundary, preflight budgets,
and `close` from another thread while a backtest runs. A parent that dies ends the
model; its child, which holds an end of its own request pipe, then stays. Of the
continuation: size limits, encoding, checks of configuration, binding and runtime identity,
result constraints, a session without early stopping or with direction `minimize`, warm
starts (part of `Suggest`), and the temporary files a crash leaves behind.

The Python event oracle (`core/event.py`) is not modelled. Where it is known to differ from
the native session: it spares OCO siblings that wait for a parent and compares command
slots instead of ids; REPLACE activates the new order even in place of a waiting child;
earlier ids of a chain of replacements are lost; good-till-date orders expire only while
active; a child placed before its parent is not matched in the parent's bar; there is no
liquidity and no partial fill.

The package planner of version 1 (`quantbt-package/src/lib.rs`), the retention of its audit rows and
the target commands beside packages. Floats: the theorems are about exact arithmetic with a
tolerance of any size, and say nothing of two copies that round differently.

Outside a transaction a step that fails and is repeated marks and funds its bar twice. `OrderLifecycle`
follows such a repetition in the book and in the indexes, and keeps no money; the code promises nothing of
it there. Inside a transaction the repetition is what `AtomicBars` is about. A raise while `write_checkpoint`
opens or takes its lock file is not modelled: nothing has been written then, and no lock is held.

Everything marked `not_modelled` in `PROJECT.json`. Hazards known and not covered by any property
are listed there with a note.

## 6. Plan

In order of importance; each line is a module or a group of theorems.

1. `OrderArena`, its run and its proofs. *Done.*
2. `OrderLifecycle` and its runs. *Done for one symbol.*
3. `FeedbackSession` refining `AtomicBars`. *Done.*
4. `PreparedRuntime` with liveness. *Done.*
5. `ScoreWorker` and `ReactiveRuntime`, with liveness and proofs. *Done.*
6. `StudySession` and `StudyCheckpoint` refining `AtomicCheckpoint`, with proofs. *Done.*
7. `PreparedRuntimeProofs`: every invariant of the prepared runtime. *Done.*
8. `OrderLifecycleProofs`: indexes, aliases, OCO groups, children, expiry, quantities and
   reduce-only for every command set. *Done.*
9. `PackageExecution` version 2, with `PreviewCommits` proved. *Done.*
10. `FeedbackSessionProofs`: every invariant and the refinement onto `AtomicBars`; `DataLemmas`;
    what was left of the lifecycle, the package planner and the continuation. *Done.*
11. `PreparedObjectCache`: pins by key against forced clears, and the cache
    generation that bindings carry.
12. The batch scheduler of the reactive runtime.
13. Target and intrabar execution.
14. The Python event oracle beside the native session, and where OCO and parents
    agree between the two.
