# Formal models of bagelquant-bt

`bagelquant-bt` evaluates saved factor values, portfolio weights and transaction
plans, and keeps the results in a store of its own. This directory holds TLA+
models of the parts of it that have state, order and failure: the artifact
store and its shared receipts, the local execution runtime, the signed-share
execution engine with its weight bridge, and the incremental computations (Alpha
evaluation, risk fits, risk profiles, composed tables, dispatched horizons) whose
one promise is that a continuation equals the computation of the whole. TLC
checks them on small instances, and TLAPS proves the main properties of the store,
the runtime, the execution engine, the shared receipts, the composed tables, the horizon
batches and the incremental computations for every value of their constants.

```
tlc -workers 2 -config store_cleanup.cfg MCBTStore     # a run
tlapm BTStore_proofs.tla                               # a proof module
```

## 1. Inventory

Paths are relative to `src/src/bagelquant_bt/`.

| Component | State | Operations | Hard behaviour | What makes it correct |
|---|---|---|---|---|
| Artifact store, `store.py` | Parquet files named by content digest; SQLite tables `bt_evaluations`, `bt_chapters`, `bt_shared`, `bt_table_index`, `bt_cleanup_receipts` | `begin`, `publish_chapter`, `publish_shared`, `publish_continuation`, `invalidate`, `cleanup_plan`/`cleanup`, `recover`, `build_index`, reads | several processes; files change outside transactions; crash between unlink and commit; stale lookups and plans | a receipt never names a missing file; a receipt is what reads accept; cleanup deletes exactly its reviewed plan |
| Release, `release.py` | journal `bt_release_plans` | `plan_release`, `apply_release` (two transactions and a completion) | registry changes after the preview; retry after a crash; republication in between | only what was previewed is retired; shared files survive; a pending release completes |
| Runtime, `runtime.py` | futures, bounded window of pending items | `run_evaluation_batch` | threads, cancellation, first failure | bounded admission, ordered complete results, nothing runs after the call |
| Execution engine, `execution_evaluation.py` | two accounts, FIFO lots, pending rows, totals | `_run` per session; checkpoint and resume; planning from weights | partial fills and retries, settlement, dividends, resumed calls with new calendars | books reconcile; residual shares are kept; append equals replay |
| Account, `account.py` | cash, positions, available and unsettled shares, marks, entitlements, receivables | `_apply_fill`, `_apply_corporate_actions`, `_release_settled_shares`, `_record_entitlements`, `complete_checkpoint_entitlements` | actions learnt after their record date | no overdraft, no sale before settlement |
| Allocation, `allocation.py` | none | whole-lot allocation: exact search, a solver for many assets | ties, budget | within budget, deterministic |
| Inputs of a continuation, `execution_inputs.py` | proofs of consumed prefixes | binding, comparison | stale proofs, repaired history | only an unchanged prefix is continued |
| Shared primitives, `store.py`, `input_maintenance.py` | `bt_shared`, bindings to original receipts | `publish_shared`, admission under new inputs, verification | compare-and-set by wall clock, release of an owner while a binding is written | readers are never refused; a primitive never changes under an input identity |
| Composition, `table_composition.py`, `store.py` | immutable descriptors of selected leaves | compose, continue, read | selections of selections, parts that became empty | a composition reads as the rows that were published; only tails are written |
| Index blocks, `index_blocks.py` | metadata blocks | `build_index`, collection | collection of blocks in use | they repeat the tables |
| Incremental risk fits, `risk_update.py`, `risk.py` | published fits, boundary, price carry | plan, batch, repair | a stop between batches, gaps, revised prices | equal to one fit over everything |
| Incremental risk profiles, `risk_profile_update.py`, `risk.py` | rows and state: origin, pending day, catalogue, proof | admit, append, repair | halos, repairs from older states | equal to one computation over everything |
| Finite horizon work, `finite_horizon.py` | staged temporary files | dispatch, validate | foreign processes, results in any order, stale files | dispatched equals inline |
| Alpha evaluation, `evaluation.py`, `horizon.py`, `portfolio_mechanics.py` | a saved result and its state | plan, bounded read, continue, repair | halos of several components, labels that mature late | a continued result equals the full one |
| Statistics, kernels, returns | none | dataframe arithmetic | floating point | numerical |

Interactions: the evaluation functions are pure and hand tables to the store;
the store calls the runtime to save and read tables in parallel; the execution
engine calls the account's primitives on both of its ledgers and keeps its own
FIFO books beside them; its checkpoint is published with `publish_continuation`
and comes back through `read_reference`. The host application keeps the results of the incremental
computations, asks their planners what to read, and hands back what it saved. Processes of the store share nothing but
the artifact directory and the SQLite file: they are coordinated by SQLite's
single writer lock (`BEGIN IMMEDIATE`, busy timeout of 30 s) and by
`os.link`, which refuses to replace a file.

`PROJECT.json` lists every component with its status and every hazard with its
line and the properties that cover it.

## 2. Modules

| Module | Models | Proofs |
|---|---|---|
| `ReceiptAuthority` | what the store promises: a chapter is committed once and complete, its tables stay stored until it is retired, only unreferenced tables are discarded | |
| `BTStore` | `store.py` and `release.py`: publication, cleanup and release step by step | `BTStore_proofs` |
| `EvaluationBatch` | `runtime.py` | `Publication_proofs` |
| `StockDividend` | `_corporate_allocations`: how a stock dividend is divided, in binary floating point | |
| `SignedPlans` | what the engine promises of a plan: the reference leg once, the actual leg in parts that never exceed it | |
| `ExecutionAccount` | `_run` of `execution_evaluation.py` with the primitives of `account.py` | `ExecutionAccount_proofs`, `ExecutionBooks_proofs` |
| `SharedReceipts` | `publish_shared`, the admission of retained primitives and the release of their owner | `Publication_proofs` |
| `TableComposition` | composed tables: continuation, selection, reading | `Publication_proofs` |
| `WeightBridge` | `run_execution_from_weights` with its checkpoints, `complete_checkpoint_entitlements` and the lot allocation | `WeightBridge_proofs` |
| `AlphaContinuation` | the plan, the bounded read and the continuation of an Alpha evaluation | `Alpha_proofs` |
| `RiskFactors` | incremental risk fits | `Risk_proofs` |
| `RiskProfile` | incremental risk profiles | `Risk_proofs` |
| `HorizonBatch` | one batch of windows, inline or dispatched to the caller's processes | `Alpha_proofs` |
| `FiniteLemmas` | no code: least and greatest members, sums over finite sets, powers of two, the n-th member of a set of numbers, sequences put together | all of it |
| `MCBTStore`, `MCExecutionAccount`, `MCAlpha` | definitions for the model checker: symmetry, plans, actions, windows | |
| `MCResearch` | the seven models of section 3's `research` run side by side, one active per behaviour | |

### BTStore

State: `file` is the artifact directory (the encoding of the file of each table
and who wrote it, which stands for inode, size and times), `index`, `evals` and
`chapters` are the SQLite tables, `writer` is the holder of the writer lock and
`pc` and the other functions are the locals of each process. A step that only reads, or
a transaction that touches no file, is one action; a transaction that tests or
unlinks files is split, because another process may link a file (no lock is
needed for that) or this one may stop in the middle of it.

`publish_chapter` is `StartPublication` (select), then for each table `Resolve`
(registered lookup), `Recheck`, `Link`/`LinkExists`, `Hash` and `Register`, then
`Fence` (the transaction opens and the files are tested) and `Insert`. `cleanup`
is `AdmitCleanup`, `OpenCandidate` (receipts and file rechecked under the
lock), `UnlinkCandidate`, `JournalCandidate` for each candidate. `apply_release` is
`Retire` or `ResumeRelease`, `OpenRelease`, `ReleaseFile`/`RefuseFile` for each
file, `CommitRelease` and `CompleteRelease`. `Interrupt` is a crash, a
cancellation or a lock timeout at any place: SQLite rolls back, the files stay.

Abstractions: one section per evaluation; a table is a model value (its digest);
an encoding stands for the bytes of a Parquet file, of which equal rows may have
several. `publish_chapter` with frames is modelled, with `file_references` it is
not. The settings of an evaluation and the text of a receipt are left out.

### EvaluationBatch

The caller's thread is a program counter over the polling loop of
`run_evaluation_batch`; the pool's threads start and finish items between any two
of its steps. An item is its index, a future its status. Cancellation may come at
any moment. With one worker the serial branch of the code is taken.

### StockDividend and ExecutionAccount

`ExecutionAccount` keeps one record per ledger with everything `_run` keeps for
it: the account of `account.py` and the FIFO lots, totals and entitlement lots of
`execution_evaluation.py`. A session is `OpenSession` (allocate, settle, pay, list, mark),
one `ExecuteOrder` per due plan in the code's order (sells first, then asset, then
plan), and `CloseSession` (mark, record, drop empty lots). The call ends at its
cutoff; `Resume` starts the next one from the checkpoint with a calendar that the
caller supplies anew and with newly supplied plans.
`Reject` is an `InputValidationError`: an infeasible reference leg, or a purchase
whose settlement session is not in the calendar.

Money is in integers. Slippage is an amount per share, the fee is the larger of a
minimum and a share of the notional, and the part of a lot's entry fee that a
sale takes is rounded down with the rest left on the lot, so that the books must
balance to the unit. The code's tolerances (1e-8 of cash, 1e-7 of P&L) are zero
here. The `reference_price` column of the price table, a fallback between the
plan's own reference and the open, is left out: a plan with a reference of its own
takes the same path.

Shares of a stock dividend are floats in the code and stay floats in the model:
`StockDividend` rounds every product to `Precision` bits, to nearest, ties to even.

### SharedReceipts

`shared` is the table `bt_shared`, a receipt is its own identity, and the
clock is a variable. A writer reads the latest receipt (`ReadShared`), saves new
primitives and keeps the earlier ones (`SavePrimitives`), or admits the
original of another input under new inputs (`AdmitOriginal`, `RetainOriginal`,
`ExpectOriginal`), and ends with the transaction of `publish_shared` (`CloseShared`):
expected receipt, files, bindings, kept primitives, insert. `AbandonShared` is
a writer that stops. An admitted receipt is verified when its chain of bindings ends in a
registered original; the verified ones are the smallest set of rows that contains what its
members verify (`Authorities`), as the recursion of the code's verification has it. A release of the owner (`PreviewOwner`, `RetireOwner`,
`UnlinkOwner`) runs in between. Saving one table is one step; `BTStore` has its
steps.

### TableComposition

Rows carry a group, a day and a revision; a leaf is the sequence of its rows, a
part a leaf with a filter. `ContinueComplete` publishes a complete frame (kept
group by group, or kept as one ordered prefix when the groups interleave),
`ContinueDelta` an explicit retained range and a tail. The files behind a leaf, column
chunks and digests are left out.

### WeightBridge

`whole` is one uninterrupted run that knows every action and every corrected quote
from the start; `call` runs the same sessions in pieces (`StartCall`,
`RunSession`, `EndCall`, `AbandonCall`), from any earlier checkpoint, while
corporate actions become known late (`Announce`) and a quote is corrected once
(`CorrectMarket`). A session distributes, marks, executes the frozen plans with
their retries, and, when it is a decision session, sizes the targets from the
actual account. Of the inputs it reads `DayInputs` only, and a checkpoint is bound to those of
the sessions up to it (`Binding`). What an account is entitled to is kept beside its books, because it is the
one thing that a run told of fewer actions may lack. Shares settle at once, the fee is flat, lots are left to
`ExecutionAccount`.

`SplitEqualsWhole` takes an action that was never registered for one that entitles to
nothing, as a session does (`Entitled`). They differ for an action whose record date lies before
the first session: a call that is told of it later completes it to zero, one that knew it from the start never
registers it. `AdmitsActions` tells the two apart: the checkpoint of the latter call keeps the action
while a payment lies ahead, and every continuation from it is then refused as a "new historical
corporate effect" (execution_evaluation.py:1004-1014), although nothing about it is new. The
property is about the results of calls and says nothing of those that are refused.

The plans that are already frozen are not part of the
account a later decision is sized from (execution_evaluation.py:1571-1601), so with a lag of two
sessions or with retries a target may be bought twice and sold again. That is
documented behaviour ("pending plans ... continue from checkpoint") and the model
has it; no property says that targets are met.

### AlphaContinuation, RiskFactors, RiskProfile, HorizonBatch

These models replace numbers by provenance: an input is its revision, a row
is the set of revisions it was computed from. Two computations
agree when their rows do, whatever the arithmetic. In each of them the world
revises inputs and moves on, the host updates through the planner, and the property
compares what was saved with the operator that computes everything at once.

* `AlphaContinuation`: `Update` plans (`UpdatePlan`), reads from `AlphaInputStart`
  on, and evaluates with the saved result (`EvaluateAlpha`). Statuses are the actions
  `Initialize`, `ContinueAlpha`, `RepairAlpha`; `preceding` are the older results
  a repair may start from. One label may be late by `Delays`.
* `RiskFactors`: `PlanFactors` cuts the due decisions into batches, `FitBatch`
  publishes one, `StopFitting` abandons the rest. The market is one asset
  whose exposures and prices may be missing or corrected. `FirstAvailable` is the first date
  that may have a fit at all; a batch without a fit reads its own sessions only
  (`PriceStart`), and a batch after the first continues from the saved price (`UsesCarry`).
  The world reports the earliest session it revised (`affected`), and the report is
  withdrawn once a batch starts at or before it (`Repairs`).
* `RiskProfile`: `InitializeProfile`, `AppendProfile`, `RepairProfile`, each with
  the interval, halo and state of the code.
* `HorizonBatch`: `ComputeInline`, or `StageBatch`, any number of `ComputeUnit` by the
  caller's processes, `DispatchReturns` with any results in any order, `ReadResult` with its checks,
  and `FinishBatch` or `RaiseBatch`, both of which remove the directory.

## 3. Runs

| Run | Question | Outcome |
|---|---|---|
| `store_cleanup` | does cleanup delete exactly its plan while two publishers write and a process is interrupted? | holds |
| `store_release` | do receipts survive releases of what they share, and is only the preview retired? | holds |
| `store_live` | does the store with all three kinds of processes implement `ReceiptAuthority`, and does everything end? | holds |
| `store_corrupt_hit` | can released content always be published again? | violated |
| `store_reference` | is a receipt's reference the registered one? | violated |
| `store_retired` | has every chapter its evaluation? | violated |
| `batch` | bounded admission, results, quiet return, stop, termination | holds |
| `execution` | do the books agree and are plans accounted for? | holds |
| `execution_rounding` | also with a ratio that a float only approximates? | violated |
| `execution_calendar` | also when the future calendar is revised before a resume? | violated |
| `research` | do continuations equal the computation of the whole, and do the receipts and compositions that hold them stay readable? | holds |
| `alpha_rolling` | is a continued rolling IC that of a full evaluation? | violated |

The bounds and why they are enough:

* The store's hazards need two tables (one shared, one not), two evaluations or
  two publishers, one cleaner or releaser, two encodings and one interruption.
  `store_cleanup` has two publishers, two encodings and a cleaner;
  `store_release` two evaluations on two tables in two encodings and three publications, enough to publish,
  release, share and publish again. `MaxPublications` and `MaxInterrupts` bound
  the behaviours' length; the proofs below have no such limit (their constants are
  arbitrary naturals). `store_live` is small because
  symmetry is unsound for liveness; it keeps one process of each kind and one
  encoding. The last is a real restriction: when a publisher of the same rows in
  other bytes stops between linking its file and registering it, a pending release
  refuses that file at every retry ("BT release file differs from registered authority")
  until somebody plans a cleanup, and nothing obliges anybody to.
* `batch`: five items and up to three workers fill the window, refill it and leave
  a rest.
* `execution`: four sessions and settlement in two make a plan sold before its
  shares settle, retried and filled in parts; capital 9 with prices 2 and 3 and a
  minimum fee of 2 makes the cash short; the action is recorded, ex, paid
  and listed on sessions 1 to 3; cutoffs and calendars of every length exercise
  each pair of calls. One asset suffices for the
  order of sells and buys; several assets only add rows.

* `research` is one run over seven models that share no state in the code. The
  variable `part` says which of them a behaviour is about, the others rest in a fixed
  state: the state space is the sum of the seven, about 570 000 states,
  and each invariant holds trivially at rest. Writers, contents and input
  identities are interchangeable (`MCSymmetry`; the run has no liveness property).
  * Alpha: five sessions hold a window of three with a late start, lags of both signs,
    one revision of a value or a label, a label that is up to four sessions late, and a
    cutoff ahead of the calendar. One older result is offered to repairs.
  * Risk fits: six sessions give four decisions in batches of two, so that a plan
    can stop between two batches, with one correction.
  * Risk profiles: windows of two in six sessions, so that regression and volatility halos
    lie partly in saved rows; an industry that appears late; one revision.
  * Shared receipts: two writers, two inputs, three receipts: an
    original, its admission under the other input, and a concurrent publication, with a
    release at any point.
  * Composition: two groups, three days and two updates: a selection of
    a selection needs two.
  * Weight bridge: five sessions, two assets, two target plans, two markets, lags of one and
    two, blocked assets, two dividends announced late, one of which was recorded before the first
    session, one corrected quote, three calls.
  * Horizons: two windows of different maturity, three sessions, three computations.

Deadlock checking is off in `store_corrupt_hit` and `store_retired`, which have
neither a cleaner nor many publications, and in `research` and `alpha_rolling`, whose calendars
end: when a bound is spent nothing is left to do. `batch` and `execution` let a call that has returned stutter
explicitly, so that any other stop is an error.

### What the violated runs show

* **`store_corrupt_hit`.** `_save_table` hashes a file and registers it later, in a
  transaction that does not test the file again. A deletion of the still
  unregistered file in between leaves a registration without bytes. Every later
  publication of the same content finds it and raises "Registered BT artifact is missing; explicit
  recovery is required", against the promise that republication "never treats
  deliberately released bytes as a corrupt hit". No operation removes the row:
  cleanup lists files and a release lists the tables of receipts.
* **`store_reference`.** Registration is `INSERT OR IGNORE`, but the publisher
  returns its own reference. When the first orphan was cleaned up and another
  publisher wrote the same rows in other bytes, the receipt disagrees
  with the registered reference and reads refuse it. It takes two Parquet encodings of
  one table, e.g. two versions of the writer or two layouts of one frame.
* **`store_retired`.** The evaluation is looked up before the tables are saved and not again
  when the receipt is inserted.
* **`execution_rounding`.** `int(sum * ratio)` may be one less than the sum of the
  plans' floors; the remainder is -1 and `ordered[:-1]` gives a share to every plan
  but one. With Python's 53 bits: ratio 0.7, plans holding 100 and 600 shares
  (floors 70 and 420, total 489). The run shows it with 5 bits, ratio 8/5, and 3 and
  6 shares: 14 are posted and 16 awarded, and the reconciliation assertion fires.
* **`execution_calendar`.** A retry is dated by the calendar of the call that made
  it. If the resumed call's calendar lacks that session the row is dropped
  silently.

* **`alpha_rolling`.** Horizons are revisited until their label matures, rolling rows are not:
  `rolling_window_information_coefficients` computes only sessions after the last saved
  one. When session 1's label becomes available at 6 and session 2's at 3, the row of session 2 is
  saved before that of session 1 can exist; the latter is never published, and saved rows
  whose window should contain it are means over other sessions. The full evaluation has
  both right. This is why `ContinuationMatchesFull` compares every table but the rolling one.

Two variations of `research` fail and are kept out of its bounds:

* `ClockSteps` with zero or a negative step breaks `SucceedsExpected`: the newest receipt
  is the one with the largest `created_at`, and a publisher whose clock does not advance inserts
  a receipt that the next reader does not get (store.py:2460-2475).
* `PathStarts = {2}` breaks `ProfileMatchesFull`: an older state without any output has no
  origin, so a repair that starts from it expects no saved specific returns
  (risk.py:520-541) and computes volatilities from fewer values than a full computation has.

`execution_rounding` and `execution_calendar` are why `execution` fixes an exact ratio (one for two) and
`CalendarRevisions = FALSE`.

## 4. Fairness

* `store_live` assumes strong fairness of each process's steps. A process that wants the
  writer lock waits in SQLite's busy handler for up to 30 s (`store.py:423-438`)
  while other writers hold it for single short transactions, so it gets it when it
  is free again and again. It also says that the caller of a journaled cleanup
  or release retries it, which is how those operations are meant to be
  used ("Retried pending plans resume"). Nothing is assumed of starting a publication, planning, or
  interruption.
* `batch` assumes weak fairness of the caller's thread and of each item's thread:
  the operating system schedules threads, and a kernel that was started ends.
* The models of `research` have no fairness and no liveness property: a host may stop updating
  at any time, and what matters is what it has saved by then.
* `ExecutionAccount` is sequential and has no liveness property; `SessionsEnd` is an
  action property (every order leaves the session's list for good).

## 5. Proofs

Every theorem holds for arbitrary constants that satisfy the named `ASSUME` of its module,
and the runs evaluate those on their instances. Some theorems need more, and say so in their statement.
None of these hypotheses is promised by the code, and without it the property is false:

| Theorem | Hypothesis | Fails without it |
|---|---|---|
| `ResidualsKept` | `CalendarRevisions = FALSE` | `execution_calendar` |
| `PublicationsSucceedExpected` | `ClockSteps \subseteq Nat \ {0}` | variation of `research` |
| `InventoryAlwaysMatches`, `AwardsAlwaysMatch`, `EquityAlwaysReconciles` | `[]RemaindersFit`, of which `ShortDividendsReconcile` and `CashDividendsReconcile` name the inputs that have it | `execution_rounding` |
| `ProfilesMatchFull` | `[]OriginsKnown`, which `ProfilesFromTheStart` shows of a path that begins with the calendar | variation of `research` |

`FactorInv`, `AlphaInv`, `BridgeInv`, `CompositionInv` and `RowsInv`, like the invariants before them, were checked by TLC on small instances before they were proved.

| Property a run checks | Theorem |
|---|---|
| `BTStore`: `TypeOK`, `IInv`, `NoDanglingReceipt`, `ImplementsAuthority` | `TypeCorrect`, `InductiveInvariant`, `ReceiptsNeverDangle`, `StoreImplementsAuthority` |
| `BTStore`: `CompletedCandidatesGone`, `CleanupDeletesExactlyItsPlan`, `ChaptersRetiredOnlyByPlan` | `DeletedStaysDeleted`, `CleanupRemovesItsPlan`, `ReceiptsRetiredByPlan` |
| `EvaluationBatch`: `TypeOK`, `IInv`, `AdmissionBounded`, `ReturnsQuiet`, `ResultsComplete`, `StopsAdmission` | `TypeCorrect`, `InductiveInvariant`, `AdmissionIsBounded`, `ReturnsWhenQuiet`, `ReturnedListIsComplete`, `AdmissionStops` |
| `ExecutionAccount`: `TypeOK`, `LotsMatchInventory`, `AwardsMatchEntitlement`, `Reconciles` | `VariablesStayTyped`, `InventoryAlwaysMatches`, `AwardsAlwaysMatch`, `EquityAlwaysReconciles` |
| `ExecutionAccount`: `NoOverdraft`, `SharesSettle`, `PositionsExplained`, `ResidualKept`, `SessionsEnd`, `ImplementsSignedPlans` | `NeverOverdrawn`, `SharesAlwaysSettle`, `PositionsAlwaysExplained`, `ResidualsKept`, `SessionsShrink`, `ImplementsPlans` |
| `SharedReceipts`: `SharedAuthority`, `PrimitiveImmutable`, `SucceedsExpected` | `ReceiptsKeepAuthority`, `PrimitivesNeverChange`, `PublicationsSucceedExpected` |
| `TableComposition`: `ReadsPublished`, `WritesOnlyTails` | `CompositionReads`, `UpdatesWriteTails` |
| `HorizonBatch`: `DispatchedEqualsInline` | `HorizonTablesInline` |
| `AlphaContinuation`: `ContinuationMatchesFull` | `AlphaContinues` |
| `WeightBridge`: `SplitEqualsWhole` | `SplitsEqualWhole` |
| `RiskFactors`: `FactorsMatchFull`, `FactorsContinuous` | `FitsMatchHistory`, `FitsStayContinuous` |
| `RiskProfile`: `ContinuationAdmitted`, `ProfileGapless`, `ProfileMatchesFull` | `ContinuationsAdmitted`, `ProfilesGapless`, `ProfilesMatchFull` |

### The store

`BTStoreAssumption`: processes of different kinds
differ, and `None` is not a value. The inductive invariant of receipts is
`TypeOK /\ IInv`. `NoDanglingReceipt` alone is not inductive: a step of `Insert` says nothing of
the files, and one of `UnlinkCandidate` nothing of the receipts. `IInv` adds what
the holder of the lock has tested and what still holds because nobody else can
write: at `insert` the files of the receipt exist (`FencedInsert`), at `unlink` the
candidate is in no receipt (`FencedUnlink`), while a release unlinks, every table
in a receipt is among those it keeps (`FencedRelease`). Only the lock's holder
changes receipts or removes files, and linking only adds files. From it follow type correctness,
`ReceiptsNeverDangle` and
`StoreImplementsAuthority`: with `stored` the tables that have a file and
`committed` the tables of each chapter, every step stores, discards, commits,
retires or stutters. That an unlink is a `Discard` and an insert a `Commit` are
the fences again.

That a cleanup removes its reviewed files and no others needs an argument about time: a file may
be deleted and the same table linked again, with the same bytes, before the
cleaner comes back to it. `CleanupInv` says that every publication has a serial of its own
(`Serials`) and links a table at most once (`LinkedOnce`, over every place that remembers a
file), so that a file that is gone or replaced never again equals the record a plan froze. The serial stands for
what distinguishes two files of equal content in the code: inode, size and both times.
With `CandidateOpen`, the place of a cleaner inside a candidate's transaction,
`DeletedStaysDeleted` and `CleanupRemovesItsPlan` follow.

### The runtime

`EvaluationBatchAssumption`. The invariant relates
the caller's place to the futures: with a pool, what was drawn is
pending or collected; without one, all but the running item is collected; the loop is left
without an exception only when nothing is pending and the iterator is exhausted.

### The execution engine

`ExecutionAccountAssumption` and `StockDividendAssumption`: finite sets of plans and assets, prices above the
slippage, actions that are recorded before they are ex. Nothing is assumed of the relation of cash,
prices, fees, lots and actions. `AccountInv` has three parts.

* `RequestInv`: the request, its calendar and the day have their types.
* `RowsInv`: a waiting row holds what its plan asked for less what was filled, nothing of it
  has expired, a plan not yet processed has nothing filled or expired, and a row is a retry exactly when its plan is processed.
* `BooksInv`: both accounts are `Sound`: cash is a natural number, available and unsettled shares add
  up to the position, and what is unsettled waits for a later session; in the reference account nothing waits.

No overdraft and settlement are then parts of it; the work is in showing that every operation of
`account.py` keeps `Sound`, among them a sale whose proceeds are smaller than its
fee and a purchase of the largest affordable number of lots. `ImplementsPlans` maps an
executed order to the abstract one with the quantity it filled, and every other step to a stutter.
`ResidualsKept` adds `RowsAhead`: a row waits for a session of the calendar that has
not been closed, hence the checkpoint drops none. `PositionsAlwaysExplained` adds `CalendarInv`: no
date of an action is skipped between two sessions, since its dates within the cutoff are
required to be sessions, hence a receivable of shares is listed once, on its day.

### The FIFO books

`Reconciles` and `LotsMatchInventory` are the two errors the engine raises when its lots and its account
disagree. They are proved from an invariant of each ledger, `BooksTyped /\ BooksBalance`. The shares
of an asset in the lots are its position; cash, cash due and the cost of the open lots are
the capital plus what was realized and distributed; the recorded holders of an action add up to
the entitled shares, and the shares due to them are what the plans were awarded. From the
second part equity reconciles, because the unrealized result of a lot is its value less its cost. The type part
is not routine: an empty lot has no fee left (the part of the fee a sale takes is rounded down, but
the last share takes all of it), and the reference ledger keeps what it
realizes.

Lots are sequences that a sale cuts, a dividend appends to and `SelectSeq` thins out, so every
quantity is a sum over the positions of a sequence (`Weighted`), and
the lemmas say what a step does to such a sum: `MatchBalances` of a sale that consumes lots in order, the others
of appended and dropped lots.

`RemaindersFit` says that the rounded-down shares of a stock dividend leave at most one share for
each plan on record. The code assumes it where it hands out the rest, `ordered[:remainder]`: a
slice does not fail when it is too long. A ratio that a float only approximates can leave
more, the awards then fall short of the entitlement and the books never agree again (`execution_rounding`).
`DividendsFit` is a condition on the inputs that implies it: the significant bits of the
ratio and of the shares on record have room together in a mantissa, so that no product is rounded (a half, a quarter,
three for eight). With cash dividends alone nothing is assumed.
Powers of two are counted as subsets of a finite set (`PowerSum`, `SumOnScale`), since an induction over the exponent
is out of reach.

### Shared receipts

`ReceiptsKeepAuthority` is inductive because verification only grows: when every row is verified,
the smallest closed set is the registry itself, and a
registry that keeps its rows still proves them after an insertion. A release that empties the registry
checks nothing of a binding and leaves none behind. `PrimitivesNeverChange` needs the
shape of what a writer carries between its steps (`SharedType`); the comparison with the
expected receipt in the closing transaction does the rest.

### Composed tables

`CompositionAssumption`: the groups are a finite, nonempty set of numbers, and there is at least one day. Any
number of updates is allowed, of any of the frames, intervals and orders of rows the actions admit.

`CompositionInv` says that the reference is a sequence of parts whose row counts are right (`CountedParts`),
and that reading it gives the table. It is inductive by itself; the work lies in what each
step does to a read.

* A selection, a read and a composition distribute over concatenation (`SelectJoin`, `ReadJoin`,
  `MeantJoin`), a selection of a selection is one of the conjoined filter (`SelectSelect`, `ConjoinKeeps`), and a
  read of nested selections is the read of the leaves they come down to (`SelectFlat`, `NarrowedReads`). Parts without rows may
  go, because they read as nothing (`KeptRead`), hence `ComposeReads`: a composition reads as its parts do.
* `EqualPrefixAgrees`: up to the boundary that `_equal_ordered_prefix` finds, the old and the new rows of
  a group are the same. Both are in order of day, the first difference lies after the boundary, and so does all behind it.
* `SortedSplit`: rows in order of day are those up to a day followed by those after it. With the
  former the old part keeps the prefix and a new leaf has the rest (`GroupReads`); a frame is the concatenation
  of its groups, or is treated as one group when it is not (`GroupingSifts`, `FrameReads`).
* `RowsCounted`: the counts of the parts add up to the length of what they read as.

That an update writes only tails (`UpdatesWriteTails`) needs to know more of the rows. `RowsInv` adds that no two rows are of
one cell and that days ascend within a group and groups within a day (`RowsApart`), that no row is newer than the last
update, and that the parts select from stored leaves. The rows of a delta are then new themselves. For a complete frame:

* `GroupMajorOrder`, `DayMajorOrder` and `FrameOrder`: a frame has its rows group by group or day by day, as the kernels
  order their cells. A frame of the first kind is the concatenation of its groups (`GroupedSplits`), so the frame that is
  kept as one prefix is in order of day (`GroupingShape`).
* `DifferenceLater`, `TailChanged`: if the old and the new rows of a group were the same up to the day of a written row, their
  first difference would lie after that day, and the boundary not before it.
* `FrameWrites`: the leaves of a continued frame are those of the reference and the tails of its groups.

### Horizons

`BatchInv`: the saved tables are inline tables of an earlier, shorter calendar; the units of
a batch were staged from those tables; every file in the directory is
the inline frame of some window, which is what the caller's processes can at most produce; and
what was read back so far is the frame of its own window, because of the check of `ReadResult`.

### Continuing an Alpha

`AlphaAssumption`: windows, persistence lags, leads and lags are nonempty finite sets (tuples of the
configuration) and labels are available at some time. Nothing is assumed of the order of revisions,
updates and repairs, of the delays of labels, or of which component an update adds.

`AlphaInv` says that the current result and every preceding one are `Sound`: there are values and
labels, not necessarily the present ones, of which the result has saved the prefix, and its
tables are those that one evaluation of them from the first session gives. The values and labels are existential
because a result is compared by its saved prefix only: inputs may have been revised since, and may have been
revised back. Those tables are written down without reference to a saved result
(`TrueHorizon`, `TruePersistence`, `TruePaths`, `TrueLags`). The proof has four parts.

* A result depends on its prefix alone (`PrefixAgrees`, `MatchesAgree`): a label that an
  evaluation could not know yet is in no row of it.
* What is read suffices (`InputsReach`): the first session `alpha_input_start` returns lies before every pending
  horizon, a persistence lag before the end of the saved result, and before the checkpoint of each path by its lag; a path that
  has booked nothing, or a family that is new, is read from the start.
* Each table continues. `HorizonContinues`: rows with all labels known are kept, the others are recomputed.
  `PathContinues`: a path resumes after its checkpoint with the rows of one evaluation, because a row once booked never
  changes on a longer calendar (`RowKept`), what is booked later lies after
  all that was booked (`NewDatesLater`, `ActiveGrows`), and the first new row follows the checkpoint.
  `FramesContinue`: the sessions that all lags of a family share and that were not read again are those of the saved frames (`UnreadCommon`).
* The plan continues only a sound result whose prefix the inputs still have (`PlanPrevious`, `UpdateSound`).

TLC checked `AlphaInv` before on the instance of `alpha_rolling` and on a wider one (six sessions, leads
-2, -1 and 3, lags 0 and 2, two preceding results). The rolling information coefficients are not part
of the theorem, because the statement about them is false (`RollingMatchesFull`).

### Executing target weights

`BridgeAssumption` types the inputs: sessions, assets, capital, lots and lags are positive, quotes
and dividends natural, and an action is recorded before its ex date, which is not after its payment. It bounds neither
sessions nor assets, actions, corrections or calls. What a session computes is used in the proof only through the
shape of its result, so the theorem also holds of another allocation, fee or order of trades.

`BridgeInv` says of every checkpoint (`SavedInv`) and of the running call (`CallInv`) that whatever was
told of the actions in effect (`ToldOf`) agrees with *every* uninterrupted run over the inputs it is bound to
(`SameRun`): with its books, its frozen plans, its entitlements to the told actions and its positions on every session.
Of every run over its own inputs, not of `whole`, because a correction moves `whole` to other inputs, and
a checkpoint that is stale then still is what it was (`MarketCorrected`). The proof has three parts.

* `SessionAlike`: a session of two accounts with equal books, plans and told entitlements leaves two such accounts, if
  the one that was told less knows the actions that go ex or are paid on the day, and those it was told of that
  are recorded on it. `RunFacts`: the entitlements of an uninterrupted run are the holdings of the record dates it has passed.
* `SessionRun`: a call does know these actions. What it was told itself it has; what an earlier call was told
  was kept in `active` as long as one of its dates lay ahead, and a recorded action has its ex date ahead.
* `CompletedStarts`: an action that is told late is completed from the published positions, and these are the run's at its record
  date. `AdmitsActions` refuses it once its ex date has passed, hence every action in effect at the checkpoint was told
  before. The checkpoints that `EndCall` keeps end before the rows it replaces (`SameRows`).

TLC checked `BridgeInv`, with `whole` for the run, on the instance of `research` with and without the second dividend.

### Risk fits

`FactorInv` is type correctness, both properties and three facts. `PlanFollows`: the
batches still to be fitted follow one another without a gap, and the first leaves none after
what is published. That the batches of a plan have this shape for every calendar and every
`BatchSessions` is `PlanCovers`. `CarryLast`: the saved
price is the last one before the boundary, unless a reported revision reaches
behind it; without this a fit could continue from a price that was corrected.
`FitsDated`: no fit is older than the first date asked for. The properties
speak of fits up to a trusted date (the completed one, or the one before the
earliest reported revision), and each action either moves that date over fits it has just computed
or moves it back.

### Risk profiles

A regression, a row and a catalogue of a computation over the whole history are
defined from the inputs alone (`TrueReason`, `TrueSpecific`, `TrueRow`, `TrueFactors`), and
`RowIsFull` shows that a window with its halo computes them: the halo reaches every session of
a regression and of a volatility, the saved specific returns before the output are those of the origin
on, and the catalogue continued from a saved one is the catalogue of everything (`CatalogueContinues`).

`ProfileInv` says of a saved profile that it has one row of every day of the path, that its state
belongs to its rows, and that two kinds of its regressions are true: those before the pending
day, in every market that has the prefix the state proves (`Proves`), and those no revision since then reaches
(`Unreached`). The first is quantified over markets because the host compares a proof, not a market: revised
inputs may have been revised back. `FullInv` says the same of whole rows, whose
reach is longer by the volatility window.

* `ContinuationsAdmitted`: the halo lies between the origin and the last saved day, and no origin is ever before the path (`OriginsInv`).
* `ProfilesGapless`: a continuation checks only the days it computes. The others are untouched regressions
  that were checked when they were saved. A repair may find the first supported day itself; the rows after its
  end are then supported only if the last ones it computed already agree with the saved ones, which is why it must extend past the
  last regression a change reaches (`RepairSaves`: by a volatility window of at least two).
* `ProfilesMatchFull`: additionally, the origin of a state is the first day of the path or, before it, none. A
  repair that starts from an older state with no origin computes volatilities from fewer values, hence
  `OriginsKnown`.

### Induction over finite sets

`FiniteLemmas` proves what the library states only with an operator parameter. Instead of induction it takes a
smallest counterexample (`SubsetMinimal`: a nonempty set of subsets of a finite set has a minimal
member), which gives least and greatest members, the sums of `SumFunction` (of a
changed, split or inserted term), and the n-th member of a set of numbers (the settlement session).

For sequences it does the same over prefixes: `SeqInduction` shows that a set which contains the empty
sequence, and with a sequence every one that is longer by an element, contains all. `FlattenSeq` is a recursive function
of the number of sequences put together (`FlatIsLastStep`), and `FlatAppend`, `FlatJoin` and `FlatType` are what the proofs use of it.

### Model-checked only

Liveness (`PendingReleaseCompletes`, `AdmittedCleanupEnds`, `PublicationReturns`, `BatchReturns`): fairness and `ENABLED` are
beyond the prover. Every other property of the passing runs is the subject of a theorem, some under the hypotheses named above.

## 6. Not modelled

* Numerical code (statistics, ranks, regressions, returns, evidence groups) is floating point over
  dataframes without state: what it computes is out of reach, what it is computed
  from is what the provenance models follow.
* Store: `invalidate`, `build_index` and index blocks with the second loop of `cleanup`, the
  receipt frontier and its cache, fences around a decode, byte accounting of releases,
  `publish_chapter` with references instead of frames.
* Alpha evaluation: turnover and quantile paths, the tail split of the book, maturity per asset,
  gaps between labels, reuse policy of `derived_refresh`, the byte-bounded cache of prepared
  returns, and the reduction over workers (its order is `EvaluationBatch`'s).
* Risk: intervals that differ from their economic dates (`return_interval_mismatch`) and
  explicit industry activity.
* Weight bridge: settlement, lots and attribution of actions learnt late, the migration of
  older row hashes, changes of lot rules, assets that start later, and
  the solver used for sixteen assets and more.
* Horizons: row limits and column schemas of results.
* SQLite, Parquet, the file system and thread pools are modelled by what this code relies on:
  one writer at a time, rollback on a crash, `os.link` that does not replace.

## 7. Plan

1. The store's remaining operations: `invalidate`, reads with frontier and fences, `build_index`.
