# Formal verification of KTM-2000: stock ledger, reversal, imports and plans

KTM-2000 is a manufacturing execution system for one plant: plans are imported
from Excel, turned into section tasks along a route, worked on section by
section, and every piece of material is accounted for in a double-entry ledger
(`stock_transactions`) from which balances (`stock_balances`) are derived.
Whatever the operators do can be taken back: by a compensating reversal, by a
hard purge, or by deleting a whole import batch.

This directory holds TLA+ modules that model that core, TLC configurations that
check them on small instances, and proofs of the central invariants that TLAPS
checks for every instance. Paths below are relative to `src/backend/app` unless
they start with `src/`. A definition's lines in the code are in `PROJECT.json`.

## 1. Inventory of the system

| Component | State | Operations | Hard behaviour |
|---|---|---|---|
| Stock ledger, `stock/services.py`, `stock/models.py` | `stock_transactions` (append-only but for purge and forced deletion), `stock_balances` | `record`, `refresh_balance`, `rebuild_all_balances` | incremental projection must equal the ledger; several requests recompute one key |
| Action journal, `services/action_journal_service.py` | `action_journal`: type, ref, status, depends_on, reversed_by | `log`, `log_task_action`, `last_active_for_ref` | chains of dependent actions per task |
| Reversal, `reversal/` | none of its own; a signed plan token at the client | `preview_reverse`, `reverse`, `preview_amend`, `amend`, `hard_purge` | preview now, confirm later; cascades; coverage of each compensation |
| Forced deletion, `services/import_batch_force_delete.py` | none | `force_delete_import_batch` | must take compensations with their sources and recompute what it touched |
| Shopfloor operations, `services/shopfloor/operations_*.py` | `work_tasks`, defects, skips | complete, scrap, defect decision, final release, return, prepare | composed of several `record` calls in one request; shortage strategies; transforming steps that round pieces |
| Task status and budgets, `services/shopfloor/task_status.py`, `transfers/budget.py` | `work_tasks.status`, `planned_quantity` | `get_task_cache`, `resolve_work_task_status`, budgets: functions of the ledger | ready / in work / done derived from sums over a task |
| Transfers, `transfers/services.py` | `transfers` with status | send (accepts at once), correct, cancel, automatic transfer | task lock on the source only; target task found or created |
| Issue to work, `transfers/issue_service.py`, `source_selection.py`, `operations_skipped.py` | transfers of one `issue_no`, tasks skipped by it | `execute_issue`, `cancel_issue` | several rows and tasks in one request; stages that ready material jumps are written off and opened again |
| Remainders import, `stock/import_service.py`, `stock/import_history.py`, `import_history_api.py` | `stock_import_batches` with their actions | apply with or without clearing, roll back, hide | last in, first out per store; the state of a batch is kept in its row and in its action |
| Plan lifecycle, `services/production_plan_service.py`, `plan_generation.py`, `api/routes/production_planning.py` | plans, positions, release batches, tasks | approve, cancel, restore, hide, delete, release, take to work | decisions on state read by an earlier request; status of the plan derived, not always kept |
| Plan import, `services/plan_import_service.py` | `import_batches`, change sets and items | import, apply, roll back, apply again, discard, delete | what an item does is fixed when the file is read |
| Routes and dimensions, `services/route_*.py`, `hanger_*.py`, `domain/` | reference data | selection, matching, arithmetic | sequential |
| Sessions and OIDC, `services/session_*.py`, `oidc_*.py`, `break_glass_service.py` | `user_sessions`, used logout tokens | log in, refresh, revoke | expiry and revocation racing a refresh |
| Schedulers, `services/backup_scheduler.py`, `import_orphan_scheduler.py` | files, advisory locks | periodic ticks | check-then-lock |
| HTTP layer, repositories, schemas, seeds, frontend, migrations | — | — | input, output, reference data |

They interact by calls inside one request, that is inside one PostgreSQL
transaction at READ COMMITTED opened by `core/database.py:get_db`: a shopfloor or
transfer endpoint logs an action, calls `StockCommandService.record` for each
movement, and `record` calls the projection synchronously. Between requests
there is only the database, with four places that lock rows
(`SELECT ... FOR UPDATE`), one unique index on `idempotency_key`, and the
plan token the client brings back. There is no queue and no event bus.

What makes the components correct:

* ledger: the balance of a five-axis key is the signed sum of its movements, a
  terminal section has no balance, nobody draws more than there is unless a
  command is allowed to, a key's retry is written once;
* reversal: a compensation is an exact mirror, exactly one per transaction;
  what is built on a reversed action is reversed first; the preview tells what
  the confirmation will do; a purge cannot be seen in any balance;
* transfers and tasks: what is sent is what has been completed and not sent
  before, a cancelled transfer leaves no trace, a status follows the ledger;
* imports and plans: a rollback restores what was there before the import;
* sessions: a revoked session is never accepted again.

## 2. Modules

| Module | Models | Runs |
|---|---|---|
| `LedgerRules` | rows, keys, sums, the checks of `record`, the mirror of a transaction; no variables | all |
| `MovesInForce` | abstract specification: a set of movements and the stock they make | as a property of `stock_ledger` |
| `StockLedger` | every operation that changes the ledger, a transaction per step | `stock_ledger` |
| `LedgerTransactions` | `record` statement by statement in concurrent transactions | `ledger_transactions`, `ledger_race`, `answer_before_commit` |
| `ReversalJournal` | the journal, previews, overlapping reversals, purges | `reversal_journal`, `reversal_blockers` |
| `TaskFlow` | work tasks of a route: issue to any stage, portions, transfers, releases, returns, and taking them back | `task_flow`, `auto_transfer_plan`, `issue_skips_worked` |
| `ImportHistory` | imports of remainders, their batches, rollback, reversal from the journal, hiding | `import_history` |
| `PlanPositions` | change sets of a plan, its positions, release batches and launches | `plan_positions`, `plan_released_rollback` |
| `Amounts` | `coalesce(sum(...), 0)` over the rows of a table | `task_flow`, `import_history`, `plan_positions` |
| `LedgerSums`, `StockLedgerProofs` | lemmas about sums and mirrors, theorems about `StockLedger` | — |
| `ReversalJournalProofs` | the inductive invariant of journal, ledger and requests under way, theorems about `ReversalJournal` | — |
| `LedgerTransactionsProofs` | the inductive invariant of concurrent requests, theorems about `LedgerTransactions` | — |
| `AmountsProofs` | lemmas about sums over tables and about what is done once after another | — |
| `ImportHistoryProofs`, `PlanPositionsProofs`, `TaskFlowProofs` | theorems about the three modules | — |
| `MC*` | the instances: products, sections, tasks, commands | — |

### LedgerRules
A row of `stock_transactions` is a record; a balance key is product, location,
quality state and completed operations. Product and dimensions are one value:
both are equality axes and no rule distinguishes them. Quantities are whole
units up to `MaxQuantity`; the code's `Numeric(14,3)` is an exact decimal and
the ledger only adds and compares. `SumQuantity` counts units, which makes sums
of disjoint sets of rows provable without induction over sequences.
`RouteOperations` is the value `_completed_operations_from_route` computes for a
task, `NULL` where it finds none.

### StockLedger
Variables: `ledger`, `balance` (0 stands for a missing row; the code keeps no
zero row), `nextId`. Actions: `Record` (with the idempotent replay as a
stuttering step), `ReverseAction` (`StockCompensator` check, plan and apply for
the transactions in force of an action), `HardPurge` (deletes pairs, recomputes
nothing), `ForceDelete` (deletes a batch's rows, recomputes their keys),
`RebuildAllBalances`. Reversal actions are outside `Actions` here, so a mirror's
`action` is `NULL`; their journal entries are the subject of `ReversalJournal`.
`ActionOpen` says that the rows of an action are written by the request that
logged it and none is added after its reversal.

### LedgerTransactions
Each worker serves one request: lock rows (only portions do,
`_good_input_balance`), then per command: replay lookup, check, insert, and per
side of the movement four statements of `_recompute_balance` (sum in, sum out,
find row, flush). A statement sees committed data and its own writes. The flush
writes the absolute number; an UPDATE of a row that is gone is SQLAlchemy's
`StaleDataError`, an INSERT of a row that is there an `IntegrityError`, a DELETE
of a row that is gone only a warning, an unchanged attribute is left out of the
UPDATE. An endpoint that does not commit itself answers before `get_db`
commits (`Respond`, then `Commit`), as the docstring of `get_db` describes. A
connection may be lost in any state (`Lost`). PostgreSQL's locks, unique index
wait and deadlock detector are external. `seen`, `suspect` and `overdrawn` are
bookkeeping: no guard reads them.

### ReversalJournal
An action is its position in the journal. `Perform` is a whole domain operation
(its journal entry, chained by `log_task_action`, and its commands).
`PreviewReverse` gives the client a token. A confirmed reversal is two steps:
`BeginReverse` (token, fresh preview, plan of the first node) and
`FinishReverse` (all nodes from the latest down, which is their reverse
topological order, then the commit), with
anything else in between; `AbortReverse` stands for every exception and for the
end of the process. `DryRunPurge` and `ConfirmPurge` are `hard_purge`. An action
depends on at most one other, as `log_task_action` writes it, so the
breadth-first classification of `_cascade_set` is a classification of paths. What
the code does in a loop (the commands of an operation, the virtual walk, the nodes
of a reversal) is a function from positions to the state after them.
`overlapped` records that a request committed while a reversal was under way.
The credit of `coverage_effect` uses the quality the material is taken in, as
the code does.

### TaskFlow
One variable, the committed database: `tasks`, `journal` (with the transfer an
action sent) and `ledger`. Sums are over sets of positions of the ledger, and what
the code does row after row, stage after stage or action after action is a function
from the position reached to the database then. A step is a whole request: each operator that writes
takes a database and gives the next one, or `Failed` where the code raises, and
`Commits` takes it over. `Recorded` is `record` with its check of what is on
hand and its call of `_sync_task_status`; quantities and statuses are read back
from the ledger as `get_task_cache`, the budgets and
`resolve_work_task_status` read them, gross where the code sums gross
(`COMPLETE`, `SCRAP`) and net where it sums net. `TransferSend` finds or creates
the target, accepts at once, bridges `waiting_previous` to `ready` and expands
the plan; `CompleteTask` may send its good portion on (`SentOn`), which
overwrites the plan of the receiving task, as the code does. `CancelTransfer` and
`ReverseAction` compensate what is in force; `CorrectTransfer` reverses and sends
again in one transaction.

`IssueToWork` is `execute_issue`: `IssuePlan` chooses among what the store holds ready
for each stage, the latest stage first and without the rows the operator excludes;
each row taken is a transfer of its own (`Issued`), and the stages before the
earliest of them are marked as skipped by this issue (`WithJumpedSkipped`, by way of
`skip_stage`, which takes the first task of a line whatever its status). The number
of an issue is its first action. The strategy `fail` is the refusal of what
`partial` would do, a step less. `CancelIssue` cancels the transfers of the issue
that are left, one after the other in one transaction, and opens the tasks that
this issue skipped (`Restored`). `reopened` remembers these tasks; no guard reads it.

All positions are of one product without dimensions on one route: stage `n`
works in section `n`, section 0 is the store, and a place is a section with the
operations its material has passed, the axis on which the code keeps the input
and the output of a stage apart, and in the store what is ready for one stage from
what is ready for another. Left out: transit and transforming stages, the shortage
strategy `negative_remainder`, equivalent products, several stores, defects,
cancelled tasks. Reversal actions are
not entered in the journal here: `reversal_blockers` shows what they block, and
without them more is reachable, not less. `ReverseAction` reverses those types of
actions that `FromJournal` names; the reversal of a transfer from the journal,
which skips the guard of `cancel_transfer`, is possible in the module and not
used by the runs, and so are transfers beyond the budget (`OverPlan`).

### ImportHistory
`onHand` is `stock_balances` for one product, `batches` the history, in which a
batch is its row of `stock_import_batches` together with what its action wrote
(`cleared`, `poured`) and whether the action is active. The ledger itself is not
kept: `StockLedger` proves that balances are its sums. `Import` is
`apply_remainders_import` from the clearing to the batch row: clearing writes off
each balance of the location, each row of the file lands where an override, its
column or the import's location sends it (`LandsAt`). The history starts with one
batch of the time before the table (migration 072), without location and perhaps
reversed already. `RollBack` is the endpoint with its gate
(`assert_rollback_allowed`), `ReverseFromJournal` the journal's reversal with the
check of the compensator, which leaves the batch's own `status` as it was; `Hide`
only takes the batch from the list. `Withdraw` and `Receive` are all other
movements. `outside` and `before` are read by no guard.

### PlanPositions
One plan. Tables are sequences whose index is the id and in which a deleted row
is `NULL`. A row of a file is its fingerprint and its quantity. `Import` makes the
items of a change set from the positions of that moment; everything that later
happens to the set (`Apply`, `RollBack`, `Discard`, `DeleteImportBatch`,
`DeleteDraftsOnly`) works on these items and on the positions of the time it
happens. `Approve`, `Cancel`, `Restore`, `HidePosition` and `DeletePosition` are
the operations on one position, `CreateReleaseBatch` and `ReleaseBatch_` those of
the planner. A launch (take-to-work) takes no lock, so it is two steps:
`TakeToWork` (its checks, and the status of the plan put right) and one of
`Launch`, `LaunchRefused` (release batch and internal plan stay, perhaps with
tasks) and `LaunchFails`. `planStatus` is assigned exactly where the code calls
`refresh_plan_status` or sets it. `overridden` marks positions whose check was
overridden by the planner or outdated by an overlap, `largest` remembers the most
a position was planned for; no guard reads them.

## 3. What the runs show

| Run | Instance and bounds | Shows |
|---|---|---|
| `stock_ledger` | one product, raw store (lot-tracked), saw, terminal; 11 commands incl. a replay key, an invalid one and two with allow_negative; 5 actions, 2 batches; at most 6 transaction ids | `BalanceMatchesLedger`, `CompensationsMirror`, `NegativeOnlyByPermission`, `TerminalKeepsMaterial`, refinement `ImplementsMoves` |
| `ledger_transactions` | 2 workers, 4 kinds of request (an issue that may be sent twice, the opposite movement, a locking portion, an over-asking adjustment) | `BalanceExactUnlessRaced`, `NegativeOnlyByStaleCheck`, `LockedStaleOnlyIfSuspect`, `OncePerRequest`; `EveryRequestEnds` under fairness |
| `reversal_journal` | one task, 5 kinds of operation, 2 concurrent reversal requests, 5 journal rows | `JournalMatchesLedger`, `NeverNegative`, `NothingBuiltOnReversed`, `PreviewTellsTheTruth`, `StatusNeverAheadOfLedger` |
| `task_flow` | one position, two stages, planned 1; the store holds two raw units and one ready for the second stage; issues of 2, other requests for 1 or 2; at most 3 tasks and 5 journal rows, reversals without bound | `NothingNegative`, `StockIsThatOfTheTasks`, `TransferMatchesLedger`, `ReceivedIsInWork`, `OneOpenTaskPerLine`, `PlanCoversReceipts`, `WorkedOnlyWhatWasReceived`, `ClosedWithNothingInWork`, `OnlyPartlyWorkedIsSkipped`, `ReopensWithItsIssue` |
| `import_history` | two sections, two qualities, three files (own store, another section and own store, none), one override; a legacy batch and two imports; other movements net at most 1 | `StockIsOfImportsInForce`, `NothingNegative`, `ButtonTellsTheTruth`, `RollbackRestores` |
| `plan_positions` | two files that share one of two rows, two launches; 2 batches, 3 positions, 2 release batches, behaviours of at most 9 steps | `LaunchedWithinPlan`, `OneActivePerRow`, `Reapplicable`, `LiveWorkSurvives`, `SafeDeletionSparesTheRest` |
| `auto_transfer_plan` | as `task_flow`, planned 2, only raw material, portions sent on automatically | violated: `PlanCoversReceipts` |
| `issue_skips_worked` | as `task_flow`, planned 2, issues of 1 or 2, 4 journal rows | violated: `SkippedHasNoMaterial` |
| `ledger_race` | 2 workers | violated: `BalanceAlwaysExact` |
| `answer_before_commit` | 2 workers | violated: `AnsweredIsWritten` |
| `reversal_blockers` | as `reversal_journal` | violated: `OnlyLiveWorkBlocks` |
| `plan_released_rollback` | two files, one launch; at most 9 steps | violated: `ReleasedSurvivesRollback` |

Why the bounds are enough. Six transaction ids leave room for an operation of
two rows, its reversal and a third operation, purged or deleted in any order;
the properties relate at most a transaction, its compensation and one other
user of the key. Two workers make every race of two requests over one key, every
conflict on an idempotency key and every deadlock of opposite movements; what needs a
third request (a row that one left wrong and another locks) is covered by the
theorems, which hold for any number of workers. Five journal
rows hold a chain of two with its reversals and an unrelated withdrawal.
Planned 1 of three units in store lets a task be closed by what it was planned for
while more can be issued. An issue of two takes the unit ready for the second stage
and a raw one, one of the two alone when a row is excluded or used up, so that two
issues may jump or follow each other. Five journal rows hold issue, portion and
transfer and two more of these, on the same task or on one that
`prepare_section_task` or `transfer_send` created anew, with any number of reversals
and cancellations between them. `task_flow` has the one position: that several positions
share a section changes whose stock is whose, which two successive tasks of one
stage already show. Two imports after the legacy batch are the least that have
an order of their own; both may clear, and each file may send rows to where the
other import clears. Two files that share one row, of which three positions may
be made, give every kind of item (create, update, cancel, duplicate, ignore), the
reuse of a cancelled position and one insertion more; nine steps hold import,
apply, approve, launch, rollback and reapplication of the first file among steps
of the second. The theorems of section 4 hold without these bounds.
Deadlock is checked wherever the system goes on; `ReversalJournal` and
`TaskFlow` stop when the journal is full, `ImportHistory` when the history is,
`PlanPositions` at its number of steps, and say so with `CHECK_DEADLOCK FALSE`.
The reversal requests of `ReversalJournal` and the operators of `plan_positions` are
symmetric; no symmetry is used in `ledger_transactions`, which checks liveness.

Fairness. `LedgerTransactions` assumes weak fairness of each statement of a
request that was begun, which is what a running server and the asyncio event
loop give, and of the deadlock detector, which PostgreSQL runs after
`deadlock_timeout`. Nothing is assumed of clients (`Begin`) or of failures
(`Lost`).

### Disagreements found
1. `_recompute_balance` promises an atomic upsert; two requests on one key can
   commit a wrong balance row (`ledger_race`). The next write to the key
   repairs it, which is what `BalanceExactUnlessRaced` shows. A row locked first
   is affected only by a request that lost a race for the key before: its DELETE
   matched no row, so it holds none, and it commits under the lock
   (`LockedStaleOnlyIfSuspect`; it takes four requests at a time).
2. `get_db` demands that a mutating endpoint commits before its answer; the
   transfer, task and reversal endpoints do not (`answer_before_commit`).
3. Reversal actions stay ACTIVE with the dependencies of what they reverse and
   so block the reversal and the purge of its predecessor
   (`reversal_blockers`).
4. The automatic transfer sets the plan of the receiving task to its last
   portion, after `transfer_send` expanded it to all it had received
   (`auto_transfer_plan`).
5. `rollback_change_set` asks for a released position only under items that
   create; under an item that updates or cancels a draft it makes a position a
   draft again that was approved and launched in between
   (`plan_released_rollback`).
6. An issue to a later stage passes over jumped stages that are `in_progress`, since
   their material is moving, but not over those that have worked a part of it and
   are `partially_completed`: such a stage is marked as skipped, where "there is no
   material and never was", and `complete_task` refuses the rest
   (`issue_skips_worked`). `OnlyPartlyWorkedIsSkipped` says that this is the only way,
   apart from lines with a second task.

What overlapping requests do to a reversal is left open by the properties of
`ReversalJournal` where they say `~overlapped`: two confirmations of one plan both
read the action before either commits and both write compensations, and a
withdrawal between the coverage check and the compensations overdraws the key,
since compensations are written unchecked. No statement of the repository promises
otherwise, so these are exceptions of the properties and not disagreements.

Two properties of `TaskFlow` leave a case out, because the code gives no
guarantee there. A return is limited by issued minus completed minus
transferred (`operations_tasks.py:1175`), which knows neither earlier returns nor
scrap, so `WorkedOnlyWhatWasReceived` is about tasks that returned nothing;
`NothingNegative` shows that at least the section is never overdrawn by it. And
the task sums count a completion that was reversed (`stock/services.py:520`;
`src/GLOSSARY.md:302-305` says that only transfers are compensated today, while the
journal reverses completions): the budget of the transfer grows by it, only the
check of what is on hand stops a transfer of what is not there, and in-work
shrinks, so the portion cannot be completed a second time.
`ClosedWithNothingInWork` is therefore about tasks whose gross and net
completion agree.

`ClosedWithNothingInWork` and `OnlyPartlyWorkedIsSkipped` also leave out the tasks
in `reopened`, those that the cancellation of an issue has opened again. It opens a
skipped task by its status alone, as ready, also when a request named the task while
it was skipped and sent material to it: then it has received something and looks as
if nothing ever came, and the next issue skips it with its material; and while it was
skipped it may have sent on all of its plan without being closed by that, so that
what it receives later closes it over the material. In the instance of `task_flow` no
behaviour is long enough for this; the attempt to prove the second property for any
number of journal rows failed on exactly this case.

Read but not run: an explicit `to_task_id` of `transfer_send` may skip a stage,
though the refusal reads "must be next route step"; reversing a transfer from
the journal bypasses the in-work guard of `cancel_transfer`, and that guard
ignores returns; `correct_transfer` of an issue transfer
passes its own checks and fails in `apply_forward`, which takes `int` of a
missing source task; transfers beyond the budget can close a task with its own
input untouched; `skip_stage` marks the first task of a line though its caller
looked at another, and may overwrite the number of the issue that skipped it before,
whose cancellation then opens nothing; the cancellation of an issue opens a stage
that a second issue jumped as well; when the transfers of an issue are cancelled
one by one, the stages it skipped stay skipped, since `cancel_issue` then refuses as
already cancelled; a stage that was skipped, replaced by a task that
`transfer_send` or `prepare_section_task` created and then opened again has two open
tasks (which `OneOpenTaskPerLine` leaves out); the token's fingerprint is made of
the largest ids, so a purge or forced deletion of older rows leaves it unchanged (the fresh preview at
confirmation catches what matters); `coverage_effect` credits `quality_state`
where the compensation delivers `to_quality_state`, which no chain of today's
actions can tell apart; `amend` would replay a branch with the dependencies of
the actions it replaces, but it takes transfers only, nothing is ever logged with a
dependency on a transfer, and so that branch is empty outside the tests; the comment in `operations_tasks.py:294` that the ledger
check rejects races beyond the locked pair is refuted by the stale checks that
`NegativeOnlyByStaleCheck` allows for; the journal rows of a forced deletion are
selected by `ref_id` without the type; an operation logged while its
predecessor is being reversed ends up active on a reversed one, which is why
`NothingBuiltOnReversed` speaks of states without overlap.

Of the history of remainders: the order of rollbacks does not see hidden batches
(`_has_newer_live_batch`), so of two imports A and B that clear and pour, B hidden,
A may be rolled back, contrary to the comment at `stock/import_history.py:486`
(ADR-0056 decides the opposite for plans); rows that an override or a column sends
to another section escape the order of that section; an override that names the
import's own location does nothing, though the docstring gives overrides
precedence; ADR-0053 says the order is the list's business while the gate and the
compensator enforce it; a refusal tells the user to take the batch back from
hiding first, for which there is no operation. `RollbackRestores` therefore leaves
out balances that a hidden batch or an import of another section touched;
`StockIsOfImportsInForce` and `NothingNegative` do not.

Of plans: a launch that `release_batch` refuses returns its refusal as a value
inside the caller's savepoint (`production_planning.py:2093`), so the release batch
and its internal plan stay, hold the quantity and have the next launch refused,
though the comment before the loop says a failed position rolls itself back; an
item that updates always ends as invalid, since the fingerprints it is compared
with contain its own position's; items skipped as invalid are undone by a rollback
although they were never applied; discarding an applied set that created positions
meets the foreign key; `restore` takes the status of the last cancellation in the
audit log and validates nothing; approving a cancelled position brings it back to
life and the unique index then stands against applying its set again (which
`Reapplicable` leaves out); a released position that is cancelled lets its set be
rolled back and applied again as a draft with tasks; two overlapping launches
create two sets of tasks (`overridden`).

## 4. What is proved

`StockLedgerProofs`, from the assumptions on the constants in `LedgerRules` and
`StockLedger` alone:

* `TypeCorrect`: `Spec => []TypeOK`. Ids of mirrors are `nextId` plus the number
  of smaller sources, so they are new and different (`MirrorIds`).
* `BalanceCorrect`: `Spec => []BalanceMatchesLedger`.
* `CompensationsCorrect`: `Spec => []CompensationsMirror`.
* `NegativeByPermission` and `TerminalKeeps`: the action properties
  `NegativeOnlyByPermission` and `TerminalKeepsMaterial`.
* `LedgerImplementsMoves`: `Spec => ImplementsMoves`, the refinement of
  `MovesInForce` with what is in force for its movements.

The second and third come from one inductive invariant, `LedgerInv`: types, balances
exact, compensations exact mirrors and at most one each. Balances alone are not
inductive: `HardPurge` recomputes nothing, so it preserves them only because
what it deletes is a set of transactions together with one exact mirror of each,
and the sums of those cancel on every key (`LedgerSums!MirroredPairsCancel`,
from a bijection between the units a key gains and those it loses). Forced
deletion preserves `CompensationsMirror` because `_force_blockers` refuses a
compensation without its source and a purge takes pairs. The refresh of the
touched keys is enough because a row changes the sums of its own two keys only
(`RefreshExact`).

The action properties are read off the balance of a key before and after each
operation: a command takes away its quantity at its source and has found it there
(`WithdrawalChecked`); a reversal takes away at most its coverage need, which the
check found in the balance row (`ReversalCovered`), and a terminal section has none.
For the refinement, each operation is shown to change what is in force
(`InForceRecord`, `InForceReversal`, `InForcePurge`, `InForceForceDelete`) and the
balances by the effect of the same movements, so it is a `Post`, a `Cancel` or a
stutter of `MovesInForce` (`MovesStep`); a purge and a rebuild always stutter.

`ReversalJournalProofs`, from `ReversalJournalConstants` and the assumptions of
`LedgerRules`, hence for any number of requests at a time, of operations and of
commands in one, for chains of any length and a journal of any size:

* `JournalTyped` (`TypeOK`), `StatusSafe` (`StatusNeverAheadOfLedger`), `JournalAgrees`
  (`JournalMatchesLedger`) and `NothingRestsOnReversed` (`NothingBuiltOnReversed`).
* `NothingOverdrawn` (`NeverNegative`), where nothing is below zero at first and no
  operation has a command with `allowNegative`; both hold of the instance of
  `reversal_journal`. Without the second it would be false: such a command is allowed
  to overdraw.
* `PreviewIsRight` (`PreviewTellsTheTruth`), under the same two and `CreditedAsTaken`:
  where an operation of a task puts material, no operation of the same task takes
  material to give it another quality, and no terminal section is drawn on. The virtual
  walk credits what comes back in the quality it was turned into (`CreditKey`,
  `stock_compensator.py:183-207`), so it misses the material at the key it really
  returns to. The instance has all three hypotheses. In the code the one task command
  that changes the quality is the scrap, which takes from the input group, while
  completions fill the output group, so the third holds of a stage whose output
  operations differ from its input's. It is needed: with the scrap of
  `MCReversalJournal` taken from where the completion puts its product, TLC finds a
  preview that refuses a cascade which would go through.

All come from `JournalInv`. Its first part, `Sound`, holds whatever overlaps: types,
exact balances, every compensation has its source and belongs to a reversal, an
action depends on earlier ones only, of its family and reference, its rows are those of
an operation of its type, as long as it is active it has some (`Ordered`), and of what
the journal calls reversed or purged nothing is in force. A reversal carried out by two requests at once keeps it, since
the plan a request has read can only have lost transactions to others and none can
have come into force (`RequestSound`; what is written later is of a later action).
The other parts hold until two requests overlap: `Matched`, `NothingBuilt`, and of a
request under way that it has read what it would read now and that its preview is
clear (`Current`). `Matched` is stronger than `JournalMatchesLedger`: no two actions
name the same reversal, and every compensation is by the reversal that its source's
action names; the agreement of one action would otherwise not survive the reversal of
another. The step from `Current` to what a reversal leaves goes node by node:
`CoveredCascade` shows that a clear preview has found the material of each node,
`TurnsMatched` that between any two nodes the database is the old one with the nodes
so far reversed (`HalfDone`), `CascadeIsClosed` that every active action that
rests on a node is a node. A purge takes rows in pairs, so it keeps the balances it
does not recompute (`PurgedShape`).

`PreviewIsRight` walks the preview and the reversals side by side (`LockStep`): as long
as neither has failed, the balance of each key is the old one plus the adjustment of the
walk wherever a node that is still to come needs something, and a node is covered in one
exactly when it is in the other (`CoverAlike`, `NodeInStep`). Such a key is one where an
operation of the task put material (`NeedIsOfRow`), since all nodes are of one task
(`CascadeOfTask`), and there `CreditedAsTaken` makes the walk's effect of a node the
node's real effect (`CreditIsTrue`, `EffectIsNet`). `CascadeTurnByTurn` and `WalkExists`
unfold the two recursions, `WalksAgree` joins the steps.

`AmountsProofs` are the lemmas about `Total`, the sum over a table: what a new row
adds, what a row that is zeroed takes away, what a prefix sums to. There is no
induction in them: a sum is the cardinality of a set of units, and a change of one
row is a disjoint union. The lemmas about positions that `ReversalJournalProofs`
rests on are there too. The induction theorems of the library take an operator, so
induction is stated for sets of numbers: a set of numbers that is not empty has a
least member (`Least`, by the finiteness of intervals), a set that holds 0 and with
each position the next holds them all (`Upwards`), and a step that can be taken from
every state can be taken any number of times in a row (`Chain`, which gives the
functions that loops are modelled by); `Downwards` and `ChainDown` are the same for
loops that run from the last position to the first.

`ImportHistoryProofs`, from `ImportHistoryConstants` alone, hence for any number of
imports, sections, files and other movements:

* `TypeCorrect`, `BalancesOfImports` and `NeverOverdrawn` from the inductive
  `HistoryInv`: types, `StockIsOfImportsInForce` and `NothingNegative`. The last is
  part of the induction because clearing writes off what is above zero.
* `ButtonCorrect`: in a state of the right type the list's button and the gate
  compute the same, whatever the filter of the list.
* `RollbackOrder`: `RollbackRestores`. `HistoryInv` is not enough, since it knows
  what is in force but not in which order it came. `EarlierStillThere` adds that
  what a batch found (`before`) is still the sum of the earlier batches in force,
  on balances that only visible imports of its own section touched; it is
  preserved because the gate refuses an earlier batch while a later one is live.

`PlanPositionsProofs`, from `PlanPositionsConstants` and `NullIsNoRow`:

* `TypeCorrect`, `WithinPlan`, `OneActive`, and the action properties `LiveWork`
  and `SafeDeletion`, from the inductive `PlanInv`: types, references (`Refer`: what
  an item, a release batch or a launch names exists or once did), a position that
  passed material on has tasks (`MovedHasLines`), `largest` bounds the quantities
  (`PeakOK`), `LaunchedWithinPlan` and `OneActivePerRow`. Each operation is shown to
  satisfy `Keeps`: types and references hold after it, no work is taken and none is
  started on a row that has some (`WorkStep`), and what release batches hold of a
  position grows only within the plan or marks it (`HeldStep`).
* `RolledBackApplies`: `Reapplicable`, from `PlanInv` and `OwnInv`: rows are unique
  within a batch, an item's position has the item's row, and the items that create
  name positions of their own batch.

`LedgerTransactionsProofs`, from the assumptions on the constants in `LedgerRules`
and `LedgerTransactions`, hence for any number of requests at a time, of commands in
a request and of rows locked:

* `TypeCorrect`, `BalanceExact` (`BalanceExactUnlessRaced`), `NegativeOnlyStale`
  (`NegativeOnlyByStaleCheck`), `LockedStaysGood` (`LockedStaleOnlyIfSuspect`) and
  `WrittenOnce` (`OncePerRequest`), all from the inductive `TransactionsInv`.
* None of them is inductive, for all are about what is committed, and a commit
  writes what the session computed many statements and many foreign commits ago.
  `TransactionsInv` therefore says of every session (`SessionOK`) what holds between
  its statements: what it recomputed and nobody changed since is the sum of what it
  sees (`Recomputed`), the sums in hand are those of the rows it sees (`Summed`), what
  it drew upon it had checked and it is still there (`Drawn`, `Checked`), its keys are
  its request's and not committed (`Keyed`, `Done`); and of every two sessions that
  they hold different rows and keys (`Apart`). Each statement keeps it for its own
  session (`InsertOK`, `SumIncomingOK`, `FlushOK`, ...); the commit of one keeps it
  for the others because what they lose is marked stale (`CommitOther`).
* `NullIsNoRow` is needed and assumed: `NULL` is not a balance row.

`TaskFlowProofs`, from `TaskFlowConstants` and `NullIsNoValue`, hence for routes of
any length, any number of positions, tasks and actions and whatever clients ask for,
automatic transfers and transfers beyond the budget included:

* `FlowTypes` (`TypeOK`), `FlowNeverNegative` (`NothingNegative`),
  `LineHasOneOpenTask` (`OneOpenTaskPerLine`) and `ReceiverIsInWork`
  (`ReceivedIsInWork`), all from the inductive `FlowInv`: types and foreign keys
  (`Typed`), a compensation mirrors a row of an action and no row has two
  (`Mirrored`), the rows of one action go to different places (`OnePerPlace`), and the
  properties themselves.
* Why `NothingNegative` is not inductive by itself: a reversal writes its
  compensations unchecked. What it has checked before is each row against what is on
  hand at the row's destination, one by one; that suffices for all of them together
  because they go to different places (`CoveredLeavesEnough`) and because a
  compensation takes exactly its source out of every sum (`StockInForce`,
  `StockTakenBack`).
* A request is followed from one database to the next: what is recorded
  (`RowRecorded`), logged (`Logged`), created (`TargetSound`), delivered
  (`DeliveredSound`) and taken back (`ReversedTakesBack`) leaves a database `Sound` if
  it was so before. A loop (the stages of an issue, the nodes of a cascade, the
  transfers of a cancelled issue) stays within any set of databases that its body
  does not leave (`IssuedToStagesKeeps`, `CascadeKeeps`, `AllCancelledKeeps`).
* What a request is made of is said once (`Moves`): tasks move on, an action is logged
  and posts its rows (`Posted`), an action is reversed (`TakenBack`), or a reversed
  transfer is superseded (`Superseded`). `NextMoves`: of any set of sound databases
  that no such change leaves (`ClosedUnderMoves`), no request leaves it, except that an
  issue reaches a database of the set and then skips the stages it jumped over
  (`SkippedFrom`), and the cancellation of an issue reaches one and then opens them
  again (`IssueTakenBack`). An invariant has to be shown of four kinds of changes then,
  instead of ten actions with their loops.
* `SkippedUntilItsIssueGoes` (`ReopensWithItsIssue`) is that statement for the set of
  databases in which what is skipped now is still skipped, together with what the loop
  over the transfers of the issue has cancelled after each of them (`CancelledUpTo`).
* `PlansAreExpanded` (`PlanCoversReceipts`, assuming `Unsent`: no portion is sent on
  across storage groups, because automatic transfers are off or all stages share a
  group; without it the run `auto_transfer_plan` shows the opposite) and
  `NoMaterialIsWrittenOff` (`OnlyPartlyWorkedIsSkipped`) need a relation between a
  database and what the kinds of changes make of it, `Later`: no task is skipped on
  the way, the gross quantities completed and scrapped never fall, what a task is
  sent is planned for, and what is partly worked had something completed or scrapped.
  It is transitive, so it reaches from the first database of a request to the last
  through any number of changes (`LaterBudgeted`), and what `Budgeted` says of every
  reachable database follows (`FlowBudgeted`).
* `TransfersAreInTheLedger` (`TransferMatchesLedger`) and `StockBelongsToTasks`
  (`StockIsThatOfTheTasks`) need one more inductive invariant, `Shaped` (`FlowShaped`):
  every row that compensates nothing is one of the kinds that the operations write,
  transfers and completions as two rows side by side (`Proper`); such a row is in force
  exactly while its action is active; and a transfer of the journal has its pair of
  rows and no other, and is accepted exactly while it is active (`Entered`). The sums
  of a section and those of its tasks are then sums over the same rows in force, or
  over the other halves of them (`AmountOfHalves`): what the section got was sent to
  it, what the tasks received is the row beside.

* `MaterialIsReceivedFirst` (`WorkedOnlyWhatWasReceived`, assuming `KeptOutOfJournal`:
  transfers are cancelled and corrected, and not reversed from the journal, which checks
  what is on hand in the section and not what the receiving task has in work; TLC finds
  the property violated as soon as `transfer_send` is in `FromJournal`). What is on hand
  in a section says nothing here, since tasks of the section share it. The invariant is
  `Fed`: what a task completed and scrapped, reversals taken off (`Used`), it has
  received. A change keeps it if it leaves no task with more used over what it received
  than before (`Lives`), and that is shown of each kind of change: a portion is limited
  by what the task has in work (`PortionLives`); a reversal takes from the receiver of a
  transfer only what it still has in work (`TakenBackLives`), as the cancellation checks,
  and in a cascade no node is a transfer, because transfers depend on nothing
  (`BelowDepends`, `Entered`). A correction does not keep it step by step, for the
  reversal that it begins with takes all of the old quantity; what it sends anew makes
  up for that within what was checked (`SentAnewLives`). So `NextChanges` has the
  correction as a case of its own (`Corrected`).

Only model-checked: `EveryRequestEnds`, since liveness under fairness and ENABLED are
beyond TLAPS; and of `TaskFlow` `ClosedWithNothingInWork`, which needs what
`MaterialIsReceivedFirst` shows and besides that no task sends on more than it
completed.

## 5. Not modelled

* Of modelled components: dimension canonicalisation, users and comments on rows,
  the audit log; transforming and transit stages, equivalents and
  shortages taken as negative remainders, defects; the replay of a
  branch by `amend`, which no logged dependency reaches; savepoints of bulk operations; deletion and archiving of a
  plan, editing of a position, hiding of an import batch of a plan, validation
  other than duplicates, several positions per request; parsing and previewing of
  files, verdicts on rows.
* Compensations carry no idempotency key in the models: the code's key contains
  the id of the new reversal action and can never collide.
* Sessions and sign-on, schedulers: one row read and written per request,
  independent of material.
* The larger part of the code by lines: read models and reports, parsers and
  templates of Excel files, seeds, payload schemas, routes of the HTTP layer, the
  frontend. They keep no state that an operation relies on, and what can be wrong
  in them (a wrong column, a missing field) is a matter of tests. This is why the
  definitions here stand for a small share of all lines of the repository and for
  most of those that change stock, journal, tasks and positions.

`PROJECT.json` lists every component with its reason.

## 6. Plan

1. *done* — `LedgerRules`, `StockLedger`, `MovesInForce`, `LedgerTransactions`,
   `ReversalJournal`, `TaskFlow`, first theorems.
2. *done* — `ImportHistory` and `PlanPositions` with their theorems.
3. `ReversalJournal`: operations logged during a reversal.
4. *done* — proofs about `LedgerTransactions`: at most once per request, rows
   locked first stay good, exactness unless raced.
5. `TaskFlow` in interleaved requests: two transfers that both find no open
   target, the task lock and the stale identity map; two positions on three
   stages with an explicit target; `negative_remainder`, defects. *Done*: issues to
   any stage, `cancel_issue`.
   An abstract flow of material that it implements.
6. `TransformPortions`: the rounding of portions against a reference definition
   over bounded inputs. Sessions.
7. Proofs. *Done*: the action properties of `StockLedger` and its refinement of
   `MovesInForce`; the invariants of `ReversalJournal`; types, `NothingNegative`,
   `OneOpenTaskPerLine`, `ReceivedIsInWork`, `ReopensWithItsIssue`,
   `TransferMatchesLedger`, `StockIsThatOfTheTasks`, `OnlyPartlyWorkedIsSkipped` of
   `TaskFlow`, without automatic transfers `PlanCoversReceipts`, and without reversals of
   transfers from the journal `WorkedOnlyWhatWasReceived`. Left of it:
   `ClosedWithNothingInWork`.

Abstract specifications worth stating besides `MovesInForce`: a journal in which
a reversal is one atomic step (implemented by `ReversalJournal` without
overlap), and a transfer as a single movement between two tasks (implemented by
`TaskFlow`).
