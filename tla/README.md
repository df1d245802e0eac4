# A verification of zeebpy

zeebpy is an async ORM (`zeeb_orm`), an API framework on top of it (`zeeb_api`)
and a layer of tools with which agents build projects of the two
(`zeeb_agents`). This directory holds TLA+ models of the parts of it whose
correctness depends on order: tasks that share a transaction, processes that
migrate one database, calls that share the process of an agent server, requests that
share a cache, calls that are cut short between two writes. TLC
checks the models on small instances, TLAPS proves the central invariants for
every value of their constants.

Line numbers below and in `PROJECT.json` are those of the source tree.

## 1. The system

### Components

| Component | State it keeps | Operations | What makes it correct | Here |
|---|---|---|---|---|
| Transactions: `db/connection.py`, `db/transaction.py` | context variables with the open blocks of a task, the session of the outermost block with its lock, savepoints, callback lists | `atomic()`, `get_session()`, `on_commit()` | all or nothing per block, durable through the outermost commit only, callbacks once, after it, in order | `Atomic`, `Transactions`, `AtomicRefinement` |
| Registry of connections: `db/connection.py` | alias -> `Database` | `register_database`, `get_connection`, `close_all_connections` | one connected `Database` per alias | not modelled |
| Migration executor: `migrations/executor.py` | the `zeeb_migrations` table, the migration lock, the schema | `migrate`, `rollback`, `--fake`, `--fake-initial` | record and schema agree, plans fit the schema they run on | `MigrationGraph`, `Migrate` |
| Autodetector, optimizer: `migrations/autodetector.py`, `optimizer.py`, `operations.py` | none between calls; files, record and schema around them | `makemigrations`, `squashmigrations`, operations forward and back | the plan produces what the models declare, rolls back to what there was, and its squash has the same effect | `Autodetector`, `Optimizer` |
| Writer and serializer: `migrations/writer.py`, `serializer.py` | none | Python source of a migration | text | not modelled |
| Deletion: `models/deletion.py` | the collector's instances, their order, updates | `delete()` of a model or a query | every `on_delete` is kept, nothing else goes, signals precede deletes | `Deletion` |
| Models and signals: `models/*`, `signals.py` | instances, receivers | `save`, `send` | a save writes its columns only | in `Upsert` and `Deletion` where they meet them |
| Query layer: `query/*` | none: builds SQLAlchemy expressions | `QuerySet`, `get_or_create`, `update_or_create` | one row for concurrent callers, nobody's update lost | `Upsert` |
| Throttling: `throttling/*`, `check_throttles` | histories of requests with their expiry | `check_and_record`, prune, `wait` | never more than the rate in any window; `Retry-After` is enough | `Throttle` |
| Tokens: `auth/*` | consumed tokens, revoked families, accounts | login, refresh, logout | a login has one heir, a revoked family ends | `RefreshTokens` |
| OAuth: `auth/oauth/*` | cached keys, ids known to be unknown | `get_signing_key`, callback | bounded refetches, rotated keys are found, withdrawn ones forgotten | `SigningKeys` |
| HTTP layer: routers, viewsets, serializers, filters, pagination | none between requests | one request | conversion and validation of data | not modelled |
| Agent isolation: `zeeb_agents/_utils/isolation.py` | what project's code is loaded, a gate per event loop | `project_scope` | no switch under a running call, nobody waits for ever | `ProjectScope` |
| Feature lifecycle: `feature_archive.py`, `feature_manifest.py`, `intent.py` | project files, archive with its record, manifest | deactivate, activate, delete | no code is lost whatever step is cut short; the status is true | `Features` |
| Code generation and tools: `zeeb_agents/*` | project files | one edit of a source file per call | text | not modelled |
| CLI and scaffold | none | file templates | text | not modelled |

### How they interact

* Every query and every `save()` asks `get_session()` for a session and so joins
  the open block of its task, or opens a session of its own and autocommits.
  The block is found through context variables, which a task created inside a
  block inherits: this is how tasks come to share a session.
* A migration run uses a synchronous connection of its own; it meets other runs
  in the database only: in the lock, the table of what is recorded, the schema.
* Each agent tool is wrapped (`decorators.py:149`) in `project_scope`, and moves
  blocking work into threads (`asyncio.to_thread`), which cancellation does not
  reach.
* `get_or_create` and `delete` run inside a block of their own or of their caller; the
  first relies on the savepoint of `Atomic` to lose a race without losing the block.
* A handler of `/auth/*` meets other requests in the token store and in the rows of the
  accounts; a throttle in its cache; a login with a provider in the JWKS cache. They
  share the process and its clock and nothing else.
* `makemigrations` hands a plan to the writer, the executor runs it from the file, and
  `squashmigrations` hands the operations of several files to the optimizer.
* A feature call edits the sources that the code generator wrote and that developers
  edit, and leaves the archive and the manifest to the next call.

### What is hard to test

Interleavings at awaits, `CancelledError` (which `except Exception` does not
catch), a commit in doubt, SQLite's implicit `BEGIN`, tasks that outlive the
block whose session they inherited; processes that die between two statements,
releases with different files on one database, squashes that are partly
applied; waiters at a gate, threads that outlive their call; replays of a token that
race each other, the owner and a logout; entries that expire by two clocks; rows that
others add between a collection and its deletes; a file written and the record of it
not; operations that are reordered around a rename or a foreign key. `PROJECT.json`
lists each of these as a hazard at its line, with the property that covers it
or the reason why none does yet.

## 2. The models

### `Atomic`: atomic() blocks

A *task* is an asyncio task; a *block* (a frame of `atomic()`) gets the next
number when it is entered. `stack[t]` are the blocks a task has entered,
`inherited[t]` those it was created inside (the copied context); `Enclosing` and
`OpenBlock` are `_open_blocks` and `_open_block`. An outer block owns a session:
`log` is what its transaction holds, `sps` its savepoints with their place in
the log, `begun` whether the driver is inside a transaction, `durable` what the
database has.

One action is what the code does between two awaits. `_SerializedSession` runs
one operation at a time, so a session operation is one step; the commit is two,
for it is the one during which others visibly queue (`CommitStart`, then
`CommitDone`, `CommitFails` or `CommitCancelled`). The way into a nested block on
SQLite is three steps (`CheckTransaction`, `BeginTransaction` or `BeginRefused`,
`OpenSavepoint`), because `exec_driver_sql("BEGIN")` goes past the lock. Leaving
a block by success, exception or cancellation, a savepoint that is gone because
an overlapping block took it along, the rollback that follows a failed commit
and queues behind waiting writes, closing the session and running callbacks are
actions of their own.

`Transactions` is what the docstrings promise a program that opens and leaves
blocks one at a time: scopes with their writes and callbacks, and no word of
sessions or savepoints. `AtomicRefinement` cuts log and callback lists at the
marks into scopes; `AtomicImplementsTransactions` is the refinement. Its
`SequentialInv` is what the proof of it needs.

What is abstracted: the driver is SQLite's, the one for which
`_begin_sqlite_transaction` does anything (for others `begun` would hold from the
first statement); statements are writes with a number; a task may be cancelled
in the body of a block, in the commit, while closing and in a callback, not
while it enters a nested block.

### `MigrationGraph` and `Migrate`: migrations

`MigrationGraph` is the pure part: which squashes are in use, which node a name
stands for, the apply order (`_sort`), targets, the history a rollback counts,
plans, and what refuses a plan. A target that is neither a node nor among the originals of a squash
refuses the run, too. Migrations are numbers in file-name order; the
prefixes by which the command line names them are left out.

`Migrate` runs it: each process loads the files of its release (`Start`), waits
for the lock (`Acquire`, `LockTimeout` on MySQL), plans from what is recorded now
(`MakePlan`, `Refuse`), runs operation after operation (`RunOperation`) and
records each migration (`Record`, `Unrecord`, `RecordSquash` for a squash that its
last original completes). It may fail or die at any step; then its transaction
and its lock are gone. The schema is the set of operations in effect; an
operation fits it when it is not in effect yet and what it builds on is. `view`
is the schema inside the transaction of a process and `CommitsWith` says when it
becomes the committed one before the record does: non-atomic migrations, DDL on
MySQL, the `RELEASE` of the savepoint on SQLite.

A *site* is a database with what is asked of it: dialect, processes, requests,
tables that exist, number of runs. The operations of a squash are those of its
originals, one after the other; what the optimizer makes of them is not part of
this model. The insert of the record and the commit behind it are one step.

### `ProjectScope`: one project at a time

Tasks, each on an event loop, make calls on projects. `gate` is `_Gate`, one per
loop; `loaded` is `_loaded_root`, one per process; `scopes` the calls a task is in. (a call
inside is compared with the outermost, `Current`, which calls inside it never set).
The condition's lock is only held between awaits, so each section under it is a
step: `Enter`, `Wait`, `WakeUp` (which looks again), `Leave` and `Cancel` with
`notify_all`, `GiveUp` for a waiter that is cancelled. `StartThread` and `EndThread`
are `asyncio.to_thread`; a cancelled call leaves its thread behind. A task has at
most one thread.

### `Upsert`: get_or_create() and update_or_create()

Tasks call the two on one unique key, each in a transaction of its own: `get_or_create`, or `update_or_create` with defaults that all name fields, that do not
(`save`), or without any (`Kinds`). An action is
a statement: `Lookup` (with `FOR UPDATE` where `Locks` says so, so that it waits for
whoever holds the row), `Create`, whose insert waits for an insert of the same key,
`Again` after an `IntegrityError` was undone by the savepoint, `Update` with the columns of the
defaults or, where `_update_fields_for` returns None, with all (`Written`), `Commit`. `HasBlock` is `_create_block`: a savepoint around the insert. Other
transactions delete the row, and a call may be cancelled at any await. A row is an id
and, for each task, whether the column that task writes holds its value. The database
commits reads (READ COMMITTED) and locks rows that are there; on SQLite writers exclude each other. MySQL's default,
REPEATABLE READ with its gap locks, is not modelled: there two calls that look for a missing row can end in a deadlock.

### `Deletion`: delete()

`frames` are the calls of `_collect` that have not returned (the recursion made
explicit), `order` and `data` what they have collected, `updates` the `SET_NULL` and `SET_DEFAULT`
to come, `refused` what met `PROTECT` or `RESTRICT`. `Follow` looks at one foreign key of one
batch, `Check` decides the refusal, `Update`, `StartDeletes` and `DeleteModel` (join tables, `pre_delete`,
`DELETE`, `post_delete`) are the statements of `Collector.delete`. `Save` is another transaction that
adds a row at any time where the database enforces foreign keys, whose `ON DELETE` clauses
(`to_db_ondelete`) are `Gone`, `IsRefused` and `Redirected`; `SET DEFAULT` puts NULL (`DbValues`), for `build_table`
gives a column no server default. `overtaken` are the foreign keys whose model was collected before the one it
refers to, `added` the rows others added during the call. A *site* is a schema, with its foreign keys in the order
of the model registry, and whether keys are enforced.

### `Features`: deactivate, activate, delete

A file of the model is whatever archiving moves as a whole: the block of a class, the
import of one in a module that stays, a file of tests; its text is a number that an
edit of a developer changes. One action is one write to the disk: the fragment (`Cut`), the module
without it (`CutHost`), the record (`RecordBlock`, `Checkpointed`), imports (`Trim`), tests (`Move`), routes,
the manifest; and back. `CutShort` ends a call after any of them. What comes next looks at
archive, record and status as the code does (`Listed`, `IsToBePutBack`, `Allowed`). `hurt` are the files a cut
left off the record, `lost` those of them whose text went because of it. One call runs at a time.

### `Optimizer`: squashmigrations

A state is a list of operations that apply one after another and their effect: the
schema, and the schemas `RunSQL` found. `OnePass`, `IsBarrier`, `CanMoveBack`, `Fuses` and `Cancels` are
`_one_pass` and its helpers; the property compares the effect of the optimized list.

### `Autodetector`: makemigrations

Three schemas: what the `models` declare, what replaying the `files` gives, what the `database`
has. Developers edit the first; `MakeMigrations` compares it with the second (`TableRenames`, then
`Diffs` in Alembic's order and `DeclaredChanges`, then with `--accept-renames` `AcceptRenames`), orders the
operations (`OrderOperations`) and replays them; `Migrate` and `Rollback` run all since the last
migration on a database that checks foreign keys, reversed and with `Backward` the second time.
A table is its model, its columns (type and foreign key) and its indexes, which keep
the name they were made under. The order of table names is any (`Orders`). Constraints,
NULL and defaults are treated as types are and left out.

### `RefreshTokens`, `Throttle`, `SigningKeys`: state between requests

`RefreshTokens`: a token is a number in the order of issue, its family the first token of its
login; `data` is the store with the expiry of each key. An action is what a handler does
between two awaits: `Present`, `CheckFamily`, `ConsumeOnce`, `RevokeReused`, `LookUpUser`, `RefreshIssues` are a refresh.
Any request may present any token, at any time; accounts are barred and deleted. The clock moves between requests and
while a handler waits for the database (`AtDatabase`); the in-memory store never makes one wait.

`Throttle`: `check_and_record` holds the cache's lock without an await and is one step, so a request
is one too; a view asks all its throttles, which count whichever of them refuses.

`SigningKeys`: logins run on one event loop and wait for the lock, which is fair, or for the
provider, which answers late or never, publishes and withdraws keys. The code between takes
no time on the clock.

All three read `Clock`, and each says when a tick may pass. `MCApi` and `MCCalls` compose models that share nothing but the clock: a behaviour moves one
of them (`part`), so that the state space is the sum of theirs, not the product.

## 3. The runs

`PROJECT.json` lists them; every property of a passing run has a mutant, a
plausible bug in one mapped definition (`\* Mutated:` in the modules), under which
TLC finds it violated.

| Run | Configuration | Shows |
|---|---|---|
| `atomic_sequential` | `AtomicSequential.cfg`, 1 task, 2 databases, 3 blocks, 2 writes, 2 callbacks | `AtomicImplementsTransactions`: savepoints, marks and lists are all-or-nothing scopes; a failed block leaves no write and no callback |
| `atomic_shared` | `AtomicShared.cfg`, 2 tasks, 1 database, 4 of: 3 blocks, 2 writes, 2 callbacks; cancellation, outliving tasks; fair | nothing durable but through the outermost commit (`DurableOnlyThroughCommit`), and then whole (`CommitIsWhole`); callbacks follow it, once, in order (`CallbacksFollowCommit`, `CallbacksInOrder`); operations return (`OperationsReturn`); the inductive invariant of the proofs (`CommitInv`, which contains `DurabilityInv`) |
| `atomic_timeout` | `AtomicTimeout.cfg` | **violated**: an inner block left by `CancelledError` keeps its writes |
| `atomic_begin` | `AtomicBegin.cfg` | **violated**: two gathered tasks that enter nested blocks first thing send two `BEGIN`s |
| `migrate` | `Migrate.cfg`, six sites, 2 processes, up to 4 runs each; failures and crashes; fair | `SchemaFollowsRecord`, `OperationsFit`, `PlanIsCurrent`, `DependenciesAreApplied`, `SquashesAreWhole`, `RunsReachTheirTarget`, `RollbackUnappliesTheLast`, `IrreversibleStaysApplied`, `RunsEnd` |
| `migrate_sqlite` | `MigrateSQLite.cfg` | **violated**: a crash after `RELEASE` leaves a migration in effect and not recorded |
| `migrate_branch` | `MigrateBranch.cfg` | **violated**: a rollback applies what was merged below its target |
| `migrate_old_release` | `MigrateOldRelease.cfg` | **violated**: an old release leaves a squash recorded without its originals |
| `scope` | `ScopeGate.cfg`, 3 tasks, 2 projects, 5 calls, cancellation; fair | `CallsKeepTheirCode`, `ActiveIsCounted`, `CallsAreAdmitted` |
| `scope_threads` | `ScopeThreads.cfg` | **violated**: a thread loses its project's code |
| `api` | `Api.cfg`: 2 requests, 1 account, 3 tokens that live 2 ticks; 3 clients under 2 throttle keys; 2 logins, 2 key ids; 4 ticks | `OneHeir`, `RevokedFamiliesEnd` (but for one late token); `RateHolds`, `RetryAfterIsEnough`; `NewKeysAreFound`, `WithdrawnKeysExpire`, `ForcedFetchesAreRare` |
| `calls` | `Calls.cfg`: 3 tasks, 3 calls, 3 databases; 6 schemas of 3 models with 4 rows; 2 features, 3 calls, 1 edit, 2 cuts; lists of 5 operations on 3 tables; 3 edits of 3 tables with 2 columns | `CallsSucceed`, `UpdatesAreKept`; `DeletesAreWhole`, `RefusalsAreRight`, `SignalsPrecedeDeletes`; `NothingIsLost`, `StatusIsTrue`; `OptimizedListsAreEquivalent`; `PlansReachTheModels`, `RollbacksRestore` |

Why the bounds are enough. *Atomic*: the smallest history in which savepoints of
two tasks overlap needs an outer block and two nested ones, and one write to go
astray; two writes are needed to tell a whole commit from half a one, two
callbacks to tell an order. The sequential run has all of it at once and a second
database in between. *Migrate*: the sites hold a squash, a squash of it, originals
deleted in one and in two steps, a release from before, and targets before, inside
and behind each, and `--fake` and `--fake-initial` with all files and with one missing; two runs bring a database into a state and into another, the third
and fourth find what a failed one left. `Transactional` and `NobodyFakes` exempt from
`SchemaFollowsRecord` what the code does not promise: MySQL's DDL, non-atomic
migrations, and runs that are asked to change the record alone. *Scope*: one call
inside, one waiting, one newcomer that overtakes it; five calls let a task come back. *Tokens*: two requests race, three tokens are a login, its
heir and one issued too many; the clock passes a token's life twice. *Throttles*: a key used
by two kinds of request, a client under two keys, windows of different length. *Keys*:
one id in, one out, the cache of unknown ids holds one. *Upserts*: two creators and a task
that updates what the winner wrote. *Deletes*: the schemas are chosen for a child of two
parents of which one is the other's child, which the registry has before or after them, by CASCADE and by RESTRICT,
self-reference, two references to one model, join tables, and every rule. *Features*: a file two features own, a call cut short, its repair cut short, and
a call after. *Lists*: two operations that combine, what is between them, and what both of them
stand on. *Edits*: a table moves, what refers to it changes, and one of the two goes.

`CHECK_DEADLOCK` is off everywhere: a program may end, and the bounds stop it.

### Fairness

`Atomic`: weak fairness of `Proceed(t)`, the steps a task takes by itself once it
began an operation: the event loop runs every ready task and the driver answers.
Nothing makes a program leave a block. `Migrate`: the same for a running process;
its ENABLED is written out (`CanProceed`), a lock that is free is granted. Crashes
are not fair. `ProjectScope`: who is woken runs and threads end (weak); calls return
(strong, for a call can start a thread again and again, though a body only does so
finitely often).

### Also seen, not run

These disagreements between comments and code, and limits of it, came up with the models.
They are not runs of their own; where a property would be violated, its comment names the case and its formula
leaves out that case and no more.

*Transactions and migrations*

* Nested blocks of gathered tasks that overlap take each other's savepoint along,
  so that a block that failed can leave a write (`SavepointGone`; two tasks, no
  cancellation, `FailedBlocksLeaveNothing`).
* `squash_migrations` lists `replaces` in file order (`migrations/cli.py:540-545`),
  which `originals()` takes for the apply order.
* `makemigrations --accept-renames` of a column that has an index: `AddIndex` on the new column precedes
  `RenameField`, and the migration fails (`autodetector.py:739-757`, `454-520`; promised in
  `docs/orm/migrations.md:506`). The model has these plans; `PlansReachTheModels` leaves them out (`IndexedRename`), for they
  do not reach the models.
* A foreign key whose target changes on a column that stays is not detected; when the
  old target is deleted in the same go, PostgreSQL refuses to drop it.
* Two models that refer to each other can be neither created nor dropped by one migration on PostgreSQL.
* A table rename is not recognised when another model takes the old table name in the
  same go, or when the class was renamed before: the migrations keep the name they were made with
  (`autodetector.py:413-441`, against the comment at `374-376`). Then the rows are lost or change their model.
* `CreateModel.forward` skips a table that exists and `DeleteModel` one that does not; the models are
  stricter.

*Deletes and upserts*

* A child that the registry has before one of its two parents (`C -> A` before `C -> B` and `B -> A`, say) is
  collected before that parent and deleted after it, against the comment at `deletion.py:286-288`. If it refers to that
  parent by CASCADE the database takes it along, so that its `pre_delete` comes after it is gone (`264-265` says before)
  and the count of `delete()` is short by it; `SignalsPrecedeDeletes` allows these rows (`Overtaken`). If it refers by RESTRICT the database
  refuses a delete that is to succeed, for the row goes in the same operation (`25-27`); `RefusalsAreRight` allows this
  error. The sites `Shop2` and `Twice` have both.
* `ON DELETE SET DEFAULT` puts NULL: `sa_builder.py:47-48` sets a client-side default only, and `67-72` the clause. Rows
  added after the collector's own UPDATE get NULL where `deletion.py:30-31` promises the field default, and so do rows whose
  default goes in the same delete; a column that may not be NULL would have the delete refused. `DeletesAreWhole` says so.
* Rows added between collection and delete go by the database's clauses, without signals.
* On SQLite an `update_or_create` with a default that names no field saves all it has read without a lock, and takes back
  what another call committed since (`queryset.py:2355-2356`); `UpdatesAreKept` leaves it out (`SavesBlindly`).
* On SQLite `update_or_create` may miss the row it found, despite the docstring (`queryset.py:2311-2312`); on MySQL
  with REPEATABLE READ `get_or_create` inside an enclosing block re-raises the `IntegrityError`.

*Tokens and keys*

* `update_last_login` writes the whole row (`auth/models.py:84-87`, called at `router.py:391-393`) and so reactivates an
  account that was deactivated between its read and its write.
* A refresh that is past `is_family_revoked` when a logout or a replay revokes its family issues its pair
  (`router.py:370-378`), though the docstring of logout says that a stolen token "cannot mint new access tokens after logout"
  (`443-444`). It is one token, whose descendants are refused as long as the mark lives; if the refresh waited for the
  database in between, its token expires after the mark and can be refreshed then. `RevokedFamiliesEnd` claims no more.
* A store so slow that a token expires between two of its calls breaks `OneHeir` and `RevokedFamiliesEnd`
  (`router.py:379-382`); both are stated for a store that does not wait, as the one in memory.
* A refresh of a stale key set that fails has no cooldown; each login tries again.
* Where a fetch may take as long as the cooldown, logins that queue behind each other's failing fetches are answered
  from a key set nobody looks at again, and trust a withdrawn key for longer than the cache lives
  (`WithdrawnKeysExpire`; four logins, cooldown, timeout and life of one tick).
* `get_or_create_user_for_identity` creates the account and the identity in two commits.

*Features*

* A crash between writing the module and the record leaves the fragment off the record, and a
  later `activate` purges it with the archive, or a rebuild (`intent.py:1453`) puts a generated class in its place: a hand-edited text
  is gone (`feature_archive.py:3-5` and `352-354` say otherwise). The same holds of the imports trimmed by a run that is cut short.
  Deactivate, die there, deactivate, activate is enough. `NothingIsLost` leaves out the files it happened to (`lost`).
* The one test file of an old manifest is destroyed although another feature owns it
  (`feature_manifest.py:338`); the properties are about files of one feature.
* `delete_feature` marks the entry only after it began (`intent.py:1945`); `activate` with the record gone and
  the specification there restores nothing and sets ACTIVE; `_models_without_delete_migration` accepts an old
  `DeleteModel`; `build_feature` on an archived feature recreates its code and leaves the status.
* Two calls on one project run in threads side by side, and the manifest is loaded, changed
  and saved without a lock (`feature_manifest.py:307`): one of two entries is lost.

*Agents*

* Gates are per event loop and the loaded project is per process: calls on two
  loops switch under each other. A call on another project inside a call switches the code
  under its siblings.

## 4. The proofs

TLAPS checks them for every set of tasks, blocks, migrations, sites, projects, keys, logins and
features that satisfies the named assumptions (`AtomicAssumption`, `GraphAssumption`,
`MigrateAssumption`, `ScopeAssumption`, `TokensAssumption`, `UpsertAssumption`, `ThrottleAssumption`,
`KeysAssumption`, `FeaturesAssumption`), which TLC evaluates in the runs. They only say of what type a constant is;
the last also says that a class and its imports are of one feature. What a theorem needs beyond them is
written in its `ASSUME`.

* `AtomicProofs`: `DurabilityInvariant`, from it `TypeCorrect` and
  `DurabilityIsThroughCommit`. That no write is durable before its outermost commit is
  not inductive: it rests on the release of a nested savepoint never being a commit,
  so on the driver being inside a transaction whenever a savepoint opens on a session
  whose block is open (`SavepointsAreInside`, what `_begin_sqlite_transaction` is for);
  on a waiting write belonging to a block that is committing or settled
  (`WaitingIsForCommit`); on the log of a session holding writes of its block only
  (`LogIsOfBlock`); and on each block being left by the one task that entered it
  (`StacksAreDisjoint`, `NamesAreUsed`, `TasksAreSomewhere`). There is a lemma for each
  action, and above them lemmas for what several have in common: entering a block,
  leaving a nested one, leaving an outer one, steps that move the program counter.
  `CommitInvariant` adds the callbacks, and from it come `CallsFollowCommit`, `CallsAreInOrder` and
  `CommitsAreWhole`. `CallsInv`: callbacks wait in registration order, behind those of
  their block that ran (`CallbacksAreQueued`), and who runs them found an outer block committed, which no
  step takes back (`CallersHaveCommitted`). `WritesInv`: no write in a transaction is durable yet
  (`LogIsNotDurable`), also not one that waits behind a commit (`WaitingIsNew`); with `LogIsOfBlock`
  this makes what a commit adds the log of one block, exactly.
* `AtomicRefinementProofs`: `BlocksAreTransactions`, that `Atomic` implements `Transactions` for one task nobody cancels, to any
  depth and on any number of databases. One task is what it is true of: `atomic_timeout` shows a cancelled
  block that breaks it, and two tasks in one transaction share its marks. It needs, next to `CommitInv`,
  `SequentialInv` (`SequentialInvariant`): blocks are entered on the session of the first block on
  their database (`BlocksAreInside`), callback marks and savepoints rise with them (`CallMarksRise`, `SavepointsFit`), and
  each nested block has its savepoint, but for the one being entered (`BlocksHaveSavepoints`). So log and callback
  list fall into one piece per block (`Picture`): a write or a callback goes to the last one of its session, a release joins
  the last two (`RestIs`, `AroundIs`), a rollback drops the last, and a commit drops the only one and makes it durable.
  Then each action has a lemma with the abstract step it is, or that it is none.
* `MigrateProofs`: first the functions of `MigrationGraph`, whose recursion is taken by the least
  counterexample: what `_sort` returns has every node once, a plan consists of steps on nodes, and
  whatever it skips is recorded. Then invariants, each on top of the one before.
  `LockInv`: the lock makes whoever works on the database the only one (`OneAtATime`), which keeps
  `PlanIsCurrent` inductive (`RunsAreAlone`, `PlansAreCurrent`). `MigrateInv`: what a process holds fits where it is
  (`MigrateInvariant`, `MigrateTypeCorrect`, `IrreversibleIsKept`). `WholeInv` and `FollowInv`: what is recorded is whole, and
  what a transaction sees (`view`) differs from the committed schema by what is done of the step in
  progress, and by nothing else (`SquashesStayWhole`, `SchemaAndRecordAgree`).
  Their hypotheses are about the migrations on disk. `SquashesAreNested`: of two squashes that share
  originals one replaces the other, as `squash_migrations` writes them (`cli.py:501-545`). `SquashesHoldTheirLeaves`: the operations of a squash are
  those of its originals, which is how the model takes them. `SquashesStayIrreversible`: so it is irreversible if one of them
  is; true of `RunSQL` and `RunPython`, which no optimization drops, though not of a field that is added and removed
  in one squash. `MCMigrate` has TLC evaluate the three. What is left is about the database:
  that it started without what the migrations do (`StartsClean`), that it is not SQLite, and that whoever takes it back has the
  squashes of what it has files of (`SquashesAreKnown`). `migrate_sqlite` and `migrate_old_release` show what happens without the
  latter two.
* `MigrateProofs`, on dependencies: `DependenciesStayApplied`, by a fourth invariant on top of `MigrateInv` and `WholeInv`.
  `CourseInv`: what is applied is complete, and so is what each step of the plan in progress leaves, from the
  next one to the last (`StaysOnCourse`, `Course`). It takes two facts. Of the graph: the order `_sort` gives is a chain, each node after what it
  depends on, though the dependency names a squash that another squash replaced, or an original (`OrderIsChain`,
  `DependenciesLieBelow`, `OriginalsAreChain`). Of the plan: its rollbacks run down that chain
  and its other steps up, what is skipped of it is recorded, and a partly applied squash is undone and redone by its
  originals in their order (`PlanIsOnCourse`). A step then goes one place along
  (`CourseGoesOn`), a failure or a death leaves a place on it. No check in the code
  is needed, and `--fake` and `--fake-initial` are among the runs.
  The hypotheses are about files. `HistoryIsWellMade`: a squash is numbered after what it replaces and replaces a chain, in order,
  without gaps in what its last name depends on; it keeps the dependencies of its originals on what is outside; and
  squashes are nested at most twice, as deep as `resolve()` follows them. `squashmigrations` squashes a range of files of an app
  whose migrations `makemigrations` made depend on the one before, and numbers the squash next; but
  for a range that ends in a squash, which may be numbered before what follows it, such a range satisfies it. TLC
  evaluates it on the histories of `MCMigrate`. `FilesAreComplete`: a release has what its migrations depend on, or a squash of it.
  `FilesCoverNames` and `SquashesAreKnown`: who takes the database back has files of all that may be applied, and the
  squashes of them. Without these a release unapplies what a migration it has no file of depends on. `DependenciesAreApplied` itself asks for
  `FilesAreComplete`: a dependency that no file has is not looked for. The run `migrate` has the hypotheses at the
  sites `Releases`, `Nested` and `Adopting`, the last with `--fake` and `--fake-initial`; at `MySQL` (an early release takes the
  database back) the property is checked and not proved, and at `Repairs` one release is not complete.
* `MigrateProofs`, on operations: `OperationsAlwaysFit`, by two more invariants. `CourseInv` also says that what is left of a
  plan is due: no two steps are about one leaf, what is to be unapplied is applied, and what is to run is not
  (`Fresh`, `PlanIsFresh`, `FreshGoesOn`; `Ready` is both parts). `FitInv`: of the operations of the step in progress, those in effect for the
  transaction are the ones it has run, or on the way back has yet to take back (`AreDone`, `StepBegins`, `OperationIsDone`). Then the next
  operation fits: an earlier one of its migration is in effect by `FitInv`; one of another migration by
  `FollowInv`, for that migration is in the complete set the step leads to (`StepsLeadToClosed`, `ForthFits`). On the way back nothing in
  effect builds on it, or what does would be of an applied migration that depends on this one (`BackFits`).
  Next to the hypotheses above it takes `OperationsAreInOrder`: no operation is twice in a migration, a squash does what
  its originals do and nothing else, and an operation builds on earlier ones of its migration or on what its
  dependencies do; TLC evaluates it, too. That is what `order_operations` and the chain of `makemigrations` are for; a migration written by hand may break it.
  `OperationsFit` itself asks that nobody fakes and that all migrations are transactional.
* `ProjectScopeProofs`: `ScopeInvariant`, `ScopeTypeCorrect`, `GatesCount`, and `CodeIsKept` for one event
  loop. The count is a cardinality, so the lemmas say how the set of callers grows and
  shrinks by one; that a gate serves one project at a time and that what it serves is
  loaded is the strengthening.
* `AuthProofs`, on refresh tokens: `TokensInvariant`, `LoginsHaveOneHeir` and `FamiliesEnd`, for handlers that wait for the
  database as long as they like and a store that does not wait. That two tokens of one family are never usable at once needs that an entry in the
  store outlives the token it is for (`EntriesOutlive`), so that pruning it is harmless; that who has presented a
  token holds an entry of it (`RequestsHold`); and that the family mark outlives every token (`MarksOutlive`).
  That a revoked family issues at most one more as long as its mark lives is `LateAreLast`: the one request that was past the
  check (`PastTheCheck`) has consumed the last usable token. The docstring of logout promises none; see "Also seen".
* `AuthProofs`, on signing keys: `KeysInvariant`, `KeysTypeCorrect`, `ForcedFetchesAreApart`, `WithdrawnKeysAreForgotten`, `PublishedKeysAreFound`. Lock, queue and fetch fit
  where each login is (`PlacesFit`), and the ages of the key set, of the unknown ids and of the cooldown say what the provider
  published when (`TimesInv`). A withdrawn key is forgotten only if a fetch takes less than a cooldown and no more
  than the life of the cache (10, 60 and 3600 seconds by default); otherwise see "Also seen" above.
* `ThrottleProofs`: `ThrottleInvariant`, `ThrottleTypeCorrect`, `RatesHold`, `RetriesPass`. A request that passed is in the
  history for as long as its window counts it (`PassesAreRemembered`), though the history slides and is cut to the
  requests of one window: an entry expires no earlier than its latest stamp (`EntriesOutlast`), so neither expiry nor
  pruning drops one that counts. What `wait()` names is when the stamp that
  is in the way slides out (`SlotIsDue`); that needs a rate above zero, or there is no slot to wait for.
* `FeaturesProofs`: `FeaturesInvariant`, `FeaturesTypeCorrect`, `NoTextIsLost`, `ManifestsAreTrue`, for any number of calls and cuts. `NothingIsLost` leaves out
  the files in `lost`, which only a cut inside a file's own step brings about. A call
  leaves all features but its own alone (`Elsewhere`); for its own the invariant says, place by place, where each text is,
  what the record lists and how far the call has come. The record may lag behind the archive by the one file in hand,
  which is what the order of the writes is for.
* `UpsertProofs`: `UpsertInvariant`, `CallsAreNoError` and `UpdatesStay`. Who holds the row has it and is about to write or
  commit it (`LockersHaveTheRow`); who found it, or lost the race for it, finds it again unless it was
  deleted (`TheRowIsThere`); what is written over the committed row has all of its columns (`PendingKeepsTheRow`).

Only model-checked: all liveness (`OperationsReturn`, `RunsEnd`, `CallsAreAdmitted`), for it needs fairness and
`ENABLED`; `RunsReachTheirTarget` and `RollbackUnappliesTheLast`, which
rest on what a whole plan adds up to; and what is computed by recursion over
arbitrary data: the collector of `Deletion`, the optimizer, the autodetector.

## 5. The plan

In the order of what matters most, all but the last two done:

1. `Atomic`, `Transactions`, `AtomicRefinement`, `AtomicProofs`, `AtomicRefinementProofs`.
2. `MigrationGraph`, `Migrate`, `MigrateProofs`.
3. `ProjectScope`, `ProjectScopeProofs`.
4. `Clock`, `RefreshTokens`, `Throttle`, `SigningKeys` and their proofs; composed in `MCApi`.
5. `Upsert`, `Features` and their proofs; `Deletion`; `Optimizer`; `Autodetector`; composed in `MCCalls`.
6. The registry of connections, receivers of signals, two calls on one project at a time.
7. Proofs: `RunsReachTheirTarget`, the collector.

## 6. Not modelled

Most of the source does one of three things that leave no state behind and have no order to get
wrong, which is why the models map to a few percent of its lines only:

* it *generates text*: code generation and class surgery (`zeeb_agents/_utils/code_gen.py`, `class_edit.py`,
  `viewsets.py`, the parts of `intent.py` and `feature_spec.py` that write modules), the migration writer and serializer,
  scaffolds, prompts and schemas of tools. A model of it would be its program over again;
* it *translates*: querysets, lookups, joins and expressions into SQLAlchemy, whose meaning is the
  database's; fields into columns; requests through serializers, filters, pagination and versions into
  objects and back. What could be stated is about SQL or HTTP, which the models would have to
  define first;
* it *wraps libraries*: password hashing, signing, subprocesses, environment files, argument parsing.

Left out of what is modelled, with state of its own:

* the registry of connections and the `Atomic` class, which keeps its context manager on the
  instance; receivers that are connected or die during a `send`;
* two event loops with a gate each; calls on other projects inside a call; two calls on
  one project at once;
* caches and token stores of one's own that keep the default `check_and_record` and `consume_once`, whose race the
  code documents;
* many-to-many managers, batching of large deletes, callables of `SET()`;
* `build_feature` and what the specification of a feature says; prefixes of migration names and `--plan`;
  constraints and defaults of columns in detected migrations.
