# TLA+ models of the warehouse server

The repository is a C++17 server for a small warehouse: users log in, list goods, store goods and take
them.  One process (`warehouse_server`) serves HTTP with a pool of worker threads and keeps its data in
MySQL 8.  This directory holds TLA+ models of the parts of that server whose correctness depends on the
order of events, the configurations with which TLC checks them, and proofs checked by TLAPS.

Paths below are relative to the repository root; `mysql/` is `src/infrastructure/mysql/`.

## The system

| Part | State | Operations | What is hard | What makes it correct |
|---|---|---|---|---|
| `ConnectionPool`, `ConnectionLease` (`mysql/connection_pool`) | idle connections, slot count, stopping flag, one mutex and condition variable | acquire with a deadline, give back, destroy | a factory call outside the mutex, notifications, spurious wakeups, expiry, connections that broke | slots counted exactly, exclusive leases, broken connections never reused, no lost wakeup, `PoolExhausted` only when full |
| `Transaction` (`mysql/transaction`) | active flag | begin, commit, rollback, destructor | COMMIT without an answer | no connection goes back with an open transaction |
| `MySqlConnection` (`mysql/connection`) | libmysql handle, poisoned flag | trusted and prepared statements, poison | which failure leaves a connection unusable | a lost connection is never used again, no silent reconnection |
| `MySqlLegacyUnitOfWork` (`mysql/legacy_unit_of_work`) | a lease and a transaction | users and goods statements | row locks, READ COMMITTED snapshots per statement | every write changes the row it has locked |
| `LegacyWarehouseService` (`src/application/legacy`) | none of its own | login, listGoods, createGoods, takeGoods | failure exits of each, restarts, interleaving of workers | goods are taken once, acknowledged means durable, refused means no effect |
| `InMemoryLegacySessionStore` | token to principal map | create, find | lost with the process | a token only for a login whose transaction committed |
| `MigrationRunner` (`mysql/migration`) | named lock, control tables, the manifest of the build | run | crash between any two statements, lock lost with its session, several builds | steps once, in order, recorded truthfully; nobody serves on less than its manifest |
| `runLegacyStartupChecks` (`src/bootstrap/legacy_startup`) | one transaction over `users` | password scan, first administrator | two processes starting at once | all passwords hashed, an administrator exists |
| `CompositionRoot`, `ProductionPlatform`, `run_server` | started, stopped, the owned objects, listener thread | start in stages, stop | failure of each stage, listener that ends early | teardown in reverse order, once |
| `ShutdownCoordinator`, `SignalShutdownBridge` | stop flag, pending signal | requestStop, wait, signal handler | signal around installation and removal | a request to stop is never lost |
| `Configuration` | none | parse environment | bounds of numbers, several mistakes at once | accepted only as meant, one report names every mistake |
| manifest discovery (`mysql/migration`) | none | read directories, scan statements, checksums | edited files, hidden separators | only what is signed, in order and whole is migrated to, one statement per text |
| `LegacyHttpServer` (`src/api`) | bounded task queue, listener | route, handle, enqueue, shutdown | full queue, shutdown with queued tasks, failures after a commit | every accepted task is run, the status tells what happened to the rows |
| password hashing, SHA-256, client library, `public/app.js` | none or thread-local | pure calls | | |

A request travels: HTTP worker → service → unit of work → lease of the pool → statements → commit → lease back
→ answer.  At startup one thread runs: configuration → client library → pool → migrations → startup checks →
service → API → listener.  The pool is the only object shared by the workers besides the session store; the
database is shared with every other process.

`src/legacy_server_reference.cpp` is not compiled and not modelled.

## Modules

| Module | What it is |
|---|---|
| `ConnectionPool` | the pool and the leases, one action per critical section |
| `BoundedPool` | the counting semaphore the pool promises to be |
| `ConnectionPoolProofs` | theorems about the two, for any number of threads, connections and slots |
| `WarehouseService` | requests on workers, their transactions and locks at the server, sessions, restarts |
| `WarehouseServiceProofs` | theorems about `WarehouseService`, its refinement of `GoodsLedger` among them |
| `GoodsId` | `parseGoodsId`, and the number a text denotes |
| `HttpApi` | an HTTP request from its arrival to its status, extending `WarehouseService` and `GoodsId` |
| `HttpApiProofs` | theorems about `HttpApi`: it is a user of the service, and its statuses are true |
| `GoodsLedger` | what the service promises about durable rows, to its callers and, as statuses, to clients |
| `Migration` | `MigrationRunner::run` in processes of different builds |
| `SchemaHistory` | what the runner promises about a database: effects and records in the order of each plan, service at its end |
| `MigrationProofs` | theorems about `Migration`, its refinement of `SchemaHistory` among them |
| `StartupChecks` | the password scan and the first administrator, in several processes |
| `StartupChecksProofs` | theorems about it, for any tables and processes |
| `TaskQueue` | the queue between the listener and the workers |
| `TaskHandoff` | what that queue promises: tasks are started once, in the order they were accepted |
| `TaskQueueProofs` | theorems about the two, for any number of workers, callers, tasks and places |
| `Lifecycle` | one process from the signal handlers to its exit |
| `LifecycleProofs` | theorems about it |
| `Configuration` | `loadServerConfiguration` as a function of the environment |
| `Manifest` | `discoverMigrations`, `readMigrationBootstrapSql` and the statement scanner as functions of the files |
| `ServerText` | how the MySQL server reads a text, apart from the scanner: the reference for it |
| `Inputs` | one call of a function of `Configuration`, `Manifest` or `GoodsId`, and what its results must satisfy |
| `InputsProofs` | theorems about `parseGoodsId` for texts of any length, `loadServerConfiguration` for any environment, the manifests of any directory, and SQL texts of any length |
| `MCWarehouseService`, `MCHttpApi`, `MCMigration`, `MCStartupChecks`, `MCInputs` | instances for TLC; the other modules need no more than a configuration |

Operators named after a defect and introduced by a `Defect:` comment are variants of the definition that follows
them, with a plausible bug; each is the witness that some property notices that bug.  They are used by no
specification.

### ConnectionPool

`phase[t]` is the place of a thread inside `acquire` (`out`, `asleep`, `awake`, `expired`, `creating`,
`notifying`) or `leased`.  `idle`, `total`, `stopping` are `available_`, `total_`, `stopping_`; `poisoned` is the set
of open connections whose `reusable()` is false.  The predicate form of `wait_for` is what the library specifies:
test, sleep, test after every wakeup, test a last time after the deadline (`LastCheck`).  `Notified` is
`notify_one`: it wakes an arbitrary sleeper, or nobody.  `NotifyAfterFailure` is an action of its own because the
code notifies after it released the mutex; the notification of `giveBack` is inside the critical section.
`Destroy` needs all threads outside: `ProductionPlatform::stop` joins the listener, and the listener its workers,
before the pool is reset.

`BoundedPool` has no connections, no counter and no condition variable: threads ask, are granted one of `Capacity`
slots, are turned away only while all slots are held or after closing, and free what they hold.

### WarehouseService

`pc[k]` is the place of the worker of request `k`: the statement it is about to send.  Each action is one
statement with what the worker does around it; the service's branches (`LoginSelect` covers the password check,
`TakeRecheck` the two negative outcomes) are taken in the same step because no other actor can see between them.
The server is external: `lock` holds the row a transaction has locked (one is enough, no use case locks two),
`write` the uncommitted change, `row` the committed state.  `txn[k]` is `open` while a live connection has the
transaction, `orphan` when its client is gone, `inDoubt` when its COMMIT was sent and no answer came; `ServerDrops`
and `ServerCommits` resolve the last two at any later time.  `nextId` is AUTO_INCREMENT, which is not rolled back.
The pool is represented by `PoolSize` and the set `leased`: that it hands out at most `PoolSize` usable
connections is what `ConnectionPoolProofs` proves.

`Call` is the entry of the four use cases: `Refusal` makes the checks before any connection is asked for, in the order of the
code (session, role, fields), and a request it refuses is over.  Verdicts are the names of `LegacyApplicationErrorCode`.

`GoodsLedger` knows rows and, for each request, one intended write, whether it took effect, and the answer.  The
refinement maps `write` to the intention and the verdict of a finished request to the answer.

### HttpApi

A request is a record of what the code looks at: method, path, header bytes, the largest form part, the authorization, the body's size, whether it
is a JSON object, and its fields.  `Arrive` runs the limits and one handler up to the call of the use case, which is
`Call` of `WarehouseService`; every check yields a status or passes (`Then`, `Check`), in the order of the handler.
`Respond` turns the result into a status, or 500 if making the response throws: `catch (...)` surrounds all of it, also
after the commit.  `Dies` is the death of the process, which leaves requests without an answer (`Broken`).  `ClientLedger`
is `GoodsLedger` again, with the status in the place of the verdict.  The library is external: it reads
the body up to the payload limit, takes the first matching route and calls the error handler.

### Configuration, Manifest, GoodsId and Inputs

These are functions.  A variable of the environment is unset or a text, and a text is a number, a list of origins or another
one; `Text("yes")` stands for `1`, `true` and `yes` in any case.  `Issues` is the union of what the code finds variable by variable.
`ReadChar` is one turn of the loop of `isSingleServerStatement`, on classes of characters; `skip` is the `++i` of
the code.
`ServerText` reads the same texts as the server does, by rules of its own, so that a mistake of the scanner is not shared; all of it is
external, from MySQL's rules for quotes, escapes and comments under the `sql_mode` that `MySqlConnection::connect` sets.
Optimizer hints are read as comments there, and executable comments of any version as code.  A checksum is the tuple of what is hashed, sizes included, so that equal checksums mean equal material.
`.step` files are records, without their layout; `Sorted` is the sort by version and by id, as what it promises: all elements,
in the order of keys that differ.  `Inputs` makes them a state machine of one step, so that
its invariants speak of an input and its result.

### Migration

`pc[p]` is the statement process `p` is about to send; `at`, `complete` and `seen` are the loop positions,
`versionWasComplete` and `recordedSteps`.  `versions` and `facts` are the two control tables, `hits` counts how often
the effect of each step was made durable, `holder` says whose session has the named lock.  `Execute` is the effect of
the statement at `pc[p]`, shared by the normal step and by `Dies`, which leaves open whether the statement in flight
was executed.  A session that lost its client becomes `Ghost` and keeps the lock until `GhostEnds`; a session the
server ended while its client goes on (`SessionEnds`) leaves a process that finds out with its next statement.  A
DDL step takes effect in `Apply`, a DML step in `Commit`, a check step never; cleanup steps are skipped.
The two bootstrap tables are abstracted to one action that is repeatable, because `CREATE TABLE IF NOT EXISTS` is.
The manifests come in as a constant, with the assumptions `discoverMigrations` establishes: versions increase, ids
are unique, no version is empty.

`ImplementsHistory` maps this to `SchemaHistory`: a step has its effect when `hits` says so, it is recorded when its row
says SUCCEEDED under the same checksum, and a process serves when it passed the last version.  A plan is the set of
required steps of a build with, for each, the steps that come before it in its manifest.  Locks, sessions, the
version table and every failure are stutters there.  It is checked without hand-made changes (`MaxDrifts = 0`): a
drift takes effects away, which the abstract database never does.

### StartupChecks

`pc[p]` is the statement process `p` sends next: the scan, the handling of the rows, the INSERT, the COMMIT.  The scan
locks every row it reads and waits for rows other transactions have locked; at READ COMMITTED nothing locks the gaps, so a
scan of an empty table locks nothing.  `todo` is what is left of the result, without the rows that are hashed
already; a row is rewritten (`Rewrite`), refused as damaged or because migration is not allowed (`RefuseRow`), or its
hash cannot be made (`Fails`).  `draft` is what the open transaction changed: `Sees` lays it over the committed table
(`Under`), and the COMMIT makes that the table.  A client that loses its connection leaves
a member of `orphans`, which keeps its locks and, if its COMMIT was sent, may still be committed.  Configurations and the
table found are chosen in `Init`, so one run covers them all.  Credentials are a name, or none that is acceptable.
A process that stopped may be started again any number of times.

### TaskQueue

One action is one critical section of `mutex_`, or one of the two notifications of `shutdown` after it.  A condition
variable is the set of threads asleep on it.  `notify_one` inside the critical section wakes one of them or nobody;
`SpuriousWakeup` is what the standard allows.  The predicate of a wait is tested by a thread that is awake, so a thread
that loses the race goes back to sleep.  Who calls `enqueue` and `shutdown` is left to the HTTP library: any of
`Callers` may do either.  The class is compiled when `CPPHTTPLIB_VERSION_NUM` is undefined (the 0.14.3 of Ubuntu);
newer versions bring a pool of their own, which is not in the repository.

`TaskHandoff` has no threads: tasks are offered, accepted in a line of bounded length or refused, started from its head,
and finished; a gate goes from open to closing to closed, and closes only over an empty line.

### Lifecycle

`pc` is the place of `main` between the constructor of `SignalShutdownBridge` and the restoration of the handlers.
`stage` runs through `CompositionRoot::start`; a stage that fails leaves a prefix of the objects it would have built
(`CouldHave`), and `ProductionPlatform::stop` destroys what there is in reverse order, one object per step, beside the
listener, its requests, the watcher and signals.  `listener` is the thread and what it reports: `starting` until
`is_running`, `accepting`, `draining` while accepted requests are finished (what `TaskQueue` shows about shutdown), `ended`
when its promise is kept, `joined`.  Whether `stop()` has an effect on a server that is not yet running is a property of the library: the
constant `EarlyStop` holds the outcomes that are considered, and where it has none, `main` waits for a listener nobody
stops (`Missed`).  Handlers stay installed after a signal, as on POSIX.  The second `stop()` by the destructors finds
everything stopped and is not modelled.

## Runs

| Run | Instance | Shows |
|---|---|---|
| `pool` | 4 threads, 2 connections, capacity 2 | `SlotAccounting`, `ExclusiveLease`, `PoisonedStaysInLease`, `NoLostWakeup`; every acquire returns; the pool implements `BoundedPool` |
| `service` | 3 requests, 2 users, 1 goods id, 2 connections, 1 restart | `CleanReturn`, `TokenAfterUpgrade`, `WriteStillValid`; the service implements `GoodsLedger` |
| `http` | 2 requests of every kind, 1 user, 2 goods ids, 1 restart | `EveryRequestAnswered`, `StatusTellsEffect`, `TokenHonoured` |
| `migration` | 2 builds of one lineage, 5 steps, 3 faults | `FactsAreTrue`, `AppliedOnce`, `ServingIsMigrated`, `SuccessIsFinal`, `EveryBuildServes`; the runner implements `SchemaHistory` |
| `migration_edited` | 2 builds that disagree on a step, 3 faults, 1 drift | `NoForeignEffects` |
| `startup` | 2 processes, 7 tables, all configurations, 2 faults | `SingleAdministrator`, `PassedIsSafe`, `AllOrNothing`, `AdequateStartPasses` |
| `queue` | 2 callers, 2 workers, 2 places, 4 tasks | `NoLostWakeup`, `DrainedAtClose`, `ShutdownReturns`; the queue implements `TaskHandoff` |
| `lifecycle` | 2 requests in flight, both outcomes of an early stop | `UsersOutlived`, `EndsClean`, `SuccessIsEarned`, `SignalEndsProcess`, `ListenerLossNoticed` |
| `inputs` | environments with up to 2 odd variables, up to 2 versions of up to 2 steps, 14 character classes | `ConfigurationIsSound`, `ManifestIsSound`, `ParsedIdIsExact` |
| `finding_already_taken` | 3 requests | violates `AlreadyTakenIsTrue` |
| `finding_failure_applied` | 3 requests | violates `FailureMeansNoEffect` |
| `finding_deleted_version` | 2 builds, no fault | violates `DeletedStepRefused` |

The runs `pool`, `service`, `migration` and `queue` also check the type invariant of their module.

Bounds.  Two slots and four threads let two threads hold and two sleep, so a notification has a choice of sleepers
and a newcomer can steal a slot from a notified thread.  Three requests are a login whose token is used, and two
more that compete; the third row conflict needs an abandoned transaction, for which one restart or one lost connection
is enough.  `MaxGoods` bounds the ids, `MaxCrashes` the restarts.  With one goods id the competing requests meet on it; the run
with two (`http`) lets them concern different rows and use up ids; there each request is well formed or has one part
that is not (too long a header, body or form part, no object, a field that is missing, of another type or
unacceptable), which reaches every early return of every handler.  With two connections neither of the two requests waits for one;
what `EveryRequestAnswered` exercises is the wait for row locks, of the other worker and of abandoned transactions.
A migration has an earlier and a later step of each kind,
a version boundary and a cleanup step; three faults allow one in the run that fails, one in its recovery and one in
the other process.  Two processes and two faults let a startup lose its connection and meet, after its restart, its own
orphan and the other process.  In the queue, two callers fill two places and then wait while two workers take tasks; one caller
can shut down beside the other.  Restarts of a process that failed to start are not bounded.
In `inputs`, two odd variables show that mistakes are reported independently; numbers lie at and beside 0, 1 and the limits of
their types; `.step` files are signed, or signed and then edited in one part or by moving text from one file to the other; SQL
texts are all those of up to three characters, and of three more after each of six beginnings (a first statement, a quoted
separator, a comment, a quote in a string of the other quote, a backslash in a name, the start of an executable comment), so that each
of the exceptions in `MisreadAt` is met.
Their limits of integers are scaled down (`MaxId` to 31, `MaxSize` to 100000); the code compares and never counts up to
them.  Symmetry (of requests)
is used only by `service`, which checks no liveness.

Deadlock checking is off in all runs because each system may stop for good: a destroyed pool, all requests
answered, all processes serving, a closed queue, an exited process.

### Fairness

`ConnectionPool`: a runnable thread runs; `factory_()` returns because connect, read and write timeouts are set
(`MySqlConnection::connect`); a deadline is met also by a thread that is woken and put back to sleep again and again,
hence strong fairness of `Expire`.  Nothing is assumed about how long leases are held.

`HttpApi` with `WarehouseService`: a worker's statement returns; a connection that stays free is obtained by a worker that waits
for one (`NoLostWakeup` of the pool; the deadline of `acquire` is possible but not relied upon); the row lock is granted to some waiter when it is free, so the
three locking statements get strong fairness; an INSERT beyond the bound `MaxGoods` fails (`InsertWithoutId`); the
server eventually drops a dead connection.  A lock wait timeout or
an error is possible but never relied upon.

`Migration`: a process that failed to start is started again (the recovery the documents describe), statements
return, dead sessions end, and `GET_LOCK`, which can miss the lock any number of times, does not miss it forever
(strong fairness).

`StartupChecks`: statements return, a lock that is free again and again is granted (strong fairness of the scan and
the INSERT), the server ends orphans, and stopped processes are started again.

`TaskQueue`: threads that can run do, and a task ends, because sockets and statements have timeouts.  No fairness is
needed for notifications: they are part of the critical sections.

`Lifecycle`: every thread runs, every stage of the start ends (pool, migration lock and statements have timeouts), and
so does a request.  Neither signals nor failures nor the readiness deadline are relied upon.

## What disagrees with the documents

* **A take that races a create** (`finding_already_taken`).  `markTaken` runs UPDATE, and when it changed nothing
  `SELECT status ... FOR UPDATE`; it answers "already taken" if a row exists, without looking at the status.  If the
  create of that id commits between the two statements, the client is told 该货物已取出 about goods that are stored.
* **Uncertain commits** (`finding_failure_applied`).  The transaction layer reports `CommitOutcomeUnknown`; the
  service maps it to the same error as a rolled back statement, while `docs/STAGE1_INTERFACE_FREEZE.md` line 41 wants
  it to be explicit.
* **Deleted versions** (`finding_deleted_version`).  `docs/DEVELOPMENT.md` line 61 says that records and manifest are
  reconciled both ways; only versions that are still in the manifest are looked at.

Further observations have no run.

* `docs/ARCHITECTURE.md` line 67 says that a repeated start checks the actual structure; steps recorded as succeeded are
  skipped without their verification query (`Choose`).  After `Drift` removed what such a step created, the next start
  serves without noticing.
* `migration.cpp` line 79 says that the files of a step must contain one server statement, but `isSingleServerStatement` reads
  differently from the server in four places: it takes a backslash for an escape also in backticks (line 105) and so misses where such
  a name ends; an executable comment is a comment to it; two dashes before a control character or at the end are code; and a quote that
  opens after the end of a statement is not looked at.  In each, a text of two statements for the server is accepted: `inputs` fails
  if any one of the four is taken out of `MisreadAt`.  Connections are opened without multi-statements, so the server answers such a text
  with an error, at a step that discovery had passed.  About the texts with such a place `ManifestIsSound` says nothing.
* `ConnectionPool::acquire` does not catch an exception of `factory_()` (memory exhausted): the slot it reserved would stay counted.
  `CreateFails` is a failure that is returned; the exception is not modelled.
* An empty directory `migrations` is a valid manifest for `discoverMigrations`; `Migration` assumes that there is
  a version.

* Two first starts on an empty `users` table with different administrator names both insert theirs: the scan has no row to
  lock, and the key on the name stops only equal ones.  `SingleAdministrator` states when that is excluded.
* `docs/DEVELOPMENT.md` line 121 says that an abnormal stop returns a failure.  `runWarehouseServer` looks at the listener only after a
  wait of 100 ms that ended without a request to stop; a listener that fails within that time is reported as success if
  a signal arrives in it too.  `SuccessIsEarned` is what holds.
* A start whose readiness deadline passes before the listener thread ran depends on `stop()` of the library reaching a
  server that is not running (`Missed`); `SignalEndsProcess` shows that a signal is never without effect otherwise.

`AppliedOnce` has an exception that is worth knowing: `verifyStep` returns false both for "not applied" and for a
query that failed, so a step whose verification errs during recovery is executed again.  The property exempts these steps
(`misjudged`); that the records stay true also then is `FactsAreTrue`.

## Proofs

`ConnectionPoolProofs` proves for every set of threads, every finite set of connections and every capacity:

* `TypeCorrect`: `Spec => []TypeOK`.  It includes that just the threads in phase `leased` have a connection, which makes
  it inductive.
* `LeasesExclusive` and `PoisonConfined`: inductive relative to `TypeOK` and to each other (a poisoned connection can only be
  given back by the one thread that has it).
* `SlotsAccounted`: `total = |idle| + |Busy|` by cases on how a step moves one thread or one connection
  (`SlotMoves`), with the finite-set theorems for the cardinalities.  Destruction is covered because no thread is
  inside then.
* `NoWakeupLost`: uses the previous two.  Each step either leaves slots and wakers alone, or moves at most one of each
  (`WakeMoves`); freeing a slot adds a waker whenever somebody sleeps.
* `PoolImplementsSemaphore`: `Spec => ImplementsSemaphore`.  Every action maps to one action of `BoundedPool` or to a
  stutter; `SlotAccounting` gives that `SlotFree` is exactly "not full".

The assumption is `PoolAssumption`: a positive capacity (the constructor throws otherwise) and finite sets.

`TaskQueueProofs` proves for all finite sets of workers, callers and tasks, and every limit, from `QueueAssumption`:

* `TypeCorrect`: the queue stays within its limit, exactly the running workers have a task and exactly the threads inside
  `enqueue` hold one.  It is inductive as it stands.
* `ShutdownDrains`: the inductive invariant `Draining` says that a worker has exited only while the queue is closing and
  empty, which stays so because `enqueue` refuses from then on, and that `shutdown` has returned only when all workers have exited.
* `NoWakeupLost`: one part for each condition variable, with `ClosersClose` (whoever is in `shutdown` has set the flag) to rule
  out the steps of `shutdown` while the queue is open.  `WorkerMoves` and `CallerMoves` classify the other steps: nobody
  sleeps afterwards, or there is nothing to wake up for, or at most one thread and one task move, in the right direction.
* `QueueIsHandoff`: every step of the queue is a step of `TaskHandoff` or a stutter.  The invariant `OnePlace` says that a
  task is not offered yet, in a hand, in the line, with a worker or settled, only one of these and there only once: without
  it a task could be accepted twice, or a task that ends could be running elsewhere.  `FreeWorker` gives that fewer tasks
  run than there are workers when one of them is awake; that the gate closes over nothing is `ShutdownDrains`.

`InputsProofs`, for every `MaxId` of at least 9, all widths in `ConfigurationAssumption`, texts of any length, environments
whose variables are readable as `IsEnvironment` says (each has a list, a word or a number, according to the variable), and
directories of any finite size:

* Induction.  `Induction` is stated for a set of numbers in the place of a formula, and follows from the library's well-foundedness of
  `<` on `Nat`, which needs no operator for a parameter.  From it come `Iteration` (a step function has a sequence of values; so the
  recursive functions of `parseGoodsId` and the CORS list exist) and `IterationTyped`.
* `OverflowTestIsExact`: the test `value > (MaxId - digit) / 10` of one turn of the loop holds exactly when the new value would
  exceed the limit.  `LoopIsSum` is the induction over the text: the loop has the number so far, or `Overflow` once that exceeds the
  limit, and it can only grow.  `EveryTextIsParsed` and `ParsedIds` follow.
* `ConfigurationsAreSound`: `IssuesNamed` turns the union of all issues into the variables that are not clean.  With it a
  configuration means that all are clean, and taking the named variables from a proper environment, the administrator's two together,
  leaves none (`RepairSuffices`).  `OriginsKept` is the induction over the CORS list.
* `MigrationsAreSound`: `Spec => []DiscoveredIsSound`, in two parts.
  * Signed.  `HashedOnce` shows that the sizes in the hashed material separate its parts, for texts of any length, so an accepted file
    agrees with the signed one of its checksum in everything the runner is given.  The assumptions: an author signs a file that
    is there with its `migrationChecksum` (`AuthoredAssumption`), and the `sha256` line of a file found is missing or one of those
    signatures (`RootsAssumption`: nobody signs what he has not written).  Nothing else about the files is assumed; fields and
    texts may be exchanged at will.  A checksum stands for what is hashed, so collisions of SHA-256 are out.
  * Ordered and whole.  `SortingExists` is the induction over the number of elements (the least key first), `SortedIsWhole` adds
    that an order of different keys leaves none out; `StepsInOrder` and `MigrationsInOrder` apply it to ids and to versions,
    where the refusals of duplicates give that keys differ.
* `TextsSingle`: `Spec => []TextsAreSingle`, from `OneStatementPasses`, about every text: if the scanner passes it and it has none of
  the places of `Misread`, then it is one statement as `ServerText` reads it.  The proof is an induction over the text with the
  relation `Together` between the states of the two readings: they are in the same mode and owe the same characters, the server is in no
  executable comment, and unless the scanner has seen a second statement, the server has begun at most one (`Counted`).
  `CodeTogether` has one case for each kind of character in code, `StayTogether` one for each mode; each exception of `Misread` is needed
  in just one of these cases.  `BootstrapsAssumption` says only that the four bootstrap files are texts or missing.
* `ManifestsAreSound`: `Spec => []ManifestIsSound`, which is both.

`WarehouseServiceProofs` proves for every set of requests, users and writers and every bound, from `ServiceAssumption` and
`WriteAssumption` (the marker `NoWrite` is not a write):

* `TypeCorrect` and `ReturnsClean`.  `Asked` ties the place of a worker to the kind of its request, `Transacts` to its transaction: it is open exactly
  between START and the end of COMMIT or ROLLBACK, on every exit of the four use cases, and so no lease ends before it.
* `WritesStayValid` and `TokensAfterUpgrade`.  Neither is inductive alone.  `RowsInv` puts together that a pending write is decided
  and its row locked (`Decided`), that locks exclude each other, also those of abandoned and undecided transactions
  (`Exclusive`), that an id not given out yet is neither locked nor stored (`Unused`), and what a login has seen of its user
  (`Upgraded`).  `RowChange` reduces the steps that change rows to the two commits.
* `ServiceImplementsLedger`: `Spec => ImplementsLedger`, one action of `GoodsLedger` or a stutter for each step, with `RowsInv`
  for the effect of a commit and the meaning of each verdict for the answer.

`HttpApiProofs`, from `HttpAssumption` (the strings in a request are those the use cases tell apart, and an id that parses is a modelled
one or none; with `MaxGoods` equal to `MaxId` that holds of every text):

* `HttpUsesService`: `HttpSpec => Spec`.  The handlers pass only well-formed calls and touch nothing else of the service, so its
  theorems hold behind HTTP.
* `TokensHonoured` and `StatusesTellEffects`, for every request a client may send.  The second is `HttpSpec => ClientLedger!Spec`;
  its invariant relates the place of a request to what has been sent for it, and the table of statuses to the verdicts.

`MigrationProofs`, for any processes, manifests, faults and drifts, from `MigrationAssumption`, which states what discovery
establishes (`ManifestsAreSound`): versions increase, no version is empty, the ids of a version differ.  A key stands for version and id,
so definitions of different versions share none; a checksum stands for all recorded fields, so key and checksum determine a step.

* `TypeCorrect`, `SuccessStays`, `EffectsOnce`, `EffectsAreOwn`.  The argument is that only the holder of the lock writes
  (`Places` gives where it is), and that what it has read stays true while it holds it.  `Knows` states that for the holder:
  its version is as complete as it thinks and no later record has changed (`Fresh`), everything before its place is recorded
  (`Ordered`), and the step at hand has had its effect exactly when it must have (`AtHand`).  `Effects` is what is known of
  a step, whoever migrates: an effect belongs to the recorded checksum, and a second one needs a step in `misjudged`.
  A client that lost its session falls out of `Knows` and can only fail, which is why every write tests the session (`Alive`).
* `ServesMigrated` and `HistoryImplemented` have the hypothesis `MaxDrifts = 0`, since a structure removed by hand is not
  noticed (see above).  `RecordsAreTrue` also needs `SameSteps`: definitions of one version and name require the same
  step keys.  The name of a version is all that is compared of it, and a build with fewer steps under an equal name would close the
  version for one with more.

`LifecycleProofs`: `NothingDangles`, `LeavesNothing` and `OnlyEarnedSuccess`, for any number of requests and either outcome of an
early stop.  The inductive invariant says for each part of `main` which objects there are (`Structure`), which handlers and
threads (`Bridge`), and what the exit code depends on (`Outcome`).

`StartupChecksProofs`, for any tables found, any configurations and any finite set of processes:

* `PassedOnlySafe` and `ChangesWhole`.  `Drafts` says of every transaction, also of those without a client, that it changed only rows it
  has locked, to hashes, takes no role away, and that applying it makes the table safe if its COMMIT was sent.  `Locks` makes them disjoint, so a
  commit of one leaves the others sound; `Scanned` says which rows are still to be done.
* `OneFirstAdministrator`.  `Origin` bounds where rows come from; `Serial` says that on a table with users, a transaction that
  got past its scan has all rows locked and is alone, which is why two processes cannot both find no administrator.

The constants are arbitrary in all of these, but `MaxGoods`, `MaxCrashes`, `MaxFaults` and `MaxDrifts` remain bounds, of any size.

Model-checked only.  All liveness: `ShutdownReturns`, `EveryRequestAnswered`, `EveryBuildServes`, `AdequateStartPasses`,
`SignalEndsProcess`, `ListenerLossNoticed`, that every `acquire` returns, and the fairness of `TaskHandoff`, the only one of the
abstract specifications that has any; the proof system proves neither fairness nor `ENABLED`.  Every safety property of
the runs that pass is a theorem.

## Not modelled, and the plan

Not modelled: CORS headers, the JSON and the texts of responses, the lookup of static files (found or not is a part of the
request), password hashing and digests, parameter binding, the lists of the migration report, the page in `public/`.
Nothing about them depends on order or shared state.  `src/legacy_server_reference.cpp` is never compiled: it is the
former program, kept to verify a stage of the rewriting.

Next, in this order:

1. `StartupChecks` composed after `Migration`, on the same processes.
2. `MigrationAssumption` derived from `ManifestIsSound`: the records of `Migration` as an image of the manifests of `Inputs`.
