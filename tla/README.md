# TinyOrmPlayground in TLA+

TinyOrmPlayground is a console program that exercises the TinyORM library
against real databases. `main()` creates a `TestOrm`, connects to every
database, runs a list of *PlayTests* on every connection to test, some in the
main thread and, in a multi-threaded build, some in a worker thread of their
own, counts every statement the databases execute and prints an *Application
Summary*. This directory models the program's own logic: how threads share (and
must not share) connections, thread-local state, counters and the log, and what
is left of a run in which something fails, in memory and in the databases. TinyORM and Qt are modelled from how
the code uses them.

Paths below are relative to the repository's `src/` directory.

## 1. Inventory

| Component | State | Operations | Correct when |
|---|---|---|---|
| `testorm.cpp`, `main.cpp`: the run | position of each thread, connections the loop has left, exit code | `connectToDatabase`, `run`, `testAllConnections`, `testConnectionInMainThread`, `testConnectionInWorkerThread`, the catch blocks | the run ends, never while a worker runs; the summary speaks of ended workers only; a worker's failure disturbs nobody |
| `configuration.*`, `services/configurationsservice.cpp`: connection tables | `ConnectionsToTest`, `ConnectionsToRunInThread`, `ConnectionsToCount` (thread-local), tables | which connections a thread configures, counts, lists | no thread meets a connection it has no configuration for; no two threads open one name |
| `services/querycountersservice.*`: counters | counters of each thread (thread-local), four vectors and a map for the application under `m_countersMutex` | reset, take, save, summary | each statement on a counted connection of a logged PlayTest is counted once, by its own thread, and reported |
| `support/*`, `querycountersservice.cpp`: the log | `g_inThread`, `g_logFromThread` (thread-local), log file stream, vector of logs and map under `mx_dataLogStream` | `tinyMessageHandler`, `saveLogsFromThread`, `replayThrdLogToConsole` | workers do not pollute the console; blocks of the log file do not mix; no message lost, doubled or reordered |
| PlayTests (`tests/*.cpp`) | rows and tables of the databases, an SQLite file | reset counters, statements, log counters; blocks that write and clean up behind themselves, outside of transactions | a complete run leaves the databases clean, whatever it found; what a failed run left is not taken for something else |
| totals of printed counters (`querycountersservice.cpp:571-738`) | none (pure) | sums where -1 means "not counting" | printed totals are the sums of what counts |
| models (`models/models/*.hpp`) | declarations: relations, relations to eager load (`u_with`), owners to touch (`u_touches`), timestamps, connection | TinyORM loads and touches along the declarations, recursively | the recursions end, name only relations that exist, and touch every owner |
| TinyORM `DatabaseManager`, connections (external) | configurations, default connection, opened names, counters per connection | `addConnections`, `connection`, counters | – |
| build files, `tools/*.ps1` | – | – | – |

Interaction. Threads start as `std::jthread`s inside a block of
`testAllConnections()` whose end joins them. They share the process-wide
connection names of QtSql, the application counters and the log stream (each
under a mutex), and nothing else, provided that `T_THREAD_LOCAL` is
`thread_local`: a compiler without it makes the macro empty, and then
`throwIfUnsupportedEnv()` must have refused to go on before a worker starts.

What is hard here: steps of the workers and the main thread in any order
(saving counters, streaming logs); lists computed at different times from a
configuration that is sanitized in between; exceptions in any thread at any
time; the joins; thread-local variables that are not; runs that fail or are
killed between a block's first write and its clean-up, and the runs after them;
recursion along declarations that are spread over many models. `PROJECT.json` lists
every such hazard at its line with the properties that cover it.

## 2. Modules

| Module | Models | Correspondence |
|---|---|---|
| `Configuration` | tables of `class Configuration` as shipped | values for the constants, used by the runs |
| `Connections` | `ConfigurationsService`, the connection lists of `QueryCountersService` | one operator per method, a function of the tables and of the user's two lists; `ConfigurationAssumption` says what the tables must satisfy |
| `Globals` | `support/globals.hpp`, threads | thread-local variable = function on *slots*; `Slot(t)` is the thread's own or, without `thread_local`, the one shared slot |
| `DatabaseManager` | TinyORM / QtSql as used (external) | `addAndCount`, `setDefaultConnection`, `execute` |
| `ThreadLog` | message handler, `saveLogsFromThread()`, replay | lock, one step per streamed message (or push, then index), unlock |
| `QueryCounters` | counters of threads and application | reset and take per PlayTest; lock, add (or push, then index), unlock |
| `TestOrm` | the run: main thread, workers, PlayTests, exceptions | `pc[t]` names the place in the code; one action per step |
| `PlayRun` | abstract: what a run promises | phases of threads, what each counted, report, result |
| `TestOrmProperties` | the properties, the strengthenings for the proofs, the refinement mapping | – |
| `CounterTotals` | totals of the summary's counters, -1 as "not counting" | one step per round of the loops of `appSumUpCounters()` and `appStatementsCounterPrintable()` |
| `MCCounterTotals` | the reference sum and the properties of the totals | – |
| `Leftovers` | abstract: what PlayTests promise a database over repeated runs | blocks that get dirty and clean again; dirt of failed runs heals in named blocks only |
| `SchemaTables` | tables of `testschemabuilder.cpp` over several runs | one operator per block, the sequence of its statements; a step issues a statement, ends a block, fails or starts the next run |
| `RowBlocks` | rows of `testquerybuilder.cpp` and `testtinyorm.cpp` over several runs | as above, one operator per block that writes, named after the block |
| `CheckDatabaseExists` | the SQLite file of `testconnection.cpp:71-110` over several runs | one action per statement of the block |
| `ModelRelations` | the models' relations, eager loads and touches | one definition per model; `eagerLoadRelations` and `touchOwners` are TinyORM's part, one step per query or touched model |
| `MCTestOrm` | instance for TLC | constants of the runs |
| `TestOrm_proofs`, `Logs_proofs` | theorems on a run | see section 5; the second extends the first |
| `CounterTotals_proofs`, `Leftovers_proofs`, `SchemaTables_proofs`, `RowBlocks_proofs`, `CheckDatabaseExists_proofs`, `ModelRelations_proofs` | theorems on their component | see section 5 |

`QueryCounters` extends `DatabaseManager` and `ThreadLog`, which share
`Globals`, which extends `Connections`. `SchemaTables` and `RowBlocks` instantiate
`Leftovers` under a refinement mapping. Operators preceded by a comment
`Mutant:` are not part of the model: each is a plausible mistake in the
definition below it, and the property it breaks shows that the property is
sensitive to the code.

### Modelling decisions

* **What the user edits.** `ConnectionsToTest`, `ConnectionsToRunInThread` are
  chosen by `Init` among all subsets of `RemovableConnections`; whether the
  compiler supports `thread_local` is chosen as well. The order of
  `ConnectionsToTest` is abstracted: the loop picks any connection it has left,
  which includes every order. The build's constants `ConnectionsInThreads`,
  `IsLoggingToFile` and the set `TestsToInvoke` are CONSTANTS.
* **PlayTests.** A PlayTest resets the counters of the thread's connections,
  executes at most `MaxStatements` statements on the connections it asks for
  (`connectionsOf`: the default connection, `Torrent`'s own, the main thread's
  MySQL connection, ...), each possibly modifying records, and logs. It may
  throw at any time. `TestAllOtherTests` neither resets nor logs.
* **Counters.** Normal, affecting and transactional counters are reset, taken
  and added together: one number stands for them, and the elapsed counters move
  with them. The thread's counter is kept per connection (the addends of the
  sum in the code). The four `m_app` vectors grow together: one sequence.
* **Atomicity.** Thread-local work is atomic per call. What is shared is split:
  `saveCountersForAppSummary()` and `saveLogsFromThread()` take a step for the
  lock, for each write to shared state and for the unlock. Reads of
  `QSqlDatabase`'s registry are protected by Qt and are part of the call.
* **Messages.** A call that logs several lines logs one message, numbered in
  its thread. A replay logs its header and then the whole log of a thread.
* **Failures.** `MainThrows`, `WorkerThrows` are enabled wherever a statement,
  a test's assertion on an exception, a connection, the log file or starting a
  thread may fail. `connectToDatabase()` and the worker's connecting fail or
  succeed as a whole. Aborts (`Q_ASSERT`, `qFatal`) end the process and are not
  modelled. `throwIfAlreadyCalled()` cannot happen from `main()`.
* **Tables.** `SchemaTables` keeps which tables, temporary tables and databases
  exist, not their columns, which live and die with their table. One driver is
  chosen per behaviour: no two connections that can be tested share a database
  server. That a name in use makes create and rename throw is the servers' part.
  What stands in a later run's way are `obstacles`: tables, and on MySQL and
  PostgreSQL databases. SQLite's database is a file that `createDatabase()`
  truncates, so one that a failed run has left is recreated and dropped by the
  next run and is not counted as a leftover in any property.
  The last step of a failed run drops its temporary tables with its connection.
* **Rows.** In `RowBlocks` a row is its name and of the seeded rows only the
  columns the tests change are kept (names are written with underscores where
  the code has blanks or adds which torrent a file is of). A name is unique among the rows it is used
  for, as the code relies on (the tables are created by migrations of another
  repository). A changed column either differs from the seed or, where the code
  writes back what it read or adds and subtracts, carries how often it was
  changed. Pivot rows go with the rows they join; timestamps, and the progress
  columns that the Timestamps blocks count up in every run, are left out. Every
  connection under test has its own database, so one list of blocks is enough,
  and the two tests are played in the order of `testConnection*Thread()`.
  `onMysql` says whether that connection is `Mysql`, for one statement differs.
* **Assertions on rows.** A `Q_ASSERT` stops a debug build only; each run may be
  of either build. An assertion follows the statement it looks at, so in `Aborts`
  the statement has its effect and the process then ends (`running` is
  "aborting" until `Fails`). Modelled are the assertions that leftovers can make
  fail: on how many rows `insertOrIgnore()`, the `update()` with join and the
  `remove()` with limit have affected (`affectedDiffers`), on models that must
  not exist yet (`modelExists`: `test1_fileXX.mkv`, `tag20`) and on the name of
  torrent 3 (`modelDiffers`). On MySQL the `update()` with join must affect two
  rows (`tests/testquerybuilder.cpp:419`), and a row that has its values already
  is not affected: a debug build on MySQL stops there as long as torrent 5 keeps
  the values a failed run has given it. The other assertions on rows cannot fail once the
  statements before them have not thrown and their assertions have held, for
  those have made the rows that are looked at.
* **The SQLite file.** It is absent, empty or with its table. An open file can be
  deleted or cannot, by platform, and the result of `QFile::remove()` is not
  looked at, as in the code. `ConnectionsToCount` may differ between runs.
* **Models.** The row set of at most one model is empty, so that a recursion may
  stop there; a recursion that visits a model twice with the same paths visits it
  once in `pending`. `withOnly()` and `load()` only leave out a model's own
  `u_with` and are not modelled. Keys, pivots, casts and defaults decide which
  values are returned, not what is visited.
* **History.** `running`, `played`, `emitted` record what really happened, for
  the properties; no action's guard reads them but the bound `MaxStatements`
  and the numbering of messages.

## 3. Properties

* `TypeOK`: types, and which thread may be where.
* `ConnectionNameExclusive`: no two threads ever open the same connection name.
* `InThreadFlagFaithful`: `g_inThread` holds in a worker from start to end and
  never in the main thread.
* `ConfigurationPresent`: a test never meets a connection its thread has no
  configuration for.
* `CountersConserved`: a thread's counters are exactly what its logged PlayTests
  executed on the connections it counts.
* `AppCountersConsistent`: with the mutex free, vectors and map agree.
* `SummaryComplete`: a successful run reports the main thread and each worker
  that did not throw, once, with all it counted.
* `LogFileInBlocks`, `LogDelivered`, `ConsoleNotPolluted`: the log file consists
  of whole blocks, each of one worker and in order (that no worker has two is
  part of `LogDelivered`); a successful run has output every message of a
  thread that did not throw once and in order; a worker writes to the console
  only to report its exception.
* `ImplementsPlayRun`: the run implements `PlayRun` under the mapping at the end
  of `TestOrmProperties` (phases from `pc`, what was counted from `played`, the
  report from the summary).
* `Termination`: the run ends and no thread outlives it.
* `TotalsExact`, `TotalsFit` (`MCCounterTotals`): each printed sum is that of the
  counters that count, and the total of a line is the sum of the threads' totals
  printed beside it, which the code computes on their own. A thread's counters
  start at zero (`services/querycountersservice.hpp:112`), so that a run has no -1
  in the totals of the application, though one of a single connection may be.
  The methods handle it all the same and are checked for all they accept.
* `CompletedRunCleans`, `AltersItsOwn`, `FoundTablesStay` (`SchemaTables`): a
  completed run of `TestSchemaBuilder` leaves no table and no database, no run
  alters or renames a table it did not create, and none removes a table (on MySQL
  and PostgreSQL also a database) that it found.
* `CompletedRunCleans`, `CountedBack`, `DebugMakesNoCopy` (`RowBlocks`): a
  completed run leaves none of its rows and every column at the seed's value;
  columns that are written back end as the run found them; a debug build never
  makes the second torrent `test3` that keeps a renamed torrent 3 from getting
  its name back.
* `ImplementsLeftovers` (`SchemaTables`, `RowBlocks`): under the mapping of what
  lies around to the blocks that cannot work on it, the tests implement
  `Leftovers`: for the tables nothing heals; for the rows only the blocks in
  `Heals` get over what an earlier run left, by the removal by torrent and index
  of `TestQueryBuilder` and by looking for a row before creating it. Everything
  else stops every later run until somebody cleans the database.
* `CompletedRunCleans`, `StuckStops`, `StuckForGood` (`Leftovers`): what follows
  from that, for any list of blocks; proved, see section 5.
* `OnlyKilled`, `CompletedRunCleans` (`CheckDatabaseExists`): whatever state the
  file is in, no assertion, exception or `qFatal()` of the test ends a run, and a
  completed one leaves no file.
* `RecursionEnds`, `OnlyFailedThrows`, `TouchesAllOwners` (`ModelRelations`): no
  query and no save recurses forever; only `TorrentEager_Failed`, made for it,
  names a relation that does not exist; a save touches the owners along
  `u_touches`, also behind a model without timestamps, and no other rows.
* Violated by the code: `SummaryListsCounted` (multi-threaded),
  `LogsMapConsistent`, `NoMessageLost`; see section 6.

## 4. Runs

All runs use the shipped connection tables: nine connections, three of which
can be tested and run in a thread, so at most the main thread and three workers.

| Run | Build | Tests, bound | Shows |
|---|---|---|---|
| `SingleThread` | single-threaded, file | the main thread's tests and `TestTinyOrm`, 1 statement each | counters are conserved across PlayTests and the test that does not log; the summary lists counted connections only |
| `MultiThread` | multi-threaded, file | `TestTinyOrm`, 1 statement | isolation, counters, log file, refinement, in every interleaving |
| `LogToVector` | multi-threaded, replay | `TestTinyOrm`, 1 statement | the console log |
| `Liveness` | multi-threaded, file | `TestTinyOrm`, no statement | termination |
| `CounterTotals` | – | up to 3 threads, counters from -1 to 1 | printed totals are exact, and fit the threads' totals next to them |
| `SchemaTables` | – | 4 runs, any of which may fail anywhere, on each driver | leftovers of failed runs of `TestSchemaBuilder` |
| `RowBlocks` | debug or release, per run | 4 runs, any of which may fail anywhere, on MySQL or not | leftovers of failed runs of the row-writing blocks |
| `CheckDatabaseExists` | debug or release, per run | 3 runs, killed anywhere, both platforms | the SQLite file |
| `ModelRelations` | – | every model, paths of up to two relations, at most one model without rows | eager loads and touches |
| `V_*` | multi-threaded | as above | the three disagreements |

Bounds. `MaxStatements = 1` is enough for what the properties tell apart: a
statement that leaks, is lost, or is counted by another thread or twice shows
with one. The tests that run before the loop touch nothing the workers use but
the main thread's connections, so the multi-threaded runs invoke only
`TestTinyOrm`, the test that uses most connections per thread; `SingleThread`
invokes those before the loop. Three workers are all the tables allow.
For the totals, a counter that does not count, one at zero and one above zero
are all the cases the code distinguishes, and three threads let each be of
another kind.
A run of `SchemaTables` that fails may leave a table, the next one fails earlier
and adds another; four runs let leftovers of three runs meet a fourth. The same
holds for `RowBlocks`, where the four runs of either build also let a release
build leave what a debug build meets and the other way round (6 million states).
The file of `CheckDatabaseExists` has three states, each of which a first and a
second run can leave for a third. In `ModelRelations` the declared `u_with` paths
are added at every model reached, whatever the asked path, so longer asked paths
only add relations that a shorter one from the next model visits as well.
`Liveness` counts no statements: no guard of a step that could block reads one.
It, `CounterTotals`, `SchemaTables`, `RowBlocks`, `CheckDatabaseExists` and
`ModelRelations` do not check deadlock because the program, the computation, the
last run and the call end; in the other runs `Ended` is the only step of a finished run.

Fairness (`FairSpec`): weak fairness of each thread's steps taken together. The
operating system runs every thread that is not blocked and the database answers
every statement. No choice between steps of one thread is assumed fair; the
loops are finite by the bound. `ModelRelations` states weak fairness of `Next`: it
is a single call that a thread executes. The runs over several runs of the
playground state none: nothing makes anybody start it again.

## 5. Proofs

`tlapm` checks eight modules. The two on a run hold for every value of the
constants (any connection tables, any number of workers, tests and statements)
that satisfies `ConfigurationAssumption`, `MainThreadConnectionAssumption`,
`MainAssumption`, `LogAssumption` and `TestOrmAssumption`; TLC evaluates these for
the shipped tables in every run. Each theorem is about every behaviour of `Spec`:
all interleavings, and exceptions wherever they may happen. The strengthenings
are defined at the end of `TestOrmProperties`, so that TLC can check them before
they are proved.

* `TestOrm_proofs`, types and isolation: `TypeCorrect` (`Spec => []TypeOK`). `TypeOK` is not
  inductive: a PlayTest's last step needs its test to be one that is invoked, or
  the next label is undefined, and starting a worker needs the connection
  not to be running. `TypeInv` adds `PlayingInTest` and `UntestedNotStarted`.
  `InThreadFlagCorrect`, `ConnectionNameCorrect`: the
  inductive invariant `IsolationInv` adds: `WorkersAllowed` (workers exist only
  after `throwIfUnsupportedEnv()` and for connections of the sanitized list),
  `ConnectionShares` (a worker opens only connections mapped to its own; the main
  thread only connections mapped to no connection run in a thread) and
  `OpenedAfterStart`. Two shares are disjoint by what `ConfigurationAssumption`
  says of the tables: `ConnectionsMap` and `ConnectionsMapReverse` agree, and
  the main thread's own connections are nobody's. That is the argument why
  `mysql_mainthread` exists.
* `TestOrm_proofs`, counters and refinement: `CountersConservedCorrect`: the inductive invariant
  `CountersInv` says that each mutex has one holder, in its critical section
  (`MutexesOwned`), that workers run only while the main thread is in the loop or
  waits for them (`JoinedAfterLoop`), that a thread's slot holds what its logged
  PlayTests executed (`SlotsConserved`), and that during a PlayTest the counters of
  its connections, which are open in that thread alone, hold the PlayTest's
  statements (`CountedOpened`, `PlayTestCounted`).
  It needs isolation first: that two threads never share a slot or a connection
  is why a statement cannot be counted by the wrong one.
  `AppCountersConsistentCorrect` and `SummaryCompleteCorrect`: `SummaryInv` adds
  what vectors and map hold at each label of the holder of the mutex
  (`AppItemsMapped`), that an item equals the counters of its thread and is there
  from the save on, and that the summary is logged after the joins.
  `ConfigurationPresentCorrect`: which configurations a thread has added at each
  label (`WorkersConfigured`, `MainConfigured`); this is where
  `MainThreadConnectionAssumption` is needed: `mysql_mainthread`, which a
  single-threaded build does not configure, is none of the connections that
  tests name. `SummaryListsCountedCorrect` has the hypothesis
  `~ConnectionsInThreads`: with threads the code violates it (section 6).
  `ImplementsPlayRunCorrect`: `Init` maps to `PlayRun`'s, and
  under the invariant above each action maps to one of `PlayRun` or
  to a stutter: the phase of a thread is a function of its label, except at the
  end of the main thread, which `ExitCodeLast` settles.
* `Logs_proofs`. `LogFileInBlocksCorrect` and `ConsoleNotPollutedCorrect`: the
  messages a worker holds back are numbered without a gap (`HeldBack`), the log
  file is a sequence of whole logs and of the part of one its mutex's holder has
  streamed (`LogFileInv`), and a worker's message on the console is that of its
  exception (`ConsoleOfWorkers`). `LogDeliveredCorrect`: adds what the main thread has printed
  (`MainPrinted`), which logs are streamed, pushed or replayed at each label
  (`Streamed`, `LogsPushed`, `Replayed`). The property says with `HoldsFirst` that
  the messages of a thread are in the output at increasing positions, one for
  each number up to what it emitted, and no other message of the thread is.
* `CounterTotals_proofs`: `TotalsExactCorrect`, `TotalsFitCorrect`, for any number
  of threads and any value of the counters. `SumsSoFar` says that in the loop a
  sum is its start, 0 or -1, plus the addends of the items behind it; what does not count
  adds nothing. Most of the module are facts about `SumFunctionOnSet` on finite sets that
  the library does not have: that its recursive function exists, that the order
  of the elements makes no difference, that zeros can be left out. They are
  proved by induction over a *set* of numbers (`SetInduction`, from the
  well-foundedness of the numbers), because the library's induction theorems
  take a predicate, which the provers cannot instantiate.
* `Leftovers_proofs`, for any number of blocks and whatever they heal
  (`LeftoversAssumption` is a hypothesis of each theorem; the two modules that
  implement `Leftovers` assume it of their blocks, and TLC evaluates it there):
  `TypeCorrect`, `CompletedRunCleansTheorem`, `StuckStopsTheorem` and
  `StuckForGoodTheorem`. A run completes clean because the blocks it has passed
  are clean (`CleanAtTheEnd`) and its last block is the last of all; dirt that no
  block heals is in a block the run has not passed, so it cannot complete, and
  it is still there for the next one: together they are inductive, and the last
  theorem follows because a run that finds such dirt only ever ends in failure.
  `SchemaTables_proofs` and `RowBlocks_proofs` instantiate it through their
  refinements: this is the reason why one failed run may make every later one fail.
* `SchemaTables_proofs`, for any number of runs on each driver:
  `CompletedRunCleansTheorem`, `AltersItsOwnTheorem`, `FoundTablesStayTheorem`,
  `ImplementsLeftoversTheorem`, `LeftoversStopEveryRunTheorem`. None of the
  properties is inductive, for they say nothing of a run that is inside a block.
  First every script is proved `WellFormed`: it creates a name before it uses it
  otherwise, creates none that is there, and at its end has dropped all it
  created (`Made`, `Touched`: what the statements before a position have made and
  used). Then the invariant: each name is that of one block, its `Home`, and in
  that block's store (`StoresTyped`); what exists belongs to no block the run
  has passed (`PassedClean`); of the names the current block has used exactly
  those exist that it has made (`Followed`); and no name that was found has been
  used (`FoundUntouched`), because a block creates its names first, which is refused.
* `RowBlocks_proofs`, for any number of runs of debug and release builds:
  `CompletedRunCleansTheorem`, `CountedBackTheorem`, `DebugMakesNoCopyTheorem`,
  `ImplementsLeftoversTheorem`, `LeftoversStopEveryRunTheorem`. A row and a changed
  column are both marks, each with the block that sets it first (`Home`). Every
  script is proved `WellFormed`: it removes for certain each mark it sets, removes
  only marks it has set or that `HealedBlocks` names, and looks for a row
  before creating it only if `HealedBlocks` names it. A block also sets all marks
  of which it is the home, so that what is left of an earlier run is gone at its
  end or has stopped it. The invariant: `PassedClean`, `GoneAbsent` (what the block
  has removed is not there), `FoundRowsStay` (a row that was found and not healed
  is still there and has not been written again) and, for torrent 3, whose copy
  nothing removes, `CopyKeepsRenamed`, `FoundRenamedStays` and `DebugSeesSeed`: the
  copy is made only while the name is changed, keeps it from being restored, and
  a debug build has seen the name unchanged just before. `CountInv` is the
  invariant of the columns changed by their own value: it says at each statement
  of `pushLazyLoad` and `incrementDecrement` which column is one ahead and which
  value the run remembers.
* `CheckDatabaseExists_proofs`, for any number of runs: `OnlyKilledTheorem`,
  `CompletedRunCleansTheorem`. The invariant says which states of the file and
  of the connections each step can meet: the file is absent after the first
  removal, and nothing has it open at either removal.
* `ModelRelations_proofs`: `OnlyFailedThrowsTheorem`, `TouchesAllOwnersTheorem`. The
  module has no constants; the first part proves of the declarations what both
  recursions rest on: every relation leads to a model other than
  `TorrentEager_Failed` (`RelationsLead`) and every `u_with` path exists
  (`WithsExist`). `ThrowInv`: a pending query asks for paths that exist, because the
  rest of a path is one of the related model (`NestedAsks`). `TouchInv`: what a save
  has touched, with what its pending calls will touch, is what a save of the root
  touches; it is inductive because that set is, for each model, its owners with
  timestamps and the sets of its owners (`TouchedFromOwners`).

Model-checked only:

* liveness (`Termination`, `RecursionEnds`), which is out of the prover's reach,
  as is `ENABLED`.

## 6. Where code and documentation disagree

* `V_SummaryListsCounted`: `appCountedConnectionsPrintable()`
  (`src/services/querycountersservice.cpp:497`) keeps `mysql_mainthread` in a
  multi-threaded build, while `computeConnectionsToCountForMainThread()` (`:385`)
  never counts it. The recorded outputs in `NOTES.txt` show the six listed
  connections of a multi-threaded run.
* `V_LogsMapConsistent`: `saveLogsFromThread()` (`:150`) registers the size of
  the vector after the push, one past the item. Nothing reads the map today.
* `V_NoMessageLost`: a worker that throws never saves its held back messages
  (`src/testorm.cpp:229-234`), so the messages that led to the exception are
  lost, and the run still ends with success.

## 7. Not modelled, and the plan

The plan is done: each component that keeps state is modelled, and each safety
property the runs check is proved for every value of the constants, but for the
three that the code violates. A change
of a PlayTest's block starts at its script in `SchemaTables` or
`RowBlocks`; the lemma that the script is `WellFormed` is the first to fail if
the block does not clean up behind itself.

Left out for good: driver options and credentials; keys, pivots, casts, defaults
and serialization of models (they shape rows that TinyORM returns); the progress
columns that are counted up in every run and that nothing reads; the printed
layout; `support/utils.cpp`, whose two checks compare an argument with
`g_inThread` (the main thread passes no connection and a worker its own, so that
`InThreadFlagFaithful` is why they never throw); `config.hpp` and `version.hpp`, which select what is compiled; build files; the script
`tools/Invoke-TinyOrmPlayground.ps1`, which runs the executable repeatedly and
averages what it prints.
