# MySQL Shell: a TLA+ model of dump and load

MySQL Shell is an interactive client for MySQL with a set of utilities.  The
utilities that move data (`util.dumpInstance()`, `util.loadDump()`,
`util.copyInstance()`, `util.importTable()`) are its concurrent and
fault-tolerant core: many threads talk through queues, a dump is taken from one
snapshot while other clients go on, work is scheduled by weight, data files are
cut into transactions at row boundaries, and a load that was killed is resumed
from a log.  This project models that core, checks it with TLC on small
instances, and proves its main safety properties with TLAPS.

Contents: [Inventory](#inventory) · [Modules](#modules-and-the-code-they-model)
· [Runs](#runs) · [Bounds](#bounds) · [Fairness](#fairness)
· [Findings](#what-the-violation-runs-show) · [Proofs](#proofs)
· [Not modelled](#what-is-not-modelled) · [Plan](#plan)

## Inventory

Paths are below `src/`; `load/` is `modules/util/load/`, `dump/` is
`modules/util/dump/`, `import_table/` is `modules/util/import_table/`, `utils/` is `mysqlshdk/libs/utils/`, `in_memory/`
is `mysqlshdk/libs/storage/backend/in_memory/`.

| Component | State | Operations | Talks to | Hard because |
|---|---|---|---|---|
| Synchronized queue, `utils/synchronized_queue.h` | a deque per priority, `m_size`, a mutex and a condition variable | `push`, `pop`, `try_pop`, `shutdown`, `size` | everything below | notification after the mutex is released; timeouts; guards that end consumers |
| Thread pool, `utils/thread_pool.cc` | two queues, `m_active_threads`, `m_worker_interrupt`, `m_async_state`, one exception per worker | `add_task`, `tasks_done`, `process`, `process_async`, `wait_for_process`, `terminate` | DDL stages and metadata scans of the loader | flags are read and written one by one while several threads fail or shut the pool down |
| Progress log, `load/load_progress_log.h` | the file, `m_last_state` | `init`, `log`, `status` | written by the main thread of the loader, read by the next run | must describe what is in the server, which it is not updated atomically with |
| Dump loader, `load/dump_loader.cc` | workers, pending tasks by weight, current weight, events, interrupt flags | `run`, `handle_worker_events`, `schedule_next_task`, `Worker::do_run`, the tasks | server, log, dump reader | one event loop, many workers, ^C and failures at any point, crash and resume |
| Transaction buffer, `import_table/load_data.cc` | `m_data`, `m_trx_size`, `m_trx_end_offset`, `m_partial_row_sent`, `m_eof` | `read`, `flush_done`, `consume`, searches for row boundaries | the client library asks for bytes (`local_infile_read`) | request sizes, short reads, rows longer than the limit, escapes, terminators across buffers |
| Synchronized file, `in_memory/synchronized_file.cc` | `m_request`, two queues, `m_pending_write` | `read`, `write`, `close` | dumper thread and loader thread of a copy | a rendezvous: memory shared without a lock, handed over by the queues |
| Dump loader, stages of `execute_tasks()` | the server, `m_schema_ddl_ready`, deferred statements, tables and views that exist | schema, table and view DDL, users, indexes, `on_schema_end`, `on_dump_end` | thread pool, workers, log, server | a run is killed between a statement and its entry in the log; order of objects that refer to each other |
| Dump reader, `load/dump_reader.cc` | `Table_info`, `Table_data_info`, `m_tables_with_data`, `m_dump_status` | `rescan`, `next_table_chunk`, `next_deferred_index`, `next_table_analyze`, `next_table_checksum` | loader, storage | the dump may still be written, files appear in any order |
| Dumper, `dump/dumper.cc` | locks, `m_session_pool`, `m_worker_tasks`, counters of tasks, `m_worker_interrupt`, exceptions | `do_run`, `acquire_read_locks`, `lock_instance`, `create_*_tasks`, `Table_worker::run`, `validate_dump_consistency`, `emergency_shutdown` | storage, server and its other clients | one snapshot for many sessions, DDL that is not part of it, tasks that create tasks, ^C |
| Chunking, `dump/dumper.cc` | ranges of keys, the search for a step | `chunk_integer_column`, `adaptive_step`, `chunk_non_integer_column`, `Multi_file_writer_controller` | server (`EXPLAIN`) | machine arithmetic, wrong estimates, rows that change |
| Parallel import, `import_table/` | queue of file ranges | chunking, `Load_data_worker` | server | row boundaries in ranges of a file |
| Virtual file system, `in_memory/` | blocks, files, directories | create, rename, read ahead | copy | shared by two threads |
| Storage, REST, cloud | uploads, connections | multipart upload, retry | external services | partial failure |
| AdminAPI, `modules/adminapi/` | metadata schema, locks, undo lists | create, switchover, failover, upgrade | Group Replication, servers | distributed, but most of the protocol is in the server |
| Upgrade checker, DevAPI, shell core, SSH, secret store, parsers, text UI | – | – | – | sequential, generated or I/O |

What makes each of the modelled parts correct:

* *queue* – elements of a priority come out once and in order, the size is exact,
  nobody sleeps beside an element, guards come after everything that was pushed
  before;
* *pool* – `process()` returns normally only if everything was processed and
  nothing failed, it always returns, and a client that polls sees a failure;
* *log and data* – what the log says is loaded is loaded; a resumed load skips
  only what was loaded; a load that completes is exact;
* *workers* – each worker is idle, ready or busy, and counted once; the weight is
  exact; the loop returns only when nothing is left; the outcome is reported
  truthfully;
* *transactions* – rows are not split between transactions, and limits hold;
* *synchronized file* – one owner of the request at a time; no row lost; both
  threads end;
* *dump reader and scheduling* – every chunk is loaded once, in whatever order
  files appear; indexes, analysis and checksums wait for the data; a load that
  ends well has done everything; it ends;
* *stages* – what the log has is on the server; no run executes what the server
  rejects; a load that ends well is complete; runs end;
* *dumper* – all the sessions see one snapshot, DDL belongs to it, `@.done.json`
  says that the dump is complete and the result says what happened, `run()` ends;
* *chunking* – each row is in one chunk, and one chunk is the last.

`PROJECT.json` lists the places in the code where each of these could go wrong
under an order of events that no test produces ("hazards").

## Modules and the code they model

Definitions keep the names of the source (`m_queues`, `m_current_weight`,
`find_last_row_boundary_before`, ...).  `PROJECT.json` gives the lines of each.

### `SynchronizedQueue` (`utils/synchronized_queue.h`)

A critical section is one step.  `push()` and `shutdown()` notify in a second
step (`NotifyOne`, `NotifyAll`), because the code notifies after it has released
the mutex.  A consumer which finds the queue empty is in `asleep` until it is
notified, its time is up (`Timeout`) or it wakes up by itself
(`SpuriousWakeup`); it then has to get the mutex again (`Recheck`).  `pushed`,
`taken` and `owed` are history variables.

The other modules take calls of queues to be atomic.  `Fifo`, `SizeExact`,
`NoLostWakeup` and `DrainedBeforeGuards`, which are proved, and `SleeperServed`, which is checked, are what
justifies this.

### `ThreadPool` (`utils/thread_pool.cc`)

Every read and write of `m_worker_interrupt`, `m_async_state` and
`m_active_threads` is a step, so that two overlapping `emergency_shutdown()`
interleave freely.  The client is one of the two that exist: it adds tasks and
calls `process()`, or calls `process_async()`, adds tasks and polls the state;
which one it is, is the initial value of `async`.  The queue of the workers is a
sequence per priority, and guards, which come after all of them, are counted.
`Children` are tasks that processing a task adds; they add none themselves, as in
the two clients (schemas add their tables).  `produce_data()` may fail in any worker, `process_data()` may throw or be interrupted.

### `LoadProgressLog`, `LoadData` (`load/load_progress_log.h`, `load/dump_loader.cc`)

`LoadProgressLog` represents the log by what `init()` makes of its lines: the
status of a chunk, how many sub-chunks are DONE without a gap, and the sum of the
sizes they were logged with, which is what `schedule_table_chunk()` computes.
The rule that a step an earlier run has logged as DONE is not logged again
(`do_log`) is in its operators.

`LoadData` has the log, the main thread, the workers and the server, over
`MaxRuns` runs.  A run opens the log, which empties the file, writes it back, and
schedules each chunk once: `SkipLoaded`, or `Schedule` at the offset
`BytesToSkip`.  A worker posts LOAD_START, truncates the table if it resumes a
table without a key, commits one transaction after another up to some row
boundary, posts the end of each sub-chunk, and then LOAD_END and READY.
`HandleEvent` is what the main thread does with the first event of the queue.
`Crash` may happen at any time: it stands for a killed process, and for a run that
stops after an error or ^C at a point where events are left.  Rows and the log
survive it, threads and events do not.  The event of the start of a sub-chunk is
left out: it cannot make a step DONE.

The server is `rows`, how many copies of each row it has.  `LOAD DATA ... REPLACE`
of a row with a key leaves one copy (the unique key is the abstraction of
"duplicate rows are discarded by the server").  If a transaction begins within a row,
the rest of that row is loaded as a row of its own: its chunk is in `torn`, and any
rows of its table may have been replaced by it (`overwritten`, `Replaced`), since
what is left of a row may have any key.  `KeyedExact` says of which tables this cannot
happen.

### `LoadWorkers` (`load/dump_loader.cc`)

The threads of the loader: `run()`, stages that are calls of
`handle_worker_events()`, the `Priority_queue` of pending tasks with the position
of its heaviest list, weights that are capped by the number of threads, workers
that become idle because of an interrupt, because there is nothing to do, or
because the heaviest task does not fit, and that are called back ("free any idle
threads which were waiting for a heavy task").  A worker may fail when it connects
or in a task; ^C may come at any time; what precedes or follows a stage and
`schedule_next()` may throw.  `Requires` makes tasks available only after others have ended, as
indexes after the data of their table; it has no circles and does not refer to
later stages.  `WeightExact` says that `m_current_weight` is the number of threads
the tasks of the workers take up, counted as a set of pairs of a worker and one of
the threads its task stands for.

### `TransactionBuffer`, `SubChunks` (`import_table/load_data.cc`)

`TransactionBuffer` is `Transaction_buffer` below `local_infile_read()`.  A file is
a set of offsets at which line terminators end and the subset of those that are
escaped; the first transaction begins anywhere (`skip_bytes`), also within a row; `m_data` is the interval from `sent` to `buffered`.  Reads of the file
may be short.  `Boundaries` and the two searches are the `*_default`,
`*_no_escape` and `*_escape` functions, with their treatment of a limit that
falls into a terminator, of a limit that is not positive, and of an escape
character that was already sent.

`SubChunks` is the abstract specification: a transaction continues where the
previous one ended and ends where a row ends, and only at the end of the file is
there nothing more to load.  It is what `LoadData!Commit` assumes.
`TransactionBuffer` and `SynchronizedFile` are both checked to implement it
(`RowsNotTorn`), and proved to.

The client library asks for multiples of 4096 bytes.  `Lengths`, what it may ask for in
the model, has numbers from 2 up: with a request of *one* byte,
`find_last_row_boundary_before(1)` does not find the end of an empty row, and the
limit of a transaction may be exceeded.  The attempt to prove `WithinLimit` for every
request has shown this.

### `SynchronizedFile` (`in_memory/synchronized_file.cc`, `import_table/load_data.cc`)

The dumper thread writes rows, the loader thread reads them with
`fast_sub_chunking()`.  Tests of the interrupt flag, pops of the two queues (which
may time out) and copies are steps of their own.  ^C may come at any time; it sets
the flag of the file system first and the one of the loader later, as `copy()`
does.  `HandedOver` (the request has one owner, limits hold, and the read which
provides a buffer for a row gets it) and `RowsNotTorn` are stated until ^C (in the
refinement mapping an interrupted copy has reached its end); `Ends` is stated for
all copies.

### `DumpReader`, `LoadSchedule` (`load/dump_reader.cc`, `load/dump_loader.cc`)

`DumpReader` is what the loader knows of a dump: per table or partition
(`Table_data_info`) the chunks that were seen, consumed and loaded, per table
whether its indexes and its analysis were scheduled and finished.  `rescan_data`
looks for chunks as the code does (holes, then the sequence that follows, then the
last chunk right behind it), `schedule_chunk_proportionally` chooses among the
parts; where the code iterates over an unordered container, any of the parts which
are equally good may be chosen.  Ratios are compared without dividing.

`LoadSchedule` composes it with the loop of `execute_tasks()`: waiting for the
metadata and for the dump, `handle_table_data()` with the choice between a chunk
and a bulk load, `schedule_next_task()`, the events which tell the reader what has
ended, and the end of the load, well or with missing data.  The dumper writes files
in any order, `@.done.json` last, or stops for ever.  A listing of the directory
has the files there were when it began and any of those that appeared since.  `log`
is what an earlier run has left.  Tasks have the weight 1 and do not fail;
`LoadWorkers` has weights and failures, `LoadData` what is within a chunk.

`LoadedOnce` excepts parts whose bulk load the log has as finished: whether they
are loaded again depends on what the server says of the table the next time
(`dump_loader.cc:783`, `5132`), and the index that is looked up for a table which
is not chunked differs from the one in the log.  It also excepts chunks without data:
an empty chunk that the log has as loaded leaves its table empty, and an empty table
may be loaded in bulk, that chunk included.  It makes no difference to the rows.

### `LoadStages` (`load/dump_loader.cc`)

`execute_tasks()` from the opening of the log to its end, over `MaxRuns` runs.
`Restart` may happen at any time and stands for a killed process as well as for a
user who tries again, maybe after dropping the objects he was told about.  The
log is the set of the steps it has as DONE.  The server has objects (none, the
user's, a placeholder of a view, the one of the dump), data, and statements that
were executed: it rejects tables without their schema, views and grants without
the objects they name, indexes and foreign keys that exist, changes of a table that
has a secondary engine, and GTIDs that are added twice.  The pool fetches scripts
in any order (`Fetch`); `NextTask` is the search of the main thread for a task
whose schema is ready, during which it handles no events; `m_schema_ddl_ready` is
set by the workers.  `RemoveDuplicates` asks the server which deferred statements
are there already.  Statements of `on_schema_end()` and of the views are executed
by the main thread, their entries in the log are a step of their own (`LogStep`).

`StatementsAccepted` and `OkMeansComplete` are about loads which have looked for
existing objects (`checked`), and except GTIDs that are appended twice; the
hazards in `PROJECT.json` say why.

### `Dumper` (`dump/dumper.cc`)

The main thread is one sequence of labels from `do_run()`; each statement that
takes a lock, starts a transaction, creates a session or a thread, or pushes a
task is a step.  Workers pop a task by priority, take a session from the pool,
execute, count, maybe create more tasks, return the session.  The handler of ^C sets
`m_worker_interrupt` at once and calls `abort()` later; a task or a statement of the
main thread may throw.  Other clients (`Write`, `ExecuteDdl`) do what the locks allow.
`OptionSets` are the ways in which a user may be able to take locks: FTWRL, FTWRL
that is denied, LOCK TABLES with or without the backup lock, and with or without
GTIDs or a binary log to detect DDL; `skipConsistencyChecks` is one of the options.
`push_table_task()` creates a task per partition (`Parts`), and none for what
`should_dump_data()` excludes.

`snapshots` is what the transactions of all the sessions see.  DDL of other clients is
blocked by FTWRL and by the backup lock, while LOCK TABLES blocks that of tables only:
routines, events and views can be changed under it, and objects be created.  `version`
is the last statement on each object, `shown` which version a DDL file shows, and
`cache` says when the objects were fetched (`built`) and when the position was
(`position`), which is a later step.  A file is `Stale` if it shows an object that was
changed after it was cached, and `Late` if it was after the position.  `checked`
records that `validate_dump_consistency()` has really compared positions; a change
makes a dump of an instance fail, unless the checks are to be skipped.

### `Chunking` (`dump/dumper.cc`)

What one worker does with a table.  Integer columns are words that wrap around,
`2 * SignBit` of them (signed overflow, which is undefined in C++, is taken to wrap
around), `Decimal`s are multiples of `1 / Scale`.  `EXPLAIN` answers anything, each
time; since the code compares the answers only with `rows_per_chunk` and `accuracy`,
four numbers stand for all of them (`Answers`).
Any other index is a set of row numbers, which other clients may change if the dump
is not consistent.  A table without an index is written to files of any number of
rows, the last of which is empty.

## Runs

| Run | Specification and instance | Checked | Distinct states |
|---|---|---|---|
| `queue` | 2 producers, 2 consumers, 2 items, 5 priorities, 1 shutdown; fair | `QueueExact` `NoLostWakeup` `DrainedBeforeGuards`, liveness `SleeperServed` | 72 thousand |
| `pool` | 2 workers, 3 tasks, one added by another; `process()` and `process_async()`; fair | `ReturnedMeansProcessed` `FailureVisible`, liveness `Ends` | 224 thousand |
| `load` | 2 tables, one of them without a key, with a chunk of 3 rows and one of 1 row, 2 workers, 3 runs | `TypeOK` `DoneIsLoaded` `SkipsOnlyLoaded` `KeyedExact` `EventOfCurrentTask` | 4.5 million (with symmetry of the workers) |
| `workers` | 3 threads, 5 tasks of weights 1, 1, 1, 2 and 5, 2 stages; fair | `WorkersAccounted` `ExecutedInOrder` `OkMeansLoaded`, liveness `Terminates` | 324 thousand |
| `buffer` | all files of at most 8 bytes, from any offset, requests of 2 to 4 bytes, limits 0 to 5, one-byte terminator; fair | `WithinLimits`, refinement `RowsNotTorn`, liveness `AllRead` | 1.1 million |
| `file` | all files of at most 5 bytes, ^C at any time; fair | `HandedOver`, refinement `RowsNotTorn`, liveness `Ends` | 781 thousand |
| `schedule` | 2 tables, 3 parts of 2, 2 and 1 chunks, 2 workers, 3 sets of options, a new load and a resumed one; fair | `LoadedOnce` `StepsInOrder` `OkMeansAll` `ScheduleSound`, liveness `Ends` | 372 thousand |
| `stages` | 2 schemas, a table with 2 indexes, a foreign key, an engine and triggers, 2 views, 2 workers, 3 runs, with and without existing objects; fair | `DoneIsThere` `StatementsAccepted` `OkMeansComplete`, liveness `RunsEnd` | 346 thousand |
| `dumper` | 2 workers, a schema and a table with a partition of up to 2 chunks, 7 sets of options and privileges, one ^C, one exception, one transaction and one DDL of other clients; fair | `OneSnapshot` `ConsistentDdl` `DoneMeansComplete` `ResultTruthful`, liveness `Ends` | 816 thousand |
| `chunks` | words of 4 bits, all ranges and answers of EXPLAIN; other tables of at most 4 rows with 2 changes; fair | `EachRowOnce` `OneLastChunk`, action property `ChunksAdvance`, liveness `ChunkingEnds` | 220 thousand |

Where a property is a conjunction its parts have names and comments of their own:
`QueueExact` is the type, `Fifo` and `SizeExact`;
`WorkersAccounted` is the type, `WeightExact`, `OneOfIdleReadyBusy` and
`NoWorkerForgotten`; `OkMeansLoaded` includes `NothingLeft`; `ReturnedMeansProcessed` is the type, `NoTaskDropped`,
`ProcessedOnce` and `ExceptionsRethrown`; `WithinLimits` is the type, `WithinLimit`,
`EndNotPassed` and `AskedFor`; `HandedOver` is the type, `RequestOwned`, `WithinLimit`
and `RowReadSucceeds`; `ScheduleSound`, `OneSnapshot`, `OneLastChunk` and `DoneIsThere`
include the type.

Every property has a mutant of the code (an operator `Mutant...` next to the
definition it would replace, with the bug in its comment) under which TLC reports
the property as violated.

Deadlock is checked in all these runs but `load`, `pool` and `dumper`.  The loader
really stops, when a run has finished or the bound on runs is reached; in `pool`,
`Ends` is stronger: no thread, and not the client, waits for ever.  The dumper does
stop if ^C comes while its threads are being created, see `dumper.cc:1884` among the
hazards; its `Ends` says that this is the only case.

## Bounds

The safety properties of all the runs are proved for every value of the constants; see
[Proofs](#proofs).  For them the bounds below matter only to the liveness properties,
and to the runs as a test of the models.

* *Queue*: an argument between a notifier, a sleeper, a thread that wakes up and a
  thread that never slept needs two producers and two consumers.
* *Runs of the loader*: the sub-chunks a run logs depend on those of the run
  before, and what is skipped on both.  Three runs are needed for the log to
  disagree with the file (`MCLoadDataTorn.cfg`).  `MCRowEnds` has rows of different lengths,
  so that sizes of sub-chunks with the same number differ.
* *Workers*: three threads and weights from 1 to more than the number of threads
  make a heavy task wait, others overtake it, and several idle workers be called
  back at once.  Two stages: idle workers are put back into the queue of events.
* *Pool*: two workers can shut down the pool at the same time, besides the
  processor and the client; three tasks with two priorities and a child.
* *Transactions*: a file of 8 bytes has room for rows that are shorter than, as
  long as and longer than the limit (1 to 5) and the request (2 to 4), in any
  order.  All files are enumerated.
* *Synchronized file*: the same with 5 bytes, limits up to 4 and rows of up to 5
  bytes, so that a read is answered by several rows, or by a row that
  does not fit and needs a second read.
* *Scheduling*: with two threads, three parts are one more than may be loaded at a
  time; one of them has an empty first chunk (no bytes are available), one is a
  single file (it has no index in the log), two belong to a table (its indexes wait
  for both).  The files appear in all orders.
* *Stages*: a schema with and one without views, two batches of indexes (a run may
  be killed between them), two workers so that a schema is created while the main
  thread looks for a table of it.  Three runs: killed, killed while resuming,
  completed.
* *Dumper*: two workers may be the last ones to finish at the same moment; with one
  session one of them waits for it.  One ^C, one exception, one commit and one DDL
  statement at any point are enough to separate what is to be one.  Views and schemas
  are alike to the locks: `MCDumperPosition.cfg` has a view, the others a schema.
* *Chunking*: with 4 bits the numbers from -8 to 7 and 0 to 15 have all the limits,
  signs and overflows; three retries and three bisections reach every exit of the
  search.  Statistics are zero, less than, and many times `rows_per_chunk`.

## Fairness

Weak fairness of every thread: the operating system runs each of them, and the
server and the client library answer.  Consumers of queues that were woken up get
the mutex.  Nothing is assumed of crashes, of ^C, of failures, of timeouts, of
spurious wakeups, or of anybody calling an operation of a queue.  Weak fairness is
enough because an enabled step of a thread stays enabled until the thread takes
it; `SleeperServed` says that the sleeper is woken *or* the queue is emptied by
others, since a mutex is not fair.

`LoadSchedule` needs strong fairness of the timeout: a load that waits again and
again has waited for `waitDumpTimeout` in the end, and nothing is assumed of the
dumper, which may never write another file.  `LoadStages` assumes nothing of
`Restart`, `Dumper` nothing of other clients and of ^C, but its handler runs, and
`Chunking` only that statements end.

`LoadData` has no liveness run: that the threads of a load end is checked in
`LoadWorkers`, which has their failures and interrupts, and that its work ends in
`LoadSchedule`.

## What the violation runs show

These runs check a statement of the documentation, or of a comment or an assertion in
the code, which the code as modelled does not satisfy.  `PROJECT.json` quotes it.

| Run | Property | What happens |
|---|---|---|
| `load_truncated` | `UnkeyedComplete` | Resuming one chunk of a table without a key truncates the table and with it the chunks that are DONE. |
| `schedule_histogram` | `Ends` | With `analyzeTables: "histogram"` a table without histograms is never analysed, and its checksums wait for the end of its analysis: the load goes round for ever. |

Further configurations have counterexamples of the same kind.  Each belongs to a hazard
in `PROJECT.json`, whose properties are stated around it; the first eight contradict a
text of the repository, quoted here.

| Configuration | Property | What happens | The text |
|---|---|---|---|
| `MCLoadDataTorn` | `KeyedExactAlways` | Sub-chunks are numbered from 0 in every run, and the log keeps, per number, the size of the first run that finished it.  A load that is interrupted twice resumes at a sum of sizes that need not be a row boundary (`dump_loader.cc:1438`), and the rest of the row is loaded as a row (`load_data.cc:724`).  `SkipsOnlyLoaded`, which is proved, says that at least nothing is left out, and `KeyedExact` that one interruption does no harm. | "Load will be resumed from where it was left" (`dump_loader.cc:3582`) |
| `MCLoadDataDuplicates` | `UnkeyedNoDuplicates` | The start of a chunk is logged by another thread, maybe after rows were committed; if the process is killed before, the chunk counts as not started and its table is not truncated (`dump_loader.cc:4279`). | "Tables that do not have unique keys are truncated before the load is resumed." (`mod_util.cc:1083`) |
| `MCLoadWorkersCancelled` | `CancelledByUser` | A worker that fails before the event loop has started makes `run()` report a cancellation by the user (`dump_loader.cc:1967`). | "If interrupted by the user and not by a fatal error" (`dump_loader.cc:2849`) |
| `MCTransactionBufferCrlf` | `AskedFor` | With a two-byte terminator, `read()` returns more than the client has asked for (`load_data.cc:304`). | `assert(static_cast<size_t>(bytes) <= len)` (`load_data.cc:560`) |
| `MCLoadStagesPlaceholder` | `PlaceholdersReplaced` | A load with `ignoreExistingObjects` that was killed takes its own placeholders for existing views and keeps them (`dump_loader.cc:3937`). | "Load will be resumed from where it was left" (`dump_loader.cc:3582`) |
| `MCLoadStagesExisting` | `ExistingObjectsKept` | A load that was refused because of existing objects leaves a log; when it is tried again it is a resumed one, does not look for them, and loads into the existing tables (`dump_loader.cc:4017`). | "If this option is set to false, any existing object results in an error." (`mod_util.cc:1155`) |
| `MCDumperPosition` | `CheckedMeansUnchanged` | The position from which on the check looks for DDL is fetched after the objects; LOCK TABLES does not block DDL of views, routines or schemas in between, which goes unnoticed (`dumper.cc:2593`).  `CheckedMeansConsistent` is what the check does guarantee. | "4.2. fetch server metadata (i.e. gtid_executed, binlog file and position)", before "4.3. fetch information about tables, views, routines, users, etc." (`dumper.cc:1919`) |
| `MCDumperUnchecked` | `InconsistencyDetected` | The flag that all tasks were scheduled is set after the last one was pushed, maybe after the workers have executed all of them; then none of them compares the positions, and DDL executed meanwhile goes unnoticed (`dumper.cc:3274`). | "9. once all DDL-related files are written (metadata, SQL, etc.):", "9.1.1.1. if dumpInstance(): error and abort" (`dumper.cc:1929`) |
| `MCTransactionBufferEscape` | `RowsNotTorn` | A terminator whose escape character was sent before is taken for the end of the row (`load_data.cc:411`). | |
| `MCChunkingLargeRows` | `LargeRowsHandled` | `row_count / rows_per_chunk` is computed for a table without an index although rows larger than `bytesPerChunk` make `rows_per_chunk` zero (`dumper.cc:1441`). | |

`buffer` shows that `AskedFor` and `RowsNotTorn` do hold for a one-byte terminator
without escapes.

Behaviours that were met and are part of the model, so that the properties are
stated around them: opening the log empties it before it is written back
(`load_progress_log.h:597`); with a two-byte terminator a row that was sent partly is
not recorded as such and may be cut by a flush (`load_data.cc:311`); the read that
provides a buffer of the size of a row returns nothing once the copy is interrupted
(`load_data.cc:501`); an append to `gtid_purged` that was executed and not logged is
rejected in every later run (`dump_loader.cc:2247`); a listing may have
`@.done.json` and not all the chunks, and the load of an intact dump then ends with
an error (`dump_loader.cc:4080`); ^C while the dumper creates its threads leaves
some of them waiting (`dumper.cc:1884`); without a snapshot, keys other than integers
may be chunked for ever (`dumper.cc:1425`).

## Proofs

The theorems hold for every value of the constants, under the assumptions named in
the modules (`QueueAssumption`, `PoolAssumption`, `LoadAssumption`,
`WorkersAssumption`, `FileAssumption`, `BufferAssumption`, `ReaderAssumption`, `ScheduleAssumption`,
`StagesAssumption`, `DumperAssumption`, `ChunkingAssumption`), which TLC evaluates.  They say
that constants have their types, that sets of threads are finite, that names of
different kinds of things differ, and what the code guarantees by its structure:
tasks of the pool which are added by others add none, what a task of the loader
requires is not circular, the number of threads is the number of workers.

All the proofs have the same shape.  The properties that are checked are about a
state which several threads have brought about, and none of them is inductive.  Each
module therefore begins with an inductive invariant `IInv`, a conjunction of named
parts, each with a comment; a lemma for `Init`, a lemma per action (or per part
and action), `Invariance == Spec => []IInv`, and one theorem per property that
follows from it.

### `ThreadPoolProofs`

`ReturnedMeansProcessedCorrect` and `FailureVisibleCorrect`.  The shutdown of the pool
is a sequence of unsynchronized reads and writes, so the invariant says for each
label what its thread may still rely on:

* `Control`, `Reasons` – who starts an emergency shutdown has failed or was
  interrupted, and a worker that has failed does not end before the others were told;
* `Counting` – `m_active_threads` is not less than the number of workers that have not
  said they are done (`Counted`), hence zero only if all have, and the processor
  leaves only then or because of an interrupt;
* `Exits` – a worker sees a guard only once nobody can add tasks and there are none to
  take;
* `Once` (`Unique`, `Apart`) – a task is in one place: with the client, in a queue,
  with a worker, with the processor, or processed;
* `Families`, `Producers` – a task which may add others is counted in
  `task_producers` as long as it may;
* `Accounted`, `Outcome` – if nothing went wrong, every task is somewhere.

When `process()` returns normally, `Exits` and `Counting` leave no place for a task
but the processed ones.

### `LoadDataProofs`

The properties say that the log is truthful across crashes.  They are far from
inductive: the log is written from events, events from the state of a worker some
steps ago, and what a worker does from the log of the previous runs.  The inductive
invariant `IInv` ties these together:

* `Ownership` – a chunk has one worker; events refer to the task their worker has;
  nothing follows the READY of a worker; chunks that are DONE have no worker;
* `Offsets` – a worker does not read beyond its file or backwards;
* `Progress` – for keyed tables: the entries of the log, of this run and of the
  last, are `Truthful` (DONE means loaded, and the sum of the sizes is not beyond
  what is loaded); a chunk not scheduled yet has the entry it had when the run
  began; a chunk that nobody has and is not to be scheduled is loaded;
* `WorkerProgress` – everything before the offset of a worker is loaded, and the
  log is not ahead of it;
* `EventProgress` – the same for the events that are not yet handled, in their
  order.

The step which is not obvious is the end of a sub-chunk.  The sum in the log grows
by `end - begin`, where `begin` may be greater than the sum, because earlier
entries were suppressed; the invariant `file.bytes <= begin` makes the new sum at
most `end`, which was reached.  So sums may fall within rows but never beyond what is
loaded.

`Invariance` is `Spec => []IInv`; `TypeCorrect`, `DoneIsLoadedCorrect`,
`SkipsOnlyLoadedCorrect` and `EventOfCurrentTaskCorrect` follow from it.

`KeyedExactCorrect` needs to know when sums do *not* fall within rows, and has an
invariant of its own on top of it, `ExactInv`.  In the first run the sub-chunks of a
chunk which are logged, are about to be logged (events) and are being loaded form a
chain: if their numbers are consecutive, one begins where the other ends (`ChainOK`,
`LinkOK`), so that every sum is the end of a row (`FirstRun`).  The second run, which
reads this log, therefore begins at ends of rows and tears none (`SecondRun`); what it
logs itself is a mixture, and nothing more is claimed of the third.  `Replacements`
says that rows are lost only in tables with a torn row.

### `LoadWorkersProofs`

`WorkersAccountedCorrect`, `ExecutedInOrderCorrect` and `OkMeansLoadedCorrect`.

* `WorkReady`, `Queues`, `Views` – for each state of a worker, in which of the
  queues of the main thread it is: a READY event, the idle workers, or with work given
  to it.  The END of a task precedes the READY of its worker (`EndsFirst`), so that the
  weight is returned before the worker is used again;
* `Heaviest` – the position of the heaviest list of `Priority_queue`;
* `Places`, `InOrder` – a task is in one place, and what is pending belongs to the
  stage and has all it requires;
* `WeightExact` – a sum over workers, written as the cardinality of a set, so that
  a step adds or removes the interval of one worker;
* `Awaited` – if there are idle workers and a task for one of them, some worker is
  going to ask.  This is what makes the end of the loop sound: when all workers are
  idle, nothing is pending and nothing is available, and since `Requires` is
  well-founded, nothing is left of the stage (`NothingLeft`, in `Ending`).

### `SynchronizedFileProofs`

`HandedOverCorrect`, and `RowsNotTornCorrect`: `SynchronizedFile` implements
`SubChunks`.

* `WriterView`, `ReaderView` – what each thread knows by itself;
* `Baton` – the possible contents of the two queues.  Together they hold one token:
  the reader waits and the request is in its queue, in the hands of the writer
  (`copy`), or answered.  At the end of the file the writer posts a last response,
  which may come after an answer the reader has not seen;
* `Accounted` – bytes written are bytes received and bytes in flight;
* `Exact` – the row that did not fit is still being written when a buffer of its size
  comes, and a transaction beyond the limit is one row;
* `Ending` – a transaction is not empty but at the end.

`Baton` and `Accounted` hold until ^C, *or* until a `read()` which has not seen it
has its response (`Live`): without that the invariant is not inductive, because the
writer may answer after the interrupt.  In the refinement, the flush of the reader is
a transaction of `SubChunks`, which ends at a row because `m_size` does (`position`
is the end of a row), and everything else is a stuttering step.

The second half of the module is about the queues, `SynchronizedQueue`, which is why its
specification has names of its own (`QueueSpec`, `QueueTypeOK`, and `queue_size` for
`m_size`).

* `QueueExactCorrect`, from `QueueTypeCorrect` (the types) and `FifoCorrect` (`Fifo` and
  `SizeExact`).  The latter two are inductive together with the type:
  a pop moves the head of one queue to the end of what was taken (`MoveHead`), and
  changes the sum of the lengths by one (`SizeUpdate`).
* `NoLostWakeupCorrect`.  Not inductive alone: when a consumer is notified it must
  become one of those who are awake *in a call*, which needs `SleepersInCall`.  The
  proof counts: each push adds an element and a notifier, each notification turns a
  notifier into an awake consumer or finds nobody asleep, each pop by an awake
  consumer removes both.
* `DrainedBeforeGuardsCorrect`.  `DrainInv` adds that the elements owed were pushed before
  the guards, and that there are none before the first shutdown; a pop
  takes a guard only if the queues of all the priorities are empty, and then `Fifo`
  says that everything pushed was taken (`PopDrained`).

### `TransactionBufferProofs`

`WithinLimitsCorrect` and `RowsNotTornCorrect`, for files, rows, requests and limits of
any size, 0 (no limit) included.  They have a hypothesis, `OneByteLines`: the terminator
is one byte long and there is no escape character.  With others both properties are
violated (see [above](#what-the-violation-runs-show)).

* `Progress` – what was loaded, sent and buffered, in this order;
* `Unlimited` – without a limit the file is sent as it is read;
* `EndKnown` – once the end of the transaction was found it is where a row ends, in the
  buffer, and within the limit unless there is only one row;
* `EndUnknown` – before that either a part of its only row was sent, or rows within the
  limit were, and the end of the last one is in the buffer, within the limit;
* `EndReached` – `read()` returns zero where the transaction, or the file, ends.

`flush_done()` is the step of `SubChunks`; `read()`
stutters, whatever it finds in its buffer.

### `LoadScheduleProofs`

`LoadedOnceCorrect`, `StepsInOrderCorrect`, `OkMeansAllCorrect` and
`ScheduleSoundCorrect`, for all dumps, logs, options and orders in which files appear.

* `Seen` – the chunks the reader knows are a prefix of those in the dump, without
  holes, and it knows the last one if and only if it knows all.  The lemmas on
  `rescan_data` show that a listing keeps this, for any set of files;
* `Tasks`, `Counted` – what was consumed is being loaded or counted as loaded, each
  chunk by one worker, or all of them by one bulk load;
* `Loads` – how often a chunk was loaded, from the log, the tasks and what was
  consumed; a part that can still be loaded in bulk has no rows;
* `Indexes`, `Analysis`, `Order` – what is scheduled is being executed or was, and
  what precedes a task had ended when it was handed out;
* `Checks` – the checksums to be verified, being verified and verified add up.

`Control` gives the conditions under which the main thread leaves its loop; with
`Counted` and `Checks` they leave nothing to be done (`OkMeansAll`).

`ScheduleSound` needs a second invariant, `Selection`, of the choice of the next chunk
(`SelectionInvariance`):

* `Pending`, `BeingLoaded` – a part with a chunk that was not consumed is in
  `m_tables_with_data`, and what is in `m_tables_being_loaded` is the task of a worker;
* `LoadedLess`, `NoneConsumed` – no more chunks were loaded than consumed, and none was
  consumed while the metadata is awaited;
* `Limited` – as long as the first scan was the only one, the parts which are begun, and
  have more data or are being loaded, are not more than the threads.

`next_table_chunk()` begins a new part only if every part with data that was begun is
being loaded, by a worker which is not the one that asks: then the begun parts have
as many different workers, and one is free.  Otherwise
`schedule_chunk_proportionally()` picks a part below its share; that there is one is
shown with the part of the greatest difference between its size and what is being
loaded of it (lemma `Greatest`).  A sum over the chunks of a part would be a recursive
function, of which the provers know nothing: `BytesOf` is the number of elements of the
set of bytes, and their lemmas on cardinalities apply.

### `LoadStagesProofs`

`DoneIsThereCorrect`, `StatementsAcceptedCorrect` and `OkMeansCompleteCorrect`, for any
number of runs that are killed at any point.

* `Logs` – the log, what the run has read of it, and the entry about to be written are
  all true of the server (`LogTrue`).  This part is independent of the stage, which is
  why it survives `Restart`;
* `ObjectsOK`, `ExistsOK` – objects are there before the statements which alter them,
  and a secondary engine comes last;
* `WorkersOK`, `DdlOK`, `AfterDdlOK`, `ViewsOK`, `DataOK`, `EndOK` – for each stage: what is
  missing on the server is in a task, in `todo`, or with a worker; and what is left
  of the deferred statements of a table is what the server does not have (`LeftOK`).
  Each of them says nothing in other stages (`Elsewhere`), so that a step concerns
  two of them at most;
* `StatementsMine` – a table that has deferred statements is DONE in the log, data
  included: a resumed load does not load into it again and does not repeat them.

### `DumperProofs`

`OneSnapshotCorrect`, `ConsistentDdlCorrect`, `DoneMeansCompleteCorrect` and
`ResultTruthfulCorrect`, for all the privileges the user may have, with any number of
interrupts, exceptions, and statements of other clients.

* `Snapshot` – transactions are started under the read lock, during which nobody
  commits, so that all of them see `writes`;
* `DdlLocked` – DDL is blocked without a gap, by FTWRL or the backup lock until the
  cache is built and by the backup lock after it, as long as a task is there that is
  not thrown away;
* `Versions` – without these locks the tables, at least, are locked while the cache is
  filled: a table is as it was cached, or was changed after the position was fetched;
* `Validated` – the same of the DDL files; once the positions were compared, none of
  them is later than the position and none is to be written;
* `Places`, `Contents`, `Accounted` – a task is in one place, and none is lost unless
  something failed;
* `ShutDown` – workers exit only when tasks that create tasks have ended;
* `Flags`, `Sessions`, `Threads`, `NothingToDo`, `Results`, `Finalized` – where the main
  thread is, and the reasons of interrupts and results.

The module also has the proofs about `Chunking`: `EachRowOnceCorrect` and
`OneLastChunkCorrect`, for any number of words, any statistics, any number of retries and
bisections, whatever `EXPLAIN` answers, and for any number of rows and of changes by
other clients.  `ChunkingInvariance` is the invariant `ChunkInv`:

* `Prefix` – the keys before the current one are in one chunk and the others in none;
  `FetchedPrefix` and `WrittenPrefix` say it of the two other algorithms;
* `SearchForward`, `SearchedRange` – the key the search has found is not before the
  current one, and the range it is searching is not longer than the positive words;
* `FirstAndLastKey`, `Statements`, `LastAtTheEnd`, and the types.

Words are handled by a few lemmas: what `In` returns is the only word that differs from
the exact result by a multiple of the number of words (`InIsWord`, `InIs`), so that
operands may wrap around as well (`InAdd`).  A constant step is not longer than the
index, nothing wraps (`ConstantStep`).  A searched step may: a range can begin before
the current key, since the offset of line 1212 wraps around, but at an even distance
from it (`EvenOffset`), and a bisection that goes below the current key throws; and a
step to a later key may be a negative word, but the addition which wraps around then
undoes it (`StepForward`).

The remaining case is a signed column for which twice the step is more than half of
the words (`Wide`).  Then `right - left` is a negative word in the first range of an
index that begins below zero (`Stalls`), the middle lies outside of the range, and the
search gives up at a key *before* the current one.  Lemma `Stalled` shows that the
chunk is right all the same: the step to that key, a negative word, either reaches the
last key or passes all the negative ones, because otherwise two steps would be longer
than the index.  After it the search does not stall again (the last conjunct of
`Prefix`, lemma `WideForward`).

Of a column of any other type the row at a position is the one with as many rows
up to it (`RowAt`); lemma `NextRow` says that nothing is between two consecutive
positions.

`ChunksAdvanceCorrect` proves the action property: in a snapshot, a chunk which is not
the last one moves the loop on to a later key, also where a step is a
negative word (`PushAdvances`, from the same lemmas `FoundStep` and `StepForward`; for
other types `FetchAdvances`).  It is the variant of the loop, so that there are
finitely many chunks.  That every search ends as well is part of `ChunkingEnds`, which
TLC checks.

### Only model-checked

* Liveness under fairness: `SleeperServed`, `Terminates`, `AllRead`, `RunsEnd` and the
  `Ends` of the pool, the file, the schedule, the dumper and the chunks (`ChunkingEnds`).  The prover
  has no rules for fairness and `ENABLED`.

## What is not modelled

* Contents of rows, character sets, compression and SQL text.  A row is its
  length or its key, a file its row boundaries, a script one statement.
* The monitoring and the retries of a bulk load (`dump_loader.cc:857`); the choice
  between a bulk load and chunks is in `LoadSchedule`.
* `resetProgress`, `dryRun`, loads without DDL (in `LoadStages`),
  `createInvisiblePKs`, reconnection after a lost connection and retries within a
  task, single statements of the script of users.
* `force`, and so tables which are skipped because of the errors of their schema
  (`dump_loader.cc:2455`, `5160`): those excluded by filters are not known to the
  reader at all.
* In `LoadStages`: `onGrantErrors` (an error of a grant is a rejected statement) and
  loads without users; foreign keys, triggers and engines of tables that were there
  before the first run; a view whose placeholder was dropped and which was not
  created yet, because the script of the view is one step.
* In `TransactionBuffer`: errors of the file, which end the load.
* In `Chunking`: rows whose key is NULL.  A condition is added to the chunk 0, and the
  others have only rows with keys (`dumper.cc:930`, `1551`).
* A log with an incomplete last line: `init()` does not accept it, and the user has
  to reset the progress.
* The destructor of `Thread_pool` while `process()` of the asynchronous thread is
  running: all the callers wait for it first, unless an exception is thrown between.
* In `LoadSchedule` weights are 1 and tables are in any order; in `Dumper` a
  statement that fails is a choice of the model, `KILL QUERY` being one reason for it.
* Parallel import, the virtual file system, storage and cloud backends, and
  AdminAPI.  `PROJECT.json` says for each part why, and whether it is planned.  The
  larger part of the repository is not of this kind at all: generated parsers,
  language bindings, checks that are lists of SQL queries, tests.

## Plan

Done: queue, thread pool, progress log and data path of the loader, workers,
transactions, synchronized file, dump reader and scheduling, stages of the load,
dumper, chunking; the proofs above.  To come, most important first:

1. Theorems: action properties (a chunk that is DONE stays so within a run, the log
   of a load only grows, a snapshot is never replaced).
2. Abstract specification of the queue, which `SynchronizedQueue` implements, and of
   the load of a chunk, which `LoadData` implements for tables with a key.
3. `ImportTable`: ranges of a file, which should cover each row once, next to
   `TransactionBuffer`.
4. `BulkLoad`: its threads, its retries and what its progress means to a later run.
5. `VirtualFs`, `ThreadedFile`: the other files of a copy.
6. AdminAPI: locks and undo lists of a switchover; upgrade of the metadata.
