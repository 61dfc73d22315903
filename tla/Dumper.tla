------------------------------- MODULE Dumper -------------------------------
(***************************************************************************)
(* The dumper of util.dumpInstance(), dumpSchemas(), dumpTables() and      *)
(* exportTable() (src/modules/util/dump/dumper.cc): the main thread takes  *)
(* the locks, opens the sessions of the workers inside of them, starts the *)
(* workers, pushes the tasks which write metadata, DDL and chunk tables,   *)
(* and waits; the workers execute tasks and create new ones; a user may    *)
(* press ^C at any moment.  The server is the environment: it commits      *)
(* transactions and executes DDL whenever no lock of the dumper forbids it.*)
(***************************************************************************)
EXTENDS Integers, FiniteSets, Sequences, SequencesExt

CONSTANTS
    Workers,        \* Table_worker threads, worker_threads() of them
    Schemas, Views, Tables,   \* objects to be dumped
    Parts,          \* partitions of a table or view (itself, if there are none);
                    \* {}: should_dump_data() excludes its data
    MaxChunks,      \* bound: chunks of a table
    OptionSets,     \* options, privileges and server settings to be examined
    MaxInterrupts,  \* bound: how many times the user presses ^C
    MaxFailures,    \* bound: tasks and steps of the main thread that throw
    MaxWrites,      \* bound: transactions committed by other clients
    MaxDdl          \* bound: DDL statements executed by other clients

\* A run of the dumper: threads() sessions (worker_threads() is twice that when
\* the target is a prefix PAR); can the user execute FTWRL ("denied": has the
\* privilege, the server refuses); can the user LOCK INSTANCE FOR BACKUP; can a
\* change be detected in gtid_executed or in the binary log.
Options ==
    [threads : 1 .. Cardinality(Workers), consistent : BOOLEAN,
     reload : {"yes", "denied", "no"}, backup_admin : BOOLEAN,
     logged : BOOLEAN, instance : BOOLEAN, export_only : BOOLEAN,
     ddl : BOOLEAN, data : BOOLEAN, checksum : BOOLEAN,
     skip_consistency_checks : BOOLEAN]

AllParts == UNION {Parts[t] : t \in Tables}

ASSUME DumperAssumption ==
    /\ IsFiniteSet(Workers) /\ Workers # {}
    /\ \A S \in {Schemas, Views, Tables} : IsFiniteSet(S)
    /\ IsFiniteSet(AllParts)
    /\ MaxChunks \in Nat \ {0}
    /\ {MaxInterrupts, MaxFailures, MaxWrites, MaxDdl} \subseteq Nat
    /\ OptionSets \subseteq Options

High == 4
Medium == 3
Low == 2
Lowest == 1
Priorities == Lowest .. High

Ddl == {"schema DDL", "view DDL", "table DDL"}

Metadata == {"schema metadata", "table metadata"}

PriorityOf(t) ==
    CASE t.kind \in Metadata \cup Ddl -> High
      [] t.kind = "chunking"          -> Medium
      [] t.kind = "data"              -> Low
      [] t.kind = "checksum"          -> Lowest

NoTask == [kind |-> "none", of |-> "none", chunk |-> 0]

Task(k, o, c) == [kind |-> k, of |-> o, chunk |-> c]

\* Tasks of a kind, one for each object: create_schema_metadata_tasks(),
\* create_schema_ddl_tasks() and create_table_tasks() iterate over ordered
\* containers.
TasksOf(k, S) == [i \in 1 .. Cardinality(S) |-> Task(k, SetToSeq(S)[i], 0)]

Objects == Schemas \cup Views \cup Tables

VARIABLES
    options,      \* m_options, the privileges of the user, variables of the server
    main,         \* what the main thread is about to do
    at,           \* how many of its tasks the main thread has pushed
    m_workers,    \* threads that were created and were not joined yet
    state,        \* what a worker is about to do
    task,         \* the task of a worker
    holds,        \* does a worker hold a session (m_session)
    m_session_pool,   \* number of sessions in the pool
    m_worker_tasks,   \* queue of each priority
    guards,       \* number of the empty tasks behind all the other ones
    pushed,       \* tasks that were counted as to be done
    finished,     \* tasks that were counted as done
    m_all_table_metadata_tasks_scheduled,
    m_main_thread_finished_producing_chunking_tasks,
    m_worker_interrupt,
    m_worker_exceptions,
    handler,      \* is the handler of ^C to call abort()
    interrupts, failures, writes,
    read_lock,    \* FLUSH TABLES WITH READ LOCK, or LOCK TABLES, is in effect
    backup_lock,  \* LOCK INSTANCE FOR BACKUP is in effect
    m_ftwrl_used, m_instance_locked,
    schema_version,   \* number of DDL statements executed by other clients
    version,      \* which of these statements was the last one on an object
    snapshots,    \* what the transactions of all the sessions see
    cache,        \* m_cache: schema_version when its objects were fetched, and
                  \* when its position was (gtid_executed, binary log), -1: not yet
    shown,        \* DDL files, and the version of the object each one shows
    checked,      \* validate_dump_consistency() has compared the positions
    done,         \* @.done.json was written
    result,       \* how run() has ended
    early         \* abort() was called before all the threads existed

user == <<m_worker_interrupt, handler, interrupts, early>>

threads == <<m_workers, state, task, holds, m_session_pool, m_worker_exceptions,
             failures>>

queue == <<m_worker_tasks, guards>>

progress == <<at, pushed, finished, m_all_table_metadata_tasks_scheduled,
              m_main_thread_finished_producing_chunking_tasks>>

server == <<writes, schema_version, version>>

locks == <<read_lock, backup_lock, m_ftwrl_used, m_instance_locked, snapshots>>

dump == <<cache, shown, checked, done, result>>

vars == <<options, main, user, threads, queue, progress, server, locks, dump>>

-----------------------------------------------------------------------------
(* Tasks created by the main thread, in the order they are pushed.          *)

WritesMetadata == ~options.export_only

\* push_table_task(): what gets a task of its own, if its data is dumped.
DataParts ==
    IF options.export_only THEN {o \in Tables \cup Views : Parts[o] # {}}
                           ELSE AllParts

MainTasks ==
    (IF WritesMetadata THEN TasksOf("schema metadata", Schemas) ELSE <<>>)
    \o (IF options.ddl
        THEN TasksOf("schema DDL", Schemas) \o TasksOf("view DDL", Views)
             \o TasksOf("table DDL", Tables)
        ELSE <<>>)
    \o (IF WritesMetadata THEN TasksOf("table metadata", Tables) ELSE <<>>)
    \o (IF options.data
        THEN TasksOf("chunking", DataParts)
        ELSE IF options.checksum THEN TasksOf("checksum", DataParts) ELSE <<>>)

Push(q, t) == [q EXCEPT ![PriorityOf(t)] = Append(@, t)]

shutdown(n) == guards' = guards + n

\* Number of tasks of the given kinds that were to be done, and were done.
Total(kinds) == Cardinality({t \in pushed : t.kind \in kinds})

Completed(kinds) == Cardinality({t \in finished : t.kind \in kinds})

all_tasks_produced ==
    /\ m_main_thread_finished_producing_chunking_tasks
    /\ Completed({"chunking"}) = Total({"chunking"})

Init ==
    /\ options \in OptionSets
    /\ main = "start" /\ at = 0
    /\ m_workers = {}
    /\ state = [w \in Workers |-> "none"]
    /\ task = [w \in Workers |-> NoTask]
    /\ holds = [w \in Workers |-> FALSE]
    /\ m_session_pool = 0
    /\ m_worker_tasks = [p \in Priorities |-> <<>>] /\ guards = 0
    /\ pushed = {} /\ finished = {}
    /\ m_all_table_metadata_tasks_scheduled = FALSE
    /\ m_main_thread_finished_producing_chunking_tasks = FALSE
    /\ m_worker_interrupt = FALSE /\ m_worker_exceptions = {}
    /\ handler = "idle"
    /\ interrupts = 0 /\ failures = 0 /\ writes = 0
    /\ read_lock = FALSE /\ backup_lock = FALSE
    /\ m_ftwrl_used = FALSE /\ m_instance_locked = FALSE
    /\ schema_version = 0 /\ version = [o \in Objects |-> 0]
    /\ snapshots = {} /\ cache = [built |-> -1, position |-> -1] /\ shown = {}
    /\ checked = FALSE /\ done = FALSE /\ result = "none" /\ early = FALSE

Ended == main = "ended"

-----------------------------------------------------------------------------
(* Other clients of the server (external).  Transactions committed once all  *)
(* the sessions exist are not examined: no snapshot can show them.           *)

Write ==
    /\ main \in {"start", "locks", "lock_all_tables", "lock_tables",
                 "transaction", "test", "sessions"}
    /\ ~read_lock /\ writes < MaxWrites
    /\ writes' = writes + 1
    /\ UNCHANGED <<options, main, user, threads, queue, progress,
                   schema_version, version, locks, dump>>

\* DDL: FTWRL and the backup lock stop all of it, LOCK TABLES READ only that of
\* the tables it names.  (Routines and events are in the file of their schema,
\* triggers in that of their table.)  The statement may create an object, or
\* change one which is not dumped.  Statements executed before the first object
\* is fetched into the cache are not examined: cache and files show them alike.
ExecuteDdl ==
    /\ ~Ended /\ cache.built >= 0 /\ schema_version < MaxDdl
    /\ ~backup_lock /\ ~(read_lock /\ m_ftwrl_used)
    /\ schema_version' = schema_version + 1
    /\ \/ UNCHANGED version
       \/ \E o \in Objects :
            /\ o \in Tables => ~read_lock
            /\ version' = [version EXCEPT ![o] = schema_version + 1]
    /\ UNCHANGED <<options, main, user, threads, queue, progress, writes, locks,
                   dump>>

-----------------------------------------------------------------------------
(* The handler of ^C: interrupt() at once, abort() from another thread.     *)

interrupt ==
    /\ ~Ended /\ interrupts < MaxInterrupts /\ handler = "idle"
    /\ interrupts' = interrupts + 1
    /\ m_worker_interrupt' = TRUE
    /\ handler' = "abort"
    /\ UNCHANGED <<options, main, early, threads, queue, progress, server,
                   locks, dump>>

\* emergency_shutdown() wakes up the threads which exist.  KILL QUERY makes the
\* statement of the main thread fail, if there is one: MainThrows.
abort ==
    /\ ~Ended /\ handler = "abort"
    /\ handler' = "idle"
    /\ m_worker_interrupt' = TRUE
    /\ shutdown(Cardinality(m_workers))
    /\ early' = (early \/ main \in {"start", "locks", "lock_all_tables",
                                    "lock_tables", "transaction", "test",
                                    "sessions", "threads"})
    /\ UNCHANGED <<options, main, interrupts, threads, m_worker_tasks, progress,
                   server, locks, dump>>

-----------------------------------------------------------------------------
(* The main thread: do_run() and run().                                     *)

MainUnchanged == UNCHANGED <<options, handler, interrupts, early, server>>

Go(from, to) == main = from /\ main' = to

\* open_session(), fetch_user_privileges()
Start ==
    /\ Go("start", "locks")
    /\ m_worker_interrupt' = FALSE
    /\ MainUnchanged /\ UNCHANGED <<threads, queue, progress, locks, dump>>

\* acquire_read_locks()
acquire_read_locks ==
    /\ main = "locks"
    /\ IF ~options.consistent THEN main' = "test" /\ UNCHANGED locks
       ELSE IF options.reload = "yes"
       THEN /\ main' = "transaction"
            /\ read_lock' = TRUE /\ m_ftwrl_used' = TRUE
            /\ UNCHANGED <<backup_lock, m_instance_locked, snapshots>>
       ELSE main' = "lock_all_tables" /\ UNCHANGED locks
    /\ MainUnchanged
    /\ UNCHANGED <<m_worker_interrupt, threads, queue, progress, dump>>

\* lock_instance() throws: neither DDL can be blocked, nor detected.
CannotLock ==
    /\ options.consistent /\ ~m_instance_locked
    /\ ~options.backup_admin /\ ~m_ftwrl_used /\ ~options.logged
    /\ options.instance

\* Mutant: the backup lock is not taken if FTWRL was used.
MutantLockInstance ==
    IF options.consistent /\ ~m_instance_locked
    THEN /\ backup_lock' = (options.backup_admin /\ ~m_ftwrl_used)
         /\ m_instance_locked' = TRUE
    ELSE UNCHANGED <<backup_lock, m_instance_locked>>

lock_instance ==
    IF options.consistent /\ ~m_instance_locked
    THEN /\ backup_lock' = options.backup_admin
         /\ m_instance_locked' = TRUE
    ELSE UNCHANGED <<backup_lock, m_instance_locked>>

\* lock_all_tables(): the backup lock first, then the list of tables is fetched
\* and these tables are locked.
LockAllTables ==
    /\ Go("lock_all_tables", "lock_tables")
    /\ ~CannotLock
    /\ lock_instance
    /\ MainUnchanged
    /\ UNCHANGED <<m_worker_interrupt, threads, queue, progress, read_lock,
                   m_ftwrl_used, snapshots, dump>>

LockTables ==
    /\ Go("lock_tables", "transaction")
    /\ read_lock' = TRUE
    /\ MainUnchanged
    /\ UNCHANGED <<m_worker_interrupt, threads, queue, progress, backup_lock,
                   m_ftwrl_used, m_instance_locked, snapshots, dump>>

start_transaction ==
    snapshots' = IF options.consistent THEN snapshots \cup {writes} ELSE snapshots

StartTransaction ==
    /\ Go("transaction", "test")
    /\ start_transaction
    /\ MainUnchanged
    /\ UNCHANGED <<m_worker_interrupt, threads, queue, progress, read_lock,
                   backup_lock, m_ftwrl_used, m_instance_locked, dump>>

\* Mutant: the scope guard which releases the read locks ends too early.
MutantTestInterrupt ==
    /\ main = "test"
    /\ read_lock' = FALSE
    /\ IF m_worker_interrupt
       THEN main' = "ended" /\ result' = "cancelled"
       ELSE main' = "sessions" /\ UNCHANGED result
    /\ MainUnchanged
    /\ UNCHANGED <<m_worker_interrupt, threads, queue, progress, backup_lock,
                   m_ftwrl_used, m_instance_locked, snapshots, cache, shown,
                   checked, done>>

\* The first test of the interrupt: nothing was created yet, do_run() returns
\* and run() throws.
TestInterrupt ==
    /\ main = "test"
    /\ IF m_worker_interrupt
       THEN main' = "ended" /\ result' = "cancelled" /\ read_lock' = FALSE
       ELSE main' = "sessions" /\ UNCHANGED <<result, read_lock>>
    /\ MainUnchanged
    /\ UNCHANGED <<m_worker_interrupt, threads, queue, progress, backup_lock,
                   m_ftwrl_used, m_instance_locked, snapshots, cache, shown,
                   checked, done>>

create_worker_sessions ==
    /\ main = "sessions"
    /\ m_session_pool' = m_session_pool + 1
    /\ main' = IF m_session_pool' = options.threads THEN "threads" ELSE main
    /\ start_transaction
    /\ MainUnchanged
    /\ UNCHANGED <<m_worker_interrupt, m_workers, state, task, holds,
                   m_worker_exceptions, failures, queue, progress, read_lock,
                   backup_lock, m_ftwrl_used, m_instance_locked, dump>>

create_worker_threads ==
    /\ main = "threads"
    /\ LET w == CHOOSE v \in Workers : v \notin m_workers
       IN /\ m_workers' = m_workers \cup {w}
          /\ state' = [state EXCEPT ![w] = "pop"]
    /\ main' = IF m_workers' = Workers THEN "cache" ELSE main
    /\ MainUnchanged
    /\ UNCHANGED <<m_worker_interrupt, task, holds, m_session_pool,
                   m_worker_exceptions, failures, queue, progress, locks, dump>>

initialize_instance_cache ==
    /\ Go("cache", "position")
    /\ cache' = [cache EXCEPT !.built = schema_version]
    /\ MainUnchanged
    /\ UNCHANGED <<m_worker_interrupt, threads, queue, progress, locks, shown,
                   checked, done, result>>

\* The end of initialize_instance_cache(): builder.binlog_info() fetches the
\* position last, after metadata, events, routines and triggers.  (gtid_executed
\* is fetched with the metadata, but if it has changed, the statements are looked
\* up in the binary log from this position on.)
binlog_info ==
    /\ Go("position", "lock_instance")
    /\ cache' = IF WritesMetadata THEN [cache EXCEPT !.position = schema_version]
                                  ELSE cache
    /\ MainUnchanged
    /\ UNCHANGED <<m_worker_interrupt, threads, queue, progress, locks, shown,
                   checked, done, result>>

LockInstance ==
    /\ Go("lock_instance", "unlock")
    /\ m_worker_interrupt \/ ~CannotLock
    /\ IF m_worker_interrupt THEN UNCHANGED <<backup_lock, m_instance_locked>>
                             ELSE lock_instance
    /\ MainUnchanged
    /\ UNCHANGED <<m_worker_interrupt, threads, queue, progress, read_lock,
                   m_ftwrl_used, snapshots, dump>>

release_read_locks ==
    /\ Go("unlock", "push")
    /\ read_lock' = FALSE
    /\ MainUnchanged
    /\ UNCHANGED <<m_worker_interrupt, threads, queue, progress, backup_lock,
                   m_ftwrl_used, m_instance_locked, snapshots, dump>>

\* create_schema_metadata_tasks(), create_schema_ddl_tasks(),
\* create_table_tasks(), push_table_task()
PushTask ==
    /\ main = "push" /\ at < Len(MainTasks)
    /\ LET t == MainTasks[at + 1]
       IN /\ pushed' = pushed \cup {t}
          /\ m_worker_tasks' = Push(m_worker_tasks, t)
    /\ at' = at + 1
    /\ MainUnchanged
    /\ UNCHANGED <<main, m_worker_interrupt, threads, guards, finished,
                   m_all_table_metadata_tasks_scheduled,
                   m_main_thread_finished_producing_chunking_tasks, locks, dump>>

TasksScheduled ==
    /\ at = Len(MainTasks) /\ Go("push", "produced")
    /\ m_all_table_metadata_tasks_scheduled' = TRUE
    /\ MainUnchanged
    /\ UNCHANGED <<m_worker_interrupt, threads, queue, at, pushed, finished,
                   m_main_thread_finished_producing_chunking_tasks, locks, dump>>

TasksProduced ==
    /\ Go("produced", "shutdown")
    /\ m_main_thread_finished_producing_chunking_tasks' = TRUE
    /\ MainUnchanged
    /\ UNCHANGED <<m_worker_interrupt, threads, queue, at, pushed, finished,
                   m_all_table_metadata_tasks_scheduled, locks, dump>>

maybe_push_shutdown_tasks ==
    IF all_tasks_produced THEN shutdown(Cardinality(m_workers))
                          ELSE UNCHANGED guards

PushShutdownTasks ==
    /\ Go("shutdown", "wait")
    /\ maybe_push_shutdown_tasks
    /\ MainUnchanged
    /\ UNCHANGED <<m_worker_interrupt, threads, m_worker_tasks, progress, locks,
                   dump>>

Join == \A w \in m_workers : state[w] = "exited"

\* Mutant: the dump is finalized also after an interrupt.
MutantWaitForAllTasks ==
    /\ Go("wait", "cleanup") /\ Join
    /\ m_workers' = {}
    /\ done' = (m_worker_exceptions = {})
    /\ MainUnchanged
    /\ UNCHANGED <<m_worker_interrupt, state, task, holds, m_session_pool,
                   m_worker_exceptions, failures, queue, progress, locks, cache,
                   shown, checked, result>>

\* wait_for_all_tasks(), then finalize_dump() if there was no interrupt.
WaitForAllTasks ==
    /\ Go("wait", "cleanup") /\ Join
    /\ m_workers' = {}
    /\ done' = ~m_worker_interrupt
    /\ MainUnchanged
    /\ UNCHANGED <<m_worker_interrupt, state, task, holds, m_session_pool,
                   m_worker_exceptions, failures, queue, progress, locks, cache,
                   shown, checked, result>>

\* finalize_dump() throws, @.done.json may have been written already
FinalizeThrows ==
    /\ Go("wait", "unwind") /\ Join
    /\ ~m_worker_interrupt /\ failures < MaxFailures
    /\ failures' = failures + 1
    /\ m_workers' = {}
    /\ done' \in BOOLEAN
    /\ MainUnchanged
    /\ UNCHANGED <<m_worker_interrupt, state, task, holds, m_session_pool,
                   m_worker_exceptions, queue, progress, locks, cache, shown,
                   checked, result>>

\* Mutant: the interrupt is tested before rethrow().
MutantCleanup ==
    /\ main = "cleanup" /\ m_session_pool = options.threads
    /\ main' = "ended" /\ m_session_pool' = 0
    /\ result' = CASE m_worker_interrupt -> "cancelled"
                   [] ~m_worker_interrupt /\ m_worker_exceptions # {} -> "error"
                   [] OTHER -> "ok"
    /\ backup_lock' = FALSE
    /\ MainUnchanged
    /\ UNCHANGED <<m_worker_interrupt, m_workers, state, task, holds,
                   m_worker_exceptions, failures, queue, progress, read_lock,
                   m_ftwrl_used, m_instance_locked, snapshots, cache, shown,
                   checked, done>>

\* The end of do_run(): the scope guard takes all the sessions from the pool;
\* rethrow() if a worker has thrown; run() throws if there was an interrupt.
\* Closing the session of the main thread releases the backup lock.
Cleanup ==
    /\ main = "cleanup" /\ m_session_pool = options.threads
    /\ main' = "ended" /\ m_session_pool' = 0
    /\ result' = CASE m_worker_exceptions # {} -> "error"
                   [] m_worker_exceptions = {} /\ m_worker_interrupt -> "cancelled"
                   [] OTHER -> "ok"
    /\ backup_lock' = FALSE
    /\ MainUnchanged
    /\ UNCHANGED <<m_worker_interrupt, m_workers, state, task, holds,
                   m_worker_exceptions, failures, queue, progress, read_lock,
                   m_ftwrl_used, m_instance_locked, snapshots, cache, shown,
                   checked, done>>

\* A statement of the main thread fails, or is killed: the read locks are
\* released.  Once release_read_locks() was called, the scope guard which takes
\* all the sessions exists as well ("unwind").  Tasks are pushed without
\* executing any statements.
MainThrows ==
    /\ main \in {"start", "locks", "lock_all_tables", "lock_tables",
                 "transaction", "sessions", "cache", "position",
                 "lock_instance", "push"}
    /\ main = "push" => at = 0
    /\ \/ failures < MaxFailures /\ failures' = failures + 1
       \/ /\ main \in {"lock_all_tables", "lock_instance"} /\ CannotLock
          /\ main = "lock_instance" => ~m_worker_interrupt
          /\ UNCHANGED failures
    /\ main' = IF main = "push" THEN "unwind" ELSE "kill"
    /\ read_lock' = FALSE
    /\ MainUnchanged
    /\ UNCHANGED <<m_worker_interrupt, m_workers, state, task, holds,
                   m_session_pool, m_worker_exceptions, queue, progress,
                   backup_lock, m_ftwrl_used, m_instance_locked, snapshots, dump>>

Unwind ==
    /\ Go("unwind", "kill") /\ m_session_pool = options.threads
    /\ m_session_pool' = 0
    /\ MainUnchanged
    /\ UNCHANGED <<m_worker_interrupt, m_workers, state, task, holds,
                   m_worker_exceptions, failures, queue, progress, locks, dump>>

\* kill_workers(): emergency_shutdown(), then wait_for_all_tasks()
kill_workers ==
    /\ Go("kill", "kill_wait")
    /\ m_worker_interrupt' = TRUE
    /\ shutdown(Cardinality(m_workers))
    /\ MainUnchanged
    /\ UNCHANGED <<threads, m_worker_tasks, progress, locks, dump>>

Killed ==
    /\ Go("kill_wait", "ended") /\ Join
    /\ m_workers' = {}
    /\ result' = "error"
    /\ backup_lock' = FALSE
    /\ MainUnchanged
    /\ UNCHANGED <<m_worker_interrupt, state, task, holds, m_session_pool,
                   m_worker_exceptions, failures, queue, progress, read_lock,
                   m_ftwrl_used, m_instance_locked, snapshots, cache, shown,
                   checked, done>>

Main ==
    \/ Start \/ acquire_read_locks \/ LockAllTables \/ LockTables
    \/ StartTransaction \/ TestInterrupt \/ create_worker_sessions
    \/ create_worker_threads \/ initialize_instance_cache \/ binlog_info
    \/ LockInstance \/ release_read_locks \/ PushTask \/ TasksScheduled \/ TasksProduced
    \/ PushShutdownTasks \/ WaitForAllTasks \/ FinalizeThrows \/ Cleanup
    \/ MainThrows \/ Unwind \/ kill_workers \/ Killed

-----------------------------------------------------------------------------
(* A worker: Table_worker::run() and the tasks.                             *)

WorkerUnchanged ==
    UNCHANGED <<options, main, at, m_workers, handler, interrupts, early,
                m_all_table_metadata_tasks_scheduled,
                m_main_thread_finished_producing_chunking_tasks, server, locks,
                cache, done, result>>

Step(w, from, to) == state[w] = from /\ state' = [state EXCEPT ![w] = to]

\* Priority of the next task, 0 if only guards are left.
Top == LET ready == {p \in Priorities : m_worker_tasks[p] # <<>>}
       IN IF ready = {} THEN 0 ELSE CHOOSE p \in ready : \A q \in ready : p >= q

\* m_worker_tasks.pop(): after an interrupt the task is dropped.
PopTask(w) ==
    /\ Top # 0
    /\ Step(w, "pop", IF m_worker_interrupt THEN "exited" ELSE "session")
    /\ m_worker_tasks' = [m_worker_tasks EXCEPT ![Top] = Tail(@)]
    /\ task' = [task EXCEPT ![w] = IF m_worker_interrupt THEN NoTask
                                   ELSE Head(m_worker_tasks[Top])]
    /\ WorkerUnchanged
    /\ UNCHANGED <<m_worker_interrupt, holds, m_session_pool,
                   m_worker_exceptions, failures, guards, pushed, finished,
                   shown, checked>>

PopGuard(w) ==
    /\ Top = 0 /\ guards > 0
    /\ Step(w, "pop", "exited")
    /\ guards' = guards - 1
    /\ WorkerUnchanged
    /\ UNCHANGED <<m_worker_interrupt, task, holds, m_session_pool,
                   m_worker_exceptions, failures, m_worker_tasks, pushed,
                   finished, shown, checked>>

\* session_pool().pop(), followed by a test of the interrupt
TakeSession(w) ==
    /\ m_session_pool > 0
    /\ IF m_worker_interrupt
       THEN /\ Step(w, "session", "exited")
            /\ task' = [task EXCEPT ![w] = NoTask]
            /\ UNCHANGED <<holds, m_session_pool>>
       ELSE /\ Step(w, "session", "execute")
            /\ holds' = [holds EXCEPT ![w] = TRUE]
            /\ m_session_pool' = m_session_pool - 1
            /\ UNCHANGED task
    /\ WorkerUnchanged
    /\ UNCHANGED <<m_worker_interrupt, m_worker_exceptions, failures, queue,
                   pushed, finished, shown, checked>>

Executes(w, kinds, to) == task[w].kind \in kinds /\ Step(w, "execute", to)

\* The body of a task which changes only what it is given to change.
Quiet ==
    /\ WorkerUnchanged
    /\ UNCHANGED <<m_worker_interrupt, task, m_worker_exceptions, failures>>

release_session(w) ==
    /\ holds' = [holds EXCEPT ![w] = FALSE]
    /\ m_session_pool' = m_session_pool + (IF holds[w] THEN 1 ELSE 0)

\* write_schema_metadata(), write_table_metadata(), dump_schema_ddl(),
\* dump_table_ddl(), dump_view_ddl(): the statements which fetch DDL do not use
\* the snapshot of the transaction.
WriteFile(w) ==
    /\ Executes(w, Metadata \cup Ddl, "validate")
    /\ finished' = finished \cup {task[w]}
    /\ shown' = IF task[w].kind \in Ddl
                THEN shown \cup {[file |-> task[w], version |-> version[task[w].of]]}
                ELSE shown
    /\ Quiet /\ UNCHANGED <<holds, m_session_pool, queue, pushed, checked>>

\* All the metadata and DDL files were written, as far as a worker can tell.
AllFilesWritten ==
    /\ m_all_table_metadata_tasks_scheduled
    /\ Completed({"table metadata"}) = Total({"table metadata"})
    /\ Completed({"schema metadata"}) = Cardinality(Schemas)
    /\ Completed(Ddl) = Cardinality(Schemas) + Cardinality(Tables)
                         + Cardinality(Views)

MustValidate ==
    /\ options.consistent /\ ~m_ftwrl_used /\ ~options.backup_admin
    /\ AllFilesWritten

\* validate_dump_consistency(): dumpInstance() fails if there was a DDL
\* statement since the position was fetched, unless skipConsistencyChecks is
\* set; the others print a warning.
validate_dump_consistency(w) ==
    /\ state[w] = "validate"
    /\ checked' = (checked \/ MustValidate)
    /\ IF MustValidate /\ options.instance /\ schema_version # cache.position
            /\ ~options.skip_consistency_checks
       THEN /\ Step(w, "validate", "throw")
            /\ m_worker_exceptions' = m_worker_exceptions \cup {w}
            /\ release_session(w)
       ELSE /\ Step(w, "validate", "next")
            /\ UNCHANGED <<m_worker_exceptions, holds, m_session_pool>>
    /\ WorkerUnchanged
    /\ UNCHANGED <<m_worker_interrupt, task, failures, queue, pushed, finished,
                   shown>>

\* create_table_data_tasks(): push_table_data_task() for the next chunk, and
\* maybe for the last one.  An interrupt stops the loop.
PushChunk(w) ==
    /\ task[w].kind = "chunking"
    /\ LET n == Cardinality({t \in pushed : t.kind = "data" /\ t.of = task[w].of})
           t == Task("data", task[w].of, n)
           c == Task("checksum", task[w].of, n)
           q == IF options.checksum THEN Push(m_worker_tasks, c)
                                    ELSE m_worker_tasks
       IN /\ n < MaxChunks
          /\ \/ n + 1 < MaxChunks /\ Step(w, "execute", "execute")
             \/ Step(w, "execute", "chunked")
          /\ pushed' = pushed \cup {t} \cup (IF options.checksum THEN {c} ELSE {})
          /\ m_worker_tasks' = Push(q, t)
    /\ Quiet /\ UNCHANGED <<holds, m_session_pool, guards, finished, shown, checked>>

ChunkingInterrupted(w) ==
    /\ m_worker_interrupt /\ Executes(w, {"chunking"}, "chunked")
    /\ Quiet /\ UNCHANGED <<holds, m_session_pool, queue, pushed, finished,
                            shown, checked>>

\* chunking_task_finished()
CountChunked(w) ==
    /\ Step(w, "chunked", "shutdown")
    /\ finished' = finished \cup {task[w]}
    /\ Quiet /\ UNCHANGED <<holds, m_session_pool, queue, pushed, shown, checked>>

ShutdownWhenProduced(w) ==
    /\ Step(w, "shutdown", "next")
    /\ maybe_push_shutdown_tasks
    /\ Quiet /\ UNCHANGED <<holds, m_session_pool, m_worker_tasks, pushed,
                            finished, shown, checked>>

\* dump_table_data(): rows are fetched, the session is released before the
\* file is closed.
FetchRows(w) ==
    /\ Executes(w, {"data"}, "finish_writing")
    /\ release_session(w)
    /\ Quiet /\ UNCHANGED <<queue, pushed, finished, shown, checked>>

FetchInterrupted(w) ==
    /\ m_worker_interrupt /\ Executes(w, {"data"}, "next")
    /\ Quiet /\ UNCHANGED <<holds, m_session_pool, queue, pushed, finished,
                            shown, checked>>

FinishWriting(w) ==
    /\ Step(w, "finish_writing", "next")
    /\ finished' = finished \cup {task[w]}
    /\ Quiet /\ UNCHANGED <<holds, m_session_pool, queue, pushed, shown, checked>>

checksum_table_data(w) ==
    /\ Executes(w, {"checksum"}, "next")
    /\ finished' = finished \cup {task[w]}
    /\ Quiet /\ UNCHANGED <<holds, m_session_pool, queue, pushed, shown, checked>>

\* The end of the loop's body: the scope guard returns the session.
NextTask(w) ==
    /\ Step(w, "next", IF m_worker_interrupt THEN "exited" ELSE "pop")
    /\ task' = [task EXCEPT ![w] = NoTask]
    /\ release_session(w)
    /\ WorkerUnchanged
    /\ UNCHANGED <<m_worker_interrupt, m_worker_exceptions, failures, queue,
                   pushed, finished, shown, checked>>

\* A task throws: the session is returned, the exception is stored.
TaskThrows(w) ==
    /\ failures < MaxFailures
    /\ state[w] \in {"execute", "finish_writing"}
    /\ state' = [state EXCEPT ![w] = "throw"]
    /\ failures' = failures + 1
    /\ m_worker_exceptions' = m_worker_exceptions \cup {w}
    /\ release_session(w)
    /\ WorkerUnchanged
    /\ UNCHANGED <<m_worker_interrupt, task, queue, pushed, finished, shown,
                   checked>>

\* Mutant: the other workers are not woken up.
MutantHandleException(w) ==
    /\ Step(w, "throw", "exited")
    /\ task' = [task EXCEPT ![w] = NoTask]
    /\ m_worker_interrupt' = TRUE
    /\ WorkerUnchanged
    /\ UNCHANGED <<holds, m_session_pool, m_worker_exceptions, failures, guards,
                   m_worker_tasks, pushed, finished, shown, checked>>

\* handle_exception(): emergency_shutdown()
handle_exception(w) ==
    /\ Step(w, "throw", "exited")
    /\ task' = [task EXCEPT ![w] = NoTask]
    /\ m_worker_interrupt' = TRUE
    /\ shutdown(Cardinality(m_workers))
    /\ WorkerUnchanged
    /\ UNCHANGED <<holds, m_session_pool, m_worker_exceptions, failures,
                   m_worker_tasks, pushed, finished, shown, checked>>

Worker(w) ==
    \/ PopTask(w) \/ PopGuard(w) \/ TakeSession(w) \/ WriteFile(w)
    \/ validate_dump_consistency(w) \/ PushChunk(w) \/ ChunkingInterrupted(w)
    \/ CountChunked(w) \/ ShutdownWhenProduced(w) \/ FetchRows(w)
    \/ FetchInterrupted(w) \/ FinishWriting(w) \/ checksum_table_data(w)
    \/ NextTask(w) \/ TaskThrows(w) \/ handle_exception(w)

Next ==
    \/ Main
    \/ \E w \in Workers : Worker(w)
    \/ interrupt \/ abort
    \/ Write \/ ExecuteDdl
    \/ Ended /\ UNCHANGED vars

Spec == Init /\ [][Next]_vars

\* The scheduler runs the threads and the handler of ^C; statements end.
\* Nothing is assumed of the user and of other clients.
FairSpec ==
    /\ Spec
    /\ WF_vars(Main)
    /\ \A w \in Workers : WF_vars(Worker(w))
    /\ WF_vars(abort)

-----------------------------------------------------------------------------
TaskType ==
    [kind : Metadata \cup Ddl \cup {"chunking", "data", "checksum", "none"},
     of : Objects \cup AllParts \cup {"none"}, chunk : 0 .. MaxChunks]

\* Every variable stays in its type; in particular no more sessions are pushed
\* to m_session_pool than were created, though a worker has two places
\* (dump_table_data() and the scope guard of run()) which return one.
TypeOK ==
    /\ options \in Options
    /\ main \in {"start", "locks", "lock_all_tables", "lock_tables",
                 "transaction", "test", "sessions", "threads", "cache",
                 "position", "lock_instance", "unlock", "push", "produced",
                 "shutdown", "wait", "cleanup", "unwind", "kill", "kill_wait",
                 "ended"}
    /\ at \in 0 .. Len(MainTasks)
    /\ m_workers \subseteq Workers
    /\ state \in [Workers -> {"none", "pop", "session", "execute", "validate",
                              "chunked", "shutdown", "finish_writing", "next",
                              "throw", "exited"}]
    /\ task \in [Workers -> TaskType]
    /\ holds \in [Workers -> BOOLEAN]
    /\ m_session_pool \in 0 .. options.threads
    /\ m_session_pool + Cardinality({w \in Workers : holds[w]}) <= options.threads
    /\ DOMAIN m_worker_tasks = Priorities
    /\ \A p \in Priorities : Range(m_worker_tasks[p]) \subseteq TaskType
    /\ guards \in Nat
    /\ pushed \subseteq TaskType /\ finished \subseteq TaskType
    /\ {m_all_table_metadata_tasks_scheduled, m_worker_interrupt, read_lock,
        m_main_thread_finished_producing_chunking_tasks, backup_lock,
        m_ftwrl_used, m_instance_locked, checked, done, early} \subseteq BOOLEAN
    /\ m_worker_exceptions \subseteq Workers
    /\ handler \in {"idle", "abort"}
    /\ interrupts \in 0 .. MaxInterrupts /\ failures \in 0 .. MaxFailures
    /\ writes \in 0 .. MaxWrites /\ schema_version \in 0 .. MaxDdl
    /\ version \in [Objects -> 0 .. MaxDdl]
    /\ snapshots \subseteq 0 .. MaxWrites
    /\ cache \in [built : -1 .. MaxDdl, position : -1 .. MaxDdl]
    /\ shown \subseteq [file : TaskType, version : 0 .. MaxDdl]
    /\ result \in {"none", "ok", "error", "cancelled"}

\* Transactions of the main session and of all the worker sessions see the same
\* data, whatever other clients commit: they are started one after another,
\* while the read lock is held.
OneSnapshot == TypeOK /\ Cardinality(snapshots) <= 1

\* DDL files of objects that were changed after their information was cached,
\* and after the position was fetched.
Stale == {x \in shown : x.version > cache.built}

Late == {x \in shown : x.version > cache.position}

\* With the backup lock, no DDL is executed between the moment the cache is
\* built and the end of the dump, also where LOCK TABLES is all that the user
\* may use besides: lock_instance() is called before the read lock is released,
\* and DDL files show what was cached.
DdlBlocked ==
    options.consistent /\ options.backup_admin => Stale = {}

\* If neither lock is available, but validate_dump_consistency() has compared
\* the positions, a dump of an instance that ended well holds no file with DDL
\* executed after the position was fetched, as no DDL file is written after the
\* check; and tables are as they were when they were cached, because LOCK TABLES
\* is held from before that moment until the position is known.
CheckedMeansConsistent ==
    checked /\ options.instance /\ ~options.skip_consistency_checks
        /\ result = "ok"
      => /\ Late = {}
         /\ \A x \in Stale : x.file.kind # "table DDL"

\* DDL files show the schema at the time of the snapshot, whether DDL is
\* blocked or checked for at the end: tables always, schemas and views as far as
\* the position can tell.
ConsistentDdl == DdlBlocked /\ CheckedMeansConsistent

\* @.done.json is written only if all the tasks were executed to the end: it
\* tells util.loadDump() that the dump is complete.
DoneMeansComplete ==
    done => /\ finished = pushed
            /\ Range(MainTasks) \subseteq finished
            /\ m_worker_exceptions = {}

\* run() reports success only for a complete dump, and an exception of a worker
\* is never reported as an interruption.
ResultTruthful ==
    Ended => /\ result = "ok" => done
             /\ m_worker_exceptions # {} => result = "error"
             /\ result = "cancelled" => interrupts > 0

\* run() ends: every worker is woken up and joined, all the sessions come back,
\* also if a task throws or the user presses ^C after the threads were created.
\* (If ^C was pressed while sessions and threads were being created, abort()
\* has pushed too few guards, and run() ends only if there is a task for every
\* worker.)
Ends == <>(Ended \/ early)

\* The dump of an instance, which is consistent and could not block DDL, does
\* not end well if a DDL file shows a statement executed after the position was
\* fetched (step 9 of the comment in do_run()).  Not so: the flag which allows
\* the check is set after the workers may have written the last file.
InconsistencyDetected ==
    options.consistent /\ options.instance /\ options.ddl
        /\ ~m_ftwrl_used /\ ~options.backup_admin
        /\ ~options.skip_consistency_checks /\ result = "ok"
      => Late = {}

\* A dump of an instance that was checked and ended well holds no DDL that was
\* executed after information about its objects was fetched, which step 4.3 of
\* the comment in do_run() does after the position is known (step 4.2).  Not so:
\* the position is fetched last.
CheckedMeansUnchanged ==
    checked /\ options.instance /\ ~options.skip_consistency_checks
        /\ result = "ok"
      => Stale = {}

=============================================================================
