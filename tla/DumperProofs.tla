---------------------------- MODULE DumperProofs ----------------------------
(***************************************************************************)
(* Proofs about Dumper, for any number of workers, tables, chunks,         *)
(* failures and interrupts, and all options: one snapshot, consistent DDL, *)
(* complete dumps, true results.                                           *)
(*                                                                         *)
(* Proofs about Chunking, for words of any size, and tables, statistics    *)
(* and estimates of any size: every row is in exactly one chunk, and one   *)
(* chunk is the last one.                                                  *)
(***************************************************************************)
EXTENDS Dumper, Chunking, FiniteSetTheorems, SequenceTheorems,
        WellFoundedInduction, TLAPS

(***************************************************************************)
(* Types.                                                                  *)
(***************************************************************************)

WorkTask == {t \in TaskType : t.kind # "none"}

Unstarted == {"start", "locks", "lock_all_tables", "lock_tables"}
Snapshotting == {"transaction", "test", "sessions"}
Threadless == Unstarted \cup Snapshotting
Cached == {"position", "lock_instance", "unlock"}
Early == Threadless \cup {"threads", "cache"} \cup Cached
Producing == {"push", "produced", "shutdown", "wait"}
Ending == {"cleanup", "unwind", "kill", "kill_wait", "ended"}

States == {"none", "pop", "session", "execute", "validate", "chunked",
           "shutdown", "finish_writing", "next", "throw", "exited"}
Working == {"session", "execute", "validate", "chunked", "shutdown",
            "finish_writing", "next", "throw"}
Pending == {"session", "execute", "chunked", "finish_writing"}

Types ==
    /\ options \in Options
    /\ main \in Early \cup Producing \cup Ending
    /\ at \in 0 .. Len(MainTasks)
    /\ m_workers \subseteq Workers
    /\ state \in [Workers -> States]
    /\ task \in [Workers -> TaskType]
    /\ holds \in [Workers -> BOOLEAN]
    /\ m_session_pool \in Nat
    /\ m_worker_tasks \in [Priorities -> Seq(WorkTask)]
    /\ guards \in Nat
    /\ pushed \subseteq WorkTask /\ IsFiniteSet(pushed)
    /\ finished \subseteq pushed
    /\ shown \subseteq [file : finished, version : 0 .. MaxDdl]

Flags ==
    /\ {m_all_table_metadata_tasks_scheduled, m_worker_interrupt, read_lock,
        m_main_thread_finished_producing_chunking_tasks, backup_lock,
        m_ftwrl_used, m_instance_locked, checked, done, early} \subseteq BOOLEAN
    /\ m_worker_exceptions \subseteq Workers
    /\ handler \in {"idle", "abort"}
    /\ interrupts \in 0 .. MaxInterrupts /\ failures \in 0 .. MaxFailures
    /\ writes \in 0 .. MaxWrites /\ schema_version \in 0 .. MaxDdl
    /\ result \in {"none", "ok", "error", "cancelled"}

\* LOCK TABLES, or a lock that blocks all DDL, is held while the cache is filled:
\* what happens to a table later is after the position.
Versions ==
    /\ version \in [Objects -> 0 .. MaxDdl]
    /\ \A o \in Objects : version[o] <= schema_version
    /\ cache \in [built : -1 .. MaxDdl, position : -1 .. MaxDdl]
    /\ cache.built <= schema_version /\ cache.position <= schema_version
    /\ options.consistent => \A t \in Tables :
         /\ version[t] <= cache.built \/ version[t] > cache.position
         /\ main = "position" => version[t] <= cache.built
-----------------------------------------------------------------------------
(***************************************************************************)
(* The inductive invariant.                                                *)
(***************************************************************************)

\* A worker which has a session will return it, and there are no others.
Holders == {w \in Workers : holds[w]}

Sessions ==
    /\ main \in Threadless \ {"sessions"} => m_session_pool = 0
    /\ main = "sessions" => m_session_pool < options.threads
    /\ m_session_pool + Cardinality(Holders) <= options.threads
    /\ \A w \in Workers : holds[w] =>
         state[w] \in {"execute", "validate", "chunked", "shutdown", "next"}

\* Threads run from the moment they are created until they are joined.
Threads ==
    /\ main \in Threadless => m_workers = {}
    /\ main = "threads" => m_workers # Workers
    /\ main \in {"cache"} \cup Cached \cup Producing => m_workers = Workers
    /\ main \in {"cleanup", "ended"} => m_workers = {}
    /\ \A w \in Workers :
         IF w \in m_workers THEN state[w] # "none"
                           ELSE state[w] \in {"none", "exited"}
    /\ main \in Threadless => \A w \in Workers : state[w] = "none"

\* While there are no tasks, the threads wait, or were told to exit.
NothingToDo ==
    main \in Early =>
      /\ at = 0 /\ pushed = {}
      /\ \A p \in Priorities : m_worker_tasks[p] = <<>>
      /\ \A w \in Workers : state[w] \in {"none", "pop", "exited"}
      /\ m_worker_exceptions = {}
      /\ ~m_main_thread_finished_producing_chunking_tasks

\* Other clients cannot commit while transactions are started.
Snapshot ==
    /\ snapshots \subseteq {writes}
    /\ main \in Unstarted \/ ~options.consistent => snapshots = {}
    /\ options.consistent
         /\ main \in Snapshotting \cup {"threads", "cache"} \cup Cached
       => read_lock

\* Reasons of an interrupt, and of a result.
Results ==
    /\ handler = "abort" => interrupts > 0
    /\ \A w \in Workers : state[w] = "throw" => w \in m_worker_exceptions
    /\ \A w \in m_worker_exceptions : state[w] = "throw" \/ m_worker_interrupt
    /\ m_worker_interrupt => \/ interrupts > 0 \/ m_worker_exceptions # {}
                             \/ main \in {"kill_wait", "ended"}
    /\ main = "cleanup" /\ ~m_worker_interrupt => done
    /\ ~Ended => result = "none"
    /\ ResultTruthful

\* DDL is blocked, first by the read lock, then by the backup lock, as long as
\* there is a task which is not thrown away.
Blocked == backup_lock /\ cache.built = schema_version

DdlLocked ==
    options.consistent /\ options.backup_admin =>
      /\ m_instance_locked /\ ~Ended => backup_lock
      /\ main \in {"lock_tables", "threads", "cache"} \cup Snapshotting \cup Cached
           => m_ftwrl_used \/ backup_lock
      /\ main \in Cached => cache.built = schema_version
      /\ main \in {"unlock"} \cup Producing => m_worker_interrupt \/ backup_lock
      /\ main \in Producing => m_worker_interrupt \/ Blocked
      /\ \A p \in Priorities : m_worker_tasks[p] # <<>> /\ ~Ended
           => m_worker_interrupt \/ Blocked
      /\ \A w \in Workers :
           /\ state[w] = "session" => m_worker_interrupt \/ Blocked
           /\ state[w] = "execute" => Blocked
      /\ Stale = {}

\* Every task is in one place only.
InQueue(q, t) == \E p \in Priorities : \E i \in 1 .. Len(q[p]) : q[p][i] = t

Queued(t) == InQueue(m_worker_tasks, t)

OnePlace(q) ==
    \A p \in Priorities : \A i \in 1 .. Len(q[p]) :
      /\ PriorityOf(q[p][i]) = p
      /\ \A j \in 1 .. Len(q[p]) : q[p][i] = q[p][j] => i = j

DataTasks(o) == {t \in pushed : t.kind = "data" /\ t.of = o}

Places ==
    /\ OnePlace(m_worker_tasks)
    /\ \A p \in Priorities : \A i \in 1 .. Len(m_worker_tasks[p]) :
         m_worker_tasks[p][i] \in pushed \ finished
    /\ \A w \in Workers : state[w] \in Working =>
         /\ task[w] \in pushed /\ ~Queued(task[w])
         /\ \A v \in Workers : state[v] \in Working /\ task[v] = task[w] => v = w
    /\ \A w \in Workers :
         /\ state[w] \in Pending => task[w] \notin finished
         /\ state[w] = "chunked" => task[w].kind = "chunking"
         /\ state[w] = "finish_writing" => task[w].kind = "data"
    /\ \A i \in 1 .. Len(MainTasks) : i <= at <=> MainTasks[i] \in pushed

\* What is pushed: tasks of the main thread, chunks numbered from zero.
Contents ==
    \A t \in pushed :
      /\ t.kind \in {"data", "checksum"} \/ t \in Range(MainTasks)
      /\ t.kind = "data" => options.data /\ t.chunk < Cardinality(DataTasks(t.of))
      /\ t.kind = "checksum" /\ options.data => t.chunk < Cardinality(DataTasks(t.of))

\* What was counted and is not done is somewhere, if nothing went wrong.
Accounted ==
    \/ m_worker_interrupt
    \/ \E w \in Workers : state[w] = "throw"
    \/ \A t \in pushed \ finished :
         Queued(t) \/ \E w \in Workers : state[w] \in Pending /\ task[w] = t

\* A worker that has exited was told so once there was nothing left to produce
\* or to take.
Produced ==
    /\ m_main_thread_finished_producing_chunking_tasks
    /\ \A t \in pushed : t.kind = "chunking" => t \in finished

ShutDown ==
    /\ main \in Threadless => guards = 0
    /\ m_main_thread_finished_producing_chunking_tasks
         => main \notin Early \cup {"push", "produced"}
    /\ main \in {"produced", "shutdown", "wait"} => at = Len(MainTasks)
    /\ m_worker_interrupt \/ (guards = 0
                              /\ \A w \in Workers : state[w] # "exited")
         \/ Produced
    /\ m_worker_interrupt \/ (\A w \in Workers : state[w] # "exited")
         \/ \A p \in Priorities : m_worker_tasks[p] = <<>>

AllGone == \A w \in Workers : state[w] \in {"none", "exited"}

Finalized ==
    done => main \in Ending /\ AllGone /\ DoneMeansComplete

\* Once the check was made there are no more DDL files to be written.
AllDdl == {Task("schema DDL", s, 0) : s \in Schemas}
            \cup {Task("view DDL", v, 0) : v \in Views}
            \cup {Task("table DDL", t, 0) : t \in Tables}

MayFail == options.instance /\ ~options.skip_consistency_checks

Validated ==
    /\ \A x \in shown :
         /\ x.version <= schema_version
         /\ options.consistent /\ x.file.kind = "table DDL" =>
              x.version <= cache.built \/ x.version > cache.position
    /\ checked => options.consistent
    /\ checked /\ MayFail =>
         \/ m_worker_exceptions # {}
         \/ Late = {} /\ AllDdl \subseteq finished

IInv ==
    /\ Types /\ Flags /\ Versions /\ Sessions /\ Threads /\ NothingToDo /\ Snapshot
    /\ Results /\ DdlLocked /\ Places /\ Contents /\ Accounted /\ ShutDown
    /\ Finalized /\ Validated
-----------------------------------------------------------------------------
-----------------------------------------------------------------------------
(***************************************************************************)
(* The tasks of the main thread are different from each other.             *)
(***************************************************************************)

Enumerates(q, E) ==
    /\ q \in Seq(E)
    /\ \A i, j \in 1 .. Len(q) : q[i] = q[j] => i = j

Each(k, S) == {Task(k, x, 0) : x \in S}

LEMMA Concatenated ==
  ASSUME NEW p, NEW q, NEW D, NEW E, Enumerates(p, D), Enumerates(q, E),
         D \cap E = {}
  PROVE  Enumerates(p \o q, D \cup E)
<1>1. p \in Seq(D \cup E) /\ q \in Seq(D \cup E)
  BY DEF Enumerates
<1>2. p \o q \in Seq(D \cup E) /\ Len(p \o q) = Len(p) + Len(q)
  BY <1>1
<1>3. /\ \A i \in 1 .. Len(p) : (p \o q)[i] = p[i] /\ p[i] \in D
      /\ \A i \in (Len(p) + 1) .. (Len(p) + Len(q)) :
           /\ (p \o q)[i] = q[i - Len(p)] /\ i - Len(p) \in 1 .. Len(q)
           /\ q[i - Len(p)] \in E
  BY DEF Enumerates
<1>4. Len(p) \in Nat /\ Len(q) \in Nat
  BY DEF Enumerates
<1>5. ASSUME NEW i \in 1 .. Len(p \o q), NEW j \in 1 .. Len(p \o q),
             (p \o q)[i] = (p \o q)[j]
      PROVE  i = j
  <2>1. CASE i <= Len(p) /\ j <= Len(p)
    BY <1>2, <1>3, <1>4, <1>5, <2>1 DEF Enumerates
  <2>2. CASE i > Len(p) /\ j > Len(p)
    <3>1. q[i - Len(p)] = q[j - Len(p)]
      BY <1>2, <1>3, <1>4, <1>5, <2>2
    <3>2. i - Len(p) \in 1 .. Len(q) /\ j - Len(p) \in 1 .. Len(q)
      BY <1>2, <1>4, <2>2
    <3>3. i - Len(p) = j - Len(p)
      BY <3>1, <3>2 DEF Enumerates
    <3> QED
      BY <1>2, <1>4, <3>3
  <2>3. CASE i <= Len(p) /\ j > Len(p)
    <3>1. (p \o q)[i] \in D /\ (p \o q)[j] \in E
      BY <1>2, <1>3, <1>4, <2>3
    <3> QED BY <1>5, <3>1
  <2>4. CASE i > Len(p) /\ j <= Len(p)
    <3>1. (p \o q)[i] \in E /\ (p \o q)[j] \in D
      BY <1>2, <1>3, <1>4, <2>4
    <3> QED BY <1>5, <3>1
  <2> QED
    BY <1>2, <1>4, <2>1, <2>2, <2>3, <2>4
<1> QED
  BY <1>2, <1>5 DEF Enumerates

LEMMA TasksOfEach ==
  ASSUME NEW k, NEW S, IsFiniteSet(S)
  PROVE  Enumerates(TasksOf(k, S), Each(k, S))
<1>1. Cardinality(S) \in Nat /\ ExistsBijection(1 .. Cardinality(S), S)
  BY FS_CardinalityType
<1>2. \E f \in [1 .. Cardinality(S) -> S] : IsInjective(f)
  BY <1>1 DEF ExistsBijection, Bijection, Injection, IsInjective
<1>3. /\ SetToSeq(S) \in [1 .. Cardinality(S) -> S]
      /\ IsInjective(SetToSeq(S))
  BY <1>2 DEF SetToSeq
<1>4. TasksOf(k, S) \in [1 .. Cardinality(S) -> Each(k, S)]
  BY <1>3 DEF TasksOf, Each
<1>5. TasksOf(k, S) \in Seq(Each(k, S)) /\ Len(TasksOf(k, S)) = Cardinality(S)
  BY <1>1, <1>4
<1>6. \A i, j \in 1 .. Cardinality(S) :
        TasksOf(k, S)[i] = TasksOf(k, S)[j] => SetToSeq(S)[i] = SetToSeq(S)[j]
  BY DEF TasksOf, Task
<1> QED
  BY <1>3, <1>5, <1>6 DEF Enumerates, IsInjective

LEMMA KindOfEach == \A k, S : \A t \in Each(k, S) : t.kind = k
  BY DEF Each, Task

LEMMA KindOfDdl ==
  /\ AllDdl = (Each("schema DDL", Schemas) \cup Each("view DDL", Views))
                \cup Each("table DDL", Tables)
  /\ \A t \in AllDdl : t.kind \in Ddl
<1>1. AllDdl = (Each("schema DDL", Schemas) \cup Each("view DDL", Views))
                 \cup Each("table DDL", Tables)
  BY DEF AllDdl, Each
<1> QED
  BY <1>1, KindOfEach DEF Ddl

LEMMA Nothing == \A E : Enumerates(<<>>, E)
  BY DEF Enumerates

\* The tasks of the main thread, as a set.
MainTaskSet ==
    Each("schema metadata", Schemas) \cup AllDdl
      \cup Each("table metadata", Tables)
      \cup (IF options.data THEN Each("chunking", DataParts)
                            ELSE Each("checksum", DataParts))

LEMMA MainTasksFacts ==
  /\ MainTasks \in Seq(WorkTask)
  /\ \A i, j \in 1 .. Len(MainTasks) : MainTasks[i] = MainTasks[j] => i = j
  /\ \A i \in 1 .. Len(MainTasks) :
       /\ MainTasks[i] \in WorkTask /\ MainTasks[i].kind # "data"
       /\ MainTasks[i].kind = "chunking" => options.data
       /\ MainTasks[i].kind = "checksum" => ~options.data
       /\ MainTasks[i].kind \in Ddl => MainTasks[i] \in AllDdl
<1> DEFINE A == IF WritesMetadata THEN TasksOf("schema metadata", Schemas) ELSE <<>>
           B == TasksOf("schema DDL", Schemas) \o TasksOf("view DDL", Views)
                  \o TasksOf("table DDL", Tables)
           C == IF options.ddl THEN B ELSE <<>>
           D == IF WritesMetadata THEN TasksOf("table metadata", Tables) ELSE <<>>
           E == IF options.data THEN TasksOf("chunking", DataParts)
                ELSE IF options.checksum THEN TasksOf("checksum", DataParts) ELSE <<>>
           last == IF options.data THEN Each("chunking", DataParts)
                                   ELSE Each("checksum", DataParts)
<1>1. MainTasks = A \o C \o D \o E
  BY DEF MainTasks
<1>2. IsFiniteSet(Schemas) /\ IsFiniteSet(Views) /\ IsFiniteSet(Tables)
  BY DumperAssumption
<1>3. IsFiniteSet(DataParts)
  <2>1. IsFiniteSet(Tables \cup Views)
    BY <1>2, FS_Union
  <2>2. {o \in Tables \cup Views : Parts[o] # {}} \subseteq Tables \cup Views
    OBVIOUS
  <2>3. IsFiniteSet({o \in Tables \cup Views : Parts[o] # {}})
    BY <2>1, <2>2, FS_Subset
  <2>4. IsFiniteSet(AllParts)
    BY DumperAssumption
  <2> QED
    BY <2>3, <2>4 DEF DataParts
<1>4. Enumerates(A, Each("schema metadata", Schemas))
  BY <1>2, TasksOfEach, Nothing
<1>5. Enumerates(C, AllDdl)
  <2>1. Enumerates(TasksOf("schema DDL", Schemas) \o TasksOf("view DDL", Views),
                   Each("schema DDL", Schemas) \cup Each("view DDL", Views))
    <3>1. Each("schema DDL", Schemas) \cap Each("view DDL", Views) = {}
      BY KindOfEach
    <3> QED BY <1>2, <3>1, TasksOfEach, Concatenated
  <2>2. Enumerates(B, (Each("schema DDL", Schemas) \cup Each("view DDL", Views))
                        \cup Each("table DDL", Tables))
    <3>1. (Each("schema DDL", Schemas) \cup Each("view DDL", Views))
            \cap Each("table DDL", Tables) = {}
      BY KindOfEach
    <3> QED BY <1>2, <2>1, <3>1, TasksOfEach, Concatenated
  <2> QED BY <2>2, KindOfDdl, Nothing
<1>6. Enumerates(D, Each("table metadata", Tables))
  BY <1>2, TasksOfEach, Nothing
<1>7. Enumerates(E, last)
  BY <1>2, <1>3, TasksOfEach, Nothing
<1> HIDE DEF A, C, D, E
<1>8. Enumerates(A \o C, Each("schema metadata", Schemas) \cup AllDdl)
  <2>1. Each("schema metadata", Schemas) \cap AllDdl = {}
    BY KindOfEach, KindOfDdl DEF Ddl
  <2> QED BY <1>4, <1>5, <2>1, Concatenated
<1>9. Enumerates(A \o C \o D, (Each("schema metadata", Schemas) \cup AllDdl)
                                \cup Each("table metadata", Tables))
  <2>1. (Each("schema metadata", Schemas) \cup AllDdl)
          \cap Each("table metadata", Tables) = {}
    BY KindOfEach, KindOfDdl DEF Ddl
  <2> QED BY <1>6, <1>8, <2>1, Concatenated
<1>10. Enumerates(A \o C \o D \o E, MainTaskSet)
  <2>1. ((Each("schema metadata", Schemas) \cup AllDdl)
           \cup Each("table metadata", Tables)) \cap last = {}
    BY KindOfEach, KindOfDdl DEF Ddl
  <2>2. Enumerates(A \o C \o D \o E,
                   ((Each("schema metadata", Schemas) \cup AllDdl)
                      \cup Each("table metadata", Tables)) \cup last)
    BY <1>7, <1>9, <2>1, Concatenated
  <2> QED BY <2>2 DEF MainTaskSet
<1>11. MainTaskSet \subseteq WorkTask
  <2>1. \A k \in Metadata \cup Ddl \cup {"chunking", "checksum"} :
          Each(k, Objects \cup AllParts) \subseteq WorkTask
    <3> SUFFICES ASSUME NEW k \in Metadata \cup Ddl \cup {"chunking", "checksum"},
                        NEW x \in Objects \cup AllParts
                 PROVE  Task(k, x, 0) \in WorkTask
      BY DEF Each
    <3>1. 0 \in 0 .. MaxChunks
      BY DumperAssumption
    <3>2. Task(k, x, 0) \in TaskType
      BY <3>1 DEF Task, TaskType
    <3>3. Task(k, x, 0).kind = k /\ k # "none"
      BY DEF Task, Metadata, Ddl
    <3> QED BY <3>2, <3>3 DEF WorkTask
  <2>2. \A k, S, T : S \subseteq T => Each(k, S) \subseteq Each(k, T)
    BY DEF Each
  <2>3. /\ DataParts \subseteq Objects \cup AllParts
        /\ Schemas \subseteq Objects \cup AllParts
        /\ Views \subseteq Objects \cup AllParts
        /\ Tables \subseteq Objects \cup AllParts
    BY DEF DataParts, Objects
  <2>4. /\ Each("schema metadata", Schemas) \subseteq WorkTask
        /\ Each("table metadata", Tables) \subseteq WorkTask
        /\ Each("chunking", DataParts) \subseteq WorkTask
        /\ Each("checksum", DataParts) \subseteq WorkTask
        /\ Each("schema DDL", Schemas) \subseteq WorkTask
        /\ Each("view DDL", Views) \subseteq WorkTask
        /\ Each("table DDL", Tables) \subseteq WorkTask
    BY <2>1, <2>2, <2>3 DEF Metadata, Ddl
  <2> QED
    BY <2>4, KindOfDdl DEF MainTaskSet
<1>12. \A t \in MainTaskSet :
         /\ t.kind # "data"
         /\ t.kind = "chunking" => options.data
         /\ t.kind = "checksum" => ~options.data
         /\ t.kind \in Ddl => t \in AllDdl
  BY KindOfEach, KindOfDdl DEF MainTaskSet, Ddl
<1>13. /\ MainTasks \in Seq(MainTaskSet)
       /\ \A i, j \in 1 .. Len(MainTasks) : MainTasks[i] = MainTasks[j] => i = j
  BY <1>1, <1>10 DEF Enumerates
<1>14. \A i \in 1 .. Len(MainTasks) : MainTasks[i] \in MainTaskSet
  BY <1>13
<1>15. MainTasks \in Seq(WorkTask)
  BY <1>11, <1>13
<1> QED
  BY <1>11, <1>12, <1>13, <1>14, <1>15
-----------------------------------------------------------------------------
(***************************************************************************)
(* What the threads leave alone.                                           *)
(***************************************************************************)

LEMMA NoTaskType == NoTask \in TaskType
  BY DumperAssumption DEF NoTask, TaskType

LEMMA WorkerFrame ==
  ASSUME NEW w \in Workers, Worker(w)
  PROVE  UNCHANGED <<options, main, at, m_workers, handler, interrupts, early,
                     m_all_table_metadata_tasks_scheduled,
                     m_main_thread_finished_producing_chunking_tasks, writes,
                     schema_version, version, read_lock, backup_lock, m_ftwrl_used,
                     m_instance_locked, snapshots, cache, done, result>>
<1> USE DEF WorkerUnchanged, Quiet, server, locks
<1>1. CASE PopTask(w) \/ PopGuard(w) \/ TakeSession(w)
  BY <1>1 DEF PopTask, PopGuard, TakeSession
<1>2. CASE WriteFile(w) \/ validate_dump_consistency(w)
  BY <1>2 DEF WriteFile, validate_dump_consistency
<1>3. CASE PushChunk(w) \/ ChunkingInterrupted(w) \/ CountChunked(w)
           \/ ShutdownWhenProduced(w)
  BY <1>3 DEF PushChunk, ChunkingInterrupted, CountChunked, ShutdownWhenProduced
<1>4. CASE FetchRows(w) \/ FetchInterrupted(w) \/ FinishWriting(w)
           \/ checksum_table_data(w)
  BY <1>4 DEF FetchRows, FetchInterrupted, FinishWriting, checksum_table_data
<1>5. CASE NextTask(w) \/ TaskThrows(w) \/ handle_exception(w)
  BY <1>5 DEF NextTask, TaskThrows, handle_exception
<1> QED
  BY <1>1, <1>2, <1>3, <1>4, <1>5 DEF Worker

LEMMA MainFrame ==
  ASSUME Main
  PROVE  UNCHANGED <<options, handler, interrupts, early, writes, schema_version,
                     version>>
<1> USE DEF MainUnchanged, server
<1>1. CASE Start \/ acquire_read_locks \/ LockAllTables \/ LockTables
           \/ StartTransaction \/ TestInterrupt \/ create_worker_sessions
           \/ create_worker_threads \/ initialize_instance_cache \/ binlog_info
           \/ LockInstance
           \/ release_read_locks
  BY <1>1 DEF Start, acquire_read_locks, LockAllTables, LockTables,
              StartTransaction, TestInterrupt, create_worker_sessions,
              create_worker_threads, initialize_instance_cache, binlog_info,
              LockInstance,
              release_read_locks
<1>2. CASE PushTask \/ TasksScheduled \/ TasksProduced \/ PushShutdownTasks
  BY <1>2 DEF PushTask, TasksScheduled, TasksProduced, PushShutdownTasks
<1>3. CASE WaitForAllTasks \/ FinalizeThrows \/ Cleanup \/ MainThrows \/ Unwind
           \/ kill_workers \/ Killed
  BY <1>3 DEF WaitForAllTasks, FinalizeThrows, Cleanup, MainThrows, Unwind,
              kill_workers, Killed
<1> QED
  BY <1>1, <1>2, <1>3 DEF Main
-----------------------------------------------------------------------------
(***************************************************************************)
(* One snapshot.                                                           *)
(***************************************************************************)

LEMMA SnapshotStep ==
  ASSUME IInv, [Next]_vars
  PROVE  Snapshot'
<1> USE DEF Snapshot, Unstarted, Snapshotting, Cached
<1>1. CASE \E w \in Workers : Worker(w)
  BY <1>1, WorkerFrame DEF IInv
<1>2. CASE Main
  <2> USE MainFrame DEF IInv, Go, start_transaction
  <2>1. CASE Start \/ acquire_read_locks \/ LockAllTables \/ LockTables
             \/ StartTransaction \/ TestInterrupt \/ create_worker_sessions
    BY <1>2, <2>1 DEF Start, acquire_read_locks, LockAllTables, LockTables,
              StartTransaction, TestInterrupt, create_worker_sessions, locks
  <2>2. CASE create_worker_threads \/ initialize_instance_cache \/ binlog_info
             \/ LockInstance
             \/ release_read_locks
    BY <1>2, <2>2 DEF create_worker_threads, initialize_instance_cache, binlog_info,
              LockInstance, release_read_locks, locks
  <2>3. CASE PushTask \/ TasksScheduled \/ TasksProduced \/ PushShutdownTasks
             \/ WaitForAllTasks \/ FinalizeThrows \/ Cleanup
             \/ MainThrows \/ Unwind \/ kill_workers \/ Killed
    BY <1>2, <2>3 DEF PushTask, TasksScheduled, TasksProduced, PushShutdownTasks,
              WaitForAllTasks, FinalizeThrows, Cleanup, MainThrows, Unwind,
              kill_workers, Killed, locks
  <2> QED
    BY <1>2, <2>1, <2>2, <2>3 DEF Main
<1>3. CASE interrupt \/ abort \/ ExecuteDdl
  BY <1>3 DEF interrupt, abort, ExecuteDdl, IInv, locks, server
<1>4. CASE Write
  BY <1>4 DEF Write, IInv, locks
<1>5. CASE UNCHANGED vars
  BY <1>5 DEF vars, IInv, locks, server
<1> QED
  BY <1>1, <1>2, <1>3, <1>4, <1>5 DEF Next

\* A thread that runs changes only its own state; it interrupts the others after
\* it has thrown.
LEMMA WorkerMoves ==
  ASSUME IInv, NEW w \in Workers, Worker(w)
  PROVE  /\ state[w] \notin {"none", "exited"}
         /\ state' \in [Workers -> States]
         /\ state'[w] # "none"
         /\ \A v \in Workers : v # w => state'[v] = state[v] /\ task'[v] = task[v]
                                        /\ holds'[v] = holds[v]
         /\ state'[w] = "throw" => w \in m_worker_exceptions'
         /\ m_worker_exceptions \subseteq m_worker_exceptions'
         /\ m_worker_exceptions' \subseteq m_worker_exceptions \cup {w}
         /\ m_worker_exceptions' = m_worker_exceptions \/ state'[w] = "throw"
         /\ state[w] = "pop" => m_worker_exceptions' = m_worker_exceptions
         /\ m_worker_interrupt' = (m_worker_interrupt \/ state[w] = "throw")
<1> USE DEF Step, Executes, Quiet, release_session, IInv, Types, Flags, States,
            queue, Metadata, Ddl
<1>1. CASE PopTask(w) \/ PopGuard(w) \/ TakeSession(w)
  BY <1>1 DEF PopTask, PopGuard, TakeSession
<1>2. CASE WriteFile(w) \/ validate_dump_consistency(w)
  BY <1>2 DEF WriteFile, validate_dump_consistency
<1>3. CASE PushChunk(w) \/ ChunkingInterrupted(w) \/ CountChunked(w)
           \/ ShutdownWhenProduced(w)
  BY <1>3 DEF PushChunk, ChunkingInterrupted, CountChunked, ShutdownWhenProduced
<1>4. CASE FetchRows(w) \/ FetchInterrupted(w) \/ FinishWriting(w)
           \/ checksum_table_data(w)
  BY <1>4 DEF FetchRows, FetchInterrupted, FinishWriting, checksum_table_data
<1>5. CASE NextTask(w) \/ TaskThrows(w) \/ handle_exception(w)
  BY <1>5 DEF NextTask, TaskThrows, handle_exception
<1> QED
  BY <1>1, <1>2, <1>3, <1>4, <1>5 DEF Worker

\* Before the main thread pushes tasks, a thread may only be told to exit.
LEMMA WorkerIdles ==
  ASSUME IInv, NEW w \in Workers, Worker(w), main \in Early
  PROVE  PopGuard(w)
<1>1. state[w] \in {"none", "pop", "exited"}
      /\ \A p \in Priorities : m_worker_tasks[p] = <<>>
  BY DEF IInv, NothingToDo
<1>2. Top = 0
  BY <1>1 DEF Top
<1> QED
  BY <1>1, <1>2
  DEF Worker, PopTask, TakeSession, WriteFile, validate_dump_consistency, PushChunk,
      ChunkingInterrupted, CountChunked, ShutdownWhenProduced, FetchRows,
      FetchInterrupted, FinishWriting, checksum_table_data, NextTask, TaskThrows,
      handle_exception, Step, Executes
-----------------------------------------------------------------------------
(***************************************************************************)
(* Threads.                                                                *)
(***************************************************************************)

LEMMA ThreadsStep ==
  ASSUME IInv, [Next]_vars
  PROVE  Threads'
<1> USE DEF Threads, Threadless, Unstarted, Snapshotting, Cached, Producing
<1>1. CASE \E w \in Workers : Worker(w)
  BY <1>1, WorkerFrame, WorkerMoves DEF IInv
<1>2. CASE Main
  <2> USE DEF IInv, Go
  <2>1. CASE Start \/ acquire_read_locks \/ LockAllTables \/ LockTables
             \/ StartTransaction \/ TestInterrupt
    BY <2>1 DEF Start, acquire_read_locks, LockAllTables, LockTables,
                StartTransaction, TestInterrupt, threads
  <2>2. CASE create_worker_sessions
    <3>1. m_workers # Workers
      BY <2>2, DumperAssumption DEF create_worker_sessions
    <3> QED
      BY <2>2, <3>1 DEF create_worker_sessions
  <2>3. CASE create_worker_threads
    <3>1. PICK w \in Workers :
            /\ w \notin m_workers /\ m_workers' = m_workers \cup {w}
            /\ state' = [state EXCEPT ![w] = "pop"]
            /\ main' = IF m_workers' = Workers THEN "cache" ELSE main
      BY <2>3 DEF create_worker_threads, Types
    <3>2. /\ state'[w] = "pop"
          /\ \A v \in Workers : v # w => state'[v] = state[v]
      BY <3>1 DEF Types
    <3> QED
      BY <2>3, <3>1, <3>2 DEF create_worker_threads
  <2>4. CASE initialize_instance_cache \/ binlog_info
             \/ LockInstance \/ release_read_locks
             \/ PushTask \/ TasksScheduled \/ TasksProduced \/ PushShutdownTasks
    BY <2>4 DEF initialize_instance_cache, binlog_info,
                LockInstance, release_read_locks,
                PushTask, TasksScheduled, TasksProduced, PushShutdownTasks, threads
  <2>5. CASE WaitForAllTasks \/ FinalizeThrows \/ Killed
    BY <2>5 DEF WaitForAllTasks, FinalizeThrows, Killed, Join
  <2>6. CASE Cleanup \/ MainThrows \/ Unwind \/ kill_workers
    BY <2>6 DEF Cleanup, MainThrows, Unwind, kill_workers, threads
  <2> QED
    BY <1>2, <2>1, <2>2, <2>3, <2>4, <2>5, <2>6 DEF Main
<1>3. CASE interrupt \/ abort \/ ExecuteDdl \/ Write
  BY <1>3 DEF interrupt, abort, ExecuteDdl, Write, IInv, threads
<1>4. CASE UNCHANGED vars
  BY <1>4 DEF vars, IInv, threads
<1> QED
  BY <1>1, <1>2, <1>3, <1>4 DEF Next

LEMMA NothingToDoStep ==
  ASSUME IInv, [Next]_vars
  PROVE  NothingToDo'
<1> USE DEF NothingToDo, Early, Threadless, Unstarted, Snapshotting, Cached
<1>1. CASE \E w \in Workers : Worker(w)
  <2> SUFFICES ASSUME NEW w \in Workers, Worker(w), main' \in Early
               PROVE  NothingToDo'
    BY <1>1
  <2>1. main \in Early /\ PopGuard(w)
    BY WorkerFrame, WorkerIdles
  <2>2. /\ state'[w] = "exited" /\ \A v \in Workers : v # w => state'[v] = state[v]
    BY <2>1 DEF PopGuard, Step, IInv, Types
  <2> QED
    BY <2>1, <2>2, WorkerFrame DEF PopGuard, IInv
<1>2. CASE Main
  <2> USE DEF IInv, Go
  <2>1. CASE Start \/ acquire_read_locks \/ LockAllTables \/ LockTables
             \/ StartTransaction \/ TestInterrupt \/ create_worker_sessions
             \/ initialize_instance_cache \/ binlog_info \/ LockInstance
    BY <2>1 DEF Start, acquire_read_locks, LockAllTables, LockTables,
                StartTransaction, TestInterrupt, create_worker_sessions,
                initialize_instance_cache, binlog_info,
                LockInstance, threads, queue, progress
  <2>2. CASE create_worker_threads
    <3>1. \A v \in Workers : state'[v] \in {state[v], "pop"}
      BY <2>2 DEF create_worker_threads, Types
    <3> QED
      BY <2>2, <3>1 DEF create_worker_threads, queue, progress
  <2>3. CASE release_read_locks \/ PushTask \/ TasksScheduled \/ TasksProduced
             \/ PushShutdownTasks \/ WaitForAllTasks \/ FinalizeThrows \/ Cleanup
             \/ MainThrows \/ Unwind \/ kill_workers \/ Killed
    BY <2>3 DEF release_read_locks, PushTask, TasksScheduled, TasksProduced,
                PushShutdownTasks, WaitForAllTasks, FinalizeThrows, Cleanup,
                MainThrows, Unwind, kill_workers, Killed
  <2> QED
    BY <1>2, <2>1, <2>2, <2>3 DEF Main
<1>3. CASE interrupt \/ abort \/ ExecuteDdl \/ Write
  BY <1>3 DEF interrupt, abort, ExecuteDdl, Write, IInv, threads, queue, progress
<1>4. CASE UNCHANGED vars
  BY <1>4 DEF vars, IInv, threads, queue, progress
<1> QED
  BY <1>1, <1>2, <1>3, <1>4 DEF Next
-----------------------------------------------------------------------------
(***************************************************************************)
(* Sessions.                                                               *)
(***************************************************************************)

LEMMA HoldersFinite == IsFiniteSet(Holders) /\ Cardinality(Holders) \in Nat
  BY DumperAssumption, FS_Subset, FS_CardinalityType DEF Holders

LEMMA SessionReleased ==
  ASSUME IInv, NEW w \in Workers, release_session(w)
  PROVE  /\ m_session_pool' + Cardinality(Holders')
              = m_session_pool + Cardinality(Holders)
         /\ m_session_pool' \in Nat
         /\ holds' \in [Workers -> BOOLEAN] /\ ~holds'[w]
<1>1. Holders' = Holders \ {w}
  BY DEF Holders, release_session, IInv, Types
<1>2. Cardinality(Holders') = IF holds[w] THEN Cardinality(Holders) - 1
                                          ELSE Cardinality(Holders)
  BY <1>1, HoldersFinite, FS_RemoveElement DEF Holders
<1> QED
  BY <1>2, HoldersFinite DEF release_session, IInv, Types

\* No session is returned twice.
LEMMA WorkerSessions ==
  ASSUME IInv, NEW w \in Workers, Worker(w)
  PROVE  /\ m_session_pool' + Cardinality(Holders')
              = m_session_pool + Cardinality(Holders)
         /\ m_session_pool' \in Nat
         /\ holds' \in [Workers -> BOOLEAN]
         /\ holds'[w] => state'[w] \in {"execute", "validate", "chunked",
                                        "shutdown", "next"}
<1>1. CASE UNCHANGED <<holds, m_session_pool>> /\ ~holds[w]
  BY <1>1 DEF Holders, IInv, Types
<1>2. CASE UNCHANGED <<holds, m_session_pool>>
           /\ state'[w] \in {"execute", "validate", "chunked", "shutdown", "next"}
  BY <1>2 DEF Holders, IInv, Types
<1>3. CASE release_session(w)
  BY <1>3, SessionReleased
<1>4. CASE TakeSession(w)
  <2>1. CASE m_worker_interrupt
    BY <1>1, <1>4, <2>1 DEF TakeSession, Step, IInv, Sessions
  <2>2. CASE ~m_worker_interrupt
    <3>1. ~holds[w] /\ m_session_pool > 0 /\ m_session_pool' = m_session_pool - 1
          /\ holds' = [holds EXCEPT ![w] = TRUE] /\ state'[w] = "execute"
      BY <1>4, <2>2 DEF TakeSession, Step, IInv, Sessions, Types
    <3>2. Holders' = Holders \cup {w} /\ w \notin Holders
      BY <3>1 DEF Holders, IInv, Types
    <3>3. Cardinality(Holders') = Cardinality(Holders) + 1
      BY <3>2, HoldersFinite, FS_AddElement
    <3> QED
      BY <3>1, <3>3, HoldersFinite DEF IInv, Types
  <2> QED BY <2>1, <2>2
<1>5. CASE PopTask(w) \/ PopGuard(w) \/ handle_exception(w) \/ FinishWriting(w)
  BY <1>1, <1>5
  DEF PopTask, PopGuard, handle_exception, FinishWriting, Step, IInv, Sessions
<1>6. CASE WriteFile(w) \/ PushChunk(w) \/ ChunkingInterrupted(w) \/ CountChunked(w)
           \/ ShutdownWhenProduced(w) \/ FetchInterrupted(w) \/ checksum_table_data(w)
  <2>1. UNCHANGED <<holds, m_session_pool>>
    BY <1>6 DEF WriteFile, PushChunk, ChunkingInterrupted, CountChunked,
                ShutdownWhenProduced, FetchInterrupted, checksum_table_data
  <2>2. state'[w] \in {"execute", "validate", "chunked", "shutdown", "next"}
    BY <1>6 DEF WriteFile, PushChunk, ChunkingInterrupted, CountChunked,
                ShutdownWhenProduced, FetchInterrupted, checksum_table_data, Step,
                Executes, IInv, Types
  <2> QED BY <1>2, <2>1, <2>2
<1>7. CASE validate_dump_consistency(w)
  <2>1. \/ release_session(w)
        \/ UNCHANGED <<holds, m_session_pool>> /\ state'[w] = "next"
    BY <1>7 DEF validate_dump_consistency, Step, IInv, Types
  <2> QED BY <1>2, <1>3, <2>1
<1>8. CASE FetchRows(w) \/ NextTask(w) \/ TaskThrows(w)
  BY <1>3, <1>8 DEF FetchRows, NextTask, TaskThrows
<1> QED
  BY <1>4, <1>5, <1>6, <1>7, <1>8 DEF Worker

LEMMA SessionsStep ==
  ASSUME IInv, [Next]_vars
  PROVE  Sessions'
<1> USE DEF Threadless, Unstarted, Snapshotting
<1>1. CASE \E w \in Workers : Worker(w)
  <2> SUFFICES ASSUME NEW w \in Workers, Worker(w)
               PROVE  Sessions'
    BY <1>1
  <2>1. main \notin Threadless
    BY WorkerMoves DEF IInv, Threads
  <2>2. \A v \in Workers : holds'[v] =>
          state'[v] \in {"execute", "validate", "chunked", "shutdown", "next"}
    BY WorkerMoves, WorkerSessions DEF IInv, Sessions
  <2> QED
    BY <2>1, <2>2, WorkerFrame, WorkerSessions DEF IInv, Sessions
<1>2. CASE Main
  <2> USE DEF IInv, Go, Sessions
  <2>0. options.threads \in Nat \ {0} /\ m_session_pool \in Nat
    BY DumperAssumption, FS_CardinalityType DEF Types, Options
  <2>1. CASE Start \/ acquire_read_locks \/ LockAllTables \/ LockTables
             \/ StartTransaction \/ TestInterrupt
    BY <2>0, <2>1, MainFrame, <1>2
    DEF Start, acquire_read_locks, LockAllTables, LockTables, StartTransaction,
        TestInterrupt, threads, Holders
  <2>2. CASE create_worker_sessions
    <3>1. Holders = {} /\ UNCHANGED Holders
      BY <2>2 DEF create_worker_sessions, Holders, Threads
    <3> QED
      BY <2>0, <2>2, <3>1, FS_EmptySet, MainFrame, <1>2 DEF create_worker_sessions
  <2>3. CASE create_worker_threads
    <3>1. PICK w \in Workers :
            w \notin m_workers /\ state' = [state EXCEPT ![w] = "pop"]
      BY <2>3 DEF create_worker_threads, Threads, Types
    <3>2. ~holds[w]
      BY <3>1 DEF Threads
    <3> QED
      BY <2>3, <3>1, <3>2, MainFrame, <1>2 DEF create_worker_threads, Holders, Types
  <2>4. CASE initialize_instance_cache \/ binlog_info
             \/ LockInstance \/ release_read_locks
             \/ PushTask \/ TasksScheduled \/ TasksProduced \/ PushShutdownTasks
             \/ WaitForAllTasks \/ FinalizeThrows \/ MainThrows \/ kill_workers
             \/ Killed
    BY <2>4, MainFrame, <1>2
    DEF initialize_instance_cache, binlog_info,
        LockInstance, release_read_locks, PushTask,
        TasksScheduled, TasksProduced, PushShutdownTasks, WaitForAllTasks,
        FinalizeThrows, MainThrows, kill_workers, Killed, threads, Holders
  <2>5. CASE Cleanup \/ Unwind
    BY <2>0, <2>5, MainFrame, <1>2, HoldersFinite DEF Cleanup, Unwind, Holders
  <2> QED
    BY <1>2, <2>1, <2>2, <2>3, <2>4, <2>5 DEF Main
<1>3. CASE interrupt \/ abort \/ ExecuteDdl \/ Write
  BY <1>3 DEF interrupt, abort, ExecuteDdl, Write, IInv, Sessions, Holders, threads
<1>4. CASE UNCHANGED vars
  BY <1>4 DEF vars, IInv, Sessions, Holders, threads
<1> QED
  BY <1>1, <1>2, <1>3, <1>4 DEF Next
-----------------------------------------------------------------------------
(***************************************************************************)
(* Results.                                                                *)
(***************************************************************************)

LEMMA ResultsStep ==
  ASSUME IInv, [Next]_vars
  PROVE  Results'
<1> USE DEF Results, ResultTruthful, Ended
<1>0. interrupts \in Nat
  BY DumperAssumption DEF IInv, Flags
<1>1. CASE \E w \in Workers : Worker(w)
  <2> SUFFICES ASSUME NEW w \in Workers, Worker(w)
               PROVE  Results'
    BY <1>1
  <2>1. main # "ended"
    BY WorkerMoves DEF IInv, Threads
  <2>2. m_worker_interrupt' => m_worker_interrupt \/ w \in m_worker_exceptions'
    BY WorkerMoves DEF IInv
  <2>3. m_worker_interrupt => m_worker_interrupt'
    BY WorkerMoves
  <2>4. \A v \in m_worker_exceptions' : state'[v] = "throw" \/ m_worker_interrupt'
    <3>1. /\ m_worker_exceptions' = m_worker_exceptions \/ state'[w] = "throw"
          /\ m_worker_exceptions' \subseteq m_worker_exceptions \cup {w}
          /\ \A v \in Workers : v # w => state'[v] = state[v]
          /\ m_worker_interrupt' = (m_worker_interrupt \/ state[w] = "throw")
      BY WorkerMoves
    <3>2. /\ m_worker_exceptions \subseteq Workers
          /\ \A v \in m_worker_exceptions : state[v] = "throw" \/ m_worker_interrupt
      BY DEF IInv, Flags
    <3> HIDE DEF Results, ResultTruthful, Ended
    <3> QED
      BY <3>1, <3>2
  <2> QED
    BY <2>1, <2>2, <2>3, <2>4, WorkerFrame, WorkerMoves DEF IInv
<1>2. CASE Main
  <2> USE DEF IInv, Go
  <2>a. main \in {"start", "threads"} => m_worker_exceptions = {}
    BY DEF NothingToDo, Early, Threadless, Unstarted
  <2>1. CASE Start \/ acquire_read_locks \/ LockAllTables \/ LockTables
             \/ StartTransaction \/ create_worker_sessions
             \/ initialize_instance_cache \/ binlog_info \/ LockInstance
             \/ release_read_locks \/ PushTask \/ TasksScheduled
             \/ TasksProduced \/ PushShutdownTasks
    BY <1>2, <2>1, <2>a, MainFrame
    DEF Start, acquire_read_locks, LockAllTables, LockTables, StartTransaction,
        create_worker_sessions, initialize_instance_cache, binlog_info,
        LockInstance,
        release_read_locks, PushTask, TasksScheduled, TasksProduced,
        PushShutdownTasks, threads, dump
  <2>2. CASE TestInterrupt
    <3>1. m_worker_exceptions = {}
      BY <2>2 DEF TestInterrupt, NothingToDo, Early, Threadless, Snapshotting
    <3> QED
      BY <1>2, <2>2, <3>1, MainFrame DEF TestInterrupt, threads
  <2>3. CASE create_worker_threads
    <3>1. \A v \in Workers : state'[v] = "throw" => state[v] = "throw"
      BY <2>3 DEF create_worker_threads, Types
    <3> QED
      BY <1>2, <2>3, <2>a, <3>1, MainFrame DEF create_worker_threads, dump
  <2>4. CASE WaitForAllTasks
    BY <1>2, <2>4, MainFrame DEF WaitForAllTasks
  <2>5. CASE Cleanup
    BY <1>2, <2>5, MainFrame DEF Cleanup
  <2>6. CASE FinalizeThrows \/ MainThrows
    <3>1. UNCHANGED <<m_worker_interrupt, state, m_worker_exceptions, result>>
          /\ main \notin {"kill_wait", "ended"} /\ main' \in {"unwind", "kill"}
      BY <2>6 DEF FinalizeThrows, MainThrows, dump
    <3> QED
      BY <1>2, <3>1, MainFrame
  <2>7. CASE Unwind \/ kill_workers \/ Killed
    BY <1>2, <2>7, MainFrame DEF Unwind, kill_workers, Killed, threads, dump
  <2> QED
    BY <1>2, <2>1, <2>2, <2>3, <2>4, <2>5, <2>6, <2>7 DEF Main
<1>3. CASE interrupt \/ abort \/ ExecuteDdl \/ Write
  BY <1>0, <1>3 DEF interrupt, abort, ExecuteDdl, Write, IInv, threads, dump, user
<1>4. CASE UNCHANGED vars
  BY <1>4 DEF vars, IInv, threads, dump, user
<1> QED
  BY <1>1, <1>2, <1>3, <1>4 DEF Next
-----------------------------------------------------------------------------
(***************************************************************************)
(* The queue.                                                              *)
(***************************************************************************)

Queues == [Priorities -> Seq(WorkTask)]

LEMMA PriorityType == \A t \in WorkTask : PriorityOf(t) \in Priorities
<1> SUFFICES ASSUME NEW t \in WorkTask PROVE PriorityOf(t) \in Priorities
  OBVIOUS
<1>1. t.kind \in Metadata \cup Ddl \cup {"chunking", "data", "checksum"}
  BY DEF WorkTask, TaskType
<1>2. PriorityOf(t) \in {High, Medium, Low, Lowest}
  BY <1>1 DEF PriorityOf, Metadata, Ddl
<1> QED
  BY <1>2 DEF Priorities, High, Medium, Low, Lowest

LEMMA TopFacts ==
  /\ Top = 0 <=> \A p \in Priorities : m_worker_tasks[p] = <<>>
  /\ Top # 0 => Top \in Priorities /\ m_worker_tasks[Top] # <<>>
<1> DEFINE ready == {p \in Priorities : m_worker_tasks[p] # <<>>}
<1>1. CASE ready = {}
  BY <1>1 DEF Top
<1>2. CASE ready # {}
  <2>1. \E p \in ready : \A q \in ready : p >= q
    <3> DEFINE R(p) == p \in Priorities /\ m_worker_tasks[p] # <<>>
    <3>1. \A p : p \in ready <=> R(p)
      OBVIOUS
    <3>2. \A p : R(p) => p \in {1, 2, 3, 4}
      BY DEF Priorities, High, Lowest
    <3>3. R(1) \/ R(2) \/ R(3) \/ R(4)
      BY <1>2, <3>1, <3>2
    <3> HIDE DEF R, ready
    <3> QED
      BY <3>1, <3>2, <3>3
  <2>2. Top \in ready
    BY <1>2, <2>1 DEF Top
  <2>3. 0 \notin Priorities
    BY DEF Priorities, High, Lowest
  <2> QED
    BY <1>2, <2>2, <2>3
<1> QED
  BY <1>1, <1>2

LEMMA PushKeeps ==
  ASSUME NEW q \in Queues, NEW t \in WorkTask
  PROVE  /\ Push(q, t) \in Queues
         /\ \A x : InQueue(Push(q, t), x) <=> InQueue(q, x) \/ x = t
         /\ OnePlace(q) /\ ~InQueue(q, t) => OnePlace(Push(q, t))
<1> DEFINE n == PriorityOf(t)
           r == Push(q, t)
<1>1. n \in Priorities
  BY PriorityType
<1>2. r = [q EXCEPT ![n] = Append(@, t)]
  BY DEF Push
<1> HIDE DEF n, r
<1>3. /\ r \in Queues /\ r[n] = Append(q[n], t) /\ q[n] \in Seq(WorkTask)
      /\ \A p \in Priorities : p # n => r[p] = q[p]
  BY <1>1, <1>2 DEF Queues
<1>4. /\ Len(r[n]) = Len(q[n]) + 1 /\ r[n][Len(q[n]) + 1] = t /\ Len(q[n]) \in Nat
      /\ \A i \in 1 .. Len(q[n]) : r[n][i] = q[n][i]
  BY <1>3
<1>5. \A x : InQueue(r, x) <=> InQueue(q, x) \/ x = t
  <2>1. ASSUME NEW x, InQueue(q, x) PROVE InQueue(r, x)
    <3>0. PICK p \in Priorities : \E i \in 1 .. Len(q[p]) : q[p][i] = x
      BY <2>1 DEF InQueue
    <3>1. PICK i \in 1 .. Len(q[p]) : q[p][i] = x
      BY <3>0
    <3>2. CASE p = n
      <4>1. i \in 1 .. Len(q[n]) /\ q[n][i] = x
        BY <3>1, <3>2
      <4>2. i \in 1 .. Len(r[n]) /\ r[n][i] = x
        BY <1>4, <4>1
      <4> QED
        BY <1>1, <4>2 DEF InQueue
    <3>3. CASE p # n
      BY <1>3, <3>1, <3>3 DEF InQueue
    <3> QED
      BY <3>2, <3>3
  <2>2. InQueue(r, t)
    <3>1. Len(q[n]) + 1 \in 1 .. Len(r[n])
      BY <1>4
    <3> QED BY <1>1, <1>4, <3>1 DEF InQueue
  <2>3. ASSUME NEW x, InQueue(r, x), x # t PROVE InQueue(q, x)
    <3>0. PICK p \in Priorities : \E i \in 1 .. Len(r[p]) : r[p][i] = x
      BY <2>3 DEF InQueue
    <3>1. PICK i \in 1 .. Len(r[p]) : r[p][i] = x
      BY <3>0
    <3>2. i \in 1 .. Len(q[p]) /\ q[p][i] = x
      <4>1. CASE p # n
        BY <1>3, <3>1, <4>1
      <4>2. CASE p = n
        <5>1. i # Len(q[n]) + 1
          BY <1>4, <2>3, <3>1, <4>2
        <5>2. i \in 1 .. Len(q[n])
          BY <1>4, <3>1, <4>2, <5>1
        <5> QED BY <1>4, <3>1, <4>2, <5>2
      <4> QED BY <4>1, <4>2
    <3> QED BY <3>2 DEF InQueue
  <2> QED BY <2>1, <2>2, <2>3
<1>6. ASSUME OnePlace(q), ~InQueue(q, t) PROVE OnePlace(r)
  <2> SUFFICES ASSUME NEW p \in Priorities, NEW i \in 1 .. Len(r[p])
               PROVE  /\ PriorityOf(r[p][i]) = p
                      /\ \A j \in 1 .. Len(r[p]) : r[p][i] = r[p][j] => i = j
    BY DEF OnePlace
  <2>1. CASE p # n
    BY <1>3, <1>6, <2>1 DEF OnePlace
  <2>2. CASE p = n
    <3>1. \A j \in 1 .. Len(q[n]) : q[n][j] # t
      BY <1>1, <1>6 DEF InQueue
    <3>2. PriorityOf(r[p][i]) = p
      BY <1>1, <1>4, <1>6, <2>2 DEF OnePlace, n
    <3>3. ASSUME NEW j \in 1 .. Len(r[p]), r[p][i] = r[p][j] PROVE i = j
      <4>1. CASE i \in 1 .. Len(q[n]) /\ j \in 1 .. Len(q[n])
        BY <1>1, <1>4, <1>6, <2>2, <3>3, <4>1 DEF OnePlace
      <4>2. CASE i = Len(q[n]) + 1 \/ j = Len(q[n]) + 1
        <5>1. \A k \in 1 .. Len(q[n]) : r[n][k] # r[n][Len(q[n]) + 1]
          BY <1>4, <3>1
        <5>2. \A k \in 1 .. Len(r[n]) : k \in 1 .. Len(q[n]) \/ k = Len(q[n]) + 1
          BY <1>4
        <5> QED
          BY <2>2, <3>3, <4>2, <5>1, <5>2
      <4> QED
        BY <1>4, <2>2, <4>1, <4>2
    <3> QED BY <3>2, <3>3
  <2> QED BY <2>1, <2>2
<1> QED
  BY <1>3, <1>5, <1>6 DEF r

Popped(q, p) == [q EXCEPT ![p] = Tail(@)]

LEMMA PopKeeps ==
  ASSUME NEW q \in Queues, NEW p \in Priorities, q[p] # <<>>
  PROVE  /\ Popped(q, p) \in Queues
         /\ Head(q[p]) \in WorkTask /\ InQueue(q, Head(q[p]))
         /\ OnePlace(q) =>
              /\ OnePlace(Popped(q, p))
              /\ \A x : InQueue(Popped(q, p), x) <=> InQueue(q, x) /\ x # Head(q[p])
<1>0. PICK r : r = Popped(q, p)
  OBVIOUS
<1>1. q[p] \in Seq(WorkTask) /\ Len(q[p]) \in Nat /\ Len(q[p]) > 0
  BY DEF Queues
<1>2. /\ Tail(q[p]) \in Seq(WorkTask) /\ Head(q[p]) = q[p][1]
      /\ Len(Tail(q[p])) = Len(q[p]) - 1
      /\ \A i \in 1 .. Len(q[p]) - 1 : Tail(q[p])[i] = q[p][i + 1]
  BY <1>1
<1>3. /\ r \in Queues /\ r[p] = Tail(q[p])
      /\ \A s \in Priorities : s # p => r[s] = q[s]
  BY <1>0, <1>2 DEF Queues, Popped
<1>a. /\ Len(r[p]) = Len(q[p]) - 1
      /\ \A i \in 1 .. Len(r[p]) : r[p][i] = q[p][i + 1] /\ i + 1 \in 2 .. Len(q[p])
  <2>1. Len(r[p]) = Len(q[p]) - 1
    BY <1>2, <1>3
  <2>2. \A i \in 1 .. Len(q[p]) - 1 : r[p][i] = q[p][i + 1]
    BY <1>2, <1>3
  <2>3. \A i \in 1 .. Len(q[p]) - 1 : i + 1 \in 2 .. Len(q[p])
    BY <1>1
  <2> QED BY <2>1, <2>2, <2>3
<1>4. Head(q[p]) \in WorkTask /\ InQueue(q, Head(q[p]))
  BY <1>1, <1>2 DEF InQueue
<1>5. ASSUME OnePlace(q) PROVE OnePlace(r)
  <2> SUFFICES ASSUME NEW s \in Priorities, NEW i \in 1 .. Len(r[s])
               PROVE  /\ PriorityOf(r[s][i]) = s
                      /\ \A j \in 1 .. Len(r[s]) : r[s][i] = r[s][j] => i = j
    BY DEF OnePlace
  <2>1. CASE s # p
    BY <1>3, <1>5, <2>1 DEF OnePlace
  <2>2. CASE s = p
    <3>1. \A j \in 1 .. Len(r[s]) : r[s][j] = q[p][j + 1] /\ j + 1 \in 1 .. Len(q[p])
      BY <1>1, <1>a, <2>2
    <3>2. PriorityOf(r[s][i]) = s
      BY <1>5, <2>2, <3>1 DEF OnePlace
    <3>3. ASSUME NEW j \in 1 .. Len(r[s]), r[s][i] = r[s][j] PROVE i = j
      <4>1. i + 1 = j + 1
        BY <1>5, <3>1, <3>3 DEF OnePlace
      <4> QED BY <1>1, <1>2, <1>3, <2>2, <4>1
    <3> QED BY <3>2, <3>3
  <2> QED BY <2>1, <2>2
<1>6. ASSUME OnePlace(q), NEW x PROVE InQueue(r, x) <=> InQueue(q, x) /\ x # Head(q[p])
  <2>1. ASSUME InQueue(r, x) PROVE InQueue(q, x) /\ x # Head(q[p])
    <3>0. PICK s \in Priorities : \E i \in 1 .. Len(r[s]) : r[s][i] = x
      BY <2>1 DEF InQueue
    <3>1. PICK i \in 1 .. Len(r[s]) : r[s][i] = x
      BY <3>0
    <3>2. CASE s # p
      <4>1. q[s][i] = x /\ i \in 1 .. Len(q[s])
        BY <1>3, <3>1, <3>2
      <4>2. PriorityOf(x) = s /\ PriorityOf(Head(q[p])) = p
        BY <1>1, <1>2, <1>6, <4>1 DEF OnePlace
      <4> QED BY <3>2, <4>1, <4>2 DEF InQueue
    <3>3. CASE s = p
      <4>1. q[p][i + 1] = x /\ i + 1 \in 1 .. Len(q[p]) /\ i + 1 # 1
        BY <1>1, <1>a, <3>1, <3>3
      <4>2. 1 \in 1 .. Len(q[p])
        BY <1>1
      <4>3. x # Head(q[p])
        BY <1>2, <1>6, <4>1, <4>2 DEF OnePlace
      <4> QED BY <4>1, <4>3 DEF InQueue
    <3> QED BY <3>2, <3>3
  <2>2. ASSUME InQueue(q, x), x # Head(q[p]) PROVE InQueue(r, x)
    <3>0. PICK s \in Priorities : \E i \in 1 .. Len(q[s]) : q[s][i] = x
      BY <2>2 DEF InQueue
    <3>1. PICK i \in 1 .. Len(q[s]) : q[s][i] = x
      BY <3>0
    <3>2. CASE s # p
      BY <1>3, <3>1, <3>2 DEF InQueue
    <3>3. CASE s = p
      <4>1. i # 1
        BY <1>2, <2>2, <3>1, <3>3
      <4>2. i - 1 \in 1 .. Len(r[p]) /\ (i - 1) + 1 = i
        BY <1>1, <1>a, <3>1, <3>3, <4>1
      <4>3. r[p][i - 1] = x
        BY <1>a, <3>1, <3>3, <4>2
      <4> QED BY <4>2, <4>3 DEF InQueue
    <3> QED BY <3>2, <3>3
  <2> QED BY <2>1, <2>2
<1> QED
  BY <1>0, <1>3, <1>4, <1>5, <1>6

LEMMA QueuedIsPushed ==
  ASSUME IInv
  PROVE  /\ m_worker_tasks \in Queues
         /\ \A t : Queued(t) => t \in pushed \ finished
  BY DEF IInv, Types, Queues, Places, Queued, InQueue

\* The main thread pushes a task which was not pushed before.
LEMMA PushTaskFacts ==
  ASSUME IInv, PushTask
  PROVE  \E t \in WorkTask :
           /\ t = MainTasks[at + 1] /\ at + 1 \in 1 .. Len(MainTasks)
           /\ t \notin pushed /\ pushed' = pushed \cup {t}
           /\ m_worker_tasks' \in Queues /\ OnePlace(m_worker_tasks')
           /\ \A x : Queued(x)' <=> Queued(x) \/ x = t
<1>1. at \in 0 .. Len(MainTasks) /\ at < Len(MainTasks) /\ Len(MainTasks) \in Nat
  BY MainTasksFacts DEF IInv, Types, PushTask
<1>2. at + 1 \in 1 .. Len(MainTasks) /\ ~(at + 1 <= at)
  BY <1>1
<1>3. PICK t : t = MainTasks[at + 1]
  OBVIOUS
<1>4. t \in WorkTask /\ t \notin pushed
  BY <1>2, <1>3, MainTasksFacts DEF IInv, Places
<1>5. pushed' = pushed \cup {t} /\ m_worker_tasks' = Push(m_worker_tasks, t)
  BY <1>3 DEF PushTask
<1>6. ~Queued(t) /\ m_worker_tasks \in Queues /\ OnePlace(m_worker_tasks)
  BY <1>4, QueuedIsPushed DEF IInv, Places
<1>7. /\ m_worker_tasks' \in Queues /\ OnePlace(m_worker_tasks')
      /\ \A x : InQueue(m_worker_tasks', x) <=> InQueue(m_worker_tasks, x) \/ x = t
  BY <1>4, <1>5, <1>6, PushKeeps DEF Queued
<1> QED
  BY <1>2, <1>3, <1>4, <1>5, <1>7 DEF Queued

\* A worker takes the first task of the highest priority.
LEMMA PopTaskFacts ==
  ASSUME IInv, NEW w \in Workers, PopTask(w)
  PROVE  \E t \in WorkTask :
           /\ Queued(t) /\ t \in pushed \ finished
           /\ m_worker_tasks' \in Queues /\ OnePlace(m_worker_tasks')
           /\ \A x : Queued(x)' <=> Queued(x) /\ x # t
           /\ state[w] = "pop"
           /\ state'[w] = IF m_worker_interrupt THEN "exited" ELSE "session"
           /\ task' \in [Workers -> TaskType]
           /\ task'[w] = IF m_worker_interrupt THEN NoTask ELSE t
           /\ UNCHANGED <<pushed, finished, guards, checked>>
<1>1. PICK p : p = Top
  OBVIOUS
<1>2. p \in Priorities /\ m_worker_tasks[p] # <<>>
  BY <1>1, TopFacts DEF PopTask
<1>3. PICK t : t = Head(m_worker_tasks[p])
  OBVIOUS
<1>4. /\ m_worker_tasks' = [m_worker_tasks EXCEPT ![p] = Tail(@)]
      /\ task' = [task EXCEPT ![w] = IF m_worker_interrupt THEN NoTask ELSE t]
  BY <1>1, <1>3 DEF PopTask
<1>5. m_worker_tasks \in Queues /\ OnePlace(m_worker_tasks)
  BY QueuedIsPushed DEF IInv, Places
<1>6. /\ m_worker_tasks' \in Queues /\ t \in WorkTask /\ InQueue(m_worker_tasks, t)
      /\ OnePlace(m_worker_tasks')
      /\ \A x : InQueue(m_worker_tasks', x) <=> InQueue(m_worker_tasks, x) /\ x # t
  <2>1. PICK q, r : q = m_worker_tasks /\ r = m_worker_tasks'
    OBVIOUS
  <2>2. /\ q \in Queues /\ OnePlace(q) /\ q[p] # <<>> /\ t = Head(q[p])
        /\ r = Popped(q, p)
    BY <1>2, <1>3, <1>4, <1>5, <2>1 DEF Popped
  <2>3. /\ r \in Queues /\ t \in WorkTask /\ InQueue(q, t) /\ OnePlace(r)
        /\ \A x : InQueue(r, x) <=> InQueue(q, x) /\ x # t
    BY <1>2, <2>2, PopKeeps
  <2> QED BY <2>1, <2>3
<1>7. NoTask \in TaskType /\ t \in TaskType
  BY <1>6, NoTaskType DEF WorkTask
<1>8. /\ task' \in [Workers -> TaskType]
      /\ task'[w] = IF m_worker_interrupt THEN NoTask ELSE t
  BY <1>4, <1>7 DEF IInv, Types
<1>9. /\ state[w] = "pop"
      /\ state'[w] = IF m_worker_interrupt THEN "exited" ELSE "session"
      /\ UNCHANGED <<pushed, finished, guards, checked>>
  BY DEF PopTask, Step, IInv, Types
<1> QED
  BY <1>6, <1>8, <1>9, QueuedIsPushed DEF Queued

\* A worker pushes the next chunk of its table, and its checksum.
LEMMA PushChunkFacts ==
  ASSUME IInv, NEW w \in Workers, PushChunk(w)
  PROVE  /\ state[w] = "execute" /\ state'[w] \in {"execute", "chunked"}
         /\ task[w].kind = "chunking" /\ task[w] \in pushed \ finished
         /\ options.data
         /\ UNCHANGED <<task, finished, guards, checked>>
         /\ m_worker_tasks' \in Queues /\ OnePlace(m_worker_tasks')
         /\ \E t \in WorkTask, new \in SUBSET WorkTask :
              /\ t = Task("data", task[w].of, Cardinality(DataTasks(task[w].of)))
              /\ t \in new /\ IsFiniteSet(new) /\ new \cap pushed = {}
              /\ pushed' = pushed \cup new
              /\ \A x \in new : x = t \/ x = [t EXCEPT !.kind = "checksum"]
              /\ \A x : Queued(x)' <=> Queued(x) \/ x \in new
<1>1. /\ state[w] = "execute" /\ state'[w] \in {"execute", "chunked"}
      /\ task[w].kind = "chunking"
      /\ UNCHANGED <<task, finished, guards, checked>>
  BY DEF PushChunk, Step, Quiet, IInv, Types
<1>2. task[w] \in pushed \ finished
  BY <1>1 DEF IInv, Places, Working, Pending
<1>3. options.data
  <2>1. task[w] \in Range(MainTasks)
    BY <1>1, <1>2 DEF IInv, Contents
  <2> QED
    BY <1>1, <2>1, MainTasksFacts DEF Range
<1>4. PICK n : n = Cardinality(DataTasks(task[w].of))
  OBVIOUS
<1>5. PICK t : t = Task("data", task[w].of, n)
  OBVIOUS
<1>6. PICK c : c = Task("checksum", task[w].of, n)
  OBVIOUS
<1>7. /\ n < MaxChunks
      /\ pushed' = pushed \cup {t} \cup (IF options.checksum THEN {c} ELSE {})
      /\ m_worker_tasks' = Push(IF options.checksum THEN Push(m_worker_tasks, c)
                                                    ELSE m_worker_tasks, t)
  BY <1>4, <1>5, <1>6 DEF PushChunk, DataTasks
<1>8. n \in 0 .. MaxChunks
  <2>1. IsFiniteSet(DataTasks(task[w].of))
    BY FS_Subset DEF DataTasks, IInv, Types
  <2> QED
    BY <1>4, <1>7, <2>1, FS_CardinalityType, DumperAssumption
<1>9. task[w].of \in Objects \cup AllParts \cup {"none"}
  BY DEF IInv, Types, TaskType
<1>10. t \in WorkTask /\ c \in WorkTask /\ t # c
  BY <1>5, <1>6, <1>8, <1>9 DEF Task, WorkTask, TaskType
<1>11. /\ t.kind = "data" /\ t.of = task[w].of /\ t.chunk = n
       /\ c.kind = "checksum" /\ c.of = task[w].of /\ c.chunk = n
       /\ c = [t EXCEPT !.kind = "checksum"]
  BY <1>5, <1>6 DEF Task
<1>12. t \notin pushed /\ c \notin pushed
  <2>1. /\ t \in pushed => t.chunk < Cardinality(DataTasks(t.of))
        /\ c \in pushed => c.chunk < Cardinality(DataTasks(c.of))
    BY <1>3, <1>11 DEF IInv, Contents
  <2>2. ~(n < n)
    BY <1>8
  <2> QED
    BY <1>4, <1>11, <2>1, <2>2
<1>13. /\ m_worker_tasks \in Queues /\ OnePlace(m_worker_tasks)
       /\ ~Queued(t) /\ ~Queued(c)
  BY <1>12, QueuedIsPushed DEF IInv, Places
<1>14. PICK new : new = {t} \cup (IF options.checksum THEN {c} ELSE {})
  OBVIOUS
<1>15. /\ t \in new /\ new \subseteq {t, c} /\ pushed' = pushed \cup new
       /\ new \cap pushed = {} /\ new \subseteq WorkTask
  BY <1>7, <1>10, <1>12, <1>14
<1>16. IsFiniteSet(new)
  <2>1. IsFiniteSet({t} \cup {c})
    BY FS_Singleton, FS_Union
  <2> QED BY <1>15, <2>1, FS_Subset
<1>17. /\ m_worker_tasks' \in Queues /\ OnePlace(m_worker_tasks')
       /\ \A x : InQueue(m_worker_tasks', x) <=> InQueue(m_worker_tasks, x) \/ x \in new
  <2>1. CASE ~options.checksum
    BY <1>7, <1>10, <1>13, <1>14, <2>1, PushKeeps DEF Queued
  <2>2. CASE options.checksum
    <3>1. PICK q : q = Push(m_worker_tasks, c)
      OBVIOUS
    <3>2. /\ q \in Queues /\ OnePlace(q)
          /\ \A x : InQueue(q, x) <=> InQueue(m_worker_tasks, x) \/ x = c
      BY <1>10, <1>13, <3>1, PushKeeps DEF Queued
    <3>3. ~InQueue(q, t) /\ m_worker_tasks' = Push(q, t)
      BY <1>7, <1>10, <1>13, <2>2, <3>1, <3>2 DEF Queued
    <3>4. /\ m_worker_tasks' \in Queues /\ OnePlace(m_worker_tasks')
          /\ \A x : InQueue(m_worker_tasks', x) <=> InQueue(q, x) \/ x = t
      BY <1>10, <3>2, <3>3, PushKeeps
    <3> QED
      BY <1>14, <2>2, <3>2, <3>4
  <2> QED BY <2>1, <2>2
<1>18. \A x : Queued(x)' <=> Queued(x) \/ x \in new
  BY <1>17 DEF Queued
<1> QED
  BY <1>1, <1>2, <1>3, <1>4, <1>5, <1>10, <1>11, <1>15, <1>16, <1>17, <1>18

\* What else a worker does with tasks: it ends one ...
Finishes(w) ==
    /\ state[w] \in Pending /\ state'[w] \in Working \ Pending
    /\ UNCHANGED <<task, m_worker_tasks, pushed, guards>>
    /\ finished' = finished \cup {task[w]}

\* ... goes on with the same, or gives it up.
Moves(w) ==
    /\ UNCHANGED <<m_worker_tasks, pushed, finished>>
    /\ \/ /\ state[w] \in Working /\ state'[w] \in Working /\ UNCHANGED task
          /\ state'[w] \in Pending => state[w] \in Pending
          /\ state'[w] = "chunked" => task[w].kind = "chunking"
          /\ state'[w] = "finish_writing" => task[w].kind = "data"
       \/ state'[w] \in {"pop", "exited"} /\ task' \in [Workers -> TaskType]
    /\ state[w] \in Pending =>
         state'[w] \in Pending \cup {"throw"} \/ m_worker_interrupt'

LEMMA WorkerKinds ==
  ASSUME IInv, NEW w \in Workers, Worker(w)
  PROVE  PopTask(w) \/ PushChunk(w) \/ Finishes(w) \/ Moves(w)
<1> USE DEF Step, Executes, Quiet, IInv, Types, States, queue, Working, Pending
<1>0. NoTask \in TaskType
  BY NoTaskType
<1>1. CASE WriteFile(w)
  <2>1. state' = [state EXCEPT ![w] = "validate"] /\ state[w] = "execute"
    BY <1>1 DEF WriteFile
  <2> QED BY <1>1, <2>1 DEF WriteFile, Finishes
<1>2. CASE CountChunked(w) \/ FinishWriting(w) \/ checksum_table_data(w)
  BY <1>2 DEF CountChunked, FinishWriting, checksum_table_data, Finishes
<1>3. CASE PopGuard(w)
  BY <1>3 DEF PopGuard, Moves
<1>4. CASE TakeSession(w)
  BY <1>0, <1>4 DEF TakeSession, Moves
<1>5. CASE validate_dump_consistency(w)
  BY <1>5 DEF validate_dump_consistency, Moves
<1>6. CASE ChunkingInterrupted(w) \/ ShutdownWhenProduced(w)
  BY <1>6 DEF ChunkingInterrupted, ShutdownWhenProduced, Moves
<1>7. CASE FetchRows(w) \/ FetchInterrupted(w)
  BY <1>7 DEF FetchRows, FetchInterrupted, Moves
<1>8. CASE NextTask(w) \/ handle_exception(w)
  BY <1>0, <1>8 DEF NextTask, handle_exception, Moves
<1>9. CASE TaskThrows(w)
  BY <1>9 DEF TaskThrows, Moves
<1> QED
  BY <1>1, <1>2, <1>3, <1>4, <1>5, <1>6, <1>7, <1>8, <1>9 DEF Worker

\* A worker that writes a DDL file shows its object as it is now.
Shows(w) ==
    /\ state[w] = "execute" /\ task[w] \in AllDdl
    /\ task[w] \in finished' \ finished
    /\ task[w].of \in Objects
    /\ task[w].kind = "table DDL" => task[w].of \in Tables
    /\ shown' = shown \cup {[file |-> task[w], version |-> version[task[w].of]]}

LEMMA WorkerShows ==
  ASSUME IInv, NEW w \in Workers, Worker(w)
  PROVE  UNCHANGED shown \/ Shows(w)
<1>1. CASE WriteFile(w) /\ task[w].kind \in Ddl
  <2>1. /\ state[w] = "execute" /\ finished' = finished \cup {task[w]}
        /\ shown' = shown \cup {[file |-> task[w], version |-> version[task[w].of]]}
    BY <1>1 DEF WriteFile, Executes, Step
  <2>2. task[w] \in pushed \ finished
    BY <2>1 DEF IInv, Places, Working, Pending
  <2>3. task[w] \in Range(MainTasks)
    BY <1>1, <2>2 DEF IInv, Contents, Ddl
  <2>4. task[w] \in AllDdl
    BY <1>1, <2>3, MainTasksFacts DEF Range
  <2>5. /\ task[w].of \in Objects
        /\ task[w].kind = "table DDL" => task[w].of \in Tables
    <3>1. ASSUME NEW k, NEW o, task[w] = Task(k, o, 0)
          PROVE  task[w].kind = k /\ task[w].of = o
      BY <3>1 DEF Task
    <3>2. \/ \E o \in Schemas \cup Views : \E k \in {"schema DDL", "view DDL"} :
               task[w] = Task(k, o, 0)
          \/ \E o \in Tables : task[w] = Task("table DDL", o, 0)
      BY <2>4 DEF AllDdl
    <3> QED BY <3>1, <3>2 DEF Objects
  <2> QED BY <2>1, <2>2, <2>4, <2>5 DEF Shows
<1>2. CASE WriteFile(w) /\ task[w].kind \notin Ddl
  BY <1>2 DEF WriteFile
<1>3. CASE ~WriteFile(w)
  BY <1>3
  DEF Worker, PopTask, PopGuard, TakeSession, validate_dump_consistency, PushChunk,
      ChunkingInterrupted, CountChunked, ShutdownWhenProduced, FetchRows,
      FetchInterrupted, FinishWriting, checksum_table_data, NextTask, TaskThrows,
      handle_exception
<1> QED BY <1>1, <1>2, <1>3

\* The main thread writes no DDL files; it fills the cache before there are any.
LEMMA MainShows ==
  ASSUME IInv, Main
  PROVE  /\ UNCHANGED shown
         /\ \/ initialize_instance_cache \/ binlog_info
            \/ UNCHANGED cache /\ main' # "position"
         /\ main \in Early => shown = {}
<1>1. UNCHANGED shown
  BY DEF Main, Start, acquire_read_locks, LockAllTables, LockTables,
         StartTransaction, TestInterrupt, create_worker_sessions,
         create_worker_threads, initialize_instance_cache, binlog_info,
         LockInstance, release_read_locks, PushTask, TasksScheduled, TasksProduced,
         PushShutdownTasks, WaitForAllTasks, FinalizeThrows, Cleanup, MainThrows,
         Unwind, kill_workers, Killed, dump
<1>2. \/ initialize_instance_cache \/ binlog_info
      \/ UNCHANGED cache /\ main' # "position"
  BY DEF Main, Start, acquire_read_locks, LockAllTables, LockTables,
         StartTransaction, TestInterrupt, create_worker_sessions,
         create_worker_threads, LockInstance, release_read_locks, PushTask,
         TasksScheduled, TasksProduced, PushShutdownTasks, WaitForAllTasks,
         FinalizeThrows, Cleanup, MainThrows, Unwind, kill_workers, Killed, dump, Go
<1>3. main \in Early => shown = {}
  <2>1. main \in Early => finished = {}
    BY DEF IInv, NothingToDo, Types
  <2> QED BY <2>1 DEF IInv, Types
<1> QED BY <1>1, <1>2, <1>3

LEMMA WorkersCounted == \A S \in SUBSET Workers : Cardinality(S) \in Nat
  BY DumperAssumption, FS_Subset, FS_CardinalityType

\* Guards are pushed for all the threads, and taken one by one.
LEMMA WorkerGuards ==
  ASSUME IInv, NEW w \in Workers, Worker(w)
  PROVE  /\ guards' \in Nat
         /\ guards' > guards => state[w] = "throw" \/ all_tasks_produced
         /\ guards' < guards => PopGuard(w)
<1>1. Cardinality(m_workers) \in Nat /\ guards \in Nat
  BY WorkersCounted DEF IInv, Types
<1>2. CASE PopGuard(w)
  BY <1>1, <1>2 DEF PopGuard
<1>3. CASE handle_exception(w)
  BY <1>1, <1>3 DEF handle_exception, shutdown, Step
<1>4. CASE ShutdownWhenProduced(w)
  BY <1>1, <1>4 DEF ShutdownWhenProduced, maybe_push_shutdown_tasks, shutdown
<1>5. CASE UNCHANGED guards
  BY <1>1, <1>5
<1> QED
  BY <1>2, <1>3, <1>4, <1>5
  DEF Worker, PopTask, TakeSession, WriteFile, validate_dump_consistency, PushChunk,
      ChunkingInterrupted, CountChunked, FetchRows, FetchInterrupted, FinishWriting,
      checksum_table_data, NextTask, TaskThrows, queue
-----------------------------------------------------------------------------
(***************************************************************************)
(* Types.                                                                  *)
(***************************************************************************)

LEMMA SameMainTasks == UNCHANGED options => UNCHANGED MainTasks
  BY DEF MainTasks, WritesMetadata, DataParts

LEMMA TypesStep ==
  ASSUME IInv, [Next]_vars
  PROVE  Types'
<1> USE DEF Types, Queues
<1>0. Types
  BY DEF IInv
<1>1. CASE \E w \in Workers : Worker(w)
  <2> SUFFICES ASSUME NEW w \in Workers, Worker(w)
               PROVE  Types'
    BY <1>1
  <2>1. /\ options' \in Options /\ main' \in Early \cup Producing \cup Ending
        /\ at' \in 0 .. Len(MainTasks') /\ m_workers' \subseteq Workers
    BY <1>0, WorkerFrame, SameMainTasks
  <2>2. /\ state' \in [Workers -> States] /\ holds' \in [Workers -> BOOLEAN]
        /\ m_session_pool' \in Nat /\ guards' \in Nat
    BY WorkerMoves, WorkerSessions, WorkerGuards
  <2>3. /\ task' \in [Workers -> TaskType]
        /\ m_worker_tasks' \in [Priorities -> Seq(WorkTask)]
        /\ pushed' \subseteq WorkTask /\ IsFiniteSet(pushed')
        /\ finished' \subseteq pushed' /\ finished \subseteq finished'
    <3>1. CASE PopTask(w)
      BY <1>0, <3>1, PopTaskFacts
    <3>2. CASE PushChunk(w)
      <4>1. PICK new \in SUBSET WorkTask : IsFiniteSet(new) /\ pushed' = pushed \cup new
        BY <3>2, PushChunkFacts
      <4>2. IsFiniteSet(pushed')
        BY <1>0, <4>1, FS_Union
      <4> QED
        BY <1>0, <3>2, <4>1, <4>2, PushChunkFacts
    <3>3. CASE Finishes(w)
      <4>1. task[w] \in pushed
        BY <3>3 DEF Finishes, IInv, Places, Pending, Working
      <4> QED
        BY <1>0, <3>3, <4>1 DEF Finishes
    <3>4. CASE Moves(w)
      BY <1>0, <3>4 DEF Moves
    <3> QED
      BY <3>1, <3>2, <3>3, <3>4, WorkerKinds
  <2>4. shown' \subseteq [file : finished', version : 0 .. MaxDdl]
    <3>1. shown \subseteq [file : finished', version : 0 .. MaxDdl]
      BY <1>0, <2>3
    <3>2. CASE Shows(w)
      <4>1. version[task[w].of] \in 0 .. MaxDdl /\ task[w] \in finished'
        BY <3>2 DEF Shows, IInv, Versions
      <4>2. PICK y : y = [file |-> task[w], version |-> version[task[w].of]]
        OBVIOUS
      <4>3. y \in [file : finished', version : 0 .. MaxDdl]
        BY <4>1, <4>2
      <4>4. shown' = shown \cup {y}
        BY <3>2, <4>2 DEF Shows
      <4> QED BY <3>1, <4>3, <4>4
    <3> QED BY <3>1, <3>2, WorkerShows
  <2> QED
    BY <2>1, <2>2, <2>3, <2>4
<1>2. CASE Main
  <2> USE MainFrame DEF Go
  <2>a. MainTasks' = MainTasks /\ Cardinality(m_workers) \in Nat
    BY <1>0, <1>2, SameMainTasks, WorkersCounted
  <2>1. CASE Start \/ acquire_read_locks \/ LockAllTables \/ LockTables
             \/ StartTransaction \/ TestInterrupt \/ create_worker_sessions
             \/ initialize_instance_cache \/ binlog_info
             \/ LockInstance \/ release_read_locks
    BY <1>0, <1>2, <2>1, <2>a
    DEF Start, acquire_read_locks, LockAllTables, LockTables, StartTransaction,
        TestInterrupt, create_worker_sessions, initialize_instance_cache, binlog_info,
        LockInstance, release_read_locks, threads, queue, progress, dump, Early,
        Threadless, Unstarted, Snapshotting, Cached, Producing, Ending
  <2>2. CASE create_worker_threads
    <3>1. PICK w \in Workers : /\ m_workers' = m_workers \cup {w}
                               /\ state' = [state EXCEPT ![w] = "pop"]
      BY <2>2 DEF create_worker_threads, IInv, Threads
    <3> QED
      BY <1>0, <1>2, <2>2, <2>a, <3>1
      DEF create_worker_threads, queue, progress, dump, Early, States
  <2>3. CASE PushTask
    <3>1. PICK t \in WorkTask :
            /\ pushed' = pushed \cup {t} /\ at + 1 \in 1 .. Len(MainTasks)
            /\ m_worker_tasks' \in Queues
      BY <2>3, PushTaskFacts
    <3>2. IsFiniteSet(pushed')
      BY <1>0, <3>1, FS_AddElement
    <3>3. at' \in 0 .. Len(MainTasks)
      BY <2>3, <3>1 DEF PushTask
    <3> QED
      BY <1>0, <1>2, <2>3, <2>a, <3>1, <3>2, <3>3 DEF PushTask, threads, dump
  <2>4. CASE TasksScheduled \/ TasksProduced \/ PushShutdownTasks \/ kill_workers
    <3>1. guards' \in Nat
      BY <1>0, <2>4, <2>a
      DEF TasksScheduled, TasksProduced, PushShutdownTasks, kill_workers, queue,
          maybe_push_shutdown_tasks, shutdown
    <3> QED
      BY <1>0, <1>2, <2>4, <2>a, <3>1
      DEF TasksScheduled, TasksProduced, PushShutdownTasks, kill_workers, queue,
          threads, progress, dump, Producing, Ending
  <2>5. CASE WaitForAllTasks \/ FinalizeThrows \/ Cleanup \/ MainThrows \/ Unwind
             \/ Killed
    BY <1>0, <1>2, <2>5, <2>a
    DEF WaitForAllTasks, FinalizeThrows, Cleanup, MainThrows, Unwind, Killed, queue,
        threads, progress, dump, Ending
  <2> QED
    BY <1>2, <2>1, <2>2, <2>3, <2>4, <2>5 DEF Main
<1>3. CASE interrupt \/ ExecuteDdl \/ Write \/ UNCHANGED vars
  BY <1>0, <1>3, SameMainTasks
  DEF interrupt, ExecuteDdl, Write, vars, threads, queue, progress, dump
<1>4. CASE abort
  <2>1. Cardinality(m_workers) \in Nat
    BY <1>0, WorkersCounted
  <2> QED
    BY <1>0, <1>4, <2>1, SameMainTasks DEF abort, threads, progress, dump, shutdown
<1> QED
  BY <1>1, <1>2, <1>3, <1>4 DEF Next

LEMMA WorkerFlags ==
  ASSUME IInv, NEW w \in Workers, Worker(w)
  PROVE  /\ checked' \in BOOLEAN
         /\ failures' \in 0 .. MaxFailures
<1>0. checked \in BOOLEAN /\ failures \in 0 .. MaxFailures /\ MaxFailures \in Nat
  BY DumperAssumption DEF IInv, Flags
<1>1. CASE validate_dump_consistency(w)
  BY <1>0, <1>1 DEF validate_dump_consistency
<1>2. CASE TaskThrows(w)
  BY <1>0, <1>2 DEF TaskThrows
<1>3. CASE UNCHANGED <<checked, failures>>
  BY <1>0, <1>3
<1>4. CASE PopTask(w) \/ PopGuard(w) \/ TakeSession(w) \/ WriteFile(w)
           \/ PushChunk(w) \/ ChunkingInterrupted(w) \/ CountChunked(w)
  BY <1>3, <1>4 DEF PopTask, PopGuard, TakeSession, WriteFile, PushChunk,
                    ChunkingInterrupted, CountChunked, Quiet
<1>5. CASE ShutdownWhenProduced(w) \/ FetchRows(w) \/ FetchInterrupted(w)
           \/ FinishWriting(w) \/ checksum_table_data(w) \/ NextTask(w)
           \/ handle_exception(w)
  BY <1>3, <1>5 DEF ShutdownWhenProduced, FetchRows, FetchInterrupted, FinishWriting,
                    checksum_table_data, NextTask, handle_exception, Quiet
<1> QED
  BY <1>1, <1>2, <1>4, <1>5 DEF Worker

LEMMA FlagsStep ==
  ASSUME IInv, [Next]_vars
  PROVE  Flags'
<1> DEFINE Booleans == {m_all_table_metadata_tasks_scheduled, m_worker_interrupt,
                        read_lock, m_main_thread_finished_producing_chunking_tasks,
                        backup_lock, m_ftwrl_used, m_instance_locked, checked, done,
                        early} \subseteq BOOLEAN
           Numbers == /\ interrupts \in 0 .. MaxInterrupts
                      /\ failures \in 0 .. MaxFailures
                      /\ writes \in 0 .. MaxWrites /\ schema_version \in 0 .. MaxDdl
           Others == /\ m_worker_exceptions \subseteq Workers
                     /\ handler \in {"idle", "abort"}
                     /\ result \in {"none", "ok", "error", "cancelled"}
<1>a. Flags <=> Booleans /\ Numbers /\ Others
  BY DEF Flags
<1>b. Booleans /\ Numbers /\ Others
  BY <1>a DEF IInv
<1>c. /\ MaxInterrupts \in Nat /\ MaxFailures \in Nat /\ MaxWrites \in Nat
      /\ MaxDdl \in Nat
  BY DumperAssumption
<1>d. options \in Options
  BY DEF IInv, Types
<1> SUFFICES Booleans' /\ Numbers' /\ Others'
  BY DEF Flags
<1>1. CASE \E w \in Workers : Worker(w)
  <2> SUFFICES ASSUME NEW w \in Workers, Worker(w)
               PROVE  Booleans' /\ Numbers' /\ Others'
    BY <1>1
  <2>1. Booleans'
    <3>1. m_worker_interrupt' \in BOOLEAN /\ checked' \in BOOLEAN
      BY WorkerMoves, WorkerFlags
    <3> QED BY <1>b, <3>1, WorkerFrame
  <2>2. Numbers'
    BY <1>b, WorkerFrame, WorkerFlags
  <2>3. Others'
    BY <1>b, WorkerFrame, WorkerMoves
  <2> QED BY <2>1, <2>2, <2>3
<1>2. CASE Main
  <2>1. Others'
    <3>1. m_worker_exceptions' = m_worker_exceptions
      BY <1>2
      DEF Main, Start, acquire_read_locks, LockAllTables, LockTables,
          StartTransaction, TestInterrupt, create_worker_sessions,
          create_worker_threads, initialize_instance_cache, binlog_info,
          LockInstance,
          release_read_locks, PushTask, TasksScheduled, TasksProduced,
          PushShutdownTasks, WaitForAllTasks, FinalizeThrows, Cleanup, MainThrows,
          Unwind, kill_workers, Killed, threads
    <3>2. result' \in {result, "ok", "error", "cancelled"}
      <4>1. CASE Cleanup
        BY <4>1 DEF Cleanup
      <4>2. CASE ~Cleanup
        BY <1>2, <4>2
        DEF Main, Start, acquire_read_locks, LockAllTables, LockTables,
            StartTransaction, TestInterrupt, create_worker_sessions,
            create_worker_threads, initialize_instance_cache, binlog_info,
            LockInstance,
            release_read_locks, PushTask, TasksScheduled, TasksProduced,
            PushShutdownTasks, WaitForAllTasks, FinalizeThrows, MainThrows,
            Unwind, kill_workers, Killed, dump
      <4> QED BY <4>1, <4>2
    <3> QED BY <1>2, <1>b, <3>1, <3>2, MainFrame
  <2>2. Numbers'
    <3>1. failures' = failures \/ (failures < MaxFailures /\ failures' = failures + 1)
      <4>1. CASE MainThrows \/ FinalizeThrows
        BY <4>1 DEF MainThrows, FinalizeThrows
      <4>2. CASE ~(MainThrows \/ FinalizeThrows)
        BY <1>2, <4>2
        DEF Main, Start, acquire_read_locks, LockAllTables, LockTables,
            StartTransaction, TestInterrupt, create_worker_sessions,
            create_worker_threads, initialize_instance_cache, binlog_info,
            LockInstance,
            release_read_locks, PushTask, TasksScheduled, TasksProduced,
            PushShutdownTasks, WaitForAllTasks, Cleanup, Unwind, kill_workers,
            Killed, threads
      <4> QED BY <4>1, <4>2
    <3> QED BY <1>2, <1>b, <1>c, <3>1, MainFrame
  <2>3. Booleans'
    <3>1. early' \in BOOLEAN
      BY <1>2, <1>b, MainFrame
    <3>2. options.backup_admin \in BOOLEAN
      BY <1>d DEF Options
    <3>3. CASE Start \/ acquire_read_locks \/ LockAllTables \/ LockTables
               \/ StartTransaction \/ TestInterrupt \/ create_worker_sessions
               \/ create_worker_threads
      BY <1>b, <3>1, <3>2, <3>3
      DEF Start, acquire_read_locks, LockAllTables, LockTables, StartTransaction,
          TestInterrupt, create_worker_sessions, create_worker_threads, lock_instance,
          progress, locks, dump
    <3>4. CASE initialize_instance_cache \/ binlog_info
               \/ LockInstance \/ release_read_locks
               \/ PushTask \/ TasksScheduled \/ TasksProduced \/ PushShutdownTasks
      BY <1>b, <3>1, <3>2, <3>4
      DEF initialize_instance_cache, binlog_info,
          LockInstance, release_read_locks, PushTask,
          TasksScheduled, TasksProduced, PushShutdownTasks, lock_instance,
          progress, locks, dump
    <3>5. CASE WaitForAllTasks \/ FinalizeThrows \/ Cleanup \/ MainThrows \/ Unwind
               \/ kill_workers \/ Killed
      BY <1>b, <3>1, <3>5
      DEF WaitForAllTasks, FinalizeThrows, Cleanup, MainThrows, Unwind, kill_workers,
          Killed, progress, locks, dump
    <3> QED BY <1>2, <3>3, <3>4, <3>5 DEF Main
  <2> QED BY <2>1, <2>2, <2>3
<1>3. CASE interrupt \/ ExecuteDdl \/ Write
  <2>1. Booleans'
    BY <1>3, <1>b DEF interrupt, ExecuteDdl, Write, user, threads, progress, locks, dump
  <2>2. Numbers'
    BY <1>3, <1>b, <1>c
    DEF interrupt, ExecuteDdl, Write, user, threads, server, dump
  <2>3. Others'
    BY <1>3, <1>b DEF interrupt, ExecuteDdl, Write, user, threads, dump
  <2> QED BY <2>1, <2>2, <2>3
<1>4. CASE abort
  <2>1. early' \in BOOLEAN /\ m_worker_interrupt' = TRUE
    BY <1>4 DEF abort
  <2>2. Booleans'
    BY <1>4, <1>b, <2>1 DEF abort, threads, progress, locks, dump
  <2>3. Numbers' /\ Others'
    BY <1>4, <1>b DEF abort, threads, server, dump
  <2> QED BY <2>2, <2>3
<1>5. CASE UNCHANGED vars
  BY <1>5, <1>b DEF vars, user, threads, progress, server, locks, dump
<1> QED
  BY <1>1, <1>2, <1>3, <1>4, <1>5 DEF Next
-----------------------------------------------------------------------------
(***************************************************************************)
(* Consistent DDL.                                                         *)
(***************************************************************************)

LEMMA VersionsStep ==
  ASSUME IInv, [Next]_vars
  PROVE  Versions'
<1> USE DEF Versions
<1>0. /\ Versions /\ schema_version \in 0 .. MaxDdl /\ MaxDdl \in Nat
      /\ Tables \subseteq Objects
      /\ options.consistent /\ main = "position" => read_lock
  BY DumperAssumption DEF IInv, Flags, Objects, Snapshot, Cached
<1>1. CASE \E w \in Workers : Worker(w)
  BY <1>0, <1>1, WorkerFrame
<1>2. CASE Main
  <2>0. UNCHANGED <<options, schema_version, version>>
    BY <1>2, MainFrame
  <2>1. CASE initialize_instance_cache
    <3>1. cache' = [cache EXCEPT !.built = schema_version]
      BY <2>1 DEF initialize_instance_cache
    <3>2. /\ cache' \in [built : -1 .. MaxDdl, position : -1 .. MaxDdl]
          /\ cache'.built = schema_version /\ cache'.position = cache.position
      BY <1>0, <3>1
    <3> QED BY <1>0, <2>0, <3>2
  <2>2. CASE binlog_info
    <3>1. /\ main = "position" /\ main' # "position"
          /\ cache' = cache \/ cache' = [cache EXCEPT !.position = schema_version]
      BY <2>2 DEF binlog_info, Go
    <3>2. /\ cache' \in [built : -1 .. MaxDdl, position : -1 .. MaxDdl]
          /\ cache'.built = cache.built
          /\ cache'.position \in {cache.position, schema_version}
      BY <1>0, <3>1
    <3> QED BY <1>0, <2>0, <3>1, <3>2
  <2>3. CASE UNCHANGED cache /\ main' # "position"
    BY <1>0, <2>0, <2>3
  <2> QED BY <1>2, <2>1, <2>2, <2>3, MainShows
<1>3. CASE ExecuteDdl
  <2>1. /\ schema_version' = schema_version + 1 /\ schema_version < MaxDdl
        /\ UNCHANGED <<options, main, cache>>
    BY <1>3 DEF ExecuteDdl, dump
  <2>2. CASE UNCHANGED version
    BY <1>0, <2>1, <2>2
  <2>3. ASSUME NEW o \in Objects, o \in Tables => ~read_lock,
               version' = [version EXCEPT ![o] = schema_version + 1]
        PROVE  Versions'
    <3>1. \A x \in Objects : version'[x] = IF x = o THEN schema_version + 1
                                                   ELSE version[x]
      BY <1>0, <2>3
    <3>2. version' \in [Objects -> 0 .. MaxDdl]
      BY <1>0, <2>1, <2>3
    <3>3. \A x \in Objects : version'[x] <= schema_version'
      BY <1>0, <2>1, <3>1
    <3>4. ASSUME options.consistent, NEW t \in Tables
          PROVE  /\ version'[t] <= cache.built \/ version'[t] > cache.position
                 /\ main = "position" => version'[t] <= cache.built
      <4>1. CASE t = o
        BY <1>0, <2>3, <3>1, <3>4, <4>1
      <4>2. CASE t # o
        BY <1>0, <3>1, <3>4, <4>2
      <4> QED BY <4>1, <4>2
    <3> QED BY <1>0, <2>1, <3>2, <3>3, <3>4
  <2> QED BY <1>3, <2>2, <2>3 DEF ExecuteDdl
<1>4. CASE interrupt \/ abort \/ Write \/ UNCHANGED vars
  BY <1>0, <1>4 DEF interrupt, abort, Write, vars, server, dump
<1> QED
  BY <1>1, <1>2, <1>3, <1>4 DEF Next

LEMMA SomethingQueued ==
  ASSUME NEW q \in Queues
  PROVE  (\E p \in Priorities : q[p] # <<>>) <=> \E t : InQueue(q, t)
<1>1. ASSUME NEW p \in Priorities, q[p] # <<>> PROVE \E t : InQueue(q, t)
  <2>1. q[p] \in Seq(WorkTask) /\ 1 \in 1 .. Len(q[p])
    BY <1>1 DEF Queues
  <2> QED BY <2>1 DEF InQueue
<1>2. ASSUME NEW t, InQueue(q, t) PROVE \E p \in Priorities : q[p] # <<>>
  <2>1. PICK p \in Priorities : \E i \in 1 .. Len(q[p]) : q[p][i] = t
    BY <1>2 DEF InQueue
  <2>2. q[p] # <<>>
    BY <2>1
  <2> QED BY <2>2
<1> QED BY <1>1, <1>2

LEMMA WorkerDdl ==
  ASSUME IInv, NEW w \in Workers, Worker(w), options.consistent, options.backup_admin
  PROVE  /\ \A p \in Priorities : m_worker_tasks'[p] # <<>>
              => m_worker_interrupt' \/ Blocked'
         /\ state'[w] = "session" => m_worker_interrupt' \/ Blocked'
         /\ state'[w] = "execute" => Blocked'
         /\ Stale' = {}
<1>1. /\ Blocked' = Blocked /\ ~Ended /\ (m_worker_interrupt => m_worker_interrupt')
      /\ options' = options
  <2>1. Blocked' = Blocked /\ options' = options
    BY WorkerFrame DEF Blocked
  <2>2. ~Ended
    BY WorkerMoves DEF IInv, Threads, Ended
  <2>3. m_worker_interrupt => m_worker_interrupt'
    BY WorkerMoves
  <2> QED BY <2>1, <2>2, <2>3
<1>2. /\ \A p \in Priorities : m_worker_tasks[p] # <<>> => m_worker_interrupt \/ Blocked
      /\ state[w] = "session" => m_worker_interrupt \/ Blocked
      /\ state[w] = "execute" => Blocked
      /\ Stale = {}
  BY <1>1 DEF IInv, DdlLocked
<1>s. Stale' = {}
  <2>1. UNCHANGED cache
    BY WorkerFrame
  <2>2. CASE Shows(w)
    <3>1. PICK y : y = [file |-> task[w], version |-> version[task[w].of]]
      OBVIOUS
    <3>2. cache.built = schema_version /\ y.version <= schema_version
      BY <1>2, <2>2, <3>1 DEF Blocked, Shows, IInv, Versions
    <3>3. y.version \in Nat /\ schema_version \in Nat
      <4>1. y.version = version[task[w].of] /\ task[w].of \in Objects
        BY <2>2, <3>1 DEF Shows
      <4>2. version \in [Objects -> 0 .. MaxDdl] /\ schema_version \in 0 .. MaxDdl
        BY DEF IInv, Versions, Flags
      <4> QED BY <4>1, <4>2
    <3>4. ~(y.version > cache.built)
      BY <3>2, <3>3
    <3>5. shown' = shown \cup {y}
      BY <2>2, <3>1 DEF Shows
    <3> QED BY <1>2, <2>1, <3>4, <3>5 DEF Stale
  <2>3. CASE UNCHANGED shown
    BY <1>2, <2>1, <2>3 DEF Stale
  <2> QED BY <2>2, <2>3, WorkerShows
<1>3. CASE PopTask(w)
  <2>1. PICK t \in WorkTask : Queued(t) /\ m_worker_tasks' \in Queues
                              /\ (\A x : Queued(x)' <=> Queued(x) /\ x # t)
    BY <1>3, PopTaskFacts
  <2>2. \E p \in Priorities : m_worker_tasks[p] # <<>>
    BY <2>1, SomethingQueued, QueuedIsPushed DEF Queued
  <2> QED
    BY <1>1, <1>2, <1>3, <1>s, <2>2, PopTaskFacts
<1>4. CASE PushChunk(w)
  BY <1>1, <1>2, <1>4, <1>s, PushChunkFacts
<1>5. CASE Finishes(w)
  <2>1. state'[w] \notin {"session", "execute"} /\ UNCHANGED m_worker_tasks
    BY <1>5 DEF Finishes, Working, Pending
  <2> QED
    BY <1>1, <1>2, <1>s, <2>1
<1>6. CASE Moves(w)
  <2>1. UNCHANGED m_worker_tasks
    BY <1>6 DEF Moves
  <2> DEFINE Goal == /\ state'[w] # "session"
                     /\ state'[w] = "execute" =>
                          \/ state[w] = "session" /\ ~m_worker_interrupt
                          \/ state[w] = "execute"
  <2>2. Goal
    <3> USE DEF Step, Executes, IInv, Types
    <3>1. CASE PopTask(w)
      BY <1>6, <3>1 DEF PopTask, Moves, Working
    <3>2. CASE PopGuard(w) \/ TakeSession(w) \/ WriteFile(w)
               \/ validate_dump_consistency(w)
      BY <3>2 DEF PopGuard, TakeSession, WriteFile, validate_dump_consistency
    <3>3. CASE PushChunk(w) \/ ChunkingInterrupted(w) \/ CountChunked(w)
               \/ ShutdownWhenProduced(w) \/ FetchRows(w)
      BY <3>3 DEF PushChunk, ChunkingInterrupted, CountChunked, ShutdownWhenProduced,
                  FetchRows
    <3>4. CASE FetchInterrupted(w) \/ FinishWriting(w) \/ checksum_table_data(w)
               \/ NextTask(w) \/ TaskThrows(w) \/ handle_exception(w)
      BY <3>4 DEF FetchInterrupted, FinishWriting, checksum_table_data, NextTask,
                  TaskThrows, handle_exception
    <3> QED
      BY <3>1, <3>2, <3>3, <3>4 DEF Worker
  <2> QED
    BY <1>1, <1>2, <1>s, <2>1, <2>2
<1> QED
  BY <1>3, <1>4, <1>5, <1>6, WorkerKinds

LEMMA DdlLockedStep ==
  ASSUME IInv, [Next]_vars
  PROVE  DdlLocked'
<1> USE DEF DdlLocked, Blocked, Ended
<1>a. options' = options
  BY MainFrame, WorkerFrame DEF Next, interrupt, abort, ExecuteDdl, Write, vars
<1> SUFFICES ASSUME options.consistent, options.backup_admin
             PROVE  DdlLocked'
  BY <1>a
<1>1. CASE \E w \in Workers : Worker(w)
  <2> SUFFICES ASSUME NEW w \in Workers, Worker(w)
               PROVE  DdlLocked'
    BY <1>1
  <2>1. \A v \in Workers : v # w => state'[v] = state[v]
    BY WorkerMoves
  <2>2. m_worker_interrupt => m_worker_interrupt'
    BY WorkerMoves
  <2> QED
    BY <2>1, <2>2, WorkerFrame, WorkerDdl DEF IInv
<1>2. CASE Main
  <2> USE DEF IInv, Go
  <2>0. UNCHANGED <<options, schema_version>>
    BY <1>2, MainFrame
  <2>a. /\ main \in Early => /\ \A p \in Priorities : m_worker_tasks[p] = <<>>
                             /\ \A w \in Workers : state[w] \in {"none", "pop", "exited"}
    BY DEF NothingToDo
  <2>b. Stale' = {}
    <3>1. CASE initialize_instance_cache \/ binlog_info
      <4>1. shown' = {}
        BY <1>2, <3>1, MainShows DEF initialize_instance_cache, binlog_info,
                                     Early, Cached
      <4> QED BY <4>1 DEF Stale
    <3>2. CASE UNCHANGED cache
      BY <1>2, <3>2, MainShows DEF Stale
    <3> QED BY <1>2, <3>1, <3>2, MainShows
  <2>1. CASE Start \/ acquire_read_locks \/ LockAllTables \/ LockTables
             \/ StartTransaction \/ TestInterrupt \/ create_worker_sessions
    BY <2>0, <2>1, <2>a, <2>b
    DEF Start, acquire_read_locks, LockAllTables, LockTables, StartTransaction,
        TestInterrupt, create_worker_sessions, lock_instance, threads, queue, locks,
        dump, Early, Threadless, Unstarted, Snapshotting, Cached, Producing
  <2>2. CASE create_worker_threads
    <3>1. \A v \in Workers : state'[v] \in {state[v], "pop"}
      BY <2>2 DEF create_worker_threads, Types
    <3> QED
      BY <2>0, <2>2, <2>a, <2>b, <3>1
      DEF create_worker_threads, queue, locks, dump, Early, Snapshotting, Cached,
          Producing
  <2>3. CASE initialize_instance_cache \/ binlog_info \/ LockInstance
    <3>1. main \in {"cache"} \cup Cached => cache'.built = schema_version
      <4>1. cache \in [built : -1 .. MaxDdl, position : -1 .. MaxDdl]
        BY DEF Versions
      <4> QED
        BY <2>3, <4>1 DEF initialize_instance_cache, binlog_info,
                          LockInstance, dump,
                          Cached
    <3> QED
      BY <2>0, <2>3, <2>a, <2>b, <3>1
      DEF initialize_instance_cache, binlog_info,
          LockInstance, lock_instance, threads,
          queue, locks, Early, Snapshotting, Cached, Producing
  <2>4. CASE release_read_locks \/ PushTask \/ TasksScheduled \/ TasksProduced
             \/ PushShutdownTasks
    BY <2>0, <2>4, <2>b
    DEF release_read_locks, PushTask, TasksScheduled, TasksProduced,
        PushShutdownTasks, threads, queue, locks, dump, Snapshotting, Cached, Producing
  <2>5. CASE WaitForAllTasks \/ FinalizeThrows \/ MainThrows \/ Unwind \/ kill_workers
    BY <2>0, <2>5, <2>b
    DEF WaitForAllTasks, FinalizeThrows, MainThrows, Unwind, kill_workers, threads,
        queue, locks, dump, Snapshotting, Cached, Producing
  <2>6. CASE Cleanup \/ Killed
    <3>1. \A w \in Workers : state[w] \in {"none", "exited"}
      BY <2>6 DEF Cleanup, Killed, Join, Threads
    <3> QED
      BY <2>0, <2>6, <2>b, <3>1 DEF Cleanup, Killed, Snapshotting, Cached, Producing
  <2> QED
    BY <1>2, <2>1, <2>2, <2>3, <2>4, <2>5, <2>6 DEF Main
<1>3. CASE ExecuteDdl
  <2>1. main \notin Cached
    BY <1>3 DEF ExecuteDdl, IInv, Snapshot
  <2> QED
    BY <1>3, <2>1 DEF ExecuteDdl, IInv, user, threads, queue, locks, dump, Stale
<1>4. CASE interrupt \/ abort \/ Write
  BY <1>4
  DEF interrupt, abort, Write, IInv, user, threads, queue, server, locks, dump, Stale
<1>5. CASE UNCHANGED vars
  BY <1>5 DEF vars, IInv, user, threads, queue, server, locks, dump, Stale
<1> QED
  BY <1>1, <1>2, <1>3, <1>4, <1>5 DEF Next
-----------------------------------------------------------------------------
(***************************************************************************)
(* Every task is in one place.                                             *)
(***************************************************************************)

\* Steps which do not touch the tasks.
Aside ==
    /\ UNCHANGED <<options, m_worker_tasks, pushed, finished, at, task>>
    /\ \A w \in Workers : state'[w] \in Working => state'[w] = state[w]
    /\ \A w \in Workers : state[w] \in Working => state'[w] = state[w]

LEMMA OthersAside ==
  ASSUME IInv, [Next]_vars
  PROVE  (\E w \in Workers : Worker(w)) \/ PushTask \/ Aside
<1> USE DEF Aside, Working
<1>1. CASE Main
  <2> USE MainFrame DEF IInv, Types
  <2>1. CASE Start \/ acquire_read_locks \/ LockAllTables \/ LockTables
             \/ StartTransaction \/ TestInterrupt \/ create_worker_sessions
             \/ initialize_instance_cache \/ binlog_info
             \/ LockInstance \/ release_read_locks
    BY <1>1, <2>1
    DEF Start, acquire_read_locks, LockAllTables, LockTables, StartTransaction,
        TestInterrupt, create_worker_sessions, initialize_instance_cache, binlog_info,
        LockInstance, release_read_locks, threads, queue, progress
  <2>2. CASE create_worker_threads
    <3>1. PICK w \in Workers : /\ w \notin m_workers
                               /\ state' = [state EXCEPT ![w] = "pop"]
      BY <2>2 DEF create_worker_threads, Threads
    <3>2. state[w] \in {"none", "exited"}
      BY <3>1 DEF Threads
    <3> QED
      BY <1>1, <2>2, <3>1, <3>2 DEF create_worker_threads, queue, progress
  <2>3. CASE TasksScheduled \/ TasksProduced \/ PushShutdownTasks \/ WaitForAllTasks
             \/ FinalizeThrows \/ Cleanup \/ MainThrows \/ Unwind \/ kill_workers
             \/ Killed
    BY <1>1, <2>3
    DEF TasksScheduled, TasksProduced, PushShutdownTasks, WaitForAllTasks,
        FinalizeThrows, Cleanup, MainThrows, Unwind, kill_workers, Killed, threads,
        queue, progress
  <2> QED
    BY <1>1, <2>1, <2>2, <2>3 DEF Main
<1>2. CASE interrupt \/ abort \/ ExecuteDdl \/ Write \/ UNCHANGED vars
  BY <1>2 DEF interrupt, abort, ExecuteDdl, Write, vars, threads, queue, progress
<1> QED
  BY <1>1, <1>2 DEF Next

LEMMA PlacesStep ==
  ASSUME IInv, [Next]_vars
  PROVE  Places'
<1> DEFINE QueuedOK == /\ OnePlace(m_worker_tasks)
                       /\ \A t : Queued(t) => t \in pushed \ finished
           WorkingOK(w) == state[w] \in Working =>
                             /\ task[w] \in pushed /\ ~Queued(task[w])
                             /\ \A v \in Workers :
                                  state[v] \in Working /\ task[v] = task[w] => v = w
           PendingOK(w) == /\ state[w] \in Pending => task[w] \notin finished
                           /\ state[w] = "chunked" => task[w].kind = "chunking"
                           /\ state[w] = "finish_writing" => task[w].kind = "data"
           MainOK == \A i \in 1 .. Len(MainTasks) : i <= at <=> MainTasks[i] \in pushed
<1>a. /\ QueuedOK /\ MainOK
      /\ \A w \in Workers : WorkingOK(w) /\ PendingOK(w)
  BY DEF IInv, Places, Queued, InQueue
<1>b. SUFFICES /\ QueuedOK' /\ MainOK'
               /\ \A w \in Workers : WorkingOK(w)' /\ PendingOK(w)'
  BY DEF Places, Queued, InQueue
<1>c. finished \subseteq pushed
  BY DEF IInv, Types
<1>d. Pending \subseteq Working
  BY DEF Pending, Working
<1>1. ASSUME NEW w \in Workers, Worker(w)
      PROVE  /\ QueuedOK' /\ MainOK'
             /\ \A v \in Workers : WorkingOK(v)' /\ PendingOK(v)'
  <2>1. \A v \in Workers : v # w => state'[v] = state[v] /\ task'[v] = task[v]
    BY <1>1, WorkerMoves
  <2>2. MainTasks' = MainTasks /\ at' = at
    BY <1>1, WorkerFrame, SameMainTasks
  <2>3. CASE PopTask(w)
    <3>1. PICK t \in WorkTask :
           /\ Queued(t) /\ t \in pushed \ finished
           /\ m_worker_tasks' \in Queues /\ OnePlace(m_worker_tasks')
           /\ \A x : Queued(x)' <=> Queued(x) /\ x # t
           /\ state'[w] = IF m_worker_interrupt THEN "exited" ELSE "session"
           /\ task'[w] = IF m_worker_interrupt THEN NoTask ELSE t
           /\ UNCHANGED <<pushed, finished>>
      BY <2>3, PopTaskFacts
    <3>2. QueuedOK' /\ MainOK'
      BY <1>a, <2>2, <3>1
    <3>3. ASSUME NEW v \in Workers PROVE WorkingOK(v)' /\ PendingOK(v)'
      <4>1. CASE state'[w] = "exited"
        BY <1>a, <2>1, <3>1, <4>1 DEF Working, Pending
      <4>2. CASE state'[w] = "session"
        <5>1. task'[w] = t /\ ~Queued(t)' /\ t \in pushed' \ finished'
          BY <3>1, <4>2
        <5>2. \A u \in Workers : state[u] \in Working => task[u] # t
          BY <1>a, <3>1
        <5>3. WorkingOK(v)'
          BY <1>a, <2>1, <3>1, <5>1, <5>2
        <5>4. PendingOK(v)'
          BY <1>a, <2>1, <3>1, <4>2, <5>1
        <5> QED BY <5>3, <5>4
      <4> QED BY <3>1, <4>1, <4>2
    <3> QED BY <3>2, <3>3
  <2>4. CASE PushChunk(w)
    <3>1. PICK t \in WorkTask : \E new \in SUBSET WorkTask :
              /\ t = Task("data", task[w].of, Cardinality(DataTasks(task[w].of)))
              /\ new \cap pushed = {}
              /\ pushed' = pushed \cup new
              /\ \A x \in new : x = t \/ x = [t EXCEPT !.kind = "checksum"]
              /\ \A x : Queued(x)' <=> Queued(x) \/ x \in new
      BY <2>4, PushChunkFacts
    <3>2. PICK new \in SUBSET WorkTask :
              /\ t = Task("data", task[w].of, Cardinality(DataTasks(task[w].of)))
              /\ new \cap pushed = {}
              /\ pushed' = pushed \cup new
              /\ \A x \in new : x = t \/ x = [t EXCEPT !.kind = "checksum"]
              /\ \A x : Queued(x)' <=> Queued(x) \/ x \in new
      BY <3>1
    <3>3. \A x \in new : x.kind \in {"data", "checksum"}
      BY <3>2 DEF Task
    <3>4. /\ state[w] = "execute" /\ state'[w] \in {"execute", "chunked"}
          /\ task[w].kind = "chunking" /\ options.data /\ UNCHANGED <<task, finished>>
          /\ OnePlace(m_worker_tasks')
      BY <2>4, PushChunkFacts
    <3>5. QueuedOK'
      BY <1>a, <1>c, <3>2, <3>4
    <3>6. MainOK'
      <4>1. \A i \in 1 .. Len(MainTasks) : MainTasks[i] \notin new
        BY <3>3, <3>4, MainTasksFacts
      <4> QED BY <1>a, <2>2, <3>2, <4>1
    <3>7. ASSUME NEW v \in Workers PROVE WorkingOK(v)' /\ PendingOK(v)'
      <4>1. \A u \in Workers : state'[u] \in Working <=> state[u] \in Working
        BY <2>1, <3>4 DEF Working
      <4>2. WorkingOK(v)'
        BY <1>a, <2>1, <3>2, <3>4, <4>1
      <4>3. PendingOK(v)'
        BY <1>a, <2>1, <3>4 DEF Pending
      <4> QED BY <4>2, <4>3
    <3> QED BY <3>5, <3>6, <3>7
  <2>5. CASE Finishes(w)
    <3>1. /\ state[w] \in Working /\ state[w] \in Pending
          /\ state'[w] \in Working /\ state'[w] \notin Pending
          /\ UNCHANGED <<task, m_worker_tasks, pushed>>
          /\ finished' = finished \cup {task[w]}
      BY <1>d, <2>5 DEF Finishes
    <3>2. \A t : Queued(t)' <=> Queued(t)
      BY <3>1 DEF Queued
    <3>3. QueuedOK' /\ MainOK'
      BY <1>a, <2>2, <3>1, <3>2
    <3>4. ASSUME NEW v \in Workers PROVE WorkingOK(v)' /\ PendingOK(v)'
      <4>1. \A u \in Workers : state'[u] \in Working <=> state[u] \in Working
        BY <2>1, <3>1
      <4>2. WorkingOK(v)'
        BY <1>a, <3>1, <3>2, <4>1
      <4>3. CASE v = w
        BY <3>1, <4>2, <4>3 DEF Pending
      <4>4. CASE v # w
        BY <1>a, <1>d, <2>1, <3>1, <4>2, <4>4
      <4> QED BY <4>3, <4>4
    <3> QED BY <3>3, <3>4
  <2>6. CASE Moves(w)
    <3>1. UNCHANGED <<m_worker_tasks, pushed, finished>>
      BY <2>6 DEF Moves
    <3>2. \A t : Queued(t)' <=> Queued(t)
      BY <3>1 DEF Queued
    <3>3. QueuedOK' /\ MainOK'
      BY <1>a, <2>2, <3>1, <3>2
    <3>4. CASE state'[w] \in {"pop", "exited"}
      <4>1. state'[w] \notin Working /\ state'[w] \notin Pending
        BY <3>4 DEF Working, Pending
      <4> QED
        BY <1>a, <2>1, <3>1, <3>2, <3>3, <3>4, <4>1
    <3>5. CASE ~(state'[w] \in {"pop", "exited"})
      <4>1. /\ state[w] \in Working /\ state'[w] \in Working /\ UNCHANGED task
            /\ state'[w] \in Pending => state[w] \in Pending
            /\ state'[w] = "chunked" => task[w].kind = "chunking"
            /\ state'[w] = "finish_writing" => task[w].kind = "data"
        BY <2>6, <3>5 DEF Moves
      <4>2. \A u \in Workers : state'[u] \in Working <=> state[u] \in Working
        BY <2>1, <4>1
      <4>3. \A v \in Workers : WorkingOK(v)'
        BY <1>a, <3>1, <3>2, <4>1, <4>2
      <4>4. \A v \in Workers : PendingOK(v)'
        BY <1>a, <2>1, <3>1, <4>1
      <4> QED
        BY <3>3, <4>3, <4>4
    <3> QED BY <3>4, <3>5
  <2> QED
    BY <1>1, <2>3, <2>4, <2>5, <2>6, WorkerKinds
<1>2. CASE PushTask
  <2>1. PICK t \in WorkTask :
           /\ t = MainTasks[at + 1] /\ at + 1 \in 1 .. Len(MainTasks)
           /\ t \notin pushed /\ pushed' = pushed \cup {t}
           /\ m_worker_tasks' \in Queues /\ OnePlace(m_worker_tasks')
           /\ \A x : Queued(x)' <=> Queued(x) \/ x = t
    BY <1>2, PushTaskFacts
  <2>2. UNCHANGED <<state, task, finished, options>> /\ at' = at + 1
    BY <1>2 DEF PushTask, threads, MainUnchanged
  <2>3. MainTasks' = MainTasks
    BY <2>2, SameMainTasks
  <2>4. QueuedOK'
    BY <1>a, <1>c, <2>1, <2>2
  <2>5. \A v \in Workers : WorkingOK(v)' /\ PendingOK(v)'
    BY <1>a, <2>1, <2>2
  <2>6. MainOK'
    <3>1. \A i \in 1 .. Len(MainTasks) : MainTasks[i] = t <=> i = at + 1
      BY <2>1, MainTasksFacts
    <3>2. at \in Nat
      BY DEF IInv, Types
    <3>3. \A i \in 1 .. Len(MainTasks) : i <= at + 1 <=> (i <= at \/ i = at + 1)
      BY <3>2
    <3> QED
      BY <1>a, <2>1, <2>2, <2>3, <3>1, <3>3
  <2> QED BY <2>4, <2>5, <2>6
<1>3. CASE Aside
  <2>1. /\ MainTasks' = MainTasks /\ (\A t : Queued(t)' <=> Queued(t))
        /\ UNCHANGED <<m_worker_tasks, pushed, finished, at, task>>
    BY <1>3, SameMainTasks DEF Aside, Queued
  <2>2. \A w \in Workers : /\ state'[w] \in Working => state'[w] = state[w]
                           /\ state'[w] \in Pending \cup {"chunked", "finish_writing"}
                                => state'[w] = state[w]
    BY <1>3 DEF Aside, Working, Pending
  <2>3. QueuedOK' /\ MainOK'
    BY <1>a, <2>1
  <2>4. \A w \in Workers : WorkingOK(w)' /\ PendingOK(w)'
    BY <1>a, <2>1, <2>2
  <2> QED BY <2>3, <2>4
<1> QED
  BY <1>1, <1>2, <1>3, OthersAside

LEMMA ContentsStep ==
  ASSUME IInv, [Next]_vars
  PROVE  Contents'
<1>a. \A t \in pushed :
        /\ t.kind \in {"data", "checksum"} \/ t \in Range(MainTasks)
        /\ t.kind = "data" => options.data /\ t.chunk < Cardinality(DataTasks(t.of))
        /\ t.kind = "checksum" /\ options.data
             => t.chunk < Cardinality(DataTasks(t.of))
  BY DEF IInv, Contents
<1>b. /\ \A o : IsFiniteSet(DataTasks(o)) /\ Cardinality(DataTasks(o)) \in Nat
      /\ \A t \in pushed : t.chunk \in Nat
  <2>1. \A o : IsFiniteSet(DataTasks(o))
    BY FS_Subset DEF DataTasks, IInv, Types
  <2>2. \A t \in pushed : t \in TaskType
    BY DEF IInv, Types, WorkTask
  <2>3. \A t \in TaskType : t.chunk \in Nat
    BY DumperAssumption DEF TaskType
  <2> QED BY <2>1, <2>2, <2>3, FS_CardinalityType
<1>c. options' = options /\ Range(MainTasks)' = Range(MainTasks)
  <2>1. options' = options
    BY MainFrame, WorkerFrame DEF Next, interrupt, abort, ExecuteDdl, Write, vars
  <2> QED BY <2>1, SameMainTasks DEF Range
<1>1. CASE UNCHANGED pushed
  <2>1. \A o : DataTasks(o)' = DataTasks(o)
    BY <1>1 DEF DataTasks
  <2> QED
    BY <1>a, <1>c, <1>1, <2>1 DEF Contents
<1>2. CASE PushTask
  <2>1. PICK t \in WorkTask :
           /\ t = MainTasks[at + 1] /\ at + 1 \in 1 .. Len(MainTasks)
           /\ pushed' = pushed \cup {t}
    BY <1>2, PushTaskFacts
  <2>2. /\ t.kind # "data" /\ (t.kind = "checksum" => ~options.data)
        /\ t \in Range(MainTasks)
    BY <2>1, MainTasksFacts DEF Range
  <2>3. \A o : DataTasks(o)' = DataTasks(o)
    BY <2>1, <2>2 DEF DataTasks
  <2> QED
    BY <1>a, <1>c, <2>1, <2>2, <2>3 DEF Contents
<1>3. ASSUME NEW w \in Workers, PushChunk(w) PROVE Contents'
  <2>1. PICK t \in WorkTask : \E new \in SUBSET WorkTask :
            /\ t = Task("data", task[w].of, Cardinality(DataTasks(task[w].of)))
            /\ t \in new /\ new \cap pushed = {}
            /\ pushed' = pushed \cup new
            /\ \A x \in new : x = t \/ x = [t EXCEPT !.kind = "checksum"]
    BY <1>3, PushChunkFacts
  <2>2. PICK new \in SUBSET WorkTask :
            /\ t = Task("data", task[w].of, Cardinality(DataTasks(task[w].of)))
            /\ t \in new /\ new \cap pushed = {}
            /\ pushed' = pushed \cup new
            /\ \A x \in new : x = t \/ x = [t EXCEPT !.kind = "checksum"]
    BY <2>1
  <2>3. PICK o, n : o = task[w].of /\ n = Cardinality(DataTasks(o))
    OBVIOUS
  <2>4. /\ \A x \in new : /\ x.kind \in {"data", "checksum"}
                          /\ x.of = o /\ x.chunk = n /\ (x.kind = "data" => x = t)
        /\ t.kind = "data" /\ t.of = o
    <3>1. t = [kind |-> "data", of |-> o, chunk |-> n]
      BY <2>2, <2>3 DEF Task
    <3> QED BY <2>2, <3>1
  <2>5. /\ DataTasks(o)' = DataTasks(o) \cup {t} /\ t \notin DataTasks(o)
        /\ \A x : x # o => DataTasks(x)' = DataTasks(x)
    BY <2>2, <2>4 DEF DataTasks
  <2>6. Cardinality(DataTasks(o)') = n + 1 /\ n \in Nat
    <3>1. PICK D : D = DataTasks(o)
      OBVIOUS
    <3>2. Cardinality(D \cup {t}) = Cardinality(D) + 1
      BY <1>b, <2>5, <3>1, FS_AddElement
    <3> QED BY <1>b, <2>3, <2>5, <3>1, <3>2
  <2>7. \A x : /\ Cardinality(DataTasks(x)') \in Nat
               /\ Cardinality(DataTasks(x)') >= Cardinality(DataTasks(x))
    <3> SUFFICES ASSUME NEW x
                 PROVE  /\ Cardinality(DataTasks(x)') \in Nat
                        /\ Cardinality(DataTasks(x)') >= Cardinality(DataTasks(x))
      OBVIOUS
    <3>1. Cardinality(DataTasks(x)) \in Nat
      BY <1>b
    <3>2. CASE x # o
      <4>1. DataTasks(x)' = DataTasks(x)
        BY <2>5, <3>2
      <4> QED BY <3>1, <4>1
    <3>3. CASE x = o
      BY <2>3, <2>6, <3>3
    <3> QED BY <3>2, <3>3
  <2>8. options.data
    BY <1>3, PushChunkFacts
  <2>9. ASSUME NEW x \in pushed'
         PROVE  /\ x.kind \in {"data", "checksum"} \/ x \in Range(MainTasks)
                /\ x.kind \in {"data", "checksum"}
                     => x.chunk < Cardinality(DataTasks(x.of)')
    <3>1. CASE x \in pushed
      BY <1>a, <1>b, <2>7, <2>8, <3>1
    <3>2. CASE x \in new
      <4>1. x.chunk = n /\ x.of = o /\ x.kind \in {"data", "checksum"}
        BY <2>4, <3>2
      <4> QED BY <2>6, <4>1
    <3> QED BY <2>2, <3>1, <3>2
  <2> QED
    BY <1>c, <2>8, <2>9 DEF Contents
<1>4. ASSUME NEW w \in Workers, Worker(w) PROVE PushChunk(w) \/ UNCHANGED pushed
  BY <1>4, WorkerKinds, PopTaskFacts DEF Finishes, Moves
<1> QED
  BY <1>1, <1>2, <1>3, <1>4, OthersAside DEF Aside
-----------------------------------------------------------------------------
(***************************************************************************)
(* No task is forgotten, and no thread exits too early.                    *)
(***************************************************************************)

LEMMA InterruptKept ==
  ASSUME IInv, [Next]_vars, m_worker_interrupt
  PROVE  m_worker_interrupt' \/ Start
<1>1. CASE \E w \in Workers : Worker(w)
  BY <1>1, WorkerMoves
<1>2. CASE Main
  BY <1>2
  DEF Main, acquire_read_locks, LockAllTables, LockTables,
      StartTransaction, TestInterrupt, create_worker_sessions,
      create_worker_threads, initialize_instance_cache, binlog_info, LockInstance,
      release_read_locks, PushTask, TasksScheduled, TasksProduced,
      PushShutdownTasks, WaitForAllTasks, FinalizeThrows, Cleanup, MainThrows,
      Unwind, kill_workers, Killed
<1>3. CASE interrupt \/ abort \/ ExecuteDdl \/ Write \/ UNCHANGED vars
  BY <1>3 DEF interrupt, abort, ExecuteDdl, Write, vars, user
<1> QED
  BY <1>1, <1>2, <1>3 DEF Next

LEMMA AccountedStep ==
  ASSUME IInv, [Next]_vars
  PROVE  Accounted'
<1>1. CASE m_worker_interrupt
  <2>1. CASE Start
    <3>1. pushed' = {}
      BY <2>1 DEF Start, Go, IInv, NothingToDo, Early, Threadless, Unstarted, progress
    <3> QED BY <3>1 DEF Accounted
  <2> QED BY <1>1, <2>1, InterruptKept DEF Accounted
<1>2. CASE \E w \in Workers : state[w] = "throw"
  <2>1. PICK w \in Workers : state[w] = "throw"
    BY <1>2
  <2>2. CASE \E v \in Workers : Worker(v)
    <3>1. PICK v \in Workers : Worker(v)
      BY <2>2
    <3>2. m_worker_interrupt' \/ state'[w] = "throw"
      BY <2>1, <3>1, WorkerMoves
    <3> QED BY <3>2 DEF Accounted
  <2>3. CASE PushTask \/ Aside
    <3>1. state'[w] = "throw"
      BY <2>1, <2>3 DEF PushTask, threads, Aside, Working
    <3> QED BY <3>1 DEF Accounted
  <2> QED BY <2>2, <2>3, OthersAside
<1>3. CASE \A t \in pushed \ finished :
             Queued(t) \/ \E w \in Workers : state[w] \in Pending /\ task[w] = t
  <2>1. ASSUME NEW w \in Workers, Worker(w) PROVE Accounted'
    <3>1. \A v \in Workers : v # w => state'[v] = state[v] /\ task'[v] = task[v]
      BY <2>1, WorkerMoves
    <3>2. CASE m_worker_interrupt' \/ state'[w] = "throw"
      BY <3>2 DEF Accounted
    <3>3. CASE ~m_worker_interrupt' /\ state'[w] # "throw"
      <4>0. SUFFICES ASSUME NEW x \in pushed' \ finished'
                     PROVE  \/ Queued(x)'
                            \/ \E v \in Workers : state'[v] \in Pending /\ task'[v] = x
        BY DEF Accounted
      <4>a. ~m_worker_interrupt
        BY <2>1, <3>3, WorkerMoves
      <4>1. CASE PopTask(w)
        <5>1. PICK t \in WorkTask :
                /\ \A y : Queued(y)' <=> Queued(y) /\ y # t
                /\ state[w] = "pop" /\ state'[w] = "session" /\ task'[w] = t
                /\ UNCHANGED <<pushed, finished>>
          BY <4>1, <4>a, PopTaskFacts
        <5>2. CASE x = t
          BY <5>1, <5>2 DEF Pending
        <5>3. CASE x # t
          BY <1>3, <3>1, <5>1, <5>3 DEF Pending
        <5> QED BY <5>2, <5>3
      <4>2. CASE PushChunk(w)
        <5>1. PICK new \in SUBSET WorkTask :
                /\ pushed' = pushed \cup new
                /\ \A y : Queued(y)' <=> Queued(y) \/ y \in new
          BY <4>2, PushChunkFacts
        <5>2. UNCHANGED <<task, finished>> /\ state'[w] \in Pending
          BY <4>2, PushChunkFacts DEF Pending
        <5> QED BY <1>3, <3>1, <5>1, <5>2
      <4>3. CASE Finishes(w)
        <5>1. /\ UNCHANGED <<task, m_worker_tasks, pushed>>
              /\ finished' = finished \cup {task[w]}
          BY <4>3 DEF Finishes
        <5>2. \A y : Queued(y)' <=> Queued(y)
          BY <5>1 DEF Queued
        <5> QED BY <1>3, <3>1, <5>1, <5>2
      <4>4. CASE Moves(w)
        <5>1. UNCHANGED <<m_worker_tasks, pushed, finished>>
              /\ (state[w] \in Pending => state'[w] \in Pending /\ UNCHANGED task)
          BY <3>3, <4>4 DEF Moves, Pending
        <5>2. \A y : Queued(y)' <=> Queued(y)
          BY <5>1 DEF Queued
        <5> QED BY <1>3, <3>1, <5>1, <5>2
      <4> QED BY <2>1, <4>1, <4>2, <4>3, <4>4, WorkerKinds
    <3> QED BY <3>2, <3>3
  <2>2. CASE PushTask
    <3>1. PICK t \in WorkTask : /\ pushed' = pushed \cup {t}
                                /\ \A x : Queued(x)' <=> Queued(x) \/ x = t
      BY <2>2, PushTaskFacts
    <3>2. UNCHANGED <<state, task, finished>>
      BY <2>2 DEF PushTask, threads
    <3> QED BY <1>3, <3>1, <3>2 DEF Accounted
  <2>3. CASE Aside
    <3>1. UNCHANGED <<pushed, finished, task>> /\ \A t : Queued(t)' <=> Queued(t)
      BY <2>3 DEF Aside, Queued
    <3>2. \A w \in Workers : state[w] \in Pending => state'[w] \in Pending
      BY <2>3 DEF Aside, Pending, Working
    <3> QED BY <1>3, <3>1, <3>2 DEF Accounted
  <2> QED BY <2>1, <2>2, <2>3, OthersAside
<1> QED
  BY <1>1, <1>2, <1>3 DEF IInv, Accounted

\* If as many chunking tasks were counted as done as were created, all of them
\* are done.
LEMMA AllProduced ==
  ASSUME IInv, all_tasks_produced
  PROVE  Produced
<1>1. PICK S : S = {t \in finished : t.kind \in {"chunking"}}
  OBVIOUS
<1>2. PICK T : T = {t \in pushed : t.kind \in {"chunking"}}
  OBVIOUS
<1>3. S \subseteq T /\ IsFiniteSet(T)
  BY <1>1, <1>2, FS_Subset DEF IInv, Types
<1>4. Cardinality(S) = Cardinality(T)
  BY <1>1, <1>2 DEF all_tasks_produced, Completed, Total
<1>5. S = T
  BY <1>3, <1>4, FS_Subset
<1> QED
  BY <1>1, <1>2, <1>5 DEF Produced, all_tasks_produced

LEMMA WorkerExits ==
  ASSUME IInv, NEW w \in Workers, Worker(w), state'[w] = "exited"
  PROVE  \/ m_worker_interrupt'
         \/ PopGuard(w)
<1> USE DEF Step, Executes, IInv, Types
<1>1. CASE PopTask(w) \/ TakeSession(w)
  BY <1>1 DEF PopTask, TakeSession
<1>2. CASE WriteFile(w) \/ validate_dump_consistency(w) \/ PushChunk(w)
           \/ ChunkingInterrupted(w) \/ CountChunked(w) \/ ShutdownWhenProduced(w)
  BY <1>2 DEF WriteFile, validate_dump_consistency, PushChunk, ChunkingInterrupted,
              CountChunked, ShutdownWhenProduced
<1>3. CASE FetchRows(w) \/ FetchInterrupted(w) \/ FinishWriting(w)
           \/ checksum_table_data(w) \/ NextTask(w) \/ TaskThrows(w)
           \/ handle_exception(w)
  BY <1>3 DEF FetchRows, FetchInterrupted, FinishWriting, checksum_table_data,
              NextTask, TaskThrows, handle_exception
<1> QED BY <1>1, <1>2, <1>3 DEF Worker

\* Once all the chunks are produced nothing is pushed any more.
LEMMA ProducedKept ==
  ASSUME IInv, [Next]_vars, Produced
  PROVE  Produced' /\ UNCHANGED pushed /\ ~PushTask /\ \A w \in Workers : ~PushChunk(w)
<1>1. \A w \in Workers : ~PushChunk(w)
  BY PushChunkFacts DEF Produced
<1>2. ~PushTask
  BY DEF PushTask, IInv, ShutDown, Produced
<1>3. UNCHANGED pushed /\ finished \subseteq finished'
  BY <1>1, <1>2, OthersAside, WorkerKinds, PopTaskFacts DEF Aside, Finishes, Moves
<1>4. m_main_thread_finished_producing_chunking_tasks'
  <2>1. CASE \E w \in Workers : Worker(w)
    BY <2>1, WorkerFrame DEF Produced
  <2>2. CASE Main
    BY <2>2
    DEF Main, Start, acquire_read_locks, LockAllTables, LockTables,
        StartTransaction, TestInterrupt, create_worker_sessions,
        create_worker_threads, initialize_instance_cache, binlog_info, LockInstance,
        release_read_locks, PushTask, TasksScheduled, TasksProduced,
        PushShutdownTasks, WaitForAllTasks, FinalizeThrows, Cleanup, MainThrows,
        Unwind, kill_workers, Killed, progress, Produced
  <2>3. CASE interrupt \/ abort \/ ExecuteDdl \/ Write \/ UNCHANGED vars
    BY <2>3 DEF interrupt, abort, ExecuteDdl, Write, vars, progress, Produced
  <2> QED BY <2>1, <2>2, <2>3 DEF Next
<1> QED
  BY <1>1, <1>2, <1>3, <1>4 DEF Produced

LEMMA ShutDownStep ==
  ASSUME IInv, [Next]_vars
  PROVE  ShutDown'
<1> DEFINE NoGuards == main \in Threadless => guards = 0
           Phases == /\ m_main_thread_finished_producing_chunking_tasks
                          => main \notin Early \cup {"push", "produced"}
                     /\ main \in {"produced", "shutdown", "wait"} => at = Len(MainTasks)
           Running == \A w \in Workers : state[w] # "exited"
           Empty == \A p \in Priorities : m_worker_tasks[p] = <<>>
           Exits == /\ m_worker_interrupt \/ (guards = 0 /\ Running) \/ Produced
                    /\ m_worker_interrupt \/ Running \/ Empty
<1>a. NoGuards /\ Phases /\ Exits
  BY DEF IInv, ShutDown
<1>b. SUFFICES NoGuards' /\ Phases' /\ Exits'
  BY DEF ShutDown
<1>c. main \in Threadless => m_workers = {} /\ Running
  BY DEF IInv, Threads
<1>d. options' = options /\ MainTasks' = MainTasks
  <2>1. options' = options
    BY MainFrame, WorkerFrame DEF Next, interrupt, abort, ExecuteDdl, Write, vars
  <2> QED BY <2>1, SameMainTasks
<1>1. ASSUME NEW w \in Workers, Worker(w) PROVE NoGuards' /\ Phases' /\ Exits'
  <2>1. main \notin Threadless
    BY <1>1, WorkerMoves DEF IInv, Threads
  <2>2. NoGuards' /\ Phases'
    BY <1>1, <1>a, <1>d, <2>1, WorkerFrame
  <2>3. Exits'
    <3>1. CASE m_worker_interrupt'
      BY <3>1
    <3>2. CASE ~m_worker_interrupt'
      <4>1. ~m_worker_interrupt /\ state[w] # "throw"
        BY <1>1, <3>2, WorkerMoves
      <4>2. /\ guards \in Nat /\ guards' \in Nat
            /\ guards' > guards => all_tasks_produced
            /\ guards' < guards => PopGuard(w)
        BY <1>1, <4>1, WorkerGuards DEF IInv, Types
      <4>3. \A v \in Workers : v # w => state'[v] = state[v]
        BY <1>1, WorkerMoves
      <4>4. state'[w] = "exited" => PopGuard(w)
        BY <1>1, <3>2, WorkerExits
      <4>5. CASE Produced
        <5>1. Produced' /\ ~PushChunk(w)
          BY <4>5, ProducedKept
        <5>2. Running' \/ Empty'
          <6>1. CASE PopGuard(w)
            <7>1. Empty /\ UNCHANGED m_worker_tasks
              BY <6>1, TopFacts DEF PopGuard
            <7> QED BY <7>1
          <6>2. CASE Running /\ ~PopGuard(w)
            BY <4>3, <4>4, <6>2
          <6>3. CASE ~Running
            <7>1. Empty
              BY <1>a, <4>1, <6>3
            <7>2. ~PopTask(w)
              BY <7>1, TopFacts DEF PopTask
            <7>3. UNCHANGED m_worker_tasks
              BY <1>1, <5>1, <7>2, WorkerKinds DEF Finishes, Moves
            <7> QED BY <7>1, <7>3
          <6> QED BY <6>1, <6>2, <6>3
        <5> QED BY <5>1, <5>2
      <4>6. CASE ~Produced
        <5>1. guards = 0 /\ Running
          BY <1>a, <4>1, <4>6
        <5>2. ~PopGuard(w)
          BY <5>1 DEF PopGuard
        <5>3. Running'
          BY <4>3, <4>4, <5>1, <5>2
        <5>4. ~all_tasks_produced
          BY <4>6, AllProduced
        <5>5. guards' = 0
          BY <4>2, <5>1, <5>2, <5>4
        <5> QED BY <5>3, <5>5
      <4> QED BY <4>5, <4>6
    <3> QED BY <3>1, <3>2
  <2> QED BY <2>2, <2>3
<1>2. CASE Main
  <2> USE DEF Go, Early, Threadless, Unstarted, Snapshotting, Cached
  <2>0. Cardinality(m_workers) \in Nat /\ guards \in Nat
    BY WorkersCounted DEF IInv, Types
  <2>p. Produced => Produced'
    BY ProducedKept
  <2>1. CASE Start
    BY <1>a, <1>c, <1>d, <2>1 DEF Start, threads, queue, progress
  <2>2. CASE acquire_read_locks \/ LockAllTables \/ LockTables
             \/ StartTransaction \/ TestInterrupt \/ create_worker_sessions
             \/ initialize_instance_cache \/ binlog_info
             \/ LockInstance \/ release_read_locks
    <3>1. UNCHANGED <<m_worker_interrupt, state, m_worker_tasks, guards, at,
                      m_main_thread_finished_producing_chunking_tasks>>
      BY <2>2 DEF acquire_read_locks, LockAllTables, LockTables,
        StartTransaction, TestInterrupt, create_worker_sessions,
        initialize_instance_cache, binlog_info,
        LockInstance, release_read_locks, threads, queue,
        progress
    <3>2. Exits'
      BY <1>a, <2>p, <3>1
    <3>3. Phases' /\ NoGuards'
      BY <1>a, <1>d, <2>2, <3>1
      DEF acquire_read_locks, LockAllTables, LockTables,
        StartTransaction, TestInterrupt, create_worker_sessions,
        initialize_instance_cache, binlog_info,
        LockInstance, release_read_locks, IInv, NothingToDo
    <3> QED BY <3>2, <3>3
  <2>3. CASE create_worker_threads
    <3>1. Running => Running'
      BY <2>3 DEF create_worker_threads, IInv, Types
    <3> QED
      BY <1>a, <1>d, <2>3, <2>p, <3>1
      DEF create_worker_threads, queue, progress
  <2>4. CASE PushTask
    <3>1. ~Produced
      BY <2>4, ProducedKept
    <3>2. main = "push" /\ UNCHANGED <<main, m_worker_interrupt, state, guards,
             m_main_thread_finished_producing_chunking_tasks>>
      BY <2>4 DEF PushTask, threads
    <3>3. m_worker_interrupt' \/ (guards' = 0 /\ Running')
      BY <1>a, <3>1, <3>2
    <3> QED BY <1>a, <3>2, <3>3
  <2>5. CASE TasksScheduled \/ TasksProduced
    <3>1. UNCHANGED <<m_worker_interrupt, state, m_worker_tasks, guards, at>>
      BY <2>5 DEF TasksScheduled, TasksProduced, threads, queue
    <3>2. Exits'
      BY <1>a, <2>p, <3>1
    <3>3. Phases' /\ NoGuards'
      BY <1>a, <1>d, <2>5, <3>1 DEF TasksScheduled, TasksProduced
    <3> QED BY <3>2, <3>3
  <2>6. CASE PushShutdownTasks
    <3>1. UNCHANGED <<m_worker_interrupt, state, m_worker_tasks, at,
                      m_main_thread_finished_producing_chunking_tasks>>
      BY <2>6 DEF PushShutdownTasks, threads, progress
    <3>2. guards' = guards \/ Produced
      BY <2>6, AllProduced DEF PushShutdownTasks, maybe_push_shutdown_tasks
    <3>3. Exits'
      BY <1>a, <2>p, <3>1, <3>2
    <3>4. Phases' /\ NoGuards'
      BY <1>a, <1>d, <2>6, <3>1 DEF PushShutdownTasks
    <3> QED BY <3>3, <3>4
  <2>7. CASE WaitForAllTasks \/ FinalizeThrows \/ Cleanup \/ MainThrows \/ Unwind
             \/ Killed
    <3>1. UNCHANGED <<m_worker_interrupt, state, m_worker_tasks, guards, at,
                      m_main_thread_finished_producing_chunking_tasks>>
      BY <2>7 DEF WaitForAllTasks, FinalizeThrows, Cleanup, MainThrows, Unwind, Killed,
                  threads, queue, progress
    <3>2. Exits'
      BY <1>a, <2>p, <3>1
    <3>3. main' \in {"cleanup", "unwind", "kill", "ended"}
      BY <2>7 DEF WaitForAllTasks, FinalizeThrows, Cleanup, MainThrows, Unwind, Killed
    <3>4. Phases' /\ NoGuards'
      BY <3>3
    <3> QED BY <3>2, <3>4
  <2>8. CASE kill_workers
    BY <2>8 DEF kill_workers
  <2> QED
    BY <1>2, <2>1, <2>2, <2>3, <2>4, <2>5, <2>6, <2>7, <2>8 DEF Main
<1>3. CASE abort
  <2>1. main \in Threadless => guards' = 0
    BY <1>3, <1>a, <1>c, FS_EmptySet DEF abort, shutdown
  <2> QED
    BY <1>3, <1>a, <1>d, <2>1 DEF abort, progress
<1>4. CASE interrupt \/ ExecuteDdl \/ Write \/ UNCHANGED vars
  <2>1. UNCHANGED <<main, state, m_worker_tasks, guards, at,
                    m_main_thread_finished_producing_chunking_tasks>>
        /\ (m_worker_interrupt => m_worker_interrupt')
    BY <1>4 DEF interrupt, ExecuteDdl, Write, vars, user, threads, queue, progress
  <2>2. Produced => Produced'
    BY ProducedKept
  <2> QED BY <1>a, <1>d, <2>1, <2>2
<1> QED
  BY <1>1, <1>2, <1>3, <1>4 DEF Next
-----------------------------------------------------------------------------
(***************************************************************************)
(* @.done.json.                                                            *)
(***************************************************************************)

\* When all the threads were joined and nobody was interrupted, everything is done.
LEMMA Complete ==
  ASSUME IInv, main = "wait", Join, ~m_worker_interrupt
  PROVE  /\ AllGone /\ finished = pushed /\ Range(MainTasks) \subseteq pushed
         /\ m_worker_exceptions = {}
<1>1. \A w \in Workers : state[w] = "exited"
  BY DEF Join, IInv, Threads, Producing
<1>2. \E w \in Workers : state[w] = "exited"
  BY <1>1, DumperAssumption
<1>3. \A p \in Priorities : m_worker_tasks[p] = <<>>
  BY <1>2 DEF IInv, ShutDown
<1>4. \A t : ~Queued(t)
  BY <1>3, SomethingQueued, QueuedIsPushed DEF Queued
<1>5. \A t \in pushed \ finished : FALSE
  BY <1>1, <1>4 DEF IInv, Accounted, Pending
<1>6. finished = pushed
  BY <1>5 DEF IInv, Types
<1>7. Range(MainTasks) \subseteq pushed
  <2>1. at = Len(MainTasks)
    BY DEF IInv, ShutDown
  <2>2. ASSUME NEW t \in Range(MainTasks) PROVE t \in pushed
    <3>1. PICK i \in DOMAIN MainTasks : t = MainTasks[i]
      BY <2>2 DEF Range
    <3>2. MainTasks \in Seq(WorkTask)
      BY MainTasksFacts
    <3>3. i \in 1 .. Len(MainTasks) /\ i <= at
      BY <2>1, <3>1, <3>2
    <3> QED BY <3>1, <3>3 DEF IInv, Places
  <2> QED BY <2>2
<1>8. m_worker_exceptions = {}
  BY <1>1 DEF IInv, Results, Flags
<1> QED
  BY <1>1, <1>6, <1>7, <1>8 DEF AllGone

LEMMA FinalizedStep ==
  ASSUME IInv, [Next]_vars
  PROVE  Finalized'
<1>1. ASSUME NEW w \in Workers, Worker(w) PROVE Finalized'
  <2>1. ~AllGone
    BY <1>1, WorkerMoves DEF AllGone
  <2> QED
    BY <1>1, <2>1, WorkerFrame DEF IInv, Finalized
<1>2. CASE Main
  <2> USE DEF Go, Ending
  <2>1. CASE WaitForAllTasks \/ FinalizeThrows
    <3>1. CASE m_worker_interrupt
      BY <2>1, <3>1 DEF WaitForAllTasks, FinalizeThrows, Finalized
    <3>2. CASE ~m_worker_interrupt
      <4>1. /\ AllGone /\ finished = pushed /\ Range(MainTasks) \subseteq pushed
            /\ m_worker_exceptions = {}
        BY <2>1, <3>2, Complete DEF WaitForAllTasks, FinalizeThrows
      <4>2. /\ UNCHANGED <<state, pushed, finished, m_worker_exceptions, options>>
            /\ main' \in Ending
        BY <2>1, <1>2, MainFrame DEF WaitForAllTasks, FinalizeThrows, progress
      <4> QED
        BY <4>1, <4>2, SameMainTasks DEF Finalized, AllGone, DoneMeansComplete, Range
    <3> QED BY <3>1, <3>2
  <2>2. CASE ~(WaitForAllTasks \/ FinalizeThrows)
    <3>1. UNCHANGED done
      BY <1>2, <2>2
      DEF Main, Start, acquire_read_locks, LockAllTables, LockTables,
          StartTransaction, TestInterrupt, create_worker_sessions,
          create_worker_threads, initialize_instance_cache, binlog_info,
          LockInstance,
          release_read_locks, PushTask, TasksScheduled, TasksProduced,
          PushShutdownTasks, Cleanup, MainThrows, Unwind, kill_workers, Killed, dump
    <3>2. CASE ~done
      BY <3>1, <3>2 DEF Finalized
    <3>3. CASE done
      <4>1. main \in Ending /\ AllGone /\ DoneMeansComplete
        BY <3>3 DEF IInv, Finalized
      <4>2. Cleanup \/ Unwind \/ kill_workers \/ Killed
        BY <1>2, <2>2, <4>1
        DEF Main, Start, acquire_read_locks, LockAllTables, LockTables,
          StartTransaction, TestInterrupt, create_worker_sessions,
          create_worker_threads, initialize_instance_cache, binlog_info,
          LockInstance,
          release_read_locks, PushTask, TasksScheduled, TasksProduced,
          PushShutdownTasks, MainThrows
      <4>3. /\ UNCHANGED <<state, pushed, finished, m_worker_exceptions, options>>
            /\ main' \in Ending
        BY <1>2, <4>2, MainFrame DEF Cleanup, Unwind, kill_workers, Killed, progress,
                                     threads
      <4> QED
        BY <3>1, <3>3, <4>1, <4>3, SameMainTasks
        DEF Finalized, AllGone, DoneMeansComplete, Range
    <3> QED BY <3>2, <3>3
  <2> QED BY <2>1, <2>2
<1>3. CASE interrupt \/ abort \/ ExecuteDdl \/ Write \/ UNCHANGED vars
  <2>1. UNCHANGED <<main, state, pushed, finished, m_worker_exceptions, options, done>>
    BY <1>3 DEF interrupt, abort, ExecuteDdl, Write, vars, threads, progress, dump
  <2> QED
    BY <2>1, SameMainTasks DEF IInv, Finalized, AllGone, DoneMeansComplete, Range
<1> QED
  BY <1>1, <1>2, <1>3 DEF Next
-----------------------------------------------------------------------------
(***************************************************************************)
(* The check at the end of the DDL.                                        *)
(***************************************************************************)

LEMMA EachCounted ==
  ASSUME NEW k, NEW S, IsFiniteSet(S)
  PROVE  IsFiniteSet(Each(k, S)) /\ Cardinality(Each(k, S)) = Cardinality(S)
<1> DEFINE f == [x \in S |-> Task(k, x, 0)]
<1>1. f \in [S -> Each(k, S)]
  BY DEF Each
<1>2. \A x, y \in S : f[x] = f[y] => x = y
  BY DEF Task
<1>3. \A t \in Each(k, S) : \E x \in S : f[x] = t
  BY DEF Each
<1>4. ExistsBijection(S, Each(k, S))
  <2> HIDE DEF f
  <2>1. f \in Bijection(S, Each(k, S))
    BY <1>1, <1>2, <1>3 DEF Bijection, Injection, Surjection, IsInjective
  <2> QED BY <2>1 DEF ExistsBijection
<1> QED
  BY <1>4, FS_Bijection

LEMMA AllDdlCounted ==
  /\ IsFiniteSet(AllDdl)
  /\ Cardinality(AllDdl) = Cardinality(Schemas) + Cardinality(Tables)
                             + Cardinality(Views)
<1>1. IsFiniteSet(Schemas) /\ IsFiniteSet(Views) /\ IsFiniteSet(Tables)
  BY DumperAssumption
<1>2. PICK A, B, C : /\ A = Each("schema DDL", Schemas)
                     /\ B = Each("view DDL", Views)
                     /\ C = Each("table DDL", Tables)
  OBVIOUS
<1>3. /\ IsFiniteSet(A) /\ Cardinality(A) = Cardinality(Schemas)
      /\ IsFiniteSet(B) /\ Cardinality(B) = Cardinality(Views)
      /\ IsFiniteSet(C) /\ Cardinality(C) = Cardinality(Tables)
  BY <1>1, <1>2, EachCounted
<1>4. /\ Cardinality(A) \in Nat /\ Cardinality(B) \in Nat /\ Cardinality(C) \in Nat
  BY <1>3, FS_CardinalityType
<1>5. A \cap B = {} /\ (A \cup B) \cap C = {}
  BY <1>2, KindOfEach
<1>6. IsFiniteSet(A \cup B) /\ Cardinality(A \cup B) = Cardinality(A) + Cardinality(B)
  <2>1. Cardinality(A \cap B) = 0
    BY <1>5, FS_EmptySet
  <2>2. /\ IsFiniteSet(A \cup B)
        /\ Cardinality(A \cup B) = Cardinality(A) + Cardinality(B) - Cardinality(A \cap B)
    BY <1>3, FS_Union
  <2> QED BY <1>4, <2>1, <2>2
<1>7. /\ IsFiniteSet((A \cup B) \cup C)
      /\ Cardinality((A \cup B) \cup C) = Cardinality(A \cup B) + Cardinality(C)
  <2>1. PICK D : D = A \cup B
    OBVIOUS
  <2>2. Cardinality(D \cap C) = 0
    BY <1>5, <2>1, FS_EmptySet
  <2>3. /\ IsFiniteSet(D \cup C)
        /\ Cardinality(D \cup C) = Cardinality(D) + Cardinality(C) - Cardinality(D \cap C)
    BY <1>3, <1>6, <2>1, FS_Union
  <2> QED BY <1>4, <1>6, <2>1, <2>2, <2>3
<1>8. AllDdl = (A \cup B) \cup C
  BY <1>2, KindOfDdl
<1> QED
  BY <1>3, <1>4, <1>6, <1>7, <1>8

LEMMA DdlTasks ==
  ASSUME IInv
  PROVE  \A t \in pushed : t.kind \in Ddl => t \in AllDdl
<1> SUFFICES ASSUME NEW t \in pushed, t.kind \in Ddl PROVE t \in AllDdl
  OBVIOUS
<1>1. t \in Range(MainTasks)
  BY DEF IInv, Contents, Ddl
<1>2. MainTasks \in Seq(WorkTask)
  BY MainTasksFacts
<1>3. PICK i \in 1 .. Len(MainTasks) : t = MainTasks[i]
  BY <1>1, <1>2 DEF Range
<1> QED
  BY <1>3, MainTasksFacts

\* The counters say that all the DDL files were written only if they were.
LEMMA CountersTellAll ==
  ASSUME IInv, MustValidate
  PROVE  AllDdl \subseteq finished
<1>1. PICK F : F = {t \in finished : t.kind \in Ddl}
  OBVIOUS
<1>2. F \subseteq AllDdl
  BY <1>1, DdlTasks DEF IInv, Types
<1>3. Cardinality(F) = Cardinality(AllDdl)
  BY <1>1, AllDdlCounted DEF MustValidate, AllFilesWritten, Completed
<1>4. F = AllDdl
  BY <1>2, <1>3, AllDdlCounted, FS_Subset
<1> QED
  BY <1>1, <1>4

\* Nothing that a file shows is newer than the last statement.
LEMMA ShownStep ==
  ASSUME IInv, [Next]_vars
  PROVE  \A x \in shown' :
           /\ x.version <= schema_version'
           /\ options.consistent' /\ x.file.kind = "table DDL" =>
                x.version <= cache.built' \/ x.version > cache.position'
<1> DEFINE Good(x) ==
             /\ x.version <= schema_version
             /\ options.consistent /\ x.file.kind = "table DDL" =>
                  x.version <= cache.built \/ x.version > cache.position
<1>0. \A x \in shown : Good(x)
  BY DEF IInv, Validated
<1>1. ASSUME NEW w \in Workers, Worker(w)
      PROVE  /\ UNCHANGED <<options, schema_version, cache>>
             /\ \A x \in shown' : Good(x)
  <2>1. UNCHANGED <<options, schema_version, cache>>
    BY <1>1, WorkerFrame
  <2>2. CASE Shows(w)
    <3>1. PICK y : y = [file |-> task[w], version |-> version[task[w].of]]
      OBVIOUS
    <3>2. y.file = task[w] /\ y.version = version[task[w].of]
      BY <3>1
    <3>3. shown' = shown \cup {y}
      BY <2>2, <3>1 DEF Shows
    <3>4. Good(y)
      BY <2>2, <3>2 DEF Shows, IInv, Versions
    <3> QED BY <1>0, <2>1, <3>3, <3>4
  <2> QED BY <1>0, <1>1, <2>1, <2>2, WorkerShows
<1>2. CASE Main
  <2>0. UNCHANGED <<options, schema_version, shown>>
    BY <1>2, MainFrame, MainShows
  <2>1. CASE initialize_instance_cache \/ binlog_info
    <3>1. shown = {}
      BY <1>2, <2>1, MainShows
      DEF initialize_instance_cache, binlog_info, Go, Early, Cached
    <3> QED BY <2>0, <3>1
  <2>2. CASE UNCHANGED cache
    BY <1>0, <2>0, <2>2
  <2> QED BY <1>2, <2>1, <2>2, MainShows
<1>3. CASE ExecuteDdl
  <2>1. /\ UNCHANGED <<options, shown, cache>>
        /\ schema_version' = schema_version + 1 /\ schema_version \in 0 .. MaxDdl
        /\ MaxDdl \in Nat
    BY <1>3, DumperAssumption DEF ExecuteDdl, dump, IInv, Flags
  <2>2. \A x \in shown : x.version \in 0 .. MaxDdl
    BY DEF IInv, Types
  <2>3. ASSUME NEW x \in shown PROVE x.version <= schema_version + 1
    <3>1. x.version <= schema_version
      BY <1>0, <2>3
    <3>2. x.version \in Nat /\ schema_version \in Nat
      BY <2>1, <2>2, <2>3
    <3> QED BY <3>1, <3>2
  <2> QED BY <1>0, <2>1, <2>3
<1>4. CASE interrupt \/ abort \/ Write \/ UNCHANGED vars
  BY <1>0, <1>4 DEF interrupt, abort, Write, vars, server, dump
<1> QED
  BY <1>1, <1>2, <1>3, <1>4 DEF Next

\* If the position has not changed, no file is newer than the position.
LEMMA NothingLate ==
  ASSUME IInv, schema_version = cache.position
  PROVE  Late = {}
<1>1. \A x \in shown : x.version <= cache.position /\ x.version \in 0 .. MaxDdl
  BY DEF IInv, Validated, Types
<1>2. cache.position \in -1 .. MaxDdl /\ MaxDdl \in Nat
  BY DumperAssumption DEF IInv, Versions
<1>3. \A x \in shown : ~(x.version > cache.position)
  BY <1>1, <1>2
<1> QED BY <1>3 DEF Late

LEMMA ValidatedStep ==
  ASSUME IInv, [Next]_vars
  PROVE  Validated'
<1> DEFINE Checked ==
             /\ checked => options.consistent
             /\ checked /\ MayFail => \/ m_worker_exceptions # {}
                                      \/ Late = {} /\ AllDdl \subseteq finished
<1> SUFFICES Checked'
  BY ShownStep DEF Validated
<1>a. Checked
  BY DEF IInv, Validated
<1>1. ASSUME NEW w \in Workers, Worker(w) PROVE Checked'
  <2>0. /\ UNCHANGED <<options, schema_version, cache>>
        /\ (m_worker_exceptions # {} => m_worker_exceptions' # {})
        /\ MayFail' = MayFail
    BY <1>1, WorkerFrame, WorkerMoves DEF MayFail
  <2>1. CASE validate_dump_consistency(w)
    <3>1. /\ checked' = (checked \/ MustValidate)
          /\ MustValidate /\ MayFail /\ schema_version # cache.position
               => m_worker_exceptions' # {}
          /\ UNCHANGED <<shown, finished>>
      BY <2>1 DEF validate_dump_consistency, MayFail
    <3>2. Late' = Late
      BY <2>0, <3>1 DEF Late
    <3>3. CASE MustValidate
      <4>1. AllDdl \subseteq finished /\ options.consistent
        BY <3>3, CountersTellAll DEF MustValidate
      <4>2. MayFail => m_worker_exceptions' # {} \/ Late = {}
        BY <3>1, <3>3, NothingLate
      <4> QED
        BY <2>0, <3>1, <3>2, <4>1, <4>2
    <3>4. CASE ~MustValidate
      <4>1. checked' => checked
        BY <3>1, <3>4
      <4> QED
        BY <1>a, <2>0, <3>1, <3>2, <4>1
    <3> QED BY <3>3, <3>4
  <2>2. CASE ~validate_dump_consistency(w)
    <3>1. UNCHANGED checked
      BY <1>1, <2>2
      DEF Worker, PopTask, PopGuard, TakeSession, WriteFile, PushChunk,
          ChunkingInterrupted, CountChunked, ShutdownWhenProduced, FetchRows,
          FetchInterrupted, FinishWriting, checksum_table_data, NextTask, TaskThrows,
          handle_exception
    <3>2. finished \subseteq finished'
      BY <1>1, WorkerKinds, PopTaskFacts, PushChunkFacts DEF Finishes, Moves
    <3>3. AllDdl \subseteq finished => UNCHANGED shown
      BY <1>1, WorkerShows DEF Shows
    <3>4. AllDdl \subseteq finished => Late' = Late
      BY <2>0, <3>3 DEF Late
    <3> QED BY <1>a, <2>0, <3>1, <3>2, <3>4
  <2> QED BY <2>1, <2>2
<1>2. CASE Main
  <2>0. UNCHANGED <<options, m_worker_exceptions, finished, checked>>
    BY <1>2, MainFrame
    DEF Main, Start, acquire_read_locks, LockAllTables, LockTables,
        StartTransaction, TestInterrupt, create_worker_sessions,
        create_worker_threads, initialize_instance_cache, binlog_info, LockInstance,
        release_read_locks, PushTask, TasksScheduled, TasksProduced,
        PushShutdownTasks, WaitForAllTasks, FinalizeThrows, Cleanup, MainThrows,
        Unwind, kill_workers, Killed, threads, progress, dump
  <2>1. Late' = Late \/ Late' = {}
    <3>1. UNCHANGED shown /\ (main \in Early => shown = {})
      BY <1>2, MainShows
    <3>2. CASE initialize_instance_cache \/ binlog_info
      <4>1. shown' = {}
        BY <3>1, <3>2 DEF initialize_instance_cache, binlog_info, Go, Early, Cached
      <4> QED BY <4>1 DEF Late
    <3>3. CASE UNCHANGED cache
      BY <3>1, <3>3 DEF Late
    <3> QED BY <1>2, <3>2, <3>3, MainShows
  <2> QED BY <1>a, <2>0, <2>1 DEF MayFail
<1>3. CASE interrupt \/ abort \/ ExecuteDdl \/ Write \/ UNCHANGED vars
  BY <1>3, <1>a
  DEF interrupt, abort, ExecuteDdl, Write, vars, threads, progress, dump, Late, MayFail
<1> QED
  BY <1>1, <1>2, <1>3 DEF Next
-----------------------------------------------------------------------------
(***************************************************************************)
(* The theorems.                                                           *)
(***************************************************************************)

LEMMA InitHolds == Init => IInv
<1> SUFFICES ASSUME Init PROVE IInv
  OBVIOUS
<1>0. /\ Workers # {} /\ IsFiniteSet(Workers)
      /\ MaxInterrupts \in Nat /\ MaxFailures \in Nat /\ MaxWrites \in Nat
      /\ MaxDdl \in Nat /\ OptionSets \subseteq Options
  BY DumperAssumption
<1>1. options \in Options
  BY <1>0 DEF Init
<1>2. Len(MainTasks) \in Nat
  BY MainTasksFacts
<1>3. options.threads \in Nat \ {0}
  BY <1>0, <1>1, FS_CardinalityType DEF Options
<1>4. NoTask \in TaskType
  BY NoTaskType
<1>5. Types
  <2>1. /\ at \in 0 .. Len(MainTasks) /\ main \in Early
    BY <1>2 DEF Init, Early, Threadless, Unstarted
  <2>2. m_worker_tasks \in [Priorities -> Seq(WorkTask)]
    BY DEF Init
  <2>3. state \in [Workers -> States] /\ task \in [Workers -> TaskType]
        /\ holds \in [Workers -> BOOLEAN]
    BY <1>4 DEF Init, States
  <2>4. IsFiniteSet(pushed)
    BY FS_EmptySet DEF Init
  <2> QED BY <1>1, <2>1, <2>2, <2>3, <2>4 DEF Init, Types
<1>6. Flags
  <2>1. {m_all_table_metadata_tasks_scheduled, m_worker_interrupt, read_lock,
         m_main_thread_finished_producing_chunking_tasks, backup_lock,
         m_ftwrl_used, m_instance_locked, checked, done, early} \subseteq BOOLEAN
    BY DEF Init
  <2>2. /\ interrupts \in 0 .. MaxInterrupts /\ failures \in 0 .. MaxFailures
        /\ writes \in 0 .. MaxWrites /\ schema_version \in 0 .. MaxDdl
    BY <1>0 DEF Init
  <2> QED BY <2>1, <2>2 DEF Init, Flags
<1>v. Versions
  <2>1. Tables \subseteq Objects
    BY DEF Objects
  <2> QED BY <1>0, <2>1 DEF Init, Versions
<1>7. Sessions
  <2>1. Holders = {}
    BY DEF Init, Holders
  <2> QED BY <1>3, <2>1, FS_EmptySet DEF Init, Sessions
<1>8. Threads /\ NothingToDo /\ Snapshot
  BY <1>0 DEF Init, Threads, NothingToDo, Snapshot, Threadless, Unstarted, Snapshotting,
              Cached, Producing
<1>9. Results /\ DdlLocked
  BY <1>0 DEF Init, Results, ResultTruthful, Ended, DdlLocked, Snapshotting, Cached,
              Producing, Stale
<1>10. Places /\ Contents /\ Accounted
  <2>1. \A p \in Priorities : m_worker_tasks[p] = <<>>
    BY DEF Init
  <2>2. OnePlace(m_worker_tasks)
    BY <2>1 DEF OnePlace
  <2>3. \A i \in 1 .. Len(MainTasks) : ~(i <= at)
    BY <1>2 DEF Init
  <2>4. Places
    BY <2>1, <2>2, <2>3 DEF Init, Places, Working, Pending
  <2> QED BY <2>4 DEF Init, Contents, Accounted
<1>11. ShutDown /\ Finalized /\ Validated
  BY DEF Init, ShutDown, Finalized, Validated, Early, Threadless, Unstarted
<1> QED
  BY <1>5, <1>6, <1>v, <1>7, <1>8, <1>9, <1>10, <1>11 DEF IInv

\* The inductive invariant of the dumper holds in every reachable state, whatever
\* the threads, the user and other clients of the server do.
THEOREM Invariance == Spec => []IInv
<1>1. IInv /\ [Next]_vars => IInv'
  <2> SUFFICES ASSUME IInv, [Next]_vars PROVE IInv'
    OBVIOUS
  <2>1. /\ Types' /\ Flags' /\ Versions' /\ Sessions' /\ Threads' /\ NothingToDo'
        /\ Snapshot'
    BY TypesStep, FlagsStep, VersionsStep, SessionsStep, ThreadsStep, NothingToDoStep,
       SnapshotStep
  <2>2. Results' /\ DdlLocked' /\ Places' /\ Contents' /\ Accounted'
    BY ResultsStep, DdlLockedStep, PlacesStep, ContentsStep, AccountedStep
  <2>3. ShutDown' /\ Finalized' /\ Validated'
    BY ShutDownStep, FinalizedStep, ValidatedStep
  <2> QED BY <2>1, <2>2, <2>3 DEF IInv
<1> QED
  BY <1>1, InitHolds, PTL DEF Spec

LEMMA TypesAreRight == IInv => TypeOK
<1> SUFFICES ASSUME IInv PROVE TypeOK
  OBVIOUS
<1>1. Types /\ Flags /\ Versions /\ Sessions /\ Snapshot
  BY DEF IInv
<1>2. /\ m_session_pool \in 0 .. options.threads
      /\ m_session_pool + Cardinality({w \in Workers : holds[w]}) <= options.threads
  <2>1. m_session_pool + Cardinality(Holders) <= options.threads
    BY <1>1 DEF Sessions
  <2>2. m_session_pool \in Nat /\ Cardinality(Holders) \in Nat
    BY <1>1, HoldersFinite DEF Types
  <2>3. options.threads \in Nat
    BY <1>1, DumperAssumption, FS_CardinalityType DEF Types, Options
  <2> QED BY <2>1, <2>2, <2>3 DEF Holders
<1>3. /\ DOMAIN m_worker_tasks = Priorities
      /\ \A p \in Priorities : Range(m_worker_tasks[p]) \subseteq TaskType
  <2>1. m_worker_tasks \in [Priorities -> Seq(WorkTask)]
    BY <1>1 DEF Types
  <2>2. \A s \in Seq(WorkTask) : Range(s) \subseteq TaskType
    BY DEF Range, WorkTask
  <2> QED BY <2>1, <2>2
<1>4. /\ pushed \subseteq TaskType /\ finished \subseteq TaskType
      /\ shown \subseteq [file : TaskType, version : 0 .. MaxDdl]
  <2>1. pushed \subseteq TaskType /\ finished \subseteq TaskType
    BY <1>1 DEF Types, WorkTask
  <2>2. shown \subseteq [file : finished, version : 0 .. MaxDdl]
    BY <1>1 DEF Types
  <2> QED BY <2>1, <2>2
<1>5. snapshots \subseteq 0 .. MaxWrites
  BY <1>1 DEF Snapshot, Flags
<1>6. {m_all_table_metadata_tasks_scheduled, m_worker_interrupt, read_lock,
       m_main_thread_finished_producing_chunking_tasks, backup_lock,
       m_ftwrl_used, m_instance_locked, checked, done, early} \subseteq BOOLEAN
  BY <1>1 DEF Flags
<1>7. /\ m_worker_exceptions \subseteq Workers
      /\ handler \in {"idle", "abort"}
      /\ interrupts \in 0 .. MaxInterrupts /\ failures \in 0 .. MaxFailures
      /\ writes \in 0 .. MaxWrites /\ schema_version \in 0 .. MaxDdl
      /\ version \in [Objects -> 0 .. MaxDdl]
      /\ cache \in [built : -1 .. MaxDdl, position : -1 .. MaxDdl]
      /\ result \in {"none", "ok", "error", "cancelled"}
  BY <1>1 DEF Flags, Versions
<1>8. /\ options \in Options
      /\ main \in {"start", "locks", "lock_all_tables", "lock_tables",
                   "transaction", "test", "sessions", "threads", "cache",
                   "position", "lock_instance", "unlock", "push", "produced",
                   "shutdown", "wait", "cleanup", "unwind", "kill", "kill_wait",
                   "ended"}
      /\ at \in 0 .. Len(MainTasks)
      /\ m_workers \subseteq Workers
      /\ state \in [Workers -> {"none", "pop", "session", "execute", "validate",
                                "chunked", "shutdown", "finish_writing", "next",
                                "throw", "exited"}]
      /\ task \in [Workers -> TaskType]
      /\ holds \in [Workers -> BOOLEAN]
      /\ guards \in Nat
  BY <1>1 DEF Types, Early, Threadless, Unstarted, Snapshotting, Cached, Producing,
              Ending, States
<1> QED
  BY <1>2, <1>3, <1>4, <1>5, <1>6, <1>7, <1>8 DEF TypeOK

\* The transactions of the main session and of all the worker sessions see the
\* same data, and no session is returned to m_session_pool twice, for any number
\* of threads and any commits of other clients.
THEOREM OneSnapshotCorrect == Spec => []OneSnapshot
<1>1. IInv => OneSnapshot
  <2> SUFFICES ASSUME IInv PROVE OneSnapshot
    OBVIOUS
  <2>1. snapshots \subseteq {writes}
    BY DEF IInv, Snapshot
  <2>2. Cardinality(snapshots) <= 1
    <3>1. snapshots = {} \/ snapshots = {writes}
      BY <2>1
    <3>2. Cardinality({}) = 0 /\ Cardinality({writes}) = 1
      BY FS_EmptySet, FS_Singleton
    <3> QED BY <3>1, <3>2
  <2> QED BY <2>2, TypesAreRight DEF OneSnapshot
<1> QED
  BY <1>1, Invariance, PTL

\* DDL files show the schemas as they were cached if DDL is blocked, which it is
\* as long as a task is executed.  Otherwise the check at the end is made once all
\* the DDL files are there, no such file is written after it, and it finds all
\* statements after the position; those on tables are not executed before it, as
\* LOCK TABLES is held.  With skipConsistencyChecks nothing is promised.
THEOREM ConsistentDdlCorrect == Spec => []ConsistentDdl
<1>1. IInv => ConsistentDdl
  <2> SUFFICES ASSUME IInv PROVE ConsistentDdl
    OBVIOUS
  <2>1. DdlBlocked
    BY DEF IInv, DdlLocked, DdlBlocked
  <2>2. ASSUME checked, options.instance, ~options.skip_consistency_checks,
               result = "ok"
        PROVE  Late = {} /\ \A x \in Stale : x.file.kind # "table DDL"
    <3>1. Ended
      BY <2>2 DEF IInv, Results
    <3>2. m_worker_exceptions = {}
      BY <2>2, <3>1 DEF IInv, Results, ResultTruthful
    <3>3. Late = {} /\ options.consistent
      BY <2>2, <3>2 DEF IInv, Validated, MayFail
    <3>4. ASSUME NEW x \in Stale, x.file.kind = "table DDL" PROVE FALSE
      <4>1. x \in shown /\ x.version > cache.built
        BY <3>4 DEF Stale
      <4>2. x.version <= cache.built \/ x.version > cache.position
        BY <3>3, <3>4, <4>1 DEF IInv, Validated
      <4>3. x.version \in Nat /\ cache.built \in Int
        BY <4>1, DumperAssumption DEF IInv, Types, Versions
      <4>4. x.version > cache.position
        BY <4>1, <4>2, <4>3
      <4> QED BY <3>3, <4>1, <4>4 DEF Late
    <3> QED BY <3>3, <3>4
  <2> QED BY <2>1, <2>2 DEF ConsistentDdl, CheckedMeansConsistent
<1> QED
  BY <1>1, Invariance, PTL

\* @.done.json is written only after every task, of the main thread and of the
\* workers, was executed to its end.
THEOREM DoneMeansCompleteCorrect == Spec => []DoneMeansComplete
<1>1. IInv => DoneMeansComplete
  BY DEF IInv, Finalized, DoneMeansComplete
<1> QED
  BY <1>1, Invariance, PTL

\* run() reports success only for a complete dump, and an exception of a worker
\* always as an error.
THEOREM ResultTruthfulCorrect == Spec => []ResultTruthful
<1>1. IInv => ResultTruthful
  BY DEF IInv, Results
<1> QED
  BY <1>1, Invariance, PTL

-----------------------------------------------------------------------------
(***************************************************************************)
(* How a table is split into chunks (Chunking).                            *)
(***************************************************************************)

\* Division with remainder.
LEMMA Remainder ==
  ASSUME NEW x \in Int, NEW w \in Nat, w > 0
  PROVE  /\ x % w \in 0 .. w - 1
         /\ \E k \in Int : x % w = x + k * w
<1>1. x % w \in 0 .. w - 1
  OBVIOUS
<1>2. x \div w \in Int /\ x = w * (x \div w) + (x % w)
  OBVIOUS
<1>3. PICK q \in Int : q = x \div w
  BY <1>2
<1>4. x % w \in Int
  BY <1>1
<1>5. -q \in Int /\ (-q) * w = -(w * q)
  BY <1>3
<1>6. x % w = x + (-q) * w
  BY <1>2, <1>3, <1>4, <1>5
<1> QED
  BY <1>1, <1>5, <1>6

\* Two numbers of an interval as long as w, which differ by a multiple of w, are
\* the same.
LEMMA SameRemainder ==
  ASSUME NEW w \in Nat, w > 0, NEW lo \in Int, NEW x \in Int, NEW y \in Int,
         lo <= x, x < lo + w, lo <= y, y < lo + w,
         NEW k \in Int, y = x + k * w
  PROVE  x = y
<1>1. CASE k = 0
  <2>1. 0 * w = 0
    OBVIOUS
  <2> QED
    BY <1>1, <2>1
<1>2. CASE k > 0
  <2>1. k * w >= w
    <3>1. k - 1 \in Nat
      BY <1>2
    <3>2. (k - 1) * w >= 0
      BY <3>1
    <3>3. k * w = (k - 1) * w + w
      OBVIOUS
    <3> QED
      BY <3>2, <3>3
  <2> QED
    BY <2>1
<1>3. CASE k < 0
  <2>1. k * w <= -w
    <3>1. -k - 1 \in Nat
      BY <1>3
    <3>2. (-k - 1) * w >= 0
      BY <3>1
    <3>3. k * w = -((-k - 1) * w) - w
      OBVIOUS
    <3> QED
      BY <3>2, <3>3
  <2> QED
    BY <2>1
<1> QED
  BY <1>1, <1>2, <1>3

-----------------------------------------------------------------------------
(* Words.                                                                   *)

WordTypes == {"int64_t", "uint64_t"}

IntegerTypes == {"int64_t", "uint64_t", "Decimal"}

\* The limits of a word.
LEMMA WordLimits ==
  ASSUME NEW T \in WordTypes
  PROVE  /\ SignBit \in Nat /\ SignBit >= 3
         /\ Words = 2 * SignBit /\ Words \in Nat /\ Words > 0
         /\ TypeMin(T) \in Int /\ TypeMax(T) \in Int
         /\ TypeMax(T) = TypeMin(T) + Words - 1
         /\ T = "int64_t" => TypeMin(T) = -SignBit /\ TypeMax(T) = SignBit - 1
         /\ T = "uint64_t" => TypeMin(T) = 0 /\ TypeMax(T) = Words - 1
BY ChunkingAssumption DEF WordTypes, Words, TypeMin, TypeMax

\* An operation yields a word which differs from the exact result by a multiple
\* of the number of words...
LEMMA InIsWord ==
  ASSUME NEW T \in WordTypes, NEW x \in Int
  PROVE  /\ In(T, x) \in Int
         /\ TypeMin(T) <= In(T, x) /\ In(T, x) <= TypeMax(T)
         /\ \E k \in Int : In(T, x) = x + k * Words
<1> USE WordLimits
<1>1. PICK y \in Int : y = x - TypeMin(T)
  OBVIOUS
<1>2. y % Words \in 0 .. Words - 1
  BY Remainder
<1>3. PICK k \in Int : y % Words = y + k * Words
  BY Remainder
<1>4. In(T, x) = (y % Words) + TypeMin(T)
  BY <1>1 DEF In, WordTypes
<1>5. k * Words \in Int
  OBVIOUS
<1>6. In(T, x) = x + k * Words
  BY <1>1, <1>3, <1>4, <1>5
<1> QED
  BY <1>2, <1>4, <1>6

\* ... which is unique.
LEMMA InIs ==
  ASSUME NEW T \in WordTypes, NEW x \in Int, NEW y \in Int, NEW k \in Int,
         TypeMin(T) <= y, y <= TypeMax(T), y = x + k * Words
  PROVE  In(T, x) = y
<1> USE WordLimits
<1>1. /\ In(T, x) \in Int
      /\ TypeMin(T) <= In(T, x) /\ In(T, x) < TypeMin(T) + Words
  BY InIsWord
<1>2. PICK j \in Int : In(T, x) = x + j * Words
  BY InIsWord
<1>3. k - j \in Int /\ (k - j) * Words = k * Words - j * Words
  OBVIOUS
<1>4. k * Words \in Int /\ j * Words \in Int
  OBVIOUS
<1>5. y = In(T, x) + (k - j) * Words
  BY <1>2, <1>3, <1>4
<1>6. y < TypeMin(T) + Words
  OBVIOUS
<1> QED
  BY <1>1, <1>3, <1>5, <1>6, SameRemainder

\* Exact, and wrapped once.
LEMMA InExact ==
  ASSUME NEW T \in WordTypes, NEW x \in Int
  PROVE  /\ TypeMin(T) <= x /\ x <= TypeMax(T) => In(T, x) = x
         /\ TypeMax(T) < x /\ x <= TypeMax(T) + Words => In(T, x) = x - Words
         /\ TypeMin(T) - Words <= x /\ x < TypeMin(T) => In(T, x) = x + Words
<1> USE WordLimits
<1>1. x = x + 0 * Words /\ x - Words = x + (-1) * Words
      /\ x + Words = x + 1 * Words
  OBVIOUS
<1>2. 0 \in Int /\ -1 \in Int /\ 1 \in Int
  OBVIOUS
<1>3. ASSUME TypeMin(T) <= x, x <= TypeMax(T) PROVE In(T, x) = x
  BY <1>1, <1>2, <1>3, InIs
<1>4. ASSUME TypeMax(T) < x, x <= TypeMax(T) + Words PROVE In(T, x) = x - Words
  BY <1>1, <1>2, <1>4, InIs
<1>5. ASSUME TypeMin(T) - Words <= x, x < TypeMin(T) PROVE In(T, x) = x + Words
  BY <1>1, <1>2, <1>5, InIs
<1> QED
  BY <1>3, <1>4, <1>5

\* An operand may have wrapped around.
LEMMA InAdd ==
  ASSUME NEW T \in WordTypes, NEW x \in Int, NEW y \in Int
  PROVE  /\ In(T, In(T, x) + y) = In(T, x + y)
         /\ In(T, y + In(T, x)) = In(T, y + x)
         /\ In(T, y - In(T, x)) = In(T, y - x)
<1> USE WordLimits
<1>1. PICK k \in Int : In(T, x) = x + k * Words
  BY InIsWord
<1>2. k * Words \in Int /\ -k \in Int /\ (-k) * Words = -(k * Words)
  OBVIOUS
<1>3. In(T, x) \in Int
  BY InIsWord
<1>4. ASSUME NEW a \in Int, NEW b \in Int, NEW j \in Int, a = b + j * Words
      PROVE  In(T, a) = In(T, b)
  <2>1. PICK i \in Int : In(T, a) = a + i * Words
    BY InIsWord
  <2>2. i + j \in Int /\ (i + j) * Words = i * Words + j * Words
    OBVIOUS
  <2>3. i * Words \in Int /\ j * Words \in Int
    OBVIOUS
  <2>4. In(T, a) = b + (i + j) * Words
    BY <1>4, <2>1, <2>2, <2>3
  <2>5. In(T, a) \in Int /\ TypeMin(T) <= In(T, a) /\ In(T, a) <= TypeMax(T)
    BY InIsWord
  <2> QED
    BY <2>2, <2>4, <2>5, InIs
<1>5. In(T, In(T, x) + y) = In(T, x + y)
  <2>1. In(T, x) + y = (x + y) + k * Words
    BY <1>1, <1>2
  <2> QED
    BY <1>3, <1>4, <2>1
<1>6. In(T, y - In(T, x)) = In(T, y - x)
  <2>1. y - In(T, x) = (y - x) + (-k) * Words
    BY <1>1, <1>2
  <2> QED
    BY <1>2, <1>3, <1>4, <2>1
<1>7. y + In(T, x) = In(T, x) + y /\ y + x = x + y
  BY <1>3
<1> QED
  BY <1>5, <1>6, <1>7

-----------------------------------------------------------------------------
(* The inductive invariant.                                                 *)

SearchRecords ==
    [retry : Nat, i : Nat, left : Int, right : Int, middle : Int, rows : Int,
     delta : Int]

Splitting == pc \in {"step", "retry", "search", "searched"}

Searching == pc \in {"retry", "search", "searched"}

\* Types, with those of the variables ChunkingTypeOK does not name.
ChunkTypes ==
    /\ ChunkingTypeOK
    /\ min \in Int /\ max \in Int /\ current \in Int
    /\ info.row_count = 0 => info.rows_per_chunk > 0
    /\ search \in SearchRecords

\* Each algorithm has its own statements.
Statements ==
    /\ Splitting \/ pc = "failed" => type \in IntegerTypes
    /\ pc = "fetch" => type = "other"
    /\ pc \in {"write", "crashed"} => type = "no_index"

\* The chunk marked as the last one is created when the algorithm ends.
LastAtTheEnd ==
    /\ pc # "done" => chunks.last = 0
    /\ pc = "done" /\ ~interrupted => chunks.last = 1

\* The first and the last key; rows nobody has touched are between them.
FirstAndLastKey ==
    /\ type \in IntegerTypes =>
           /\ TypeMin(type) <= min /\ min <= max
           /\ type # "Decimal" => max <= TypeMax(type)
           /\ rows = {} /\ consistent
    /\ type = "no_index" => consistent /\ max \in 0 .. MaxRows /\ rows = 1 .. max
    /\ consistent => stable = rows
    /\ rows # {} /\ consistent => min \in rows /\ max \in rows
    /\ \A r \in stable : min <= r /\ r <= max

\* Twice the step is more than half of the words of a signed type: it is a
\* negative word.
Wide == type = "int64_t" /\ 2 * estimated_step >= SignBit

\* Twice the step is the size of the whole index, which begins at the least word.
WholeIndex == min = -SignBit /\ 2 * estimated_step = max - min + 1

\* Nothing was chunked so far, or the keys before the current one were, once.  A
\* negative step is only ever used in the first chunk.
Prefix ==
    /\ pc = "chunk_column" =>
           /\ current = min /\ file = 0
           /\ chunks.once = {} /\ chunks.twice = {}
    /\ Splitting =>
           /\ min <= current /\ current <= max
           /\ chunks.once = min .. current - 1 /\ chunks.twice = {}
           /\ ~use_constant_step /\ Wide =>
                  current = min \/ (current >= 0 /\ ~WholeIndex)

\* Where the chunk ends.
LastOf(next_step) ==
    LET new_step == In(type, next_step - 1)
    IN IF current > In(type, max - new_step) THEN max
       ELSE In(type, current + new_step)

-----------------------------------------------------------------------------
(* Steps.                                                                   *)

\* Quotients.
LEMMA Quotient ==
  ASSUME NEW x \in Nat, NEW w \in Nat, w > 0
  PROVE  /\ x \div w \in Nat /\ x \div w <= x
         /\ w >= 2 => 2 * (x \div w) <= x
<1>1. x \div w \in Int /\ x = w * (x \div w) + (x % w)
  OBVIOUS
<1>2. x % w \in 0 .. w - 1
  OBVIOUS
<1>3. PICK q \in Int : q = x \div w
  BY <1>1
<1>4. w * q \in Int /\ x >= w * q /\ x < w * q + w
  BY <1>1, <1>2, <1>3
<1>5. q >= 0
  <2>1. ASSUME q < 0 PROVE FALSE
    <3>1. w * (q + 1) = w * q + w /\ -(q + 1) \in Nat
      BY <2>1
    <3>2. w * (-(q + 1)) >= 0 /\ w * (-(q + 1)) = -(w * (q + 1))
      BY <3>1
    <3> QED
      BY <1>4, <3>1, <3>2
  <2> QED
    BY <2>1
<1>6. w * q >= q
  <2>1. (w - 1) \in Nat /\ q \in Nat
    BY <1>5
  <2>2. (w - 1) * q >= 0 /\ (w - 1) * q = w * q - q
    BY <2>1
  <2> QED
    BY <2>2, <1>4
<1>7. ASSUME w >= 2 PROVE w * q >= 2 * q
  <2>1. (w - 2) \in Nat /\ q \in Nat
    BY <1>5, <1>7
  <2>2. (w - 2) * q >= 0 /\ (w - 2) * q = w * q - 2 * q
    BY <2>1
  <2> QED
    BY <2>2, <1>4
<1> QED
  BY <1>3, <1>4, <1>5, <1>6, <1>7

\* What chunk_integer_column() computes before its loop.
LEMMA Estimates ==
  ASSUME ChunkTypes, FirstAndLastKey, type \in IntegerTypes
  PROVE  /\ info.row_count \in Nat /\ info.rows_per_chunk \in Nat
         /\ accuracy \in Nat
         /\ estimated_step \in Nat /\ estimated_step >= 1
         /\ type \in WordTypes =>
              /\ estimated_step <= TypeMax(type)
              /\ estimated_step - 1 <= max - min
              /\ ~use_constant_step =>
                   /\ estimated_step = 1 \/ 2 * estimated_step <= max - min + 1
                   /\ 2 * estimated_step <= Words - 2
<1>1. info.row_count \in Nat /\ info.rows_per_chunk \in Nat
  BY ChunkingAssumption DEF ChunkTypes, ChunkingTypeOK
<1>2. accuracy \in Nat
  <2>1. info.rows_per_chunk \div 10 \in Nat
    BY <1>1, Quotient
  <2> QED
    BY <2>1 DEF accuracy
<1>3. estimated_chunks \in Nat /\ estimated_chunks >= 1
      /\ (~use_constant_step => estimated_chunks >= 2)
  <2>1. CASE info.rows_per_chunk > 0
    <3>1. info.row_count \div info.rows_per_chunk \in Nat
      BY <1>1, <2>1, Quotient
    <3> QED
      BY <2>1, <3>1 DEF estimated_chunks, AtLeastOne, use_constant_step
  <2>2. CASE info.rows_per_chunk = 0
    BY <1>1, <2>2 DEF estimated_chunks, use_constant_step, ChunkTypes
  <2> QED
    BY <1>1, <2>1, <2>2
<1>4. PICK q \in Nat : /\ q = index_range \div estimated_chunks
                       /\ q <= index_range
                       /\ ~use_constant_step => 2 * q <= index_range
  <2>1. index_range \in Nat
    <3>1. CASE type = "Decimal"
      BY <3>1, ChunkingAssumption
         DEF index_range, distance, ChunkTypes, FirstAndLastKey
    <3>2. CASE type \in WordTypes
      <4>1. (max - min) % Words \in 0 .. Words - 1
        BY <3>2, WordLimits, Remainder DEF ChunkTypes
      <4> QED
        BY <3>2, <4>1, WordLimits DEF index_range, distance, WordTypes
    <3> QED
      BY <3>1, <3>2 DEF IntegerTypes, WordTypes
  <2>2. /\ index_range \div estimated_chunks \in Nat
        /\ index_range \div estimated_chunks <= index_range
        /\ estimated_chunks >= 2 =>
             2 * (index_range \div estimated_chunks) <= index_range
    BY <1>3, <2>1, Quotient
  <2> QED
    BY <1>3, <2>2
<1>5. ensure_not_zero(q) \in Nat /\ ensure_not_zero(q) >= 1
  BY DEF ensure_not_zero
<1>6. estimated_step = cast(type, ensure_not_zero(q))
  BY <1>4 DEF estimated_step
<1>7. CASE type = "Decimal"
  BY <1>1, <1>2, <1>5, <1>6, <1>7 DEF cast, WordTypes
<1>8. CASE type \in WordTypes
  <2>1. index_range \in Nat /\ index_range <= max - min + 1
        /\ index_range <= Words - 1 /\ index_range >= 1
    <3>1. max - min \in 0 .. Words - 1
      <4>1. TypeMin(type) <= min /\ min <= max /\ max <= TypeMax(type)
        BY <1>8 DEF FirstAndLastKey, WordTypes
      <4>2. min \in Int /\ max \in Int
        BY DEF ChunkTypes
      <4> QED
        BY <1>8, <4>1, <4>2, WordLimits
    <3>2. (max - min) % Words = max - min
      BY <1>8, <3>1, WordLimits
    <3> QED
      BY <1>8, <3>1, <3>2, WordLimits DEF index_range, distance, WordTypes
  <2>2. estimated_step \in Nat /\ estimated_step >= 1
        /\ estimated_step <= TypeMax(type)
        /\ estimated_step <= ensure_not_zero(q)
    BY <1>5, <1>6, <1>8, WordLimits DEF cast, WordTypes
  <2>3. min <= max
    BY DEF FirstAndLastKey
  <2>4. q = 0 \/ ensure_not_zero(q) = q
    BY DEF ensure_not_zero
  <2>5. q = 0 => ensure_not_zero(q) = 1
    BY DEF ensure_not_zero
  <2> QED
    BY <1>1, <1>2, <1>4, <1>5, <1>8, <2>1, <2>2, <2>3, <2>4, <2>5, WordLimits
       DEF ChunkTypes
<1> QED
  BY <1>7, <1>8 DEF IntegerTypes, WordTypes


\* The keys of a word type, and the current one.
LEMMA KeysAreWords ==
  ASSUME ChunkTypes, FirstAndLastKey, type \in WordTypes,
         min <= current, current <= max
  PROVE  /\ type \in IntegerTypes /\ type # "Decimal"
         /\ min \in Int /\ max \in Int /\ current \in Int
         /\ TypeMin(type) <= min /\ max <= TypeMax(type)
BY DEF ChunkTypes, FirstAndLastKey, IntegerTypes, WordTypes

\* A constant step is positive.
LEMMA ConstantStep ==
  ASSUME ChunkTypes, FirstAndLastKey, type \in IntegerTypes,
         min <= current, current <= max
  PROVE  LastOf(estimated_step) \in Int /\ LastOf(estimated_step) >= current
<1>1. PICK s \in Nat : s = estimated_step - 1
  BY Estimates
<1>2. min \in Int /\ max \in Int /\ current \in Int
  BY DEF ChunkTypes
<1>3. CASE type = "Decimal"
  <2>1. \A x : In(type, x) = x
    BY <1>3 DEF In
  <2> QED
    BY <1>1, <1>2, <2>1 DEF LastOf
<1>4. CASE type \in WordTypes
  <2>1. s <= max - min /\ s <= TypeMax(type)
    BY <1>1, <1>4, Estimates, WordLimits
  <2>2. In(type, s) = s
    BY <1>4, <2>1, InExact, WordLimits DEF WordTypes
  <2>3. In(type, max - s) = max - s
    BY <1>2, <1>4, <2>1, InExact, KeysAreWords, WordLimits
  <2>4. current <= max - s => In(type, current + s) = current + s
    BY <1>2, <1>4, <2>1, InExact, KeysAreWords, WordLimits
  <2> QED
    BY <1>1, <1>2, <2>2, <2>3, <2>4 DEF LastOf
<1> QED
  BY <1>3, <1>4 DEF IntegerTypes, WordTypes

\* A step which leads to a key that is not before the current one: it may be a
\* negative word, adding it wraps around.
LEMMA StepForward ==
  ASSUME ChunkTypes, FirstAndLastKey, type \in IntegerTypes,
         min <= current, current <= max,
         NEW m \in Int, m >= current, type # "Decimal" => m <= TypeMax(type)
  PROVE  LET last == LastOf(ensure_not_zero(In(type, m - current)))
         IN last \in Int /\ last >= current
<1> DEFINE last == LastOf(ensure_not_zero(In(type, m - current)))
<1>1. min \in Int /\ max \in Int /\ current \in Int
  BY DEF ChunkTypes
<1>2. CASE type = "Decimal"
  <2>1. \A x : In(type, x) = x
    BY <1>2 DEF In
  <2>2. ensure_not_zero(m - current) \in Nat /\ ensure_not_zero(m - current) >= 1
    BY <1>1 DEF ensure_not_zero
  <2> QED
    BY <1>1, <2>1, <2>2 DEF LastOf
<1>3. CASE type \in WordTypes /\ m = current
  <2>1. In(type, 0) = 0
    BY <1>3, InExact, WordLimits DEF WordTypes
  <2>2. ensure_not_zero(In(type, m - current)) - 1 = 0
    BY <1>1, <1>3, <2>1 DEF ensure_not_zero
  <2>3. In(type, current + 0) = current
    BY <1>1, <1>3, InExact, KeysAreWords, WordLimits
  <2>4. In(type, max - 0) = max
    BY <1>1, <1>3, InExact, KeysAreWords, WordLimits
  <2> QED
    BY <1>1, <2>1, <2>2, <2>3, <2>4 DEF LastOf
<1>4. CASE type \in WordTypes /\ m > current
  <2>1. PICK d \in Int : d = m - current
    BY <1>1
  <2>2. d > 0 /\ d <= Words - 1 /\ d <= TypeMax(type) + Words
    <3>1. m <= TypeMax(type) /\ TypeMax(type) >= 0
      BY <1>4, WordLimits DEF WordTypes
    <3>2. TypeMin(type) <= current
      BY <1>1, <1>4, KeysAreWords, WordLimits
    <3> QED
      BY <1>1, <1>4, <2>1, <3>1, <3>2, WordLimits
  <2>3. In(type, d) \in Int /\ In(type, d) # 0
    BY <1>4, <2>2, InExact, WordLimits DEF WordTypes
  <2>4. ensure_not_zero(In(type, d)) = In(type, d)
    BY <2>3 DEF ensure_not_zero
  <2>5. In(type, In(type, d) - 1) = In(type, d - 1)
    <3>1. In(type, d) - 1 = In(type, d) + (-1) /\ d - 1 = d + (-1)
      BY <2>3
    <3> QED
      BY <1>4, <3>1, InAdd
  <2>6. In(type, current + In(type, d - 1)) = In(type, current + (d - 1))
    BY <1>1, <1>4, InAdd
  <2>7. current + (d - 1) = m - 1
    BY <1>1, <2>1
  <2>8. In(type, m - 1) = m - 1
    BY <1>1, <1>4, InExact, KeysAreWords, WordLimits
  <2>9. last = max \/ last = m - 1
    BY <2>1, <2>4, <2>5, <2>6, <2>7, <2>8 DEF LastOf
  <2> QED
    BY <1>1, <1>4, <2>9
<1> QED
  BY <1>1, <1>2, <1>3, <1>4 DEF IntegerTypes, WordTypes


-----------------------------------------------------------------------------
(* The search.                                                              *)

\* The first range of keys, and the step, are so large that right - left is a
\* negative word.
Stalls == Wide /\ current < 0

\* A step which ends the table, or skips all the negative keys.
Lands(middle) ==
    LET last == LastOf(ensure_not_zero(In(type, middle - current)))
    IN last \in Int /\ (last >= max \/ (last >= -1 /\ ~WholeIndex))

\* The range that is being searched.  It may begin before the current key, if
\* the offset has wrapped around.
SearchedRange ==
    /\ search.left <= search.right
    /\ type # "Decimal" =>
           TypeMin(type) <= search.left /\ search.right <= TypeMax(type)
    /\ type = "int64_t" => search.right - search.left < SignBit
    /\ search.left >= current \/ search.left <= current - 2
    /\ search.i = 0 => \/ search.right >= search.left + 2
                       \/ type # "Decimal" /\ search.right = TypeMax(type)
    /\ search.i > 0 => search.right >= current

\* If the range does not stall the search, the key found so far is not before
\* the current one; if it does, the search gives up at once.
SearchForward ==
    Searching =>
        /\ ~use_constant_step
        /\ pc # "retry" => search.retry < k_chunker_retries
        /\ Stalls =>
             \/ /\ search.retry = 0
                /\ search.delta > accuracy /\ search.rows = info.rows_per_chunk
                /\ pc = "search" =>
                       /\ search.i = 0 /\ search.left = current
                       /\ search.right = sum(type, current, double_step)
                /\ pc = "searched" => Lands(search.middle)
             \/ /\ pc = "retry" /\ search.retry = k_chunker_retries
                /\ Lands(search.middle)
        /\ ~Stalls =>
             /\ search.middle >= current
             /\ type # "Decimal" => search.middle <= TypeMax(type)
             /\ Wide => /\ search.retry \in {0, 1, k_chunker_retries}
                        /\ pc # "retry" => search.retry = 0
             /\ pc = "search" => SearchedRange

\* The range is as long as two steps, or ends at the largest word.
LEMMA RangeOf ==
  ASSUME ChunkTypes, FirstAndLastKey, type \in WordTypes, ~use_constant_step,
         NEW left \in Int, TypeMin(type) <= left, left <= TypeMax(type)
  PROVE  sum(type, left, double_step) =
           IF left + 2 * estimated_step >= TypeMax(type) THEN TypeMax(type)
           ELSE left + 2 * estimated_step
<1>1. type \in IntegerTypes /\ type # "Decimal"
  BY DEF IntegerTypes, WordTypes
<1>2. PICK d \in Nat : d = 2 * estimated_step /\ d <= Words - 2
  BY <1>1, Estimates
<1>3. double_step = In(type, d)
  BY <1>2 DEF double_step
<1>4. In(type, TypeMax(type) - double_step) = TypeMax(type) - d
  <2>1. In(type, TypeMax(type) - In(type, d)) = In(type, TypeMax(type) - d)
    <3>1. TypeMax(type) \in Int /\ d \in Int
      BY WordLimits
    <3> QED
      BY <3>1, InAdd
  <2>2. In(type, TypeMax(type) - d) = TypeMax(type) - d
    BY <1>2, InExact, WordLimits
  <2> QED
    BY <1>3, <2>1, <2>2
<1>5. In(type, left + double_step) = In(type, left + d)
  BY <1>3, InAdd
<1>6. left + d < TypeMax(type) => In(type, left + d) = left + d
  BY InExact, WordLimits
<1> QED
  BY <1>1, <1>2, <1>4, <1>5, <1>6, WordLimits DEF sum

\* The offset of a range is even.
LEMMA EvenOffset ==
  ASSUME ChunkTypes, FirstAndLastKey, type \in WordTypes, current \in Int
  PROVE  /\ Offset \in Int
         /\ \E h \in Int : In(type, current + Offset) = current + 2 * h
<1> USE WordLimits
<1>1. PICK s \in Nat : s = estimated_step
  BY Estimates DEF IntegerTypes, WordTypes
<1>2. search.retry \in Nat
  BY DEF ChunkTypes, SearchRecords
<1>3. PICK k \in Int : double_step = 2 * s + k * Words
  BY <1>1, InIsWord DEF double_step
<1>4. PICK a \in Int : double_step = 2 * a
  <2>1. s + k * SignBit \in Int /\ k * Words = 2 * (k * SignBit) /\ k * SignBit \in Int
    OBVIOUS
  <2>2. double_step = 2 * (s + k * SignBit)
    BY <1>3, <2>1
  <2> QED
    BY <2>1, <2>2
<1>5. PICK x \in Int : search.retry * double_step = 2 * x
  <2>1. search.retry * a \in Int
    BY <1>2
  <2>2. search.retry * (2 * a) = 2 * (search.retry * a)
    BY <1>2
  <2> QED
    BY <1>4, <2>1, <2>2
<1>6. PICK j \in Int : Offset = 2 * x + j * Words
  <2>1. Offset = In(type, 2 * x)
    BY <1>5 DEF Offset
  <2> QED
    BY <2>1, InIsWord
<1>7. PICK b \in Int : Offset = 2 * b
  <2>1. j * Words = 2 * (j * SignBit) /\ j * SignBit \in Int
    OBVIOUS
  <2>2. x + j * SignBit \in Int /\ Offset = 2 * (x + j * SignBit)
    BY <1>6, <2>1
  <2> QED
    BY <2>2
<1>8. PICK i \in Int : In(type, current + Offset) = current + 2 * b + i * Words
  BY <1>7, InIsWord
<1>9. b + i * SignBit \in Int /\ i * Words = 2 * (i * SignBit) /\ i * SignBit \in Int
  OBVIOUS
<1>10. In(type, current + Offset) = current + 2 * (b + i * SignBit)
  BY <1>8, <1>9
<1> QED
  BY <1>7, <1>9, <1>10


\* The range which is searched next.
LEMMA RetriedRange ==
  ASSUME ChunkTypes, FirstAndLastKey, type \in IntegerTypes,
         min <= current, current <= max, ~use_constant_step,
         Wide => search.retry = 0 /\ current >= 0
  PROVE  LET left == In(type, current + Offset)
             right == sum(type, left, double_step)
         IN /\ left \in Int /\ right \in Int /\ left <= right
            /\ type # "Decimal" => TypeMin(type) <= left /\ right <= TypeMax(type)
            /\ type = "int64_t" => right - left < SignBit
            /\ left >= current \/ left <= current - 2
            /\ \/ right >= left + 2
               \/ type # "Decimal" /\ right = TypeMax(type)
<1> DEFINE left == In(type, current + Offset)
           right == sum(type, left, double_step)
<1>1. min \in Int /\ max \in Int /\ current \in Int /\ search.retry \in Nat
  BY DEF ChunkTypes, SearchRecords
<1>2. PICK s \in Nat : s = estimated_step /\ s >= 1
  BY Estimates
<1>3. CASE type = "Decimal"
  <2>1. \A x : In(type, x) = x
    BY <1>3 DEF In
  <2>2. PICK o \in Nat : o = Offset
    <3>1. search.retry * (2 * s) \in Nat
      BY <1>1
    <3> QED
      BY <1>2, <2>1, <3>1 DEF Offset, double_step
  <2>3. left = current + o /\ right = current + o + 2 * s
    BY <1>1, <1>2, <1>3, <2>1, <2>2 DEF sum, double_step
  <2> QED
    BY <1>1, <1>2, <1>3, <2>3
<1>4. CASE type \in WordTypes
  <2>1. left \in Int /\ TypeMin(type) <= left /\ left <= TypeMax(type)
    BY <1>1, <1>4, EvenOffset, InIsWord
  <2>2. left >= current \/ left <= current - 2
    <3>1. PICK h \in Int : left = current + 2 * h
      BY <1>1, <1>4, EvenOffset
    <3> QED
      BY <1>1, <3>1
  <2>3. right = IF left + 2 * s >= TypeMax(type) THEN TypeMax(type) ELSE left + 2 * s
    BY <1>2, <1>4, <2>1, RangeOf
  <2>4. type = "int64_t" => right - left < SignBit
    <3>1. CASE type = "int64_t" /\ ~Wide
      BY <1>2, <1>4, <2>1, <2>3, <3>1, WordLimits DEF Wide
    <3>2. CASE type = "int64_t" /\ Wide
      <4>1. Offset = 0
        <5>1. In(type, 0) = 0
          BY <1>4, InExact, WordLimits DEF WordTypes
        <5>2. double_step \in Int
          BY <1>2, <1>4, InIsWord DEF double_step
        <5> QED
          BY <3>2, <5>1, <5>2 DEF Offset
      <4>2. left = current
        BY <1>1, <1>4, <4>1, InExact, KeysAreWords, WordLimits
      <4> QED
        BY <1>1, <1>2, <1>4, <2>3, <3>2, <4>2, WordLimits
    <3> QED
      BY <3>1, <3>2
  <2>5. /\ right \in Int /\ left <= right /\ right <= TypeMax(type)
        /\ right >= left + 2 \/ right = TypeMax(type)
    BY <1>2, <1>4, <2>1, <2>3, WordLimits
  <2>6. type # "Decimal"
    BY <1>4 DEF WordTypes
  <2> QED
    BY <2>1, <2>2, <2>4, <2>5, <2>6
<1> QED
  BY <1>3, <1>4 DEF IntegerTypes, WordTypes

\* The middle of the range that is being searched.
LEMMA HalfWay ==
  ASSUME ChunkTypes, type \in IntegerTypes, SearchedRange
  PROVE  /\ Middle \in Int
         /\ 2 * (Middle - search.left) <= search.right - search.left
         /\ search.right - search.left <= 2 * (Middle - search.left) + 1
<1>1. search.left \in Int /\ search.right \in Int
  BY DEF ChunkTypes, SearchRecords
<1>2. PICK d \in Nat : d = search.right - search.left
  BY <1>1 DEF SearchedRange
<1>3. PICK h \in Nat : h = d \div 2 /\ 2 * h <= d /\ d <= 2 * h + 1
  OBVIOUS
<1>4. Middle = search.left + h
  <2>1. CASE type = "Decimal"
    BY <1>1, <1>2, <1>3, <2>1 DEF Middle, In, Half
  <2>2. CASE type \in WordTypes
    <3>1. TypeMin(type) <= search.left /\ search.right <= TypeMax(type)
      BY <2>2 DEF SearchedRange, WordTypes
    <3>2. d <= TypeMax(type) /\ TypeMin(type) <= 0
      <4>1. CASE type = "int64_t"
        BY <1>1, <1>2, <2>2, <4>1, WordLimits DEF SearchedRange
      <4>2. CASE type = "uint64_t"
        BY <1>1, <1>2, <2>2, <3>1, <4>2, WordLimits
      <4> QED
        BY <2>2, <4>1, <4>2 DEF WordTypes
    <3>3. In(type, d) = d
      BY <2>2, <3>2, InExact, WordLimits
    <3>4. Half(d) = h
      BY <1>3 DEF Half
    <3>5. In(type, search.left + h) = search.left + h
      BY <1>1, <1>2, <1>3, <2>2, <3>1, InExact, WordLimits
    <3> QED
      BY <1>2, <3>3, <3>4, <3>5 DEF Middle
  <2> QED
    BY <2>1, <2>2 DEF IntegerTypes, WordTypes
<1> QED
  BY <1>1, <1>2, <1>3, <1>4


\* A range which stalls the search: the middle is before it, or behind it.  The
\* step which leads there ends the table, or skips all the negative keys.
LEMMA Stalled ==
  ASSUME ChunkTypes, FirstAndLastKey, min <= current, current <= max,
         ~use_constant_step, Stalls, current = min,
         search.left = current, search.right = sum(type, current, double_step)
  PROVE  /\ Middle \in Int
         /\ ~(search.left < Middle /\ Middle < search.right)
         /\ Lands(Middle)
<1>1. type = "int64_t" /\ type \in WordTypes /\ type \in IntegerTypes
  BY DEF Stalls, Wide, WordTypes, IntegerTypes
<1>2. /\ SignBit \in Nat /\ SignBit >= 3 /\ Words = 2 * SignBit
      /\ TypeMin(type) = -SignBit /\ TypeMax(type) = SignBit - 1
  BY <1>1, WordLimits
<1>3. /\ min \in Int /\ max \in Int /\ current \in Int
      /\ -SignBit <= current /\ current < 0 /\ max <= SignBit - 1
  BY <1>1, <1>2, KeysAreWords DEF Stalls
<1>4. PICK e \in Nat : /\ e = 2 * estimated_step
                       /\ SignBit <= e /\ e <= Words - 2 /\ e <= max - current + 1
  BY <1>1, <1>2, <1>3, Estimates DEF Stalls, Wide
<1>5. PICK d \in Nat : /\ search.right = current + d
                       /\ SignBit <= d /\ d <= e
                       /\ d = e \/ current + d = SignBit - 1
  <2>1. search.right = IF current + e >= SignBit - 1 THEN SignBit - 1 ELSE current + e
    BY <1>1, <1>2, <1>3, <1>4, RangeOf
  <2>2. search.right - current \in Nat
    BY <1>2, <1>3, <1>4, <2>1
  <2> QED
    BY <1>2, <1>3, <1>4, <2>1, <2>2
<1>6. PICK m \in Nat : /\ m = (Words - d) \div 2
                       /\ 2 * m <= Words - d /\ Words - d <= 2 * m + 1
  BY <1>2, <1>4, <1>5
<1>7. m >= 1 /\ m + 1 <= SignBit
  BY <1>2, <1>4, <1>5, <1>6
<1>8. Half(In(type, search.right - search.left)) = -m
  <2>1. In(type, d) = d - Words
    BY <1>1, <1>2, <1>4, <1>5, InExact
  <2>2. d - Words < 0 /\ -(d - Words) = Words - d
    BY <1>2, <1>4, <1>5
  <2>3. Half(d - Words) = -m
    BY <1>2, <1>6, <2>2 DEF Half
  <2>4. search.right - search.left = d
    BY <1>3, <1>5
  <2> QED
    BY <2>1, <2>3, <2>4
<1>9. Middle = In(type, current - m)
  BY <1>3, <1>8 DEF Middle
<1>10. Middle \in Int
  BY <1>1, <1>3, <1>9, InIsWord
<1>11. ~(search.left < Middle /\ Middle < search.right)
  <2>1. current - m >= -SignBit => Middle = current - m
    BY <1>1, <1>2, <1>3, <1>9, InExact
  <2>2. current - m < -SignBit => Middle = current - m + Words
    BY <1>1, <1>2, <1>3, <1>7, <1>9, InExact
  <2> QED
    BY <1>2, <1>3, <1>5, <1>6, <2>1, <2>2
<1> DEFINE last == LastOf(ensure_not_zero(In(type, Middle - current)))
<1>12. last = IF current > In(type, max + m + 1) THEN max
              ELSE In(type, current - m - 1)
  <2>1. In(type, Middle - current) = -m
    <3>1. In(type, In(type, current - m) + (-current))
            = In(type, (current - m) + (-current))
      <4>1. PICK a \in Int : a = current - m
        BY <1>3
      <4>2. PICK b \in Int : b = -current
        BY <1>3
      <4>3. In(type, In(type, a) + b) = In(type, a + b)
        BY <1>1, InAdd
      <4> QED
        BY <4>1, <4>2, <4>3
    <3>2. (current - m) + (-current) = -m /\ Middle + (-current) = Middle - current
      BY <1>3, <1>10
    <3>3. In(type, -m) = -m
      BY <1>1, <1>2, <1>7, InExact
    <3> QED
      BY <1>9, <3>1, <3>2, <3>3
  <2>2. ensure_not_zero(-m) = -m
    BY <1>7 DEF ensure_not_zero
  <2>3. In(type, -m - 1) = -m - 1
    BY <1>1, <1>2, <1>7, InExact
  <2>4. max - (-m - 1) = max + m + 1 /\ current + (-m - 1) = current - m - 1
    BY <1>3
  <2> QED
    BY <2>1, <2>2, <2>3, <2>4 DEF LastOf
<1>13. /\ max + m + 1 <= SignBit - 1 => In(type, max + m + 1) = max + m + 1
       /\ max + m + 1 > SignBit - 1 => In(type, max + m + 1) = max + m + 1 - Words
  BY <1>1, <1>2, <1>3, <1>7, InExact
<1>14. /\ current - m - 1 >= -SignBit => In(type, current - m - 1) = current - m - 1
       /\ current - m - 1 < -SignBit =>
            In(type, current - m - 1) = current - m - 1 + Words
  BY <1>1, <1>2, <1>3, <1>7, InExact
<1>15. \/ last = max
       \/ last = current - m - 1 + Words
  BY <1>2, <1>3, <1>4, <1>5, <1>6, <1>12, <1>13, <1>14
<1>16. ASSUME last = current - m - 1 + Words
       PROVE  last \in Int /\ last >= -1 /\ (WholeIndex => last >= max)
  <2>1. last \in Int /\ last >= -1
    BY <1>2, <1>3, <1>7, <1>16
  <2>2. ASSUME WholeIndex PROVE last >= max
    <3>1. e = max - current + 1 /\ current = -SignBit
      BY <1>4, <2>2 DEF WholeIndex
    <3> QED
      BY <1>2, <1>3, <1>4, <1>5, <1>6, <1>16, <3>1
  <2> QED
    BY <2>1, <2>2
<1>17. Lands(Middle)
  BY <1>3, <1>15, <1>16 DEF Lands
<1> QED
  BY <1>10, <1>11, <1>17


-----------------------------------------------------------------------------
\* Rows of any other index before the current one are in a chunk, and in no
\* other one if the rows do not change.
FetchedPrefix ==
    pc = "fetch" =>
        /\ consistent =>
             /\ current \in rows /\ chunks.twice = {}
             /\ chunks.once = {r \in rows : r < current}
        /\ \A r \in stable : r < current => r \in chunks.once

\* Rows before the first one of the file that is open were written.
WrittenPrefix ==
    pc = "write" =>
        /\ 1 <= current /\ current <= max + 1
        /\ 0 <= file /\ file <= current
        /\ chunks.twice = {}
        /\ chunks.once = 1 .. (IF file = 0 THEN current ELSE file) - 1

ChunkInv ==
    /\ ChunkTypes /\ Statements /\ LastAtTheEnd /\ FirstAndLastKey /\ Prefix
    /\ SearchForward /\ FetchedPrefix /\ WrittenPrefix /\ EachRowOnce

\* What is computed from the index and the statistics does not change.
LEMMA SameEstimates ==
  ASSUME input' = input
  PROVE  /\ type' = type /\ info' = info /\ consistent' = consistent
         /\ min' = min /\ max' = max
         /\ estimated_step' = estimated_step /\ accuracy' = accuracy
         /\ double_step' = double_step
         /\ (use_constant_step)' <=> use_constant_step
         /\ Wide' <=> Wide
         /\ WholeIndex' <=> WholeIndex
<1>1. /\ type' = type /\ info' = info /\ consistent' = consistent
      /\ min' = min /\ max' = max
  BY DEF input
<1>2. estimated_step' = estimated_step /\ accuracy' = accuracy
  BY <1>1 DEF estimated_step, estimated_chunks, index_range, accuracy
<1>3. (use_constant_step)' <=> use_constant_step
  BY <1>1 DEF use_constant_step, estimated_chunks, index_range
<1> QED
  BY <1>1, <1>2, <1>3 DEF Wide, WholeIndex, double_step

\* The step which is examined does not change.
LEMMA SameLanding ==
  ASSUME input' = input, current' = current, NEW m, (search.middle)' = m
  PROVE  Lands(search.middle)' <=> Lands(m)
BY SameEstimates DEF Lands, LastOf

\* The parts of the invariant which a step of the search cannot disturb.
LEMMA SearchStep ==
  ASSUME ChunkInv, Splitting, pc' \in {"retry", "search", "searched", "failed"},
         UNCHANGED <<input, table, current, file, chunks, interrupted>>,
         search' \in SearchRecords,
         search'.retry \in 0 .. k_chunker_retries,
         search'.i \in 0 .. k_chunker_iterations,
         SearchForward'
  PROVE  ChunkInv'
<1>1. /\ type' = type /\ info' = info /\ consistent' = consistent
      /\ min' = min /\ max' = max /\ rows' = rows /\ stable' = stable
      /\ changes' = changes /\ current' = current /\ file' = file
      /\ chunks' = chunks /\ interrupted' = interrupted
  BY DEF input, table
<1>2. ChunkTypes'
  BY <1>1 DEF ChunkInv, ChunkTypes, ChunkingTypeOK
<1>3. Statements'
  BY <1>1 DEF ChunkInv, Statements, Splitting
<1>4. LastAtTheEnd'
  BY <1>1 DEF ChunkInv, LastAtTheEnd, Splitting
<1>5. FirstAndLastKey'
  BY <1>1 DEF ChunkInv, FirstAndLastKey
<1>6. Prefix'
  BY <1>1, SameEstimates DEF ChunkInv, Prefix, Splitting
<1>7. FetchedPrefix' /\ WrittenPrefix' /\ EachRowOnce'
  BY DEF FetchedPrefix, WrittenPrefix, EachRowOnce, Chunked
<1> QED
  BY <1>2, <1>3, <1>4, <1>5, <1>6, <1>7 DEF ChunkInv


\* What a step of the search can rely on.
LEMMA SearchFacts ==
  ASSUME ChunkInv, Splitting
  PROVE  /\ ChunkTypes /\ FirstAndLastKey /\ type \in IntegerTypes
         /\ min \in Int /\ max \in Int /\ current \in Int
         /\ min <= current /\ current <= max
         /\ accuracy \in Nat /\ info.rows_per_chunk \in Nat
         /\ k_chunker_retries \in Nat /\ k_chunker_retries >= 1
         /\ k_chunker_iterations \in Nat /\ k_chunker_iterations >= 1
         /\ search \in SearchRecords
         /\ search.retry \in 0 .. k_chunker_retries
         /\ search.i \in 0 .. k_chunker_iterations
         /\ type # "Decimal" =>
              /\ type \in WordTypes /\ TypeMax(type) \in Int
              /\ current <= TypeMax(type) /\ max <= TypeMax(type)
<1>1. type \in IntegerTypes
  BY DEF ChunkInv, Statements
<1>2. accuracy \in Nat /\ info.rows_per_chunk \in Nat
  BY <1>1, Estimates DEF ChunkInv
<1>3. ChunkTypes /\ FirstAndLastKey
  BY DEF ChunkInv
<1>4. min <= current /\ current <= max
  BY DEF ChunkInv, Prefix
<1>5. /\ min \in Int /\ max \in Int /\ current \in Int
      /\ search \in SearchRecords
      /\ search.retry \in 0 .. k_chunker_retries
      /\ search.i \in 0 .. k_chunker_iterations
  BY <1>3 DEF ChunkTypes, ChunkingTypeOK
<1>6. ASSUME type # "Decimal"
      PROVE  /\ type \in WordTypes /\ TypeMax(type) \in Int
             /\ current <= TypeMax(type) /\ max <= TypeMax(type)
  <2>1. type \in WordTypes
    BY <1>1, <1>6 DEF IntegerTypes, WordTypes
  <2> QED
    BY <1>3, <1>4, <1>5, <2>1, KeysAreWords, WordLimits
<1>7. /\ k_chunker_retries \in Nat /\ k_chunker_retries >= 1
      /\ k_chunker_iterations \in Nat /\ k_chunker_iterations >= 1
  BY ChunkingAssumption
<1> QED
  BY <1>1, <1>2, <1>3, <1>4, <1>5, <1>6, <1>7

LEMMA AdaptiveStepKeeps == ChunkInv /\ adaptive_step => ChunkInv'
<1> SUFFICES ASSUME ChunkInv, adaptive_step PROVE ChunkInv'
  OBVIOUS
<1>1. /\ pc = "step" /\ pc' = "retry" /\ Splitting
      /\ input' = input /\ current' = current
      /\ ~use_constant_step
      /\ UNCHANGED <<input, table, current, file, chunks, interrupted>>
  BY DEF adaptive_step, Splitting
<1>2. search' = [NoSearch EXCEPT !.middle = current, !.delta = accuracy + 1,
                                 !.rows = info.rows_per_chunk]
  BY DEF adaptive_step
<1>4. search' = [retry |-> 0, i |-> 0, left |-> 0, right |-> 0,
                 middle |-> current, rows |-> info.rows_per_chunk,
                 delta |-> accuracy + 1]
  BY <1>2 DEF NoSearch
<1>5. /\ search'.retry = 0 /\ search'.i = 0 /\ search'.middle = current
      /\ search'.rows = info.rows_per_chunk /\ search'.delta = accuracy + 1
  BY <1>4
<1>6. search' \in SearchRecords
  BY <1>1, <1>4, SearchFacts DEF SearchRecords
<1>7. Stalls' <=> Stalls
  BY <1>1, SameEstimates DEF Stalls
<1>8. SearchForward'
  <2>1. accuracy + 1 > accuracy /\ accuracy' = accuracy /\ info' = info
        /\ current >= current /\ type' = type
    BY <1>1, SameEstimates, SearchFacts
  <2>2. type # "Decimal" => current <= TypeMax(type)
    BY <1>1, SearchFacts
  <2> QED
    BY <1>1, <1>5, <1>7, <2>1, <2>2, SameEstimates DEF SearchForward
<1> QED
  BY <1>1, <1>5, <1>6, <1>8, SearchFacts, SearchStep

\* A range which stalls the search is the first one of the table.
LEMMA StallsFirst ==
  ASSUME ChunkInv, Splitting, ~use_constant_step, Stalls
  PROVE  current = min
BY SearchFacts DEF ChunkInv, Prefix, Stalls

\* Otherwise the second range is not searched if steps are negative words.
LEMMA WideForward ==
  ASSUME ChunkInv, Splitting, ~use_constant_step, Wide, ~Stalls
  PROVE  /\ current >= 0
         /\ search.retry = 1 => In(type, max - Offset) <= current
<1>1. type \in WordTypes /\ type = "int64_t" /\ type \in IntegerTypes
  BY DEF Wide, WordTypes, IntegerTypes
<1>2. current >= 0
  BY SearchFacts DEF Stalls
<1>3. ~WholeIndex
  BY <1>1, <1>2, WordLimits, SearchFacts DEF ChunkInv, Prefix, WholeIndex
<1>4. PICK e \in Nat : /\ e = 2 * estimated_step
                       /\ SignBit <= e /\ e <= max - min + 1
  <2>1. /\ estimated_step \in Nat
        /\ estimated_step = 1 \/ 2 * estimated_step <= max - min + 1
    BY <1>1, SearchFacts, Estimates
  <2>2. 2 * estimated_step >= SignBit /\ SignBit >= 3 /\ SignBit \in Nat
    BY <1>1, WordLimits DEF Wide
  <2> QED
    BY <2>1, <2>2
<1>5. ASSUME search.retry = 1 PROVE In(type, max - Offset) <= current
  <2>1. double_step = In(type, e) /\ double_step \in Int
    BY <1>1, <1>4, InIsWord DEF double_step
  <2>2. Offset = double_step
    <3>1. TypeMin(type) <= double_step /\ double_step <= TypeMax(type)
      BY <1>1, <1>4, <2>1, InIsWord
    <3>2. In(type, double_step) = double_step
      BY <1>1, <2>1, <3>1, InExact
    <3>3. search.retry * double_step = double_step
      BY <1>5, <2>1
    <3> QED
      BY <3>2, <3>3 DEF Offset
  <2>3. In(type, max - Offset) = In(type, max - e)
    <3>1. max \in Int
      BY SearchFacts
    <3>2. In(type, max - In(type, e)) = In(type, max - e)
      <4>1. e \in Int
        OBVIOUS
      <4> QED
        BY <1>1, <3>1, <4>1, InAdd
    <3> QED
      BY <2>1, <2>2, <3>2
  <2>4. max - e >= -SignBit
    <3>1. min >= -SignBit /\ min \in Int /\ max \in Int
      BY <1>1, SearchFacts, KeysAreWords, WordLimits
    <3>2. ~(min = -SignBit /\ e = max - min + 1)
      BY <1>3, <1>4 DEF WholeIndex
    <3> QED
      BY <1>1, <1>4, <3>1, <3>2, WordLimits
  <2>5. max - e <= -1
    BY <1>1, <1>4, SearchFacts, WordLimits
  <2>6. In(type, max - e) = max - e
    BY <1>1, <1>4, <2>4, <2>5, InExact, SearchFacts, WordLimits
  <2> QED
    BY <1>2, <1>4, <2>3, <2>5, <2>6, SearchFacts
<1> QED
  BY <1>2, <1>5


LEMMA RetryKeeps == ChunkInv /\ Retry => ChunkInv'
<1> SUFFICES ASSUME ChunkInv, Retry PROVE ChunkInv'
  OBVIOUS
<1> DEFINE left == In(type, current + Offset)
           right == sum(type, left, double_step)
<1>1. /\ pc = "retry" /\ pc' = "search" /\ Splitting /\ Searching
      /\ search.delta > accuracy /\ search.retry < k_chunker_retries
      /\ In(type, max - Offset) > current
      /\ search' = [search EXCEPT !.i = 0, !.left = left, !.right = right]
      /\ input' = input /\ current' = current
      /\ UNCHANGED <<input, table, current, file, chunks, interrupted>>
  BY DEF Retry, Splitting, Searching
<1>2. ~use_constant_step
  BY <1>1 DEF ChunkInv, SearchForward
<1>3. Stalls' <=> Stalls
  BY <1>1, SameEstimates DEF Stalls
<1>4. /\ search'.i = 0 /\ search'.left = left /\ search'.right = right
      /\ search'.retry = search.retry /\ search'.middle = search.middle
      /\ search'.rows = search.rows /\ search'.delta = search.delta
  BY <1>1, SearchFacts DEF SearchRecords
<1>5. CASE Stalls
  <2>1. /\ search.retry = 0 /\ search.delta > accuracy
        /\ search.rows = info.rows_per_chunk
    BY <1>1, <1>5, SearchFacts DEF ChunkInv, SearchForward
  <2>2. type \in WordTypes /\ type = "int64_t"
    BY <1>5 DEF Stalls, Wide, WordTypes
  <2>3. /\ current \in Int /\ TypeMin(type) <= current /\ current <= TypeMax(type)
        /\ k_chunker_retries \in Nat /\ k_chunker_retries >= 1
    <3>1. /\ current \in Int /\ min \in Int /\ min <= current
          /\ current <= TypeMax(type) /\ ChunkTypes /\ FirstAndLastKey
          /\ current <= max /\ k_chunker_retries \in Nat /\ k_chunker_retries >= 1
      BY <1>1, <2>2, SearchFacts
    <3> QED
      BY <2>2, <3>1, KeysAreWords, WordLimits
  <2>4. left = current
    <3>1. double_step \in Int
      BY <1>1, <2>2, Estimates, InIsWord, SearchFacts DEF double_step
    <3>2. Offset = 0
      <4>1. In(type, 0) = 0
        BY <2>2, InExact, WordLimits
      <4> QED
        BY <2>1, <3>1, <4>1 DEF Offset
    <3>3. In(type, current) = current
      BY <2>2, <2>3, InExact
    <3> QED
      BY <2>3, <3>2, <3>3
  <2>5. right \in Int
    <3>1. /\ TypeMax(type) \in Int /\ estimated_step \in Nat
      BY <1>1, <2>2, Estimates, WordLimits, SearchFacts
    <3> QED
      BY <1>1, <1>2, <2>2, <2>3, <2>4, <3>1, RangeOf, SearchFacts
  <2>6. search' \in SearchRecords
    BY <1>1, <2>3, <2>4, <2>5, SearchFacts DEF SearchRecords
  <2>7. SearchForward'
    BY <1>1, <1>2, <1>3, <1>4, <1>5, <2>1, <2>4, SameEstimates DEF SearchForward
  <2> QED
    BY <1>1, <1>4, <2>6, <2>7, SearchFacts, SearchStep
<1>6. CASE ~Stalls
  <2>1. /\ search.middle >= current
        /\ type # "Decimal" => search.middle <= TypeMax(type)
        /\ Wide => search.retry \in {0, 1, k_chunker_retries}
    BY <1>1, <1>6 DEF ChunkInv, SearchForward
  <2>2. Wide => search.retry = 0 /\ current >= 0
    <3>1. ASSUME Wide PROVE search.retry = 0 /\ current >= 0
      <4>1. current >= 0 /\ (search.retry = 1 => In(type, max - Offset) <= current)
        BY <1>1, <1>2, <1>6, <3>1, WideForward
      <4>2. In(type, max - Offset) \in Int
        <5>1. type \in WordTypes
          BY <3>1 DEF Wide, WordTypes
        <5>2. max - Offset \in Int
          BY <1>1, <5>1, EvenOffset, SearchFacts
        <5> QED
          BY <5>1, <5>2, InIsWord
      <4> QED
        BY <1>1, <2>1, <3>1, <4>1, <4>2, SearchFacts
    <3> QED
      BY <3>1
  <2>3. /\ left \in Int /\ right \in Int /\ left <= right
        /\ type # "Decimal" => TypeMin(type) <= left /\ right <= TypeMax(type)
        /\ type = "int64_t" => right - left < SignBit
        /\ left >= current \/ left <= current - 2
        /\ \/ right >= left + 2
           \/ type # "Decimal" /\ right = TypeMax(type)
    BY <1>1, <1>2, <2>2, RetriedRange, SearchFacts
  <2>4. search' \in SearchRecords
    BY <1>1, <2>3, SearchFacts DEF SearchRecords
  <2>5. type' = type /\ current' = current
    BY <1>1, SameEstimates
  <2>6. SearchedRange'
    BY <1>4, <2>3, <2>5 DEF SearchedRange
  <2>7. SearchForward'
    BY <1>1, <1>2, <1>3, <1>4, <1>6, <2>1, <2>2, <2>6, SameEstimates
       DEF SearchForward
  <2> QED
    BY <1>1, <1>4, <2>4, <2>7, SearchFacts, SearchStep
<1> QED
  BY <1>5, <1>6


\* What EXPLAIN answers is a number.
LEMMA AnswersAreNumbers ==
  ASSUME info.rows_per_chunk \in Nat, accuracy \in Nat
  PROVE  Answers \subseteq Int
BY DEF Answers, AlmostEnough

\* A range that can be bisected does not stall the search.
LEMMA BisectingForward ==
  ASSUME ChunkInv, pc = "search", search.left < Middle, Middle < search.right
  PROVE  /\ Splitting /\ ~use_constant_step /\ ~Stalls /\ SearchedRange
         /\ Middle \in Int /\ search.left \in Int /\ search.right \in Int
         /\ search.retry < k_chunker_retries
         /\ Wide => search.retry = 0
<1>1. Splitting /\ Searching
  BY DEF Splitting, Searching
<1>2. ~use_constant_step /\ search.retry < k_chunker_retries
  BY <1>1 DEF ChunkInv, SearchForward
<1>3. ~Stalls
  <2>1. ASSUME Stalls PROVE FALSE
    <3>1. search.left = current /\ search.right = sum(type, current, double_step)
      BY <1>1, <2>1 DEF ChunkInv, SearchForward
    <3>2. current = min
      BY <1>1, <1>2, <2>1, StallsFirst
    <3> QED
      BY <1>1, <1>2, <2>1, <3>1, <3>2, Stalled, SearchFacts
  <2> QED
    BY <2>1
<1>4. SearchedRange /\ (Wide => search.retry = 0)
  BY <1>1, <1>3 DEF ChunkInv, SearchForward
<1>5. Middle \in Int
  BY <1>1, <1>4, HalfWay, SearchFacts
<1>6. search.left \in Int /\ search.right \in Int
  BY <1>1, SearchFacts DEF SearchRecords
<1> QED
  BY <1>1, <1>2, <1>3, <1>4, <1>5, <1>6

LEMMA NarrowKeeps == ChunkInv /\ Narrow => ChunkInv'
<1> SUFFICES ASSUME ChunkInv, Narrow PROVE ChunkInv'
  OBVIOUS
<1>0. PICK n \in Answers :
        search' = [search EXCEPT
                     !.middle = Middle, !.rows = n,
                     !.delta = Gap(n, info.rows_per_chunk), !.i = @ + 1,
                     !.left = IF n > info.rows_per_chunk THEN @ ELSE Middle,
                     !.right = IF n > info.rows_per_chunk THEN Middle ELSE @]
  BY DEF Narrow
<1> DEFINE more == n > info.rows_per_chunk
           delta == Gap(n, info.rows_per_chunk)
<1>1. /\ pc = "search" /\ pc' \in {"search", "searched"} /\ Splitting
      /\ search.i < k_chunker_iterations /\ current <= Middle
      /\ search.left < Middle /\ Middle < search.right
      /\ input' = input /\ current' = current
      /\ UNCHANGED <<input, table, current, file, chunks, interrupted>>
  BY DEF Narrow, Bisecting, Splitting
<1>2. search' = [search EXCEPT
                    !.middle = Middle, !.rows = n, !.delta = delta,
                    !.i = @ + 1,
                    !.left = IF more THEN @ ELSE Middle,
                    !.right = IF more THEN Middle ELSE @]
  BY <1>0
<1>3. /\ ~use_constant_step /\ ~Stalls /\ SearchedRange
      /\ Middle \in Int /\ search.left \in Int /\ search.right \in Int
      /\ search.retry < k_chunker_retries
      /\ Wide => search.retry = 0
  BY <1>1, BisectingForward
<1>4. n \in Int /\ delta \in Int
  BY <1>1, AnswersAreNumbers, SearchFacts DEF Gap
<1>5. search' = [search EXCEPT
                    !.middle = Middle, !.rows = n, !.delta = delta,
                    !.i = search.i + 1,
                    !.left = IF more THEN search.left ELSE Middle,
                    !.right = IF more THEN Middle ELSE search.right]
  BY <1>1, <1>2, SearchFacts DEF SearchRecords
<1>6. /\ search'.i = search.i + 1 /\ search'.retry = search.retry
      /\ search'.middle = Middle
      /\ search'.left = IF more THEN search.left ELSE Middle
      /\ search'.right = IF more THEN Middle ELSE search.right
  BY <1>1, <1>5, SearchFacts DEF SearchRecords
<1>7. search' \in SearchRecords
  <2>1. PICK a \in Int : a = IF more THEN search.left ELSE Middle
    BY <1>3
  <2>2. PICK b \in Int : b = IF more THEN Middle ELSE search.right
    BY <1>3
  <2>3. PICK k \in Nat : k = search.i + 1
    BY <1>1, SearchFacts DEF SearchRecords
  <2>4. search' = [search EXCEPT
                     !.middle = Middle, !.rows = n, !.delta = delta,
                     !.i = k, !.left = a, !.right = b]
    BY <1>5, <2>1, <2>2, <2>3
  <2> HIDE DEF delta
  <2> QED
    BY <1>1, <1>3, <1>4, <2>4, SearchFacts DEF SearchRecords
<1>8. Stalls' <=> Stalls
  BY <1>1, SameEstimates DEF Stalls
<1>9. type # "Decimal" =>
        /\ TypeMin(type) \in Int /\ TypeMax(type) \in Int
        /\ TypeMin(type) <= search.left /\ search.right <= TypeMax(type)
  BY <1>1, <1>3, SearchFacts, WordLimits DEF SearchedRange
<1>10. search.i \in Nat /\ current \in Int /\ SignBit \in Int
  BY <1>1, SearchFacts, ChunkingAssumption
<1>11. SearchedRange'
  <2>1. type' = type /\ current' = current
    BY <1>1, SameEstimates
  <2>2. CASE more
    BY <1>1, <1>3, <1>6, <1>9, <1>10, <2>1, <2>2 DEF SearchedRange
  <2>3. CASE ~more
    BY <1>1, <1>3, <1>6, <1>9, <1>10, <2>1, <2>3 DEF SearchedRange
  <2> QED
    BY <2>2, <2>3
<1>12. SearchForward'
  <2>1. type # "Decimal" => Middle <= TypeMax(type)
    BY <1>1, <1>3, <1>9
  <2> QED
    BY <1>1, <1>3, <1>6, <1>8, <1>11, <2>1, SameEstimates DEF SearchForward
<1> QED
  BY <1>1, <1>3, <1>6, <1>7, <1>12, SearchFacts, SearchStep

LEMMA SkipRangeKeeps == ChunkInv /\ SkipRange => ChunkInv'
<1> SUFFICES ASSUME ChunkInv, SkipRange PROVE ChunkInv'
  OBVIOUS
<1>1. /\ pc = "search" /\ pc' = "searched" /\ Splitting
      /\ current <= Middle /\ search.left < Middle /\ Middle < search.right
      /\ input' = input /\ current' = current
      /\ UNCHANGED <<input, table, current, file, chunks, interrupted>>
  BY DEF SkipRange, Bisecting, Splitting
<1>0. PICK n, total \in Answers :
        search' = [search EXCEPT !.middle = search.right, !.rows = n,
                                 !.delta = info.rows_per_chunk - total]
  BY DEF SkipRange
<1>2. /\ ~use_constant_step /\ ~Stalls /\ SearchedRange
      /\ Middle \in Int /\ search.left \in Int /\ search.right \in Int
      /\ search.retry < k_chunker_retries
      /\ Wide => search.retry = 0
  BY <1>1, BisectingForward
<1>3. n \in Int /\ info.rows_per_chunk - total \in Int
  BY <1>1, AnswersAreNumbers, SearchFacts
<1>4. /\ search'.i = search.i /\ search'.retry = search.retry
      /\ search'.middle = search.right
  BY <1>0, <1>1, SearchFacts DEF SearchRecords
<1>5. search' \in SearchRecords
  BY <1>0, <1>1, <1>2, <1>3, SearchFacts DEF SearchRecords
<1>6. Stalls' <=> Stalls
  BY <1>1, SameEstimates DEF Stalls
<1>7. /\ search.right >= current
      /\ type # "Decimal" => search.right <= TypeMax(type)
  BY <1>1, <1>2, SearchFacts DEF SearchedRange
<1>8. SearchForward'
  BY <1>1, <1>2, <1>4, <1>6, <1>7, SameEstimates DEF SearchForward
<1> QED
  BY <1>1, <1>4, <1>5, <1>8, SearchFacts, SearchStep

LEMMA ImpossibleRangeKeeps == ChunkInv /\ ImpossibleRange => ChunkInv'
<1> SUFFICES ASSUME ChunkInv, ImpossibleRange PROVE ChunkInv'
  OBVIOUS
<1>1. /\ Splitting /\ pc' = "failed" /\ search' = search
      /\ UNCHANGED <<input, table, current, file, chunks, interrupted>>
  BY DEF ImpossibleRange, Splitting
<1>2. SearchForward'
  BY <1>1 DEF SearchForward, Searching
<1> QED
  BY <1>1, <1>2, SearchFacts, SearchStep


LEMMA EndSearchKeeps == ChunkInv /\ EndSearch => ChunkInv'
<1> SUFFICES ASSUME ChunkInv, EndSearch PROVE ChunkInv'
  OBVIOUS
<1>1. /\ pc = "search" /\ pc' = "searched" /\ Splitting /\ Searching /\ ~Bisecting
      /\ input' = input /\ current' = current
      /\ UNCHANGED <<input, table, current, file, chunks, interrupted>>
      /\ search' = IF search.i < k_chunker_iterations
                   THEN [search EXCEPT !.middle = Middle] ELSE search
  BY DEF EndSearch, Splitting, Searching
<1>2. ~use_constant_step /\ search.retry < k_chunker_retries
  BY <1>1 DEF ChunkInv, SearchForward
<1>3. Stalls' <=> Stalls
  BY <1>1, SameEstimates DEF Stalls
<1>4. /\ search'.retry = search.retry /\ search'.i = search.i
      /\ search'.delta = search.delta /\ search'.rows = search.rows
      /\ search'.middle = IF search.i < k_chunker_iterations THEN Middle
                          ELSE search.middle
  BY <1>1, SearchFacts DEF SearchRecords
<1>5. CASE Stalls
  <2>1. /\ search.retry = 0 /\ search.delta > accuracy
        /\ search.rows = info.rows_per_chunk
        /\ search.i = 0 /\ search.left = current
        /\ search.right = sum(type, current, double_step)
    BY <1>1, <1>5 DEF ChunkInv, SearchForward
  <2>2. Middle \in Int /\ Lands(Middle)
    BY <1>1, <1>2, <1>5, <2>1, Stalled, StallsFirst, SearchFacts
  <2>3. search'.middle = Middle
    BY <1>1, <1>4, <2>1, SearchFacts
  <2>4. Lands(search.middle)'
    BY <1>1, <2>2, <2>3, SameLanding
  <2>5. search' \in SearchRecords
    BY <1>1, <2>2, SearchFacts DEF SearchRecords
  <2>6. SearchForward'
    BY <1>1, <1>2, <1>3, <1>4, <1>5, <2>1, <2>4, SameEstimates DEF SearchForward
  <2> QED
    BY <1>1, <1>4, <2>5, <2>6, SearchFacts, SearchStep
<1>6. CASE ~Stalls
  <2>1. /\ SearchedRange /\ search.middle >= current
        /\ type # "Decimal" => search.middle <= TypeMax(type)
        /\ Wide => search.retry = 0
    BY <1>1, <1>6 DEF ChunkInv, SearchForward
  <2>2. /\ Middle \in Int /\ search.left \in Int /\ search.right \in Int
        /\ 2 * (Middle - search.left) <= search.right - search.left
        /\ search.right - search.left <= 2 * (Middle - search.left) + 1
    BY <1>1, <2>1, HalfWay, SearchFacts DEF SearchRecords
  <2>3. /\ current \in Int /\ search.i \in Nat
        /\ type # "Decimal" => TypeMax(type) \in Int /\ current <= TypeMax(type)
    BY <1>1, SearchFacts
  <2>4. ASSUME search.i < k_chunker_iterations
        PROVE  /\ Middle >= current
               /\ type # "Decimal" => Middle <= TypeMax(type)
    <3>1. search.left <= search.right
      BY <2>1 DEF SearchedRange
    <3>2. Middle = search.left /\ search.right <= search.left + 1
      BY <1>1, <2>2, <2>4, <3>1 DEF Bisecting
    <3>3. search.left >= current
      BY <2>1, <2>2, <2>3, <3>2 DEF SearchedRange
    <3>4. type # "Decimal" => search.left <= TypeMax(type)
      BY <2>1, <2>2, <2>3, <3>1 DEF SearchedRange
    <3> QED
      BY <3>2, <3>3, <3>4
  <2>5. search' \in SearchRecords
    BY <1>1, <2>2, SearchFacts DEF SearchRecords
  <2>6. /\ search'.middle >= current
        /\ type # "Decimal" => search'.middle <= TypeMax(type)
    BY <1>4, <2>1, <2>4
  <2>7. SearchForward'
    BY <1>1, <1>2, <1>3, <1>4, <1>6, <2>1, <2>6, SameEstimates DEF SearchForward
  <2> QED
    BY <1>1, <1>4, <2>5, <2>7, SearchFacts, SearchStep
<1> QED
  BY <1>5, <1>6

LEMMA NextRangeKeeps == ChunkInv /\ NextRange => ChunkInv'
<1> SUFFICES ASSUME ChunkInv, NextRange PROVE ChunkInv'
  OBVIOUS
<1> DEFINE retry == IF search.delta <= accuracy THEN search.retry
                    ELSE IF search.rows >= info.rows_per_chunk
                            \/ search.middle >= max
                    THEN k_chunker_retries ELSE search.retry + 1
<1>1. /\ pc = "searched" /\ pc' = "retry" /\ Splitting /\ Searching
      /\ input' = input /\ current' = current
      /\ UNCHANGED <<input, table, current, file, chunks, interrupted>>
      /\ search' = [search EXCEPT !.retry =
                      IF search.delta <= accuracy THEN @
                      ELSE IF search.rows >= info.rows_per_chunk \/ search.middle >= max
                      THEN k_chunker_retries ELSE @ + 1]
  BY DEF NextRange, Splitting, Searching
<1>2. ~use_constant_step /\ search.retry < k_chunker_retries
  BY <1>1 DEF ChunkInv, SearchForward
<1>3. Stalls' <=> Stalls
  BY <1>1, SameEstimates DEF Stalls
<1>4. search' = [search EXCEPT !.retry = retry]
  BY <1>1, SearchFacts DEF SearchRecords
<1>5. retry \in Nat /\ retry \in 0 .. k_chunker_retries
  BY <1>1, <1>2, SearchFacts
<1>6. /\ search'.retry = retry /\ search'.i = search.i
      /\ search'.middle = search.middle
  BY <1>1, <1>4, SearchFacts DEF SearchRecords
<1>7. search' \in SearchRecords
  <2> HIDE DEF retry
  <2> QED
    BY <1>1, <1>4, <1>5, SearchFacts DEF SearchRecords
<1>8. SearchForward'
  <2>1. CASE Stalls
    <3>1. /\ search.delta > accuracy /\ search.rows = info.rows_per_chunk
          /\ Lands(search.middle)
      BY <1>1, <2>1 DEF ChunkInv, SearchForward
    <3>2. retry = k_chunker_retries
      <4>1. search.delta \in Int /\ accuracy \in Int /\ info.rows_per_chunk \in Int
        BY <1>1, SearchFacts DEF SearchRecords
      <4> QED
        BY <3>1, <4>1
    <3>3. Lands(search.middle)'
      BY <1>1, <1>6, <3>1, SameLanding
    <3> QED
      BY <1>1, <1>2, <1>3, <1>6, <2>1, <3>2, <3>3, SameEstimates DEF SearchForward
  <2>2. CASE ~Stalls
    <3>1. /\ search.middle >= current
          /\ type # "Decimal" => search.middle <= TypeMax(type)
          /\ Wide => search.retry = 0
      BY <1>1, <2>2 DEF ChunkInv, SearchForward
    <3>2. Wide => retry \in {0, 1, k_chunker_retries}
      BY <3>1
    <3> QED
      BY <1>1, <1>2, <1>3, <1>6, <2>2, <3>1, <3>2, SameEstimates DEF SearchForward
  <2> QED
    BY <2>1, <2>2
<1> QED
  BY <1>1, <1>5, <1>6, <1>7, <1>8, SearchFacts, SearchStep


-----------------------------------------------------------------------------
(* Chunks of an integer column.                                             *)

\* A chunk which begins at the current key, and does not end before it, is
\* appended to the prefix that was chunked.
LEMMA PushKeepsPrefix ==
  ASSUME ChunkInv, Splitting, NEW next_step, PushRange(next_step),
         UNCHANGED <<input, table, file, interrupted>>,
         search' \in SearchRecords,
         search'.retry \in 0 .. k_chunker_retries,
         search'.i \in 0 .. k_chunker_iterations,
         LastOf(next_step) \in Int, LastOf(next_step) >= current - 1,
         ~use_constant_step /\ Wide =>
           LastOf(next_step) >= max \/ (LastOf(next_step) >= -1 /\ ~WholeIndex)
  PROVE  ChunkInv'
<1>1. PICK last \in Int : last = LastOf(next_step)
  OBVIOUS
<1>2. /\ chunks' = Chunk(chunks, current, last, last >= max)
      /\ current' = In(type, last + 1)
      /\ pc' = IF last >= max THEN "done" ELSE "step"
  BY <1>1 DEF PushRange, LastOf, create_and_push_table_data_chunk_task
<1>3. /\ type' = type /\ info' = info /\ consistent' = consistent
      /\ min' = min /\ max' = max /\ rows' = rows /\ stable' = stable
      /\ changes' = changes /\ file' = file /\ interrupted' = interrupted
      /\ input' = input
  BY DEF input, table
<1>4. /\ min \in Int /\ max \in Int /\ current \in Int
      /\ min <= current /\ current <= max /\ type \in IntegerTypes
      /\ ChunkTypes /\ FirstAndLastKey
  BY SearchFacts
<1>5. chunks.once = min .. current - 1 /\ chunks.twice = {} /\ chunks.last = 0
  BY DEF ChunkInv, Prefix, LastAtTheEnd, Splitting
<1>6. Keys = min .. max /\ Keys' = min .. max /\ rows = {} /\ stable = {}
  BY <1>3, <1>4
     DEF Keys, IntegerTypes, FirstAndLastKey, ChunkTypes, ChunkingTypeOK
<1>7. /\ chunks'.once = (min .. current - 1) \cup ((min .. max) \cap (current .. last))
      /\ chunks'.twice = (min .. current - 1) \cap (current .. last)
      /\ chunks'.last = IF last >= max THEN 1 ELSE 0
  BY <1>2, <1>5, <1>6 DEF Chunk
<1>8. chunks'.twice = {}
  BY <1>4, <1>7
<1>9. In(type, last + 1) \in Int /\ (last < max => In(type, last + 1) = last + 1)
  <2>1. CASE type = "Decimal"
    BY <2>1 DEF In
  <2>2. CASE type \in WordTypes
    <3>1. TypeMin(type) <= min /\ max <= TypeMax(type)
      BY <1>4, <2>2, KeysAreWords
    <3>2. PICK n \in Int : n = last + 1
      OBVIOUS
    <3>3. In(type, n) \in Int
      BY <2>2, InIsWord
    <3>4. last < max => TypeMin(type) <= n /\ n <= TypeMax(type)
      BY <1>1, <1>4, <2>2, <3>1, <3>2, WordLimits
    <3>5. last < max => In(type, n) = n
      BY <2>2, <3>4, InExact
    <3> QED
      BY <3>2, <3>3, <3>5
  <2> QED
    BY <1>4, <2>1, <2>2 DEF IntegerTypes, WordTypes
<1>10. PICK c \in Int : current' = c /\ (last < max => c = last + 1)
  BY <1>2, <1>9
<1>11. ChunkTypes'
  BY <1>2, <1>3, <1>4, <1>7, <1>8, <1>10 DEF ChunkTypes, ChunkingTypeOK
<1>12. Statements'
  BY <1>2, <1>3, <1>4 DEF Statements, Splitting
<1>13. LastAtTheEnd'
  BY <1>2, <1>4, <1>7 DEF LastAtTheEnd
<1>14. FirstAndLastKey'
  BY <1>3, <1>4 DEF FirstAndLastKey
<1>15. Prefix'
  <2>1. CASE last >= max
    BY <1>2, <2>1 DEF Prefix, Splitting
  <2>2. CASE last < max
    <3>1. min <= c /\ c <= max
      BY <1>1, <1>4, <1>10, <2>2
    <3>2. chunks'.once = min .. c - 1
      BY <1>1, <1>4, <1>7, <1>10, <2>2
    <3>3. ~use_constant_step /\ Wide => c >= 0 /\ ~WholeIndex
      BY <1>1, <1>4, <1>10, <2>2
    <3>4. pc' = "step"
      BY <1>2, <1>4, <2>2
    <3> QED
      BY <1>3, <1>8, <1>10, <3>1, <3>2, <3>3, <3>4, SameEstimates DEF Prefix
  <2> QED
    BY <1>4, <2>1, <2>2
<1>16. SearchForward' /\ FetchedPrefix' /\ WrittenPrefix'
  BY <1>2 DEF SearchForward, Searching, FetchedPrefix, WrittenPrefix
<1>17. EachRowOnce'
  <2>1. CASE last >= max
    <3>1. chunks'.once = min .. max
      BY <1>4, <1>7, <2>1
    <3> QED
      BY <1>3, <1>6, <1>8, <3>1 DEF EachRowOnce
  <2>2. CASE last < max
    BY <1>2, <1>4, <2>2 DEF EachRowOnce, Chunked
  <2> QED
    BY <1>4, <2>1, <2>2
<1> QED
  BY <1>11, <1>12, <1>13, <1>14, <1>15, <1>16, <1>17 DEF ChunkInv

LEMMA ConstantStepKeeps == ChunkInv /\ constant_step => ChunkInv'
<1> SUFFICES ASSUME ChunkInv, constant_step PROVE ChunkInv'
  OBVIOUS
<1>1. /\ Splitting /\ use_constant_step /\ PushRange(estimated_step)
      /\ UNCHANGED <<input, table, file, interrupted>> /\ search' = search
  BY DEF constant_step, Splitting
<1>2. LastOf(estimated_step) \in Int /\ LastOf(estimated_step) >= current
  BY <1>1, ConstantStep, SearchFacts
<1>3. LastOf(estimated_step) >= current - 1
  BY <1>1, <1>2, SearchFacts
<1>4. /\ search' \in SearchRecords
      /\ search'.retry \in 0 .. k_chunker_retries
      /\ search'.i \in 0 .. k_chunker_iterations
  BY <1>1, SearchFacts
<1> QED
  BY <1>1, <1>2, <1>3, <1>4, PushKeepsPrefix

\* The step that was found leads to the current key, or to a later one.
LEMMA FoundStep ==
  ASSUME ChunkInv, StepFound
  PROVE  \E next_step :
           /\ PushRange(next_step)
           /\ LastOf(next_step) \in Int /\ LastOf(next_step) >= current
           /\ Wide => \/ LastOf(next_step) >= max
                      \/ LastOf(next_step) >= -1 /\ ~WholeIndex
<1> DEFINE over == search.delta <= accuracy \/ search.retry >= k_chunker_retries
           middle == IF over THEN search.middle ELSE max
           step == ensure_not_zero(In(type, middle - current))
<1>1. /\ pc = "retry" /\ Splitting /\ Searching
      /\ over \/ In(type, max - Offset) <= current
      /\ PushRange(step)
  BY DEF StepFound, Splitting, Searching
<1>2. ~use_constant_step
  BY <1>1 DEF ChunkInv, SearchForward
<1>4. CASE Stalls
  <2>1. Lands(search.middle) /\ over
    <3>1. CASE search.retry = 0 /\ search.delta > accuracy
      <4>1. type \in WordTypes /\ current = min /\ type \in IntegerTypes
        BY <1>1, <1>2, <1>4, StallsFirst DEF Stalls, Wide, WordTypes, IntegerTypes
      <4>2. /\ ChunkTypes /\ FirstAndLastKey /\ min <= current /\ current <= max
            /\ min \in Int /\ max \in Int /\ search.delta \in Int
            /\ k_chunker_retries \in Nat /\ k_chunker_retries >= 1 /\ accuracy \in Nat
        BY <1>1, SearchFacts DEF SearchRecords
      <4>3. max <= current
        <5>1. double_step \in Int
          BY <4>1, <4>2, Estimates, InIsWord DEF double_step
        <5>2. In(type, 0) = 0
          BY <4>1, InExact, WordLimits DEF WordTypes
        <5>3. Offset = 0
          BY <3>1, <5>1, <5>2 DEF Offset
        <5>4. In(type, max) = max
          BY <4>1, <4>2, InExact, KeysAreWords, WordLimits
        <5> QED
          BY <1>1, <3>1, <4>2, <5>3, <5>4
      <4>4. 2 * estimated_step >= SignBit /\ SignBit \in Nat /\ SignBit >= 3
        BY <1>4, <4>1, WordLimits DEF Stalls, Wide
      <4>5. /\ estimated_step \in Nat
            /\ estimated_step = 1 \/ 2 * estimated_step <= max - min + 1
        BY <1>2, <4>1, <4>2, Estimates
      <4> QED
        BY <4>1, <4>2, <4>3, <4>4, <4>5
    <3>2. CASE search.retry = k_chunker_retries /\ Lands(search.middle)
      BY <1>1, <3>2, SearchFacts
    <3> QED
      BY <1>1, <1>4, <3>1, <3>2 DEF ChunkInv, SearchForward
  <2>2. step = ensure_not_zero(In(type, search.middle - current))
    BY <2>1
  <2>3. /\ LastOf(step) \in Int
        /\ LastOf(step) >= max \/ (LastOf(step) >= -1 /\ ~WholeIndex)
    BY <2>1, <2>2 DEF Lands
  <2>4. LastOf(step) >= current
    <3>1. current < 0 /\ current \in Int /\ max \in Int /\ current <= max
      BY <1>1, <1>4, SearchFacts DEF Stalls
    <3> HIDE DEF step
    <3> QED
      BY <2>3, <3>1
  <2> HIDE DEF step
  <2> QED
    BY <1>1, <2>3, <2>4
<1>5. CASE ~Stalls
  <2>1. /\ middle \in Int /\ middle >= current
        /\ type # "Decimal" => middle <= TypeMax(type)
    <3>1. /\ search.middle >= current /\ search.middle \in Int
          /\ type # "Decimal" => search.middle <= TypeMax(type)
      BY <1>1, <1>5, SearchFacts DEF ChunkInv, SearchForward, SearchRecords
    <3>2. max \in Int /\ max >= current /\ (type # "Decimal" => max <= TypeMax(type))
      BY <1>1, SearchFacts
    <3> QED
      BY <3>1, <3>2
  <2>2. LastOf(step) \in Int /\ LastOf(step) >= current
    <3> HIDE DEF middle
    <3> QED
      BY <1>1, <2>1, StepForward, SearchFacts
  <2>3. Wide => current >= 0 /\ ~WholeIndex
    <3>1. ASSUME Wide PROVE current >= 0 /\ ~WholeIndex
      <4>1. current >= 0
        BY <1>1, <1>2, <1>5, <3>1, WideForward
      <4>2. SignBit \in Nat /\ SignBit >= 3
        BY ChunkingAssumption
      <4> QED
        BY <1>1, <1>2, <3>1, <4>1, <4>2, SearchFacts
           DEF ChunkInv, Prefix, WholeIndex
    <3> QED
      BY <3>1
  <2>4. Wide => LastOf(step) >= -1
    <3>1. current \in Int
      BY <1>1, SearchFacts
    <3> HIDE DEF step
    <3> QED
      BY <2>2, <2>3, <3>1
  <2> HIDE DEF step
  <2> QED
    BY <1>1, <2>2, <2>3, <2>4
<1> QED
  BY <1>4, <1>5

LEMMA StepFoundKeeps == ChunkInv /\ StepFound => ChunkInv'
<1> SUFFICES ASSUME ChunkInv, StepFound PROVE ChunkInv'
  OBVIOUS
<1>1. /\ Splitting /\ search' = NoSearch
      /\ UNCHANGED <<input, table, file, interrupted>>
  BY DEF StepFound, Splitting
<1>2. /\ search' \in SearchRecords
      /\ search'.retry \in 0 .. k_chunker_retries
      /\ search'.i \in 0 .. k_chunker_iterations
  BY <1>1, SearchFacts DEF NoSearch, SearchRecords
<1>3. PICK next_step :
        /\ PushRange(next_step)
        /\ LastOf(next_step) \in Int /\ LastOf(next_step) >= current
        /\ Wide => \/ LastOf(next_step) >= max
                   \/ LastOf(next_step) >= -1 /\ ~WholeIndex
  BY FoundStep
<1>4. LastOf(next_step) >= current - 1
  BY <1>1, <1>3, SearchFacts
<1> QED
  BY <1>1, <1>2, <1>3, <1>4, PushKeepsPrefix

-----------------------------------------------------------------------------
(* Rows of any other index.                                                 *)

\* A set of numbers has a smallest one.
LEMMA FirstOf ==
  ASSUME NEW S \in SUBSET Nat, S # {}
  PROVE  \E s \in S : \A t \in S : s <= t
<1>1. IsWellFoundedOn(OpToRel(<, Nat), Nat)
  BY NatLessThanWellFounded
<1>2. PICK R : R = OpToRel(<, Nat)
  OBVIOUS
<1>3. IsWellFoundedOn(R, Nat)
  BY <1>1, <1>2
<1>4. PICK s \in S : \A t \in S : ~(<<t, s>> \in R)
  BY <1>3, WFMin
<1>5. \A t \in S : ~(t < s)
  BY <1>2, <1>4 DEF OpToRel
<1> QED
  BY <1>5

\* Nothing is between two rows at consecutive positions, and a row which is not
\* the last one has a next one.
LEMMA NextRow ==
  ASSUME NEW F \in SUBSET Nat, IsFiniteSet(F), NEW e \in F, NEW n \in Nat,
         Cardinality({q \in F : q <= e}) = n
  PROVE  /\ \A c \in F : Cardinality({q \in F : q <= c}) = n + 1 =>
              e < c /\ \A y \in F : y < c => y <= e
         /\ \A y \in F : e < y =>
              \E c \in F : Cardinality({q \in F : q <= c}) = n + 1
<1> DEFINE Upto(r) == {q \in F : q <= r}
<1>0. e \in Nat /\ \A q \in F : q \in Nat
  OBVIOUS
<1>1. \A r \in F : IsFiniteSet(Upto(r)) /\ Cardinality(Upto(r)) \in Nat
  BY FS_Subset, FS_CardinalityType
<1>2. ASSUME NEW c \in F, Cardinality(Upto(c)) = n + 1
      PROVE  e < c /\ \A y \in F : y < c => y <= e
  <2>1. e < c
    <3>1. ASSUME c <= e PROVE FALSE
      <4>1. \A q \in F : q <= c => q <= e
        BY <1>0, <3>1
      <4>2. Upto(c) \in SUBSET Upto(e)
        BY <4>1
      <4>3. Cardinality(Upto(c)) <= n
        BY <1>1, <4>2, FS_Subset
      <4> QED
        BY <1>2, <4>3
    <3> QED
      BY <3>1
  <2>2. ASSUME NEW y \in F, y < c, e < y PROVE FALSE
    <3>1. Cardinality(Upto(e) \cup {y}) = n + 1 /\ IsFiniteSet(Upto(e) \cup {y})
      <4>1. y \notin Upto(e)
        BY <1>0, <2>2
      <4>2. IsFiniteSet(Upto(e)) /\ Cardinality(Upto(e)) = n
        BY <1>1
      <4> HIDE DEF Upto
      <4> QED
        BY <4>1, <4>2, FS_AddElement
    <3>2. Upto(e) \cup {y} \in SUBSET Upto(c)
      <4>1. \A q \in F : q <= e \/ q = y => q <= c
        BY <1>0, <2>1, <2>2
      <4> QED
        BY <2>2, <4>1
    <3>3. Upto(c) = Upto(e) \cup {y}
      BY <1>1, <1>2, <3>1, <3>2, FS_Subset
    <3>4. c \in Upto(c) /\ c \notin Upto(e) \cup {y}
      <4>1. c \in Nat /\ y \in Nat /\ e \in Nat /\ c # y
        BY <1>0, <2>2
      <4> QED
        BY <2>1, <4>1
    <3> QED
      BY <3>3, <3>4
  <2> QED
    BY <2>1, <2>2
<1>3. ASSUME NEW y \in F, e < y
      PROVE  \E c \in F : Cardinality(Upto(c)) = n + 1
  <2> DEFINE After == {q \in F : e < q}
  <2>1. PICK c \in After : \A t \in After : c <= t
    <3>1. After \in SUBSET Nat /\ After # {}
      BY <1>3
    <3> QED
      BY <3>1, FirstOf
  <2>2. Upto(c) = Upto(e) \cup {c}
    <3>1. ASSUME NEW q \in F PROVE q <= c <=> (q <= e \/ q = c)
      <4>1. q \in Nat /\ c \in Nat /\ e \in Nat /\ e < c /\ (e < q => c <= q)
        BY <1>0, <2>1
      <4> QED
        BY <4>1
    <3>2. c \in F
      BY <2>1
    <3> QED
      BY <3>1, <3>2
  <2>3. c \notin Upto(e)
    BY <2>1
  <2>4. Cardinality(Upto(c)) = n + 1
    BY <1>1, <2>2, <2>3, FS_AddElement
  <2> QED
    BY <2>1, <2>4
<1> QED
  BY <1>2, <1>3


\* What SELECT returns: the last row of a chunk, and the first one of the next.
LEMMA FetchedRows ==
  ASSUME ChunkTypes
  PROVE  LET e == RowAt(info.rows_per_chunk)
             c == RowAt(info.rows_per_chunk + 1)
         IN /\ e \in Int /\ c \in Int
            /\ e # max =>
                 /\ e \in rows /\ e >= current
                 /\ \A y \in rows : y >= current /\ y < c => y <= e
                 /\ (\E y \in rows : e < y) => c \in rows /\ e < c
<1> DEFINE n == info.rows_per_chunk
           e == RowAt(n)
           c == RowAt(n + 1)
           from == {r \in rows : r >= current}
           rank(k) == {r \in from : Cardinality({q \in from : q <= r}) = k}
<1>1. /\ n \in Nat /\ max \in Int /\ current \in Int
      /\ rows \in SUBSET Nat /\ IsFiniteSet(rows)
  <2>1. rows \in SUBSET (1 .. MaxRows) /\ IsFiniteSet(1 .. MaxRows) /\ MaxRows \in Nat
    <3>1. MaxRows \in Nat /\ MaxRows \in Int /\ 1 \in Int
      BY ChunkingAssumption
    <3>2. IsFiniteSet(1 .. MaxRows)
      BY <3>1, FS_Interval
    <3> QED
      BY <3>1, <3>2 DEF ChunkTypes, ChunkingTypeOK
  <2>2. IsFiniteSet(rows)
    BY <2>1, FS_Subset
  <2>3. rows \in SUBSET Nat
    BY <2>1
  <2> QED
    BY <2>2, <2>3, ChunkingAssumption DEF ChunkTypes, ChunkingTypeOK
<1>2. from \in SUBSET Nat /\ IsFiniteSet(from)
  BY <1>1, FS_Subset
<1>3. /\ e = IF n > 0 /\ rank(n) # {} THEN CHOOSE r \in rank(n) : TRUE ELSE max
      /\ c = IF n > 0 /\ rank(n + 1) # {} THEN CHOOSE r \in rank(n + 1) : TRUE ELSE max
  BY DEF RowAt
<1>4. (n > 0 /\ rank(n) # {} /\ e \in rank(n)) \/ e = max
  BY <1>3
<1>5. (n > 0 /\ rank(n + 1) # {} /\ c \in rank(n + 1))
      \/ (c = max /\ (n > 0 => rank(n + 1) = {}))
  BY <1>3
<1> HIDE DEF n, e, c
<1>6. e \in Int /\ c \in Int
  <2>1. \A k : rank(k) \subseteq Nat
    BY <1>2
  <2> HIDE DEF rank
  <2>2. \A r \in Nat : r \in Int
    OBVIOUS
  <2> QED
    BY <1>1, <1>4, <1>5, <2>1, <2>2
<1>7. ASSUME e # max
      PROVE  /\ e \in rows /\ e >= current
             /\ \A y \in rows : y >= current /\ y < c => y <= e
             /\ (\E y \in rows : e < y) => c \in rows /\ e < c
  <2>1. n > 0 /\ e \in from /\ Cardinality({q \in from : q <= e}) = n
    BY <1>4, <1>7
  <2>2. /\ \A r \in from : Cardinality({q \in from : q <= r}) = n + 1 =>
             e < r /\ \A y \in from : y < r => y <= e
        /\ \A y \in from : e < y =>
             \E r \in from : Cardinality({q \in from : q <= r}) = n + 1
    <3> HIDE DEF from
    <3> QED
      BY <1>1, <1>2, <2>1, NextRow
  <2>3. e \in rows /\ e >= current
    BY <2>1
  <2>4. \A y \in rows : e < y => y \in from
    BY <1>1, <2>3
  <2>5. CASE c \in rank(n + 1)
    BY <1>1, <2>2, <2>3, <2>5
  <2>6. CASE rank(n + 1) = {}
    <3>1. \A y \in from : ~(e < y)
      BY <2>2, <2>6
    <3>2. \A y \in from : y \in Nat
      BY <1>2
    <3> QED
      BY <1>1, <1>6, <2>3, <2>4, <3>1, <3>2
  <2> QED
    BY <1>5, <2>1, <2>5, <2>6
<1> QED
  BY <1>6, <1>7 DEF n, e, c

LEMMA FetchKeeps == ChunkInv /\ chunk_non_integer_column => ChunkInv'
<1> SUFFICES ASSUME ChunkInv, chunk_non_integer_column PROVE ChunkInv'
  OBVIOUS
<1>1. PICK e \in Int : e = RowAt(info.rows_per_chunk)
  BY FetchedRows DEF ChunkInv
<1>2. PICK c \in Int : c = RowAt(info.rows_per_chunk + 1)
  BY FetchedRows DEF ChunkInv
<1>3. /\ pc = "fetch"
      /\ chunks' = Chunk(chunks, current, e, e = max)
      /\ pc' = IF e = max THEN "done" ELSE "fetch"
      /\ current' = c
  BY <1>1, <1>2
     DEF chunk_non_integer_column, create_and_push_table_data_chunk_task
<1>4. /\ type' = type /\ info' = info /\ consistent' = consistent
      /\ min' = min /\ max' = max /\ rows' = rows /\ stable' = stable
      /\ changes' = changes /\ file' = file /\ interrupted' = interrupted
      /\ search' = search
  BY DEF chunk_non_integer_column, input, table
<1>5. e # max =>
        /\ e \in rows /\ e >= current
        /\ \A y \in rows : y >= current /\ y < c => y <= e
        /\ (\E y \in rows : e < y) => c \in rows /\ e < c
  BY <1>1, <1>2, FetchedRows DEF ChunkInv
<1>6. /\ type = "other" /\ max \in Int /\ current \in Int /\ ChunkTypes
      /\ FirstAndLastKey /\ chunks.last = 0
  BY <1>3 DEF ChunkInv, Statements, ChunkTypes, LastAtTheEnd
<1>7. /\ chunks'.once = chunks.once \cup (rows \cap (current .. e))
      /\ chunks'.twice = chunks.twice \cup (chunks.once \cap (current .. e))
      /\ chunks'.last = IF e = max THEN 1 ELSE 0
  BY <1>3, <1>6 DEF Chunk, Keys
<1>8. Keys' = rows
  BY <1>4, <1>6 DEF Keys
<1>9. /\ stable \subseteq rows /\ \A r \in stable : r <= max
      /\ \A r \in rows : r \in Int
      /\ chunks.twice \subseteq chunks.once
  BY <1>6, ChunkingAssumption DEF ChunkTypes, ChunkingTypeOK, FirstAndLastKey
<1>10. \A r \in stable : r < current => r \in chunks.once
  BY <1>3 DEF ChunkInv, FetchedPrefix
<1>11. ASSUME consistent
       PROVE  /\ chunks.twice = {} /\ chunks.once = {r \in rows : r < current}
              /\ current \in rows /\ stable = rows /\ max \in rows
              /\ chunks'.twice = {}
  <2>1. /\ chunks.twice = {} /\ chunks.once = {r \in rows : r < current}
        /\ current \in rows
    BY <1>3, <1>11 DEF ChunkInv, FetchedPrefix
  <2>2. stable = rows /\ max \in rows
    BY <1>6, <1>11, <2>1 DEF FirstAndLastKey
  <2>3. chunks'.twice = {}
    BY <1>6, <1>7, <1>9, <2>1
  <2> QED
    BY <2>1, <2>2, <2>3
<1>12. ChunkTypes'
  <2>1. chunks'.twice \subseteq chunks'.once
    <3>1. chunks.once \cap (current .. e) \subseteq chunks.once
      OBVIOUS
    <3> QED
      BY <1>7, <1>9, <3>1
  <2> QED
    BY <1>3, <1>4, <1>6, <1>7, <2>1 DEF ChunkTypes, ChunkingTypeOK
<1>13. Statements' /\ LastAtTheEnd'
  BY <1>3, <1>4, <1>6, <1>7 DEF Statements, Splitting, LastAtTheEnd
<1>14. FirstAndLastKey'
  BY <1>4, <1>6 DEF FirstAndLastKey
<1>15. Prefix' /\ SearchForward' /\ WrittenPrefix'
  BY <1>3 DEF Prefix, Splitting, SearchForward, Searching, WrittenPrefix
<1>16. FetchedPrefix'
  <2>1. CASE e = max
    BY <1>3, <2>1 DEF FetchedPrefix
  <2>2. CASE e # max
    <3>1. \A r \in stable : r < c => r \in chunks'.once
      <4>1. ASSUME NEW r \in stable, r < c PROVE r \in chunks'.once
        <5>1. r \in rows /\ r \in Int
          BY <1>9
        <5>2. CASE r < current
          BY <1>7, <1>10, <5>2
        <5>3. CASE r >= current
          BY <1>5, <1>6, <1>7, <2>2, <4>1, <5>1, <5>3
        <5> QED
          BY <1>6, <5>1, <5>2, <5>3
      <4> QED
        BY <4>1
    <3>2. ASSUME consistent
          PROVE  c \in rows /\ chunks'.once = {r \in rows : r < c}
      <4>1. e < max
        BY <1>5, <1>6, <1>9, <1>11, <2>2, <3>2
      <4>2. c \in rows /\ e < c
        BY <1>5, <1>11, <2>2, <3>2, <4>1
      <4>3. \A r \in rows : r < c <=> (r < current \/ (current <= r /\ r <= e))
        BY <1>5, <1>6, <1>9, <2>2, <4>2
      <4>4. chunks'.once = {r \in rows : r < c}
        BY <1>6, <1>7, <1>9, <1>11, <3>2, <4>3
      <4> QED
        BY <4>2, <4>4
    <3> QED
      BY <1>3, <1>4, <1>11, <3>1, <3>2 DEF FetchedPrefix
  <2> QED
    BY <2>1, <2>2
<1>17. EachRowOnce'
  <2>1. CASE e = max
    <3>1. stable \subseteq chunks'.once
      BY <1>6, <1>7, <1>9, <1>10, <2>1
    <3>2. ASSUME consistent PROVE chunks'.once = rows
      <4>1. chunks.once \subseteq rows
        BY <1>11, <3>2
      <4> QED
        BY <1>7, <1>11, <3>1, <3>2, <4>1
    <3> QED
      BY <1>4, <1>8, <1>11, <3>1, <3>2 DEF EachRowOnce
  <2>2. CASE e # max
    BY <1>3, <2>2 DEF EachRowOnce, Chunked
  <2> QED
    BY <2>1, <2>2
<1> QED
  BY <1>12, <1>13, <1>14, <1>15, <1>16, <1>17 DEF ChunkInv


-----------------------------------------------------------------------------
(* A table without an index.                                                *)

\* What the writer can rely on.
LEMMA WriteFacts ==
  ASSUME ChunkInv, pc = "write"
  PROVE  /\ type = "no_index" /\ ChunkTypes /\ FirstAndLastKey
         /\ current \in Int /\ max \in Int /\ file \in Int
         /\ 1 <= current /\ current <= max + 1 /\ 0 <= file /\ file <= current
         /\ max <= MaxRows /\ MaxRows \in Nat
         /\ rows = 1 .. max /\ stable = rows
         /\ chunks.twice = {} /\ chunks.last = 0
         /\ chunks.once = 1 .. (IF file = 0 THEN current ELSE file) - 1
<1>1. /\ type = "no_index" /\ ChunkTypes /\ FirstAndLastKey /\ chunks.last = 0
  BY DEF ChunkInv, Statements, LastAtTheEnd
<1>2. MaxRows \in Nat
  BY ChunkingAssumption
<1>3. current \in Int /\ max \in Int /\ file \in Int
  BY <1>1, <1>2 DEF ChunkTypes, ChunkingTypeOK
<1>4. max <= MaxRows /\ rows = 1 .. max /\ stable = rows
  BY <1>1, <1>2 DEF FirstAndLastKey
<1>5. /\ 1 <= current /\ current <= max + 1 /\ 0 <= file /\ file <= current
      /\ chunks.twice = {}
      /\ chunks.once = 1 .. (IF file = 0 THEN current ELSE file) - 1
  BY DEF ChunkInv, WrittenPrefix
<1> QED
  BY <1>1, <1>2, <1>3, <1>4, <1>5

LEMMA WriteRowKeeps == ChunkInv /\ write_row => ChunkInv'
<1> SUFFICES ASSUME ChunkInv, write_row PROVE ChunkInv'
  OBVIOUS
<1> DEFINE b == IF file = 0 THEN current ELSE file
<1>1. /\ pc = "write" /\ pc' = "write" /\ current <= max
      /\ \/ file' = b /\ chunks' = chunks
         \/ file' = 0 /\ chunks' = Chunk(chunks, b, current, FALSE)
      /\ current' = current + 1
      /\ type' = type /\ info' = info /\ consistent' = consistent
      /\ min' = min /\ max' = max /\ rows' = rows /\ stable' = stable
      /\ changes' = changes /\ interrupted' = interrupted /\ search' = search
  BY DEF write_row, input, table
<1>2. PICK begin \in Int : begin = b
  BY <1>1, WriteFacts
<1>3. 1 <= begin /\ begin <= current /\ chunks.once = 1 .. begin - 1
  BY <1>1, <1>2, WriteFacts
<1>4. PICK n \in Int : n = current + 1
  BY <1>1, WriteFacts
<1>5. PICK f \in Int : f = file' /\ 0 <= f /\ f <= current
  <2>1. file' = begin \/ file' = 0
    BY <1>1, <1>2
  <2>2. current \in Int /\ 1 <= current
    BY <1>1, WriteFacts
  <2> QED
    BY <1>3, <2>1, <2>2
<1>6. /\ chunks'.once = 1 .. (IF f = 0 THEN n ELSE f) - 1
      /\ chunks'.twice = {} /\ chunks'.last = 0
  <2>1. CASE file' = b /\ chunks' = chunks
    BY <1>1, <1>2, <1>3, <1>5, <2>1, WriteFacts
  <2>2. CASE file' = 0 /\ chunks' = Chunk(chunks, b, current, FALSE)
    <3>1. Keys = 1 .. max
      BY <1>1, WriteFacts DEF Keys
    <3>2. /\ chunks'.once = (1 .. begin - 1) \cup ((1 .. max) \cap (begin .. current))
          /\ chunks'.twice = (1 .. begin - 1) \cap (begin .. current)
          /\ chunks'.last = 0
      BY <1>1, <1>2, <1>3, <2>2, <3>1, WriteFacts DEF Chunk
    <3>3. chunks'.twice = {}
      BY <1>1, <1>3, <3>2, WriteFacts
    <3>4. chunks'.once = 1 .. n - 1
      BY <1>1, <1>3, <1>4, <3>2, WriteFacts
    <3> QED
      BY <1>5, <2>2, <3>2, <3>3, <3>4
  <2> QED
    BY <1>1, <2>1, <2>2
<1>7. ChunkTypes'
  <2>1. f \in 0 .. MaxRows + 1
    BY <1>1, <1>5, WriteFacts
  <2> QED
    BY <1>1, <1>4, <1>5, <1>6, <2>1, WriteFacts DEF ChunkTypes, ChunkingTypeOK
<1>8. Statements' /\ LastAtTheEnd'
  BY <1>1, <1>6, WriteFacts DEF Statements, Splitting, LastAtTheEnd
<1>9. FirstAndLastKey'
  BY <1>1, WriteFacts DEF FirstAndLastKey
<1>10. Prefix' /\ SearchForward' /\ FetchedPrefix' /\ EachRowOnce'
  BY <1>1 DEF Prefix, Splitting, SearchForward, Searching, FetchedPrefix,
              EachRowOnce, Chunked
<1>11. WrittenPrefix'
  <2>1. 1 <= n /\ n <= max + 1 /\ f <= n
    BY <1>1, <1>4, <1>5, WriteFacts
  <2> QED
    BY <1>1, <1>4, <1>5, <1>6, <2>1 DEF WrittenPrefix
<1> QED
  BY <1>7, <1>8, <1>9, <1>10, <1>11 DEF ChunkInv

LEMMA FinishWritingKeeps == ChunkInv /\ finish_writing => ChunkInv'
<1> SUFFICES ASSUME ChunkInv, finish_writing PROVE ChunkInv'
  OBVIOUS
<1> DEFINE open == IF file = 0 THEN chunks ELSE Chunk(chunks, file, max, FALSE)
<1>1. /\ pc = "write" /\ pc' = "done" /\ current > max /\ file' = 0
      /\ chunks' = Chunk(open, max + 1, max, TRUE)
      /\ current' = current
      /\ type' = type /\ info' = info /\ consistent' = consistent
      /\ min' = min /\ max' = max /\ rows' = rows /\ stable' = stable
      /\ changes' = changes /\ interrupted' = interrupted /\ search' = search
  BY DEF finish_writing, input, table
<1>2. Keys = 1 .. max /\ Keys' = 1 .. max
  BY <1>1, WriteFacts DEF Keys
<1>3. current = max + 1
  BY <1>1, WriteFacts
<1>4. open.once = 1 .. max /\ open.twice = {} /\ open.last = 0
  <2>1. CASE file = 0
    BY <1>1, <1>3, <2>1, WriteFacts
  <2>2. CASE file # 0
    <3>1. /\ open.once = (1 .. file - 1) \cup ((1 .. max) \cap (file .. max))
          /\ open.twice = (1 .. file - 1) \cap (file .. max)
          /\ open.last = 0
      BY <1>1, <1>2, <2>2, WriteFacts DEF Chunk
    <3>2. file \in Int /\ max \in Int /\ 1 <= file /\ file <= max + 1
      BY <1>1, <1>3, <2>2, WriteFacts
    <3> HIDE DEF open
    <3>3. open.once = 1 .. max
      BY <3>1, <3>2
    <3>4. open.twice = {}
      BY <3>1, <3>2
    <3> QED
      BY <3>1, <3>3, <3>4
  <2> QED
    BY <2>1, <2>2
<1>5. chunks'.once = 1 .. max /\ chunks'.twice = {} /\ chunks'.last = 1
  <2>1. (max + 1) .. max = {}
    BY <1>1, WriteFacts
  <2> HIDE DEF open
  <2> QED
    BY <1>1, <1>2, <1>4, <2>1 DEF Chunk
<1> HIDE DEF open
<1>6. ChunkTypes'
  <2>1. 0 \in 0 .. MaxRows + 1 /\ 1 \in 0 .. 1 /\ {} \subseteq 1 .. max
    BY <1>1, WriteFacts
  <2> QED
    BY <1>1, <1>5, <2>1, WriteFacts DEF ChunkTypes, ChunkingTypeOK
<1>7. Statements' /\ LastAtTheEnd'
  BY <1>1, <1>5, WriteFacts DEF Statements, Splitting, LastAtTheEnd
<1>8. FirstAndLastKey'
  BY <1>1, WriteFacts DEF FirstAndLastKey
<1>9. Prefix' /\ SearchForward' /\ FetchedPrefix' /\ WrittenPrefix'
  BY <1>1 DEF Prefix, Splitting, SearchForward, Searching, FetchedPrefix,
              WrittenPrefix
<1>10. EachRowOnce'
  BY <1>1, <1>2, <1>5, WriteFacts DEF EachRowOnce
<1> QED
  BY <1>6, <1>7, <1>8, <1>9, <1>10 DEF ChunkInv


-----------------------------------------------------------------------------
(* The other steps.                                                         *)

LEMMA ChunkColumnKeeps == ChunkInv /\ chunk_column => ChunkInv'
<1> SUFFICES ASSUME ChunkInv, chunk_column PROVE ChunkInv'
  OBVIOUS
<1>1. /\ pc = "chunk_column" /\ input' = input
      /\ type' = type /\ info' = info /\ consistent' = consistent
      /\ min' = min /\ max' = max /\ rows' = rows /\ stable' = stable
      /\ changes' = changes /\ interrupted' = interrupted /\ search' = search
  BY DEF chunk_column, input, table
<1>2. /\ ChunkTypes /\ FirstAndLastKey /\ current = min /\ file = 0
      /\ chunks.once = {} /\ chunks.twice = {} /\ chunks.last = 0
      /\ min \in Int /\ max \in Int /\ type \in Algorithms
  BY <1>1 DEF ChunkInv, Prefix, LastAtTheEnd, ChunkTypes, ChunkingTypeOK
<1>3. MaxRows \in Nat
  BY ChunkingAssumption
<1>4. FirstAndLastKey'
  BY <1>1, <1>2 DEF FirstAndLastKey
<1>5. CASE type = "no_index"
  <2>1. /\ pc' \in {"crashed", "write"} /\ current' = 1 /\ file' = 1
        /\ chunks' = chunks
    BY <1>5 DEF chunk_column
  <2>2. ChunkTypes'
    <3>1. 1 \in 0 .. MaxRows + 1
      BY <1>3
    <3> QED
      BY <1>1, <1>2, <2>1, <3>1 DEF ChunkTypes, ChunkingTypeOK
  <2>3. WrittenPrefix'
    <3>1. 1 <= max + 1 /\ 1 .. 1 - 1 = {}
      BY <1>2, <1>3, <1>5 DEF FirstAndLastKey
    <3> QED
      BY <1>1, <1>2, <2>1, <3>1 DEF WrittenPrefix
  <2>4. /\ Statements' /\ LastAtTheEnd' /\ Prefix' /\ SearchForward'
        /\ FetchedPrefix' /\ EachRowOnce'
    BY <1>1, <1>2, <1>5, <2>1
       DEF Statements, LastAtTheEnd, Prefix, Splitting, SearchForward, Searching,
           FetchedPrefix, EachRowOnce, Chunked
  <2> QED
    BY <1>4, <2>2, <2>3, <2>4 DEF ChunkInv
<1>6. CASE type = "other" /\ rows = {}
  <2>1. /\ pc' = "done" /\ current' = current /\ file' = file
        /\ chunks' = Chunk(chunks, min, max, TRUE)
    BY <1>6 DEF chunk_column, create_and_push_table_data_chunk_task
  <2>2. Keys = {} /\ Keys' = {} /\ stable = {}
    BY <1>1, <1>2, <1>6 DEF Keys, ChunkTypes, ChunkingTypeOK
  <2>3. chunks'.once = {} /\ chunks'.twice = {} /\ chunks'.last = 1
    BY <1>2, <2>1, <2>2 DEF Chunk
  <2>4. ChunkTypes'
    <3>1. chunks'.last \in 0 .. 1 /\ chunks'.twice \subseteq chunks'.once
      BY <2>3
    <3> QED
      BY <1>1, <1>2, <2>1, <3>1 DEF ChunkTypes, ChunkingTypeOK
  <2>5. /\ Statements' /\ LastAtTheEnd' /\ Prefix' /\ SearchForward'
        /\ FetchedPrefix' /\ WrittenPrefix'
    BY <2>1, <2>3
       DEF Statements, LastAtTheEnd, Prefix, Splitting, SearchForward, Searching,
           FetchedPrefix, WrittenPrefix
  <2>6. EachRowOnce'
    BY <1>1, <2>2, <2>3 DEF EachRowOnce
  <2> QED
    BY <1>4, <2>4, <2>5, <2>6 DEF ChunkInv
<1>7. CASE type = "other" /\ rows # {}
  <2>1. pc' = "fetch" /\ current' = current /\ file' = file /\ chunks' = chunks
    BY <1>7 DEF chunk_column
  <2>2. ChunkTypes'
    BY <1>1, <1>2, <2>1 DEF ChunkTypes, ChunkingTypeOK
  <2>3. /\ Statements' /\ LastAtTheEnd' /\ Prefix' /\ SearchForward'
        /\ WrittenPrefix' /\ EachRowOnce'
    BY <1>1, <1>2, <1>7, <2>1
       DEF Statements, LastAtTheEnd, Prefix, Splitting, SearchForward, Searching,
           WrittenPrefix, EachRowOnce, Chunked
  <2>4. FetchedPrefix'
    <3>1. \A r \in stable : ~(r < min)
      <4>1. \A r \in stable : r \in Int /\ min <= r
        BY <1>2, <1>3 DEF ChunkTypes, ChunkingTypeOK, FirstAndLastKey
      <4> QED
        BY <1>2, <4>1
    <3>2. consistent => min \in rows /\ stable = rows
      BY <1>2, <1>7 DEF FirstAndLastKey
    <3>3. consistent => {} = {r \in rows : r < min}
      BY <3>1, <3>2
    <3> QED
      BY <1>1, <1>2, <2>1, <3>1, <3>2, <3>3 DEF FetchedPrefix
  <2> QED
    BY <1>4, <2>2, <2>3, <2>4 DEF ChunkInv
<1>8. CASE type \in IntegerTypes
  <2>1. pc' = "step" /\ current' = current /\ file' = file /\ chunks' = chunks
    BY <1>8 DEF chunk_column, IntegerTypes
  <2>2. ChunkTypes'
    BY <1>1, <1>2, <2>1 DEF ChunkTypes, ChunkingTypeOK
  <2>3. /\ Statements' /\ LastAtTheEnd' /\ SearchForward'
        /\ FetchedPrefix' /\ WrittenPrefix' /\ EachRowOnce'
    BY <1>1, <1>2, <1>8, <2>1
       DEF Statements, LastAtTheEnd, Splitting, SearchForward, Searching,
           FetchedPrefix, WrittenPrefix, EachRowOnce, Chunked
  <2>4. Prefix'
    <3>1. min <= max /\ min <= min /\ {} = min .. min - 1
      BY <1>2, <1>8 DEF FirstAndLastKey
    <3> QED
      BY <1>1, <1>2, <2>1, <3>1 DEF Prefix
  <2> QED
    BY <1>4, <2>2, <2>3, <2>4 DEF ChunkInv
<1> QED
  BY <1>2, <1>5, <1>6, <1>7, <1>8 DEF Algorithms, IntegerTypes

LEMMA InterruptedKeeps == ChunkInv /\ (Interrupted \/ WriteInterrupted) => ChunkInv'
<1> SUFFICES ASSUME ChunkInv, Interrupted \/ WriteInterrupted PROVE ChunkInv'
  OBVIOUS
<1>1. /\ pc # "done" /\ pc' = "done" /\ interrupted
      /\ chunks' = chunks \/ chunks' = Chunk(chunks, min, max, TRUE)
      /\ type' = type /\ info' = info /\ consistent' = consistent
      /\ min' = min /\ max' = max /\ rows' = rows /\ stable' = stable
      /\ changes' = changes /\ interrupted' = interrupted /\ search' = search
      /\ current' = current /\ file' = file
  BY DEF Interrupted, WriteInterrupted, input, table,
         create_and_push_table_data_chunk_task
<1>2. /\ ChunkTypes /\ FirstAndLastKey /\ chunks.last = 0
      /\ chunks.twice \subseteq chunks.once
  BY <1>1 DEF ChunkInv, LastAtTheEnd, ChunkTypes, ChunkingTypeOK
<1>3. chunks'.twice \subseteq chunks'.once /\ chunks'.last \in 0 .. 1
  <2>1. CASE chunks' = chunks
    BY <1>2, <2>1
  <2>2. CASE chunks' = Chunk(chunks, min, max, TRUE)
    BY <1>2, <2>2 DEF Chunk
  <2> QED
    BY <1>1, <2>1, <2>2
<1>4. ChunkTypes'
  BY <1>1, <1>2, <1>3 DEF ChunkTypes, ChunkingTypeOK
<1>5. FirstAndLastKey'
  BY <1>1, <1>2 DEF FirstAndLastKey
<1> QED
  BY <1>1, <1>4, <1>5
     DEF ChunkInv, Statements, LastAtTheEnd, Prefix, Splitting, SearchForward,
         Searching, FetchedPrefix, WrittenPrefix, EachRowOnce, Chunked

LEMMA InterruptKeeps == ChunkInv /\ Interrupt => ChunkInv'
<1> SUFFICES ASSUME ChunkInv, Interrupt PROVE ChunkInv'
  OBVIOUS
<1>1. /\ pc \in {"step", "fetch", "write"} /\ pc' = pc /\ interrupted' = TRUE
      /\ input' = input
      /\ type' = type /\ info' = info /\ consistent' = consistent
      /\ min' = min /\ max' = max /\ rows' = rows /\ stable' = stable
      /\ changes' = changes /\ search' = search /\ chunks' = chunks
      /\ current' = current /\ file' = file
  BY DEF Interrupt, input, table
<1>2. ChunkTypes'
  BY <1>1 DEF ChunkInv, ChunkTypes, ChunkingTypeOK
<1>3. FirstAndLastKey'
  BY <1>1 DEF ChunkInv, FirstAndLastKey
<1>4. Prefix'
  BY <1>1, SameEstimates DEF ChunkInv, Prefix, Splitting
<1>5. Statements' /\ LastAtTheEnd' /\ FetchedPrefix' /\ WrittenPrefix'
  BY <1>1
     DEF ChunkInv, Statements, Splitting, LastAtTheEnd, FetchedPrefix, WrittenPrefix
<1>6. SearchForward' /\ EachRowOnce'
  BY <1>1 DEF SearchForward, Searching, EachRowOnce, Chunked
<1> QED
  BY <1>2, <1>3, <1>4, <1>5, <1>6 DEF ChunkInv

LEMMA ChangeKeeps == ChunkInv /\ Change => ChunkInv'
<1> SUFFICES ASSUME ChunkInv, Change PROVE ChunkInv'
  OBVIOUS
<1>1. /\ pc = "fetch" /\ pc' = pc /\ ~consistent /\ changes < MaxChanges
      /\ changes' = changes + 1 /\ interrupted' = interrupted
      /\ type' = type /\ info' = info /\ consistent' = consistent
      /\ min' = min /\ max' = max
      /\ search' = search /\ chunks' = chunks
      /\ current' = current /\ file' = file
  BY DEF Change, input
<1>2. PICK r \in 1 .. MaxRows :
        /\ rows' = IF r \in rows THEN rows \ {r} ELSE rows \cup {r}
        /\ stable' = stable \ {r}
  BY DEF Change
<1>3. /\ ChunkTypes /\ FirstAndLastKey /\ type = "other"
      /\ stable \subseteq rows /\ rows \subseteq 1 .. MaxRows
  BY <1>1 DEF ChunkInv, Statements, ChunkTypes, ChunkingTypeOK
<1>4. stable' \subseteq rows' /\ rows' \subseteq 1 .. MaxRows /\ stable' \subseteq stable
  BY <1>2, <1>3
<1>5. ChunkTypes'
  <2>1. changes + 1 \in 0 .. MaxChanges
    BY <1>1, <1>3, ChunkingAssumption DEF ChunkTypes, ChunkingTypeOK
  <2> QED
    BY <1>1, <1>3, <1>4, <2>1 DEF ChunkTypes, ChunkingTypeOK
<1>6. FirstAndLastKey'
  BY <1>1, <1>3, <1>4 DEF FirstAndLastKey, IntegerTypes
<1>7. /\ Statements' /\ LastAtTheEnd' /\ Prefix' /\ SearchForward'
      /\ WrittenPrefix' /\ EachRowOnce'
  BY <1>1
     DEF ChunkInv, Statements, LastAtTheEnd, Prefix, Splitting, SearchForward,
         Searching, WrittenPrefix, EachRowOnce, Chunked
<1>8. FetchedPrefix'
  BY <1>1, <1>4 DEF ChunkInv, FetchedPrefix
<1> QED
  BY <1>5, <1>6, <1>7, <1>8 DEF ChunkInv


LEMMA ChunkInvInit == ChunkingInit => ChunkInv
<1> SUFFICES ASSUME ChunkingInit PROVE ChunkInv
  OBVIOUS
<1>1. /\ pc = "chunk_column" /\ current = min /\ file = 0
      /\ chunks.once = {} /\ chunks.twice = {} /\ chunks.last = 0
      /\ interrupted = FALSE /\ stable = rows /\ changes = 0
      /\ search = NoSearch /\ info \in Statistics
      /\ info.row_count = 0 => info.rows_per_chunk > 0
  BY DEF ChunkingInit, NoChunks
<1>2. MaxRows \in Nat /\ MaxChanges \in Nat
      /\ k_chunker_retries \in Nat /\ k_chunker_iterations \in Nat
  BY ChunkingAssumption
<1>3. search \in SearchRecords /\ search.retry = 0 /\ search.i = 0
  BY <1>1 DEF NoSearch, SearchRecords
<1>4. /\ type \in Algorithms /\ consistent \in BOOLEAN
      /\ rows \subseteq 1 .. MaxRows /\ min \in Int /\ max \in Int
      /\ FirstAndLastKey
  <2>1. CASE IntegerInput
    <3>1. type \in IntegerTypes /\ type \notin {"other", "no_index"}
      BY <2>1 DEF IntegerInput, IntegerTypes
    <3>2. /\ min \in Int /\ max \in Int /\ TypeMin(type) <= min
          /\ min <= max /\ max <= TypeMax(type)
          /\ rows = {} /\ consistent = TRUE
      BY <2>1 DEF IntegerInput
    <3> QED
      BY <1>1, <3>1, <3>2 DEF FirstAndLastKey, Algorithms, IntegerTypes
  <2>2. CASE OtherInput
    <3>1. /\ type \in {"other", "no_index"} /\ consistent \in BOOLEAN
          /\ rows \subseteq 1 .. MaxRows
          /\ type = "no_index" => rows = 1 .. Cardinality(rows) /\ consistent = TRUE
          /\ rows = {} => min = 0 /\ max = 0
          /\ rows # {} => /\ min \in rows /\ \A r \in rows : min <= r
                          /\ max \in rows /\ \A r \in rows : r <= max
      BY <2>2 DEF OtherInput
    <3>2. \A r \in rows : r \in Int
      BY <1>2, <3>1
    <3>3. min \in Int /\ max \in Int
      <4>1. CASE rows = {}
        BY <3>1, <4>1
      <4>2. CASE rows # {}
        <5>1. min \in rows /\ max \in rows
          BY <3>1, <4>2
        <5> QED
          BY <3>2, <5>1
      <4> QED
        BY <4>1, <4>2
    <3>4. ASSUME type = "no_index" PROVE max \in 0 .. MaxRows /\ rows = 1 .. max
      <4>1. Cardinality(rows) \in Nat
        <5>1. IsFiniteSet(1 .. MaxRows)
          BY <1>2, FS_Interval
        <5>2. IsFiniteSet(rows)
          BY <3>1, <5>1, FS_Subset
        <5> QED
          BY <5>2, FS_CardinalityType
      <4>2. PICK n \in Nat : n = Cardinality(rows)
        BY <4>1
      <4>3. rows = 1 .. n
        BY <3>1, <3>4, <4>2
      <4>4. CASE n = 0
        <5>1. rows = {} /\ 1 .. 0 = {}
          BY <4>3, <4>4
        <5> QED
          BY <1>2, <3>1, <5>1
      <4>5. CASE n > 0
        <5>1. n \in rows
          BY <4>3, <4>5
        <5>2. max \in rows /\ n <= max
          BY <3>1, <5>1
        <5>3. max = n
          BY <4>3, <5>2
        <5>4. n <= MaxRows
          BY <1>2, <3>1, <5>1
        <5> QED
          BY <1>2, <4>3, <5>3, <5>4
      <4> QED
        BY <4>4, <4>5
    <3>5. type \notin IntegerTypes /\ type \in Algorithms
      BY <3>1 DEF IntegerTypes, Algorithms
    <3>6. \A r \in stable : min <= r /\ r <= max
      BY <1>1, <3>1
    <3>7. rows # {} => min \in rows /\ max \in rows
      BY <3>1
    <3> QED
      BY <1>1, <3>1, <3>3, <3>4, <3>5, <3>6, <3>7 DEF FirstAndLastKey
  <2> QED
    BY <2>1, <2>2 DEF ChunkingInit
<1>5. ChunkTypes
  <2>1. /\ 0 \in 0 .. MaxRows + 1 /\ 0 \in 0 .. MaxChanges /\ 0 \in 0 .. 1
        /\ 0 \in 0 .. k_chunker_retries /\ 0 \in 0 .. k_chunker_iterations
        /\ {} \subseteq chunks.once
    BY <1>2
  <2>2. ChunkingTypeOK
    BY <1>1, <1>3, <1>4, <2>1 DEF ChunkingTypeOK
  <2> QED
    BY <1>1, <1>3, <1>4, <2>2 DEF ChunkTypes
<1> QED
  BY <1>1, <1>4, <1>5
     DEF ChunkInv, Statements, LastAtTheEnd, Prefix, Splitting, SearchForward,
         Searching, FetchedPrefix, WrittenPrefix, EachRowOnce, Chunked

LEMMA ChunkInvStep == ChunkInv /\ [ChunkingNext]_chunkingVars => ChunkInv'
<1> SUFFICES ASSUME ChunkInv, [ChunkingNext]_chunkingVars PROVE ChunkInv'
  OBVIOUS
<1>1. CASE UNCHANGED chunkingVars
  <2>1. /\ pc' = pc /\ input' = input
        /\ type' = type /\ info' = info /\ consistent' = consistent
        /\ min' = min /\ max' = max /\ rows' = rows /\ stable' = stable
        /\ changes' = changes /\ search' = search /\ chunks' = chunks
        /\ current' = current /\ file' = file /\ interrupted' = interrupted
    BY <1>1 DEF chunkingVars, input, table
  <2>2. ChunkTypes' /\ FirstAndLastKey' /\ Statements' /\ LastAtTheEnd'
    BY <2>1 DEF ChunkInv, ChunkTypes, ChunkingTypeOK, FirstAndLastKey, Statements,
                Splitting, LastAtTheEnd
  <2>3. Prefix'
    BY <2>1, SameEstimates DEF ChunkInv, Prefix, Splitting
  <2>4. FetchedPrefix' /\ WrittenPrefix' /\ EachRowOnce'
    BY <2>1 DEF ChunkInv, FetchedPrefix, WrittenPrefix, EachRowOnce, Chunked, Keys
  <2>5. SearchForward'
    <3>1. Stalls' <=> Stalls
      BY <2>1, SameEstimates DEF Stalls
    <3>2. Lands(search.middle)' <=> Lands(search.middle)
      BY <2>1, SameLanding
    <3>3. SearchedRange' <=> SearchedRange
      BY <2>1 DEF SearchedRange
    <3> QED
      BY <2>1, <3>1, <3>2, <3>3, SameEstimates DEF ChunkInv, SearchForward, Searching
  <2> QED
    BY <2>2, <2>3, <2>4, <2>5 DEF ChunkInv
<1>2. CASE ChunkingNext
  BY <1>1, <1>2, AdaptiveStepKeeps, RetryKeeps, NarrowKeeps, SkipRangeKeeps,
     ImpossibleRangeKeeps, EndSearchKeeps, NextRangeKeeps, ConstantStepKeeps,
     StepFoundKeeps, FetchKeeps, WriteRowKeeps, FinishWritingKeeps,
     ChunkColumnKeeps, InterruptedKeeps, InterruptKeeps, ChangeKeeps
     DEF ChunkingNext, Chunker
<1> QED
  BY <1>1, <1>2

\* A chunk which does not end before the current key is the last one, or the
\* next one begins behind it.
LEMMA PushAdvances ==
  ASSUME ChunkInv, Splitting, NEW next_step, PushRange(next_step),
         LastOf(next_step) \in Int, LastOf(next_step) >= current
  PROVE  pc' = "done" \/ current' > current
<1>1. PICK last \in Int : last = LastOf(next_step)
  OBVIOUS
<1>2. /\ current' = In(type, last + 1)
      /\ pc' = IF last >= max THEN "done" ELSE "step"
  BY <1>1 DEF PushRange, LastOf
<1>3. /\ min \in Int /\ max \in Int /\ current \in Int
      /\ min <= current /\ current <= max /\ type \in IntegerTypes
      /\ ChunkTypes /\ FirstAndLastKey
  BY SearchFacts
<1>4. ASSUME last < max PROVE In(type, last + 1) = last + 1
  <2>1. CASE type = "Decimal"
    BY <2>1 DEF In
  <2>2. CASE type \in WordTypes
    <3>1. TypeMin(type) <= min /\ max <= TypeMax(type)
      BY <1>3, <2>2, KeysAreWords
    <3>2. PICK n \in Int : n = last + 1
      OBVIOUS
    <3>3. TypeMin(type) <= n /\ n <= TypeMax(type)
      BY <1>1, <1>3, <1>4, <2>2, <3>1, <3>2, WordLimits
    <3>4. In(type, n) = n
      BY <2>2, <3>3, InExact
    <3> QED
      BY <3>2, <3>4
  <2> QED
    BY <1>3, <2>1, <2>2 DEF IntegerTypes, WordTypes
<1>5. CASE last >= max
  BY <1>2, <1>5
<1>6. CASE last < max
  BY <1>1, <1>2, <1>3, <1>4, <1>6
<1> QED
  BY <1>3, <1>5, <1>6

\* Rows of a snapshot are fetched in order.
LEMMA FetchAdvances ==
  ASSUME ChunkInv, consistent, chunk_non_integer_column
  PROVE  pc' = "done" \/ current' > current
<1>1. PICK e \in Int : e = RowAt(info.rows_per_chunk)
  BY FetchedRows DEF ChunkInv
<1>2. PICK c \in Int : c = RowAt(info.rows_per_chunk + 1)
  BY FetchedRows DEF ChunkInv
<1>3. /\ pc = "fetch" /\ current' = c
      /\ pc' = IF e = max THEN "done" ELSE "fetch"
  BY <1>1, <1>2 DEF chunk_non_integer_column
<1>4. e # max =>
        /\ e \in rows /\ e >= current
        /\ (\E y \in rows : e < y) => c \in rows /\ e < c
  BY <1>1, <1>2, FetchedRows DEF ChunkInv
<1>5. /\ current \in Int /\ max \in rows /\ max \in Int
      /\ \A r \in rows : r <= max
  BY <1>3 DEF ChunkInv, ChunkTypes, FetchedPrefix, FirstAndLastKey
<1>6. CASE e # max
  <2>1. e < max
    BY <1>4, <1>5, <1>6
  <2>2. e < c /\ e >= current
    BY <1>4, <1>5, <1>6, <2>1
  <2> QED
    BY <1>3, <1>5, <2>2
<1> QED
  BY <1>3, <1>6

\* The invariant of the algorithms which split a table: the keys before the
\* current one are in exactly one chunk, whatever is being searched.
THEOREM ChunkingInvariance == ChunkingSpec => []ChunkInv
<1>1. ChunkingInit => ChunkInv
  BY ChunkInvInit
<1>2. ChunkInv /\ [ChunkingNext]_chunkingVars => ChunkInv'
  BY ChunkInvStep
<1> QED
  BY <1>1, <1>2, PTL DEF ChunkingSpec

\* create_table_data_tasks() puts every row of a snapshot in exactly one chunk,
\* and loses no row nobody touches: words of any size, tables, statistics and
\* estimates of any size.
THEOREM EachRowOnceCorrect == ChunkingSpec => []EachRowOnce
<1>1. ChunkInv => EachRowOnce
  BY DEF ChunkInv
<1> QED
  BY <1>1, ChunkingInvariance, PTL

\* One chunk is marked as the last one, and it is the one created last.
THEOREM OneLastChunkCorrect == ChunkingSpec => []OneLastChunk
<1>1. ChunkInv => OneLastChunk
  BY DEF ChunkInv, ChunkTypes, LastAtTheEnd, OneLastChunk
<1> QED
  BY <1>1, ChunkingInvariance, PTL

\* Every chunk of a snapshot but the last one moves the loop towards the last key:
\* what is left of a table is the variant of the loop.
THEOREM ChunksAdvanceCorrect == ChunkingSpec => ChunksAdvance
<1> DEFINE Advances ==
             consistent /\ (constant_step \/ StepFound \/ chunk_non_integer_column)
               => pc' = "done" \/ current' > current
<1>1. ChunkInv /\ [ChunkingNext]_chunkingVars => [Advances]_chunkingVars
  <2> SUFFICES ASSUME ChunkInv, consistent,
                      constant_step \/ StepFound \/ chunk_non_integer_column
               PROVE  pc' = "done" \/ current' > current
    OBVIOUS
  <2>1. CASE constant_step
    <3>1. Splitting /\ PushRange(estimated_step)
      BY <2>1 DEF constant_step, Splitting
    <3>2. LastOf(estimated_step) \in Int /\ LastOf(estimated_step) >= current
      BY <3>1, ConstantStep, SearchFacts
    <3> QED
      BY <3>1, <3>2, PushAdvances
  <2>2. CASE StepFound
    <3>1. Splitting
      BY <2>2 DEF StepFound, Splitting
    <3> QED
      BY <2>2, <3>1, FoundStep, PushAdvances
  <2>3. CASE chunk_non_integer_column
    BY <2>3, FetchAdvances
  <2> QED
    BY <2>1, <2>2, <2>3
<1> QED
  BY <1>1, ChunkingInvariance, PTL DEF ChunkingSpec, ChunksAdvance
=============================================================================
