----------------------------- MODULE LoadStages -----------------------------
(***************************************************************************)
(* The stages of Dump_loader::execute_tasks(), over several runs of a load *)
(* each of which may be killed at any point: the progress log is opened,   *)
(* existing objects are looked for, the DDL of schemas, tables and         *)
(* placeholders of views is fetched by a thread pool and executed by the   *)
(* workers, then users, views, data and deferred indexes, foreign keys,    *)
(* triggers, secondary engines and gtid_purged follow.                     *)
(*                                                                         *)
(* The log is the set of the steps it has as DONE: what it says of steps   *)
(* that were begun is only printed (data is the exception, see LoadData).  *)
(* How data is scheduled is in LoadSchedule, the threads and their weights *)
(* are in LoadWorkers, the pool is in ThreadPool.                          *)
(***************************************************************************)
EXTENDS Naturals, FiniteSets

CONSTANTS
  Schemas, Tables, Views,
  Home,           \* Home[x]: the schema of table or view x
  Indexes,        \* Indexes[t]: the indexes of t, each is a batch
  ForeignKeys,    \* tables with foreign keys
  Engines,        \* tables with a secondary engine
  Triggers,       \* tables with triggers
  Workers,
  OptionSets,     \* the options that are checked
  Existing,       \* the sets of tables and views the server may have
  MaxRuns,        \* bound: number of runs
  None

Options == [ignore_existing_objects : BOOLEAN,
            update_gtid_set : {"OFF", "REPLACE", "APPEND"}]

\* Objects of different kinds are different, and so are the statements.
ASSUME StagesAssumption ==
  /\ Home \in [Tables \cup Views -> Schemas]
  /\ Schemas \cap (Tables \cup Views) = {}
  /\ DOMAIN Indexes = Tables
  /\ Schemas \cap [what : (UNION {Indexes[t] : t \in Tables})
                             \cup {"fk", "engine", "triggers"}, of : Tables] = {}
  /\ \A t \in Tables : Indexes[t] \cap {"fk", "engine", "triggers"} = {}
  /\ ForeignKeys \cup Engines \cup Triggers \subseteq Tables
  /\ OptionSets \subseteq Options
  /\ \A e \in Existing : e \subseteq Tables \cup Views
  /\ Workers # {} /\ MaxRuns \in Nat \ {0}

VARIABLES
  opt,
  user,                \* objects the user had
  server,              \* what the server has
  log,                 \* the progress log
  run,                 \* number of this run
  pc, outcome,         \* of the main thread
  m_last_state,        \* the log of the earlier runs
  m_resuming,
  exists,              \* objects which were found to exist
  fetching,            \* tasks whose script the pool fetches
  worker_tasks,        \* tasks whose script was fetched
  m_schema_ddl_ready,
  current,             \* the worker that is to get a task
  m_task, state,       \* of every worker
  deferred,            \* deferred statements of every table
  todo,                \* what is left of a stage
  to_log,              \* the step that is to be logged
  checked              \* history: existing objects were looked for

serverVars == <<opt, user, server, run, checked>>
workerVars == <<m_task, state>>
poolVars == <<fetching, worker_tasks>>
runVars == <<m_last_state, m_resuming, exists>>
vars == <<serverVars, log, pc, outcome, runVars, poolVars,
          m_schema_ddl_ready, current, workerVars, deferred, todo, to_log>>

In(s, objects) == {x \in objects : Home[x] = s}

\* Keys of the log.
Step(what, of) == [what |-> what, of |-> of]
ServerUuid == Step("server_uuid", None)
GtidUpdate == Step("gtid", None)

Task(type, of) == [type |-> type, of |-> of]

\* do_log(): nothing is logged that earlier runs have logged as DONE.
Logged(step) == IF step \in m_last_state THEN log ELSE log \cup {step}

Status(step) == step \in m_last_state

\* What of a set of objects is on the server.
OnServer(objects) == {x \in objects : server.object[x] # "none"}

\* Objects of the user have the indexes of the dump, or not.
Init ==
  /\ opt \in OptionSets
  /\ user \in Existing
  /\ \E indexed \in BOOLEAN :
       server = [object |-> [x \in Tables \cup Views |->
                               IF x \in user THEN "user" ELSE "none"],
                 schemas |-> {Home[x] : x \in user},
                 statements |-> IF indexed
                                THEN UNION {{Step(i, t) : i \in Indexes[t]} :
                                              t \in user \cap Tables}
                                ELSE {},
                 loaded |-> {}, users |-> FALSE, gtid |-> FALSE]
  /\ log = {}
  /\ run = 1
  /\ checked = FALSE
  /\ pc = "open" /\ outcome = "none"
  /\ m_last_state = {} /\ m_resuming = FALSE /\ exists = {}
  /\ fetching = {} /\ worker_tasks = {} /\ m_schema_ddl_ready = {}
  /\ current = None
  /\ m_task = [w \in Workers |-> None]
  /\ state = [w \in Workers |-> "ready"]
  /\ deferred = [t \in Tables |-> {}]
  /\ todo = {} /\ to_log = None

Ended(how) == pc' = "end" /\ outcome' = how
-----------------------------------------------------------------------------
(* The beginning of a run.                                                 *)

unchangedByStart == <<opt, user, server, run, poolVars, m_schema_ddl_ready,
                      current, workerVars, deferred, todo, to_log>>

\* Load_progress_log::init(): the file is read and opened for writing ...
OpenLog ==
  /\ pc = "open"
  /\ m_last_state' = log
  /\ log' = {}
  /\ pc' = "rewrite"
  /\ UNCHANGED <<outcome, m_resuming, exists, checked, unchangedByStart>>

\* ... and written back; setup_progress_file() adds the UUID.
RewriteLog ==
  /\ pc = "rewrite"
  /\ log' = m_last_state \cup {ServerUuid}
  /\ m_resuming' = (m_last_state # {})
  /\ checked' = (checked /\ m_last_state # {})
  /\ pc' = "check"
  /\ UNCHANGED <<outcome, m_last_state, exists, unchangedByStart>>

Duplicates == OnServer(Tables \cup Views)

\* check_existing_objects(), only if the load does not seem to be resumed.
CheckExistingObjects ==
  /\ pc = "check"
  /\ IF /\ ~m_resuming /\ ~opt.ignore_existing_objects
        /\ Duplicates # {} \/ server.users
     THEN Ended("duplicates") /\ UNCHANGED checked
     ELSE /\ pc' = "prepare"
          /\ checked' = (checked \/ ~m_resuming)
          /\ UNCHANGED outcome
  /\ UNCHANGED <<log, runVars, unchangedByStart>>
-----------------------------------------------------------------------------
(* execute_table_ddl_tasks()                                               *)

\* A plausible bug: placeholders are created for views which exist.
MutantPlaceholders(found) == {v \in Views : ~Status(Step("schema", Home[v]))}

\* Views are tracked together with their schema.
Placeholders(found) ==
  {v \in Views : ~Status(Step("schema", Home[v])) /\ v \notin found}

\* Whether objects exist is asked before any of the DDL is executed, and
\* not again.
PrepareTableDdl ==
  /\ pc = "prepare"
  /\ exists' = IF opt.ignore_existing_objects THEN Duplicates ELSE {}
  /\ LET pending == {s \in Schemas : ~Status(Step("schema", s))} IN
     /\ fetching' = {Task("schema", s) : s \in pending}
                    \cup {Task("placeholder", v) : v \in Placeholders(exists')}
                    \cup {Task("table", t) : t \in Tables}
     /\ m_schema_ddl_ready' = Schemas \ pending
  /\ pc' = "ddl"
  /\ UNCHANGED <<serverVars, log, outcome, m_last_state, m_resuming,
                 worker_tasks, current, workerVars, deferred, todo, to_log>>

\* A thread of the pool has fetched a script.
Fetch(task) ==
  /\ pc \in {"ddl", "next"}
  /\ task \in fetching
  /\ fetching' = fetching \ {task}
  /\ worker_tasks' = worker_tasks \cup {task}
  /\ UNCHANGED <<serverVars, log, pc, outcome, runVars, m_schema_ddl_ready,
                 current, workerVars, deferred, todo, to_log>>

\* READY: the main thread looks for a task.
HandleReady(w) ==
  /\ pc = "ddl"
  /\ state[w] = "ready"
  /\ current' = w
  /\ pc' = "next"
  /\ UNCHANGED <<serverVars, log, outcome, runVars, poolVars,
                 m_schema_ddl_ready, workerVars, deferred, todo, to_log>>

\* Schemas come first, tables and placeholders when their schema is ready.
CanBeExecuted(task) ==
  \/ task.type = "schema"
  \/ /\ \A other \in worker_tasks : other.type # "schema"
     /\ Home[task.of] \in m_schema_ddl_ready

\* It tries until there is one, and handles no events meanwhile.
NextTask ==
  /\ pc = "next"
  /\ \E task \in worker_tasks :
       /\ CanBeExecuted(task)
       /\ worker_tasks' = worker_tasks \ {task}
       /\ m_task' = [m_task EXCEPT ![current] = task]
  /\ state' = [w \in Workers |-> IF w = current THEN "busy"
                                 ELSE IF state[w] = "idle" THEN "ready"
                                 ELSE state[w]]
  /\ current' = None
  /\ pc' = "ddl"
  /\ UNCHANGED <<serverVars, log, outcome, runVars, fetching,
                 m_schema_ddl_ready, deferred, todo, to_log>>

NoMoreTasks ==
  /\ pc = "next"
  /\ fetching = {} /\ worker_tasks = {}
  /\ state' = [state EXCEPT ![current] = "idle"]
  /\ current' = None
  /\ pc' = "ddl"
  /\ UNCHANGED <<serverVars, log, outcome, runVars, poolVars,
                 m_schema_ddl_ready, m_task, deferred, todo, to_log>>

\* The server rejects a statement, the run ends.
Rejected ==
  /\ Ended("rejected")
  /\ UNCHANGED <<server, m_schema_ddl_ready, workerVars, deferred, todo,
                 to_log>>

\* A plausible bug: the schema is ready once its event was handled.
MutantExecuteSchemaDdl(w) ==
  /\ m_task[w].type = "schema"
  /\ server' = [server EXCEPT !.schemas = @ \cup {m_task[w].of}]
  /\ state' = [state EXCEPT ![w] = "ended"]
  /\ UNCHANGED <<m_schema_ddl_ready, pc, outcome, m_task, deferred, todo,
                 to_log>>

\* Schema_ddl_task::execute(): it is the worker who tells that the schema is
\* ready.
ExecuteSchemaDdl(w) ==
  /\ m_task[w].type = "schema"
  /\ server' = [server EXCEPT !.schemas = @ \cup {m_task[w].of}]
  /\ m_schema_ddl_ready' = m_schema_ddl_ready \cup {m_task[w].of}
  /\ state' = [state EXCEPT ![w] = "ended"]
  /\ UNCHANGED <<pc, outcome, m_task, deferred, todo, to_log>>

\* The script of a placeholder drops the view and creates it again.
ExecutePlaceholderDdl(w) ==
  /\ m_task[w].type = "placeholder"
  /\ IF Home[m_task[w].of] \notin server.schemas
     THEN Rejected
     ELSE /\ server' = [server EXCEPT !.object[m_task[w].of] = "placeholder"]
          /\ state' = [state EXCEPT ![w] = "ended"]
          /\ UNCHANGED <<pc, outcome, m_task, m_schema_ddl_ready, deferred,
                         todo, to_log>>

Statements(t) ==
  {Step(i, t) : i \in Indexes[t]}
    \cup (IF t \in ForeignKeys THEN {Step("fk", t)} ELSE {})
    \cup (IF t \in Engines THEN {Step("engine", t)} ELSE {})

\* A plausible bug: only tables which exist are looked at, not the ones an
\* earlier run has created.
MutantRemoveDuplicates(t) ==
  IF opt.ignore_existing_objects THEN Statements(t) \ server.statements
                                 ELSE Statements(t)

MayHaveSome(t) == Status(Step("table", t)) \/ opt.ignore_existing_objects

\* remove_duplicate_deferred_statements(), for tables that may have some.
RemoveDuplicates(t) ==
  IF MayHaveSome(t) THEN Statements(t) \ server.statements ELSE Statements(t)

\* Table_ddl_task::execute(): CREATE TABLE IF NOT EXISTS, unless it was done.
ExecuteTableDdl(w) ==
  /\ m_task[w].type = "table"
  /\ LET t == m_task[w].of
         create == ~Status(Step("table", t)) /\ t \notin exists
         left == RemoveDuplicates(t) IN
     IF \/ Home[t] \notin server.schemas
        \/ /\ MayHaveSome(t)
           /\ Step("engine", t) \in server.statements /\ left # {}
     THEN Rejected
     ELSE /\ server' = IF create /\ server.object[t] = "none"
                       THEN [server EXCEPT !.object[t] = "dumped"] ELSE server
          /\ m_task' = [m_task EXCEPT ![w] = [type |-> "table", of |-> t,
                                              left |-> left]]
          /\ state' = [state EXCEPT ![w] = "ended"]
          /\ UNCHANGED <<pc, outcome, m_schema_ddl_ready, deferred, todo,
                         to_log>>

\* handle_worker_events(): the end of a task.
HandleEnd(w) ==
  /\ pc \in {"ddl", "data"}
  /\ state[w] = "ended"
  /\ LET task == m_task[w] IN
     /\ log' = IF task.type \in {"table", "data"}
               THEN Logged(Step(task.type, task.of)) ELSE log
     /\ deferred' = IF task.type = "table"
                    THEN [deferred EXCEPT ![task.of] = task.left] ELSE deferred
  /\ state' = [state EXCEPT ![w] = "ready"]
  /\ m_task' = [m_task EXCEPT ![w] = None]
  /\ UNCHANGED <<serverVars, pc, outcome, runVars, poolVars,
                 m_schema_ddl_ready, current, todo, to_log>>

TableDdlDone ==
  /\ pc = "ddl"
  /\ \A w \in Workers : state[w] = "idle"
  /\ state' = [w \in Workers |-> "ready"]
  /\ m_schema_ddl_ready' = {}
  /\ pc' = "users"
  /\ UNCHANGED <<serverVars, log, outcome, runVars, poolVars, current, m_task,
                 deferred, todo, to_log>>
-----------------------------------------------------------------------------
(* Users and views.                                                        *)

unchangedByMain == <<opt, user, run, checked, runVars, poolVars,
                     m_schema_ddl_ready, current, workerVars, deferred>>

AllExist == OnServer(Tables \cup Views) = Tables \cup Views

\* load_users(): grants need the objects.
LoadUsers ==
  /\ pc = "users"
  /\ IF ~AllExist
     THEN Ended("rejected") /\ UNCHANGED <<server, todo>>
     ELSE /\ server' = [server EXCEPT !.users = TRUE]
          /\ todo' = {s \in Schemas : ~Status(Step("schema", s))}
          /\ pc' = "add_views" /\ UNCHANGED outcome
  /\ UNCHANGED <<log, to_log, unchangedByMain>>

\* execute_view_ddl_tasks(): schemas without views are done.
SchemaWithoutViews ==
  /\ pc = "add_views"
  /\ \E s \in todo \cap Schemas :
       /\ In(s, Views) = {}
       /\ log' = Logged(Step("schema", s))
       /\ todo' = todo \ {s}
  /\ UNCHANGED <<server, pc, outcome, to_log, unchangedByMain>>

\* Views of the others are fetched, unless they exist.
SchemaWithViews ==
  /\ pc = "add_views"
  /\ \E s \in todo \cap Schemas :
       /\ In(s, Views) # {}
       /\ todo' = (todo \ {s}) \cup (In(s, Views) \ exists)
  /\ UNCHANGED <<server, log, pc, outcome, to_log, unchangedByMain>>

AllViewsAdded ==
  /\ pc = "add_views"
  /\ todo \cap Schemas = {}
  /\ pc' = "views"
  /\ UNCHANGED <<server, log, outcome, todo, to_log, unchangedByMain>>

\* A plausible bug: the schema is done with its first view.
MutantViewsLeft(s, views) == {}

\* views_per_schema
ViewsLeft(s, views) == In(s, views)

\* One after another, in the order the pool has fetched them; a view may
\* refer to all other objects, and to users.
ExecuteViewDdl ==
  /\ pc = "views"
  /\ to_log = None
  /\ \E v \in todo :
       IF ~AllExist \/ ~server.users
       THEN Ended("rejected") /\ UNCHANGED <<server, todo, to_log>>
       ELSE /\ server' = [server EXCEPT !.object[v] = "dumped"]
            /\ todo' = todo \ {v}
            /\ to_log' = IF ViewsLeft(Home[v], todo \ {v}) = {}
                         THEN Step("schema", Home[v]) ELSE None
            /\ UNCHANGED <<pc, outcome>>
  /\ UNCHANGED <<log, unchangedByMain>>

\* The step the main thread has executed itself is logged.
LogStep ==
  /\ to_log # None
  /\ log' = Logged(to_log)
  /\ to_log' = None
  /\ UNCHANGED <<server, pc, outcome, todo, unchangedByMain>>

ViewsDone ==
  /\ pc = "views"
  /\ to_log = None
  /\ todo = {}
  /\ LET unloaded == {t \in Tables : ~Status(Step("data", t))}
         unindexed == {t \in Tables :
                         \E i \in Indexes[t] : Step(i, t) \in deferred[t]} IN
     todo' = {Task("data", t) : t \in unloaded}
             \cup {Task("index", t) : t \in unindexed}
  /\ pc' = "data"
  /\ UNCHANGED <<server, log, outcome, to_log, unchangedByMain>>
-----------------------------------------------------------------------------
(* Data and indexes.                                                       *)

Due(task) ==
  task.type = "index" =>
    /\ Task("data", task.of) \notin todo
    /\ \A w \in Workers : m_task[w] # Task("data", task.of)

Schedule(w) ==
  /\ pc = "data"
  /\ state[w] = "ready"
  /\ \E task \in todo :
       /\ Due(task)
       /\ todo' = todo \ {task}
       /\ m_task' = [m_task EXCEPT ![w] =
                       IF task.type = "data" THEN task
                       ELSE [type |-> "index", of |-> task.of, left |->
                               {i \in Indexes[task.of] :
                                  Step(i, task.of) \in deferred[task.of]}]]
  /\ state' = [state EXCEPT ![w] = "busy"]
  /\ UNCHANGED <<serverVars, log, pc, outcome, runVars, poolVars,
                 m_schema_ddl_ready, current, deferred, to_log>>

\* A table has a secondary engine: it cannot be altered.
Altered(statement) ==
  /\ statement \notin server.statements
  /\ Step("engine", statement.of) \notin server.statements

LoadData(w) ==
  /\ m_task[w].type = "data"
  /\ server' = [server EXCEPT !.loaded = @ \cup {m_task[w].of}]
  /\ state' = [state EXCEPT ![w] = "ended"]
  /\ UNCHANGED <<pc, outcome, m_task, m_schema_ddl_ready, deferred, todo,
                 to_log>>

\* Index_recreation_task::execute(): one batch after another.
CreateIndex(w) ==
  /\ m_task[w].type = "index"
  /\ \E i \in m_task[w].left :
       LET statement == Step(i, m_task[w].of)
           left == m_task[w].left \ {i} IN
       IF ~Altered(statement)
       THEN Rejected
       ELSE /\ server' = [server EXCEPT !.statements = @ \cup {statement}]
            /\ m_task' = [m_task EXCEPT ![w].left = left]
            /\ state' = [state EXCEPT ![w] = IF left = {} THEN "ended"
                                                         ELSE "busy"]
            /\ UNCHANGED <<pc, outcome, m_schema_ddl_ready, deferred, todo,
                           to_log>>

Execute(w) ==
  /\ pc # "end"
  /\ state[w] = "busy"
  /\ \/ ExecuteSchemaDdl(w) \/ ExecutePlaceholderDdl(w) \/ ExecuteTableDdl(w)
     \/ LoadData(w) \/ CreateIndex(w)
  /\ UNCHANGED <<opt, user, run, checked, log, runVars, poolVars, current>>

DataDone ==
  /\ pc = "data"
  /\ todo = {}
  /\ \A w \in Workers : state[w] = "ready"
  /\ todo' = Schemas
  /\ pc' = "schema_end"
  /\ UNCHANGED <<server, log, outcome, to_log, unchangedByMain>>
-----------------------------------------------------------------------------
(* on_dump_end()                                                           *)

\* What on_schema_end() executes: foreign keys, triggers, engines.
SchemaEnd(s) ==
  {d \in UNION {deferred[t] : t \in In(s, Tables)} :
     d.what \in {"fk", "engine"}}
    \cup {Step("triggers", t) : t \in In(s, Triggers)}

Rank(what) == CASE what = "fk" -> 1 [] what = "triggers" -> 2
                [] what = "engine" -> 3

\* on_schema_end() is entered for the next schema, they are in any order.
OnSchemaEnd ==
  /\ pc = "schema_end"
  /\ todo # {}
  /\ \E s \in todo : todo' = (todo \ {s}) \cup SchemaEnd(s)
  /\ pc' = "statements"
  /\ UNCHANGED <<server, log, outcome, to_log, unchangedByMain>>

NextStatement(x) ==
  \A y \in todo \ Schemas : Rank(x.what) <= Rank(y.what)

\* Triggers are not created again, they are dropped first otherwise.
ExecuteStatement ==
  /\ pc = "statements"
  /\ to_log = None
  /\ \E x \in todo \ Schemas :
       /\ NextStatement(x)
       /\ IF x.what = "triggers"
          THEN /\ server' = IF Status(x) THEN server
                            ELSE [server EXCEPT !.statements = @ \cup {x}]
               /\ to_log' = x
               /\ todo' = todo \ {x}
               /\ UNCHANGED <<pc, outcome>>
          ELSE IF ~Altered(x)
          THEN Ended("rejected") /\ UNCHANGED <<server, to_log, todo>>
          ELSE /\ server' = [server EXCEPT !.statements = @ \cup {x}]
               /\ todo' = todo \ {x}
               /\ UNCHANGED <<pc, outcome, to_log>>
  /\ UNCHANGED <<log, unchangedByMain>>

SchemaEnds ==
  /\ pc = "statements"
  /\ to_log = None
  /\ todo \subseteq Schemas
  /\ pc' = IF todo = {} THEN "gtid" ELSE "schema_end"
  /\ UNCHANGED <<server, log, outcome, todo, to_log, unchangedByMain>>

\* GTIDs which the server has can be set again, but not added again.
UpdateGtidPurged ==
  /\ pc = "gtid"
  /\ IF opt.update_gtid_set = "OFF" \/ Status(GtidUpdate)
     THEN pc' = "cleanup" /\ UNCHANGED <<server, outcome, to_log>>
     ELSE IF opt.update_gtid_set = "APPEND" /\ server.gtid
     THEN Ended("gtid rejected") /\ UNCHANGED <<server, to_log>>
     ELSE /\ server' = [server EXCEPT !.gtid = TRUE]
          /\ to_log' = GtidUpdate
          /\ pc' = "cleanup" /\ UNCHANGED outcome
  /\ UNCHANGED <<log, todo, unchangedByMain>>

Finish ==
  /\ pc = "cleanup"
  /\ to_log = None
  /\ Ended("ok")
  /\ UNCHANGED <<server, log, todo, to_log, unchangedByMain>>
-----------------------------------------------------------------------------
(* The end of a run, and the next one.                                     *)

\* The process is killed, or the run has ended, and the load is tried again.
\* Duplicate objects are dropped before, as the user is told, or not.
Restart ==
  /\ run < MaxRuns
  /\ run' = run + 1
  /\ \E dropped \in {{}} \cup (IF outcome = "duplicates"
                              THEN {Tables \cup Views} ELSE {}) :
     /\ server' =
          [server EXCEPT !.object = [x \in Tables \cup Views |->
                                       IF x \in dropped THEN "none" ELSE @[x]],
                         !.loaded = @ \ dropped,
                         !.users = @ /\ dropped = {},
                         !.statements = {x \in @ : x.of \notin dropped}]
     /\ user' = user \ dropped
  /\ pc' = "open" /\ outcome' = "none"
  /\ m_last_state' = {} /\ m_resuming' = FALSE /\ exists' = {}
  /\ fetching' = {} /\ worker_tasks' = {} /\ m_schema_ddl_ready' = {}
  /\ current' = None
  /\ m_task' = [w \in Workers |-> None]
  /\ state' = [w \in Workers |-> "ready"]
  /\ deferred' = [t \in Tables |-> {}]
  /\ todo' = {} /\ to_log' = None
  /\ UNCHANGED <<opt, log, checked>>

\* No more runs.
Finished == pc = "end" /\ run = MaxRuns /\ UNCHANGED vars

Main == \/ OpenLog \/ RewriteLog \/ CheckExistingObjects \/ PrepareTableDdl
        \/ NextTask \/ NoMoreTasks \/ TableDdlDone
        \/ LoadUsers \/ SchemaWithoutViews \/ SchemaWithViews \/ AllViewsAdded
        \/ ExecuteViewDdl \/ LogStep \/ ViewsDone \/ DataDone
        \/ OnSchemaEnd \/ ExecuteStatement \/ SchemaEnds \/ UpdateGtidPurged
        \/ Finish
        \/ \E w \in Workers : HandleReady(w) \/ HandleEnd(w) \/ Schedule(w)

Pool == \E task \in fetching : Fetch(task)

Next == Main \/ Pool \/ Restart \/ Finished
          \/ \E w \in Workers : Execute(w)

Spec == Init /\ [][Next]_vars

\* The threads run; nobody has to start a load again.
FairSpec == Spec /\ WF_vars(Main) /\ WF_vars(Pool)
                 /\ \A w \in Workers : WF_vars(Execute(w))
-----------------------------------------------------------------------------
Phases == {"open", "rewrite", "check", "prepare", "ddl", "next", "users",
           "add_views", "views", "data", "schema_end", "statements", "gtid",
           "cleanup", "end"}
Outcomes == {"none", "ok", "duplicates", "rejected", "gtid rejected"}

TypeOK ==
  /\ server.object \in [Tables \cup Views ->
                          {"none", "user", "placeholder", "dumped"}]
  /\ server.schemas \subseteq Schemas /\ server.loaded \subseteq Tables
  /\ pc \in Phases /\ outcome \in Outcomes
  /\ state \in [Workers -> {"ready", "busy", "ended", "idle"}]
  /\ current \in Workers \cup {None}

\* A view is there: it is the one of the dump, or one that was ignored.  If a
\* load that ignores what exists was interrupted, it may be a placeholder.
ViewIsThere(v) ==
  \/ server.object[v] = "dumped"
  \/ opt.ignore_existing_objects /\ server.object[v] = "user"
  \/ opt.ignore_existing_objects /\ run > 1
       /\ server.object[v] = "placeholder"

\* What the log has as DONE is on the server, whenever a run is killed: a later
\* run does not execute it again (dump_loader.cc:1221, 2314, 3739, 3920).
DoneIsThere ==
  /\ TypeOK
  /\ \A s \in Schemas : Step("schema", s) \in log =>
       s \in server.schemas /\ \A v \in In(s, Views) : ViewIsThere(v)
  /\ \A t \in Tables :
       /\ Step("table", t) \in log => server.object[t] # "none"
       /\ Step("data", t) \in log => t \in server.loaded
       /\ Step("triggers", t) \in log
            => Step("triggers", t) \in server.statements
  /\ GtidUpdate \in log => server.gtid

\* However often a load is interrupted, the runs which follow execute nothing
\* that the server rejects, if existing objects were looked for when it began:
\* no table before its schema, no grant before its object, no view before what
\* it refers to, no index or foreign key twice, no change of a table that has
\* got its secondary engine.  And while data is loaded its table has neither
\* triggers nor anything that is deferred (dump_loader.cc:1138, 2277, 3808,
\* 4035), unless existing tables are used.
StatementsAccepted ==
  /\ outcome = "rejected" => ~checked
  /\ checked /\ ~opt.ignore_existing_objects =>
       \A w \in Workers :
         pc # "end" /\ state[w] = "busy" /\ m_task[w].type = "data"
           => \A x \in server.statements : x.of # m_task[w].of

\* A load that ends well has everything: all the schemas, tables, data,
\* deferred statements, triggers, and the GTIDs; objects of the user are
\* kept if they are to be ignored (dump_loader.cc:4085).
OkMeansComplete ==
  /\ opt.ignore_existing_objects =>
       \A x \in user : server.object[x] = "user"
  /\ outcome = "ok" =>
       /\ server.schemas = Schemas /\ AllExist /\ server.users
       /\ server.loaded = Tables
       /\ \A v \in Views : ViewIsThere(v)
       /\ \A t \in Tables : Statements(t) \subseteq server.statements
       /\ \A t \in Triggers : Step("triggers", t) \in server.statements
       /\ opt.update_gtid_set # "OFF" => server.gtid

\* Every run ends: the main thread does not wait for a schema while the worker
\* who has created it waits for the main thread (dump_loader.cc:1067).
RunsEnd == pc # "end" ~> pc = "end"

\* A load that ends well has replaced all the placeholders: "Load will be
\* resumed from where it was left" (dump_loader.cc:3582).  It is not so for
\* loads that ignore existing objects.
PlaceholdersReplaced ==
  outcome = "ok" => \A v \in Views : server.object[v] # "placeholder"

\* Unless existing objects are to be ignored none of the user's is touched:
\* "any existing object results in an error" (mod_util.cc:1155).  It is not so
\* if the load is tried again, its log makes it a resumed one.
ExistingObjectsKept ==
  ~opt.ignore_existing_objects =>
    \A x \in user : server.object[x] = "user" /\ x \notin server.loaded
=============================================================================
