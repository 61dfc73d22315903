-------------------------- MODULE LoadStagesProofs --------------------------
(***************************************************************************)
(* Proofs about LoadStages, for all dumps, options and numbers of workers  *)
(* and runs: the log claims nothing that is not on the server, no run      *)
(* executes a statement the server rejects, a load that ends well is       *)
(* complete.                                                               *)
(***************************************************************************)
EXTENDS LoadStages, TLAPS

(***************************************************************************)
(* Types.                                                                  *)
(***************************************************************************)

Objects == Tables \cup Views
IndexNames == UNION {Indexes[t] : t \in Tables}
Statement == [what : IndexNames \cup {"fk", "engine", "triggers"}, of : Tables]
Server == [object : [Objects -> {"none", "user", "placeholder", "dumped"}],
           schemas : SUBSET Schemas, statements : SUBSET Statement,
           loaded : SUBSET Tables, users : BOOLEAN, gtid : BOOLEAN]

SchemaTask == [type : {"schema"}, of : Schemas]
PlaceholderTask == [type : {"placeholder"}, of : Views]
TableTask == [type : {"table"}, of : Tables]
TableDone == [type : {"table"}, of : Tables, left : SUBSET Statement]
DataTask == [type : {"data"}, of : Tables]
IndexTask == [type : {"index"}, of : Tables, left : SUBSET IndexNames]

Before == {"open", "rewrite", "check", "prepare"}
Ddl == {"ddl", "next"}
ViewStages == {"add_views", "views"}
AfterViews == {"data", "schema_end", "statements", "gtid", "cleanup"}
AfterUsers == ViewStages \cup AfterViews
AfterDdl == {"users"} \cup AfterUsers
Ends == {"schema_end", "statements"}

Types ==
  /\ opt \in Options /\ user \subseteq Objects /\ server \in Server
  /\ run \in Nat /\ run >= 1
  /\ pc \in Phases /\ outcome \in Outcomes
  /\ {checked, m_resuming} \subseteq BOOLEAN
  /\ exists \subseteq Objects
  /\ state \in [Workers -> {"ready", "busy", "ended", "idle"}]
  /\ m_task \in [Workers -> {None} \cup SchemaTask \cup PlaceholderTask
                   \cup TableTask \cup TableDone \cup DataTask \cup IndexTask]
  /\ current \in Workers \cup {None}
  /\ pc = "next" => current \in Workers /\ state[current] = "ready"
  /\ deferred \in [Tables -> SUBSET Statement]
  /\ \A t \in Tables : deferred[t] \subseteq Statements(t)
  /\ fetching \cup worker_tasks
       \subseteq SchemaTask \cup PlaceholderTask \cup TableTask
  /\ pc \in Before => worker_tasks = {}
-----------------------------------------------------------------------------
(***************************************************************************)
(* The inductive invariant.                                                *)
(***************************************************************************)

\* What a log has is on the server.
SchemaThere(s) == s \in server.schemas /\ \A v \in In(s, Views) : ViewIsThere(v)

LogTrue(steps) ==
  /\ \A s \in Schemas : Step("schema", s) \in steps => SchemaThere(s)
  /\ \A t \in Tables :
       /\ Step("table", t) \in steps => server.object[t] # "none"
       /\ Step("data", t) \in steps => t \in server.loaded
       /\ Step("triggers", t) \in steps
            => Step("triggers", t) \in server.statements
  /\ GtidUpdate \in steps => server.gtid

Logs ==
  /\ LogTrue(log)
  /\ LogTrue(m_last_state)
  /\ to_log # None => /\ LogTrue({to_log})
                      /\ pc \in {"views", "statements", "cleanup"}
  /\ pc \notin {"open", "rewrite"} => m_last_state \subseteq log
  /\ pc = "check" => /\ log = m_last_state \cup {ServerUuid}
                     /\ m_resuming <=> m_last_state # {}
                     /\ ~m_resuming => ~checked
  /\ pc \in {"check", "prepare"} \cup Ddl =>
       \A s \in Schemas : Status(Step("schema", s)) \/ Step("schema", s) \notin log

Outcome ==
  /\ outcome = "none" <=> pc # "end"
  /\ outcome = "duplicates" => /\ log \subseteq {ServerUuid}
                               /\ ~checked /\ ~opt.ignore_existing_objects
  /\ outcome = "rejected" => ~checked

\* Objects, and the order in which statements alter them: the engine is last.
ObjectsOK ==
  /\ \A x \in server.statements : server.object[x.of] # "none"
  /\ \A x \in Objects : server.object[x] = "placeholder"
                          => run > 1 \/ pc \notin Before
  /\ \A t \in Tables : Step("engine", t) \in server.statements
                         => Statements(t) \subseteq server.statements
  /\ opt.ignore_existing_objects => \A x \in user : server.object[x] = "user"

ExistsOK ==
  pc \in Ddl \cup AfterDdl =>
    /\ exists # {} => opt.ignore_existing_objects
    /\ \A x \in exists : server.object[x] # "none"
    /\ \A v \in exists \cap Views : ViewIsThere(v)
    /\ opt.ignore_existing_objects => user \subseteq exists

Busy(w) == state[w] = "busy"
Over(w) == state[w] = "ended"
Has(w, type, of) == m_task[w].type = type /\ m_task[w].of = of

\* What deferred statements of a table are left: all that are missing, and, if
\* existing objects were looked for, none the server has.
LeftOK(t, left) ==
  /\ left \subseteq Statements(t)
  /\ Statements(t) \subseteq server.statements \cup left
  /\ checked => left \cap server.statements = {}

\* The tasks of a worker.
WorkersOK ==
  \A w \in Workers :
    /\ pc \notin Ddl \cup {"data", "end"} => state[w] = "ready"
    /\ pc \in Ddl =>
         /\ Busy(w) =>
              /\ m_task[w] \in SchemaTask \cup PlaceholderTask \cup TableTask
              /\ m_task[w].type \in {"placeholder", "table"}
                   => Home[m_task[w].of] \in server.schemas
         /\ Over(w) =>
              /\ m_task[w] \in SchemaTask \cup PlaceholderTask \cup TableDone
              /\ m_task[w].type = "table" =>
                   /\ server.object[m_task[w].of] # "none"
                   /\ LeftOK(m_task[w].of, m_task[w].left)
         /\ state[w] = "idle" => fetching = {} /\ worker_tasks = {}
    /\ pc = "data" =>
         /\ state[w] # "idle"
         /\ Busy(w) \/ Over(w) => m_task[w] \in DataTask \cup IndexTask
         /\ Over(w) /\ m_task[w].type = "data" => m_task[w].of \in server.loaded

\* The DDL stage: whatever is missing on the server is in a task.
Pending(task) ==
  \/ task \in fetching \cup worker_tasks
  \/ \E w \in Workers : Busy(w) /\ m_task[w] = task

TableReady(t) ==
  /\ server.object[t] # "none"
  /\ LeftOK(t, deferred[t])
  /\ Step("table", t) \in log

DdlOK ==
  pc \in Ddl =>
    /\ m_schema_ddl_ready \subseteq server.schemas
    /\ \A s \in Schemas : s \in m_schema_ddl_ready \/ Pending(Task("schema", s))
    /\ \A v \in Views :
         /\ Pending(Task("placeholder", v)) =>
              v \notin exists /\ ~Status(Step("schema", Home[v]))
         /\ server.object[v] # "none" \/ Pending(Task("placeholder", v))
    /\ \A t \in Tables :
         \/ TableReady(t)
         \/ Pending(Task("table", t))
         \/ \E w \in Workers : Over(w) /\ Has(w, "table", t)

\* What later stages rely on.
AfterDdlOK ==
  /\ pc \in AfterDdl =>
       /\ server.schemas = Schemas /\ AllExist
       /\ \A t \in Tables : Step("table", t) \in log
  /\ pc \in {"users"} \cup ViewStages =>
       \A t \in Tables : LeftOK(t, deferred[t])
  /\ pc \in AfterUsers => server.users

ViewsOK ==
  /\ pc = "add_views" =>
       /\ todo \subseteq Schemas \cup Views
       /\ \A v \in Views : v \in todo \/ Home[v] \in todo \/ ViewIsThere(v)
  /\ pc = "views" =>
       /\ todo \subseteq Views
       /\ \A v \in Views : v \in todo \/ ViewIsThere(v)
  /\ pc \in ViewStages => todo \cap exists = {}
  /\ pc \in AfterViews => \A v \in Views : ViewIsThere(v)

\* A table's data is in the log, or there is a task.
DataPending(t) ==
  \/ Task("data", t) \in todo
  \/ \E w \in Workers : (Busy(w) \/ Over(w)) /\ Has(w, "data", t)

IndexPending(t, i) ==
  \/ Task("index", t) \in todo /\ Step(i, t) \in deferred[t]
  \/ \E w \in Workers : Busy(w) /\ Has(w, "index", t) /\ i \in m_task[w].left

DataOK ==
  pc = "data" =>
    /\ todo \subseteq DataTask \cup [type : {"index"}, of : Tables]
    /\ \A t \in Tables :
         /\ DataPending(t) \/ Step("data", t) \in log
         /\ \A i \in Indexes[t] :
              /\ IndexPending(t, i) \/ Step(i, t) \in server.statements
              /\ checked /\ IndexPending(t, i)
                   => Step(i, t) \notin server.statements
    /\ \A v, w \in Workers :
         /\ Busy(v) /\ m_task[v].type = "index" =>
              /\ m_task[v].left \subseteq Indexes[m_task[v].of]
              /\ Task("index", m_task[v].of) \notin todo
              /\ ~DataPending(m_task[v].of)
              /\ Busy(w) /\ Has(w, "index", m_task[v].of) => v = w
    /\ \A t \in Tables : \A x \in deferred[t] :
         x.what \in {"fk", "engine"} /\ checked => x \notin server.statements
    /\ \A t \in Tables : \A x \in Statements(t) :
         x.what \in {"fk", "engine"} => x \in server.statements \cup deferred[t]

EndOK ==
  /\ pc \in Ends =>
       /\ todo \subseteq Schemas \cup Statement
       /\ \A t \in Tables :
            /\ {Step(i, t) : i \in Indexes[t]} \subseteq server.statements
            /\ \A x \in Statements(t) :
                 \/ x \in server.statements \cup todo
                 \/ Home[t] \in todo /\ x \in deferred[t]
            /\ \A x \in deferred[t] :
                 x.what \in {"fk", "engine"} /\ Home[t] \in todo /\ checked
                   => x \notin server.statements
       /\ \A t \in Triggers :
            \/ Step("triggers", t) \in server.statements \cup todo
            \/ Home[t] \in todo
       /\ \A x \in todo \cap Statement :
            /\ Home[x.of] \notin todo
            /\ x.what \in {"fk", "engine", "triggers"}
            /\ x.what # "triggers" => x \in Statements(x.of)
            /\ x.what # "triggers" /\ checked => x \notin server.statements
  /\ pc = "schema_end" => todo \subseteq Schemas
  /\ pc \in {"gtid", "cleanup"} =>
       /\ \A t \in Tables : Statements(t) \subseteq server.statements
       /\ \A t \in Triggers : Step("triggers", t) \in server.statements
  /\ pc \in Ends \cup {"gtid", "cleanup"} =>
       \A t \in Tables : Step("data", t) \in log
  /\ pc = "cleanup" => opt.update_gtid_set = "OFF" \/ server.gtid

\* What was altered was created and loaded by this load, according to its log.
Mine(steps) ==
  \A x \in server.statements :
    Step("table", x.of) \in steps /\ Step("data", x.of) \in steps

StatementsMine ==
  checked /\ ~opt.ignore_existing_objects =>
    /\ log = {} \/ pc = "rewrite" \/ Mine(log)
    /\ pc = "rewrite" => log = {} /\ (m_last_state = {} \/ Mine(m_last_state))
    /\ pc \notin {"open", "rewrite"} => log # {}
    /\ pc \in {"check", "prepare", "users"} \cup ViewStages \cup Ddl
         => Mine(m_last_state)
    /\ pc = "data" => \A t \in Tables :
         DataPending(t) => \A x \in server.statements : x.of # t

\* A run that has ended well.
EndedWell ==
  outcome = "ok" =>
    /\ server.schemas = Schemas /\ AllExist /\ server.users
    /\ server.loaded = Tables
    /\ \A v \in Views : ViewIsThere(v)
    /\ \A t \in Tables : Statements(t) \subseteq server.statements
    /\ \A t \in Triggers : Step("triggers", t) \in server.statements
    /\ opt.update_gtid_set # "OFF" => server.gtid

IInv ==
  /\ Types /\ Logs /\ Outcome /\ ObjectsOK /\ ExistsOK /\ WorkersOK /\ DdlOK
  /\ AfterDdlOK /\ ViewsOK /\ DataOK /\ EndOK /\ StatementsMine /\ EndedWell
-----------------------------------------------------------------------------
(***************************************************************************)
(* Lemmas about stages and about the server.                               *)
(***************************************************************************)

\* What a stage that is not the current one relies on does not matter.
LEMMA Elsewhere ==
  /\ pc' \in Before => /\ ExistsOK' /\ DdlOK' /\ AfterDdlOK' /\ ViewsOK'
                       /\ DataOK' /\ EndOK'
  /\ pc' \in Ddl => AfterDdlOK' /\ ViewsOK' /\ DataOK' /\ EndOK'
  /\ pc' = "users" => DdlOK' /\ ViewsOK' /\ DataOK' /\ EndOK'
  /\ pc' \in ViewStages => DdlOK' /\ DataOK' /\ EndOK'
  /\ pc' = "data" => DdlOK' /\ EndOK'
  /\ pc' \in Ends \cup {"gtid", "cleanup"} => DdlOK' /\ DataOK'
  /\ pc' = "end" => /\ ExistsOK' /\ WorkersOK' /\ DdlOK' /\ AfterDdlOK'
                    /\ ViewsOK' /\ DataOK' /\ EndOK'
  BY DEF Before, Ddl, ViewStages, AfterViews, AfterUsers, AfterDdl, Ends,
         ExistsOK, WorkersOK, DdlOK, AfterDdlOK, ViewsOK, DataOK, EndOK

\* Outcomes of runs which go on.
LEMMA GoesOn ==
  ASSUME IInv, pc # "end", UNCHANGED outcome, pc' # "end"
  PROVE  Outcome' /\ EndedWell'
  BY DEF IInv, Outcome, EndedWell

\* Objects stay as they are while the server is not changed.
LEMMA SameObjects ==
  ASSUME IInv, UNCHANGED <<opt, user, server, run>>,
         pc' \in Before => pc \in Before
  PROVE  ObjectsOK'
  BY DEF IInv, ObjectsOK

\* A run ends early: the log stays, the rest is forgotten.
LEMMA EndsEarly ==
  ASSUME IInv, pc # "end", to_log = None, pc \notin {"open", "rewrite"},
         pc' = "end",
         outcome' \in {"rejected", "gtid rejected", "duplicates"},
         outcome' = "rejected" => ~checked,
         outcome' = "duplicates" => /\ log \subseteq {ServerUuid} /\ ~checked
                                    /\ ~opt.ignore_existing_objects,
         UNCHANGED <<opt, user, server, run, checked, log, runVars, poolVars,
                     workerVars, current, deferred, todo, to_log>>
  PROVE  IInv'
<1>1. Types'
  BY DEF IInv, Types, Before, Phases, Outcomes, runVars, poolVars, workerVars, Statements
<1>2. Logs'
  BY DEF IInv, Logs, LogTrue, SchemaThere, ViewIsThere, Ddl, runVars
<1>3. Outcome' /\ EndedWell'
  BY DEF Outcome, EndedWell
<1>4. ObjectsOK'
  BY SameObjects DEF Before
<1>5. StatementsMine'
  BY DEF IInv, StatementsMine, Mine, Ddl, ViewStages
<1> QED
  BY <1>1, <1>2, <1>3, <1>4, <1>5, Elsewhere DEF IInv

\* The fields of the server.
LEMMA ServerFields ==
  ASSUME Types
  PROVE  /\ server.object \in [Objects -> {"none", "user", "placeholder", "dumped"}]
         /\ server.schemas \subseteq Schemas
         /\ server.statements \subseteq Statement
         /\ server.loaded \subseteq Tables
         /\ server.users \in BOOLEAN /\ server.gtid \in BOOLEAN
  BY DEF Types, Server

LEMMA StatementFacts ==
  ASSUME NEW t \in Tables
  PROVE  /\ Statements(t) \subseteq Statement
         /\ \A x \in Statements(t) :
              /\ x.of = t /\ x.what # "triggers"
              /\ x.what \in {"fk", "engine"} \/ \E i \in Indexes[t] : x = Step(i, t)
         /\ \A i \in Indexes[t] : Step(i, t) \in Statements(t)
         /\ \A i \in Indexes[t] : i \notin {"fk", "engine", "triggers"}
  BY StagesAssumption DEF Statements, Step, Statement, IndexNames

\* Logs stay true while the server grows, if the views they are about stay.
LEMMA LogsKept ==
  ASSUME IInv, UNCHANGED <<opt, run, log, m_last_state>>,
         server.schemas \subseteq server'.schemas,
         server.loaded \subseteq server'.loaded,
         server.statements \subseteq server'.statements,
         server.gtid => server'.gtid,
         \A x \in Objects : server.object[x] # "none" => server'.object[x] # "none",
         \A v \in Views :
           \/ ViewIsThere(v) => ViewIsThere(v)'
           \/ to_log = None /\ Step("schema", Home[v]) \notin log \cup m_last_state
  PROVE  /\ LogTrue(log)' /\ LogTrue(m_last_state)'
         /\ to_log # None /\ UNCHANGED to_log => LogTrue({to_log})'
<1> DEFINE Was(v) == ViewIsThere(v)
           Is(v) == ViewIsThere(v)'
<1>1. /\ LogTrue(log) /\ LogTrue(m_last_state)
      /\ to_log # None => LogTrue({to_log})
  BY DEF IInv, Logs
<1>2. \A s \in Schemas : \A v \in In(s, Views) : v \in Views /\ Home[v] = s
  BY DEF In
<1>3. \A v \in Views : \/ Was(v) => Is(v)
                       \/ to_log = None /\ Step("schema", Home[v]) \notin log \cup m_last_state
  OBVIOUS
<1>4. ASSUME NEW steps, LogTrue(steps),
             steps \subseteq log \cup m_last_state \/ to_log # None
      PROVE  /\ \A s \in Schemas : Step("schema", s) \in steps =>
                  s \in server'.schemas /\ \A v \in In(s, Views) : Is(v)
             /\ \A t \in Tables :
                  /\ Step("table", t) \in steps => server'.object[t] # "none"
                  /\ Step("data", t) \in steps => t \in server'.loaded
                  /\ Step("triggers", t) \in steps
                       => Step("triggers", t) \in server'.statements
             /\ GtidUpdate \in steps => server'.gtid
  <2> HIDE DEF Is
  <2>1. \A s \in Schemas : Step("schema", s) \in steps =>
          s \in server.schemas /\ \A v \in In(s, Views) : Was(v)
    BY <1>4 DEF LogTrue, SchemaThere
  <2> HIDE DEF Was
  <2>2. ASSUME NEW s \in Schemas, Step("schema", s) \in steps, NEW v \in In(s, Views)
        PROVE  Is(v)
    <3>1. Was(v) /\ v \in Views /\ Home[v] = s
      BY <1>2, <2>1, <2>2
    <3>2. ~(to_log = None /\ Step("schema", Home[v]) \notin log \cup m_last_state)
      BY <1>4, <2>2, <3>1
    <3> QED BY <1>3, <3>1, <3>2
  <2> QED
    BY <1>4, <2>1, <2>2 DEF LogTrue, Objects
<1> HIDE DEF Was
<1> USE DEF LogTrue, SchemaThere
<1>5. LogTrue(log)'
  BY <1>1, <1>4
<1>6. LogTrue(m_last_state)'
  BY <1>1, <1>4
<1>7. to_log # None /\ UNCHANGED to_log => LogTrue({to_log})'
  BY <1>1, <1>4
<1> QED
  BY <1>5, <1>6, <1>7

\* A step that was made is logged.
LEMMA StepLogged ==
  ASSUME IInv, NEW step, LogTrue({step}), pc \notin {"open", "rewrite"},
         log' = Logged(step), UNCHANGED <<opt, run, server, m_last_state>>
  PROVE  /\ LogTrue(log)' /\ LogTrue(m_last_state)'
         /\ to_log # None /\ UNCHANGED to_log => LogTrue({to_log})'
         /\ log' = log \cup {step} /\ m_last_state' \subseteq log'
<1>1. log' = log \cup {step} /\ m_last_state \subseteq log
  BY DEF IInv, Logs, Logged
<1>2. LogTrue(log) /\ LogTrue(m_last_state) /\ (to_log # None => LogTrue({to_log}))
  BY DEF IInv, Logs
<1>3. \A v \in Views : ViewIsThere(v)' <=> ViewIsThere(v)
  BY DEF ViewIsThere
<1>4. \A s \in Schemas : SchemaThere(s)' <=> SchemaThere(s)
  BY <1>3 DEF SchemaThere, In
<1> QED
  BY <1>1, <1>2, <1>4 DEF LogTrue
-----------------------------------------------------------------------------
(***************************************************************************)
(* The beginning of a run.                                                 *)
(***************************************************************************)

LEMMA OpenLogStep ==
  ASSUME IInv, OpenLog
  PROVE  IInv'
<1> USE DEF OpenLog, unchangedByStart, poolVars, workerVars
<1>1. Types'
  BY DEF IInv, Types, Before, Phases
<1>2. Logs'
  BY DEF IInv, Logs, LogTrue, SchemaThere, ViewIsThere, Ddl, AfterDdl,
         AfterUsers, AfterViews, ViewStages
<1>3. ObjectsOK'
  BY SameObjects DEF Before
<1>4. WorkersOK'
  BY DEF IInv, WorkersOK, Ddl
<1>5. StatementsMine'
  BY DEF IInv, StatementsMine, Mine, Ddl, ViewStages
<1> QED
  BY <1>1, <1>2, <1>3, <1>4, <1>5, GoesOn, Elsewhere DEF IInv, Before

LEMMA RewriteLogStep ==
  ASSUME IInv, RewriteLog
  PROVE  IInv'
<1> USE DEF RewriteLog, unchangedByStart, poolVars, workerVars
<1>1. Types'
  BY DEF IInv, Types, Before, Phases
<1>2. Logs'
  <2>1. LogTrue(m_last_state \cup {ServerUuid})'
    BY DEF IInv, Logs, LogTrue, SchemaThere, ViewIsThere, ServerUuid,
           GtidUpdate, Step
  <2> QED
    BY <2>1 DEF IInv, Logs, LogTrue, SchemaThere, ViewIsThere, Ddl, Status,
                AfterDdl, AfterUsers, AfterViews, ViewStages, ServerUuid, Step
<1>3. ObjectsOK'
  BY SameObjects DEF Before
<1>4. WorkersOK'
  BY DEF IInv, WorkersOK, Ddl
<1>5. StatementsMine'
  BY DEF IInv, StatementsMine, Mine, Ddl, ViewStages
<1> QED
  BY <1>1, <1>2, <1>3, <1>4, <1>5, GoesOn, Elsewhere DEF IInv, Before

LEMMA CheckExistingObjectsStep ==
  ASSUME IInv, CheckExistingObjects
  PROVE  IInv'
<1> USE DEF CheckExistingObjects, unchangedByStart, runVars, poolVars, workerVars
<1>1. CASE pc' = "end"
  <2>1. /\ outcome' = "duplicates" /\ UNCHANGED checked /\ ~m_resuming
        /\ ~opt.ignore_existing_objects
    BY <1>1 DEF Ended
  <2>2. log \subseteq {ServerUuid} /\ ~checked /\ to_log = None
    BY <2>1 DEF IInv, Logs, AfterDdl, AfterUsers, AfterViews, ViewStages
  <2> QED
    BY <1>1, <2>1, <2>2, EndsEarly
<1>2. CASE pc' # "end"
  <2>1. /\ pc' = "prepare" /\ UNCHANGED outcome
        /\ checked' = (checked \/ ~m_resuming)
        /\ ~m_resuming /\ ~opt.ignore_existing_objects => Duplicates = {}
    BY <1>2 DEF Ended
  <2>2. Types'
    BY <2>1 DEF IInv, Types, Before, Phases
  <2>3. Logs'
    BY <2>1 DEF IInv, Logs, LogTrue, SchemaThere, ViewIsThere, Ddl, Status,
                AfterDdl, AfterUsers, AfterViews, ViewStages
  <2>4. ObjectsOK'
    BY <2>1, SameObjects DEF Before
  <2>5. WorkersOK'
    BY <2>1 DEF IInv, WorkersOK, Ddl
  <2>6. StatementsMine'
    <3>1. CASE m_resuming
      BY <2>1, <3>1 DEF IInv, StatementsMine, Mine, Ddl, ViewStages
    <3>2. CASE ~m_resuming /\ ~opt.ignore_existing_objects
      <4>1. \A x \in server.statements : x.of \in Objects
        BY ServerFields DEF IInv, Statement, Objects
      <4>2. server.statements = {}
        BY <2>1, <3>2, <4>1
        DEF IInv, ObjectsOK, Duplicates, OnServer, Objects
      <4>3. log # {}
        BY DEF IInv, Logs
      <4> QED
        BY <2>1, <4>2, <4>3 DEF StatementsMine, Mine
    <3>3. CASE opt.ignore_existing_objects
      BY <3>3 DEF StatementsMine
    <3> QED BY <3>1, <3>2, <3>3
  <2> QED
    BY <2>1, <2>2, <2>3, <2>4, <2>5, <2>6, GoesOn, Elsewhere DEF IInv, Before
<1> QED
  BY <1>1, <1>2
-----------------------------------------------------------------------------
(***************************************************************************)
(* DDL of schemas and tables.                                              *)
(***************************************************************************)

LEMMA PrepareTableDdlStep ==
  ASSUME IInv, PrepareTableDdl
  PROVE  IInv'
<1> USE DEF PrepareTableDdl, serverVars, workerVars
<1>1. /\ exists' \subseteq Objects
      /\ exists' # {} => opt.ignore_existing_objects
      /\ \A x \in exists' : server.object[x] # "none"
      /\ opt.ignore_existing_objects =>
           \A x \in Objects : server.object[x] # "none" => x \in exists'
  BY DEF Duplicates, OnServer, Objects
<1>a. worker_tasks' = {}
  BY DEF IInv, Types, Before
<1>2. /\ fetching' \subseteq SchemaTask \cup PlaceholderTask \cup TableTask
      /\ \A s \in Schemas : Task("schema", s) \in fetching' <=> ~Status(Step("schema", s))
      /\ \A v \in Views : Task("placeholder", v) \in fetching'
           <=> ~Status(Step("schema", Home[v])) /\ v \notin exists'
      /\ \A t \in Tables : Task("table", t) \in fetching'
  <2>1. fetching' = {Task("schema", s) : s \in {s \in Schemas : ~Status(Step("schema", s))}}
                    \cup {Task("placeholder", v) : v \in Placeholders(exists')}
                    \cup {Task("table", t) : t \in Tables}
    OBVIOUS
  <2>2. fetching' \subseteq SchemaTask \cup PlaceholderTask \cup TableTask
    BY <2>1 DEF SchemaTask, PlaceholderTask, TableTask, Task, Placeholders
  <2>3. ASSUME NEW s \in Schemas
        PROVE  Task("schema", s) \in fetching' <=> ~Status(Step("schema", s))
    BY <2>1 DEF Task
  <2>4. ASSUME NEW v \in Views
        PROVE  Task("placeholder", v) \in fetching'
                 <=> ~Status(Step("schema", Home[v])) /\ v \notin exists'
    BY <2>1 DEF Task, Placeholders
  <2>5. \A t \in Tables : Task("table", t) \in fetching'
    BY <2>1
  <2> QED
    BY <2>2, <2>3, <2>4, <2>5
<1>3. Types'
  BY <1>a, <1>1, <1>2 DEF IInv, Types, Before, Phases
<1>4. Logs'
  BY DEF IInv, Logs, LogTrue, SchemaThere, ViewIsThere, Ddl, Status,
         AfterDdl, AfterUsers, AfterViews, ViewStages
<1>5. ObjectsOK'
  BY SameObjects DEF Before
<1>6. ExistsOK'
  <2>1. \A v \in exists' \cap Views : ViewIsThere(v)'
    BY <1>1, ServerFields DEF IInv, ObjectsOK, Before, ViewIsThere, Objects
  <2>2. opt.ignore_existing_objects => user \subseteq exists'
    BY <1>1 DEF IInv, Types, ObjectsOK
  <2> QED
    BY <1>1, <2>1, <2>2 DEF ExistsOK
<1>7. WorkersOK'
  BY DEF IInv, WorkersOK, Ddl, Busy, Over
<1>8. DdlOK'
  <2>1. \A w \in Workers : ~Busy(w)'
    BY DEF IInv, WorkersOK, Ddl, Busy
  <2>2. \A task : Pending(task)' <=> task \in fetching'
    BY <1>a, <2>1 DEF Pending
  <2>3. LogTrue(m_last_state)
    BY DEF IInv, Logs
  <2>4. /\ m_schema_ddl_ready' = {s \in Schemas : Status(Step("schema", s))}
        /\ m_schema_ddl_ready' \subseteq server.schemas
    BY <2>3 DEF LogTrue, SchemaThere, Status
  <2>5. ASSUME NEW v \in Views, Status(Step("schema", Home[v])) \/ v \in exists'
        PROVE  server.object[v] # "none"
    <3>1. Home[v] \in Schemas /\ v \in In(Home[v], Views)
      BY StagesAssumption DEF In
    <3> QED
      BY <1>1, <2>3, <2>5, <3>1 DEF LogTrue, SchemaThere, ViewIsThere, Status
  <2> QED
    BY <1>1, <1>2, <2>2, <2>4, <2>5 DEF DdlOK, Status
<1>9. StatementsMine'
  BY DEF IInv, StatementsMine, Mine, Ddl, ViewStages
<1> QED
  BY <1>3, <1>4, <1>5, <1>6, <1>7, <1>8, <1>9, GoesOn, Elsewhere DEF IInv, Ddl

LEMMA FetchStep ==
  ASSUME IInv, NEW task \in fetching, Fetch(task)
  PROVE  IInv'
<1> USE DEF Fetch, serverVars, runVars, workerVars
<1>1. fetching' \cup worker_tasks' = fetching \cup worker_tasks
  OBVIOUS
<1>2. Types'
  BY <1>1 DEF IInv, Types, Before
<1>3. Logs'
  BY DEF IInv, Logs, LogTrue, SchemaThere, ViewIsThere, Status
<1>4. ObjectsOK' /\ ExistsOK'
  BY SameObjects DEF IInv, ExistsOK, ViewIsThere
<1>5. WorkersOK'
  BY DEF IInv, WorkersOK, LeftOK, Busy, Over, Ddl
<1>6. DdlOK'
  BY <1>1 DEF IInv, DdlOK, Pending, TableReady, LeftOK, Busy, Over, Has, Status
<1>7. StatementsMine'
  BY DEF IInv, StatementsMine, Mine, Ddl
<1> QED
  BY <1>2, <1>3, <1>4, <1>5, <1>6, <1>7, GoesOn, Elsewhere DEF IInv, Ddl

LEMMA HandleReadyStep ==
  ASSUME IInv, NEW w \in Workers, HandleReady(w)
  PROVE  IInv'
<1> USE DEF HandleReady, serverVars, runVars, poolVars, workerVars
<1>1. Types'
  BY DEF IInv, Types, Before, Phases
<1>2. Logs'
  BY DEF IInv, Logs, LogTrue, SchemaThere, ViewIsThere, Status, Ddl, AfterDdl,
         AfterUsers, AfterViews, ViewStages
<1>3. ObjectsOK' /\ ExistsOK'
  BY SameObjects DEF IInv, ExistsOK, ViewIsThere, Ddl, Before
<1>4. WorkersOK'
  BY DEF IInv, WorkersOK, LeftOK, Busy, Over, Ddl
<1>5. DdlOK'
  BY DEF IInv, DdlOK, Pending, TableReady, LeftOK, Busy, Over, Has, Status, Ddl
<1>6. StatementsMine'
  BY DEF IInv, StatementsMine, Mine, Ddl
<1> QED
  BY <1>1, <1>2, <1>3, <1>4, <1>5, <1>6, GoesOn, Elsewhere DEF IInv, Ddl

LEMMA NextTaskStep ==
  ASSUME IInv, NextTask
  PROVE  IInv'
<1> USE DEF NextTask, serverVars, runVars
<1>1. PICK task \in worker_tasks :
        /\ CanBeExecuted(task)
        /\ worker_tasks' = worker_tasks \ {task}
        /\ m_task' = [m_task EXCEPT ![current] = task]
  OBVIOUS
<1>2. /\ current \in Workers /\ state[current] = "ready"
      /\ task \in SchemaTask \cup PlaceholderTask \cup TableTask
  BY <1>1 DEF IInv, Types
<1>3. \A w \in Workers : state[w] # "idle"
  BY <1>1 DEF IInv, WorkersOK, Ddl
<1>4. /\ m_task'[current] = task /\ state'[current] = "busy"
      /\ \A w \in Workers :
           w # current => m_task'[w] = m_task[w] /\ state'[w] = state[w]
  BY <1>1, <1>2, <1>3 DEF IInv, Types
<1>5. Types'
  <2>1. m_task' \in [Workers -> {None} \cup SchemaTask \cup PlaceholderTask
                       \cup TableTask \cup TableDone \cup DataTask \cup IndexTask]
    BY <1>1, <1>2 DEF IInv, Types
  <2>2. state' \in [Workers -> {"ready", "busy", "ended", "idle"}]
    BY <1>1 DEF IInv, Types
  <2> QED
    BY <1>1, <2>1, <2>2 DEF IInv, Types, Before, Phases
<1>6. Logs'
  BY DEF IInv, Logs, LogTrue, SchemaThere, ViewIsThere, Status, Ddl, AfterDdl,
         AfterUsers, AfterViews, ViewStages
<1>7. ObjectsOK' /\ ExistsOK'
  BY SameObjects DEF IInv, ExistsOK, ViewIsThere, Ddl, Before
<1>8. WorkersOK'
  <2>1. task.type \in {"placeholder", "table"} => Home[task.of] \in server.schemas
    BY <1>1 DEF CanBeExecuted, IInv, DdlOK, Ddl
  <2> QED
    BY <1>2, <1>3, <1>4, <2>1 DEF IInv, WorkersOK, LeftOK, Busy, Over, Ddl
<1>9. DdlOK'
  <2>1. \A x : Pending(x)' <=> Pending(x)
    BY <1>1, <1>2, <1>4 DEF Pending, Busy
  <2>2. \A w \in Workers, t \in Tables :
          Over(w) /\ Has(w, "table", t) => (Over(w) /\ Has(w, "table", t))'
    BY <1>2, <1>4 DEF Over, Has
  <2> QED
    BY <2>1, <2>2 DEF IInv, DdlOK, Ddl, TableReady, LeftOK, Status
<1>10. StatementsMine'
  BY DEF IInv, StatementsMine, Mine, Ddl
<1> QED
  BY <1>5, <1>6, <1>7, <1>8, <1>9, <1>10, GoesOn, Elsewhere DEF IInv, Ddl

LEMMA NoMoreTasksStep ==
  ASSUME IInv, NoMoreTasks
  PROVE  IInv'
<1> USE DEF NoMoreTasks, serverVars, runVars, poolVars
<1>1. current \in Workers /\ state[current] = "ready"
  BY DEF IInv, Types
<1>2. Types'
  BY <1>1 DEF IInv, Types, Before, Phases
<1>3. Logs'
  BY DEF IInv, Logs, LogTrue, SchemaThere, ViewIsThere, Status, Ddl, AfterDdl,
         AfterUsers, AfterViews, ViewStages
<1>4. ObjectsOK' /\ ExistsOK'
  BY SameObjects DEF IInv, ExistsOK, ViewIsThere, Ddl, Before
<1>5. WorkersOK'
  BY <1>1 DEF IInv, Types, WorkersOK, LeftOK, Busy, Over, Ddl
<1>6. DdlOK'
  <2>1. \A w \in Workers : (Busy(w)' <=> Busy(w)) /\ (Over(w)' <=> Over(w))
    BY <1>1 DEF IInv, Types, Busy, Over
  <2> QED
    BY <2>1 DEF IInv, DdlOK, Ddl, Pending, TableReady, LeftOK, Has, Status
<1>7. StatementsMine'
  BY DEF IInv, StatementsMine, Mine, Ddl
<1> QED
  BY <1>2, <1>3, <1>4, <1>5, <1>6, <1>7, GoesOn, Elsewhere DEF IInv, Ddl

\* What a worker executes depends on the stage.
LEMMA ExecuteFacts ==
  ASSUME IInv, NEW w \in Workers, Execute(w)
  PROVE  /\ pc \in Ddl \cup {"data"} /\ Busy(w)
         /\ pc \in Ddl =>
              /\ m_task[w] \in SchemaTask \cup PlaceholderTask \cup TableTask
              /\ to_log = None
              /\ m_task[w].type \in {"placeholder", "table"}
                   => Home[m_task[w].of] \in server.schemas
         /\ pc = "data" => m_task[w] \in DataTask \cup IndexTask
  BY DEF Execute, IInv, Types, WorkersOK, Logs, Busy, Ddl, AfterDdl, AfterUsers,
         AfterViews, ViewStages

LEMMA ExecuteSchemaDdlStep ==
  ASSUME IInv, NEW w \in Workers, Execute(w), ExecuteSchemaDdl(w)
  PROVE  IInv'
<1> DEFINE s == m_task[w].of
<1>1. pc \in Ddl /\ m_task[w] = Task("schema", s) /\ s \in Schemas /\ Busy(w)
      /\ to_log = None
  BY ExecuteFacts DEF ExecuteSchemaDdl, SchemaTask, PlaceholderTask, TableTask,
                      DataTask, IndexTask, Task
<1>2. /\ server' \in Server
      /\ server'.schemas = server.schemas \cup {s}
      /\ server'.object = server.object /\ server'.statements = server.statements
      /\ server'.loaded = server.loaded /\ server'.users = server.users
      /\ server'.gtid = server.gtid
  BY <1>1 DEF ExecuteSchemaDdl, IInv, Types, Server
<1>3. /\ UNCHANGED <<opt, user, run, checked, log, m_last_state, m_resuming,
                     exists, fetching, worker_tasks, current, pc, outcome,
                     m_task, deferred, todo, to_log>>
      /\ m_schema_ddl_ready' = m_schema_ddl_ready \cup {s}
      /\ state' = [state EXCEPT ![w] = "ended"]
  BY DEF Execute, ExecuteSchemaDdl, runVars, poolVars
<1> HIDE DEF s
<1>4. /\ state' \in [Workers -> {"ready", "busy", "ended", "idle"}]
      /\ state'[w] = "ended"
      /\ \A v \in Workers : v # w => state'[v] = state[v]
  BY <1>3 DEF IInv, Types
<1>5. Types'
  BY <1>1, <1>2, <1>3, <1>4 DEF IInv, Types, Busy
<1>6. Logs'
  <2>1. /\ LogTrue(log)' /\ LogTrue(m_last_state)'
        /\ to_log # None => LogTrue({to_log})'
    <3>1. \A v \in Views : ViewIsThere(v)' <=> ViewIsThere(v)
      BY <1>2, <1>3 DEF ViewIsThere
    <3> QED
      BY <1>2, <1>3, <3>1, LogsKept
  <2> QED
    BY <1>1, <1>3, <2>1 DEF IInv, Logs, Status
<1>7. ObjectsOK' /\ ExistsOK'
  BY <1>2, <1>3 DEF IInv, ObjectsOK, ExistsOK, ViewIsThere
<1>8. WorkersOK'
  BY <1>1, <1>2, <1>3, <1>4
  DEF IInv, Types, WorkersOK, LeftOK, Busy, Over, Ddl, SchemaTask, Task
<1>9. DdlOK'
  <2>1. \A x : Pending(x) => x = Task("schema", s) \/ Pending(x)'
    BY <1>1, <1>3, <1>4 DEF Pending, Busy
  <2>2. \A x : Pending(x)' => Pending(x)
    BY <1>1, <1>3, <1>4 DEF Pending, Busy
  <2>3. \A v \in Views : Task("placeholder", v) # Task("schema", s)
    BY DEF Task
  <2>4. \A t \in Tables : Task("table", t) # Task("schema", s)
    BY DEF Task
  <2>5. \A r \in Schemas : Task("schema", r) = Task("schema", s) => r = s
    BY DEF Task
  <2>6. \A t \in Tables : TableReady(t) => TableReady(t)'
    BY <1>2, <1>3 DEF TableReady, LeftOK
  <2>7. \A v \in Workers, t \in Tables :
          Over(v) /\ Has(v, "table", t) => (Over(v) /\ Has(v, "table", t))'
    BY <1>3, <1>4 DEF Over, Has
  <2> QED
    BY <1>1, <1>2, <1>3, <2>1, <2>2, <2>3, <2>4, <2>5, <2>6, <2>7
    DEF IInv, DdlOK, Status
<1>10. StatementsMine'
  BY <1>1, <1>2, <1>3 DEF IInv, StatementsMine, Mine, Ddl
<1> QED
  BY <1>1, <1>3, <1>5, <1>6, <1>7, <1>8, <1>9, <1>10, GoesOn, Elsewhere
  DEF IInv, Ddl

\* Placeholders are created for views no log has, and which did not exist.
LEMMA ExecutePlaceholderDdlStep ==
  ASSUME IInv, NEW w \in Workers, Execute(w), ExecutePlaceholderDdl(w)
  PROVE  IInv'
<1> DEFINE v == m_task[w].of
<1>1. pc \in Ddl /\ m_task[w] = Task("placeholder", v) /\ v \in Views /\ Busy(w)
      /\ to_log = None /\ Home[v] \in server.schemas
  BY ExecuteFacts DEF ExecutePlaceholderDdl, SchemaTask, PlaceholderTask,
                      TableTask, DataTask, IndexTask, Task
<1>2. /\ server' = [server EXCEPT !.object[v] = "placeholder"]
      /\ state' = [state EXCEPT ![w] = "ended"]
      /\ UNCHANGED <<opt, user, run, checked, log, m_last_state, m_resuming,
                     exists, fetching, worker_tasks, current, pc, outcome,
                     m_task, m_schema_ddl_ready, deferred, todo, to_log>>
  BY <1>1 DEF Execute, ExecutePlaceholderDdl, runVars, poolVars
<1> HIDE DEF v
<1>3. v \in Objects
  BY <1>1 DEF Objects
<1>4. /\ server' \in Server
      /\ server'.object = [server.object EXCEPT ![v] = "placeholder"]
      /\ server'.schemas = server.schemas /\ server'.statements = server.statements
      /\ server'.loaded = server.loaded /\ server'.users = server.users
      /\ server'.gtid = server.gtid
  BY <1>2, <1>3 DEF IInv, Types, Server
<1>5. /\ server'.object[v] = "placeholder"
      /\ \A x \in Objects : x # v => server'.object[x] = server.object[x]
      /\ \A x \in Objects : server.object[x] # "none" => server'.object[x] # "none"
  BY <1>3, <1>4, ServerFields DEF IInv
<1>6. v \notin exists /\ ~Status(Step("schema", Home[v])) /\ Home[v] \in Schemas
      /\ Step("schema", Home[v]) \notin log
  <2>1. Pending(Task("placeholder", v)) /\ Home[v] \in Schemas
    BY <1>1, StagesAssumption DEF Pending
  <2> QED
    BY <1>1, <2>1 DEF IInv, DdlOK, Logs
<1>7. \A x \in Objects : x # v => (ViewIsThere(x)' <=> ViewIsThere(x))
  BY <1>2, <1>5 DEF ViewIsThere
<1>8. /\ state' \in [Workers -> {"ready", "busy", "ended", "idle"}]
      /\ state'[w] = "ended"
      /\ \A u \in Workers : u # w => state'[u] = state[u]
  BY <1>2 DEF IInv, Types
<1>9. Types'
  BY <1>1, <1>2, <1>4, <1>8 DEF IInv, Types, Busy
<1>10. Logs'
  <2>1. /\ LogTrue(log)' /\ LogTrue(m_last_state)'
        /\ to_log # None => LogTrue({to_log})'
    BY <1>1, <1>2, <1>4, <1>5, <1>6, <1>7, LogsKept DEF Objects, Status
  <2> QED
    BY <1>1, <1>2, <2>1 DEF IInv, Logs, Status
<1>11. ObjectsOK'
  <2>1. \A x \in server.statements : x.of \in Objects
    BY ServerFields DEF IInv, Statement, Objects
  <2>2. opt.ignore_existing_objects => v \notin user
    BY <1>1, <1>6 DEF IInv, ExistsOK
  <2>3. pc \notin Before
    BY <1>1 DEF Before, Ddl
  <2>4. user \subseteq Objects
    BY DEF IInv, Types
  <2> QED
    BY <1>2, <1>4, <1>5, <2>1, <2>2, <2>3, <2>4 DEF IInv, ObjectsOK
<1>12. ExistsOK'
  BY <1>2, <1>5, <1>6, <1>7 DEF IInv, ExistsOK, Types
<1>13. WorkersOK'
  <2>1. ASSUME NEW u \in Workers, m_task[u] \in TableDone
        PROVE  m_task[u].of \in Objects
    BY <2>1 DEF TableDone, Objects
  <2>2. m_task[w].type = "placeholder" /\ m_task[w] \in PlaceholderTask
    BY <1>1 DEF Task, PlaceholderTask
  <2> QED
    BY <1>1, <1>2, <1>4, <1>5, <1>8, <2>1, <2>2
    DEF IInv, Types, WorkersOK, LeftOK, Busy, Over, Ddl, SchemaTask,
        PlaceholderTask
<1>14. DdlOK'
  <2>1. \A x : Pending(x) => x = Task("placeholder", v) \/ Pending(x)'
    BY <1>1, <1>2, <1>8 DEF Pending, Busy
  <2>2. \A x : Pending(x)' => Pending(x)
    BY <1>1, <1>2, <1>8 DEF Pending, Busy
  <2>3. \A s \in Schemas : Task("placeholder", v) # Task("schema", s)
    BY DEF Task
  <2>4. \A t \in Tables : Task("table", t) # Task("placeholder", v)
    BY DEF Task
  <2>5. \A r \in Views : Task("placeholder", r) = Task("placeholder", v) => r = v
    BY DEF Task
  <2>6. \A t \in Tables : TableReady(t) => TableReady(t)'
    BY <1>2, <1>4, <1>5 DEF TableReady, LeftOK, Objects
  <2>7. \A u \in Workers, t \in Tables :
          Over(u) /\ Has(u, "table", t) => (Over(u) /\ Has(u, "table", t))'
    BY <1>2, <1>8 DEF Over, Has
  <2>8. \A x \in Views : server.object[x] # "none" => server'.object[x] # "none"
    BY <1>5 DEF Objects
  <2> QED
    BY <1>1, <1>2, <1>4, <1>5, <2>1, <2>2, <2>3, <2>4, <2>5, <2>6, <2>7, <2>8
    DEF IInv, DdlOK, Status
<1>15. StatementsMine'
  BY <1>1, <1>2, <1>4 DEF IInv, StatementsMine, Mine, Ddl
<1> QED
  BY <1>1, <1>2, <1>9, <1>10, <1>11, <1>12, <1>13, <1>14, <1>15, GoesOn,
     Elsewhere DEF IInv, Ddl

\* The server does not reject it: if the table has its secondary engine, it has
\* all the other statements as well.
LEMMA ExecuteTableDdlStep ==
  ASSUME IInv, NEW w \in Workers, Execute(w), ExecuteTableDdl(w)
  PROVE  IInv'
<1>a. PICK t : t = m_task[w].of
  OBVIOUS
<1>b. PICK left : left = RemoveDuplicates(t)
  OBVIOUS
<1>c. PICK done : done = [type |-> "table", of |-> t, left |-> left]
  OBVIOUS
<1>1. pc \in Ddl /\ m_task[w] = Task("table", t) /\ t \in Tables /\ Busy(w)
      /\ to_log = None /\ Home[t] \in server.schemas
  BY <1>a, ExecuteFacts DEF ExecuteTableDdl, SchemaTask, PlaceholderTask,
                      TableTask, DataTask, IndexTask, Task
<1>2. MayHaveSome(t) /\ Step("engine", t) \in server.statements => left = {}
  BY <1>b, <1>1 DEF RemoveDuplicates, IInv, ObjectsOK
<1>3. /\ server' = IF /\ ~Status(Step("table", t)) /\ t \notin exists
                      /\ server.object[t] = "none"
                   THEN [server EXCEPT !.object[t] = "dumped"] ELSE server
      /\ m_task' = [m_task EXCEPT ![w] = done]
      /\ state' = [state EXCEPT ![w] = "ended"]
      /\ UNCHANGED <<opt, user, run, checked, log, m_last_state, m_resuming,
                     exists, fetching, worker_tasks, current, pc, outcome,
                     m_schema_ddl_ready, deferred, todo, to_log>>
  BY <1>a, <1>b, <1>c, <1>1, <1>2 DEF Execute, ExecuteTableDdl, runVars, poolVars
<1>4. LeftOK(t, left)
  <2>1. CASE MayHaveSome(t)
    BY <1>b, <2>1 DEF RemoveDuplicates, LeftOK
  <2>2. CASE ~MayHaveSome(t)
    <3>1. checked => \A x \in server.statements : x.of # t
      BY <1>1, <2>2 DEF IInv, StatementsMine, Mine, Ddl, MayHaveSome, Status
    <3> QED
      BY <1>b, <1>1, <2>2, <3>1, StatementFacts DEF RemoveDuplicates, LeftOK
  <2> QED BY <2>1, <2>2
<1>5. done \in TableDone /\ done.of = t /\ done.left = left /\ done.type = "table"
  BY <1>c, <1>1, <1>4, StatementFacts DEF LeftOK, TableDone
<1>6. t \in Objects
  BY <1>1 DEF Objects
<1>7. /\ server' \in Server
      /\ server'.object = server.object \/ (/\ server.object[t] = "none"
                                            /\ server'.object = [server.object EXCEPT ![t] = "dumped"])
      /\ server'.schemas = server.schemas /\ server'.statements = server.statements
      /\ server'.loaded = server.loaded /\ server'.users = server.users
      /\ server'.gtid = server.gtid
  BY <1>3, <1>6 DEF IInv, Types, Server
<1>8. /\ \A x \in Objects : server.object[x] # "none" => server'.object[x] = server.object[x]
      /\ \A x \in Objects : server'.object[x] = "placeholder" => server.object[x] = "placeholder"
  BY <1>6, <1>7, ServerFields DEF IInv
<1>9. server'.object[t] # "none"
  <2>1. Status(Step("table", t)) => server.object[t] # "none"
    BY <1>1 DEF IInv, Logs, LogTrue, Status
  <2>2. t \in exists => server.object[t] # "none"
    BY <1>1 DEF IInv, ExistsOK
  <2>3. CASE server.object[t] # "none"
    BY <1>6, <1>8, <2>3
  <2>4. CASE server.object[t] = "none"
    BY <1>3, <1>6, <2>1, <2>2, <2>4 DEF IInv, Types, Server
  <2> QED BY <2>3, <2>4
<1>10. \A x \in Objects : ViewIsThere(x) => ViewIsThere(x)'
  BY <1>3, <1>8 DEF ViewIsThere
<1>11. /\ state' \in [Workers -> {"ready", "busy", "ended", "idle"}]
       /\ state'[w] = "ended" /\ m_task'[w] = done
       /\ \A u \in Workers : u # w => state'[u] = state[u] /\ m_task'[u] = m_task[u]
  BY <1>3 DEF IInv, Types
<1>12. Types'
  <2>1. m_task' \in [Workers -> {None} \cup SchemaTask \cup PlaceholderTask
                       \cup TableTask \cup TableDone \cup DataTask \cup IndexTask]
    BY <1>3, <1>5 DEF IInv, Types
  <2> QED
    BY <1>1, <1>3, <1>7, <1>11, <2>1 DEF IInv, Types, Busy
<1>13. Logs'
  <2>1. /\ LogTrue(log)' /\ LogTrue(m_last_state)'
        /\ to_log # None => LogTrue({to_log})'
    BY <1>1, <1>3, <1>7, <1>8, <1>10, LogsKept DEF Objects, Status
  <2> QED
    BY <1>1, <1>3, <2>1 DEF IInv, Logs, Status
<1>14. ObjectsOK'
  <2>1. \A x \in server.statements : x.of \in Objects
    BY ServerFields DEF IInv, Statement, Objects
  <2>2. user \subseteq Objects
    BY DEF IInv, Types
  <2> QED
    BY <1>3, <1>7, <1>8, <2>1, <2>2 DEF IInv, ObjectsOK
<1>15. ExistsOK'
  BY <1>3, <1>8, <1>10 DEF IInv, ExistsOK, Types, Objects
<1>16. WorkersOK'
  <2>1. ASSUME NEW u \in Workers, m_task[u] \in TableDone
        PROVE  m_task[u].of \in Objects
    BY <2>1 DEF TableDone, Objects
  <2>2. LeftOK(m_task[w].of, m_task[w].left)'
    BY <1>3, <1>4, <1>5, <1>7, <1>11 DEF LeftOK, Statements
  <2>3. ASSUME NEW u \in Workers, u # w
        PROVE  LeftOK(m_task[u].of, m_task[u].left)
                 => LeftOK(m_task[u].of, m_task[u].left)'
    BY <1>3, <1>7, <1>11, <2>3 DEF LeftOK, Statements
  <2> QED
    BY <1>1, <1>3, <1>5, <1>7, <1>8, <1>9, <1>11, <2>1, <2>2, <2>3
    DEF IInv, Types, WorkersOK, Busy, Over, Ddl
<1>17. DdlOK'
  <2>1. \A x : Pending(x) => x = Task("table", t) \/ Pending(x)'
    BY <1>1, <1>3, <1>11 DEF Pending, Busy
  <2>2. \A v \in Views : Pending(Task("placeholder", v))' => Pending(Task("placeholder", v))
    BY <1>3, <1>11 DEF Pending, Busy
  <2>3. /\ \A s \in Schemas : Task("table", t) # Task("schema", s)
        /\ \A v \in Views : Task("table", t) # Task("placeholder", v)
        /\ \A r \in Tables : Task("table", r) = Task("table", t) => r = t
    BY DEF Task
  <2>4. \A r \in Tables : TableReady(r) => TableReady(r)'
    BY <1>3, <1>7, <1>8 DEF TableReady, LeftOK, Objects
  <2>5. \A u \in Workers, r \in Tables :
          Over(u) /\ Has(u, "table", r) => (Over(u) /\ Has(u, "table", r))'
    BY <1>1, <1>3, <1>11 DEF Over, Has, Busy
  <2>6. (Over(w) /\ Has(w, "table", t))'
    BY <1>5, <1>11 DEF Over, Has
  <2>7. \A x \in Views : server.object[x] # "none" => server'.object[x] # "none"
    BY <1>8 DEF Objects
  <2> QED
    BY <1>1, <1>3, <1>7, <2>1, <2>2, <2>3, <2>4, <2>5, <2>6, <2>7
    DEF IInv, DdlOK, Status
<1>18. StatementsMine'
  BY <1>1, <1>3, <1>7 DEF IInv, StatementsMine, Mine, Ddl
<1> QED
  BY <1>1, <1>3, <1>12, <1>13, <1>14, <1>15, <1>16, <1>17, <1>18, GoesOn,
     Elsewhere DEF IInv, Ddl

\* The end of a task of the DDL stage.
LEMMA HandleEndOfDdl ==
  ASSUME IInv, NEW w \in Workers, HandleEnd(w), pc = "ddl"
  PROVE  IInv'
<1> USE DEF HandleEnd, serverVars, runVars, poolVars
<1>a. PICK task : task = m_task[w]
  OBVIOUS
<1>1. /\ Over(w) /\ task \in SchemaTask \cup PlaceholderTask \cup TableDone
      /\ task.type \in {"schema", "placeholder", "table"}
      /\ task.type = "table" => task \in TableDone
  BY <1>a DEF IInv, WorkersOK, Over, Ddl, SchemaTask, PlaceholderTask, TableDone
<1>2. task.type = "table" =>
        /\ task.of \in Tables /\ server.object[task.of] # "none"
        /\ LeftOK(task.of, task.left) /\ task.left \in SUBSET Statement
  BY <1>a, <1>1 DEF IInv, WorkersOK, Over, Ddl, TableDone
<1>3. /\ state' \in [Workers -> {"ready", "busy", "ended", "idle"}]
      /\ state'[w] = "ready"
      /\ \A u \in Workers : u # w => state'[u] = state[u] /\ m_task'[u] = m_task[u]
      /\ m_task' \in [Workers -> {None} \cup SchemaTask \cup PlaceholderTask
                       \cup TableTask \cup TableDone \cup DataTask \cup IndexTask]
  BY DEF IInv, Types
<1>4. /\ deferred' \in [Tables -> SUBSET Statement]
      /\ \A t \in Tables : deferred'[t] = IF task.type = "table" /\ t = task.of
                                          THEN task.left ELSE deferred[t]
  BY <1>a, <1>2 DEF IInv, Types
<1>5. /\ LogTrue(log)' /\ LogTrue(m_last_state)'
      /\ to_log = None /\ m_last_state' \subseteq log'
      /\ log' = IF task.type = "table" THEN log \cup {Step("table", task.of)}
                                       ELSE log
  <2>1. to_log = None
    BY DEF IInv, Logs, AfterDdl, AfterUsers, AfterViews, ViewStages
  <2>2. CASE task.type = "table"
    <3>1. LogTrue({Step("table", task.of)})
      BY <1>2, <2>2 DEF LogTrue, Step, GtidUpdate
    <3>2. log' = Logged(Step("table", task.of))
      BY <1>a, <2>2
    <3> QED
      BY <2>1, <2>2, <3>1, <3>2, StepLogged
  <2>3. CASE task.type # "table"
    <3>1. log' = log
      BY <1>a, <1>1, <2>3
    <3> QED
      BY <2>1, <2>3, <3>1 DEF IInv, Logs, LogTrue, SchemaThere, ViewIsThere
  <2> QED BY <2>2, <2>3
<1>6. Types'
  BY <1>2, <1>3, <1>4 DEF IInv, Types, LeftOK, Statements
<1>7. Logs'
  BY <1>5 DEF IInv, Logs, Status, Ddl, Step
<1>8. ObjectsOK' /\ ExistsOK'
  BY SameObjects DEF IInv, ExistsOK, ViewIsThere
<1>9. WorkersOK'
  BY <1>3 DEF IInv, WorkersOK, LeftOK, Statements, Busy, Over, Ddl
<1>10. DdlOK'
  <2>1. \A x : Pending(x)' <=> Pending(x)
    BY <1>1, <1>3 DEF Pending, Busy, Over
  <2>2. \A t \in Tables : TableReady(t) => TableReady(t)'
    BY <1>2, <1>4, <1>5 DEF TableReady, LeftOK, Statements
  <2>3. task.type = "table" => TableReady(task.of)'
    BY <1>2, <1>4, <1>5 DEF TableReady, LeftOK, Statements
  <2>4. \A u \in Workers, t \in Tables : Over(u) /\ Has(u, "table", t)
          => (Over(u) /\ Has(u, "table", t))' \/ (u = w /\ task.type = "table" /\ task.of = t)
    BY <1>a, <1>3 DEF Over, Has
  <2> QED
    BY <2>1, <2>2, <2>3, <2>4 DEF IInv, DdlOK, Status
<1>11. StatementsMine'
  BY <1>5 DEF IInv, StatementsMine, Mine, Ddl
<1> QED
  BY <1>6, <1>7, <1>8, <1>9, <1>10, <1>11, GoesOn, Elsewhere DEF IInv, Ddl

\* The end of a task of the data stage.
LEMMA HandleEndOfData ==
  ASSUME IInv, NEW w \in Workers, HandleEnd(w), pc = "data"
  PROVE  IInv'
<1> USE DEF HandleEnd, serverVars, runVars, poolVars
<1>a. PICK task : task = m_task[w]
  OBVIOUS
<1>1. /\ Over(w) /\ task.of \in Tables /\ task.type \in {"data", "index"}
      /\ task.type = "data" => task.of \in server.loaded
  BY <1>a DEF IInv, WorkersOK, Over, DataTask, IndexTask
<1>2. /\ state' \in [Workers -> {"ready", "busy", "ended", "idle"}]
      /\ state'[w] = "ready"
      /\ \A u \in Workers : u # w => state'[u] = state[u] /\ m_task'[u] = m_task[u]
      /\ m_task' \in [Workers -> {None} \cup SchemaTask \cup PlaceholderTask
                       \cup TableTask \cup TableDone \cup DataTask \cup IndexTask]
  BY DEF IInv, Types
<1>3. deferred' = deferred
  BY <1>a, <1>1
<1>4. /\ LogTrue(log)' /\ LogTrue(m_last_state)'
      /\ to_log # None => LogTrue({to_log})'
      /\ m_last_state' \subseteq log'
      /\ log' = IF task.type = "data" THEN log \cup {Step("data", task.of)} ELSE log
  <2>1. CASE task.type = "data"
    <3>1. LogTrue({Step("data", task.of)})
      BY <1>1, <2>1 DEF LogTrue, Step, GtidUpdate
    <3>2. log' = Logged(Step("data", task.of))
      BY <1>a, <2>1
    <3> QED
      BY <2>1, <3>1, <3>2, StepLogged
  <2>2. CASE task.type # "data"
    <3>1. log' = log
      BY <1>a, <1>1, <2>2
    <3> QED
      BY <2>2, <3>1 DEF IInv, Logs, LogTrue, SchemaThere, ViewIsThere
  <2> QED BY <2>1, <2>2
<1>5. Types'
  BY <1>2, <1>3 DEF IInv, Types, Statements
<1>6. Logs'
  BY <1>4 DEF IInv, Logs, Status, Ddl
<1>7. ObjectsOK' /\ ExistsOK'
  BY SameObjects DEF IInv, ExistsOK, ViewIsThere
<1>8. WorkersOK'
  BY <1>2 DEF IInv, WorkersOK, Busy, Over, Ddl
<1>9. AfterDdlOK' /\ ViewsOK'
  BY <1>4 DEF IInv, AfterDdlOK, ViewsOK, ViewIsThere, AllExist, OnServer, ViewStages
<1>10. \A t \in Tables :
         /\ DataPending(t) => DataPending(t)' \/ Step("data", t) \in log'
         /\ DataPending(t)' => DataPending(t)
  BY <1>a, <1>1, <1>2, <1>4 DEF DataPending, Busy, Over, Has
<1>11. DataOK'
  <2>1. \A t \in Tables : \A i \in Indexes[t] : IndexPending(t, i)' <=> IndexPending(t, i)
    BY <1>1, <1>2, <1>3 DEF IndexPending, Busy, Over, Has
  <2>2. \A u \in Workers : Busy(u)' => Busy(u) /\ m_task'[u] = m_task[u] /\ m_task[u] \in DataTask \cup IndexTask
    BY <1>1, <1>2 DEF IInv, WorkersOK, Busy, Over
  <2>3. ASSUME NEW v \in Workers, Busy(v)', m_task'[v].type = "index"
        PROVE  /\ m_task'[v].left \subseteq Indexes[m_task'[v].of]
               /\ Task("index", m_task'[v].of) \notin todo'
               /\ ~DataPending(m_task[v].of)'
               /\ \A u \in Workers :
                    Busy(u)' /\ Has(u, "index", m_task[v].of)' => v = u
    <3>1. Busy(v) /\ m_task'[v] = m_task[v] /\ m_task[v].of \in Tables
      BY <2>2, <2>3 DEF DataTask, IndexTask
    <3> QED
      BY <1>10, <2>2, <2>3, <3>1 DEF IInv, DataOK, Has, DataPending, Busy, Over
  <2> QED
    BY <1>3, <1>4, <1>10, <2>1, <2>2, <2>3 DEF IInv, DataOK
<1>12. StatementsMine'
  BY <1>4, <1>10 DEF IInv, StatementsMine, Mine, Ddl, ViewStages
<1> QED
  BY <1>5, <1>6, <1>7, <1>8, <1>9, <1>11, <1>12, GoesOn, Elsewhere DEF IInv

LEMMA TableDdlDoneStep ==
  ASSUME IInv, TableDdlDone
  PROVE  IInv'
<1> USE DEF TableDdlDone, serverVars, runVars, poolVars
<1>1. Types'
  BY DEF IInv, Types, Before, Phases
<1>2. Logs'
  BY DEF IInv, Logs, LogTrue, SchemaThere, ViewIsThere, Status, Ddl, AfterDdl
<1>3. ObjectsOK' /\ ExistsOK'
  BY SameObjects DEF IInv, ExistsOK, ViewIsThere, Ddl, AfterDdl, Before
<1>4. WorkersOK'
  BY DEF IInv, WorkersOK, Ddl
<1>5. AfterDdlOK'
  <2>1. \A x : Pending(x) => x \in fetching \cup worker_tasks
    BY DEF Pending, Busy
  <2>2. \A x : ~Pending(x)
    BY <2>1, StagesAssumption DEF IInv, WorkersOK, Ddl
  <2>3. \A w \in Workers : ~Over(w)
    BY DEF Over
  <2>4. /\ m_schema_ddl_ready \subseteq server.schemas
        /\ \A s \in Schemas : s \in m_schema_ddl_ready
        /\ \A v \in Views : server.object[v] # "none"
        /\ \A t \in Tables : TableReady(t)
    BY <2>2, <2>3 DEF IInv, DdlOK, Ddl
  <2>5. server.schemas = Schemas /\ AllExist
    BY <2>4, ServerFields DEF IInv, AllExist, OnServer, TableReady
  <2>6. AllExist'
    BY <2>5 DEF AllExist, OnServer
  <2>7. \A t \in Tables : LeftOK(t, deferred[t])' /\ Step("table", t) \in log
    BY <2>4 DEF TableReady, LeftOK, Statements
  <2> QED
    BY <2>5, <2>6, <2>7 DEF AfterDdlOK, AfterDdl, AfterUsers, AfterViews, ViewStages
<1>6. StatementsMine'
  BY DEF IInv, StatementsMine, Mine, Ddl
<1> QED
  BY <1>1, <1>2, <1>3, <1>4, <1>5, <1>6, GoesOn, Elsewhere DEF IInv
-----------------------------------------------------------------------------
(***************************************************************************)
(* Users and views.                                                        *)
(***************************************************************************)

LEMMA LoadUsersStep ==
  ASSUME IInv, LoadUsers
  PROVE  IInv'
<1>1. /\ pc = "users" /\ pc' = "add_views"
      /\ server' = [server EXCEPT !.users = TRUE]
      /\ todo' = {s \in Schemas : ~Status(Step("schema", s))}
      /\ UNCHANGED <<opt, user, run, checked, log, m_last_state, m_resuming,
                     exists, fetching, worker_tasks, current, outcome, m_task,
                     state, m_schema_ddl_ready, deferred, to_log>>
  BY DEF LoadUsers, unchangedByMain, runVars, poolVars, workerVars, IInv,
         AfterDdlOK, AfterDdl
<1>2. /\ server' \in Server /\ server'.users = TRUE
      /\ server'.schemas = server.schemas /\ server'.object = server.object
      /\ server'.statements = server.statements
      /\ server'.loaded = server.loaded /\ server'.gtid = server.gtid
  BY <1>1 DEF IInv, Types, Server
<1>3. \A v \in Views : ViewIsThere(v)' <=> ViewIsThere(v)
  BY <1>1, <1>2 DEF ViewIsThere
<1>4. Types'
  BY <1>1, <1>2 DEF IInv, Types, Before, Phases
<1>5. Logs'
  <2>1. /\ LogTrue(log)' /\ LogTrue(m_last_state)'
        /\ to_log # None => LogTrue({to_log})'
    BY <1>1, <1>2, <1>3, LogsKept
  <2> QED
    BY <1>1, <2>1 DEF IInv, Logs, Ddl, AfterDdl, AfterUsers, ViewStages
<1>6. ObjectsOK' /\ ExistsOK'
  BY <1>1, <1>2, <1>3
  DEF IInv, ObjectsOK, ExistsOK, Before, AfterDdl, AfterUsers, ViewStages
<1>7. WorkersOK'
  BY <1>1 DEF IInv, WorkersOK, Ddl
<1>8. AfterDdlOK'
  BY <1>1, <1>2
  DEF IInv, AfterDdlOK, AllExist, OnServer, LeftOK, Statements, AfterDdl,
      AfterUsers, ViewStages
<1>9. ViewsOK'
  <2>1. todo' \cap exists' = {} /\ todo' \subseteq Schemas \cup Views
    BY <1>1, StagesAssumption DEF IInv, Types, Objects
  <2>2. ASSUME NEW v \in Views, Home[v] \notin todo'
        PROVE  ViewIsThere(v)'
    <3>1. Home[v] \in Schemas /\ v \in In(Home[v], Views)
      BY StagesAssumption DEF In
    <3>2. Step("schema", Home[v]) \in m_last_state
      BY <1>1, <2>2, <3>1 DEF Status
    <3> QED
      BY <1>3, <3>1, <3>2 DEF IInv, Logs, LogTrue, SchemaThere
  <2> QED
    BY <1>1, <2>1, <2>2 DEF ViewsOK, AfterViews
<1>10. StatementsMine'
  BY <1>1, <1>2 DEF IInv, StatementsMine, Mine, Ddl, ViewStages
<1> QED
  BY <1>1, <1>4, <1>5, <1>6, <1>7, <1>8, <1>9, <1>10, GoesOn, Elsewhere
  DEF IInv, ViewStages

LEMMA SchemaWithoutViewsStep ==
  ASSUME IInv, SchemaWithoutViews
  PROVE  IInv'
<1> USE DEF SchemaWithoutViews, unchangedByMain, runVars, poolVars, workerVars
<1>1. PICK s \in todo \cap Schemas :
        /\ In(s, Views) = {}
        /\ log' = Logged(Step("schema", s))
        /\ todo' = todo \ {s}
  OBVIOUS
<1>2. LogTrue({Step("schema", s)})
  <2>1. s \in server.schemas
    BY DEF IInv, AfterDdlOK, AfterDdl, AfterUsers, ViewStages
  <2> QED
    BY <1>1, <2>1 DEF LogTrue, SchemaThere, Step, GtidUpdate
<1>3. /\ LogTrue(log)' /\ LogTrue(m_last_state)'
      /\ to_log # None => LogTrue({to_log})'
      /\ log' = log \cup {Step("schema", s)} /\ m_last_state' \subseteq log'
  BY <1>1, <1>2, StepLogged
<1>4. Types'
  BY DEF IInv, Types
<1>5. Logs'
  BY <1>3 DEF IInv, Logs, Ddl
<1>6. ObjectsOK' /\ ExistsOK'
  BY SameObjects DEF IInv, ExistsOK, ViewIsThere
<1>7. WorkersOK'
  BY DEF IInv, WorkersOK, Ddl
<1>8. AfterDdlOK'
  BY <1>3 DEF IInv, AfterDdlOK, AllExist, OnServer, LeftOK, Statements
<1>9. ViewsOK'
  <2>1. \A v \in Views : v # s /\ Home[v] # s
    BY <1>1, StagesAssumption DEF In
  <2> QED
    BY <1>1, <2>1 DEF IInv, ViewsOK, ViewIsThere, AfterViews
<1>10. StatementsMine'
  BY <1>3 DEF IInv, StatementsMine, Mine, Ddl, ViewStages
<1> QED
  BY <1>4, <1>5, <1>6, <1>7, <1>8, <1>9, <1>10, GoesOn, Elsewhere
  DEF IInv, ViewStages

LEMMA SchemaWithViewsStep ==
  ASSUME IInv, SchemaWithViews
  PROVE  IInv'
<1> USE DEF SchemaWithViews, unchangedByMain, runVars, poolVars, workerVars
<1>1. Types'
  BY DEF IInv, Types
<1>2. Logs'
  BY DEF IInv, Logs, LogTrue, SchemaThere, ViewIsThere, Ddl
<1>3. ObjectsOK' /\ ExistsOK'
  BY SameObjects DEF IInv, ExistsOK, ViewIsThere
<1>4. WorkersOK'
  BY DEF IInv, WorkersOK, Ddl
<1>5. AfterDdlOK'
  BY DEF IInv, AfterDdlOK, AllExist, OnServer, LeftOK, Statements
<1>6. ViewsOK'
  <2>1. PICK s \in todo \cap Schemas :
          todo' = (todo \ {s}) \cup (In(s, Views) \ exists)
    OBVIOUS
  <2>2. \A v \in Views : v # s /\ (Home[v] = s <=> v \in In(s, Views))
    BY StagesAssumption DEF In
  <2>3. In(s, Views) \subseteq Views
    BY DEF In
  <2>4. \A v \in exists \cap Views : ViewIsThere(v)
    BY DEF IInv, ExistsOK, AfterDdl, AfterUsers, ViewStages
  <2> QED
    BY <2>1, <2>2, <2>3, <2>4 DEF IInv, ViewsOK, ViewIsThere, AfterViews
<1>7. StatementsMine'
  BY DEF IInv, StatementsMine, Mine, Ddl, ViewStages
<1> QED
  BY <1>1, <1>2, <1>3, <1>4, <1>5, <1>6, <1>7, GoesOn, Elsewhere
  DEF IInv, ViewStages

LEMMA AllViewsAddedStep ==
  ASSUME IInv, AllViewsAdded
  PROVE  IInv'
<1> USE DEF AllViewsAdded, unchangedByMain, runVars, poolVars, workerVars
<1>1. Types'
  BY DEF IInv, Types, Before, Phases
<1>2. Logs'
  BY DEF IInv, Logs, LogTrue, SchemaThere, ViewIsThere, Ddl, AfterDdl,
         AfterUsers, ViewStages
<1>3. ObjectsOK' /\ ExistsOK'
  BY SameObjects
  DEF IInv, ExistsOK, ViewIsThere, Before, AfterDdl, AfterUsers, ViewStages
<1>4. WorkersOK'
  BY DEF IInv, WorkersOK, Ddl
<1>5. AfterDdlOK'
  BY DEF IInv, AfterDdlOK, AllExist, OnServer, LeftOK, Statements, AfterDdl,
         AfterUsers, ViewStages
<1>6. ViewsOK'
  BY StagesAssumption DEF IInv, ViewsOK, ViewIsThere, AfterViews, ViewStages
<1>7. StatementsMine'
  BY DEF IInv, StatementsMine, Mine, Ddl, ViewStages
<1> QED
  BY <1>1, <1>2, <1>3, <1>4, <1>5, <1>6, <1>7, GoesOn, Elsewhere
  DEF IInv, ViewStages

\* The schema is logged with its last view: all the others are there.
LEMMA ExecuteViewDdlStep ==
  ASSUME IInv, ExecuteViewDdl
  PROVE  IInv'
<1>1. pc = "views" /\ to_log = None /\ AllExist /\ server.users
      /\ server.schemas = Schemas
  BY DEF ExecuteViewDdl, IInv, AfterDdlOK, AfterDdl, AfterUsers, ViewStages
<1>2. PICK v \in todo :
        /\ server' = [server EXCEPT !.object[v] = "dumped"]
        /\ todo' = todo \ {v}
        /\ to_log' = IF In(Home[v], todo \ {v}) = {} THEN Step("schema", Home[v])
                                                     ELSE None
        /\ UNCHANGED <<pc, outcome>>
  BY <1>1 DEF ExecuteViewDdl, ViewsLeft
<1>3. UNCHANGED <<opt, user, run, checked, log, m_last_state, m_resuming,
                  exists, fetching, worker_tasks, current, m_task, state,
                  m_schema_ddl_ready, deferred>>
  BY DEF ExecuteViewDdl, unchangedByMain, runVars, poolVars, workerVars
<1>4. v \in Views /\ v \in Objects /\ v \notin exists /\ Home[v] \in Schemas
      /\ todo \subseteq Views
  BY <1>1, StagesAssumption DEF IInv, ViewsOK, Objects, ViewStages
<1>5. /\ server' \in Server
      /\ server'.object = [server.object EXCEPT ![v] = "dumped"]
      /\ server'.schemas = server.schemas /\ server'.statements = server.statements
      /\ server'.loaded = server.loaded /\ server'.users = server.users
      /\ server'.gtid = server.gtid
  BY <1>2, <1>4 DEF IInv, Types, Server
<1>6. /\ server'.object[v] = "dumped"
      /\ \A x \in Objects : x # v => server'.object[x] = server.object[x]
      /\ \A x \in Objects : server.object[x] # "none" => server'.object[x] # "none"
  BY <1>4, <1>5, ServerFields DEF IInv
<1>7. /\ ViewIsThere(v)'
      /\ \A x \in Objects : ViewIsThere(x) => ViewIsThere(x)'
  BY <1>3, <1>6 DEF ViewIsThere
<1>8. Types'
  BY <1>1, <1>2, <1>3, <1>5 DEF IInv, Types
<1>9. Logs'
  <2>1. LogTrue(log)' /\ LogTrue(m_last_state)'
    BY <1>3, <1>5, <1>6, <1>7, LogsKept DEF Objects
  <2>2. ASSUME to_log' # None PROVE LogTrue({to_log})'
    <3>1. to_log' = Step("schema", Home[v]) /\ In(Home[v], todo \ {v}) = {}
      BY <1>2, <2>2
    <3>2. ASSUME NEW u \in In(Home[v], Views) PROVE ViewIsThere(u)'
      <4>1. u \in Views /\ Home[u] = Home[v] /\ u \notin todo \ {v} /\ u \in Objects
        BY <3>1, <3>2 DEF In, Objects
      <4>2. u = v \/ ViewIsThere(u)
        BY <1>1, <4>1 DEF IInv, ViewsOK
      <4> QED
        BY <1>7, <4>1, <4>2
    <3>3. SchemaThere(Home[v])'
      BY <1>1, <1>4, <1>5, <3>2 DEF SchemaThere
    <3> QED
      BY <3>1, <3>3 DEF LogTrue, Step, GtidUpdate
  <2> QED
    BY <1>1, <1>2, <1>3, <2>1, <2>2
    DEF IInv, Logs, Ddl, AfterDdl, AfterUsers, ViewStages
<1>10. ObjectsOK'
  <2>1. \A x \in server.statements : x.of \in Objects
    BY ServerFields DEF IInv, Statement, Objects
  <2>2. opt.ignore_existing_objects => v \notin user
    BY <1>1, <1>4 DEF IInv, ExistsOK, AfterDdl, AfterUsers, ViewStages
  <2>3. user \subseteq Objects
    BY DEF IInv, Types
  <2> QED
    BY <1>2, <1>3, <1>4, <1>5, <1>6, <2>1, <2>2, <2>3 DEF IInv, ObjectsOK
<1>11. ExistsOK'
  BY <1>2, <1>3, <1>6, <1>7 DEF IInv, ExistsOK, Types
<1>12. WorkersOK'
  BY <1>1, <1>2, <1>3 DEF IInv, WorkersOK, Ddl
<1>13. AfterDdlOK'
  BY <1>1, <1>2, <1>3, <1>5, <1>6
  DEF IInv, AfterDdlOK, AllExist, OnServer, LeftOK, Statements, Objects
<1>14. ViewsOK'
  BY <1>1, <1>2, <1>3, <1>4, <1>7 DEF IInv, ViewsOK, AfterViews, Objects
<1>15. StatementsMine'
  BY <1>1, <1>2, <1>3, <1>5 DEF IInv, StatementsMine, Mine, Ddl, ViewStages
<1> QED
  BY <1>1, <1>2, <1>8, <1>9, <1>10, <1>11, <1>12, <1>13, <1>14, <1>15, GoesOn,
     Elsewhere DEF IInv, ViewStages

LEMMA LogStepStep ==
  ASSUME IInv, LogStep
  PROVE  IInv'
<1> USE DEF LogStep, unchangedByMain, runVars, poolVars, workerVars
<1>1. pc \in {"views", "statements", "cleanup"} /\ LogTrue({to_log})
  BY DEF IInv, Logs
<1>2. pc \notin {"open", "rewrite", "end", "check", "prepare"} \cup Ddl
  BY <1>1 DEF Ddl
<1>3. /\ LogTrue(log)' /\ LogTrue(m_last_state)'
      /\ log' = log \cup {to_log} /\ m_last_state' \subseteq log'
  BY <1>1, <1>2, StepLogged
<1>4. Types'
  BY DEF IInv, Types
<1>5. Logs'
  BY <1>2, <1>3 DEF IInv, Logs
<1>6. ObjectsOK' /\ ExistsOK'
  BY SameObjects DEF IInv, ExistsOK, ViewIsThere
<1>7. WorkersOK'
  BY <1>2 DEF IInv, WorkersOK, Busy, Over
<1>8. DdlOK'
  BY <1>2 DEF DdlOK
<1>9. AfterDdlOK'
  BY <1>3 DEF IInv, AfterDdlOK, AllExist, OnServer, LeftOK, Statements
<1>10. ViewsOK'
  BY DEF IInv, ViewsOK, ViewIsThere
<1>11. DataOK'
  BY <1>3 DEF IInv, DataOK, DataPending, IndexPending, Busy, Over, Has, Statements
<1>12. EndOK'
  BY <1>3 DEF IInv, EndOK, Statements
<1>13. StatementsMine'
  BY <1>2, <1>3 DEF IInv, StatementsMine, Mine, DataPending, Busy, Over, Has
<1> QED
  BY <1>2, <1>4, <1>5, <1>6, <1>7, <1>8, <1>9, <1>10, <1>11, <1>12, <1>13, GoesOn
  DEF IInv

LEMMA ViewsDoneStep ==
  ASSUME IInv, ViewsDone
  PROVE  IInv'
<1> USE DEF ViewsDone, unchangedByMain, runVars, poolVars, workerVars
<1>1. /\ \A t \in Tables : Task("data", t) \in todo' <=> ~Status(Step("data", t))
      /\ \A t \in Tables : Task("index", t) \in todo'
           <=> \E i \in Indexes[t] : Step(i, t) \in deferred[t]
      /\ todo' \subseteq DataTask \cup [type : {"index"}, of : Tables]
  <2>1. todo' = {Task("data", t) : t \in {t \in Tables : ~Status(Step("data", t))}}
                \cup {Task("index", t) : t \in {t \in Tables :
                         \E i \in Indexes[t] : Step(i, t) \in deferred[t]}}
    OBVIOUS
  <2>2. todo' \subseteq DataTask \cup [type : {"index"}, of : Tables]
    BY <2>1 DEF Task, DataTask
  <2>3. \A t \in Tables : Task("data", t) \in todo' <=> ~Status(Step("data", t))
    BY <2>1 DEF Task
  <2>4. \A t \in Tables : Task("index", t) \in todo'
           <=> \E i \in Indexes[t] : Step(i, t) \in deferred[t]
    BY <2>1 DEF Task
  <2> QED BY <2>2, <2>3, <2>4
<1>2. \A w \in Workers : ~Busy(w)' /\ ~Over(w)'
  BY DEF IInv, WorkersOK, Busy, Over, Ddl
<1>3. Types'
  BY DEF IInv, Types, Before, Phases
<1>4. Logs'
  BY DEF IInv, Logs, LogTrue, SchemaThere, ViewIsThere, Ddl
<1>5. ObjectsOK' /\ ExistsOK'
  BY SameObjects
  DEF IInv, ExistsOK, ViewIsThere, Before, AfterDdl, AfterUsers, ViewStages,
      AfterViews
<1>6. WorkersOK'
  BY DEF IInv, WorkersOK, Busy, Over, Ddl
<1>7. AfterDdlOK' /\ ViewsOK'
  BY DEF IInv, AfterDdlOK, ViewsOK, ViewIsThere, AllExist, OnServer, AfterDdl,
         AfterUsers, ViewStages, AfterViews
<1>8. \A t \in Tables : DataPending(t)' <=> ~Status(Step("data", t))
  BY <1>1, <1>2 DEF DataPending
<1>9. DataOK'
  <2>1. \A t \in Tables : LeftOK(t, deferred[t])
    BY DEF IInv, AfterDdlOK, ViewStages
  <2>2. \A t \in Tables : \A i \in Indexes[t] :
          IndexPending(t, i)' <=> Step(i, t) \in deferred[t]
    BY <1>1, <1>2 DEF IndexPending
  <2>3. \A t \in Tables : \A i \in Indexes[t] :
          /\ Step(i, t) \in deferred[t] \/ Step(i, t) \in server.statements
          /\ checked /\ Step(i, t) \in deferred[t] => Step(i, t) \notin server.statements
    BY <2>1, StatementFacts DEF LeftOK
  <2>4. \A t \in Tables : DataPending(t)' \/ Step("data", t) \in log'
    BY <1>8 DEF IInv, Logs, Status
  <2>5. \A t \in Tables :
          /\ \A x \in deferred[t] : checked => x \notin server.statements
          /\ \A x \in Statements(t) : x \in server.statements \cup deferred[t]
    BY <2>1 DEF LeftOK
  <2> QED
    BY <1>1, <1>2, <2>2, <2>3, <2>4, <2>5 DEF DataOK, Statements
<1>10. StatementsMine'
  <2>1. checked /\ ~opt.ignore_existing_objects => Mine(m_last_state)
    BY DEF IInv, StatementsMine, ViewStages
  <2>2. checked /\ ~opt.ignore_existing_objects =>
          \A t \in Tables : DataPending(t)' => \A x \in server.statements : x.of # t
    BY <1>8, <2>1 DEF Mine, Status
  <2> QED
    BY <2>2 DEF IInv, StatementsMine, Mine, Ddl, ViewStages
<1> QED
  BY <1>3, <1>4, <1>5, <1>6, <1>7, <1>9, <1>10, GoesOn, Elsewhere DEF IInv
-----------------------------------------------------------------------------
(***************************************************************************)
(* Data and indexes.                                                       *)
(***************************************************************************)

LEMMA ScheduleStep ==
  ASSUME IInv, NEW w \in Workers, Schedule(w)
  PROVE  IInv'
<1> USE DEF Schedule, serverVars, runVars, poolVars
<1>1. PICK task \in todo :
        /\ Due(task)
        /\ todo' = todo \ {task}
        /\ m_task' = [m_task EXCEPT ![w] =
                        IF task.type = "data" THEN task
                        ELSE [type |-> "index", of |-> task.of, left |->
                                {i \in Indexes[task.of] :
                                   Step(i, task.of) \in deferred[task.of]}]]
  OBVIOUS
<1>2. PICK new : new = m_task'[w]
  OBVIOUS
<1>3. /\ task.of \in Tables /\ task.type \in {"data", "index"}
      /\ task = Task(task.type, task.of)
  BY DEF IInv, DataOK, DataTask, Task
<1>4. /\ m_task' = [m_task EXCEPT ![w] = new]
      /\ new = IF task.type = "data" THEN task
               ELSE [type |-> "index", of |-> task.of, left |->
                       {i \in Indexes[task.of] :
                          Step(i, task.of) \in deferred[task.of]}]
  BY <1>1, <1>2 DEF IInv, Types
<1>5. /\ new \in DataTask \cup IndexTask /\ new.type = task.type /\ new.of = task.of
      /\ task.type = "index" =>
           new.left = {i \in Indexes[task.of] : Step(i, task.of) \in deferred[task.of]}
  <2>1. task.type = "data" => task \in DataTask
    BY <1>3 DEF DataTask, Task
  <2>2. Indexes[task.of] \subseteq IndexNames
    BY <1>3 DEF IndexNames
  <2> QED
    BY <1>3, <1>4, <2>1, <2>2 DEF DataTask, IndexTask
<1>6. /\ state' \in [Workers -> {"ready", "busy", "ended", "idle"}]
      /\ state'[w] = "busy" /\ m_task'[w] = new
      /\ \A u \in Workers : u # w => state'[u] = state[u] /\ m_task'[u] = m_task[u]
      /\ m_task' \in [Workers -> {None} \cup SchemaTask \cup PlaceholderTask
                       \cup TableTask \cup TableDone \cup DataTask \cup IndexTask]
  BY <1>4, <1>5 DEF IInv, Types
<1>7. Types'
  BY <1>6 DEF IInv, Types
<1>8. Logs'
  BY DEF IInv, Logs, LogTrue, SchemaThere, ViewIsThere, Ddl
<1>9. ObjectsOK' /\ ExistsOK'
  BY SameObjects DEF IInv, ExistsOK, ViewIsThere
<1>10. WorkersOK'
  <2>1. \A u \in Workers :
          /\ state[u] # "idle"
          /\ Busy(u) \/ Over(u) => m_task[u] \in DataTask \cup IndexTask
          /\ Over(u) /\ m_task[u].type = "data" => m_task[u].of \in server.loaded
    BY DEF IInv, WorkersOK
  <2>2. \A u \in Workers :
          /\ state'[u] # "idle"
          /\ state'[u] \in {"busy", "ended"} => m_task'[u] \in DataTask \cup IndexTask
          /\ state'[u] = "ended" /\ m_task'[u].type = "data"
               => m_task'[u].of \in server.loaded
    BY <1>5, <1>6, <2>1, SMTT(30) DEF Busy, Over
  <2> QED
    BY <2>2 DEF WorkersOK, Busy, Over, Ddl
<1>11. AfterDdlOK' /\ ViewsOK'
  BY DEF IInv, AfterDdlOK, ViewsOK, ViewIsThere, AllExist, OnServer, ViewStages
<1>12. \A t \in Tables : DataPending(t)' <=> DataPending(t)
  <2>1. \A t \in Tables : task = Task("data", t) <=> task.type = "data" /\ task.of = t
    BY <1>3 DEF Task
  <2> QED
    BY <1>1, <1>3, <1>5, <1>6, <2>1 DEF DataPending, Busy, Over, Has
<1>13. DataOK'
  <2>1. \A t \in Tables : task = Task("index", t) <=> task.type = "index" /\ task.of = t
    BY <1>3 DEF Task
  <2>2. \A t \in Tables : \A i \in Indexes[t] : IndexPending(t, i)' <=> IndexPending(t, i)
    BY <1>1, <1>3, <1>5, <1>6, <2>1 DEF IndexPending, Busy, Has
  <2>3. \A u \in Workers : Busy(u) \/ Over(u) => m_task[u] \in DataTask \cup IndexTask
    BY DEF IInv, WorkersOK
  <2>4. task.type = "index" => ~DataPending(task.of)
    <3>1. task.type = "index" =>
            /\ Task("data", task.of) \notin todo
            /\ \A u \in Workers : m_task[u] # Task("data", task.of)
      BY <1>1 DEF Due
    <3>2. \A u \in Workers : (Busy(u) \/ Over(u)) /\ Has(u, "data", task.of)
            => m_task[u] = Task("data", task.of)
      BY <2>3 DEF DataTask, IndexTask, Task, Has
    <3> QED
      BY <3>1, <3>2 DEF DataPending
  <2>5. ASSUME NEW v \in Workers, Busy(v)', m_task'[v].type = "index"
        PROVE  /\ m_task'[v].left \subseteq Indexes[m_task'[v].of]
               /\ Task("index", m_task'[v].of) \notin todo'
               /\ ~DataPending(m_task[v].of)'
               /\ \A u \in Workers :
                    Busy(u)' /\ Has(u, "index", m_task[v].of)' => v = u
    <3>1. CASE v = w
      <4>1. task.type = "index" /\ m_task'[v].of = task.of
        BY <1>5, <1>6, <2>5, <3>1
      <4>2. \A u \in Workers : u # w /\ Busy(u) => ~Has(u, "index", task.of)
        BY <1>3, <4>1, <2>1 DEF IInv, DataOK, Has
      <4>3. ~DataPending(m_task[v].of)'
        BY <1>3, <1>12, <2>4, <4>1 DEF DataPending, Busy, Over, Has
      <4> QED
        BY <1>1, <1>3, <1>5, <1>6, <2>1, <3>1, <4>1, <4>2, <4>3 DEF Busy, Has
    <3>2. CASE v # w
      <4>1. Busy(v) /\ m_task'[v] = m_task[v] /\ m_task[v].of \in Tables
        BY <1>6, <2>3, <2>5, <3>2 DEF Busy, DataTask, IndexTask
      <4>2. /\ m_task[v].left \subseteq Indexes[m_task[v].of]
            /\ Task("index", m_task[v].of) \notin todo
            /\ ~DataPending(m_task[v].of)
            /\ \A u \in Workers : Busy(u) /\ Has(u, "index", m_task[v].of) => v = u
        BY <2>5, <4>1 DEF IInv, DataOK
      <4>3. ~DataPending(m_task[v].of)'
        BY <1>12, <4>1, <4>2 DEF DataPending, Busy, Over, Has
      <4>4. task.type = "index" => task.of # m_task[v].of
        BY <1>3, <4>2
      <4> QED
        BY <1>1, <1>5, <1>6, <4>1, <4>2, <4>3, <4>4 DEF Busy, Has
    <3> QED BY <3>1, <3>2
  <2> QED
    BY <1>1, <1>12, <2>2, <2>5 DEF IInv, DataOK, Statements
<1>14. StatementsMine'
  BY <1>12 DEF IInv, StatementsMine, Mine, Ddl, ViewStages
<1> QED
  BY <1>7, <1>8, <1>9, <1>10, <1>11, <1>13, <1>14, GoesOn, Elsewhere DEF IInv

LEMMA LoadDataStep ==
  ASSUME IInv, NEW w \in Workers, Execute(w), LoadData(w)
  PROVE  IInv'
<1>1. PICK t : t = m_task[w].of
  OBVIOUS
<1>2. /\ pc = "data" /\ Busy(w) /\ t \in Tables
      /\ m_task[w] \in DataTask
  BY <1>1, ExecuteFacts DEF LoadData, SchemaTask, PlaceholderTask, TableTask,
                            DataTask, IndexTask
<1>3. /\ server' = [server EXCEPT !.loaded = @ \cup {t}]
      /\ state' = [state EXCEPT ![w] = "ended"]
      /\ UNCHANGED <<opt, user, run, checked, log, m_last_state, m_resuming,
                     exists, fetching, worker_tasks, current, pc, outcome,
                     m_task, m_schema_ddl_ready, deferred, todo, to_log>>
  BY <1>1 DEF Execute, LoadData, runVars, poolVars
<1>4. /\ server' \in Server
      /\ server'.loaded = server.loaded \cup {t}
      /\ server'.schemas = server.schemas /\ server'.statements = server.statements
      /\ server'.object = server.object /\ server'.users = server.users
      /\ server'.gtid = server.gtid
  BY <1>2, <1>3 DEF IInv, Types, Server
<1>5. /\ state' \in [Workers -> {"ready", "busy", "ended", "idle"}]
      /\ state'[w] = "ended"
      /\ \A u \in Workers : u # w => state'[u] = state[u]
  BY <1>3 DEF IInv, Types
<1>6. \A v \in Views : ViewIsThere(v)' <=> ViewIsThere(v)
  BY <1>3, <1>4 DEF ViewIsThere
<1>7. Types'
  BY <1>2, <1>3, <1>4, <1>5 DEF IInv, Types
<1>8. Logs'
  <2>1. /\ LogTrue(log)' /\ LogTrue(m_last_state)'
        /\ to_log # None => LogTrue({to_log})'
    BY <1>3, <1>4, <1>6, LogsKept
  <2> QED
    BY <1>2, <1>3, <2>1 DEF IInv, Logs, Ddl
<1>9. ObjectsOK' /\ ExistsOK'
  BY <1>3, <1>4, <1>6 DEF IInv, ObjectsOK, ExistsOK
<1>10. WorkersOK'
  BY <1>1, <1>2, <1>3, <1>4, <1>5 DEF IInv, WorkersOK, Busy, Over, Ddl
<1>11. AfterDdlOK' /\ ViewsOK'
  BY <1>2, <1>3, <1>4, <1>6
  DEF IInv, AfterDdlOK, ViewsOK, AllExist, OnServer, ViewStages
<1>12. \A t2 \in Tables : DataPending(t2)' <=> DataPending(t2)
  BY <1>2, <1>3, <1>5 DEF DataPending, Busy, Over, Has
<1>13. DataOK'
  <2>1. \A t2 \in Tables : \A i \in Indexes[t2] :
          IndexPending(t2, i)' <=> IndexPending(t2, i)
    BY <1>2, <1>3, <1>5 DEF IndexPending, Busy, Has, DataTask
  <2>2. \A u \in Workers : Busy(u)' => Busy(u) /\ m_task'[u] = m_task[u] /\ m_task[u].of \in Tables
    BY <1>2, <1>3, <1>5 DEF IInv, WorkersOK, Busy, DataTask, IndexTask
  <2>3. ASSUME NEW v \in Workers, Busy(v)', m_task'[v].type = "index"
        PROVE  /\ m_task'[v].left \subseteq Indexes[m_task'[v].of]
               /\ Task("index", m_task'[v].of) \notin todo'
               /\ ~DataPending(m_task[v].of)'
               /\ \A u \in Workers :
                    Busy(u)' /\ Has(u, "index", m_task[v].of)' => v = u
    BY <1>2, <1>3, <1>12, <2>2, <2>3
    DEF IInv, DataOK, Has, DataPending, Busy, Over
  <2> QED
    BY <1>2, <1>3, <1>4, <1>12, <2>1, <2>3 DEF IInv, DataOK, Statements
<1>14. StatementsMine'
  BY <1>2, <1>3, <1>4, <1>12 DEF IInv, StatementsMine, Mine, Ddl, ViewStages
<1> QED
  BY <1>2, <1>3, <1>7, <1>8, <1>9, <1>10, <1>11, <1>13, <1>14, GoesOn, Elsewhere
  DEF IInv
\* An index is missing while it is in a task, if existing objects were looked
\* for; it is created before the table gets its secondary engine.
LEMMA CreateIndexStep ==
  ASSUME IInv, NEW w \in Workers, Execute(w), CreateIndex(w)
  PROVE  IInv'
<1>1. PICK t : t = m_task[w].of
  OBVIOUS
<1>2. PICK old : old = m_task[w].left
  OBVIOUS
<1>3. /\ pc = "data" /\ Busy(w) /\ t \in Tables
      /\ m_task[w] \in IndexTask
  BY <1>1, ExecuteFacts DEF CreateIndex, SchemaTask, PlaceholderTask, TableTask,
                            DataTask, IndexTask
<1>4. /\ old \subseteq Indexes[t] /\ Task("index", t) \notin todo
      /\ ~DataPending(t)
      /\ \A u \in Workers : Busy(u) /\ Has(u, "index", t) => u = w
  BY <1>1, <1>2, <1>3 DEF IInv, DataOK, CreateIndex
<1>5. PICK i \in old :
        \/ ~Altered(Step(i, t)) /\ Rejected
        \/ /\ Altered(Step(i, t))
           /\ server' = [server EXCEPT !.statements = @ \cup {Step(i, t)}]
           /\ m_task' = [m_task EXCEPT ![w].left = old \ {i}]
           /\ state' = [state EXCEPT ![w] = IF old \ {i} = {} THEN "ended"
                                                             ELSE "busy"]
           /\ UNCHANGED <<pc, outcome, m_schema_ddl_ready, deferred, todo, to_log>>
  BY <1>1, <1>2 DEF CreateIndex
<1>6. /\ i \in Indexes[t] /\ Step(i, t) \in Statements(t)
      /\ Step(i, t) \in Statement /\ Step(i, t).of = t
      /\ i \notin {"fk", "engine", "triggers"}
  BY <1>3, <1>4, StatementFacts DEF Step
<1>7. UNCHANGED <<opt, user, run, checked, log, m_last_state, m_resuming,
                  exists, fetching, worker_tasks, current>>
  BY DEF Execute, runVars, poolVars
<1>8. to_log = None
  BY <1>3 DEF IInv, Logs
<1>9. CASE ~Altered(Step(i, t)) /\ Rejected
  <2>1. IndexPending(t, i)
    BY <1>1, <1>2, <1>3 DEF IndexPending, Has, CreateIndex
  <2>2. checked => Step(i, t) \notin server.statements
    BY <1>3, <1>6, <2>1 DEF IInv, DataOK
  <2>3. checked => Step("engine", t) \notin server.statements
    BY <1>3, <1>6, <2>2 DEF IInv, ObjectsOK
  <2>4. ~checked
    BY <1>6, <1>9, <2>2, <2>3 DEF Altered
  <2> QED
    BY <1>3, <1>7, <1>8, <1>9, <2>4, EndsEarly
    DEF Rejected, Ended, workerVars, runVars, poolVars
<1>10. CASE Altered(Step(i, t)) /\ UNCHANGED pc
  <2> DEFINE x == Step(i, t)
  <2>1. /\ server' = [server EXCEPT !.statements = @ \cup {x}]
        /\ m_task' = [m_task EXCEPT ![w].left = old \ {i}]
        /\ state' = [state EXCEPT ![w] = IF old \ {i} = {} THEN "ended"
                                                          ELSE "busy"]
        /\ UNCHANGED <<pc, outcome, m_schema_ddl_ready, deferred, todo, to_log>>
    BY <1>5, <1>10
  <2>2. x \notin server.statements /\ Step("engine", t) \notin server.statements
    BY <1>6, <1>10 DEF Altered
  <2>3. x \in Statement /\ x.of = t /\ x.what = i /\ x # Step("engine", t)
    BY <1>6 DEF Step
  <2> HIDE DEF x
  <2>4. /\ server' \in Server
        /\ server'.statements = server.statements \cup {x}
        /\ server'.schemas = server.schemas /\ server'.loaded = server.loaded
        /\ server'.object = server.object /\ server'.users = server.users
        /\ server'.gtid = server.gtid
    BY <2>1, <2>3 DEF IInv, Types, Server
  <2>5. /\ m_task[w].type = "index" /\ m_task[w].of = t /\ m_task[w].left = old
        /\ m_task'[w] \in IndexTask
        /\ m_task'[w].type = "index" /\ m_task'[w].of = t
        /\ m_task'[w].left = old \ {i}
        /\ \A u \in Workers : u # w => m_task'[u] = m_task[u]
    BY <1>1, <1>2, <1>3, <2>1 DEF IInv, Types, IndexTask
  <2>6. /\ state' \in [Workers -> {"ready", "busy", "ended", "idle"}]
        /\ state'[w] \in {"busy", "ended"}
        /\ state'[w] = "ended" => old = {i}
        /\ \A u \in Workers : u # w => state'[u] = state[u]
    BY <2>1 DEF IInv, Types
  <2>7. \A v \in Views : ViewIsThere(v)' <=> ViewIsThere(v)
    BY <1>7, <2>4 DEF ViewIsThere
  <2>8. Types'
    <3>1. m_task' \in [Workers -> {None} \cup SchemaTask \cup PlaceholderTask
                        \cup TableTask \cup TableDone \cup DataTask \cup IndexTask]
      BY <2>1, <2>5 DEF IInv, Types
    <3> QED
      BY <1>3, <1>7, <2>1, <2>4, <2>6, <3>1 DEF IInv, Types
  <2>9. Logs'
    <3>1. LogTrue(log)' /\ LogTrue(m_last_state)'
      BY <1>7, <2>4, <2>7, LogsKept
    <3> QED
      BY <1>3, <1>7, <1>8, <2>1, <3>1 DEF IInv, Logs, Ddl
  <2>10. ObjectsOK' /\ ExistsOK'
    <3>1. \A u \in Tables : x # Step("engine", u)
      BY <1>6 DEF Step, x
    <3>2. server.object[t] # "none"
      BY <1>3 DEF IInv, AfterDdlOK, AllExist, OnServer, AfterDdl, AfterUsers,
                  AfterViews
    <3>3. ObjectsOK'
      BY <1>7, <2>1, <2>3, <2>4, <3>1, <3>2 DEF IInv, ObjectsOK
    <3> QED
      BY <1>7, <2>1, <2>4, <2>7, <3>3 DEF IInv, ExistsOK
  <2>11. WorkersOK'
    <3>1. \A u \in Workers :
            /\ state[u] # "idle"
            /\ Busy(u) \/ Over(u) => m_task[u] \in DataTask \cup IndexTask
            /\ Over(u) /\ m_task[u].type = "data" => m_task[u].of \in server.loaded
      BY <1>3 DEF IInv, WorkersOK
    <3>2. \A u \in Workers :
            /\ state'[u] # "idle"
            /\ state'[u] \in {"busy", "ended"} => m_task'[u] \in DataTask \cup IndexTask
            /\ state'[u] = "ended" /\ m_task'[u].type = "data"
                 => m_task'[u].of \in server'.loaded
      BY <2>4, <2>5, <2>6, <3>1 DEF Busy, Over
    <3> QED
      BY <1>3, <2>1, <3>2 DEF WorkersOK, Busy, Over, Ddl
  <2>12. AfterDdlOK' /\ ViewsOK'
    BY <1>3, <1>7, <2>1, <2>4, <2>7
    DEF IInv, AfterDdlOK, ViewsOK, AllExist, OnServer, ViewStages
  <2>13. \A u \in Tables : DataPending(u)' <=> DataPending(u)
    BY <2>1, <2>5, <2>6 DEF DataPending, Busy, Over, Has
  <2>14. DataOK'
    <3>1. \A u \in Workers : Busy(u) \/ Over(u) => m_task[u] \in DataTask \cup IndexTask
      BY <1>3 DEF IInv, WorkersOK
    <3>2. \A u \in Tables : \A j \in Indexes[u] :
            IndexPending(u, j)' <=> IndexPending(u, j) /\ ~(u = t /\ j = i)
      <4>1. \A u \in Tables : \A j \in Indexes[u] : \A v \in Workers :
              (Busy(v)' /\ Has(v, "index", u)' /\ j \in m_task'[v].left)
                <=> (/\ Busy(v) /\ Has(v, "index", u) /\ j \in m_task[v].left
                     /\ ~(v = w /\ j = i))
        BY <1>3, <2>5, <2>6 DEF Busy, Has
      <4>2. \A u \in Tables : \A v \in Workers :
              Busy(v) /\ Has(v, "index", u) => (v = w <=> u = t)
        BY <1>4, <2>5 DEF Has
      <4>3. \A u \in Tables : \A j \in Indexes[u] :
              (\E v \in Workers : Busy(v)' /\ Has(v, "index", u)' /\ j \in m_task'[v].left)
                <=> (/\ \E v \in Workers : /\ Busy(v) /\ Has(v, "index", u)
                                           /\ j \in m_task[v].left
                     /\ ~(u = t /\ j = i))
        BY <4>1, <4>2
      <4>4. \A u \in Tables : \A j \in Indexes[u] :
              (Task("index", u) \in todo' /\ Step(j, u) \in deferred'[u])
                <=> (/\ Task("index", u) \in todo /\ Step(j, u) \in deferred[u]
                     /\ ~(u = t /\ j = i))
        BY <1>4, <2>1
      <4> QED
        BY <4>3, <4>4 DEF IndexPending
    <3>3. \A u \in Tables : \A j \in Indexes[u] :
            Step(j, u) \in server'.statements
              <=> Step(j, u) \in server.statements \/ (u = t /\ j = i)
      BY <2>4 DEF Step, x
    <3>4. ASSUME NEW v \in Workers, Busy(v)', m_task'[v].type = "index"
          PROVE  /\ m_task'[v].left \subseteq Indexes[m_task'[v].of]
                 /\ Task("index", m_task'[v].of) \notin todo'
                 /\ ~DataPending(m_task[v].of)'
                 /\ \A u \in Workers :
                      Busy(u)' /\ Has(u, "index", m_task[v].of)' => v = u
      <4>1. Busy(v) /\ m_task[v].type = "index" /\ m_task'[v].of = m_task[v].of
            /\ m_task[v].of \in Tables
        BY <1>3, <2>5, <2>6, <3>1, <3>4 DEF Busy, DataTask, IndexTask
      <4>2. /\ m_task[v].left \subseteq Indexes[m_task[v].of]
            /\ Task("index", m_task[v].of) \notin todo
            /\ ~DataPending(m_task[v].of)
            /\ \A u \in Workers : Busy(u) /\ Has(u, "index", m_task[v].of) => v = u
        BY <1>3, <4>1 DEF IInv, DataOK
      <4>3. m_task'[v].left \subseteq m_task[v].left
        BY <2>5
      <4>4. \A u \in Workers :
              Busy(u)' /\ Has(u, "index", m_task[v].of)'
                => Busy(u) /\ Has(u, "index", m_task[v].of)
        BY <1>3, <2>5, <2>6, <4>1 DEF Busy, Has
      <4>5. ~DataPending(m_task[v].of)'
        BY <2>13, <4>1, <4>2 DEF DataPending, Busy, Over, Has
      <4> QED
        BY <2>1, <4>1, <4>2, <4>3, <4>4, <4>5
    <3>5. \A y : y.what \in {"fk", "engine"} => y # x
      BY <1>6, <2>3
    <3> QED
      BY <1>3, <1>7, <2>1, <2>4, <2>13, <3>2, <3>3, <3>4, <3>5
      DEF IInv, DataOK, Statements
  <2>15. StatementsMine'
    <3>1. Step("table", t) \in log /\ Step("data", t) \in log
      BY <1>3, <1>4 DEF IInv, AfterDdlOK, DataOK, AfterDdl, AfterUsers, AfterViews
    <3>2. checked /\ ~opt.ignore_existing_objects =>
            /\ log # {} /\ Mine(log)
            /\ \A u \in Tables :
                 DataPending(u) => \A y \in server.statements : y.of # u
      BY <1>3 DEF IInv, StatementsMine
    <3> QED
      BY <1>3, <1>4, <1>7, <2>1, <2>3, <2>4, <2>13, <3>1, <3>2
      DEF StatementsMine, Mine, Ddl, ViewStages
  <2> QED
    BY <1>3, <2>1, <2>8, <2>9, <2>10, <2>11, <2>12, <2>14, <2>15, GoesOn, Elsewhere
    DEF IInv
<1> QED
  BY <1>5, <1>9, <1>10

\* The stage ends: nothing is left to be loaded, no index is missing.
LEMMA DataDoneStep ==
  ASSUME IInv, DataDone
  PROVE  IInv'
<1> USE DEF DataDone, unchangedByMain, runVars, poolVars, workerVars
<1>1. \A w \in Workers : ~Busy(w) /\ ~Over(w)
  BY DEF Busy, Over
<1>2. \A t \in Tables :
        /\ Step("data", t) \in log
        /\ \A i \in Indexes[t] : Step(i, t) \in server.statements
        /\ \A x \in deferred[t] :
             x.what \in {"fk", "engine"} /\ checked => x \notin server.statements
        /\ \A x \in Statements(t) :
             x.what \in {"fk", "engine"} => x \in server.statements \cup deferred[t]
  BY <1>1 DEF IInv, DataOK, DataPending, IndexPending
<1>3. Types'
  BY DEF IInv, Types, Before, Phases
<1>4. Logs'
  BY DEF IInv, Logs, LogTrue, SchemaThere, ViewIsThere, Ddl
<1>5. ObjectsOK' /\ ExistsOK'
  BY SameObjects
  DEF IInv, ExistsOK, ViewIsThere, Before, AfterDdl, AfterUsers, AfterViews
<1>6. WorkersOK'
  BY DEF WorkersOK, Busy, Over, Ddl
<1>7. AfterDdlOK' /\ ViewsOK'
  BY DEF IInv, AfterDdlOK, ViewsOK, ViewIsThere, AllExist, OnServer, AfterDdl,
         AfterUsers, ViewStages, AfterViews
<1>8. EndOK'
  <2>1. \A t \in Tables : Home[t] \in Schemas
    BY StagesAssumption
  <2>2. \A t \in Tables : \A x \in Statements(t) :
          x \in server.statements \/ x \in deferred[t]
    BY <1>2, StatementFacts
  <2>3. Schemas \cap Statement = {}
    BY StagesAssumption DEF Statement, IndexNames
  <2> QED
    BY <1>2, <2>1, <2>2, <2>3, StagesAssumption DEF EndOK, Statements, Ends
<1>9. StatementsMine'
  BY DEF IInv, StatementsMine, Mine, Ddl, ViewStages
<1> QED
  BY <1>3, <1>4, <1>5, <1>6, <1>7, <1>8, <1>9, GoesOn, Elsewhere DEF IInv, Ends
-----------------------------------------------------------------------------
(***************************************************************************)
(* The end of schemas and of the dump.                                     *)
(***************************************************************************)

LEMMA SchemaIsNoStatement == Schemas \cap Statement = {}
  BY StagesAssumption DEF Statement, IndexNames

LEMMA OnSchemaEndStep ==
  ASSUME IInv, OnSchemaEnd
  PROVE  IInv'
<1> USE DEF OnSchemaEnd, unchangedByMain, runVars, poolVars, workerVars
<1>1. PICK s \in todo : todo' = (todo \ {s}) \cup SchemaEnd(s)
  OBVIOUS
<1>2. todo \subseteq Schemas
  BY DEF IInv, EndOK
<1>3. \A t \in Tables : deferred[t] \subseteq Statements(t)
  BY DEF IInv, Types
<1>4. ASSUME NEW x \in SchemaEnd(s)
      PROVE  /\ x \in Statement /\ x.of \in Tables /\ Home[x.of] = s
             /\ x.what \in {"fk", "engine", "triggers"}
             /\ x.what # "triggers" => x \in deferred[x.of]
  <2>1. CASE \E t \in In(s, Tables) : x \in deferred[t] /\ x.what \in {"fk", "engine"}
    BY <1>3, <2>1, StatementFacts DEF In
  <2>2. CASE \E t \in In(s, Triggers) : x = Step("triggers", t)
    BY <2>2, StagesAssumption DEF In, Step, Statement
  <2> QED
    BY <1>4, <2>1, <2>2 DEF SchemaEnd
<1>5. \A x \in SchemaEnd(s) : x \notin Schemas
  BY <1>4, SchemaIsNoStatement
<1>6. \A x \in Schemas : x \in todo' <=> x \in todo /\ x # s
  BY <1>1, <1>5
<1>7. \A x \in Statement : x \in todo' <=> x \in SchemaEnd(s)
  BY <1>1, <1>2, SchemaIsNoStatement
<1>8. Types'
  BY DEF IInv, Types, Before, Phases
<1>9. Logs'
  BY DEF IInv, Logs, LogTrue, SchemaThere, ViewIsThere, Ddl
<1>10. ObjectsOK' /\ ExistsOK'
  BY SameObjects
  DEF IInv, ExistsOK, ViewIsThere, Before, AfterDdl, AfterUsers, AfterViews
<1>11. WorkersOK'
  BY DEF IInv, WorkersOK, Ddl
<1>12. AfterDdlOK' /\ ViewsOK'
  BY DEF IInv, AfterDdlOK, ViewsOK, ViewIsThere, AllExist, OnServer, AfterDdl,
         AfterUsers, ViewStages, AfterViews
<1>13. EndOK'
  <2>1. \A t \in Tables :
          /\ Home[t] \in Schemas
          /\ {Step(i, t) : i \in Indexes[t]} \subseteq server.statements
          /\ \A x \in Statements(t) :
               \/ x \in server.statements \cup todo
               \/ Home[t] \in todo /\ x \in deferred[t]
          /\ \A x \in deferred[t] :
               x.what \in {"fk", "engine"} /\ Home[t] \in todo /\ checked
                 => x \notin server.statements
          /\ Step("data", t) \in log
    BY StagesAssumption DEF IInv, EndOK, Ends
  <2>2. todo' \subseteq Schemas \cup Statement
    BY <1>1, <1>2, <1>4
  <2>3. ASSUME NEW t \in Tables, NEW x \in Statements(t)
        PROVE  \/ x \in server.statements \cup todo'
               \/ Home[t] \in todo' /\ x \in deferred[t]
    <3>1. x \in Statement /\ x \notin todo
      BY <1>2, StatementFacts, SchemaIsNoStatement
    <3>2. CASE x \notin server.statements /\ Home[t] = s
      <4>1. x \in deferred[t] /\ x.what \in {"fk", "engine"}
        BY <2>1, <3>1, <3>2, StatementFacts
      <4>2. x \in SchemaEnd(s)
        BY <3>2, <4>1 DEF SchemaEnd, In
      <4> QED BY <1>1, <4>2
    <3> QED
      BY <1>6, <2>1, <3>1, <3>2
  <2>4. ASSUME NEW t \in Triggers
        PROVE  \/ Step("triggers", t) \in server.statements \cup todo'
               \/ Home[t] \in todo'
    <3>1. t \in Tables /\ Home[t] \in Schemas /\ Step("triggers", t) \in Statement
      BY StagesAssumption DEF Step, Statement
    <3>2. Step("triggers", t) \in server.statements \/ Home[t] \in todo
      BY <1>2, <3>1, SchemaIsNoStatement DEF IInv, EndOK, Ends
    <3>3. Home[t] = s => Step("triggers", t) \in SchemaEnd(s)
      BY DEF SchemaEnd, In
    <3> QED
      BY <1>1, <1>6, <3>1, <3>2, <3>3
  <2>5. ASSUME NEW x \in todo' \cap Statement
        PROVE  /\ Home[x.of] \notin todo'
               /\ x.what \in {"fk", "engine", "triggers"}
               /\ x.what # "triggers" => x \in Statements(x.of)
               /\ x.what # "triggers" /\ checked => x \notin server.statements
    <3>1. x \in SchemaEnd(s)
      BY <1>7
    <3>2. /\ x.of \in Tables /\ Home[x.of] = s
          /\ x.what \in {"fk", "engine", "triggers"}
          /\ x.what # "triggers" => x \in deferred[x.of]
      BY <1>4, <3>1
    <3> QED
      BY <1>2, <1>3, <1>6, <2>1, <3>2
  <2> QED
    BY <1>6, <2>1, <2>2, <2>3, <2>4, <2>5 DEF EndOK, Ends, Statements
<1>14. StatementsMine'
  BY DEF IInv, StatementsMine, Mine, Ddl, ViewStages
<1> QED
  BY <1>8, <1>9, <1>10, <1>11, <1>12, <1>13, <1>14, GoesOn, Elsewhere
  DEF IInv, Ends

\* The secondary engine is the last one of a schema's statements.
LEMMA ExecuteStatementStep ==
  ASSUME IInv, ExecuteStatement
  PROVE  IInv'
<1>1. /\ pc = "statements" /\ to_log = None
      /\ UNCHANGED <<opt, user, run, checked, log, m_last_state, m_resuming,
                     exists, fetching, worker_tasks, current, m_task, state,
                     m_schema_ddl_ready, deferred>>
  BY DEF ExecuteStatement, unchangedByMain, runVars, poolVars, workerVars
<1>2. PICK x \in todo \ Schemas :
        /\ NextStatement(x)
        /\ IF x.what = "triggers"
           THEN /\ server' = IF Status(x) THEN server
                             ELSE [server EXCEPT !.statements = @ \cup {x}]
                /\ to_log' = x
                /\ todo' = todo \ {x}
                /\ UNCHANGED <<pc, outcome>>
           ELSE IF ~Altered(x)
           THEN Ended("rejected") /\ UNCHANGED <<server, to_log, todo>>
           ELSE /\ server' = [server EXCEPT !.statements = @ \cup {x}]
                /\ todo' = todo \ {x}
                /\ UNCHANGED <<pc, outcome, to_log>>
  BY DEF ExecuteStatement
<1>3. /\ x \in Statement /\ x.of \in Tables /\ Home[x.of] \notin todo
      /\ x.what \in {"fk", "engine", "triggers"}
      /\ x.what # "triggers" => x \in Statements(x.of)
      /\ x.what # "triggers" /\ checked => x \notin server.statements
      /\ x = Step(x.what, x.of)
  BY <1>1, <1>2 DEF IInv, EndOK, Ends, Statement, Step
<1>4. CASE x.what # "triggers" /\ ~Altered(x)
  <2>1. ~checked
    BY <1>3, <1>4 DEF Altered, IInv, ObjectsOK
  <2> QED
    BY <1>1, <1>2, <1>4, <2>1, EndsEarly DEF Ended, runVars, poolVars, workerVars
<1>5. CASE x.what = "triggers" \/ Altered(x)
  <2>1. /\ todo' = todo \ {x} /\ UNCHANGED <<pc, outcome>>
        /\ to_log' # None => x.what = "triggers" /\ to_log' = x
    BY <1>1, <1>2, <1>5
  <2>2. x.what = "triggers" /\ Status(x) => x \in server.statements
    BY <1>3 DEF IInv, Logs, LogTrue, Status
  <2>3. /\ server' \in Server
        /\ server'.statements = server.statements \cup {x}
        /\ server'.schemas = server.schemas /\ server'.loaded = server.loaded
        /\ server'.object = server.object /\ server'.users = server.users
        /\ server'.gtid = server.gtid
    <3>1. CASE x.what = "triggers" /\ Status(x)
      BY <1>2, <2>2, <3>1 DEF IInv, Types
    <3>2. CASE ~(x.what = "triggers" /\ Status(x))
      <4>1. server' = [server EXCEPT !.statements = @ \cup {x}]
        BY <1>2, <1>5, <3>2
      <4> QED
        BY <1>3, <4>1 DEF IInv, Types, Server
    <3> QED BY <3>1, <3>2
  <2>4. \A v \in Views : ViewIsThere(v)' <=> ViewIsThere(v)
    BY <1>1, <2>3 DEF ViewIsThere
  <2>5. Types'
    BY <1>1, <2>1, <2>3 DEF IInv, Types
  <2>6. Logs'
    <3>1. LogTrue(log)' /\ LogTrue(m_last_state)'
      BY <1>1, <2>3, <2>4, LogsKept
    <3>2. to_log' # None => LogTrue({to_log})'
      BY <1>3, <2>1, <2>3 DEF LogTrue, Step, GtidUpdate
    <3> QED
      BY <1>1, <2>1, <3>1, <3>2 DEF IInv, Logs, Ddl
  <2>7. ObjectsOK' /\ ExistsOK'
    <3>1. server.object[x.of] # "none"
      BY <1>1, <1>3 DEF IInv, AfterDdlOK, AllExist, OnServer, AfterDdl, AfterUsers,
                        AfterViews
    <3>2. ASSUME NEW t \in Tables, Step("engine", t) \in server'.statements
          PROVE  Statements(t) \subseteq server'.statements
      <4>1. CASE Step("engine", t) \in server.statements
        BY <2>3, <4>1 DEF IInv, ObjectsOK
      <4>2. CASE x = Step("engine", t)
        <5>1. x.what = "engine" /\ x.of = t
          BY <4>2 DEF Step
        <5>2. ASSUME NEW y \in Statements(t), y \in todo, y # x
              PROVE  FALSE
          <6>1. /\ y \in Statement /\ y.of = t
                /\ y.what # "triggers" /\ y \notin Schemas
            BY StatementFacts, SchemaIsNoStatement
          <6>2. y.what \in {"fk", "engine"}
            BY <1>1, <5>2, <6>1 DEF IInv, EndOK, Ends
          <6>3. y = Step(y.what, y.of)
            BY <6>1 DEF Statement, Step
          <6>4. y.what = "fk"
            BY <4>2, <5>2, <6>1, <6>2, <6>3
          <6>5. Rank(x.what) <= Rank(y.what)
            BY <1>2, <5>2, <6>1 DEF NextStatement
          <6> QED
            BY <5>1, <6>4, <6>5 DEF Rank
        <5>3. \A y \in Statements(t) : y \in server.statements \cup todo
          BY <1>1, <1>3, <5>1 DEF IInv, EndOK, Ends
        <5> QED
          BY <2>3, <5>2, <5>3
      <4> QED
        BY <2>3, <3>2, <4>1, <4>2
    <3>3. ObjectsOK'
      BY <1>1, <2>1, <2>3, <3>1, <3>2 DEF IInv, ObjectsOK, Statements
    <3> QED
      BY <1>1, <2>1, <2>3, <2>4, <3>3 DEF IInv, ExistsOK
  <2>8. WorkersOK'
    BY <1>1, <2>1 DEF IInv, WorkersOK, Ddl
  <2>9. AfterDdlOK' /\ ViewsOK'
    BY <1>1, <2>1, <2>3, <2>4
    DEF IInv, AfterDdlOK, ViewsOK, AllExist, OnServer, ViewStages
  <2>10. EndOK'
    <3>1. \A t \in Tables : Home[t] \in Schemas /\ Home[t] # x
      BY <1>2, StagesAssumption
    <3>2. \A t \in Tables : \A y \in deferred[t] : y.of = t
      BY StatementFacts DEF IInv, Types
    <3>3. \A t \in Tables : Home[t] \in todo => x.of # t
      BY <1>3
    <3>4. \A t \in Triggers : t \in Tables
      BY StagesAssumption
    <3> QED
      BY <1>1, <1>3, <2>1, <2>3, <3>1, <3>2, <3>3, <3>4 DEF IInv, EndOK, Ends, Statements
  <2>11. StatementsMine'
    <3>1. Step("table", x.of) \in log /\ Step("data", x.of) \in log
      BY <1>1, <1>3 DEF IInv, AfterDdlOK, EndOK, AfterDdl, AfterUsers, AfterViews, Ends
    <3> QED
      BY <1>1, <2>1, <2>3, <3>1 DEF IInv, StatementsMine, Mine, Ddl, ViewStages
  <2> QED
    BY <1>1, <2>1, <2>5, <2>6, <2>7, <2>8, <2>9, <2>10, <2>11, GoesOn, Elsewhere
    DEF IInv, Ends
<1> QED
  BY <1>4, <1>5

LEMMA SchemaEndsStep ==
  ASSUME IInv, SchemaEnds
  PROVE  IInv'
<1> USE DEF SchemaEnds, unchangedByMain, runVars, poolVars, workerVars
<1>0. pc' \in {"gtid", "schema_end"}
  OBVIOUS
<1>1. Types'
  BY DEF IInv, Types, Before, Phases
<1>2. Logs'
  BY DEF IInv, Logs, LogTrue, SchemaThere, ViewIsThere, Ddl
<1>3. ObjectsOK' /\ ExistsOK'
  BY SameObjects
  DEF IInv, ExistsOK, ViewIsThere, Before, AfterDdl, AfterUsers, AfterViews
<1>4. WorkersOK'
  BY DEF IInv, WorkersOK, Ddl
<1>5. AfterDdlOK' /\ ViewsOK'
  BY DEF IInv, AfterDdlOK, ViewsOK, ViewIsThere, AllExist, OnServer, AfterDdl,
         AfterUsers, ViewStages, AfterViews
<1>6. EndOK'
  BY DEF IInv, EndOK, Ends, Statements
<1>7. StatementsMine'
  BY DEF IInv, StatementsMine, Mine, Ddl, ViewStages
<1> QED
  BY <1>0, <1>1, <1>2, <1>3, <1>4, <1>5, <1>6, <1>7, GoesOn, Elsewhere
  DEF IInv, Ends

LEMMA UpdateGtidPurgedStep ==
  ASSUME IInv, UpdateGtidPurged
  PROVE  IInv'
<1>1. /\ pc = "gtid" /\ to_log = None
      /\ UNCHANGED <<opt, user, run, checked, log, m_last_state, m_resuming,
                     exists, fetching, worker_tasks, current, m_task, state,
                     m_schema_ddl_ready, deferred, todo>>
  BY DEF UpdateGtidPurged, unchangedByMain, runVars, poolVars, workerVars, IInv, Logs
<1>2. CASE Ended("gtid rejected") /\ UNCHANGED <<server, to_log>>
  BY <1>1, <1>2, EndsEarly DEF Ended, runVars, poolVars, workerVars
<1>3. CASE /\ pc' = "cleanup" /\ UNCHANGED outcome
           /\ \/ /\ opt.update_gtid_set = "OFF" \/ Status(GtidUpdate)
                 /\ UNCHANGED <<server, to_log>>
              \/ server' = [server EXCEPT !.gtid = TRUE] /\ to_log' = GtidUpdate
  <2>1. Status(GtidUpdate) => server.gtid
    BY DEF IInv, Logs, LogTrue, Status
  <2>2. /\ server' \in Server
        /\ server'.statements = server.statements
        /\ server'.schemas = server.schemas /\ server'.loaded = server.loaded
        /\ server'.object = server.object /\ server'.users = server.users
        /\ server.gtid => server'.gtid
        /\ to_log' # None => to_log' = GtidUpdate /\ server'.gtid
        /\ opt.update_gtid_set = "OFF" \/ server'.gtid
    BY <1>1, <1>3, <2>1 DEF IInv, Types, Server
  <2>3. \A v \in Views : ViewIsThere(v)' <=> ViewIsThere(v)
    BY <1>1, <2>2 DEF ViewIsThere
  <2>4. Types'
    BY <1>1, <1>3, <2>2 DEF IInv, Types, Before, Phases
  <2>5. Logs'
    <3>1. LogTrue(log)' /\ LogTrue(m_last_state)'
      BY <1>1, <2>2, <2>3, LogsKept
    <3>2. to_log' # None => LogTrue({to_log})'
      BY <2>2 DEF LogTrue, Step, GtidUpdate
    <3> QED
      BY <1>1, <1>3, <3>1, <3>2 DEF IInv, Logs, Ddl
  <2>6. ObjectsOK' /\ ExistsOK'
    BY <1>1, <1>3, <2>2, <2>3
    DEF IInv, ObjectsOK, ExistsOK, Statements, Before, Ddl, AfterDdl, AfterUsers,
        AfterViews
  <2>7. WorkersOK'
    BY <1>1, <1>3 DEF IInv, WorkersOK, Ddl
  <2>8. AfterDdlOK' /\ ViewsOK'
    BY <1>1, <1>3, <2>2, <2>3
    DEF IInv, AfterDdlOK, ViewsOK, AllExist, OnServer, AfterDdl, AfterUsers,
        ViewStages, AfterViews
  <2>9. EndOK'
    BY <1>1, <1>3, <2>2 DEF IInv, EndOK, Ends, Statements
  <2>10. StatementsMine'
    BY <1>1, <1>3, <2>2 DEF IInv, StatementsMine, Mine, Ddl, ViewStages
  <2> QED
    BY <1>1, <1>3, <2>4, <2>5, <2>6, <2>7, <2>8, <2>9, <2>10, GoesOn, Elsewhere
    DEF IInv, Ends
<1> QED
  BY <1>2, <1>3 DEF UpdateGtidPurged

LEMMA FinishStep ==
  ASSUME IInv, Finish
  PROVE  IInv'
<1> USE DEF Finish, Ended, unchangedByMain, runVars, poolVars, workerVars
<1>1. Types'
  BY DEF IInv, Types, Before, Phases, Outcomes
<1>2. Logs'
  BY DEF IInv, Logs, LogTrue, SchemaThere, ViewIsThere, Ddl
<1>3. Outcome'
  BY DEF Outcome
<1>4. ObjectsOK'
  BY SameObjects DEF Before
<1>5. StatementsMine'
  BY DEF IInv, StatementsMine, Mine, Ddl, ViewStages
<1>6. EndedWell'
  <2>1. server.schemas = Schemas /\ AllExist /\ server.users
    BY DEF IInv, AfterDdlOK, AfterDdl, AfterUsers, AfterViews
  <2>2. server.loaded = Tables
    BY ServerFields DEF IInv, EndOK, Ends, Logs, LogTrue
  <2>3. \A v \in Views : ViewIsThere(v)
    BY DEF IInv, ViewsOK, AfterViews
  <2>4. /\ \A t \in Tables : Statements(t) \subseteq server.statements
        /\ \A t \in Triggers : Step("triggers", t) \in server.statements
        /\ opt.update_gtid_set # "OFF" => server.gtid
    BY DEF IInv, EndOK
  <2> QED
    BY <2>1, <2>2, <2>3, <2>4
    DEF EndedWell, AllExist, OnServer, ViewIsThere, Statements
<1> QED
  BY <1>1, <1>2, <1>3, <1>4, <1>5, <1>6, Elsewhere DEF IInv
-----------------------------------------------------------------------------
(***************************************************************************)
(* The next run.                                                           *)
(***************************************************************************)

\* Objects are dropped only if nothing of them is in the log.
LEMMA RestartStep ==
  ASSUME IInv, Restart
  PROVE  IInv'
<1>1. PICK dropped \in {{}} \cup (IF outcome = "duplicates"
                                  THEN {Tables \cup Views} ELSE {}) :
        /\ server' =
             [server EXCEPT !.object = [x \in Tables \cup Views |->
                                          IF x \in dropped THEN "none" ELSE @[x]],
                            !.loaded = @ \ dropped,
                            !.users = @ /\ dropped = {},
                            !.statements = {x \in @ : x.of \notin dropped}]
        /\ user' = user \ dropped
  BY DEF Restart
<1>2. /\ pc' = "open" /\ outcome' = "none" /\ run' = run + 1
      /\ m_last_state' = {} /\ m_resuming' = FALSE /\ exists' = {}
      /\ fetching' = {} /\ worker_tasks' = {}
      /\ current' = None
      /\ m_task' = [w \in Workers |-> None]
      /\ state' = [w \in Workers |-> "ready"]
      /\ deferred' = [t \in Tables |-> {}]
      /\ to_log' = None
      /\ UNCHANGED <<opt, log, checked>>
  BY DEF Restart
<1>3. /\ server' \in Server
      /\ server'.object = [x \in Objects |-> IF x \in dropped THEN "none"
                                             ELSE server.object[x]]
      /\ server'.schemas = server.schemas /\ server'.gtid = server.gtid
      /\ server'.loaded = server.loaded \ dropped
      /\ server'.statements = {x \in server.statements : x.of \notin dropped}
  BY <1>1, ServerFields DEF IInv, Types, Server, Objects
<1>4. \/ dropped = {}
      \/ /\ dropped = Objects /\ log \subseteq {ServerUuid}
         /\ ~checked /\ ~opt.ignore_existing_objects
  BY <1>1 DEF IInv, Outcome, Objects
<1>5. Types'
  <2>1. /\ deferred' \in [Tables -> SUBSET Statement]
        /\ \A t \in Tables : deferred'[t] \subseteq Statements(t)'
    BY <1>2
  <2>2. /\ state' \in [Workers -> {"ready", "busy", "ended", "idle"}]
        /\ m_task' \in [Workers -> {None} \cup SchemaTask \cup PlaceholderTask
                         \cup TableTask \cup TableDone \cup DataTask \cup IndexTask]
    BY <1>2
  <2>3. opt' \in Options /\ user' \subseteq Objects /\ run' \in Nat /\ run' >= 1
    BY <1>1, <1>2 DEF IInv, Types
  <2>4. checked \in BOOLEAN
    BY DEF IInv, Types
  <2>5. {checked', m_resuming'} \subseteq BOOLEAN
    BY <1>2, <2>4
  <2> QED
    BY <1>2, <1>3, <2>1, <2>2, <2>3, <2>5 DEF Types, Phases, Outcomes
<1>6. run' > 1 /\ run \in Nat /\ run >= 1
  BY <1>2 DEF IInv, Types
<1>7. dropped = {} =>
        /\ server'.object = server.object /\ server'.loaded = server.loaded
        /\ server'.statements = server.statements /\ user' = user
  BY <1>1, <1>3, ServerFields DEF IInv
<1>8. LogTrue(log)'
  <2>1. CASE dropped = {}
    <3>1. \A x \in Objects : ViewIsThere(x) => ViewIsThere(x)'
      BY <1>2, <1>6, <1>7, <2>1 DEF ViewIsThere
    <3>2. \A s \in Schemas : SchemaThere(s) => SchemaThere(s)'
      BY <1>3, <3>1 DEF SchemaThere, In, Objects
    <3> QED
      BY <1>2, <1>3, <1>7, <2>1, <3>2 DEF IInv, Logs, LogTrue
  <2>2. CASE log \subseteq {ServerUuid}
    BY <1>2, <2>2 DEF LogTrue, Step, ServerUuid, GtidUpdate
  <2> QED BY <1>4, <2>1, <2>2
<1>9. Logs'
  <2>1. LogTrue({})'
    BY DEF LogTrue
  <2> QED
    BY <1>2, <1>8, <2>1 DEF Logs, LogTrue, Ddl
<1>10. Outcome' /\ EndedWell'
  BY <1>2 DEF Outcome, EndedWell
<1>11. ObjectsOK'
  <2>1. CASE dropped = {}
    BY <1>2, <1>6, <1>7, <2>1 DEF IInv, ObjectsOK, Statements
  <2>2. CASE dropped = Objects /\ ~opt.ignore_existing_objects
    <3>1. server'.statements = {}
      BY <1>3, <2>2, ServerFields DEF IInv, Statement, Objects
    <3> QED
      BY <1>2, <1>6, <2>2, <3>1 DEF ObjectsOK
  <2> QED BY <1>4, <2>1, <2>2
<1>12. WorkersOK'
  BY <1>2 DEF WorkersOK, Busy, Over, Ddl
<1>13. StatementsMine'
  <2>1. CASE dropped = {}
    BY <1>2, <1>7, <2>1 DEF IInv, StatementsMine, Mine, Ddl, ViewStages
  <2>2. CASE ~checked
    BY <1>2, <2>2 DEF StatementsMine
  <2> QED BY <1>4, <2>1, <2>2
<1> QED
  BY <1>2, <1>5, <1>9, <1>10, <1>11, <1>12, <1>13, Elsewhere DEF IInv, Before
-----------------------------------------------------------------------------
(***************************************************************************)
(* The theorems.                                                           *)
(***************************************************************************)

LEMMA InitInvariant == Init => IInv
<1> SUFFICES ASSUME Init PROVE IInv
  OBVIOUS
<1> USE DEF Init
<1>1. PICK indexed \in BOOLEAN :
        server = [object |-> [x \in Tables \cup Views |->
                                IF x \in user THEN "user" ELSE "none"],
                  schemas |-> {Home[x] : x \in user},
                  statements |-> IF indexed
                                 THEN UNION {{Step(i, t) : i \in Indexes[t]} :
                                               t \in user \cap Tables}
                                 ELSE {},
                  loaded |-> {}, users |-> FALSE, gtid |-> FALSE]
  OBVIOUS
<1>2. opt \in Options /\ user \subseteq Objects
  BY StagesAssumption DEF Objects
<1>3. ASSUME NEW x \in server.statements
      PROVE  \E t \in user \cap Tables : \E i \in Indexes[t] : x = Step(i, t)
  BY <1>1, <1>3
<1>4. server.statements \subseteq Statement
  BY <1>3 DEF Step, Statement, IndexNames
<1>5. \A x \in server.statements : x.of \in user /\ x.what \notin {"engine"}
  BY <1>3, StatementFacts DEF Step
<1>6. server.object \in [Objects -> {"none", "user", "placeholder", "dumped"}]
  BY <1>1 DEF Objects
<1>7. server.schemas \subseteq Schemas
  BY <1>1, <1>2, StagesAssumption DEF Objects
<1>8. server \in Server
  <2> DEFINE statements == IF indexed
                           THEN UNION {{Step(i, t) : i \in Indexes[t]} :
                                         t \in user \cap Tables}
                           ELSE {}
             object == [x \in Tables \cup Views |->
                          IF x \in user THEN "user" ELSE "none"]
             schemas == {Home[x] : x \in user}
  <2>1. server = [object |-> object, schemas |-> schemas,
                  statements |-> statements, loaded |-> {}, users |-> FALSE,
                  gtid |-> FALSE]
    BY <1>1
  <2> HIDE DEF statements, object, schemas
  <2>2. server.object = object /\ server.schemas = schemas
        /\ server.statements = statements
    BY <2>1
  <2> QED
    BY <1>4, <1>6, <1>7, <2>1, <2>2 DEF Server
<1>9. Types
  <2>1. {checked, m_resuming} \subseteq BOOLEAN
    OBVIOUS
  <2>2. /\ deferred \in [Tables -> SUBSET Statement]
        /\ \A t \in Tables : deferred[t] \subseteq Statements(t)
    OBVIOUS
  <2>3. /\ state \in [Workers -> {"ready", "busy", "ended", "idle"}]
        /\ m_task \in [Workers -> {None} \cup SchemaTask \cup PlaceholderTask
                        \cup TableTask \cup TableDone \cup DataTask \cup IndexTask]
    OBVIOUS
  <2> QED
    BY <1>2, <1>8, <2>1, <2>2, <2>3 DEF Types, Phases, Outcomes
<1>10. ObjectsOK
  <2>1. \A x \in Objects : server.object[x] = IF x \in user THEN "user" ELSE "none"
    BY <1>1 DEF Objects
  <2>2. \A t \in Tables : Step("engine", t).what = "engine"
    BY DEF Step
  <2> QED
    BY <1>2, <1>5, <2>1, <2>2 DEF ObjectsOK
<1>11. Logs
  BY DEF Logs, LogTrue, Ddl
<1>12. Outcome /\ EndedWell /\ WorkersOK
  BY DEF Outcome, EndedWell, WorkersOK, Ddl, Busy, Over
<1>13. ExistsOK /\ DdlOK /\ AfterDdlOK /\ ViewsOK /\ DataOK /\ EndOK
  BY DEF ExistsOK, DdlOK, AfterDdlOK, ViewsOK, DataOK, EndOK, Ddl, AfterDdl,
         AfterUsers, ViewStages, AfterViews, Ends
<1>14. StatementsMine
  BY DEF StatementsMine
<1> QED
  BY <1>9, <1>10, <1>11, <1>12, <1>13, <1>14 DEF IInv

LEMMA Stuttering ==
  ASSUME IInv, UNCHANGED vars
  PROVE  IInv'
<1> USE DEF vars, serverVars, workerVars, poolVars, runVars
<1>1. Types' /\ Outcome' /\ EndedWell' /\ ObjectsOK' /\ ExistsOK'
  BY DEF IInv, Types, Outcome, EndedWell, ObjectsOK, ExistsOK, Statements,
         ViewIsThere, AllExist, OnServer
<1>2. Logs' /\ StatementsMine'
  BY DEF IInv, Logs, LogTrue, SchemaThere, ViewIsThere, Status, StatementsMine,
         Mine, DataPending, Busy, Over, Has
<1>3. WorkersOK' /\ DdlOK' /\ AfterDdlOK'
  BY DEF IInv, WorkersOK, DdlOK, AfterDdlOK, Pending, TableReady, Status, LeftOK,
         Busy, Over, Has, AllExist, OnServer, Statements
<1>4. ViewsOK' /\ DataOK' /\ EndOK'
  BY DEF IInv, ViewsOK, DataOK, EndOK, ViewIsThere, DataPending, IndexPending,
         Busy, Over, Has, Statements
<1> QED
  BY <1>1, <1>2, <1>3, <1>4 DEF IInv

LEMMA StepInvariant == IInv /\ [Next]_vars => IInv'
<1> SUFFICES ASSUME IInv, [Next]_vars PROVE IInv'
  OBVIOUS
<1>1. CASE Main
  <2>1. ASSUME NEW w \in Workers, HandleReady(w) \/ HandleEnd(w) \/ Schedule(w)
        PROVE  IInv'
    BY <2>1, HandleReadyStep, HandleEndOfDdl, HandleEndOfData, ScheduleStep
    DEF HandleEnd
  <2> QED
    BY <1>1, <2>1, OpenLogStep, RewriteLogStep, CheckExistingObjectsStep,
       PrepareTableDdlStep, NextTaskStep, NoMoreTasksStep, TableDdlDoneStep,
       LoadUsersStep, SchemaWithoutViewsStep, SchemaWithViewsStep,
       AllViewsAddedStep, ExecuteViewDdlStep, LogStepStep, ViewsDoneStep,
       DataDoneStep, OnSchemaEndStep, ExecuteStatementStep, SchemaEndsStep,
       UpdateGtidPurgedStep, FinishStep
    DEF Main
<1>2. CASE Pool
  BY <1>2, FetchStep DEF Pool
<1>3. CASE Restart
  BY <1>3, RestartStep
<1>4. CASE Finished
  BY <1>4, Stuttering DEF Finished
<1>5. CASE \E w \in Workers : Execute(w)
  BY <1>5, ExecuteSchemaDdlStep, ExecutePlaceholderDdlStep, ExecuteTableDdlStep,
     LoadDataStep, CreateIndexStep
  DEF Execute
<1>6. CASE UNCHANGED vars
  BY <1>6, Stuttering
<1> QED
  BY <1>1, <1>2, <1>3, <1>4, <1>5, <1>6 DEF Next

\* However often a load is killed and started again, and however its threads
\* are scheduled, the stages rely on nothing that was not done.
THEOREM Invariance == Spec => []IInv
<1>1. Init => IInv
  BY InitInvariant
<1>2. IInv /\ [Next]_vars => IInv'
  BY StepInvariant
<1> QED
  BY <1>1, <1>2, PTL DEF Spec

\* What the log has as DONE is on the server, whenever a run is killed
\* (dump_loader.cc:1221, 2314, 3739, 3920).
THEOREM DoneIsThereCorrect == Spec => []DoneIsThere
<1>1. IInv => DoneIsThere
  <2> SUFFICES ASSUME IInv PROVE DoneIsThere
    OBVIOUS
  <2>1. TypeOK
    BY ServerFields DEF IInv, Types, TypeOK, Objects
  <2>2. LogTrue(log)
    BY DEF IInv, Logs
  <2> QED
    BY <2>1, <2>2 DEF DoneIsThere, LogTrue, SchemaThere
<1> QED
  BY <1>1, Invariance, PTL

\* If existing objects were looked for, no run executes a statement which the
\* server rejects, and data is loaded while its table has neither triggers nor
\* anything that is deferred (dump_loader.cc:1138, 2277, 3808, 4035).
THEOREM StatementsAcceptedCorrect == Spec => []StatementsAccepted
<1>1. IInv => StatementsAccepted
  <2> SUFFICES ASSUME IInv PROVE StatementsAccepted
    OBVIOUS
  <2>1. outcome = "rejected" => ~checked
    BY DEF IInv, Outcome
  <2>2. ASSUME checked, ~opt.ignore_existing_objects, NEW w \in Workers,
               pc # "end", state[w] = "busy", m_task[w].type = "data"
        PROVE  \A x \in server.statements : x.of # m_task[w].of
    <3>1. pc = "data" /\ m_task[w].of \in Tables
      BY <2>2 DEF IInv, WorkersOK, Busy, SchemaTask, PlaceholderTask, TableTask,
                  DataTask, IndexTask
    <3>2. DataPending(m_task[w].of)
      BY <2>2 DEF DataPending, Busy, Has
    <3> QED
      BY <2>2, <3>1, <3>2 DEF IInv, StatementsMine
  <2> QED
    BY <2>1, <2>2 DEF StatementsAccepted
<1> QED
  BY <1>1, Invariance, PTL

\* A load that ends well, after any number of runs, has everything, and what
\* the user had is kept if it is to be ignored (dump_loader.cc:4085).
THEOREM OkMeansCompleteCorrect == Spec => []OkMeansComplete
<1>1. IInv => OkMeansComplete
  BY DEF IInv, ObjectsOK, EndedWell, OkMeansComplete
<1> QED
  BY <1>1, Invariance, PTL
=============================================================================
