---------------------------- MODULE LoadSchedule ----------------------------
(***************************************************************************)
(* Dump_loader::execute_tasks() over a Dump_reader: the main thread waits  *)
(* for the metadata, scans for more data while the dump is being written,  *)
(* and gives every worker that is ready the next task: a chunk, a bulk     *)
(* load of a whole part, the indexes of a table, its analysis, a checksum. *)
(*                                                                         *)
(* The dumper writes files in any order, @.done.json last, or stops for    *)
(* ever.  While the loader lists the directory more files may appear,      *)
(* some of which are in the list.  The load may resume an earlier one: log *)
(* is what its progress log says.  Every task has the weight 1; weights,   *)
(* failures and ^C are in LoadWorkers, what is within a chunk in LoadData. *)
(***************************************************************************)
EXTENDS DumpReader

CONSTANTS
  Workers,        \* ThreadsCount threads
  OptionSets,     \* the options that are checked
  LogSets,        \* what the log of an earlier load may be
  Unchunked,      \* parts that are not chunked
  Missing,        \* tables the server does not have, if no DDL was loaded
  None

ASSUME ScheduleAssumption ==
  /\ IsFiniteSet(Workers) /\ ThreadsCount = Cardinality(Workers)
  /\ OptionSets \subseteq Options
  /\ Unchunked \subseteq {p \in Parts : Chunks[p] <= 1}
  /\ None \notin Workers
  /\ None \notin [type : {"chunk", "bulk", "index", "analyze", "checksum"},
                   of : Parts \cup Tables, index : Nat]

VARIABLES
  files,                    \* of the dump
  log,                      \* m_load_log, as the run found it
  pc,                       \* of the main thread
  caller,                   \* who called rescan()
  snapshot,                 \* the files there were when the listing began
  current,                  \* the worker that is to get a task
  scanned,                  \* in handle_table_data()
  m_tables_being_loaded,
  m_compatibility_status,   \* Bulk_load_support
  m_task,                   \* task of every worker
  state,                    \* of every worker
  outcome,
  loads,                    \* history: how often a chunk was loaded
  executed                  \* history: other tasks which were executed

mainVars == <<pc, caller, snapshot, current, scanned, outcome>>
workerVars == <<m_task, state>>
historyVars == <<loads, executed>>
vars == <<readerVars, mainVars, workerVars, historyVars, files, log,
          m_tables_being_loaded, m_compatibility_status>>

ChunksOf(p) == 0 .. Chunks[p] - 1

Init ==
  /\ opt \in OptionSets
  /\ log \in LogSets
  /\ ReaderInit
  /\ files = {}
  /\ pc = "open"
  /\ caller = "none"
  /\ snapshot = {}
  /\ current = None
  /\ scanned = FALSE
  /\ m_tables_being_loaded = {}
  /\ m_compatibility_status = [t \in Tables |-> "unknown"]
  /\ m_task = [w \in Workers |-> None]
  /\ state = [w \in Workers |-> "ready"]
  /\ outcome = "none"
  /\ loads = [p \in Parts |-> [i \in ChunksOf(p) |->
                IF "DONE" \in {log.chunk[p][i], log.bulk[p]} THEN 1 ELSE 0]]
  /\ executed = {}

Ended(how) == pc' = "end" /\ outcome' = how
-----------------------------------------------------------------------------
(* The dumper.                                                             *)

WriteFile ==
  /\ \E f \in DumpFiles \ files :
       /\ f = DoneFile => files = DumpFiles \ {DoneFile}
       /\ files' = files \cup {f}
  /\ UNCHANGED <<readerVars, mainVars, workerVars, historyVars, log,
                 m_tables_being_loaded, m_compatibility_status>>
-----------------------------------------------------------------------------
(* The main thread: opening the dump, scanning it, waiting for more.       *)

unchangedByScan == <<workerVars, historyVars, files, log,
                     m_tables_being_loaded, m_compatibility_status>>

\* Dump_reader::open() and the test of its result.
Open ==
  /\ pc = "open"
  /\ m_dump_status' = IF DoneFile \in files THEN "COMPLETE" ELSE "DUMPING"
  /\ IF m_dump_status' = "DUMPING" /\ ~opt.wait
     THEN Ended("incomplete dump")
     ELSE pc' = "metadata" /\ UNCHANGED outcome
  /\ UNCHANGED <<opt, md_done, part, table, m_tables_with_data, caller,
                 snapshot, current, scanned, unchangedByScan>>

StartListing(who) ==
  /\ pc' = "listing"
  /\ caller' = who
  /\ snapshot' = files

\* wait_for_metadata()
WaitForMetadata ==
  /\ pc = "metadata"
  /\ IF md_ready(md_done)
     THEN pc' = "loop" /\ UNCHANGED <<caller, snapshot>>
     ELSE StartListing("metadata")
  /\ UNCHANGED <<readerVars, current, scanned, outcome, unchangedByScan>>

\* The listing has what was there when it began, and some of what came since.
FinishListing ==
  /\ pc = "listing"
  /\ \E new \in SUBSET (files \ snapshot) : Rescan(snapshot \cup new)
  /\ pc' = "scanned"
  /\ snapshot' = {}
  /\ UNCHANGED <<caller, current, scanned, outcome, unchangedByScan>>

\* After a scan for metadata.
MetadataScanned ==
  /\ pc = "scanned" /\ caller = "metadata"
  /\ \/ md_ready(md_done) /\ pc' = "loop" /\ UNCHANGED outcome
     \/ /\ ~md_ready(md_done) /\ m_dump_status = "COMPLETE"
        /\ Ended("missing metadata")
     \/ /\ ~md_ready(md_done) /\ m_dump_status = "DUMPING"
        /\ pc' = "wait" /\ UNCHANGED outcome
  /\ UNCHANGED <<readerVars, caller, snapshot, current, scanned,
                 unchangedByScan>>

\* A plausible bug: the dump is scanned again at once, and no time passes.
MutantDataScanned ==
  /\ pc = "scanned" /\ caller = "loop"
  /\ pc' = IF data_available \/ m_dump_status = "COMPLETE" THEN "events"
           ELSE "loop"
  /\ UNCHANGED <<readerVars, caller, snapshot, current, scanned, outcome,
                 unchangedByScan>>

\* After a scan by scan_for_more_data(true).
DataScanned ==
  /\ pc = "scanned" /\ caller = "loop"
  /\ pc' = IF data_available \/ m_dump_status = "COMPLETE" THEN "events"
           ELSE "wait"
  /\ UNCHANGED <<readerVars, caller, snapshot, current, scanned, outcome,
                 unchangedByScan>>

\* After a scan by scan_for_more_data(false), in handle_table_data().
TriedAgain ==
  /\ pc = "scanned" /\ caller = "next"
  /\ pc' = "next"
  /\ scanned' = TRUE
  /\ UNCHANGED <<readerVars, caller, snapshot, current, outcome,
                 unchangedByScan>>

\* wait_for_dump() returns, what called it scans again ...
WaitForDump ==
  /\ pc = "wait"
  /\ StartListing(caller)
  /\ UNCHANGED <<readerVars, current, scanned, outcome, unchangedByScan>>

\* ... or it has waited for too long.
Timeout ==
  /\ pc = "wait"
  /\ Ended("timeout")
  /\ UNCHANGED <<readerVars, caller, snapshot, current, scanned,
                 unchangedByScan>>

\* The loop of execute_tasks().
Loop ==
  /\ pc = "loop"
  /\ IF m_dump_status = "COMPLETE"
     THEN pc' = "events" /\ UNCHANGED <<caller, snapshot>>
     ELSE StartListing("loop")
  /\ UNCHANGED <<readerVars, current, scanned, outcome, unchangedByScan>>

\* A plausible bug: the end of the dump is taken for the end of its data.
MutantLoopEnds ==
  /\ pc = "check"
  /\ IF m_dump_status = "COMPLETE" /\ ~data_available
     THEN Ended("ok")
     ELSE pc' = "loop" /\ UNCHANGED outcome
  /\ UNCHANGED <<readerVars, caller, snapshot, current, scanned,
                 unchangedByScan>>

\* Its end: all the workers are idle.
LoopEnds ==
  /\ pc = "check"
  /\ IF m_dump_status = "COMPLETE" /\ ~data_available /\ ~work_available
     THEN Ended("ok")
     ELSE IF m_dump_status = "COMPLETE" /\ ~data_available /\ data_pending
          THEN Ended("missing data")
          ELSE pc' = "loop" /\ UNCHANGED outcome
  /\ UNCHANGED <<readerVars, caller, snapshot, current, scanned,
                 unchangedByScan>>
-----------------------------------------------------------------------------
(* handle_worker_events() and schedule_next_task().                        *)

Task(type, of, index) == [type |-> type, of |-> of, index |-> index]

\* The task is given to the worker, and those that are idle are called back.
Assign(task) ==
  /\ m_task' = [m_task EXCEPT ![current] = task]
  /\ state' = [w \in Workers |-> IF w = current THEN "busy"
                                 ELSE IF state[w] = "idle" THEN "ready"
                                 ELSE state[w]]
  /\ pc' = "events"
  /\ current' = None

\* The event of the end of a task is handled: on_chunk_load_end() etc.
HandleEnd(w) ==
  /\ pc = "events"
  /\ state[w] = "ended"
  /\ LET t == m_task[w] IN
     /\ part' = CASE t.type = "chunk" ->
                       [part EXCEPT ![t.of].chunks_loaded = @ + 1]
                  [] t.type = "bulk" ->
                       [part EXCEPT ![t.of].chunks_loaded =
                                      Len(part[t.of].available_chunks)]
                  [] t.type = "checksum" ->
                       [part EXCEPT ![t.of].checksums_verified = @ + 1]
                  [] OTHER -> part
     /\ table' = CASE t.type = "index" ->
                        [table EXCEPT ![t.of].indexes_created = TRUE]
                   [] t.type = "analyze" ->
                        [table EXCEPT ![t.of].analyze_finished = TRUE]
                   [] OTHER -> table
  /\ state' = [state EXCEPT ![w] = "ready"]
  /\ m_task' = [m_task EXCEPT ![w] = None]
  /\ UNCHANGED <<opt, m_dump_status, md_done, m_tables_with_data, mainVars,
                 historyVars, files, log, m_tables_being_loaded,
                 m_compatibility_status>>

\* READY: the worker is to get a task.
HandleReady(w) ==
  /\ pc = "events"
  /\ state[w] = "ready"
  /\ current' = w
  /\ scanned' = FALSE
  /\ pc' = "next"
  /\ UNCHANGED <<readerVars, caller, snapshot, outcome, unchangedByScan>>

\* handle_worker_events() returns, idle workers are ready the next time.
AllIdle ==
  /\ pc = "events"
  /\ \A w \in Workers : state[w] = "idle"
  /\ state' = [w \in Workers |-> "ready"]
  /\ pc' = "check"
  /\ UNCHANGED <<readerVars, caller, snapshot, current, scanned, outcome,
                 m_task, historyVars, files, log, m_tables_being_loaded,
                 m_compatibility_status>>

\* The server accepts a bulk load, tried without data, only if the table is
\* empty.
Empty(t) == \A p \in PartsOf(t) : \A i \in ChunksOf(p) :
              loads[p][i] = 0 \/ Size[p][i] = 0

\* ensure_table_compatible(): what it may find.
ensure_table_compatible(t) ==
  IF m_compatibility_status[t] # "unknown" THEN {m_compatibility_status[t]}
  ELSE IF Empty(t) THEN {"yes", "no"} ELSE {"no"}

\* A plausible bug: the part may be incomplete.
MutantBulkLoadTried(p) ==
  /\ opt.bulk
  /\ part[p].chunks_consumed = 0
  /\ p \in Unchunked \/ log.chunk[p][0] = "PENDING"

\* bulk_load_supported(), before it asks the server.  The chunk of a part that
\* is not chunked is not found in the log, it has another index there.
BulkLoadTried(p) ==
  /\ opt.bulk
  /\ data_dumped(p)
  /\ part[p].chunks_consumed = 0
  /\ p \in Unchunked \/ log.chunk[p][0] = "PENDING"

\* m_tables_with_data after part p became d.
StillWithData(p, d) ==
  IF has_data_available(d) THEN m_tables_with_data ELSE m_tables_with_data \ {p}

\* mark_table_as_in_progress()
Loading(p, i, size) == m_tables_being_loaded \cup {[part |-> p, index |-> i,
                                                    size |-> size]}

PartSize(p) == BytesOf(p, ChunksOf(p))

\* schedule_table_chunk()
ScheduleTableChunk(p) ==
  LET i == part[p].chunks_consumed
      consumed == ConsumedChunk(p)
      done == log.chunk[p][i] = "DONE" IN
  /\ m_tables_with_data' = StillWithData(p, consumed)
  /\ part' = [part EXCEPT ![p] =
                IF done THEN [consumed EXCEPT !.chunks_loaded = @ + 1]
                        ELSE consumed]
  /\ IF done \/ ~opt.load_data
     THEN UNCHANGED <<m_tables_being_loaded, workerVars, pc, current>>
     ELSE /\ m_tables_being_loaded' = Loading(p, i, Size[p][i])
          /\ Assign(Task("chunk", p, i))

\* schedule_bulk_load()
ScheduleBulkLoad(p) ==
  LET consumed == ConsumedTable(p)
      done == log.bulk[p] = "DONE" IN
  /\ m_tables_with_data' = m_tables_with_data \ {p}
  /\ part' = [part EXCEPT ![p] =
                IF done THEN [consumed EXCEPT !.chunks_loaded =
                                Len(part[p].available_chunks)]
                        ELSE consumed]
  /\ IF done \/ ~opt.load_data
     THEN UNCHANGED <<m_tables_being_loaded, workerVars, pc, current>>
     ELSE /\ m_tables_being_loaded' = Loading(p, 0, PartSize(p))
          /\ Assign(Task("bulk", p, 0))

Candidates == schedule_chunk_proportionally(m_tables_being_loaded)

\* handle_table_data(): the next chunk.
NextTableChunk ==
  /\ pc = "next"
  /\ \E p \in Candidates :
       /\ has_data_available(part[p])
       /\ IF BulkLoadTried(p)
          THEN \E c \in ensure_table_compatible(Owner[p]) :
                 /\ m_compatibility_status' =
                      [m_compatibility_status EXCEPT ![Owner[p]] = c]
                 /\ IF c = "yes" THEN ScheduleBulkLoad(p)
                                 ELSE ScheduleTableChunk(p)
          ELSE UNCHANGED m_compatibility_status /\ ScheduleTableChunk(p)
  /\ UNCHANGED <<opt, m_dump_status, md_done, table, caller, snapshot, scanned,
                 outcome, historyVars, files, log>>

\* There is none: one more scan, then the other tasks.
NoTableChunk ==
  /\ pc = "next"
  /\ ~data_available
  /\ IF m_dump_status # "COMPLETE" /\ ~scanned
     THEN StartListing("next")
     ELSE pc' = "others" /\ UNCHANGED <<caller, snapshot>>
  /\ UNCHANGED <<readerVars, current, scanned, outcome, unchangedByScan>>

unchangedByOthers == <<opt, m_dump_status, md_done, m_tables_with_data, caller,
                       snapshot, scanned, outcome, historyVars, files, log,
                       m_tables_being_loaded, m_compatibility_status>>

IndexesNext == opt.deferred_indexes /\ \E t \in Tables : IndexesDue(t)

\* Tables are visited in the order of their names, which is left open.
NextDeferredIndex ==
  /\ pc = "others"
  /\ opt.deferred_indexes
  /\ \E t \in Tables :
       /\ IndexesDue(t)
       /\ table' = [table EXCEPT ![t].indexes_scheduled = TRUE]
       /\ Assign(Task("index", t, 0))
  /\ UNCHANGED <<part, unchangedByOthers>>

AnalyzeNext == opt.analyze # "OFF" /\ \E t \in Tables : AnalyzeDue(t)

\* In the mode HISTOGRAM only tables with histograms are analysed.
NextTableAnalyze ==
  /\ pc = "others"
  /\ ~IndexesNext
  /\ opt.analyze # "OFF"
  /\ \E t \in Tables :
       /\ AnalyzeDue(t)
       /\ table' = [table EXCEPT ![t].analyze_scheduled = TRUE]
       /\ IF opt.analyze = "ON" \/ t \in Histograms
          THEN Assign(Task("analyze", t, 0))
          ELSE UNCHANGED <<workerVars, pc, current>>
  /\ UNCHANGED <<part, unchangedByOthers>>

ChecksumNext == opt.checksum /\ \E p \in Parts : ChecksumDue(p)

\* Tables exist if they were loaded.
table_exists(t) == opt.load_data \/ t \notin Missing

\* The checksum of a table that does not exist is reported and counts as
\* verified.
NextTableChecksum ==
  /\ pc = "others"
  /\ ~IndexesNext /\ ~AnalyzeNext
  /\ opt.checksum
  /\ \E p \in Parts :
       /\ ChecksumDue(p)
       /\ IF table_exists(Owner[p])
          THEN /\ part' = [part EXCEPT ![p].checksums = @ - 1]
               /\ Assign(Task("checksum", p, part[p].checksums))
          ELSE /\ part' = [part EXCEPT ![p].checksums = @ - 1,
                                       ![p].checksums_verified = @ + 1]
               /\ UNCHANGED <<workerVars, pc, current>>
  /\ UNCHANGED <<table, unchangedByOthers>>

\* There is nothing to do, the worker becomes idle.
NothingToSchedule ==
  /\ pc = "others"
  /\ ~IndexesNext /\ ~AnalyzeNext /\ ~ChecksumNext
  /\ state' = [state EXCEPT ![current] = "idle"]
  /\ pc' = "events"
  /\ current' = None
  /\ UNCHANGED <<part, table, m_task, unchangedByOthers>>
-----------------------------------------------------------------------------
(* The workers.                                                            *)

\* A task is executed; a load takes its part off m_tables_being_loaded.
Execute(w) ==
  /\ state[w] = "busy"
  /\ state' = [state EXCEPT ![w] = "ended"]
  /\ LET t == m_task[w] IN
     IF t.type \in {"chunk", "bulk"}
     THEN /\ m_tables_being_loaded' =
               {e \in m_tables_being_loaded : e.part # t.of \/ e.index # t.index}
          /\ loads' = [loads EXCEPT ![t.of] = [i \in ChunksOf(t.of) |->
                         IF t.type = "bulk" \/ i = t.index THEN @[i] + 1
                                                           ELSE @[i]]]
          /\ UNCHANGED executed
     ELSE /\ executed' = executed \cup {t}
          /\ UNCHANGED <<m_tables_being_loaded, loads>>
  /\ UNCHANGED <<readerVars, mainVars, m_task, files, log,
                 m_compatibility_status>>

\* The load has ended and stays so.
Finished ==
  /\ pc = "end"
  /\ UNCHANGED vars

Main == \/ Open \/ WaitForMetadata \/ FinishListing \/ MetadataScanned
        \/ DataScanned \/ TriedAgain \/ WaitForDump \/ Loop \/ LoopEnds
        \/ \E w \in Workers : HandleEnd(w) \/ HandleReady(w)
        \/ AllIdle \/ NextTableChunk \/ NoTableChunk \/ NextDeferredIndex
        \/ NextTableAnalyze \/ NextTableChecksum \/ NothingToSchedule

Next == WriteFile \/ Main \/ Timeout \/ Finished \/ \E w \in Workers : Execute(w)

Spec == Init /\ [][Next]_vars

\* All the threads run.  Waiting takes time: a load that waits again and again
\* runs out of it.  Nothing is assumed of the dumper.
FairSpec == Spec /\ WF_vars(Main) /\ SF_vars(Timeout)
                 /\ \A w \in Workers : WF_vars(Execute(w))
-----------------------------------------------------------------------------
Phases == {"open", "metadata", "listing", "scanned", "wait", "loop", "events",
           "next", "others", "check", "end"}

\* The types of the state of the reader and of the loader.
TypeOK ==
  /\ ReaderTypeOK
  /\ files \subseteq DumpFiles /\ snapshot \subseteq files
  /\ pc \in Phases
  /\ caller \in {"none", "metadata", "loop", "next"}
  /\ current \in Workers \cup {None}
  /\ scanned \in BOOLEAN
  /\ \A e \in m_tables_being_loaded : e.part \in Parts /\ e.size \in Nat
  /\ m_compatibility_status \in [Tables -> {"unknown", "yes", "no"}]
  /\ state \in [Workers -> {"ready", "idle", "busy", "ended"}]
  /\ \A w \in Workers : (m_task[w] = None) = (state[w] \in {"ready", "idle"})
  /\ \A p \in Parts : loads[p] \in [ChunksOf(p) -> Nat]

\* The data of a chunk is not loaded twice: not by two workers, not one by one
\* and with a bulk load, and not if the log says that it was loaded
\* (dump_loader.cc:2371).  A chunk without data may be: the server does not tell
\* whether it was loaded.  Parts which were loaded in bulk by an earlier run are
\* excepted, see the README.
LoadedOnce ==
  \A p \in Parts : log.bulk[p] # "DONE" =>
    \A i \in ChunksOf(p) : Size[p][i] > 0 => loads[p][i] <= 1

AllLoaded(t) ==
  opt.load_data => \A p \in PartsOf(t) : \A i \in ChunksOf(p) :
                     loads[p][i] >= 1

Running(type) == {m_task[w].of : w \in {v \in Workers :
                    state[v] = "busy" /\ m_task[v].type = type}}

\* Whatever the order in which the files of a dump appear: while a table is
\* being indexed, analysed or verified all the data the dump has of it was
\* loaded, and none of the steps overtakes another (dump_reader.cc:623-679).
StepsInOrder ==
  /\ \A t \in Running("index") \cup Running("analyze") : AllLoaded(t)
  /\ \A p \in Running("checksum") : opt.load_data =>
       \A i \in ChunksOf(p) : loads[p][i] >= 1
  /\ \A t \in Tables :
       t \in Indexed /\ opt.deferred_indexes
         /\ (t \in Running("analyze")
               \/ \E p \in PartsOf(t) : p \in Running("checksum"))
       => Task("index", t, 0) \in executed
  /\ \A t \in Running("analyze") :
       \A p \in PartsOf(t) : p \notin Running("checksum")

\* A load that ends well has loaded all that the dumper has written, created
\* all the indexes, analysed the tables it was asked to, and verified every
\* checksum (the loop of execute_tasks, dump_loader.cc:4068).
OkMeansAll ==
  outcome = "ok" =>
    /\ \A t \in Tables : AllLoaded(t)
    /\ opt.deferred_indexes =>
         \A t \in Indexed : Task("index", t, 0) \in executed
    /\ opt.analyze = "ON" =>
         \A t \in Tables : Task("analyze", t, 0) \in executed
    /\ opt.analyze = "HISTOGRAM" =>
         \A t \in Histograms : Task("analyze", t, 0) \in executed
    /\ opt.checksum =>
         \A p \in Parts : table_exists(Owner[p]) =>
           \A k \in 1 .. Checksums[p] : Task("checksum", p, k) \in executed

\* While there is data, schedule_chunk_proportionally() finds a part and the
\* next chunk of it is there: it does not take the first of none
\* (dump_reader.cc:554), and next_table_chunk() does not throw
\* (dump_reader.cc:599).
CandidateExists ==
  pc = "next" /\ data_available =>
    /\ Candidates # {}
    /\ \A p \in Candidates : has_data_available(part[p])

\* If all the data was there when the dump was first scanned, no more parts are
\* begun and not loaded at a time than there are threads (dump_reader.cc:509).
TablesLimited ==
  opt.load_data /\ caller = "metadata" /\ (\A p \in Parts : data_dumped(p)) =>
    Cardinality({p \in Parts : part[p].chunks_consumed > 0 /\ ~data_loaded(p)})
      <= ThreadsCount

\* The choice of the next chunk is sound: there is one whenever there is data,
\* and tables are loaded one after another rather than all at a time.
ScheduleSound == TypeOK /\ CandidateExists /\ TablesLimited

\* A load that resumes or waits for a dump comes to an end: well, because time
\* is up, or because files are missing.
Ends == <>(pc = "end")
=============================================================================
