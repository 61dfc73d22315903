------------------------------ MODULE LoadData ------------------------------
(***************************************************************************)
(* Loading the data files of a dump with Dump_loader, over several runs of *)
(* util.loadDump() that end at any point: the process is killed, fails or  *)
(* is interrupted by the user, and is then run again with the progress log *)
(* it left behind.                                                         *)
(*                                                                         *)
(* The main thread schedules a chunk to a worker which is ready, and       *)
(* writes the progress log from the events of the workers, in the order    *)
(* they were posted.  A worker loads its chunk in one transaction, or in   *)
(* one per sub-chunk, and posts events before and after.  What is in the   *)
(* server and in the log survives the end of a run; events which were not  *)
(* handled do not.                                                         *)
(*                                                                         *)
(* A data file is described by the offsets at which its rows end: row r of *)
(* chunk c is the one that ends at offset r.                               *)
(***************************************************************************)
EXTENDS LoadProgressLog, Sequences, FiniteSets

CONSTANTS
  Workers,        \* worker threads
  RowEnds,        \* RowEnds[c]: the row boundaries of chunk c, 0 included
  Size,           \* Size[c]: the size of chunk c
  Table,          \* Table[c]: the table (or partitioned table) of chunk c
  NoKey,          \* tables which have no primary key or equivalent
  None,           \* no chunk
  MaxRuns         \* bound on the number of runs

ASSUME LoadAssumption ==
  /\ Size \in [Chunks -> Nat]
  /\ \A c \in Chunks :
       /\ RowEnds[c] \subseteq 0 .. Size[c]
       /\ {0, Size[c]} \subseteq RowEnds[c]
  /\ None \notin Chunks
  /\ MaxRuns \in Nat

HasKey(c) == Table[c] \notin NoKey
Rows(c) == RowEnds[c] \ {0}

VARIABLES
  phase,          \* of the run: "down", "opened", "running" or "finished"
  runs,           \* number of runs so far
  file,           \* the progress log, in its file
  last,           \* m_last_state: the progress log when the run began
  todo,           \* chunks this run has yet to schedule
  pc,             \* where a worker is
  m_chunk,        \* the chunk of its Load_chunk_task
  m_resume,       \* ... whether its load was interrupted by an earlier run
  offset,         \* ... how far its file was read, m_bytes_to_skip at first
  begin,          \* ... where the last transaction began
  subchunk,       \* ... the number of the next sub-chunk, of this run
  truncating,     \* ... whether it is loaded in sub-chunks (max_trx_size > 0)
  events,         \* m_worker_events
  rows,           \* the server: how many copies of a row were loaded
  torn,           \* the server: chunks of which part of a row was loaded
  overwritten     \* the server: rows which such a part has replaced

runVars == <<phase, runs, last, todo>>
taskVars == <<m_chunk, m_resume, offset, begin, subchunk, truncating>>
serverVars == <<rows, torn, overwritten>>
vars == <<runVars, file, pc, taskVars, events, serverVars>>

NoTask == [w \in Workers |-> None]

Init ==
  /\ phase = "down"
  /\ runs = 0
  /\ file = EmptyLog
  /\ last = EmptyLog
  /\ todo = {}
  /\ pc = [w \in Workers |-> "idle"]
  /\ m_chunk = NoTask
  /\ m_resume = [w \in Workers |-> FALSE]
  /\ offset = [w \in Workers |-> 0]
  /\ begin = [w \in Workers |-> 0]
  /\ subchunk = [w \in Workers |-> 0]
  /\ truncating = [w \in Workers |-> FALSE]
  /\ events = <<>>
  /\ rows = [c \in Chunks |-> [r \in Rows(c) |-> 0]]
  /\ torn = {}
  /\ overwritten = {}
-----------------------------------------------------------------------------
(* The run.                                                                *)

\* setup_progress_file(): the log is read, then the file is opened for
\* writing, which empties it.
OpenLog ==
  /\ phase = "down"
  /\ runs < MaxRuns
  /\ phase' = "opened"
  /\ runs' = runs + 1
  /\ last' = file
  /\ file' = EmptyLog
  /\ UNCHANGED <<todo, pc, taskVars, events, serverVars>>

\* ... and what was read is written back, if there was anything.  The workers
\* are ready, and all the chunks are to be scheduled.
RewriteLog ==
  /\ phase = "opened"
  /\ phase' = "running"
  /\ file' = last
  /\ todo' = Chunks
  /\ UNCHANGED <<runs, last, pc, taskVars, events, serverVars>>

\* The process is killed, or stops after an error or ^C.
Crash ==
  /\ phase \in {"opened", "running"}
  /\ phase' = "down"
  /\ todo' = {}
  /\ pc' = [w \in Workers |-> "idle"]
  /\ m_chunk' = NoTask
  /\ m_resume' = [w \in Workers |-> FALSE]
  /\ offset' = [w \in Workers |-> 0]
  /\ begin' = [w \in Workers |-> 0]
  /\ subchunk' = [w \in Workers |-> 0]
  /\ truncating' = [w \in Workers |-> FALSE]
  /\ events' = <<>>
  /\ UNCHANGED <<runs, file, last, serverVars>>

\* execute_tasks(): everything was scheduled and every worker is idle.
Finish ==
  /\ phase = "running"
  /\ todo = {}
  /\ events = <<>>
  /\ \A w \in Workers : pc[w] = "idle"
  /\ phase' = "finished"
  /\ UNCHANGED <<runs, last, todo, file, pc, taskVars, events, serverVars>>
-----------------------------------------------------------------------------
(* The main thread.                                                        *)

\* schedule_table_chunk(): the status of a chunk is what the log had when the
\* run began.  A chunk that is DONE is skipped; one that was interrupted is
\* resumed behind the sub-chunks that are DONE.
SkipLoaded(c) ==
  /\ phase = "running"
  /\ c \in todo
  /\ last[c].status = DONE
  /\ todo' = todo \ {c}
  /\ UNCHANGED <<phase, runs, last, file, pc, taskVars, events, serverVars>>

BytesToSkip(c) == IF last[c].status = INTERRUPTED THEN last[c].bytes ELSE 0

\* A plausible bug: one sub-chunk too many is skipped, the one whose
\* transaction had started.
MutantBytesToSkip(w, c) ==
  /\ phase = "running"
  /\ c \in todo
  /\ pc[w] = "idle"
  /\ last[c].status # DONE
  /\ todo' = todo \ {c}
  /\ pc' = [pc EXCEPT ![w] = "start"]
  /\ m_chunk' = [m_chunk EXCEPT ![w] = c]
  /\ m_resume' = [m_resume EXCEPT ![w] = last[c].status = INTERRUPTED]
  /\ \E o \in RowEnds[c] :
       /\ o > BytesToSkip(c)
       /\ offset' = [offset EXCEPT ![w] = o]
       /\ begin' = [begin EXCEPT ![w] = o]
  /\ subchunk' = [subchunk EXCEPT ![w] = 0]
  /\ truncating' = truncating
  /\ UNCHANGED <<phase, runs, last, file, events, serverVars>>

\* schedule_table_chunk(), Worker::schedule(): sub-chunking depends on the
\* size of the chunk and on the options of this run.
Schedule(w, c) ==
  /\ phase = "running"
  /\ c \in todo
  /\ pc[w] = "idle"
  /\ last[c].status # DONE
  /\ todo' = todo \ {c}
  /\ pc' = [pc EXCEPT ![w] = "start"]
  /\ m_chunk' = [m_chunk EXCEPT ![w] = c]
  /\ m_resume' = [m_resume EXCEPT ![w] = last[c].status = INTERRUPTED]
  /\ offset' = [offset EXCEPT ![w] = BytesToSkip(c)]
  /\ begin' = [begin EXCEPT ![w] = BytesToSkip(c)]
  /\ subchunk' = [subchunk EXCEPT ![w] = 0]
  /\ \E sub \in BOOLEAN : truncating' = [truncating EXCEPT ![w] = sub]
  /\ UNCHANGED <<phase, runs, last, file, events, serverVars>>

\* What the handler of an event writes to the log: about the chunk of the task
\* the worker has now, whatever task it had when it posted the event.
Logged(e) ==
  LET c == m_chunk[e.worker] IN
  CASE e.type = "LOAD_START" -> LogStart(file, last, c)
    [] e.type = "LOAD_SUBCHUNK_END" ->
         LogSubchunkEnd(file, last, c, e.subchunk, e.end - e.begin)
    [] e.type = "LOAD_END" -> LogEnd(file, last, c)
    [] e.type = "READY" -> file

\* handle_worker_events(): one event.
HandleEvent ==
  /\ phase = "running"
  /\ events # <<>>
  /\ LET e == Head(events) IN
     /\ file' = Logged(e)
     /\ pc' = IF e.type = "READY" THEN [pc EXCEPT ![e.worker] = "idle"] ELSE pc
     /\ m_chunk' = IF e.type = "READY" THEN [m_chunk EXCEPT ![e.worker] = None]
                                       ELSE m_chunk
  /\ events' = Tail(events)
  /\ UNCHANGED <<runVars, m_resume, offset, begin, subchunk, truncating,
                 serverVars>>
-----------------------------------------------------------------------------
(* The workers: Load_chunk_task::execute().                                *)

\* `of' only serves to state a property.
Event(w, type) ==
  [type |-> type, worker |-> w, subchunk |-> subchunk[w], begin |-> begin[w],
   end |-> offset[w], of |-> m_chunk[w]]

OnLoadStart(w) ==
  /\ phase = "running"
  /\ pc[w] = "start"
  /\ events' = Append(events, Event(w, "LOAD_START"))
  /\ pc' = [pc EXCEPT ![w] = IF m_resume[w] /\ ~HasKey(m_chunk[w])
                             THEN "truncate" ELSE "load"]
  /\ UNCHANGED <<runVars, file, taskVars, serverVars>>

\* The rows <<d, r>> of a table: row r of chunk d.
TableRows(t) == UNION {{d} \X Rows(d) : d \in {x \in Chunks : Table[x] = t}}

\* do_load(): TRUNCATE TABLE, if there is no key which could tell apart the
\* rows that were already loaded.
Truncate(w) ==
  /\ phase = "running"
  /\ pc[w] = "truncate"
  /\ rows' = [c \in Chunks |-> IF Table[c] = Table[m_chunk[w]]
                               THEN [r \in Rows(c) |-> 0] ELSE rows[c]]
  /\ torn' = {c \in torn : Table[c] # Table[m_chunk[w]]}
  /\ overwritten' = overwritten \ TableRows(Table[m_chunk[w]])
  /\ offset' = [offset EXCEPT ![w] = 0]
  /\ begin' = [begin EXCEPT ![w] = 0]
  /\ pc' = [pc EXCEPT ![w] = "load"]
  /\ UNCHANGED <<runVars, file, m_chunk, m_resume, subchunk, truncating, events>>

\* The rows of chunk c in the part of its file from offset o to offset e: the
\* row that begins before o is not recognized.
RowsBetween(c, o, e) ==
  {r \in Rows(c) : r <= e /\ \E b \in RowEnds[c] : o <= b /\ b < r}

\* LOAD DATA ... REPLACE: a row replaces the one that has the same key.
Load(c, new) ==
  rows' = [rows EXCEPT ![c] =
             [r \in Rows(c) |-> IF r \notin new THEN rows[c][r]
                                ELSE IF HasKey(c) THEN 1
                                ELSE rows[c][r] + 1]]

\* A plausible bug: the end of a sub-chunk is reported before its transaction
\* is committed.
MutantCommit(w) ==
  /\ phase = "running"
  /\ pc[w] = "load"
  /\ LET c == m_chunk[w]
         o == offset[w] IN
     \E e \in RowEnds[c] :
       /\ e > o \/ e = Size[c]
       /\ truncating[w] \/ e = Size[c]
       /\ begin' = [begin EXCEPT ![w] = o]
       /\ offset' = [offset EXCEPT ![w] = e]
       /\ Load(c, RowsBetween(c, 0, o))
  /\ pc' = [pc EXCEPT ![w] = IF truncating[w] THEN "committed" ELSE "loaded"]
  /\ UNCHANGED <<runVars, file, m_chunk, m_resume, subchunk, truncating, events,
                 torn, overwritten>>

\* What a transaction that begins at offset o replaces besides its own rows.
\* If o is within a row, LOAD DATA takes the rest of this row for a row of its
\* own, with what is left of the key and of the other columns; REPLACE deletes
\* the rows, if any, which have such a key.
Replaced(c, o) ==
  IF o \in RowEnds[c] \/ ~HasKey(c) THEN {{}} ELSE SUBSET TableRows(Table[c])

\* Load_data_worker::execute(), Transaction_buffer: one transaction is
\* committed.  A sub-chunk ends where a row ends.  The part of a row comes
\* first in its transaction: the rows behind it are there afterwards.
Commit(w) ==
  /\ phase = "running"
  /\ pc[w] = "load"
  /\ LET c == m_chunk[w]
         o == offset[w] IN
     \E e \in RowEnds[c] :
       /\ e > o \/ e = Size[c]
       /\ truncating[w] \/ e = Size[c]
       /\ Load(c, RowsBetween(c, o, e))
       /\ torn' = IF o \in RowEnds[c] THEN torn ELSE torn \cup {c}
       /\ \E lost \in Replaced(c, o) :
            overwritten' = (overwritten \cup lost)
                             \ ({c} \X RowsBetween(c, o, e))
       /\ begin' = [begin EXCEPT ![w] = o]
       /\ offset' = [offset EXCEPT ![w] = e]
  /\ pc' = [pc EXCEPT ![w] = IF truncating[w] THEN "committed" ELSE "loaded"]
  /\ UNCHANGED <<runVars, file, m_chunk, m_resume, subchunk, truncating, events>>

\* flush_done(): the end of the file is known only once nothing more could be
\* read, a last transaction may be empty.
AfterTransaction(w) ==
  IF offset[w] < Size[m_chunk[w]] THEN {"load"}
  ELSE IF begin[w] < offset[w] THEN {"load", "loaded"}
  ELSE {"loaded"}

\* options.transaction_finished
TransactionFinished(w) ==
  /\ phase = "running"
  /\ pc[w] = "committed"
  /\ events' = Append(events, Event(w, "LOAD_SUBCHUNK_END"))
  /\ subchunk' = [subchunk EXCEPT ![w] = @ + 1]
  /\ \E next \in AfterTransaction(w) : pc' = [pc EXCEPT ![w] = next]
  /\ UNCHANGED <<runVars, file, m_chunk, m_resume, offset, begin, truncating,
                 serverVars>>

\* A plausible bug: the worker asks for work before the end of the load is
\* reported.
MutantOnLoadEnd(w) ==
  /\ phase = "running"
  /\ pc[w] = "loaded"
  /\ events' = events \o <<Event(w, "READY"), Event(w, "LOAD_END")>>
  /\ pc' = [pc EXCEPT ![w] = "ready"]
  /\ UNCHANGED <<runVars, file, taskVars, serverVars>>

OnLoadEnd(w) ==
  /\ phase = "running"
  /\ pc[w] = "loaded"
  /\ events' = Append(events, Event(w, "LOAD_END"))
  /\ pc' = [pc EXCEPT ![w] = "ended"]
  /\ UNCHANGED <<runVars, file, taskVars, serverVars>>

\* A plausible bug: the task is released before the event is posted.
MutantReleasedReady(w) ==
  /\ phase = "running"
  /\ pc[w] = "ended"
  /\ events' = Append(events, [Event(w, "READY") EXCEPT !.of = None])
  /\ m_chunk' = [m_chunk EXCEPT ![w] = None]
  /\ pc' = [pc EXCEPT ![w] = "ready"]
  /\ UNCHANGED <<runVars, file, m_resume, offset, begin, subchunk, truncating,
                 serverVars>>

\* do_run(): the worker asks for more work.
Ready(w) ==
  /\ phase = "running"
  /\ pc[w] = "ended"
  /\ events' = Append(events, Event(w, "READY"))
  /\ pc' = [pc EXCEPT ![w] = "ready"]
  /\ UNCHANGED <<runVars, file, taskVars, serverVars>>
-----------------------------------------------------------------------------
Main ==
  \/ OpenLog \/ RewriteLog \/ Finish \/ HandleEvent
  \/ \E c \in Chunks : SkipLoaded(c) \/ \E w \in Workers : Schedule(w, c)

Worker(w) ==
  \/ OnLoadStart(w) \/ Truncate(w) \/ Commit(w) \/ TransactionFinished(w)
  \/ OnLoadEnd(w) \/ Ready(w)

Next == Main \/ Crash \/ \E w \in Workers : Worker(w)

Spec == Init /\ [][Next]_vars
-----------------------------------------------------------------------------
(* Properties.                                                             *)

Events == [type : {"LOAD_START", "LOAD_SUBCHUNK_END", "LOAD_END", "READY"},
           worker : Workers, subchunk : Nat, begin : Nat, end : Nat,
           of : Chunks]

TypeOK ==
  /\ phase \in {"down", "opened", "running", "finished"}
  /\ runs \in 0 .. MaxRuns
  /\ file \in Logs
  /\ last \in Logs
  /\ todo \in SUBSET Chunks
  /\ pc \in [Workers -> {"idle", "start", "truncate", "load", "committed",
                         "loaded", "ended", "ready"}]
  /\ m_chunk \in [Workers -> Chunks \cup {None}]
  /\ m_resume \in [Workers -> BOOLEAN]
  /\ offset \in [Workers -> Nat]
  /\ begin \in [Workers -> Nat]
  /\ subchunk \in [Workers -> Nat]
  /\ truncating \in [Workers -> BOOLEAN]
  /\ events \in Seq(Events)
  /\ rows = [c \in Chunks |-> rows[c]]
  /\ \A c \in Chunks : rows[c] \in [Rows(c) -> Nat]
  /\ torn \in SUBSET Chunks
  /\ overwritten \in SUBSET UNION {{c} \X Rows(c) : c \in Chunks}

\* The rows that end at offset o or before it, of chunk c, are in its table;
\* copies is how often the table has each of them.
LoadedUpTo(copies, c, o) == \A r \in Rows(c) : r <= o => copies[r] >= 1

\* What precedes offset o is in the table, with the row that o may be within.
Reached(copies, c, o) ==
  \E f \in RowEnds[c] : o <= f /\ LoadedUpTo(copies, c, f)

(* A chunk of a table with a key which the log has as DONE was committed to  *)
(* the table, whatever runs were killed before: what the next runs skip was *)
(* not left out.                                                            *)
DoneIsLoaded ==
  \A c \in Chunks :
    HasKey(c) /\ file[c].status = DONE => LoadedUpTo(rows[c], c, Size[c])

(* A load that is resumed skips nothing but what was committed before.      *)
(* Sub-chunks are numbered from 0 in every run, and only those with numbers *)
(* no earlier run has logged are logged, so that the sizes in the log are   *)
(* not the ones of the sub-chunks that were loaded: their sum must never    *)
(* exceed what was.                                                         *)
SkipsOnlyLoaded ==
  \A w \in Workers :
    pc[w] \in {"start", "load"} /\ HasKey(m_chunk[w])
      => Reached(rows[m_chunk[w]], m_chunk[w], offset[w])

\* How many copies of row r of chunk c its table has.
Copies(c, r) == IF <<c, r>> \in overwritten THEN 0 ELSE rows[c][r]

\* The table of chunk c has nothing but rows of the dump.
Intact(c) == \A d \in torn : Table[d] # Table[c]

(* The load is exact for tables with a key.  When a run completes which     *)
(* resumes a load that was interrupted once, there is one copy of every row *)
(* and nothing else.  When more runs were interrupted, this is so for every *)
(* table unless one of its loads was resumed within a row (the log adds up  *)
(* sizes of sub-chunks of different runs): the part of the row behind that  *)
(* offset is then loaded as a row, and may have replaced others.            *)
KeyedExact ==
  phase = "finished" =>
    \A c \in Chunks :
      /\ runs <= 2 => Intact(c)
      /\ HasKey(c) /\ Intact(c) => \A r \in Rows(c) : Copies(c, r) = 1

(* The handler of an event, which looks at the task its worker has when the *)
(* event is handled, finds the task the event was posted for.               *)
EventOfCurrentTask ==
  \A i \in DOMAIN events : events[i].of = m_chunk[events[i].worker]

(* "Load will be resumed from where it was left", and rows which are loaded *)
(* again are discarded by the server: a load that completes leaves one copy *)
(* of every row of a table with a key and nothing else, however often it    *)
(* was interrupted.                                                         *)
KeyedExactAlways ==
  phase = "finished" =>
    \A c \in Chunks :
      HasKey(c) => Intact(c) /\ \A r \in Rows(c) : Copies(c, r) = 1

(* The documentation of util.loadDump(): completed steps are skipped and    *)
(* tables without a key are truncated before the load is resumed.  A load   *)
(* that completes has every row of these tables ...                         *)
UnkeyedComplete ==
  phase = "finished" =>
    \A c \in Chunks : ~HasKey(c) => \A r \in Rows(c) : rows[c][r] >= 1

(* ... and has none of them twice: a table without a key is truncated       *)
(* before any chunk of which rows may be there is loaded again.             *)
UnkeyedNoDuplicates ==
  phase = "finished" =>
    \A c \in Chunks : ~HasKey(c) => \A r \in Rows(c) : rows[c][r] <= 1
=============================================================================
