----------------------------- MODULE DumpReader -----------------------------
(***************************************************************************)
(* Dump_reader: what the loader knows of a dump, which may still be        *)
(* written, and what it hands out next: the chunk to be loaded, the table  *)
(* whose indexes are to be created, the table to be analysed, the checksum *)
(* to be verified.                                                         *)
(*                                                                         *)
(* A part is a Table_data_info: the data of a table, or of one partition   *)
(* of it.  A file of a dump is the metadata of a table, a chunk of a part, *)
(* or @.done.json, which is written last.  The name of a chunk tells       *)
(* whether it is the last one of its part; the data of a part that is not  *)
(* chunked is in one file, which is its last chunk.                        *)
(***************************************************************************)
EXTENDS Naturals, Integers, Sequences, FiniteSets, FiniteSetsExt

CONSTANTS
  Tables,
  Parts,
  Owner,          \* Owner[p]: the table part p belongs to
  Chunks,         \* Chunks[p]: number of chunks the dump has, 0: no data
  Size,           \* Size[p][i]: size of a chunk
  Checksums,      \* Checksums[p]: number of checksums of the part
  Indexed,        \* tables with deferred indexes
  Histograms,     \* tables with histograms
  ThreadsCount

ASSUME ReaderAssumption ==
  /\ Owner \in [Parts -> Tables]
  /\ Chunks \in [Parts -> Nat]
  /\ \A p \in Parts : Size[p] \in [0 .. Chunks[p] - 1 -> Nat]
  /\ Checksums \in [Parts -> Nat]
  /\ Indexed \subseteq Tables /\ Histograms \subseteq Tables
  /\ ThreadsCount \in Nat \ {0}

VARIABLES
  opt,                  \* the options of the load
  m_dump_status,        \* "DUMPING" or "COMPLETE"
  md_done,              \* tables whose metadata was parsed
  part,                 \* Table_data_info
  table,                \* the flags of Table_info
  m_tables_with_data

readerVars == <<opt, m_dump_status, md_done, part, table, m_tables_with_data>>

MetadataFile(t) == [table |-> t]
ChunkFile(p, i, last) == [part |-> p, index |-> i, last |-> last]
DoneFile == [done |-> TRUE]

\* All that the dumper writes.
DumpFiles == {MetadataFile(t) : t \in Tables} \cup {DoneFile}
             \cup UNION {{ChunkFile(p, i, i = Chunks[p] - 1) :
                            i \in 0 .. Chunks[p] - 1} : p \in Parts}

PartsOf(t) == {p \in Parts : Owner[p] = t}

\* Analyze_table_mode OFF, ON and HISTOGRAM
Options == [load_data : BOOLEAN, deferred_indexes : BOOLEAN, bulk : BOOLEAN,
            analyze : {"OFF", "ON", "HISTOGRAM"}, checksum : BOOLEAN,
            wait : BOOLEAN]

\* The reader once the DDL of the tables was read: indexes that are not going
\* to be created count as created, tables that are not going to be analysed
\* as analysed.
ReaderInit ==
  /\ m_dump_status = "DUMPING"
  /\ md_done = {}
  /\ part = [p \in Parts |->
               [available_chunks |-> <<>>, chunks_seen |-> 0,
                last_chunk_seen |-> FALSE, chunks_consumed |-> 0,
                chunks_loaded |-> 0, checksums |-> 0, checksums_verified |-> 0,
                checksums_total |-> 0]]
  /\ table = [t \in Tables |->
                LET created == ~opt.deferred_indexes \/ t \notin Indexed
                    analysed == opt.analyze = "OFF" IN
                [indexes_scheduled |-> created, indexes_created |-> created,
                 analyze_scheduled |-> analysed, analyze_finished |-> analysed]]
  /\ m_tables_with_data = {}

ReaderTypeOK ==
  /\ opt \in Options
  /\ m_dump_status \in {"DUMPING", "COMPLETE"}
  /\ md_done \subseteq Tables
  /\ \A p \in Parts :
       /\ part[p].available_chunks \in Seq(BOOLEAN)
       /\ part[p].last_chunk_seen \in BOOLEAN
       /\ {part[p].chunks_seen, part[p].chunks_consumed, part[p].chunks_loaded}
            \subseteq 0 .. Len(part[p].available_chunks)
       /\ part[p].checksums + part[p].checksums_verified
            <= part[p].checksums_total
  /\ table \in [Tables -> [indexes_scheduled : BOOLEAN,
                           indexes_created : BOOLEAN,
                           analyze_scheduled : BOOLEAN,
                           analyze_finished : BOOLEAN]]
  /\ m_tables_with_data \subseteq Parts
-----------------------------------------------------------------------------
(* Table_data_info and Table_info.                                         *)

has_data(p) == Chunks[p] > 0

all_chunks_are(d, p, what) ==
  ~has_data(p) \/ (d.last_chunk_seen /\ what = Len(d.available_chunks))

data_dumped(p) == all_chunks_are(part[p], p, part[p].chunks_seen)
data_scheduled(p) == all_chunks_are(part[p], p, part[p].chunks_consumed)
data_loaded(p) == all_chunks_are(part[p], p, part[p].chunks_loaded)
data_verified(p) == part[p].checksums_verified = part[p].checksums_total

all_data_scheduled(t) == \A p \in PartsOf(t) : data_scheduled(p)
all_data_loaded(t) == \A p \in PartsOf(t) : data_loaded(p)
all_data_verified(t) == \A p \in PartsOf(t) : data_verified(p)

\* Chunk i, counted from 0, is available.
has_value(d, i) == i < Len(d.available_chunks) /\ d.available_chunks[i + 1]

has_data_available(d) == has_value(d, d.chunks_consumed)

\* The size of some chunks of a part: the number of their bytes.
BytesOf(p, chunks) ==
  Cardinality(UNION {{i} \X (1 .. Size[p][i]) : i \in chunks})

bytes_available(p) ==
  LET d == part[p] IN
  BytesOf(p, {i \in d.chunks_consumed .. Len(d.available_chunks) - 1 :
                \A k \in d.chunks_consumed .. i : has_value(d, k)})
-----------------------------------------------------------------------------
(* rescan(): the files of the directory are listed, the metadata that is   *)
(* new is parsed, then chunks are looked for, then the end of the dump.    *)

md_ready(md) == md = Tables

\* Looks for the chunks that are missing, for a sequence of chunks that
\* follows, and for the last one, right behind it.
rescan_data(d, p, files) ==
  LET n == Len(d.available_chunks)
      filled == [i \in 1 .. n |-> d.available_chunks[i]
                                    \/ ChunkFile(p, i - 1, FALSE) \in files]
      end == Min({i \in n .. Cardinality(files) :
                    i = Cardinality(files)
                      \/ ChunkFile(p, i, FALSE) \notin files})
      last == end < Cardinality(files) /\ ChunkFile(p, end, TRUE) \in files
      found == IF d.last_chunk_seen THEN <<>>
               ELSE [i \in 1 .. end - n + (IF last THEN 1 ELSE 0) |-> TRUE]
      chunks == filled \o found IN
  [d EXCEPT !.available_chunks = chunks,
            !.chunks_seen = Cardinality({i \in DOMAIN chunks : chunks[i]}),
            !.last_chunk_seen = @ \/ (last /\ ~d.last_chunk_seen)]

\* Checksums are read when the dump is complete, for the tables whose
\* metadata is known then, and with the metadata of the others.
initialize_checksums(d, p) ==
  [d EXCEPT !.checksums = Checksums[p], !.checksums_total = Checksums[p]]

Rescan(files) ==
  LET md == md_done \cup {t \in Tables : MetadataFile(t) \in files}
      complete == m_dump_status = "COMPLETE" \/ DoneFile \in files
      scan(p) == IF md_ready(md) /\ ~data_dumped(p)
                 THEN rescan_data(part[p], p, files) ELSE part[p]
      init(p) == complete /\ opt.checksum /\ Owner[p] \in md
                   /\ (m_dump_status = "DUMPING" \/ Owner[p] \notin md_done) IN
  /\ md_done' = md
  /\ part' = [p \in Parts |-> IF init(p) THEN initialize_checksums(scan(p), p)
                                         ELSE scan(p)]
  /\ m_tables_with_data' = m_tables_with_data \cup
       {p \in Parts : scan(p).chunks_seen > part[p].chunks_seen}
  /\ m_dump_status' = IF complete THEN "COMPLETE" ELSE m_dump_status
  /\ UNCHANGED <<opt, table>>
-----------------------------------------------------------------------------
(* schedule_chunk_proportionally(): m_tables_with_data is unordered, any   *)
(* of the parts that are equally good may be found first.  loading is      *)
(* m_tables_being_loaded, a set of pairs of a part and a size (with a tag  *)
(* that keeps equal pairs apart).                                          *)

InProgress == {p \in m_tables_with_data : part[p].chunks_consumed > 0}

\* A part which is not being loaded, rather one that was begun, rather a
\* bigger one.
Better(p, q) ==
  LET begun(r) == part[r].chunks_consumed > 0 IN
  \/ begun(p) /\ ~begun(q)
  \/ begun(p) = begun(q) /\ bytes_available(p) > bytes_available(q)

BestNotLoading(loading) ==
  LET free == m_tables_with_data \ {e.part : e \in loading} IN
  {p \in free : \A q \in free : ~Better(q, p)}

\* (available / all that is available) - (being loaded / all that is loaded),
\* multiplied by both divisors.
Difference(p, loading) ==
  LET ofPart == MapThenSumSet(LAMBDA e : e.size,
                              {e \in loading : e.part = p})
      total == MapThenSumSet(LAMBDA e : e.size, loading)
      available == MapThenSumSet(bytes_available, InProgress) IN
  IF total = 0 THEN bytes_available(p)
               ELSE bytes_available(p) * total - ofPart * available

\* If all of them are as they should be, the first one in progress.
Proportional(loading) ==
  LET best == {p \in InProgress :
                 /\ Difference(p, loading) > 0
                 /\ \A q \in InProgress :
                      Difference(q, loading) <= Difference(p, loading)} IN
  IF best # {} THEN best ELSE InProgress

\* A new table is begun unless too many of them are in progress.
NewTableAllowed(p) ==
  Cardinality(InProgress) < ThreadsCount \/ part[p].chunks_consumed > 0

\* A plausible bug: the biggest table that is not being loaded is next.
MutantBiggestNext(loading) ==
  LET free == m_tables_with_data \ {e.part : e \in loading}
      best == {p \in free : \A q \in free :
                               bytes_available(q) <= bytes_available(p)} IN
  IF best # {} THEN best ELSE Proportional(loading)

schedule_chunk_proportionally(loading) ==
  LET best == {p \in BestNotLoading(loading) : NewTableAllowed(p)} IN
  IF best # {} THEN best ELSE Proportional(loading)

\* The end of next_table_chunk(): the chunk is taken.
ConsumedChunk(p) == [part[p] EXCEPT !.chunks_consumed = @ + 1]

\* consume_table(), after the first chunk was taken.
ConsumedTable(p) ==
  [part[p] EXCEPT !.chunks_consumed = Len(part[p].available_chunks)]
-----------------------------------------------------------------------------
(* What is left to be done.                                                *)

data_available == m_tables_with_data # {}

data_pending == opt.load_data /\ \E t \in Tables : ~all_data_scheduled(t)

work_available ==
  \E t \in Tables :
    \/ opt.load_data /\ ~all_data_scheduled(t)
    \/ ~table[t].indexes_scheduled
    \/ ~table[t].analyze_scheduled
    \/ ~all_data_verified(t)

\* A plausible bug: the indexes of a table are created when its data was
\* scheduled.
MutantIndexesDue(t) ==
  (~opt.load_data \/ all_data_scheduled(t)) /\ ~table[t].indexes_scheduled

\* next_deferred_index()
IndexesDue(t) ==
  (~opt.load_data \/ all_data_loaded(t)) /\ ~table[t].indexes_scheduled

\* next_table_analyze()
AnalyzeDue(t) ==
  /\ ~opt.load_data \/ all_data_loaded(t)
  /\ table[t].indexes_created
  /\ ~table[t].analyze_scheduled

\* next_table_checksum()
ChecksumDue(p) ==
  /\ table[Owner[p]].indexes_created
  /\ table[Owner[p]].analyze_finished
  /\ part[p].checksums > 0
  /\ ~opt.load_data \/ data_loaded(p)
=============================================================================
