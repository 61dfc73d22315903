------------------------- MODULE LoadScheduleProofs -------------------------
(***************************************************************************)
(* Proofs about LoadSchedule, for any tables, parts and chunks, any number *)
(* of workers, all options and logs, and files that appear in any order:   *)
(* the data of a chunk is loaded once, the steps of a table are in order,  *)
(* a load that ends well has done everything, and there is always a chunk  *)
(* to be chosen, of parts that are not more than the threads.              *)
(***************************************************************************)
EXTENDS LoadSchedule, FiniteSetTheorems, SequenceTheorems,
        WellFoundedInduction, TLAPS

(***************************************************************************)
(* Types.                                                                  *)
(***************************************************************************)

TaskTypes ==
  [type : {"chunk", "checksum"}, of : Parts, index : Nat]
    \cup [type : {"bulk"}, of : Parts, index : {0}]
    \cup [type : {"index", "analyze"}, of : Tables, index : {0}]

\* A chunk that is in the list is there: the list has no holes.
PartTypes ==
  [available_chunks : Seq({TRUE}), chunks_seen : Nat, last_chunk_seen : BOOLEAN,
   chunks_consumed : Nat, chunks_loaded : Nat, checksums : Nat,
   checksums_verified : Nat, checksums_total : Nat]

TableTypes ==
  [indexes_scheduled : BOOLEAN, indexes_created : BOOLEAN,
   analyze_scheduled : BOOLEAN, analyze_finished : BOOLEAN]

\* The worker has a task: of this type, and for this part or table.
Held(w) == state[w] \in {"busy", "ended"}
Holds(w, type, of) == Held(w) /\ m_task[w].type = type /\ m_task[w].of = of

Types ==
  /\ opt \in Options
  /\ m_dump_status \in {"DUMPING", "COMPLETE"}
  /\ md_done \subseteq Tables
  /\ part \in [Parts -> PartTypes]
  /\ table \in [Tables -> TableTypes]
  /\ m_tables_with_data \subseteq Parts
  /\ files \subseteq DumpFiles /\ IsFiniteSet(files) /\ snapshot \subseteq files
  /\ pc \in Phases
  /\ caller \in {"none", "metadata", "loop", "next"}
  /\ state \in [Workers -> {"ready", "idle", "busy", "ended"}]
  /\ m_task \in [Workers -> TaskTypes \cup {None}]
  /\ \A w \in Workers : Held(w) => m_task[w] \in TaskTypes
  /\ m_compatibility_status \in [Tables -> {"unknown", "yes", "no"}]
  /\ loads = [p \in Parts |-> loads[p]]
  /\ \A p \in Parts : loads[p] \in [ChunksOf(p) -> Nat]
-----------------------------------------------------------------------------
(***************************************************************************)
(* The inductive invariant.                                                *)
(***************************************************************************)

\* Where the main thread is.
Control ==
  /\ pc \in {"next", "others"}
       \/ (pc \in {"listing", "scanned"} /\ caller = "next")
     => current \in Workers /\ state[current] = "ready"
  /\ pc = "check" => \A w \in Workers : state[w] = "ready"
  /\ pc = "open" => md_done = {}
  /\ pc = "wait" => caller # "next"
  /\ pc \in {"loop", "events", "next", "others", "check"} => md_done = Tables
  /\ pc \in {"listing", "scanned", "wait"} =>
       caller # "none" /\ (caller # "metadata" => md_done = Tables)
  /\ outcome = "ok" => pc = "end"

Available(d) == Len(d.available_chunks)

\* What is known of a part is in the dump, and in the listing which is being
\* made; the last chunk is known if all of them are.
Seen ==
  \A p \in Parts :
    /\ part[p].chunks_seen = Available(part[p])
    /\ Available(part[p]) <= Chunks[p]
    /\ part[p].last_chunk_seen <=> has_data(p) /\ Available(part[p]) = Chunks[p]
    /\ part[p].chunks_consumed <= Available(part[p])
    /\ p \in m_tables_with_data => part[p].chunks_consumed < Available(part[p])
    /\ \A i \in 0 .. Available(part[p]) - 1 :
         /\ ChunkFile(p, i, i = Chunks[p] - 1) \in files
         /\ pc = "listing" => ChunkFile(p, i, i = Chunks[p] - 1) \in snapshot

\* The task of the worker loads the chunk.
Covers(w, p, i) ==
  Holds(w, "bulk", p) \/ (Holds(w, "chunk", p) /\ m_task[w].index = i)

LoadersOf(p) == {w \in Workers : Holds(w, "chunk", p)}
VerifiersOf(p) == {w \in Workers : Holds(w, "checksum", p)}
Bulk(p) == \E w \in Workers : Holds(w, "bulk", p)

\* Tasks load what was consumed, and each of them something else.
Tasks ==
  \A p \in Parts :
    /\ \A w \in Workers :
         /\ Holds(w, "chunk", p) \/ Holds(w, "bulk", p) => opt.load_data
         /\ Holds(w, "chunk", p) => m_task[w].index < part[p].chunks_consumed
         /\ Holds(w, "bulk", p) =>
              /\ has_data(p) /\ part[p].last_chunk_seen
              /\ part[p].chunks_consumed = Available(part[p])
    /\ \A v, w \in Workers : \A i \in ChunksOf(p) :
         Covers(v, p, i) /\ Covers(w, p, i) => v = w

\* A chunk that was consumed is being loaded or counted as loaded.
Counted ==
  opt.load_data => \A p \in Parts :
    IF Bulk(p)
    THEN part[p].chunks_loaded = 0 /\ LoadersOf(p) = {}
    ELSE part[p].chunks_loaded + Cardinality(LoadersOf(p))
           = part[p].chunks_consumed

InLog(p, i) == log.chunk[p][i] = "DONE" \/ log.bulk[p] = "DONE"

\* How often a chunk was loaded.
Loads ==
  \A p \in Parts : \A i \in ChunksOf(p) :
    /\ InLog(p, i) => loads[p][i] >= 1
    /\ opt.load_data /\ i < part[p].chunks_consumed =>
         loads[p][i] >= 1
           \/ \E w \in Workers : state[w] = "busy" /\ Covers(w, p, i)
    /\ log.bulk[p] # "DONE" /\ Size[p][i] > 0 =>
         /\ loads[p][i] <= 1
         /\ \A w \in Workers :
              state[w] = "busy" /\ Covers(w, p, i) => loads[p][i] = 0
         /\ i >= part[p].chunks_consumed /\ ~InLog(p, i) => loads[p][i] = 0
    /\ m_compatibility_status[Owner[p]] = "yes" /\ i >= part[p].chunks_consumed
         => loads[p][i] = 0 \/ ~(Size[p][i] > 0)

\* The task was executed, or is being executed.
Runs(t) == t \in executed \/ \E w \in Workers : state[w] = "busy" /\ m_task[w] = t

\* Indexes which are scheduled are being created, or were.
Indexes ==
  \A t \in Tables : opt.deferred_indexes /\ t \in Indexed =>
    /\ table[t].indexes_scheduled => Runs(Task("index", t, 0))
    /\ table[t].indexes_created => Task("index", t, 0) \in executed

\* Does the analysis of a table execute a statement.
Analysed(t) == opt.analyze = "ON" \/ (opt.analyze = "HISTOGRAM" /\ t \in Histograms)

\* A table is analysed once; its analysis is finished when it has ended.
Analysis ==
  \A t \in Tables :
    /\ \A w \in Workers : Holds(w, "analyze", t) =>
         table[t].analyze_scheduled /\ ~table[t].analyze_finished
    /\ table[t].analyze_finished => table[t].analyze_scheduled
    /\ \A v, w \in Workers :
         Holds(v, "analyze", t) /\ Holds(w, "analyze", t) => v = w
    /\ table[t].analyze_scheduled /\ Analysed(t) => Runs(Task("analyze", t, 0))

\* What has happened before a task was given to a worker.
Order ==
  \A w \in Workers :
    /\ \A t \in Tables :
         /\ Holds(w, "index", t) \/ Holds(w, "analyze", t) => AllLoaded(t)
         /\ Holds(w, "index", t) /\ state[w] = "ended" =>
              Task("index", t, 0) \in executed
         /\ Holds(w, "analyze", t) => table[t].indexes_created
    /\ \A p \in Parts : Holds(w, "checksum", p) =>
         /\ opt.load_data => \A i \in ChunksOf(p) : loads[p][i] >= 1
         /\ table[Owner[p]].indexes_created
         /\ table[Owner[p]].analyze_finished

\* A checksum is to be verified, is being verified, or was verified.
Total(p) == IF opt.checksum /\ m_dump_status = "COMPLETE" /\ Owner[p] \in md_done
            THEN Checksums[p] ELSE 0

Checks ==
  \A p \in Parts :
    /\ part[p].checksums_total = Total(p)
    /\ part[p].checksums + part[p].checksums_verified
         + Cardinality(VerifiersOf(p)) = part[p].checksums_total
    /\ table_exists(Owner[p]) =>
         \A k \in part[p].checksums + 1 .. part[p].checksums_total :
           Runs(Task("checksum", p, k))

Ok == OkMeansAll

IInv ==
  /\ Types /\ Control /\ Seen /\ Tasks /\ Counted /\ Loads /\ Indexes
  /\ Analysis /\ Order /\ Checks /\ Ok
-----------------------------------------------------------------------------
(***************************************************************************)
(* Files, and what rescan_data() makes of them.                            *)
(***************************************************************************)

\* A set of natural numbers has a least element.
LEMMA Least ==
  ASSUME NEW S, \A x \in S : x \in Nat, S # {}
  PROVE  Min(S) \in S /\ \A y \in S : Min(S) <= y
<1>1. S \subseteq Nat
  OBVIOUS
<1>2. IsWellFoundedOn(OpToRel(<, Nat), Nat)
  BY NatLessThanWellFounded
<1>3. PICK R : R = OpToRel(<, Nat)
  OBVIOUS
<1>4. IsWellFoundedOn(R, Nat)
  BY <1>2, <1>3
<1>5. PICK m \in S : \A k \in S : ~(<<k, m>> \in R)
  BY <1>1, <1>4, WFMin
<1>6. \A j, k \in Nat : j < k => <<j, k>> \in R
  BY <1>3 DEF OpToRel
<1>7. ASSUME NEW k \in S PROVE m <= k
  <2>1. m \in Nat /\ k \in Nat /\ ~(<<k, m>> \in R)
    BY <1>5
  <2>2. ~(k < m)
    BY <1>6, <2>1
  <2> QED
    BY <2>1, <2>2
<1> QED
  BY <1>7 DEF Min

\* A file with the name of a chunk is that chunk, and the name says whether it
\* is the last one.
LEMMA ChunkFiles ==
  ASSUME NEW p \in Parts, NEW i \in Nat, NEW l \in BOOLEAN,
         ChunkFile(p, i, l) \in DumpFiles
  PROVE  i \in 0 .. Chunks[p] - 1 /\ (l <=> i = Chunks[p] - 1)
<1>1. Chunks[p] \in Nat
  BY ReaderAssumption
<1>2. \A t : MetadataFile(t) # ChunkFile(p, i, l)
  <2>1. \A t : DOMAIN MetadataFile(t) = {"table"}
    BY DEF MetadataFile
  <2>2. DOMAIN ChunkFile(p, i, l) = {"part", "index", "last"}
    BY DEF ChunkFile
  <2> QED
    BY <2>1, <2>2
<1>3. DoneFile # ChunkFile(p, i, l)
  <2>1. DOMAIN DoneFile = {"done"}
    BY DEF DoneFile
  <2>2. DOMAIN ChunkFile(p, i, l) = {"part", "index", "last"}
    BY DEF ChunkFile
  <2> QED
    BY <2>1, <2>2
<1>4. PICK q \in Parts : ChunkFile(p, i, l) \in
                            {ChunkFile(q, k, k = Chunks[q] - 1) : k \in 0 .. Chunks[q] - 1}
  <2>1. PICK f : f = ChunkFile(p, i, l)
    OBVIOUS
  <2>2. f \in DumpFiles /\ f # DoneFile /\ \A t : MetadataFile(t) # f
    BY <2>1, <1>2, <1>3
  <2>3. \E q \in Parts : f \in {ChunkFile(q, k, k = Chunks[q] - 1) : k \in 0 .. Chunks[q] - 1}
    <3> HIDE <2>1
    <3> QED
      BY <2>2, Zenon DEF DumpFiles
  <2> QED
    BY <2>1, <2>3
<1>5. PICK j \in 0 .. Chunks[q] - 1 :
        ChunkFile(p, i, l) = ChunkFile(q, j, j = Chunks[q] - 1)
  BY <1>4
<1>6. p = q /\ i = j /\ (l <=> j = Chunks[q] - 1)
  BY <1>5 DEF ChunkFile
<1> QED
  BY <1>6

\* There are at least as many files as chunks of a part.
LEMMA ManyFiles ==
  ASSUME NEW p \in Parts, NEW n \in Nat, NEW F, IsFiniteSet(F),
         \A i \in 0 .. n - 1 : ChunkFile(p, i, i = Chunks[p] - 1) \in F
  PROVE  Cardinality(F) \in Nat /\ n <= Cardinality(F)
<1> DEFINE f == [i \in 1 .. n |-> ChunkFile(p, i - 1, i - 1 = Chunks[p] - 1)]
<1>1. \A i \in 1 .. n : f[i] \in F
  OBVIOUS
<1>2. \A i, j \in 1 .. n : f[i] = f[j] => i = j
  <2> SUFFICES ASSUME NEW i \in 1 .. n, NEW j \in 1 .. n, f[i] = f[j]
               PROVE  i = j
    OBVIOUS
  <2>1. ChunkFile(p, i - 1, i - 1 = Chunks[p] - 1)
          = ChunkFile(p, j - 1, j - 1 = Chunks[p] - 1)
    OBVIOUS
  <2>2. i - 1 = j - 1
    BY <2>1 DEF ChunkFile
  <2> QED
    BY <2>2
<1>3. f \in [1 .. n -> F]
  BY <1>1
<1>4. f \in Injection(1 .. n, F)
  <2> HIDE DEF f
  <2> QED
    BY <1>2, <1>3 DEF Injection, IsInjective
<1>5. Cardinality(1 .. n) <= Cardinality(F)
  <2> HIDE DEF f
  <2> QED
    BY <1>4, FS_Injection
<1>6. Cardinality(1 .. n) = n
  BY FS_Interval
<1>7. Cardinality(F) \in Nat
  BY FS_CardinalityType
<1> QED
  BY <1>5, <1>6, <1>7

LEMMA ChunkNotLast ==
  ASSUME NEW p \in Parts, NEW i \in Nat, ChunkFile(p, i, FALSE) \in DumpFiles
  PROVE  i < Chunks[p] - 1
<1>1. i \in 0 .. Chunks[p] - 1 /\ (FALSE <=> i = Chunks[p] - 1)
  BY ChunkFiles, Zenon
<1>2. Chunks[p] \in Nat
  BY ReaderAssumption
<1> QED
  BY <1>1, <1>2

LEMMA ChunkLast ==
  ASSUME NEW p \in Parts, NEW i \in Nat, ChunkFile(p, i, TRUE) \in DumpFiles
  PROVE  i = Chunks[p] - 1
<1>1. i \in 0 .. Chunks[p] - 1 /\ (TRUE <=> i = Chunks[p] - 1)
  BY ChunkFiles, Zenon
<1> QED
  BY <1>1

\* The sequence of chunks which begins at n ends at e.
IsEnd(e, p, F, n, c) ==
  /\ e = Min({i \in n .. c : i = c \/ ChunkFile(p, i, FALSE) \notin F})
  /\ \A i \in n .. e - 1 : ChunkFile(p, i, FALSE) \in F

\* A sequence of chunks has an end.
LEMMA SequenceEnd ==
  ASSUME NEW p, NEW F, NEW n \in Nat, NEW c \in Nat, n <= c
  PROVE  \E e \in n .. c : IsEnd(e, p, F, n, c)
<1> DEFINE S == {i \in n .. c : i = c \/ ChunkFile(p, i, FALSE) \notin F}
<1>1. (\A x \in S : x \in Nat) /\ c \in S
  BY DEF ChunkFile
<1>2. Min(S) \in S /\ \A y \in S : Min(S) <= y
  <2> HIDE DEF S
  <2> QED
    BY <1>1, Least
<1>3. PICK e : e = Min(S)
  OBVIOUS
<1>4. e \in n .. c /\ e \in S /\ \A y \in S : e <= y
  BY <1>2, <1>3
<1>5. ASSUME NEW i \in n .. e - 1, ChunkFile(p, i, FALSE) \notin F PROVE FALSE
  <2>1. i \in S
    BY <1>4, <1>5 DEF ChunkFile
  <2> QED
    BY <1>4, <2>1 DEF ChunkFile
<1> QED
  BY <1>3, <1>4, <1>5 DEF ChunkFile, IsEnd

\* Chunks which are found are added at the end.
LEMMA AddedChunks ==
  ASSUME NEW n \in Nat, NEW k \in Nat
  PROVE  [i \in 1 .. n |-> TRUE] \o [i \in 1 .. k |-> TRUE] = [i \in 1 .. n + k |-> TRUE]
<1> DEFINE a == [i \in 1 .. n |-> TRUE]
           b == [i \in 1 .. k |-> TRUE]
           c == [i \in 1 .. n + k |-> TRUE]
<1>1. a \in Seq({TRUE}) /\ Len(a) = n /\ \A i \in 1 .. n : a[i] = TRUE
  OBVIOUS
<1>2. b \in Seq({TRUE}) /\ Len(b) = k /\ \A i \in 1 .. k : b[i] = TRUE
  OBVIOUS
<1>3. c \in Seq({TRUE}) /\ Len(c) = n + k /\ \A i \in 1 .. n + k : c[i] = TRUE
  OBVIOUS
<1>4. a \o b \in Seq({TRUE}) /\ Len(a \o b) = n + k
  <2> HIDE DEF a, b
  <2> QED
    BY <1>1, <1>2, ConcatProperties
<1>5. \A i \in 1 .. n + k : (a \o b)[i] \in {TRUE}
  <2> HIDE DEF a, b
  <2> QED
    BY <1>4, ElementOfSeq
<1>6. \A i \in 1 .. n + k : (a \o b)[i] = c[i]
  <2> HIDE DEF a, b, c
  <2> QED
    BY <1>3, <1>5, Zenon
<1> HIDE DEF a, b, c
<1>7. \A i \in 1 .. Len(a \o b) : (a \o b)[i] = c[i]
  BY <1>4, <1>6, Zenon
<1>8. Len(a \o b) = Len(c)
  BY <1>3, <1>4, Zenon
<1>9. a \o b = c
  BY <1>3, <1>4, <1>7, <1>8, SeqEqual, Zenon
<1> QED
  BY <1>9 DEF a, b, c

\* A scan finds the chunks that follow those which are known, as many as there
\* are one after another, and the last one when all of them are there.
LEMMA RescanData ==
  ASSUME NEW p \in Parts, NEW d \in PartTypes, NEW F, F \subseteq DumpFiles,
         IsFiniteSet(F), ~d.last_chunk_seen, Available(d) < Chunks[p],
         \A i \in 0 .. Available(d) - 1 : ChunkFile(p, i, i = Chunks[p] - 1) \in F
  PROVE  \E m \in Available(d) .. Chunks[p] :
           /\ rescan_data(d, p, F) =
                [d EXCEPT !.available_chunks = [i \in 1 .. m |-> TRUE],
                          !.chunks_seen = m, !.last_chunk_seen = (m = Chunks[p])]
           /\ \A i \in 0 .. m - 1 : ChunkFile(p, i, i = Chunks[p] - 1) \in F
<1>1. PICK n \in Nat : n = Len(d.available_chunks)
  BY DEF PartTypes
<1>2. d.available_chunks \in Seq({TRUE}) /\ Chunks[p] \in Nat /\ n < Chunks[p]
      /\ \A i \in 0 .. n - 1 : ChunkFile(p, i, i = Chunks[p] - 1) \in F
  BY <1>1, ReaderAssumption DEF PartTypes, Available
<1>3. PICK c \in Nat : c = Cardinality(F) /\ n <= c
  BY <1>2, ManyFiles
<1>4. PICK e \in n .. c :
        /\ e = Min({i \in n .. c : i = c \/ ChunkFile(p, i, FALSE) \notin F})
        /\ \A i \in n .. e - 1 : ChunkFile(p, i, FALSE) \in F
  <2>1. \E e \in n .. c : IsEnd(e, p, F, n, c)
    BY <1>3, SequenceEnd
  <2> QED
    BY <2>1, Zenon DEF IsEnd
<1>5. PICK k \in {0, 1} : (k = 1 <=> e < c /\ ChunkFile(p, e, TRUE) \in F)
                           /\ k = IF e < c /\ ChunkFile(p, e, TRUE) \in F THEN 1 ELSE 0
  BY DEF ChunkFile
<1>6. \A i \in n .. e - 1 : i < Chunks[p] - 1
  <2> TAKE i \in n .. e - 1
  <2>1. i \in Nat
    OBVIOUS
  <2>2. ChunkFile(p, i, FALSE) \in DumpFiles
    BY <1>4, Zenon
  <2> QED
    BY <2>1, <2>2, ChunkNotLast, Zenon
<1>7. k = 1 => e = Chunks[p] - 1
  <2> HAVE k = 1
  <2>1. e \in Nat
    OBVIOUS
  <2>2. ChunkFile(p, e, TRUE) \in DumpFiles
    BY <1>5, Zenon
  <2> QED
    BY <2>1, <2>2, ChunkLast, Zenon
<1>8. e <= Chunks[p] - 1
  <2>1. CASE e = n
    BY <1>2, <2>1
  <2>2. CASE e # n
    <3>1. e - 1 \in n .. e - 1
      BY <2>2
    <3> QED
      BY <1>2, <1>6, <3>1
  <2> QED
    BY <2>1, <2>2
<1>9. PICK m \in n .. Chunks[p] : m = e + k /\ (k = 1 <=> m = Chunks[p])
  BY <1>2, <1>7, <1>8
<1>10. ASSUME NEW i \in 0 .. m - 1 PROVE ChunkFile(p, i, i = Chunks[p] - 1) \in F
  <2>1. CASE i < n
    BY <2>1, <1>2
  <2>2. CASE ~(i < n) /\ i < e
    <3>1. i \in n .. e - 1
      BY <2>2
    <3>2. (i = Chunks[p] - 1) = FALSE
      BY <3>1, <1>6, <1>2
    <3>3. ChunkFile(p, i, FALSE) \in F
      BY <3>1, <1>4
    <3> QED
      BY <3>2, <3>3
  <2>3. CASE ~(i < e)
    <3>1. k = 1 /\ i = e
      BY <2>3, <1>9
    <3>2. (i = Chunks[p] - 1) = TRUE
      BY <3>1, <1>7
    <3>3. ChunkFile(p, i, TRUE) \in F
      BY <3>1, <1>5
    <3> QED
      BY <3>2, <3>3
  <2> QED
    BY <2>1, <2>2, <2>3
<1>11. PICK filled : filled = [i \in 1 .. n |-> d.available_chunks[i]
                                               \/ ChunkFile(p, i - 1, FALSE) \in F]
  OBVIOUS
<1>12. filled = [i \in 1 .. n |-> TRUE]
  <2>1. \A i \in 1 .. n : d.available_chunks[i] \in {TRUE}
    BY <1>1, <1>2, ElementOfSeq
  <2>2. \A i \in 1 .. n : (d.available_chunks[i] \/ ChunkFile(p, i - 1, FALSE) \in F) = TRUE
    BY <2>1, Zenon
  <2> QED
    BY <1>11, <2>2
<1>13. PICK chunks : chunks = filled \o [i \in 1 .. e - n + k |-> TRUE]
  OBVIOUS
<1>14. chunks = [i \in 1 .. m |-> TRUE]
  <2>1. PICK j \in Nat : j = e - n + k /\ n + j = m
    BY <1>9
  <2>2. chunks = [i \in 1 .. n |-> TRUE] \o [i \in 1 .. j |-> TRUE]
    BY <1>12, <1>13, <2>1
  <2> QED
    BY <2>1, <2>2, AddedChunks
<1>15. Cardinality({i \in DOMAIN chunks : chunks[i]}) = m
  <2>1. {i \in DOMAIN chunks : chunks[i]} = 1 .. m
    BY <1>14
  <2>2. Cardinality(1 .. m) = m
    BY FS_Interval
  <2> QED
    BY <2>1, <2>2
<1>16. rescan_data(d, p, F) =
         [d EXCEPT !.available_chunks = chunks,
                   !.chunks_seen = Cardinality({i \in DOMAIN chunks : chunks[i]}),
                   !.last_chunk_seen = d.last_chunk_seen
                     \/ ((e < c /\ ChunkFile(p, e, TRUE) \in F) /\ ~d.last_chunk_seen)]
  <2>1. Min({i \in n .. Cardinality(F) :
               i = Cardinality(F) \/ ChunkFile(p, i, FALSE) \notin F}) = e
    BY <1>3, <1>4, Zenon
  <2> QED
    BY <1>1, <1>3, <1>5, <1>11, <1>13, <2>1, ZenonT(60) DEF rescan_data
<1>17. (d.last_chunk_seen
          \/ ((e < c /\ ChunkFile(p, e, TRUE) \in F) /\ ~d.last_chunk_seen)) = (m = Chunks[p])
  BY <1>5, <1>9
<1>18. rescan_data(d, p, F) =
         [d EXCEPT !.available_chunks = [i \in 1 .. m |-> TRUE],
                   !.chunks_seen = m, !.last_chunk_seen = (m = Chunks[p])]
  BY <1>14, <1>15, <1>16, <1>17
<1>19. m \in Available(d) .. Chunks[p]
  BY <1>1, <1>9 DEF Available
<1> QED
  BY <1>10, <1>18, <1>19
-----------------------------------------------------------------------------
(***************************************************************************)
(* What a step keeps.                                                      *)
(***************************************************************************)

\* A step that does not touch the tasks which load data, and not the chunks.
LEMMA LoadKept ==
  ASSUME Types, Tasks, Counted, Loads,
         UNCHANGED <<opt, log, loads, m_compatibility_status>>,
         \A p \in Parts :
           /\ part'[p].available_chunks = part[p].available_chunks
           /\ part'[p].last_chunk_seen = part[p].last_chunk_seen
           /\ part'[p].chunks_consumed = part[p].chunks_consumed
           /\ part'[p].chunks_loaded = part[p].chunks_loaded,
         \A w \in Workers : \A p \in Parts :
           /\ Holds(w, "chunk", p)' <=> Holds(w, "chunk", p)
           /\ Holds(w, "bulk", p)' <=> Holds(w, "bulk", p)
           /\ Holds(w, "chunk", p) => m_task'[w] = m_task[w]
           /\ Holds(w, "chunk", p) \/ Holds(w, "bulk", p) =>
                (state'[w] = "busy" <=> state[w] = "busy")
  PROVE  Tasks' /\ Counted' /\ Loads'
<1>1. \A w \in Workers : \A p \in Parts : \A i : Covers(w, p, i)' <=> Covers(w, p, i)
  BY DEF Covers
<1>2. \A p \in Parts : LoadersOf(p)' = LoadersOf(p) /\ (Bulk(p)' <=> Bulk(p))
  BY DEF LoadersOf, Bulk
<1>3. \A p \in Parts : Available(part'[p]) = Available(part[p])
  BY DEF Available
<1>4. Tasks'
  BY <1>1, <1>3 DEF Tasks, ChunksOf
<1>5. Counted'
  BY <1>2 DEF Counted
<1>6. \A w \in Workers : \A p \in Parts : \A i :
        (state'[w] = "busy" /\ Covers(w, p, i)') <=> (state[w] = "busy" /\ Covers(w, p, i))
  BY <1>1 DEF Covers
<1>7. \A p \in Parts : \A i : InLog(p, i)' <=> InLog(p, i)
  BY DEF InLog
<1>8. Loads'
  BY <1>6, <1>7 DEF Loads, ChunksOf
<1> QED
  BY <1>4, <1>5, <1>8

\* A step that gives no other task to a worker, and ends none.
LEMMA OthersKept ==
  ASSUME Types, Indexes, Analysis, Order,
         UNCHANGED <<opt, table>>, executed \subseteq executed',
         \A p \in Parts : \A i \in ChunksOf(p) : loads[p][i] >= 1 => loads'[p][i] >= 1,
         \A t : t.type \in {"index", "analyze"} /\ Runs(t) => Runs(t)',
         \A w \in Workers : \A of :
           /\ Holds(w, "index", of)' => Holds(w, "index", of)
           /\ Holds(w, "analyze", of)' => Holds(w, "analyze", of)
           /\ Holds(w, "checksum", of)' => Holds(w, "checksum", of)
           /\ Holds(w, "index", of) => (state'[w] = "ended" => state[w] = "ended")
  PROVE  Indexes' /\ Analysis' /\ Order'
<1>1. \A t : Task("index", t, 0).type = "index" /\ Task("analyze", t, 0).type = "analyze"
  BY DEF Task
<1>2. \A t \in Tables : /\ Runs(Task("index", t, 0)) => Runs(Task("index", t, 0))'
                        /\ Runs(Task("analyze", t, 0)) => Runs(Task("analyze", t, 0))'
  BY <1>1
<1>3. Indexes'
  BY <1>2 DEF Indexes, Task
<1>4. Analysis'
  BY <1>2 DEF Analysis, Analysed, Task
<1>5. \A t \in Tables : AllLoaded(t) => AllLoaded(t)'
  BY DEF AllLoaded, PartsOf, ChunksOf
<1>6. Order'
  BY <1>5 DEF Order, Task, ChunksOf
<1> QED
  BY <1>3, <1>4, <1>6

\* A step that does not touch the checksums.
LEMMA ChecksKept ==
  ASSUME Types, Checks, UNCHANGED opt,
         \A p \in Parts :
           /\ part'[p].checksums = part[p].checksums
           /\ part'[p].checksums_total = part[p].checksums_total
           /\ part'[p].checksums_verified = part[p].checksums_verified
           /\ Total(p)' = Total(p),
         \A t : t.type = "checksum" /\ Runs(t) => Runs(t)',
         \A w \in Workers : \A p \in Parts :
           Holds(w, "checksum", p)' <=> Holds(w, "checksum", p)
  PROVE  Checks'
<1>1. \A p \in Parts : VerifiersOf(p)' = VerifiersOf(p)
  BY DEF VerifiersOf
<1>2. \A p, k : Task("checksum", p, k).type = "checksum"
  BY DEF Task
<1>3. \A p, k : Runs(Task("checksum", p, k)) => Runs(Task("checksum", p, k))'
  BY <1>2
<1>4. \A p, k : Task("checksum", p, k)' = Task("checksum", p, k)
  BY DEF Task
<1>5. \A t : table_exists(t)' <=> table_exists(t)
  BY DEF table_exists
<1> QED
  BY <1>1, <1>3, <1>4, <1>5 DEF Checks

\* A step that touches neither tasks nor what they are about.
LEMMA WorkKept ==
  ASSUME IInv,
         UNCHANGED <<opt, part, table, log, loads, executed, m_compatibility_status, m_task>>,
         \A p \in Parts : Total(p)' = Total(p),
         \A w \in Workers : /\ state'[w] = "busy" <=> state[w] = "busy"
                            /\ state'[w] = "ended" <=> state[w] = "ended"
  PROVE  Tasks' /\ Counted' /\ Loads' /\ Indexes' /\ Analysis' /\ Order' /\ Checks'
<1>1. \A w \in Workers : \A type, of : Holds(w, type, of)' <=> Holds(w, type, of)
  BY DEF Holds, Held
<1>2. \A t : Runs(t)' <=> Runs(t)
  BY DEF Runs
<1>3. Tasks' /\ Counted' /\ Loads'
  BY <1>1, LoadKept DEF IInv
<1>4. Indexes' /\ Analysis' /\ Order'
  BY <1>1, <1>2, OthersKept DEF IInv
<1>5. Checks'
  BY <1>1, <1>2, ChecksKept DEF IInv
<1> QED
  BY <1>3, <1>4, <1>5

\* Files are never lost.
LEMMA SeenKept ==
  ASSUME Types, Seen, UNCHANGED m_tables_with_data, files \subseteq files',
         \A p \in Parts :
           /\ part'[p].available_chunks = part[p].available_chunks
           /\ part'[p].chunks_seen = part[p].chunks_seen
           /\ part'[p].last_chunk_seen = part[p].last_chunk_seen
           /\ part'[p].chunks_consumed = part[p].chunks_consumed,
         pc' = "listing" => snapshot' = files \/ (pc = "listing" /\ snapshot' = snapshot)
  PROVE  Seen'
<1> SUFFICES ASSUME NEW p \in Parts
             PROVE  /\ Seen!(p)!1' /\ Seen!(p)!2' /\ Seen!(p)!3' /\ Seen!(p)!4'
                    /\ Seen!(p)!5' /\ Seen!(p)!6'
  BY DEF Seen
<1>1. Seen!(p)!1' /\ Seen!(p)!2' /\ Seen!(p)!3' /\ Seen!(p)!4' /\ Seen!(p)!5'
  BY DEF Seen, Available, has_data
<1>2. Seen!(p)!6'
  BY DEF Seen, Available, ChunkFile
<1> QED
  BY <1>1, <1>2

\* A step of the main thread which gives no task to a worker.
LEMMA MainKept ==
  ASSUME IInv,
         UNCHANGED <<readerVars, historyVars, log, m_compatibility_status, m_task>>,
         files \subseteq files', files' \subseteq DumpFiles, IsFiniteSet(files'),
         snapshot' \subseteq files', pc' \in Phases,
         caller' \in {"none", "metadata", "loop", "next"},
         state' \in [Workers -> {"ready", "idle", "busy", "ended"}],
         \A w \in Workers : /\ state'[w] = "busy" <=> state[w] = "busy"
                            /\ state'[w] = "ended" <=> state[w] = "ended",
         pc' = "listing" => snapshot' = files \/ (pc = "listing" /\ snapshot' = snapshot),
         Control', Ok'
  PROVE  IInv'
<1>1. /\ UNCHANGED <<opt, part, table, log, loads, executed, m_compatibility_status, m_task>>
      /\ UNCHANGED <<m_dump_status, md_done, m_tables_with_data>>
  BY DEF readerVars, historyVars
<1>2. \A p \in Parts : Total(p)' = Total(p)
  BY <1>1 DEF Total
<1>3. Tasks' /\ Counted' /\ Loads' /\ Indexes' /\ Analysis' /\ Order' /\ Checks'
  BY <1>1, <1>2, WorkKept
<1>4. Seen'
  BY <1>1, SeenKept DEF IInv
<1>5. Types'
  BY <1>1 DEF IInv, Types, Held
<1> QED
  BY <1>3, <1>4, <1>5 DEF IInv

\* While the load goes on it has not ended well.
LEMMA NotOk ==
  ASSUME IInv, pc # "end", outcome' = outcome \/ outcome' # "ok"
  PROVE  Ok' /\ outcome' # "ok"
BY DEF IInv, Control, Ok, OkMeansAll

LEMMA WriteFileStep ==
  ASSUME IInv, WriteFile
  PROVE  IInv'
<1>1. PICK f \in DumpFiles : files' = files \cup {f}
  BY DEF WriteFile
<1>2. IsFiniteSet(files')
  BY <1>1, FS_AddElement DEF IInv, Types
<1>3. UNCHANGED <<readerVars, mainVars, workerVars, historyVars, log, m_compatibility_status>>
  BY DEF WriteFile
<1>4. Control'
  BY <1>3 DEF IInv, Control, mainVars, workerVars, readerVars
<1>5. Ok'
  BY <1>3 DEF IInv, Ok, OkMeansAll, mainVars, readerVars, historyVars, AllLoaded, ChunksOf,
              PartsOf, Task, table_exists
<1> QED
  BY <1>1, <1>2, <1>3, <1>4, <1>5, MainKept DEF IInv, Types, mainVars, workerVars

LEMMA WaitForMetadataStep ==
  ASSUME IInv, WaitForMetadata
  PROVE  IInv'
<1>1. pc = "metadata" /\ pc' \in {"loop", "listing"} /\ (pc' = "listing" => snapshot' = files)
      /\ (pc' = "loop" => md_done = Tables /\ snapshot' = snapshot)
      /\ (pc' = "listing" => caller' = "metadata") /\ caller' \in {caller, "metadata"}
  BY DEF WaitForMetadata, StartListing, md_ready
<1>2. UNCHANGED <<readerVars, current, outcome, workerVars, historyVars, files, log,
                  m_compatibility_status>>
  BY DEF WaitForMetadata, unchangedByScan
<1>3. Control'
  BY <1>1, <1>2 DEF IInv, Control, workerVars, readerVars
<1>4. Ok'
  BY <1>1, <1>2, NotOk
<1> QED
  BY <1>1, <1>2, <1>3, <1>4, MainKept DEF IInv, Types, workerVars, Phases

LEMMA ScannedStep ==
  ASSUME IInv, MetadataScanned \/ DataScanned \/ TriedAgain
  PROVE  IInv'
<1>1. pc = "scanned" /\ pc' \in {"loop", "end", "wait", "events", "next"}
      /\ (pc' \in {"loop", "events", "next"} => md_done = Tables \/ caller \in {"loop", "next"})
      /\ (pc' = "next" => caller = "next") /\ caller # "none"
      /\ (pc' = "wait" => caller # "next")
      /\ (outcome' = outcome \/ outcome' # "ok")
  BY DEF MetadataScanned, DataScanned, TriedAgain, Ended, md_ready
<1>2. UNCHANGED <<readerVars, caller, snapshot, current, workerVars, historyVars, files, log,
                  m_compatibility_status>>
  BY DEF MetadataScanned, DataScanned, TriedAgain, unchangedByScan
<1>3. Ok' /\ outcome' # "ok"
  BY <1>1, <1>2, NotOk
<1>4. Control'
  BY <1>1, <1>2, <1>3 DEF IInv, Control, workerVars, readerVars
<1> QED
  BY <1>1, <1>2, <1>3, <1>4, MainKept DEF IInv, Types, workerVars, Phases

LEMMA WaitStep ==
  ASSUME IInv, WaitForDump \/ Timeout
  PROVE  IInv'
<1>1. pc = "wait" /\ pc' \in {"listing", "end"} /\ (pc' = "listing" => snapshot' = files)
      /\ (pc' = "end" => snapshot' = snapshot) /\ caller' = caller
      /\ (outcome' = outcome \/ outcome' # "ok")
  BY DEF WaitForDump, Timeout, Ended, StartListing
<1>2. UNCHANGED <<readerVars, current, workerVars, historyVars, files, log,
                  m_compatibility_status>>
  BY DEF WaitForDump, Timeout, unchangedByScan
<1>3. Ok' /\ outcome' # "ok"
  BY <1>1, <1>2, NotOk
<1>4. Control'
  BY <1>1, <1>2, <1>3 DEF IInv, Control, workerVars, readerVars
<1> QED
  BY <1>1, <1>2, <1>3, <1>4, MainKept DEF IInv, Types, workerVars, Phases

LEMMA LoopStep ==
  ASSUME IInv, Loop
  PROVE  IInv'
<1>1. pc = "loop" /\ pc' \in {"events", "listing"} /\ (pc' = "listing" => snapshot' = files)
      /\ (pc' = "events" => snapshot' = snapshot)
      /\ (pc' = "listing" => caller' = "loop") /\ caller' \in {caller, "loop"}
  BY DEF Loop, StartListing
<1>2. UNCHANGED <<readerVars, current, outcome, workerVars, historyVars, files, log,
                  m_compatibility_status>>
  BY DEF Loop, unchangedByScan
<1>3. Control'
  BY <1>1, <1>2 DEF IInv, Control, workerVars, readerVars
<1>4. Ok'
  BY <1>1, <1>2, NotOk
<1> QED
  BY <1>1, <1>2, <1>3, <1>4, MainKept DEF IInv, Types, workerVars, Phases

LEMMA HandleReadyStep ==
  ASSUME IInv, NEW w \in Workers, HandleReady(w)
  PROVE  IInv'
<1>1. pc = "events" /\ pc' = "next" /\ state[w] = "ready" /\ current' = w
  BY DEF HandleReady
<1>2. UNCHANGED <<readerVars, caller, snapshot, outcome, workerVars, historyVars, files, log,
                  m_compatibility_status>>
  BY DEF HandleReady, unchangedByScan
<1>3. Control'
  BY <1>1, <1>2 DEF IInv, Control, workerVars, readerVars
<1>4. Ok'
  BY <1>1, <1>2, NotOk
<1> QED
  BY <1>1, <1>2, <1>3, <1>4, MainKept DEF IInv, Types, workerVars, Phases

LEMMA AllIdleStep ==
  ASSUME IInv, AllIdle
  PROVE  IInv'
<1>1. pc = "events" /\ pc' = "check" /\ (\A w \in Workers : state[w] = "idle")
      /\ state' = [w \in Workers |-> "ready"]
  BY DEF AllIdle
<1>2. UNCHANGED <<readerVars, caller, snapshot, current, outcome, m_task, historyVars, files,
                  log, m_compatibility_status>>
  BY DEF AllIdle
<1>3. Control'
  BY <1>1, <1>2 DEF IInv, Control, readerVars
<1>4. Ok'
  BY <1>1, <1>2, NotOk
<1>5. \A w \in Workers : state'[w] = "ready" /\ state[w] = "idle"
  BY <1>1
<1> QED
  BY <1>1, <1>2, <1>3, <1>4, <1>5, MainKept DEF IInv, Types, Phases

LEMMA NoTableChunkStep ==
  ASSUME IInv, NoTableChunk
  PROVE  IInv'
<1>1. pc = "next" /\ pc' \in {"others", "listing"} /\ (pc' = "listing" => snapshot' = files)
      /\ (pc' = "others" => snapshot' = snapshot)
      /\ (pc' = "listing" => caller' = "next") /\ caller' \in {caller, "next"}
  BY DEF NoTableChunk, StartListing
<1>2. UNCHANGED <<readerVars, current, outcome, workerVars, historyVars, files, log,
                  m_compatibility_status>>
  BY DEF NoTableChunk, unchangedByScan
<1>3. Control'
  BY <1>1, <1>2 DEF IInv, Control, workerVars, readerVars
<1>4. Ok'
  BY <1>1, <1>2, NotOk
<1> QED
  BY <1>1, <1>2, <1>3, <1>4, MainKept DEF IInv, Types, workerVars, Phases

LEMMA NothingToScheduleStep ==
  ASSUME IInv, NothingToSchedule
  PROVE  IInv'
<1>1. pc = "others" /\ pc' = "events" /\ state' = [state EXCEPT ![current] = "idle"]
      /\ current \in Workers /\ state[current] = "ready"
  BY DEF NothingToSchedule, IInv, Control
<1>2. UNCHANGED <<readerVars, caller, snapshot, outcome, m_task, historyVars, files, log,
                  m_compatibility_status>>
  BY DEF NothingToSchedule, unchangedByOthers, readerVars
<1>3. Control'
  BY <1>1, <1>2 DEF IInv, Control, readerVars
<1>4. Ok'
  BY <1>1, <1>2, NotOk
<1>5. \A w \in Workers : /\ state'[w] = "busy" <=> state[w] = "busy"
                         /\ state'[w] = "ended" <=> state[w] = "ended"
  BY <1>1 DEF IInv, Types
<1>6. state' \in [Workers -> {"ready", "idle", "busy", "ended"}]
  BY <1>1 DEF IInv, Types
<1> QED
  BY <1>1, <1>2, <1>3, <1>4, <1>5, <1>6, MainKept DEF IInv, Types, Phases

\* The state of the dump is not of interest before its metadata was read.
LEMMA OpenStep ==
  ASSUME IInv, Open
  PROVE  IInv'
<1>1. pc = "open" /\ pc' \in {"metadata", "end"} /\ m_dump_status' \in {"DUMPING", "COMPLETE"}
      /\ (outcome' = outcome \/ outcome' # "ok") /\ md_done = {}
  BY DEF Open, Ended, IInv, Control
<1>2. /\ UNCHANGED <<opt, md_done, part, table, m_tables_with_data, caller, snapshot, current,
                     files, log, m_compatibility_status>>
      /\ UNCHANGED <<m_task, state, loads, executed>>
  BY DEF Open, unchangedByScan, workerVars, historyVars
<1>3. Ok' /\ outcome' # "ok"
  BY <1>1, NotOk
<1>4. Control'
  BY <1>1, <1>2, <1>3 DEF IInv, Control
<1>5. \A p \in Parts : Total(p)' = Total(p)
  BY <1>1, <1>2 DEF Total
<1>6. Tasks' /\ Counted' /\ Loads' /\ Indexes' /\ Analysis' /\ Order' /\ Checks'
  BY <1>2, <1>5, WorkKept
<1>7. Seen'
  BY <1>1, <1>2, SeenKept DEF IInv
<1>8. Types'
  BY <1>1, <1>2 DEF IInv, Types, Held, Phases
<1> QED
  BY <1>3, <1>4, <1>6, <1>7, <1>8 DEF IInv
-----------------------------------------------------------------------------
(***************************************************************************)
(* A scan.                                                                 *)
(***************************************************************************)

\* What a scan makes of a part.
Scanned(p, md, F) ==
  IF md_ready(md) /\ ~data_dumped(p) THEN rescan_data(part[p], p, F) ELSE part[p]

\* The listing may have more files than there were when it began, and has all
\* the chunks that are known.
LEMMA ScannedPart ==
  ASSUME Types, Seen, NEW p \in Parts, NEW md, NEW F, F \subseteq DumpFiles, IsFiniteSet(F),
         \A i \in 0 .. Available(part[p]) - 1 : ChunkFile(p, i, i = Chunks[p] - 1) \in F
  PROVE  LET s == Scanned(p, md, F) IN
         /\ s \in PartTypes
         /\ s.chunks_consumed = part[p].chunks_consumed
         /\ s.chunks_loaded = part[p].chunks_loaded
         /\ s.checksums = part[p].checksums
         /\ s.checksums_verified = part[p].checksums_verified
         /\ s.checksums_total = part[p].checksums_total
         /\ s.chunks_seen = Available(s)
         /\ Available(part[p]) <= Available(s) /\ Available(s) <= Chunks[p]
         /\ s.last_chunk_seen <=> has_data(p) /\ Available(s) = Chunks[p]
         /\ part[p].last_chunk_seen => s = part[p]
         /\ \A i \in 0 .. Available(s) - 1 : ChunkFile(p, i, i = Chunks[p] - 1) \in F
<1>1. part[p] \in PartTypes /\ part[p].last_chunk_seen \in BOOLEAN /\ Chunks[p] \in Nat
      /\ Available(part[p]) \in Nat
  BY ReaderAssumption DEF Types, PartTypes, Available
<1>2. /\ part[p].chunks_seen = Available(part[p])
      /\ Available(part[p]) <= Chunks[p]
      /\ part[p].last_chunk_seen <=> has_data(p) /\ Available(part[p]) = Chunks[p]
  BY DEF Seen
<1>3. CASE md_ready(md) /\ ~data_dumped(p)
  <2>1. has_data(p) /\ ~part[p].last_chunk_seen
    BY <1>2, <1>3 DEF data_dumped, all_chunks_are, Available
  <2>2. Available(part[p]) < Chunks[p]
    BY <1>1, <1>2, <2>1
  <2>3. PICK m \in Available(part[p]) .. Chunks[p] :
           /\ rescan_data(part[p], p, F) =
                [part[p] EXCEPT !.available_chunks = [i \in 1 .. m |-> TRUE],
                                !.chunks_seen = m, !.last_chunk_seen = (m = Chunks[p])]
           /\ \A i \in 0 .. m - 1 : ChunkFile(p, i, i = Chunks[p] - 1) \in F
    <3>1. \E m \in Available(part[p]) .. Chunks[p] :
           /\ rescan_data(part[p], p, F) =
                [part[p] EXCEPT !.available_chunks = [i \in 1 .. m |-> TRUE],
                                !.chunks_seen = m, !.last_chunk_seen = (m = Chunks[p])]
           /\ \A i \in 0 .. m - 1 : ChunkFile(p, i, i = Chunks[p] - 1) \in F
      <4>1. PICK d \in PartTypes : d = part[p]
        BY <1>1
      <4> QED
        BY <4>1, <2>1, <2>2, RescanData, Zenon
    <3> QED
      BY <3>1, Zenon
  <2>4. PICK s : s = Scanned(p, md, F)
    OBVIOUS
  <2>5. s = [part[p] EXCEPT !.available_chunks = [i \in 1 .. m |-> TRUE],
                            !.chunks_seen = m, !.last_chunk_seen = (m = Chunks[p])]
    BY <2>3, <2>4, <1>3, Zenon DEF Scanned
  <2>6. m \in Nat /\ [i \in 1 .. m |-> TRUE] \in Seq({TRUE}) /\ Len([i \in 1 .. m |-> TRUE]) = m
    BY <1>1
  <2>7. /\ s.available_chunks = [i \in 1 .. m |-> TRUE]
        /\ s.chunks_seen = m
        /\ s.chunks_consumed = part[p].chunks_consumed
        /\ s.chunks_loaded = part[p].chunks_loaded
        /\ s.checksums = part[p].checksums
        /\ s.checksums_verified = part[p].checksums_verified
        /\ s.checksums_total = part[p].checksums_total
    BY <2>5, <1>1 DEF PartTypes
  <2>8. s.last_chunk_seen = (m = Chunks[p])
    BY <2>5, <1>1, Zenon DEF PartTypes
  <2>9. Available(s) = m
    BY <2>6, <2>7 DEF Available
  <2>10. s \in PartTypes
    <3>1. (m = Chunks[p]) \in BOOLEAN
      OBVIOUS
    <3>2. PICK b \in BOOLEAN : b = (m = Chunks[p])
      BY <3>1
    <3>3. s = [part[p] EXCEPT !.available_chunks = [i \in 1 .. m |-> TRUE],
                              !.chunks_seen = m, !.last_chunk_seen = b]
      BY <2>5, <3>2, Zenon
    <3> QED
      BY <3>3, <2>6, <1>1 DEF PartTypes
  <2>11. Available(part[p]) <= Available(s) /\ Available(s) <= Chunks[p]
    BY <2>9, <1>1
  <2>12. s.last_chunk_seen <=> has_data(p) /\ Available(s) = Chunks[p]
    BY <2>1, <2>8, <2>9, Zenon
  <2>13. \A i \in 0 .. Available(s) - 1 : ChunkFile(p, i, i = Chunks[p] - 1) \in F
    BY <2>3, <2>9, Zenon
  <2> QED
    BY <2>1, <2>4, <2>7, <2>9, <2>10, <2>11, <2>12, <2>13, Zenon
<1>4. CASE ~(md_ready(md) /\ ~data_dumped(p))
  <2>1. Scanned(p, md, F) = part[p]
    BY <1>4 DEF Scanned
  <2> QED
    BY <2>1, <1>1, <1>2
<1> QED
  BY <1>3, <1>4

\* The part is still as it was, with more chunks, or with its checksums.
ScannedAs(p, F) ==
  /\ part'[p].chunks_consumed = part[p].chunks_consumed
  /\ part'[p].chunks_loaded = part[p].chunks_loaded
  /\ part'[p].checksums_verified = part[p].checksums_verified
  /\ part'[p].chunks_seen = Available(part'[p])
  /\ Available(part[p]) <= Available(part'[p]) /\ Available(part'[p]) <= Chunks[p]
  /\ part'[p].last_chunk_seen <=> has_data(p) /\ Available(part'[p]) = Chunks[p]
  /\ part[p].last_chunk_seen => part'[p].last_chunk_seen
                                  /\ Available(part'[p]) = Available(part[p])
  /\ \A i \in 0 .. Available(part'[p]) - 1 : ChunkFile(p, i, i = Chunks[p] - 1) \in F

\* Its checksums are read, once.
Reads(p, md, complete) ==
  complete /\ opt.checksum /\ Owner[p] \in md
    /\ (m_dump_status = "DUMPING" \/ Owner[p] \notin md_done)

LEMMA ListingFacts ==
  ASSUME IInv, FinishListing
  PROVE  \E F \in SUBSET files : \E md \in SUBSET Tables : \E complete \in BOOLEAN :
           /\ md_done \subseteq md
           /\ md_done' = md
           /\ (m_dump_status = "COMPLETE" => complete)
           /\ m_dump_status' = IF complete THEN "COMPLETE" ELSE m_dump_status
           /\ part' \in [Parts -> PartTypes]
           /\ \A p \in Parts : ScannedAs(p, F)
           /\ \A p \in Parts :
                IF Reads(p, md, complete)
                THEN part'[p].checksums = Checksums[p]
                       /\ part'[p].checksums_total = Checksums[p]
                ELSE part'[p].checksums = part[p].checksums
                       /\ part'[p].checksums_total = part[p].checksums_total
           /\ m_tables_with_data' = m_tables_with_data \cup
                {p \in Parts : Available(part'[p]) > Available(part[p])}
<1>1. PICK new \in SUBSET (files \ snapshot) : Rescan(snapshot \cup new)
  BY DEF FinishListing
<1>2. PICK F : F = snapshot \cup new
  OBVIOUS
<1>3. F \subseteq files /\ snapshot \subseteq F /\ F \subseteq DumpFiles
  BY <1>2 DEF IInv, Types
<1>4. IsFiniteSet(F)
  BY <1>3, FS_Subset DEF IInv, Types
<1>5. PICK md : md = md_done \cup {t \in Tables : MetadataFile(t) \in F}
  OBVIOUS
<1>6. md \in SUBSET Tables /\ md_done \subseteq md
  BY <1>5 DEF IInv, Types
<1>7. PICK complete \in BOOLEAN : complete = (m_dump_status = "COMPLETE" \/ DoneFile \in F)
  BY Zenon
<1>8. \A p \in Parts : \A i \in 0 .. Available(part[p]) - 1 :
        ChunkFile(p, i, i = Chunks[p] - 1) \in F
  BY <1>3 DEF IInv, Seen, FinishListing, ChunkFile
<1>9. /\ md_done' = md
      /\ part' = [p \in Parts |-> IF Reads(p, md, complete)
                                  THEN initialize_checksums(Scanned(p, md, F), p)
                                  ELSE Scanned(p, md, F)]
      /\ m_tables_with_data' = m_tables_with_data \cup
           {p \in Parts : Scanned(p, md, F).chunks_seen > part[p].chunks_seen}
      /\ m_dump_status' = IF complete THEN "COMPLETE" ELSE m_dump_status
  BY <1>1, <1>2, <1>5, <1>7, Zenon DEF Rescan, Scanned, Reads
<1>10. ASSUME NEW p \in Parts
       PROVE  LET s == Scanned(p, md, F) IN
         /\ s \in PartTypes
         /\ s.chunks_consumed = part[p].chunks_consumed
         /\ s.chunks_loaded = part[p].chunks_loaded
         /\ s.checksums = part[p].checksums
         /\ s.checksums_verified = part[p].checksums_verified
         /\ s.checksums_total = part[p].checksums_total
         /\ s.chunks_seen = Available(s)
         /\ Available(part[p]) <= Available(s) /\ Available(s) <= Chunks[p]
         /\ s.last_chunk_seen <=> has_data(p) /\ Available(s) = Chunks[p]
         /\ part[p].last_chunk_seen => s = part[p]
         /\ \A i \in 0 .. Available(s) - 1 : ChunkFile(p, i, i = Chunks[p] - 1) \in F
  BY <1>3, <1>4, <1>8, ScannedPart, Zenon DEF IInv
<1>11. ASSUME NEW p \in Parts
       PROVE  /\ part'[p] \in PartTypes
              /\ ScannedAs(p, F)
              /\ Available(part'[p]) = Scanned(p, md, F).chunks_seen
              /\ IF Reads(p, md, complete)
                 THEN part'[p].checksums = Checksums[p]
                        /\ part'[p].checksums_total = Checksums[p]
                 ELSE part'[p].checksums = part[p].checksums
                        /\ part'[p].checksums_total = part[p].checksums_total
  <2>1. PICK s : s = Scanned(p, md, F)
    OBVIOUS
  <2>2. /\ s \in PartTypes
        /\ s.chunks_consumed = part[p].chunks_consumed
        /\ s.chunks_loaded = part[p].chunks_loaded
        /\ s.checksums = part[p].checksums
        /\ s.checksums_verified = part[p].checksums_verified
        /\ s.checksums_total = part[p].checksums_total
        /\ s.chunks_seen = Available(s)
        /\ Available(part[p]) <= Available(s) /\ Available(s) <= Chunks[p]
        /\ s.last_chunk_seen <=> has_data(p) /\ Available(s) = Chunks[p]
        /\ part[p].last_chunk_seen => s = part[p]
        /\ \A i \in 0 .. Available(s) - 1 : ChunkFile(p, i, i = Chunks[p] - 1) \in F
    BY <1>10, <2>1, Zenon
  <2>3. part'[p] = IF Reads(p, md, complete) THEN initialize_checksums(s, p) ELSE s
    BY <1>9, <2>1, Zenon
  <2>4. Checksums[p] \in Nat
    BY ReaderAssumption
  <2>5. PICK d : d = part'[p]
    OBVIOUS
  <2>6. /\ d \in PartTypes
        /\ d.available_chunks = s.available_chunks
        /\ d.chunks_consumed = s.chunks_consumed
        /\ d.chunks_loaded = s.chunks_loaded
        /\ d.checksums_verified = s.checksums_verified
        /\ d.chunks_seen = s.chunks_seen
        /\ d.last_chunk_seen = s.last_chunk_seen
        /\ IF Reads(p, md, complete)
           THEN d.checksums = Checksums[p] /\ d.checksums_total = Checksums[p]
           ELSE d.checksums = s.checksums /\ d.checksums_total = s.checksums_total
    <3>1. CASE Reads(p, md, complete)
      <4>1. d = [s EXCEPT !.checksums = Checksums[p], !.checksums_total = Checksums[p]]
        BY <2>3, <2>5, <3>1 DEF initialize_checksums
      <4> QED
        BY <4>1, <3>1, <2>2, <2>4 DEF PartTypes
    <3>2. CASE ~Reads(p, md, complete)
      BY <2>2, <2>3, <2>5, <3>2
    <3> QED
      BY <3>1, <3>2
  <2>7. Available(d) = Available(s)
    BY <2>6 DEF Available
  <2>8. ScannedAs(p, F)
    BY <2>2, <2>5, <2>6, <2>7, Zenon DEF ScannedAs
  <2> QED
    BY <2>1, <2>2, <2>5, <2>6, <2>7, <2>8, Zenon
<1>12. part' \in [Parts -> PartTypes]
  <2>1. part' = [p \in Parts |-> part'[p]]
    BY <1>9, Zenon
  <2> QED
    BY <1>11, <2>1
<1>13. m_tables_with_data' = m_tables_with_data \cup
         {p \in Parts : Available(part'[p]) > Available(part[p])}
  <2>1. \A p \in Parts : part[p].chunks_seen = Available(part[p])
    BY DEF IInv, Seen
  <2>2. \A p \in Parts : Scanned(p, md, F).chunks_seen > part[p].chunks_seen
                           <=> Available(part'[p]) > Available(part[p])
    BY <1>11, <2>1, Zenon
  <2> QED
    BY <1>9, <2>2, Zenon
<1>14. m_dump_status = "COMPLETE" => complete
  BY <1>7
<1> QED
  BY <1>3, <1>6, <1>9, <1>11, <1>12, <1>13, <1>14, Zenon

LEMMA FinishListingStep ==
  ASSUME IInv, FinishListing
  PROVE  IInv'
<1>1. PICK F \in SUBSET files : \E md \in SUBSET Tables : \E complete \in BOOLEAN :
           /\ md_done \subseteq md
           /\ md_done' = md
           /\ (m_dump_status = "COMPLETE" => complete)
           /\ m_dump_status' = IF complete THEN "COMPLETE" ELSE m_dump_status
           /\ part' \in [Parts -> PartTypes]
           /\ \A p \in Parts : ScannedAs(p, F)
           /\ \A p \in Parts :
                IF Reads(p, md, complete)
                THEN part'[p].checksums = Checksums[p]
                       /\ part'[p].checksums_total = Checksums[p]
                ELSE part'[p].checksums = part[p].checksums
                       /\ part'[p].checksums_total = part[p].checksums_total
           /\ m_tables_with_data' = m_tables_with_data \cup
                {p \in Parts : Available(part'[p]) > Available(part[p])}
  BY ListingFacts, Zenon
<1>2. PICK md \in SUBSET Tables, complete \in BOOLEAN :
           /\ md_done \subseteq md
           /\ md_done' = md
           /\ (m_dump_status = "COMPLETE" => complete)
           /\ m_dump_status' = IF complete THEN "COMPLETE" ELSE m_dump_status
           /\ part' \in [Parts -> PartTypes]
           /\ \A p \in Parts : ScannedAs(p, F)
           /\ \A p \in Parts :
                IF Reads(p, md, complete)
                THEN part'[p].checksums = Checksums[p]
                       /\ part'[p].checksums_total = Checksums[p]
                ELSE part'[p].checksums = part[p].checksums
                       /\ part'[p].checksums_total = part[p].checksums_total
           /\ m_tables_with_data' = m_tables_with_data \cup
                {p \in Parts : Available(part'[p]) > Available(part[p])}
  BY <1>1, Zenon
<1>3. /\ pc = "listing" /\ pc' = "scanned" /\ snapshot' = {}
      /\ UNCHANGED <<opt, table, caller, current, outcome, m_task, state, loads, executed,
                     files, log, m_compatibility_status>>
  BY DEF FinishListing, unchangedByScan, workerVars, historyVars, Rescan
<1>4. \A w \in Workers : \A type, of : Holds(w, type, of)' <=> Holds(w, type, of)
  BY <1>3 DEF Holds, Held
<1>5. \A t : Runs(t)' <=> Runs(t)
  BY <1>3 DEF Runs
<1>6. Types'
  <2>1. m_dump_status' \in {"DUMPING", "COMPLETE"} /\ md_done' \subseteq Tables
        /\ part' \in [Parts -> PartTypes] /\ m_tables_with_data' \subseteq Parts
    BY <1>2 DEF IInv, Types
  <2> QED
    BY <1>3, <2>1 DEF IInv, Types, Held, Phases
<1>7. Control'
  BY <1>2, <1>3 DEF IInv, Control, Types
<1>8. Seen'
  <2> SUFFICES ASSUME NEW p \in Parts
               PROVE  /\ Seen!(p)!1' /\ Seen!(p)!2' /\ Seen!(p)!3' /\ Seen!(p)!4'
                      /\ Seen!(p)!5' /\ Seen!(p)!6'
    BY DEF Seen
  <2>1. ScannedAs(p, F)
    BY <1>2
  <2>2. Seen!(p)!1' /\ Seen!(p)!2' /\ Seen!(p)!3'
    BY <2>1 DEF ScannedAs, has_data, Available
  <2>3. Available(part[p]) \in Nat /\ Available(part'[p]) \in Nat
        /\ part[p].chunks_consumed \in Nat
    BY <1>2 DEF Available, IInv, Types, PartTypes
  <2>4. part[p].chunks_consumed <= Available(part[p])
        /\ (p \in m_tables_with_data => part[p].chunks_consumed < Available(part[p]))
    BY DEF IInv, Seen
  <2>5. part'[p].chunks_consumed = part[p].chunks_consumed
        /\ Available(part[p]) <= Available(part'[p])
    BY <2>1 DEF ScannedAs
  <2>6. p \in m_tables_with_data' =>
          p \in m_tables_with_data \/ Available(part'[p]) > Available(part[p])
    BY <1>2
  <2>7. Seen!(p)!4'
    BY <2>3, <2>4, <2>5 DEF Available
  <2>8. Seen!(p)!5'
    BY <2>3, <2>4, <2>5, <2>6 DEF Available
  <2>9. \A i \in 0 .. Available(part'[p]) - 1 : ChunkFile(p, i, i = Chunks[p] - 1) \in F
    BY <2>1, Zenon DEF ScannedAs
  <2>10. Seen!(p)!6'
    BY <2>9, <1>3 DEF ChunkFile, Available
  <2> QED
    BY <2>2, <2>7, <2>8, <2>10
<1>9. Tasks'
  <2>1. \A w \in Workers : \A p \in Parts : \A i : Covers(w, p, i)' <=> Covers(w, p, i)
    BY <1>3, <1>4 DEF Covers
  <2>2. \A p \in Parts : /\ part'[p].chunks_consumed = part[p].chunks_consumed
                         /\ part[p].last_chunk_seen =>
                              /\ part'[p].last_chunk_seen
                              /\ Available(part'[p]) = Available(part[p])
    BY <1>2 DEF ScannedAs
  <2> QED
    BY <1>3, <1>4, <2>1, <2>2 DEF IInv, Tasks, ChunksOf
<1>10. Counted'
  <2>1. \A p \in Parts : LoadersOf(p)' = LoadersOf(p) /\ (Bulk(p)' <=> Bulk(p))
    BY <1>4 DEF LoadersOf, Bulk
  <2>2. \A p \in Parts : /\ part'[p].chunks_consumed = part[p].chunks_consumed
                         /\ part'[p].chunks_loaded = part[p].chunks_loaded
    BY <1>2 DEF ScannedAs
  <2> QED
    BY <1>3, <2>1, <2>2 DEF IInv, Counted
<1>11. Loads'
  <2>1. \A w \in Workers : \A p \in Parts : \A i : Covers(w, p, i)' <=> Covers(w, p, i)
    BY <1>3, <1>4 DEF Covers
  <2>2. \A p \in Parts : part'[p].chunks_consumed = part[p].chunks_consumed
    BY <1>2 DEF ScannedAs
  <2> QED
    BY <1>3, <2>1, <2>2 DEF IInv, Loads, ChunksOf, InLog
<1>12. Indexes' /\ Analysis' /\ Order'
  BY <1>3, <1>4, <1>5, OthersKept DEF IInv
<1>13. Checks'
  <2> SUFFICES ASSUME NEW p \in Parts
               PROVE  Checks!(p)!1' /\ Checks!(p)!2' /\ Checks!(p)!3'
    BY DEF Checks
  <2>1. Checks!(p)!1 /\ Checks!(p)!2 /\ Checks!(p)!3
    BY DEF IInv, Checks
  <2>2. VerifiersOf(p)' = VerifiersOf(p)
    BY <1>4 DEF VerifiersOf
  <2>3. Cardinality(VerifiersOf(p)) \in Nat
    BY FS_Subset, FS_CardinalityType, ScheduleAssumption DEF VerifiersOf
  <2>4. part[p].checksums \in Nat /\ part[p].checksums_verified \in Nat
        /\ Checksums[p] \in Nat
    BY ReaderAssumption DEF IInv, Types, PartTypes
  <2>5. part'[p].checksums_verified = part[p].checksums_verified
    BY <1>2 DEF ScannedAs
  <2>6. CASE Reads(p, md, complete)
    <3>1. Total(p) = 0 /\ Total(p)' = Checksums[p]
      BY <2>6, <1>2, <1>3 DEF Reads, Total, IInv, Types
    <3>2. part'[p].checksums = Checksums[p] /\ part'[p].checksums_total = Checksums[p]
      BY <1>2, <2>6
    <3>3. part[p].checksums_verified = 0 /\ Cardinality(VerifiersOf(p)) = 0
      BY <2>1, <2>3, <2>4, <3>1
    <3>4. Checks!(p)!1' /\ Checks!(p)!2'
      BY <2>2, <2>4, <2>5, <3>1, <3>2, <3>3
    <3>5. Checks!(p)!3'
      BY <2>4, <3>2
    <3> QED
      BY <3>4, <3>5
  <2>7. CASE ~Reads(p, md, complete)
    <3>1. Total(p)' = Total(p)
      BY <2>7, <1>2, <1>3 DEF Reads, Total, IInv, Types
    <3>2. part'[p].checksums = part[p].checksums
          /\ part'[p].checksums_total = part[p].checksums_total
      BY <1>2, <2>7
    <3>3. Checks!(p)!1' /\ Checks!(p)!2'
      BY <2>1, <2>2, <2>5, <3>1, <3>2
    <3>4. \A k : Runs(Task("checksum", p, k))' <=> Runs(Task("checksum", p, k))
      BY <1>5
    <3>5. table_exists(Owner[p])' <=> table_exists(Owner[p])
      BY <1>3 DEF table_exists
    <3>6. Checks!(p)!3'
      BY <2>1, <3>2, <3>4, <3>5 DEF Task
    <3> QED
      BY <3>3, <3>6
  <2> QED
    BY <2>6, <2>7
<1>14. Ok'
  BY <1>3, NotOk
<1> QED
  BY <1>6, <1>7, <1>8, <1>9, <1>10, <1>11, <1>12, <1>13, <1>14 DEF IInv
-----------------------------------------------------------------------------
(***************************************************************************)
(* Tasks are assigned, executed and taken back.                            *)
(***************************************************************************)

TaskMap == [Workers -> TaskTypes \cup {None}]
StateMap == [Workers -> {"ready", "idle", "busy", "ended"}]

LEMMA TaskFields ==
  \A type, of, index : /\ Task(type, of, index).type = type
                       /\ Task(type, of, index).of = of
                       /\ Task(type, of, index).index = index
BY DEF Task

LEMMA Assigned ==
  ASSUME Types, current \in Workers, state[current] = "ready",
         NEW task \in TaskTypes, Assign(task)
  PROVE  /\ pc' = "events"
         /\ m_task' \in TaskMap /\ state' \in StateMap
         /\ \A w \in Workers : Held(w)' => m_task'[w] \in TaskTypes
         /\ \A w \in Workers : /\ state'[w] = "busy" <=> (state[w] = "busy" \/ w = current)
                               /\ state'[w] = "ended" <=> state[w] = "ended"
         /\ m_task'[current] = task
         /\ \A w \in Workers : w # current => m_task'[w] = m_task[w]
         /\ \A w \in Workers : \A type, of :
              Holds(w, type, of)' <=> IF w = current THEN task.type = type /\ task.of = of
                                                     ELSE Holds(w, type, of)
         /\ \A type, of : ~Holds(current, type, of)
<1>1. /\ pc' = "events"
      /\ m_task' = [m_task EXCEPT ![current] = task]
      /\ state' = [w \in Workers |-> IF w = current THEN "busy"
                                     ELSE IF state[w] = "idle" THEN "ready"
                                     ELSE state[w]]
  BY DEF Assign
<1>2. m_task' \in TaskMap /\ state' \in StateMap
  BY <1>1 DEF Types, TaskMap, StateMap
<1>3. \A w \in Workers : /\ state'[w] = "busy" <=> (state[w] = "busy" \/ w = current)
                         /\ state'[w] = "ended" <=> state[w] = "ended"
  BY <1>1 DEF Types
<1>4. m_task'[current] = task /\ \A w \in Workers : w # current => m_task'[w] = m_task[w]
  BY <1>1 DEF Types
<1>5. \A w \in Workers : Held(w)' <=> Held(w) \/ w = current
  BY <1>3 DEF Held
<1>6. \A w \in Workers : \A type, of :
        Holds(w, type, of)' <=> IF w = current THEN task.type = type /\ task.of = of
                                               ELSE Holds(w, type, of)
  BY <1>4, <1>5 DEF Holds
<1>7. \A w \in Workers : Held(w)' => m_task'[w] \in TaskTypes
  BY <1>4, <1>5 DEF Types
<1>8. \A type, of : ~Holds(current, type, of)
  BY DEF Holds, Held
<1> QED
  BY <1>1, <1>2, <1>3, <1>4, <1>6, <1>7, <1>8

LEMMA Released ==
  ASSUME Types, NEW v \in Workers, state[v] = "ended",
         state' = [state EXCEPT ![v] = "ready"], m_task' = [m_task EXCEPT ![v] = None]
  PROVE  /\ m_task' \in TaskMap /\ state' \in StateMap
         /\ \A w \in Workers : Held(w)' => m_task'[w] \in TaskTypes
         /\ \A w \in Workers : /\ state'[w] = "busy" <=> state[w] = "busy"
                               /\ state'[w] = "ended" <=> (state[w] = "ended" /\ w # v)
         /\ \A w \in Workers : w # v => m_task'[w] = m_task[w]
         /\ \A w \in Workers : \A type, of :
              Holds(w, type, of)' <=> w # v /\ Holds(w, type, of)
         /\ \A t : Runs(t) /\ UNCHANGED executed => Runs(t)'
<1>1. m_task' \in TaskMap /\ state' \in StateMap
  BY DEF Types, TaskMap, StateMap
<1>2. \A w \in Workers : /\ state'[w] = "busy" <=> state[w] = "busy"
                         /\ state'[w] = "ended" <=> (state[w] = "ended" /\ w # v)
  BY DEF Types
<1>3. \A w \in Workers : w # v => m_task'[w] = m_task[w]
  BY DEF Types
<1>4. \A w \in Workers : Held(w)' <=> Held(w) /\ w # v
  BY <1>2 DEF Held
<1>5. \A w \in Workers : Held(w)' => m_task'[w] \in TaskTypes
  BY <1>3, <1>4 DEF Types
<1>6. \A w \in Workers : \A type, of :
        Holds(w, type, of)' <=> w # v /\ Holds(w, type, of)
  BY <1>3, <1>4 DEF Holds
<1>7. \A t : Runs(t) /\ UNCHANGED executed => Runs(t)'
  BY <1>2, <1>3 DEF Runs
<1> QED
  BY <1>1, <1>2, <1>3, <1>5, <1>6, <1>7

LEMMA Executed ==
  ASSUME Types, NEW v \in Workers, state[v] = "busy",
         state' = [state EXCEPT ![v] = "ended"], UNCHANGED m_task
  PROVE  /\ state' \in StateMap
         /\ \A w \in Workers : Held(w)' <=> Held(w)
         /\ \A w \in Workers : /\ state'[w] = "busy" <=> (state[w] = "busy" /\ w # v)
                               /\ state'[w] = "ended" <=> (state[w] = "ended" \/ w = v)
         /\ \A w \in Workers : \A type, of : Holds(w, type, of)' <=> Holds(w, type, of)
<1>1. state' \in StateMap
  BY DEF Types, StateMap
<1>2. \A w \in Workers : /\ state'[w] = "busy" <=> (state[w] = "busy" /\ w # v)
                         /\ state'[w] = "ended" <=> (state[w] = "ended" \/ w = v)
  BY DEF Types
<1>3. \A w \in Workers : Held(w)' <=> Held(w)
  BY <1>2 DEF Held
<1>4. \A w \in Workers : \A type, of : Holds(w, type, of)' <=> Holds(w, type, of)
  BY <1>3 DEF Holds
<1> QED
  BY <1>1, <1>2, <1>3, <1>4

\* Nothing is known of chunks but what was consumed, and who loads them.
LEMMA LoadsKept ==
  ASSUME Loads, UNCHANGED <<opt, log, loads, m_compatibility_status>>,
         \A p \in Parts : part'[p].chunks_consumed = part[p].chunks_consumed,
         \A w \in Workers : \A p \in Parts : \A i \in ChunksOf(p) :
           (state'[w] = "busy" /\ Covers(w, p, i)') <=> (state[w] = "busy" /\ Covers(w, p, i))
  PROVE  Loads'
<1>1. \A p \in Parts : \A i : InLog(p, i)' <=> InLog(p, i)
  BY DEF InLog
<1> QED
  BY <1>1 DEF Loads, ChunksOf

LEMMA FiniteHolders ==
  ASSUME NEW p
  PROVE  /\ IsFiniteSet(LoadersOf(p)) /\ Cardinality(LoadersOf(p)) \in Nat
         /\ IsFiniteSet(VerifiersOf(p)) /\ Cardinality(VerifiersOf(p)) \in Nat
BY FS_Subset, FS_CardinalityType, ScheduleAssumption DEF LoadersOf, VerifiersOf

\* What all the cases of HandleEnd() have in common.
LEMMA HandleEndFacts ==
  ASSUME IInv, NEW v \in Workers, HandleEnd(v)
  PROVE  /\ pc = "events" /\ state[v] = "ended" /\ Held(v) /\ m_task[v] \in TaskTypes
         /\ UNCHANGED <<opt, m_dump_status, md_done, m_tables_with_data, pc, caller, snapshot,
                        current, outcome, loads, executed, files, log, m_compatibility_status>>
         /\ state' = [state EXCEPT ![v] = "ready"] /\ m_task' = [m_task EXCEPT ![v] = None]
         /\ Control' /\ Ok'
<1>1. /\ pc = "events" /\ state[v] = "ended" /\ Held(v) /\ m_task[v] \in TaskTypes
      /\ UNCHANGED <<opt, m_dump_status, md_done, m_tables_with_data, pc, caller, snapshot,
                     current, outcome, loads, executed, files, log, m_compatibility_status>>
      /\ state' = [state EXCEPT ![v] = "ready"] /\ m_task' = [m_task EXCEPT ![v] = None]
  BY DEF HandleEnd, mainVars, historyVars, IInv, Types, Held
<1>2. Control'
  BY <1>1 DEF IInv, Control
<1>3. Ok'
  BY <1>1, NotOk
<1> QED
  BY <1>1, <1>2, <1>3

LEMMA HandleChunkEnd ==
  ASSUME IInv, NEW v \in Workers, HandleEnd(v), m_task[v].type = "chunk"
  PROVE  IInv'
<1>1. /\ pc = "events" /\ state[v] = "ended" /\ Held(v) /\ m_task[v] \in TaskTypes
      /\ UNCHANGED <<opt, m_dump_status, md_done, m_tables_with_data, pc, caller, snapshot,
                     current, outcome, loads, executed, files, log, m_compatibility_status>>
      /\ state' = [state EXCEPT ![v] = "ready"] /\ m_task' = [m_task EXCEPT ![v] = None]
      /\ Control' /\ Ok'
  BY HandleEndFacts
<1>2. PICK q \in Parts : q = m_task[v].of
  BY <1>1 DEF TaskTypes
<1>3. part' = [part EXCEPT ![q].chunks_loaded = @ + 1] /\ table' = table
  BY <1>2 DEF HandleEnd
<1>4. /\ m_task' \in TaskMap /\ state' \in StateMap
      /\ \A w \in Workers : Held(w)' => m_task'[w] \in TaskTypes
      /\ \A w \in Workers : /\ state'[w] = "busy" <=> state[w] = "busy"
                            /\ state'[w] = "ended" <=> (state[w] = "ended" /\ w # v)
      /\ \A w \in Workers : w # v => m_task'[w] = m_task[w]
      /\ \A w \in Workers : \A type, of : Holds(w, type, of)' <=> w # v /\ Holds(w, type, of)
      /\ \A t : Runs(t) /\ UNCHANGED executed => Runs(t)'
  BY <1>1, Released DEF IInv
<1>5. \A type, of : Holds(v, type, of) <=> type = "chunk" /\ of = q
  BY <1>1, <1>2 DEF Holds
<1>6. /\ part' \in [Parts -> PartTypes]
      /\ \A p \in Parts :
           /\ part'[p].available_chunks = part[p].available_chunks
           /\ part'[p].chunks_seen = part[p].chunks_seen
           /\ part'[p].last_chunk_seen = part[p].last_chunk_seen
           /\ part'[p].chunks_consumed = part[p].chunks_consumed
           /\ part'[p].checksums = part[p].checksums
           /\ part'[p].checksums_verified = part[p].checksums_verified
           /\ part'[p].checksums_total = part[p].checksums_total
           /\ p # q => part'[p].chunks_loaded = part[p].chunks_loaded
      /\ part'[q].chunks_loaded = part[q].chunks_loaded + 1
  <2>1. PICK d \in PartTypes : d = part[q]
    BY DEF IInv, Types
  <2>2. PICK e : e = [d EXCEPT !.chunks_loaded = @ + 1]
    OBVIOUS
  <2>3. /\ e \in PartTypes
        /\ e.available_chunks = d.available_chunks /\ e.chunks_seen = d.chunks_seen
        /\ e.last_chunk_seen = d.last_chunk_seen /\ e.chunks_consumed = d.chunks_consumed
        /\ e.checksums = d.checksums /\ e.checksums_verified = d.checksums_verified
        /\ e.checksums_total = d.checksums_total /\ e.chunks_loaded = d.chunks_loaded + 1
    BY <2>2 DEF PartTypes
  <2>4. part' = [part EXCEPT ![q] = e] /\ part \in [Parts -> PartTypes]
    BY <1>3, <2>1, <2>2, Zenon DEF IInv, Types
  <2> QED
    BY <2>1, <2>3, <2>4
<1>7. Types'
  BY <1>1, <1>3, <1>4, <1>6 DEF IInv, Types, TaskMap, StateMap
<1>8. Seen'
  BY <1>1, <1>6, SeenKept DEF IInv
<1>9. \A w \in Workers : \A p \in Parts : \A i : Covers(w, p, i)' <=> w # v /\ Covers(w, p, i)
  BY <1>4 DEF Covers
<1>10. Tasks'
  <2>1. \A p \in Parts : Available(part'[p]) = Available(part[p])
    BY <1>6 DEF Available
  <2> QED
    BY <1>1, <1>4, <1>6, <1>9, <2>1 DEF IInv, Tasks, ChunksOf
<1>11. Counted'
  <2> SUFFICES ASSUME opt.load_data, NEW p \in Parts
               PROVE  Counted!2!(p)'
    BY <1>1 DEF Counted
  <2>1. Counted!2!(p)
    BY DEF IInv, Counted
  <2>2. CASE p # q
    <3>1. LoadersOf(p)' = LoadersOf(p) /\ (Bulk(p)' <=> Bulk(p))
      BY <1>4, <1>5, <2>2 DEF LoadersOf, Bulk
    <3> QED
      BY <2>1, <2>2, <3>1, <1>6
  <2>3. CASE p = q
    <3>1. v \in LoadersOf(p)
      BY <1>5, <2>3 DEF LoadersOf
    <3>2. ~Bulk(p)
      BY <2>1, <3>1
    <3>3. ~Bulk(p)'
      BY <1>4, <3>2 DEF Bulk
    <3>4. LoadersOf(p)' = LoadersOf(p) \ {v}
      BY <1>4 DEF LoadersOf
    <3>5. Cardinality(LoadersOf(p)') = Cardinality(LoadersOf(p)) - 1
      BY <3>1, <3>4, FiniteHolders, FS_RemoveElement
    <3>6. part[p].chunks_loaded \in Nat /\ Cardinality(LoadersOf(p)) \in Nat
      BY FiniteHolders DEF IInv, Types, PartTypes
    <3> QED
      BY <2>1, <2>3, <3>2, <3>3, <3>5, <3>6, <1>6
  <2> QED
    BY <2>2, <2>3
<1>12. Loads'
  BY <1>1, <1>4, <1>6, <1>9, LoadsKept DEF IInv
<1>13. Indexes' /\ Analysis' /\ Order'
  BY <1>1, <1>3, <1>4, <1>5, OthersKept DEF IInv
<1>14. Checks'
  <2>1. \A p \in Parts : Total(p)' = Total(p)
    BY <1>1 DEF Total
  <2> QED
    BY <1>1, <1>4, <1>5, <1>6, <2>1, ChecksKept DEF IInv
<1> QED
  BY <1>1, <1>7, <1>8, <1>10, <1>11, <1>12, <1>13, <1>14 DEF IInv

LEMMA HandleBulkEnd ==
  ASSUME IInv, NEW v \in Workers, HandleEnd(v), m_task[v].type = "bulk"
  PROVE  IInv'
<1>1. /\ pc = "events" /\ state[v] = "ended" /\ Held(v) /\ m_task[v] \in TaskTypes
      /\ UNCHANGED <<opt, m_dump_status, md_done, m_tables_with_data, pc, caller, snapshot,
                     current, outcome, loads, executed, files, log, m_compatibility_status>>
      /\ state' = [state EXCEPT ![v] = "ready"] /\ m_task' = [m_task EXCEPT ![v] = None]
      /\ Control' /\ Ok'
  BY HandleEndFacts
<1>2. PICK q \in Parts : q = m_task[v].of
  BY <1>1 DEF TaskTypes
<1>3. part' = [part EXCEPT ![q].chunks_loaded = Len(part[q].available_chunks)]
      /\ table' = table
  BY <1>2 DEF HandleEnd
<1>4. /\ m_task' \in TaskMap /\ state' \in StateMap
      /\ \A w \in Workers : Held(w)' => m_task'[w] \in TaskTypes
      /\ \A w \in Workers : /\ state'[w] = "busy" <=> state[w] = "busy"
                            /\ state'[w] = "ended" <=> (state[w] = "ended" /\ w # v)
      /\ \A w \in Workers : w # v => m_task'[w] = m_task[w]
      /\ \A w \in Workers : \A type, of : Holds(w, type, of)' <=> w # v /\ Holds(w, type, of)
      /\ \A t : Runs(t) /\ UNCHANGED executed => Runs(t)'
  BY <1>1, Released DEF IInv
<1>5. \A type, of : Holds(v, type, of) <=> type = "bulk" /\ of = q
  BY <1>1, <1>2 DEF Holds
<1>6. /\ part' \in [Parts -> PartTypes]
      /\ \A p \in Parts :
           /\ part'[p].available_chunks = part[p].available_chunks
           /\ part'[p].chunks_seen = part[p].chunks_seen
           /\ part'[p].last_chunk_seen = part[p].last_chunk_seen
           /\ part'[p].chunks_consumed = part[p].chunks_consumed
           /\ part'[p].checksums = part[p].checksums
           /\ part'[p].checksums_verified = part[p].checksums_verified
           /\ part'[p].checksums_total = part[p].checksums_total
           /\ p # q => part'[p].chunks_loaded = part[p].chunks_loaded
      /\ part'[q].chunks_loaded = Available(part[q])
  <2>1. PICK d \in PartTypes : d = part[q]
    BY DEF IInv, Types
  <2>2. PICK n \in Nat : n = Len(d.available_chunks)
    BY DEF PartTypes
  <2>3. PICK e : e = [d EXCEPT !.chunks_loaded = n]
    OBVIOUS
  <2>4. /\ e \in PartTypes
        /\ e.available_chunks = d.available_chunks /\ e.chunks_seen = d.chunks_seen
        /\ e.last_chunk_seen = d.last_chunk_seen /\ e.chunks_consumed = d.chunks_consumed
        /\ e.checksums = d.checksums /\ e.checksums_verified = d.checksums_verified
        /\ e.checksums_total = d.checksums_total /\ e.chunks_loaded = n
    BY <2>3 DEF PartTypes
  <2>5. part' = [part EXCEPT ![q] = e] /\ part \in [Parts -> PartTypes]
    BY <1>3, <2>1, <2>2, <2>3, Zenon DEF IInv, Types
  <2>6. n = Available(part[q])
    BY <2>1, <2>2 DEF Available
  <2> QED
    BY <2>1, <2>4, <2>5, <2>6
<1>7. Types'
  BY <1>1, <1>3, <1>4, <1>6 DEF IInv, Types, TaskMap, StateMap
<1>8. Seen'
  BY <1>1, <1>6, SeenKept DEF IInv
<1>9. \A w \in Workers : \A p \in Parts : \A i : Covers(w, p, i)' <=> w # v /\ Covers(w, p, i)
  BY <1>4 DEF Covers
<1>10. Tasks'
  <2>1. \A p \in Parts : Available(part'[p]) = Available(part[p])
    BY <1>6 DEF Available
  <2> QED
    BY <1>1, <1>4, <1>6, <1>9, <2>1 DEF IInv, Tasks, ChunksOf
<1>11. Counted'
  <2> SUFFICES ASSUME opt.load_data, NEW p \in Parts
               PROVE  Counted!2!(p)'
    BY <1>1 DEF Counted
  <2>1. Counted!2!(p)
    BY DEF IInv, Counted
  <2>2. CASE p # q
    <3>1. LoadersOf(p)' = LoadersOf(p) /\ (Bulk(p)' <=> Bulk(p))
      BY <1>4, <1>5, <2>2 DEF LoadersOf, Bulk
    <3> QED
      BY <2>1, <2>2, <3>1, <1>6
  <2>3. CASE p = q
    <3>1. Holds(v, "bulk", p) /\ Bulk(p)
      BY <1>5, <2>3 DEF Bulk
    <3>2. has_data(p) /\ part[p].chunks_consumed = Available(part[p])
      BY <3>1 DEF IInv, Tasks
    <3>3. 0 \in ChunksOf(p)
      BY <3>2, ReaderAssumption DEF has_data, ChunksOf
    <3>4. \A w \in Workers : Holds(w, "bulk", p) => w = v
      BY <3>1, <3>3 DEF IInv, Tasks, Covers
    <3>5. ~Bulk(p)'
      BY <1>4, <3>4 DEF Bulk
    <3>6. LoadersOf(p)' = {}
      BY <1>4, <2>1, <3>1 DEF LoadersOf
    <3>7. Cardinality(LoadersOf(p)') = 0
      BY <3>6, FS_EmptySet
    <3>8. part[p].chunks_consumed \in Nat
      BY DEF IInv, Types, PartTypes
    <3> QED
      BY <2>3, <3>2, <3>5, <3>7, <3>8, <1>6
  <2> QED
    BY <2>2, <2>3
<1>12. Loads'
  BY <1>1, <1>4, <1>6, <1>9, LoadsKept DEF IInv
<1>13. Indexes' /\ Analysis' /\ Order'
  BY <1>1, <1>3, <1>4, <1>5, OthersKept DEF IInv
<1>14. Checks'
  <2>1. \A p \in Parts : Total(p)' = Total(p)
    BY <1>1 DEF Total
  <2> QED
    BY <1>1, <1>4, <1>5, <1>6, <2>1, ChecksKept DEF IInv
<1> QED
  BY <1>1, <1>7, <1>8, <1>10, <1>11, <1>12, <1>13, <1>14 DEF IInv

LEMMA HandleIndexEnd ==
  ASSUME IInv, NEW v \in Workers, HandleEnd(v), m_task[v].type = "index"
  PROVE  IInv'
<1>1. /\ pc = "events" /\ state[v] = "ended" /\ Held(v) /\ m_task[v] \in TaskTypes
      /\ UNCHANGED <<opt, m_dump_status, md_done, m_tables_with_data, pc, caller, snapshot,
                     current, outcome, loads, executed, files, log, m_compatibility_status>>
      /\ state' = [state EXCEPT ![v] = "ready"] /\ m_task' = [m_task EXCEPT ![v] = None]
      /\ Control' /\ Ok'
  BY HandleEndFacts
<1>2. PICK u \in Tables : u = m_task[v].of
  BY <1>1 DEF TaskTypes
<1>3. table' = [table EXCEPT ![u].indexes_created = TRUE] /\ part' = part
  BY <1>2 DEF HandleEnd
<1>4. /\ m_task' \in TaskMap /\ state' \in StateMap
      /\ \A w \in Workers : Held(w)' => m_task'[w] \in TaskTypes
      /\ \A w \in Workers : /\ state'[w] = "busy" <=> state[w] = "busy"
                            /\ state'[w] = "ended" <=> (state[w] = "ended" /\ w # v)
      /\ \A w \in Workers : w # v => m_task'[w] = m_task[w]
      /\ \A w \in Workers : \A type, of : Holds(w, type, of)' <=> w # v /\ Holds(w, type, of)
      /\ \A t : Runs(t) /\ UNCHANGED executed => Runs(t)'
  BY <1>1, Released DEF IInv
<1>5. \A type, of : Holds(v, type, of) <=> type = "index" /\ of = u
  BY <1>1, <1>2 DEF Holds
<1>6. /\ table' \in [Tables -> TableTypes]
      /\ \A t \in Tables :
           /\ table'[t].indexes_scheduled = table[t].indexes_scheduled
           /\ table'[t].indexes_created <=> (table[t].indexes_created \/ t = u)
           /\ table'[t].analyze_scheduled = table[t].analyze_scheduled
           /\ table'[t].analyze_finished = table[t].analyze_finished
  <2>1. table \in [Tables -> TableTypes]
    BY DEF IInv, Types
  <2>2. table' = [table EXCEPT ![u].indexes_created = TRUE]
    BY <1>3
  <2>3. ASSUME NEW t \in Tables
        PROVE  /\ table'[t] \in TableTypes
               /\ \A f \in {"indexes_scheduled", "indexes_created",
                            "analyze_scheduled", "analyze_finished"} :
                    table'[t][f] = IF t = u /\ f = "indexes_created" THEN TRUE ELSE table[t][f]
    <3>1. table[t] \in TableTypes
      BY <2>1
    <3>2. CASE t = u
      <4>1. table'[t] = [table[t] EXCEPT !.indexes_created = TRUE]
        BY <2>1, <2>2, <3>2
      <4> QED
        BY <3>1, <3>2, <4>1 DEF TableTypes
    <3>3. CASE t # u
      <4>1. table'[t] = table[t]
        BY <2>1, <2>2, <3>3
      <4> QED
        BY <3>1, <3>3, <4>1
    <3> QED
      BY <3>2, <3>3
  <2>4. table' \in [Tables -> TableTypes]
    BY <2>1, <2>2, <2>3
  <2> QED
    BY <2>1, <2>3, <2>4 DEF TableTypes
<1>7. Types'
  BY <1>1, <1>3, <1>4, <1>6 DEF IInv, Types, TaskMap, StateMap
<1>8. Seen'
  BY <1>1, <1>3, SeenKept DEF IInv
<1>9. Tasks' /\ Counted' /\ Loads'
  BY <1>1, <1>3, <1>4, <1>5, LoadKept DEF IInv
<1>10. Indexes'
  <2>1. Task("index", u, 0) \in executed
    BY <1>1, <1>5 DEF IInv, Order
  <2>2. \A t : Runs(Task("index", t, 0)) => Runs(Task("index", t, 0))'
    BY <1>1, <1>4
  <2> QED
    BY <1>1, <1>6, <2>1, <2>2 DEF IInv, Indexes, Task
<1>11. Analysis'
  <2>1. \A t : Runs(Task("analyze", t, 0)) => Runs(Task("analyze", t, 0))'
    BY <1>1, <1>4
  <2> QED
    BY <1>1, <1>4, <1>6, <2>1 DEF IInv, Analysis, Analysed, Task
<1>12. Order'
  <2>1. \A t \in Tables : AllLoaded(t)' <=> AllLoaded(t)
    BY <1>1 DEF AllLoaded, PartsOf, ChunksOf
  <2>2. \A p \in Parts : Owner[p] \in Tables
    BY ReaderAssumption
  <2> QED
    BY <1>1, <1>4, <1>6, <2>1, <2>2 DEF IInv, Order, Task, ChunksOf
<1>13. Checks'
  <2>1. \A p \in Parts : Total(p)' = Total(p)
    BY <1>1 DEF Total
  <2> QED
    BY <1>1, <1>3, <1>4, <1>5, <2>1, ChecksKept DEF IInv
<1> QED
  BY <1>1, <1>7, <1>8, <1>9, <1>10, <1>11, <1>12, <1>13 DEF IInv

LEMMA HandleAnalyzeEnd ==
  ASSUME IInv, NEW v \in Workers, HandleEnd(v), m_task[v].type = "analyze"
  PROVE  IInv'
<1>1. /\ pc = "events" /\ state[v] = "ended" /\ Held(v) /\ m_task[v] \in TaskTypes
      /\ UNCHANGED <<opt, m_dump_status, md_done, m_tables_with_data, pc, caller, snapshot,
                     current, outcome, loads, executed, files, log, m_compatibility_status>>
      /\ state' = [state EXCEPT ![v] = "ready"] /\ m_task' = [m_task EXCEPT ![v] = None]
      /\ Control' /\ Ok'
  BY HandleEndFacts
<1>2. PICK u \in Tables : u = m_task[v].of
  BY <1>1 DEF TaskTypes
<1>3. table' = [table EXCEPT ![u].analyze_finished = TRUE] /\ part' = part
  BY <1>2 DEF HandleEnd
<1>4. /\ m_task' \in TaskMap /\ state' \in StateMap
      /\ \A w \in Workers : Held(w)' => m_task'[w] \in TaskTypes
      /\ \A w \in Workers : /\ state'[w] = "busy" <=> state[w] = "busy"
                            /\ state'[w] = "ended" <=> (state[w] = "ended" /\ w # v)
      /\ \A w \in Workers : w # v => m_task'[w] = m_task[w]
      /\ \A w \in Workers : \A type, of : Holds(w, type, of)' <=> w # v /\ Holds(w, type, of)
      /\ \A t : Runs(t) /\ UNCHANGED executed => Runs(t)'
  BY <1>1, Released DEF IInv
<1>5. \A type, of : Holds(v, type, of) <=> type = "analyze" /\ of = u
  BY <1>1, <1>2 DEF Holds
<1>6. /\ table' \in [Tables -> TableTypes]
      /\ \A t \in Tables :
           /\ table'[t].indexes_scheduled = table[t].indexes_scheduled
           /\ table'[t].indexes_created = table[t].indexes_created
           /\ table'[t].analyze_scheduled = table[t].analyze_scheduled
           /\ table'[t].analyze_finished <=> (table[t].analyze_finished \/ t = u)
  <2>1. table \in [Tables -> TableTypes]
    BY DEF IInv, Types
  <2>2. table' = [table EXCEPT ![u].analyze_finished = TRUE]
    BY <1>3
  <2>3. ASSUME NEW t \in Tables
        PROVE  /\ table'[t] \in TableTypes
               /\ \A f \in {"indexes_scheduled", "indexes_created",
                            "analyze_scheduled", "analyze_finished"} :
                    table'[t][f] = IF t = u /\ f = "analyze_finished" THEN TRUE ELSE table[t][f]
    <3>1. table[t] \in TableTypes
      BY <2>1
    <3>2. CASE t = u
      <4>1. table'[t] = [table[t] EXCEPT !.analyze_finished = TRUE]
        BY <2>1, <2>2, <3>2
      <4> QED
        BY <3>1, <3>2, <4>1 DEF TableTypes
    <3>3. CASE t # u
      <4>1. table'[t] = table[t]
        BY <2>1, <2>2, <3>3
      <4> QED
        BY <3>1, <3>3, <4>1
    <3> QED
      BY <3>2, <3>3
  <2>4. table' \in [Tables -> TableTypes]
    BY <2>1, <2>2, <2>3
  <2> QED
    BY <2>1, <2>3, <2>4 DEF TableTypes
<1>7. Types'
  BY <1>1, <1>3, <1>4, <1>6 DEF IInv, Types, TaskMap, StateMap
<1>8. Seen'
  BY <1>1, <1>3, SeenKept DEF IInv
<1>9. Tasks' /\ Counted' /\ Loads'
  BY <1>1, <1>3, <1>4, <1>5, LoadKept DEF IInv
<1>10. Indexes'
  <2>1. \A t : Runs(Task("index", t, 0)) => Runs(Task("index", t, 0))'
    BY <1>1, <1>4
  <2> QED
    BY <1>1, <1>6, <2>1 DEF IInv, Indexes, Task
<1>11. Analysis'
  <2>1. \A t : Runs(Task("analyze", t, 0)) => Runs(Task("analyze", t, 0))'
    BY <1>1, <1>4
  <2>2. table[u].analyze_scheduled /\ \A w \in Workers : ~Holds(w, "analyze", u)'
    BY <1>4, <1>5 DEF IInv, Analysis
  <2> SUFFICES ASSUME NEW t \in Tables
               PROVE  /\ Analysis!(t)!1' /\ Analysis!(t)!2' /\ Analysis!(t)!3'
                      /\ Analysis!(t)!4'
    BY DEF Analysis
  <2>3. Analysis!(t)!1 /\ Analysis!(t)!2 /\ Analysis!(t)!3 /\ Analysis!(t)!4
    BY DEF IInv, Analysis
  <2>4. Analysis!(t)!1'
    BY <1>4, <1>6, <2>2, <2>3
  <2>5. Analysis!(t)!2'
    BY <1>6, <2>2, <2>3
  <2>6. Analysis!(t)!3'
    BY <1>4, <2>3
  <2>7. Analysis!(t)!4'
    BY <1>1, <1>6, <2>1, <2>3 DEF Analysed, Task
  <2> QED
    BY <2>4, <2>5, <2>6, <2>7
<1>12. Order'
  <2>1. \A t \in Tables : AllLoaded(t)' <=> AllLoaded(t)
    BY <1>1 DEF AllLoaded, PartsOf, ChunksOf
  <2>2. \A p \in Parts : Owner[p] \in Tables
    BY ReaderAssumption
  <2> QED
    BY <1>1, <1>4, <1>6, <2>1, <2>2 DEF IInv, Order, Task, ChunksOf
<1>13. Checks'
  <2>1. \A p \in Parts : Total(p)' = Total(p)
    BY <1>1 DEF Total
  <2> QED
    BY <1>1, <1>3, <1>4, <1>5, <2>1, ChecksKept DEF IInv
<1> QED
  BY <1>1, <1>7, <1>8, <1>9, <1>10, <1>11, <1>12, <1>13 DEF IInv

LEMMA HandleChecksumEnd ==
  ASSUME IInv, NEW v \in Workers, HandleEnd(v), m_task[v].type = "checksum"
  PROVE  IInv'
<1>1. /\ pc = "events" /\ state[v] = "ended" /\ Held(v) /\ m_task[v] \in TaskTypes
      /\ UNCHANGED <<opt, m_dump_status, md_done, m_tables_with_data, pc, caller, snapshot,
                     current, outcome, loads, executed, files, log, m_compatibility_status>>
      /\ state' = [state EXCEPT ![v] = "ready"] /\ m_task' = [m_task EXCEPT ![v] = None]
      /\ Control' /\ Ok'
  BY HandleEndFacts
<1>2. PICK q \in Parts : q = m_task[v].of
  BY <1>1 DEF TaskTypes
<1>3. part' = [part EXCEPT ![q].checksums_verified = @ + 1] /\ table' = table
  BY <1>2 DEF HandleEnd
<1>4. /\ m_task' \in TaskMap /\ state' \in StateMap
      /\ \A w \in Workers : Held(w)' => m_task'[w] \in TaskTypes
      /\ \A w \in Workers : /\ state'[w] = "busy" <=> state[w] = "busy"
                            /\ state'[w] = "ended" <=> (state[w] = "ended" /\ w # v)
      /\ \A w \in Workers : w # v => m_task'[w] = m_task[w]
      /\ \A w \in Workers : \A type, of : Holds(w, type, of)' <=> w # v /\ Holds(w, type, of)
      /\ \A t : Runs(t) /\ UNCHANGED executed => Runs(t)'
  BY <1>1, Released DEF IInv
<1>5. \A type, of : Holds(v, type, of) <=> type = "checksum" /\ of = q
  BY <1>1, <1>2 DEF Holds
<1>6. /\ part' \in [Parts -> PartTypes]
      /\ \A p \in Parts :
           /\ part'[p].available_chunks = part[p].available_chunks
           /\ part'[p].chunks_seen = part[p].chunks_seen
           /\ part'[p].last_chunk_seen = part[p].last_chunk_seen
           /\ part'[p].chunks_consumed = part[p].chunks_consumed
           /\ part'[p].chunks_loaded = part[p].chunks_loaded
           /\ part'[p].checksums = part[p].checksums
           /\ part'[p].checksums_total = part[p].checksums_total
           /\ p # q => part'[p].checksums_verified = part[p].checksums_verified
      /\ part'[q].checksums_verified = part[q].checksums_verified + 1
  <2>1. PICK d \in PartTypes : d = part[q]
    BY DEF IInv, Types
  <2>2. PICK e : e = [d EXCEPT !.checksums_verified = @ + 1]
    OBVIOUS
  <2>3. /\ e \in PartTypes
        /\ e.available_chunks = d.available_chunks /\ e.chunks_seen = d.chunks_seen
        /\ e.last_chunk_seen = d.last_chunk_seen /\ e.chunks_consumed = d.chunks_consumed
        /\ e.checksums = d.checksums /\ e.checksums_verified = d.checksums_verified + 1
        /\ e.checksums_total = d.checksums_total /\ e.chunks_loaded = d.chunks_loaded
    BY <2>2 DEF PartTypes
  <2>4. part' = [part EXCEPT ![q] = e] /\ part \in [Parts -> PartTypes]
    BY <1>3, <2>1, <2>2, Zenon DEF IInv, Types
  <2> QED
    BY <2>1, <2>3, <2>4
<1>7. Types'
  BY <1>1, <1>3, <1>4, <1>6 DEF IInv, Types, TaskMap, StateMap
<1>8. Seen'
  BY <1>1, <1>6, SeenKept DEF IInv
<1>9. Tasks' /\ Counted' /\ Loads'
  BY <1>1, <1>4, <1>5, <1>6, LoadKept DEF IInv
<1>10. Indexes' /\ Analysis' /\ Order'
  BY <1>1, <1>3, <1>4, <1>5, OthersKept DEF IInv
<1>11. Checks'
  <2> SUFFICES ASSUME NEW p \in Parts
               PROVE  Checks!(p)!1' /\ Checks!(p)!2' /\ Checks!(p)!3'
    BY DEF Checks
  <2>1. Checks!(p)!1 /\ Checks!(p)!2 /\ Checks!(p)!3
    BY DEF IInv, Checks
  <2>2. Total(p)' = Total(p)
    BY <1>1 DEF Total
  <2>3. Checks!(p)!1'
    BY <2>1, <2>2, <1>6
  <2>4. Checks!(p)!2'
    <3>1. CASE p # q
      <4>1. VerifiersOf(p)' = VerifiersOf(p)
        BY <1>4, <1>5, <3>1 DEF VerifiersOf
      <4> QED
        BY <2>1, <3>1, <4>1, <1>6
    <3>2. CASE p = q
      <4>1. VerifiersOf(p)' = VerifiersOf(p) \ {v} /\ v \in VerifiersOf(p)
        BY <1>4, <1>5, <3>2 DEF VerifiersOf
      <4>2. Cardinality(VerifiersOf(p)') = Cardinality(VerifiersOf(p)) - 1
        BY <4>1, FiniteHolders, FS_RemoveElement
      <4>3. Cardinality(VerifiersOf(p)) \in Nat /\ part[p].checksums \in Nat
            /\ part[p].checksums_verified \in Nat
        BY FiniteHolders DEF IInv, Types, PartTypes
      <4> QED
        BY <2>1, <3>2, <4>2, <4>3, <1>6
    <3> QED
      BY <3>1, <3>2
  <2>5. Checks!(p)!3'
    <3>1. \A k : Runs(Task("checksum", p, k)) => Runs(Task("checksum", p, k))'
      BY <1>1, <1>4
    <3>2. table_exists(Owner[p])' <=> table_exists(Owner[p])
      BY <1>1 DEF table_exists
    <3> QED
      BY <2>1, <3>1, <3>2, <1>6 DEF Task
  <2> QED
    BY <2>3, <2>4, <2>5
<1> QED
  BY <1>1, <1>7, <1>8, <1>9, <1>10, <1>11 DEF IInv

LEMMA HandleEndStep ==
  ASSUME IInv, NEW v \in Workers, HandleEnd(v)
  PROVE  IInv'
<1>1. m_task[v] \in TaskTypes
  BY HandleEndFacts
<1>2. m_task[v].type \in {"chunk", "bulk", "index", "analyze", "checksum"}
  BY <1>1 DEF TaskTypes
<1> QED
  BY <1>2, HandleChunkEnd, HandleBulkEnd, HandleIndexEnd, HandleAnalyzeEnd, HandleChecksumEnd
-----------------------------------------------------------------------------
(***************************************************************************)
(* The next chunk.                                                         *)
(***************************************************************************)

\* schedule_chunk_proportionally() finds a part that has data.
LEMMA CandidatesHaveData ==
  Candidates \subseteq m_tables_with_data
BY DEF Candidates, schedule_chunk_proportionally, BestNotLoading, Proportional, InProgress

\* What is left alone while the next chunk is given to a worker.
UnchangedByData ==
  UNCHANGED <<opt, m_dump_status, md_done, table, caller, snapshot, outcome, loads, executed,
              files, log>>

\* A table is found to be compatible when it is empty.
CompatibleIfEmpty ==
  /\ m_compatibility_status' \in [Tables -> {"unknown", "yes", "no"}]
  /\ \A t \in Tables : m_compatibility_status'[t] = "yes" =>
       m_compatibility_status[t] = "yes" \/ Empty(t)

\* Chunks of part q are consumed, and its record is e.
Consumes(q, e) ==
  /\ e \in PartTypes
  /\ part' = [part EXCEPT ![q] = e]
  /\ e.available_chunks = part[q].available_chunks
  /\ e.chunks_seen = part[q].chunks_seen
  /\ e.last_chunk_seen = part[q].last_chunk_seen
  /\ e.checksums = part[q].checksums
  /\ e.checksums_verified = part[q].checksums_verified
  /\ e.checksums_total = part[q].checksums_total
  /\ part[q].chunks_consumed < e.chunks_consumed
  /\ e.chunks_consumed <= Available(part[q])
  /\ m_tables_with_data' \subseteq m_tables_with_data
  /\ q \in m_tables_with_data' => e.chunks_consumed < Available(part[q])

\* A task that loads data is given to the worker, or none.
LoadAssigned(task) ==
  /\ task.type \in {"chunk", "bulk"}
  /\ Assign(task)

NoneAssigned == UNCHANGED <<m_task, state, pc, current>>

LEMMA CountsOfPart ==
  ASSUME NEW d \in PartTypes
  PROVE  /\ d.chunks_consumed \in Nat /\ d.chunks_loaded \in Nat
         /\ Available(d) \in Nat
<1>1. d.chunks_consumed \in Nat /\ d.chunks_loaded \in Nat
  BY DEF PartTypes
<1>2. d.available_chunks \in Seq({TRUE})
  BY DEF PartTypes
<1> QED
  BY <1>1, <1>2 DEF Available

LEMMA ConsumedFields ==
  ASSUME IInv, NEW q \in Parts, NEW e, Consumes(q, e)
  PROVE  /\ part' \in [Parts -> PartTypes]
         /\ part'[q] = e
         /\ \A p \in Parts : p # q => part'[p] = part[p]
         /\ \A p \in Parts :
              /\ part'[p].available_chunks = part[p].available_chunks
              /\ Available(part'[p]) = Available(part[p])
              /\ part'[p].chunks_seen = part[p].chunks_seen
              /\ part'[p].last_chunk_seen = part[p].last_chunk_seen
              /\ part'[p].checksums = part[p].checksums
              /\ part'[p].checksums_verified = part[p].checksums_verified
              /\ part'[p].checksums_total = part[p].checksums_total
              /\ part[p].chunks_consumed <= part'[p].chunks_consumed
<1>1. part' \in [Parts -> PartTypes] /\ part'[q] = e /\ \A p \in Parts : p # q => part'[p] = part[p]
  BY DEF IInv, Types, Consumes
<1>2. \A p \in Parts : part[p].chunks_consumed \in Nat /\ part'[p].chunks_consumed \in Nat
  BY <1>1 DEF IInv, Types, PartTypes
<1> QED
  BY <1>1, <1>2 DEF Consumes, Available

\* Whatever was consumed, the rest of the invariant holds.
LEMMA ConsumedKept ==
  ASSUME IInv, pc = "next", NEW q \in Parts, NEW e, Consumes(q, e),
         UnchangedByData, CompatibleIfEmpty,
         NoneAssigned \/ \E task \in TaskTypes : LoadAssigned(task)
  PROVE  Types' /\ Control' /\ Seen' /\ Indexes' /\ Analysis' /\ Order' /\ Checks' /\ Ok'
<1>1. /\ part' \in [Parts -> PartTypes]
      /\ part'[q] = e
      /\ \A p \in Parts : p # q => part'[p] = part[p]
      /\ \A p \in Parts :
           /\ part'[p].available_chunks = part[p].available_chunks
           /\ Available(part'[p]) = Available(part[p])
           /\ part'[p].chunks_seen = part[p].chunks_seen
           /\ part'[p].last_chunk_seen = part[p].last_chunk_seen
           /\ part'[p].checksums = part[p].checksums
           /\ part'[p].checksums_verified = part[p].checksums_verified
           /\ part'[p].checksums_total = part[p].checksums_total
           /\ part[p].chunks_consumed <= part'[p].chunks_consumed
  BY ConsumedFields
<1>2. current \in Workers /\ state[current] = "ready" /\ md_done = Tables /\ outcome # "ok"
  BY DEF IInv, Control
<1>3. /\ m_task' \in TaskMap /\ state' \in StateMap
      /\ \A w \in Workers : Held(w)' => m_task'[w] \in TaskTypes
      /\ \A w \in Workers : state'[w] = "ended" <=> state[w] = "ended"
      /\ \A w \in Workers : \A of :
           /\ Holds(w, "index", of)' <=> Holds(w, "index", of)
           /\ Holds(w, "analyze", of)' <=> Holds(w, "analyze", of)
           /\ Holds(w, "checksum", of)' <=> Holds(w, "checksum", of)
      /\ \A t : Runs(t) => Runs(t)'
      /\ pc' = "events" \/ (pc' = "next" /\ current' \in Workers /\ state'[current'] = "ready")
  <2>1. CASE NoneAssigned
    <3>1. UNCHANGED <<m_task, state, pc, current>>
      BY <2>1 DEF NoneAssigned
    <3>2. \A w \in Workers : \A type, of : Holds(w, type, of)' <=> Holds(w, type, of)
      BY <3>1 DEF Holds, Held
    <3>3. \A t : Runs(t) => Runs(t)'
      BY <3>1 DEF Runs, UnchangedByData
    <3> QED
      BY <1>2, <3>1, <3>2, <3>3 DEF IInv, Types, TaskMap, StateMap, Held
  <2>2. CASE \E task \in TaskTypes : LoadAssigned(task)
    <3>1. PICK task \in TaskTypes : LoadAssigned(task)
      BY <2>2
    <3>2. task.type \in {"chunk", "bulk"} /\ Assign(task)
      BY <3>1 DEF LoadAssigned
    <3>3. /\ pc' = "events"
          /\ m_task' \in TaskMap /\ state' \in StateMap
          /\ \A w \in Workers : Held(w)' => m_task'[w] \in TaskTypes
          /\ \A w \in Workers : /\ state'[w] = "busy" <=> (state[w] = "busy" \/ w = current)
                                /\ state'[w] = "ended" <=> state[w] = "ended"
          /\ \A w \in Workers : w # current => m_task'[w] = m_task[w]
          /\ \A w \in Workers : \A type, of :
               Holds(w, type, of)' <=> IF w = current THEN task.type = type /\ task.of = of
                                                      ELSE Holds(w, type, of)
          /\ \A type, of : ~Holds(current, type, of)
      BY <1>2, <3>2, Assigned DEF IInv
    <3>4. \A t : Runs(t) => Runs(t)'
      BY <1>2, <3>3 DEF Runs, UnchangedByData
    <3>5. \A w \in Workers : \A of :
           /\ Holds(w, "index", of)' <=> Holds(w, "index", of)
           /\ Holds(w, "analyze", of)' <=> Holds(w, "analyze", of)
           /\ Holds(w, "checksum", of)' <=> Holds(w, "checksum", of)
      BY <3>2, <3>3
    <3> QED
      BY <3>3, <3>4, <3>5
  <2> QED
    BY <2>1, <2>2
<1>4. Types'
  BY <1>1, <1>3 DEF IInv, Types, TaskMap, StateMap, UnchangedByData, CompatibleIfEmpty, Consumes,
                    Phases
<1>5. Control'
  BY <1>2, <1>3 DEF Control, UnchangedByData
<1>6. Seen'
  <2> SUFFICES ASSUME NEW p \in Parts
               PROVE  /\ Seen!(p)!1' /\ Seen!(p)!2' /\ Seen!(p)!3' /\ Seen!(p)!4'
                      /\ Seen!(p)!5' /\ Seen!(p)!6'
    BY DEF Seen
  <2>1. Seen!(p)!1 /\ Seen!(p)!2 /\ Seen!(p)!3 /\ Seen!(p)!4 /\ Seen!(p)!5 /\ Seen!(p)!6
    BY DEF IInv, Seen
  <2>2. Available(part[p])' = Available(part[p])
    BY <1>1 DEF Available
  <2>3. Seen!(p)!1' /\ Seen!(p)!2' /\ Seen!(p)!3'
    BY <1>1, <2>1, <2>2 DEF has_data
  <2>4. Seen!(p)!4' /\ Seen!(p)!5'
    <3>1. CASE p = q
      BY <1>1, <2>2, <3>1 DEF Consumes
    <3>2. CASE p # q
      <4>1. p \in m_tables_with_data' => p \in m_tables_with_data
        BY DEF Consumes
      <4> QED
        BY <1>1, <2>1, <2>2, <3>2, <4>1
    <3> QED
      BY <3>1, <3>2
  <2>5. Seen!(p)!6'
    BY <1>3, <2>1, <2>2 DEF UnchangedByData, ChunkFile
  <2> QED
    BY <2>3, <2>4, <2>5
<1>7. Indexes' /\ Analysis' /\ Order'
  BY <1>3, OthersKept DEF IInv, UnchangedByData
<1>8. Checks'
  <2>1. \A p \in Parts : Total(p)' = Total(p)
    BY DEF Total, UnchangedByData
  <2> QED
    BY <1>1, <1>3, <2>1, ChecksKept DEF IInv, UnchangedByData
<1>9. Ok'
  BY NotOk DEF UnchangedByData
<1> QED
  BY <1>4, <1>5, <1>6, <1>7, <1>8, <1>9

\* A part that is loaded in bulk has no next chunk.
LEMMA NoBulk ==
  ASSUME IInv, NEW q \in Parts, part[q].chunks_consumed < Available(part[q])
  PROVE  ~Bulk(q) /\ \A w \in Workers : ~Holds(w, "bulk", q)
<1>1. part[q].chunks_consumed \in Nat /\ Available(part[q]) \in Nat
  BY DEF IInv, Types, PartTypes, Available
<1> QED
  BY <1>1 DEF IInv, Tasks, Bulk

\* Nothing is left in the tables that are compatible.
LEMMA EmptyLeft ==
  ASSUME IInv, CompatibleIfEmpty
  PROVE  \A p \in Parts : \A i \in ChunksOf(p) :
           m_compatibility_status'[Owner[p]] = "yes" /\ i >= part[p].chunks_consumed
             => loads[p][i] = 0 \/ ~(Size[p][i] > 0)
<1> SUFFICES ASSUME NEW p \in Parts, NEW i \in ChunksOf(p),
                    m_compatibility_status'[Owner[p]] = "yes", i >= part[p].chunks_consumed
             PROVE  loads[p][i] = 0 \/ ~(Size[p][i] > 0)
  OBVIOUS
<1>1. Owner[p] \in Tables /\ p \in PartsOf(Owner[p])
  BY ReaderAssumption DEF PartsOf
<1>2. CASE m_compatibility_status[Owner[p]] = "yes"
  BY <1>2 DEF IInv, Loads
<1>3. CASE Empty(Owner[p])
  BY <1>1, <1>3 DEF Empty
<1> QED
  BY <1>1, <1>2, <1>3 DEF CompatibleIfEmpty

\* Chunks are consumed and not loaded: they are in the log, or none is loaded.
LEMMA ConsumedNone ==
  ASSUME IInv, NEW q \in Parts, NEW e, Consumes(q, e),
         UnchangedByData, CompatibleIfEmpty, NoneAssigned,
         opt.load_data =>
           /\ \A i \in part[q].chunks_consumed .. e.chunks_consumed - 1 : InLog(q, i)
           /\ e.chunks_loaded + part[q].chunks_consumed
                = part[q].chunks_loaded + e.chunks_consumed
  PROVE  Tasks' /\ Counted' /\ Loads'
<1>1. /\ part' \in [Parts -> PartTypes]
      /\ part'[q] = e
      /\ \A p \in Parts : p # q => part'[p] = part[p]
      /\ \A p \in Parts :
           /\ part'[p].available_chunks = part[p].available_chunks
           /\ Available(part'[p]) = Available(part[p])
           /\ part'[p].chunks_seen = part[p].chunks_seen
           /\ part'[p].last_chunk_seen = part[p].last_chunk_seen
           /\ part'[p].checksums = part[p].checksums
           /\ part'[p].checksums_verified = part[p].checksums_verified
           /\ part'[p].checksums_total = part[p].checksums_total
           /\ part[p].chunks_consumed <= part'[p].chunks_consumed
  BY ConsumedFields
<1>2. \A p \in Parts : /\ part[p].chunks_consumed \in Nat /\ part'[p].chunks_consumed \in Nat
                       /\ part[p].chunks_loaded \in Nat /\ part'[p].chunks_loaded \in Nat
                       /\ Available(part[p]) \in Nat
  <2>1. part \in [Parts -> PartTypes]
    BY DEF IInv, Types
  <2>2. \A p \in Parts : part[p] \in PartTypes /\ part'[p] \in PartTypes
    BY <1>1, <2>1
  <2> QED
    BY <2>2, CountsOfPart
<1>3. part[q].chunks_consumed < e.chunks_consumed /\ part[q].chunks_consumed < Available(part[q])
      /\ e.chunks_consumed <= Available(part[q]) /\ Available(part[q]) <= Chunks[q]
      /\ Chunks[q] \in Nat
  BY <1>1, <1>2, ReaderAssumption DEF Consumes, IInv, Seen
<1>4. ~Bulk(q) /\ \A w \in Workers : ~Holds(w, "bulk", q)
  BY <1>3, NoBulk
<1>5. /\ UNCHANGED <<opt, loads, log>> /\ UNCHANGED <<m_task, state>>
      /\ \A w \in Workers : \A type, of : Holds(w, type, of)' <=> Holds(w, type, of)
  BY DEF UnchangedByData, NoneAssigned, Holds, Held
<1>6. \A w \in Workers : \A p, i : Covers(w, p, i)' <=> Covers(w, p, i)
  BY <1>5 DEF Covers
<1>7. Tasks'
  <2> SUFFICES ASSUME NEW p \in Parts
               PROVE  Tasks!(p)!1' /\ Tasks!(p)!2'
    BY DEF Tasks
  <2>1. Tasks!(p)!1 /\ Tasks!(p)!2
    BY DEF IInv, Tasks
  <2>2. Tasks!(p)!2'
    BY <1>6, <2>1 DEF ChunksOf
  <2>3. Tasks!(p)!1'
    <3> SUFFICES ASSUME NEW w \in Workers
                 PROVE  Tasks!(p)!1!(w)!1' /\ Tasks!(p)!1!(w)!2' /\ Tasks!(p)!1!(w)!3'
      OBVIOUS
    <3>1. Tasks!(p)!1!(w)!1'
      BY <1>5, <2>1
    <3>2. Tasks!(p)!1!(w)!2'
      <4>1. Holds(w, "chunk", p) => m_task[w].index \in Nat
        BY DEF IInv, Types, TaskTypes, Holds
      <4> QED
        BY <1>1, <1>2, <1>5, <2>1, <4>1
    <3>3. Tasks!(p)!1!(w)!3'
      BY <1>1, <1>4, <1>5, <2>1 DEF has_data
    <3> QED
      BY <3>1, <3>2, <3>3
  <2> QED
    BY <2>2, <2>3
<1>8. Counted'
  <2> SUFFICES ASSUME opt.load_data, NEW p \in Parts
               PROVE  Counted!2!(p)'
    BY <1>5 DEF Counted
  <2>1. Counted!2!(p)
    BY DEF IInv, Counted
  <2>2. LoadersOf(p)' = LoadersOf(p) /\ (Bulk(p)' <=> Bulk(p))
    BY <1>5 DEF LoadersOf, Bulk
  <2>3. CASE p # q
    BY <1>1, <2>1, <2>2, <2>3
  <2>4. CASE p = q
    <3>1. Cardinality(LoadersOf(p)) \in Nat
      BY FiniteHolders
    <3> QED
      BY <1>1, <1>2, <1>4, <2>1, <2>2, <2>4, <3>1
  <2> QED
    BY <2>3, <2>4
<1>9. Loads'
  <2> SUFFICES ASSUME NEW p \in Parts, NEW i \in ChunksOf(p)
               PROVE  /\ Loads!(p)!(i)!1' /\ Loads!(p)!(i)!2' /\ Loads!(p)!(i)!3'
                      /\ Loads!(p)!(i)!4'
    BY DEF Loads, ChunksOf
  <2>1. Loads!(p)!(i)!1 /\ Loads!(p)!(i)!2 /\ Loads!(p)!(i)!3 /\ Loads!(p)!(i)!4
    BY DEF IInv, Loads
  <2>2. InLog(p, i)' <=> InLog(p, i)
    BY <1>5 DEF InLog
  <2>3. i \in Nat
    BY ReaderAssumption DEF ChunksOf
  <2>4. Loads!(p)!(i)!1'
    BY <1>5, <2>1, <2>2
  <2>5. Loads!(p)!(i)!2'
    <3>1. CASE i < part[p].chunks_consumed
      BY <3>1, <1>5, <1>6, <2>1
    <3>2. CASE ~(i < part[p].chunks_consumed) /\ opt.load_data /\ i < part'[p].chunks_consumed
      <4>1. p = q
        BY <3>2, <1>1
      <4>2. InLog(q, i)
        BY <3>2, <4>1, <1>1, <1>2, <2>3
      <4> QED
        BY <1>5, <2>1, <4>1, <4>2
    <3> QED
      BY <3>1, <3>2, <1>5
  <2>6. i >= part'[p].chunks_consumed => i >= part[p].chunks_consumed
    BY <1>1, <1>2, <2>3
  <2>7. Loads!(p)!(i)!3'
    BY <1>5, <1>6, <2>1, <2>2, <2>6
  <2>8. Loads!(p)!(i)!4'
    BY <1>5, <2>6, EmptyLeft
  <2> QED
    BY <2>4, <2>5, <2>7, <2>8
<1> QED
  BY <1>7, <1>8, <1>9

\* The next chunk is given to a worker: it was not given to another one.
LEMMA ChunkAssigned ==
  ASSUME IInv, pc = "next", NEW q \in Parts, NEW e, Consumes(q, e),
         UnchangedByData, CompatibleIfEmpty, opt.load_data,
         e.chunks_consumed = part[q].chunks_consumed + 1,
         e.chunks_loaded = part[q].chunks_loaded,
         log.chunk[q][part[q].chunks_consumed] # "DONE",
         NEW task \in TaskTypes, Assign(task), task.type = "chunk", task.of = q,
         task.index = part[q].chunks_consumed
  PROVE  Tasks' /\ Counted' /\ Loads'
<1>1. /\ part' \in [Parts -> PartTypes]
      /\ part'[q] = e
      /\ \A p \in Parts : p # q => part'[p] = part[p]
      /\ \A p \in Parts :
           /\ part'[p].available_chunks = part[p].available_chunks
           /\ Available(part'[p]) = Available(part[p])
           /\ part'[p].chunks_seen = part[p].chunks_seen
           /\ part'[p].last_chunk_seen = part[p].last_chunk_seen
           /\ part'[p].checksums = part[p].checksums
           /\ part'[p].checksums_verified = part[p].checksums_verified
           /\ part'[p].checksums_total = part[p].checksums_total
           /\ part[p].chunks_consumed <= part'[p].chunks_consumed
  BY ConsumedFields
<1>2. \A p \in Parts : /\ part[p].chunks_consumed \in Nat /\ part'[p].chunks_consumed \in Nat
                       /\ part[p].chunks_loaded \in Nat /\ part'[p].chunks_loaded \in Nat
                       /\ Available(part[p]) \in Nat
  <2>1. part \in [Parts -> PartTypes]
    BY DEF IInv, Types
  <2>2. \A p \in Parts : part[p] \in PartTypes /\ part'[p] \in PartTypes
    BY <1>1, <2>1
  <2> QED
    BY <2>2, CountsOfPart
<1>3. part[q].chunks_consumed < e.chunks_consumed /\ part[q].chunks_consumed < Available(part[q])
      /\ e.chunks_consumed <= Available(part[q]) /\ Available(part[q]) <= Chunks[q]
      /\ Chunks[q] \in Nat
  BY <1>1, <1>2, ReaderAssumption DEF Consumes, IInv, Seen
<1>4. ~Bulk(q) /\ \A w \in Workers : ~Holds(w, "bulk", q)
  BY <1>3, NoBulk
<1>5. current \in Workers /\ state[current] = "ready" /\ UNCHANGED <<opt, loads, log>>
  BY DEF IInv, Control, UnchangedByData
<1>6. /\ \A w \in Workers : state'[w] = "busy" <=> (state[w] = "busy" \/ w = current)
      /\ m_task'[current] = task
      /\ \A w \in Workers : w # current => m_task'[w] = m_task[w]
      /\ \A w \in Workers : \A type, of :
           Holds(w, type, of)' <=> IF w = current THEN task.type = type /\ task.of = of
                                                  ELSE Holds(w, type, of)
      /\ \A type, of : ~Holds(current, type, of)
  BY <1>5, Assigned DEF IInv
<1>7. \A w \in Workers : \A p \in Parts : \A i :
        Covers(w, p, i)' <=> IF w = current THEN p = q /\ i = part[q].chunks_consumed
                                            ELSE Covers(w, p, i)
  BY <1>6 DEF Covers
<1>8. \A w \in Workers : \A p \in Parts : Holds(w, "chunk", p) =>
        m_task[w].index \in Nat /\ m_task[w].index < part[p].chunks_consumed
  BY DEF IInv, Types, TaskTypes, Holds, Tasks
<1>9. \A w \in Workers : ~Covers(w, q, part[q].chunks_consumed)
  BY <1>2, <1>4, <1>8 DEF Covers
<1>10. Tasks'
  <2> SUFFICES ASSUME NEW p \in Parts
               PROVE  Tasks!(p)!1' /\ Tasks!(p)!2'
    BY DEF Tasks
  <2>1. Tasks!(p)!1 /\ Tasks!(p)!2
    BY DEF IInv, Tasks
  <2>2. Tasks!(p)!2'
    BY <1>7, <1>9, <2>1 DEF ChunksOf
  <2>3. Tasks!(p)!1'
    <3> SUFFICES ASSUME NEW w \in Workers
                 PROVE  Tasks!(p)!1!(w)!1' /\ Tasks!(p)!1!(w)!2' /\ Tasks!(p)!1!(w)!3'
      OBVIOUS
    <3>1. Tasks!(p)!1!(w)!1'
      BY <1>5
    <3>2. Tasks!(p)!1!(w)!2'
      BY <1>1, <1>2, <1>6, <1>8
    <3>3. Tasks!(p)!1!(w)!3'
      BY <1>1, <1>4, <1>6, <2>1 DEF has_data
    <3> QED
      BY <3>1, <3>2, <3>3
  <2> QED
    BY <2>2, <2>3
<1>11. Counted'
  <2> SUFFICES ASSUME NEW p \in Parts
               PROVE  Counted!2!(p)'
    BY <1>5 DEF Counted
  <2>1. Counted!2!(p)
    BY DEF IInv, Counted
  <2>2. Bulk(p)' <=> Bulk(p)
    BY <1>6 DEF Bulk
  <2>3. CASE p # q
    <3>1. LoadersOf(p)' = LoadersOf(p)
      BY <1>6, <2>3 DEF LoadersOf
    <3> QED
      BY <1>1, <2>1, <2>2, <2>3, <3>1
  <2>4. CASE p = q
    <3>1. LoadersOf(p)' = LoadersOf(p) \cup {current} /\ current \notin LoadersOf(p)
      BY <1>5, <1>6, <2>4 DEF LoadersOf
    <3>2. Cardinality(LoadersOf(p)') = Cardinality(LoadersOf(p)) + 1
      BY <3>1, FiniteHolders, FS_AddElement
    <3>3. Cardinality(LoadersOf(p)) \in Nat
      BY FiniteHolders
    <3> QED
      BY <1>1, <1>2, <1>4, <2>1, <2>2, <2>4, <3>2, <3>3
  <2> QED
    BY <2>3, <2>4
<1>12. Loads'
  <2> SUFFICES ASSUME NEW p \in Parts, NEW i \in ChunksOf(p)
               PROVE  /\ Loads!(p)!(i)!1' /\ Loads!(p)!(i)!2' /\ Loads!(p)!(i)!3'
                      /\ Loads!(p)!(i)!4'
    BY DEF Loads, ChunksOf
  <2>1. Loads!(p)!(i)!1 /\ Loads!(p)!(i)!2 /\ Loads!(p)!(i)!3 /\ Loads!(p)!(i)!4
    BY DEF IInv, Loads
  <2>2. InLog(p, i)' <=> InLog(p, i)
    BY <1>5 DEF InLog
  <2>3. i \in Nat
    BY ReaderAssumption DEF ChunksOf
  <2>4. Loads!(p)!(i)!1'
    BY <1>5, <2>1, <2>2
  <2>5. i >= part'[p].chunks_consumed => i >= part[p].chunks_consumed
    BY <1>1, <1>2, <2>3
  <2>6. Loads!(p)!(i)!4'
    BY <1>5, <2>5, EmptyLeft
  <2>7. Loads!(p)!(i)!2'
    <3>1. CASE i < part[p].chunks_consumed
      BY <3>1, <1>5, <1>6, <1>7, <2>1
    <3>2. CASE ~(i < part[p].chunks_consumed) /\ i < part'[p].chunks_consumed
      <4>1. p = q
        BY <3>2, <1>1
      <4>2. i = part[q].chunks_consumed
        BY <3>2, <4>1, <1>1, <1>2, <2>3
      <4> QED
        BY <1>5, <1>6, <1>7, <4>1, <4>2
    <3> QED
      BY <3>1, <3>2
  <2>8. Loads!(p)!(i)!3'
    <3>1. Loads!(p)!(i)!3!2!1' \/ ~(log.bulk[p] # "DONE" /\ Size[p][i] > 0)
      BY <1>5, <2>1
    <3>2. ASSUME log.bulk[p] # "DONE" /\ Size[p][i] > 0, NEW w \in Workers,
                 state'[w] = "busy" /\ Covers(w, p, i)'
          PROVE  loads'[p][i] = 0
      <4>1. CASE w # current
        BY <1>5, <1>6, <1>7, <2>1, <3>2, <4>1
      <4>2. CASE w = current
        <5>1. p = q /\ i = part[q].chunks_consumed
          BY <1>7, <3>2, <4>2
        <5>2. ~InLog(p, i)
          BY <5>1, <3>2 DEF InLog
        <5> QED
          BY <1>2, <1>5, <2>1, <2>3, <3>2, <5>1, <5>2
      <4> QED
        BY <4>1, <4>2
    <3> QED
      BY <1>5, <2>1, <2>2, <2>5, <3>1, <3>2
  <2> QED
    BY <2>4, <2>6, <2>7, <2>8
<1> QED
  BY <1>10, <1>11, <1>12

\* A whole part is given to a worker: nothing of it was given to another one,
\* and the table is empty.
LEMMA BulkAssigned ==
  ASSUME IInv, pc = "next", NEW q \in Parts, NEW e, Consumes(q, e),
         UnchangedByData, CompatibleIfEmpty, opt.load_data,
         part[q].chunks_consumed = 0, e.chunks_consumed = Available(part[q]),
         e.chunks_loaded = part[q].chunks_loaded,
         has_data(q), part[q].last_chunk_seen,
         m_compatibility_status'[Owner[q]] = "yes",
         NEW task \in TaskTypes, Assign(task), task.type = "bulk", task.of = q
  PROVE  Tasks' /\ Counted' /\ Loads'
<1>1. /\ part' \in [Parts -> PartTypes]
      /\ part'[q] = e
      /\ \A p \in Parts : p # q => part'[p] = part[p]
      /\ \A p \in Parts :
           /\ part'[p].available_chunks = part[p].available_chunks
           /\ Available(part'[p]) = Available(part[p])
           /\ part'[p].chunks_seen = part[p].chunks_seen
           /\ part'[p].last_chunk_seen = part[p].last_chunk_seen
           /\ part'[p].checksums = part[p].checksums
           /\ part'[p].checksums_verified = part[p].checksums_verified
           /\ part'[p].checksums_total = part[p].checksums_total
           /\ part[p].chunks_consumed <= part'[p].chunks_consumed
  BY ConsumedFields
<1>2. \A p \in Parts : /\ part[p].chunks_consumed \in Nat /\ part'[p].chunks_consumed \in Nat
                       /\ part[p].chunks_loaded \in Nat /\ part'[p].chunks_loaded \in Nat
                       /\ Available(part[p]) \in Nat
  <2>1. part \in [Parts -> PartTypes]
    BY DEF IInv, Types
  <2>2. \A p \in Parts : part[p] \in PartTypes /\ part'[p] \in PartTypes
    BY <1>1, <2>1
  <2> QED
    BY <2>2, CountsOfPart
<1>3. part[q].chunks_consumed < e.chunks_consumed /\ part[q].chunks_consumed < Available(part[q])
      /\ e.chunks_consumed <= Available(part[q]) /\ Available(part[q]) <= Chunks[q]
      /\ Chunks[q] \in Nat
  BY <1>1, <1>2, ReaderAssumption DEF Consumes, IInv, Seen
<1>4. ~Bulk(q) /\ \A w \in Workers : ~Holds(w, "bulk", q)
  BY <1>3, NoBulk
<1>5. current \in Workers /\ state[current] = "ready" /\ UNCHANGED <<opt, loads, log>>
  BY DEF IInv, Control, UnchangedByData
<1>6. /\ \A w \in Workers : state'[w] = "busy" <=> (state[w] = "busy" \/ w = current)
      /\ m_task'[current] = task
      /\ \A w \in Workers : w # current => m_task'[w] = m_task[w]
      /\ \A w \in Workers : \A type, of :
           Holds(w, type, of)' <=> IF w = current THEN task.type = type /\ task.of = of
                                                  ELSE Holds(w, type, of)
      /\ \A type, of : ~Holds(current, type, of)
  BY <1>5, Assigned DEF IInv
<1>7. \A w \in Workers : \A p \in Parts : \A i :
        Covers(w, p, i)' <=> IF w = current THEN p = q ELSE Covers(w, p, i)
  BY <1>6 DEF Covers
<1>8. \A w \in Workers : \A p \in Parts : Holds(w, "chunk", p) =>
        m_task[w].index \in Nat /\ m_task[w].index < part[p].chunks_consumed
  BY DEF IInv, Types, TaskTypes, Holds, Tasks
<1>9. \A w \in Workers : ~Holds(w, "chunk", q) /\ \A i : ~Covers(w, q, i)
  BY <1>2, <1>4, <1>8 DEF Covers
<1>10. Tasks'
  <2> SUFFICES ASSUME NEW p \in Parts
               PROVE  Tasks!(p)!1' /\ Tasks!(p)!2'
    BY DEF Tasks
  <2>1. Tasks!(p)!1 /\ Tasks!(p)!2
    BY DEF IInv, Tasks
  <2>2. Tasks!(p)!2'
    BY <1>7, <1>9, <2>1 DEF ChunksOf
  <2>3. Tasks!(p)!1'
    <3> SUFFICES ASSUME NEW w \in Workers
                 PROVE  Tasks!(p)!1!(w)!1' /\ Tasks!(p)!1!(w)!2' /\ Tasks!(p)!1!(w)!3'
      OBVIOUS
    <3>1. Tasks!(p)!1!(w)!1'
      BY <1>5
    <3>2. Tasks!(p)!1!(w)!2'
      BY <1>1, <1>6, <1>8, <1>9
    <3>3. Tasks!(p)!1!(w)!3'
      BY <1>1, <1>4, <1>6, <2>1 DEF has_data
    <3> QED
      BY <3>1, <3>2, <3>3
  <2> QED
    BY <2>2, <2>3
<1>11. Counted'
  <2> SUFFICES ASSUME NEW p \in Parts
               PROVE  Counted!2!(p)'
    BY <1>5 DEF Counted
  <2>1. Counted!2!(p)
    BY DEF IInv, Counted
  <2>2. LoadersOf(p)' = LoadersOf(p)
    BY <1>6 DEF LoadersOf
  <2>3. CASE p # q
    <3>1. Bulk(p)' <=> Bulk(p)
      BY <1>6, <2>3 DEF Bulk
    <3> QED
      BY <1>1, <2>1, <2>2, <2>3, <3>1
  <2>4. CASE p = q
    <3>1. LoadersOf(p) = {}
      BY <1>9, <2>4 DEF LoadersOf
    <3>2. Cardinality(LoadersOf(p)) = 0
      BY <3>1, FS_EmptySet
    <3>3. part[p].chunks_loaded = 0
      BY <1>2, <1>4, <2>1, <2>4, <3>2
    <3> QED
      BY <1>1, <1>5, <1>6, <2>2, <2>4, <3>1, <3>3 DEF Bulk
  <2> QED
    BY <2>3, <2>4
<1>12. Loads'
  <2> SUFFICES ASSUME NEW p \in Parts, NEW i \in ChunksOf(p)
               PROVE  /\ Loads!(p)!(i)!1' /\ Loads!(p)!(i)!2' /\ Loads!(p)!(i)!3'
                      /\ Loads!(p)!(i)!4'
    BY DEF Loads, ChunksOf
  <2>1. Loads!(p)!(i)!1 /\ Loads!(p)!(i)!2 /\ Loads!(p)!(i)!3 /\ Loads!(p)!(i)!4
    BY DEF IInv, Loads
  <2>2. InLog(p, i)' <=> InLog(p, i)
    BY <1>5 DEF InLog
  <2>3. i \in Nat
    BY ReaderAssumption DEF ChunksOf
  <2>4. Loads!(p)!(i)!1'
    BY <1>5, <2>1, <2>2
  <2>5. i >= part'[p].chunks_consumed => i >= part[p].chunks_consumed
    BY <1>1, <1>2, <2>3
  <2>6. Loads!(p)!(i)!4'
    BY <1>5, <2>5, EmptyLeft
  <2>7. Loads!(p)!(i)!2'
    <3>1. CASE p # q
      BY <3>1, <1>1, <1>5, <1>6, <1>7, <2>1
    <3>2. CASE p = q
      BY <3>2, <1>5, <1>6, <1>7
    <3> QED
      BY <3>1, <3>2
  <2>8. Loads!(p)!(i)!3'
    <3>1. Loads!(p)!(i)!3!2!1' \/ ~(log.bulk[p] # "DONE" /\ Size[p][i] > 0)
      BY <1>5, <2>1
    <3>2. ASSUME log.bulk[p] # "DONE" /\ Size[p][i] > 0, NEW w \in Workers,
                 state'[w] = "busy" /\ Covers(w, p, i)'
          PROVE  loads'[p][i] = 0
      <4>1. CASE w # current
        BY <1>5, <1>6, <1>7, <2>1, <3>2, <4>1
      <4>2. CASE w = current
        <5>1. p = q /\ i >= part[q].chunks_consumed
          BY <1>7, <2>3, <3>2, <4>2
        <5> QED
          BY <1>5, <3>2, <5>1, EmptyLeft
      <4> QED
        BY <4>1, <4>2
    <3> QED
      BY <1>5, <2>1, <2>2, <2>5, <3>1, <3>2
  <2> QED
    BY <2>4, <2>6, <2>7, <2>8
<1> QED
  BY <1>10, <1>11, <1>12

LEMMA ScheduleChunkStep ==
  ASSUME IInv, pc = "next", NEW q \in Parts, has_data_available(part[q]),
         UnchangedByData, CompatibleIfEmpty, ScheduleTableChunk(q)
  PROVE  IInv'
<1>1. PICK d \in PartTypes : d = part[q]
  BY DEF IInv, Types
<1>2. PICK n \in Nat : n = d.chunks_consumed
  BY DEF PartTypes
<1>3. PICK c : c = ConsumedChunk(q)
  OBVIOUS
<1>4. c = [d EXCEPT !.chunks_consumed = n + 1]
  BY <1>1, <1>2, <1>3 DEF ConsumedChunk
<1>5. /\ c \in PartTypes
      /\ c.available_chunks = d.available_chunks /\ c.chunks_seen = d.chunks_seen
      /\ c.last_chunk_seen = d.last_chunk_seen /\ c.chunks_consumed = n + 1
      /\ c.checksums = d.checksums /\ c.checksums_verified = d.checksums_verified
      /\ c.checksums_total = d.checksums_total /\ c.chunks_loaded = d.chunks_loaded
  BY <1>4 DEF PartTypes
<1>6. PICK done \in BOOLEAN : done = (log.chunk[q][n] = "DONE")
  OBVIOUS
<1>7. PICK e : e = IF done THEN [c EXCEPT !.chunks_loaded = @ + 1] ELSE c
  OBVIOUS
<1>8. /\ e \in PartTypes
      /\ e.available_chunks = d.available_chunks /\ e.chunks_seen = d.chunks_seen
      /\ e.last_chunk_seen = d.last_chunk_seen /\ e.chunks_consumed = n + 1
      /\ e.checksums = d.checksums /\ e.checksums_verified = d.checksums_verified
      /\ e.checksums_total = d.checksums_total
      /\ e.chunks_loaded = IF done THEN d.chunks_loaded + 1 ELSE d.chunks_loaded
  BY <1>5, <1>7 DEF PartTypes
<1>9. /\ m_tables_with_data' = StillWithData(q, c)
      /\ part' = [part EXCEPT ![q] = e]
      /\ IF done \/ ~opt.load_data
         THEN UNCHANGED <<m_task, state, pc, current>>
         ELSE Assign(Task("chunk", q, n))
  BY <1>1, <1>2, <1>3, <1>6, <1>7, Zenon DEF ScheduleTableChunk, workerVars
<1>10. n < Available(d) /\ Available(d) \in Nat
  BY <1>1, <1>2 DEF has_data_available, has_value, Available, PartTypes
<1>11. /\ m_tables_with_data' \subseteq m_tables_with_data
       /\ q \in m_tables_with_data' => n + 1 < Available(d)
  BY <1>5, <1>9 DEF StillWithData, has_data_available, has_value, Available
<1>12. Consumes(q, e)
  BY <1>1, <1>2, <1>8, <1>9, <1>10, <1>11 DEF Consumes
<1>13. Task("chunk", q, n) \in TaskTypes
  BY DEF Task, TaskTypes
<1>14. CASE done \/ ~opt.load_data
  <2>1. NoneAssigned
    BY <1>9, <1>14 DEF NoneAssigned
  <2>2. Types' /\ Control' /\ Seen' /\ Indexes' /\ Analysis' /\ Order' /\ Checks' /\ Ok'
    BY <2>1, <1>12, ConsumedKept
  <2>3. ASSUME opt.load_data
        PROVE  /\ \A i \in part[q].chunks_consumed .. e.chunks_consumed - 1 : InLog(q, i)
               /\ e.chunks_loaded + part[q].chunks_consumed
                    = part[q].chunks_loaded + e.chunks_consumed
    <3>1. done
      BY <1>14, <2>3
    <3>2. \A i \in n .. n : InLog(q, i)
      <4>1. InLog(q, n)
        BY <1>6, <3>1, Zenon DEF InLog
      <4> QED
        BY <4>1
    <3>3. d.chunks_loaded \in Nat
      BY DEF PartTypes
    <3> QED
      BY <1>1, <1>2, <1>8, <3>1, <3>2, <3>3
  <2>4. Tasks' /\ Counted' /\ Loads'
    BY <2>1, <2>3, <1>12, ConsumedNone
  <2> QED
    BY <2>2, <2>4 DEF IInv
<1>15. CASE ~(done \/ ~opt.load_data)
  <2>1. Assign(Task("chunk", q, n))
    BY <1>9, <1>15
  <2>2. PICK task \in TaskTypes : task = Task("chunk", q, n)
    BY <1>13
  <2>3. task.type = "chunk" /\ task.of = q /\ task.index = n /\ Assign(task)
    BY <2>1, <2>2, TaskFields
  <2>4. Types' /\ Control' /\ Seen' /\ Indexes' /\ Analysis' /\ Order' /\ Checks' /\ Ok'
    BY <2>3, <1>12, ConsumedKept DEF LoadAssigned
  <2>5. /\ e.chunks_consumed = part[q].chunks_consumed + 1
        /\ e.chunks_loaded = part[q].chunks_loaded
        /\ log.chunk[q][part[q].chunks_consumed] # "DONE"
        /\ task.index = part[q].chunks_consumed
        /\ opt.load_data
    BY <1>1, <1>2, <1>6, <1>8, <1>15, <2>3
  <2>6. Tasks' /\ Counted' /\ Loads'
    BY <2>3, <2>5, <1>12, ChunkAssigned
  <2> QED
    BY <2>4, <2>6 DEF IInv
<1> QED
  BY <1>14, <1>15

LEMMA ScheduleBulkStep ==
  ASSUME IInv, pc = "next", NEW q \in Parts, has_data_available(part[q]), BulkLoadTried(q),
         UnchangedByData, CompatibleIfEmpty, m_compatibility_status'[Owner[q]] = "yes",
         ScheduleBulkLoad(q)
  PROVE  IInv'
<1>1. PICK d \in PartTypes : d = part[q]
  BY DEF IInv, Types
<1>2. PICK n \in Nat : n = Len(d.available_chunks)
  BY DEF PartTypes
<1>3. PICK c : c = ConsumedTable(q)
  OBVIOUS
<1>4. c = [d EXCEPT !.chunks_consumed = n]
  BY <1>1, <1>2, <1>3 DEF ConsumedTable
<1>5. /\ c \in PartTypes
      /\ c.available_chunks = d.available_chunks /\ c.chunks_seen = d.chunks_seen
      /\ c.last_chunk_seen = d.last_chunk_seen /\ c.chunks_consumed = n
      /\ c.checksums = d.checksums /\ c.checksums_verified = d.checksums_verified
      /\ c.checksums_total = d.checksums_total /\ c.chunks_loaded = d.chunks_loaded
  BY <1>4 DEF PartTypes
<1>6. PICK done \in BOOLEAN : done = (log.bulk[q] = "DONE")
  OBVIOUS
<1>7. PICK e : e = IF done THEN [c EXCEPT !.chunks_loaded = n] ELSE c
  OBVIOUS
<1>8. /\ e \in PartTypes
      /\ e.available_chunks = d.available_chunks /\ e.chunks_seen = d.chunks_seen
      /\ e.last_chunk_seen = d.last_chunk_seen /\ e.chunks_consumed = n
      /\ e.checksums = d.checksums /\ e.checksums_verified = d.checksums_verified
      /\ e.checksums_total = d.checksums_total
      /\ e.chunks_loaded = IF done THEN n ELSE d.chunks_loaded
  BY <1>5, <1>7 DEF PartTypes
<1>9. /\ m_tables_with_data' = m_tables_with_data \ {q}
      /\ part' = [part EXCEPT ![q] = e]
      /\ IF done \/ ~opt.load_data
         THEN UNCHANGED <<m_task, state, pc, current>>
         ELSE Assign(Task("bulk", q, 0))
  BY <1>1, <1>2, <1>3, <1>6, <1>7, Zenon DEF ScheduleBulkLoad, workerVars
<1>10. d.chunks_consumed = 0 /\ 0 < n /\ n = Available(d)
  BY <1>1, <1>2 DEF has_data_available, has_value, Available, BulkLoadTried
<1>11. Consumes(q, e)
  BY <1>1, <1>8, <1>9, <1>10 DEF Consumes
<1>12. has_data(q) /\ part[q].last_chunk_seen
  <2>1. Available(part[q]) <= Chunks[q] /\ Chunks[q] \in Nat
    BY ReaderAssumption DEF IInv, Seen
  <2>2. has_data(q)
    BY <1>1, <1>10, <2>1 DEF has_data
  <2> QED
    BY <2>2 DEF BulkLoadTried, data_dumped, all_chunks_are
<1>13. Task("bulk", q, 0) \in TaskTypes
  BY DEF Task, TaskTypes
<1>14. CASE done \/ ~opt.load_data
  <2>1. NoneAssigned
    BY <1>9, <1>14 DEF NoneAssigned
  <2>2. Types' /\ Control' /\ Seen' /\ Indexes' /\ Analysis' /\ Order' /\ Checks' /\ Ok'
    BY <2>1, <1>11, ConsumedKept
  <2>3. ASSUME opt.load_data
        PROVE  /\ \A i \in part[q].chunks_consumed .. e.chunks_consumed - 1 : InLog(q, i)
               /\ e.chunks_loaded + part[q].chunks_consumed
                    = part[q].chunks_loaded + e.chunks_consumed
    <3>1. done
      BY <1>14, <2>3
    <3>2. \A i : InLog(q, i)
      BY <1>6, <3>1 DEF InLog
    <3>3. d.chunks_loaded = 0
      <4>1. part[q].chunks_consumed < Available(part[q])
        BY <1>1, <1>10
      <4>2. ~Bulk(q)
        BY <4>1, NoBulk
      <4>3. d.chunks_loaded \in Nat /\ Cardinality(LoadersOf(q)) \in Nat
        BY FiniteHolders DEF PartTypes
      <4>4. d.chunks_loaded + Cardinality(LoadersOf(q)) = 0
        BY <1>1, <1>10, <2>3, <4>2 DEF IInv, Counted
      <4> QED
        BY <4>3, <4>4
    <3> QED
      BY <1>1, <1>8, <1>10, <3>1, <3>2, <3>3
  <2>4. Tasks' /\ Counted' /\ Loads'
    BY <2>1, <2>3, <1>11, ConsumedNone
  <2> QED
    BY <2>2, <2>4 DEF IInv
<1>15. CASE ~(done \/ ~opt.load_data)
  <2>1. Assign(Task("bulk", q, 0))
    BY <1>9, <1>15
  <2>2. PICK task \in TaskTypes : task = Task("bulk", q, 0)
    BY <1>13
  <2>3. task.type = "bulk" /\ task.of = q /\ Assign(task)
    BY <2>1, <2>2, TaskFields
  <2>4. Types' /\ Control' /\ Seen' /\ Indexes' /\ Analysis' /\ Order' /\ Checks' /\ Ok'
    BY <2>3, <1>11, ConsumedKept DEF LoadAssigned
  <2>5. /\ part[q].chunks_consumed = 0
        /\ e.chunks_consumed = Available(part[q])
        /\ e.chunks_loaded = part[q].chunks_loaded
        /\ opt.load_data
    BY <1>1, <1>8, <1>10, <1>15
  <2>6. Tasks' /\ Counted' /\ Loads'
    BY <2>3, <2>5, <1>11, <1>12, BulkAssigned
  <2> QED
    BY <2>4, <2>6 DEF IInv
<1> QED
  BY <1>14, <1>15

LEMMA NextTableChunkStep ==
  ASSUME IInv, NextTableChunk
  PROVE  IInv'
<1>1. PICK q \in Candidates :
        /\ has_data_available(part[q])
        /\ IF BulkLoadTried(q)
           THEN \E c \in ensure_table_compatible(Owner[q]) :
                  /\ m_compatibility_status' =
                       [m_compatibility_status EXCEPT ![Owner[q]] = c]
                  /\ IF c = "yes" THEN ScheduleBulkLoad(q) ELSE ScheduleTableChunk(q)
           ELSE UNCHANGED m_compatibility_status /\ ScheduleTableChunk(q)
  BY DEF NextTableChunk
<1>2. q \in Parts /\ Owner[q] \in Tables
  BY CandidatesHaveData, ReaderAssumption DEF IInv, Types
<1>3. pc = "next" /\ UnchangedByData
  BY DEF NextTableChunk, UnchangedByData, historyVars
<1>4. m_compatibility_status \in [Tables -> {"unknown", "yes", "no"}]
  BY DEF IInv, Types
<1>5. CASE ~BulkLoadTried(q)
  <2>1. UNCHANGED m_compatibility_status /\ ScheduleTableChunk(q)
    BY <1>1, <1>5
  <2>2. CompatibleIfEmpty
    BY <1>4, <2>1 DEF CompatibleIfEmpty
  <2> QED
    BY <1>1, <1>2, <1>3, <2>1, <2>2, ScheduleChunkStep
<1>6. CASE BulkLoadTried(q)
  <2>1. PICK c \in ensure_table_compatible(Owner[q]) :
          /\ m_compatibility_status' = [m_compatibility_status EXCEPT ![Owner[q]] = c]
          /\ IF c = "yes" THEN ScheduleBulkLoad(q) ELSE ScheduleTableChunk(q)
    BY <1>1, <1>6
  <2>2. /\ c \in {"unknown", "yes", "no"}
        /\ c = "yes" => m_compatibility_status[Owner[q]] = "yes" \/ Empty(Owner[q])
    BY <1>2, <1>4 DEF ensure_table_compatible
  <2>3. /\ CompatibleIfEmpty
        /\ m_compatibility_status'[Owner[q]] = c
    BY <1>2, <1>4, <2>1, <2>2 DEF CompatibleIfEmpty
  <2>4. CASE c = "yes"
    BY <1>1, <1>2, <1>3, <1>6, <2>1, <2>3, <2>4, ScheduleBulkStep
  <2>5. CASE c # "yes"
    BY <1>1, <1>2, <1>3, <2>1, <2>3, <2>5, ScheduleChunkStep
  <2> QED
    BY <2>4, <2>5
<1> QED
  BY <1>5, <1>6
-----------------------------------------------------------------------------
(***************************************************************************)
(* The other tasks.                                                        *)
(***************************************************************************)

\* Data that counts as loaded was loaded.
LEMMA LoadedData ==
  ASSUME IInv, NEW p \in Parts, opt.load_data, data_loaded(p)
  PROVE  \A i \in ChunksOf(p) : loads[p][i] >= 1
<1> SUFFICES ASSUME NEW i \in ChunksOf(p) PROVE loads[p][i] >= 1
  OBVIOUS
<1>1. Chunks[p] \in Nat /\ i \in Nat /\ i < Chunks[p]
  BY ReaderAssumption DEF ChunksOf
<1>2. has_data(p)
  BY <1>1 DEF has_data
<1>3. part[p].last_chunk_seen /\ part[p].chunks_loaded = Available(part[p])
  BY <1>2 DEF data_loaded, all_chunks_are, Available
<1>4. Available(part[p]) = Chunks[p] /\ part[p].chunks_consumed <= Available(part[p])
  BY <1>3 DEF IInv, Seen
<1>5. part[p].chunks_loaded \in Nat /\ part[p].chunks_consumed \in Nat
  BY DEF IInv, Types, PartTypes
<1>6. IF Bulk(p)
      THEN part[p].chunks_loaded = 0 /\ LoadersOf(p) = {}
      ELSE part[p].chunks_loaded + Cardinality(LoadersOf(p)) = part[p].chunks_consumed
  BY DEF IInv, Counted
<1>7. ~Bulk(p)
  BY <1>1, <1>3, <1>4, <1>6
<1>8. Cardinality(LoadersOf(p)) = 0 /\ part[p].chunks_consumed = Chunks[p]
  BY <1>1, <1>3, <1>4, <1>5, <1>6, <1>7, FiniteHolders
<1>9. LoadersOf(p) = {}
  BY <1>8, FiniteHolders, FS_EmptySet
<1>10. \A w \in Workers : ~Covers(w, p, i)
  BY <1>7, <1>9 DEF Covers, LoadersOf, Bulk
<1> QED
  BY <1>1, <1>8, <1>10 DEF IInv, Loads

LEMMA LoadedTable ==
  ASSUME IInv, NEW t \in Tables, ~opt.load_data \/ all_data_loaded(t)
  PROVE  AllLoaded(t)
BY LoadedData DEF AllLoaded, all_data_loaded, PartsOf

\* What the other tasks leave alone.
UnchangedByTasks ==
  UNCHANGED <<opt, m_dump_status, md_done, m_tables_with_data, caller, snapshot, outcome, loads,
              executed, files, log, m_compatibility_status>>

\* The chunks of all parts are as they were.
ChunksAsBefore ==
  /\ part' \in [Parts -> PartTypes]
  /\ \A p \in Parts :
       /\ part'[p].available_chunks = part[p].available_chunks
       /\ part'[p].chunks_seen = part[p].chunks_seen
       /\ part'[p].last_chunk_seen = part[p].last_chunk_seen
       /\ part'[p].chunks_consumed = part[p].chunks_consumed
       /\ part'[p].chunks_loaded = part[p].chunks_loaded

\* Another task is given to the worker.
OtherAssigned(task) ==
  /\ task.type \in {"index", "analyze", "checksum"}
  /\ Assign(task)

LEMMA OtherAssignedFacts ==
  ASSUME IInv, pc = "others", NEW task \in TaskTypes, OtherAssigned(task)
  PROVE
      /\ current \in Workers
      /\ pc' = "events"
      /\ m_task' \in TaskMap /\ state' \in StateMap
      /\ \A w \in Workers : Held(w)' => m_task'[w] \in TaskTypes
      /\ \A w \in Workers : /\ state'[w] = "busy" <=> (state[w] = "busy" \/ w = current)
                            /\ state'[w] = "ended" <=> state[w] = "ended"
      /\ m_task'[current] = task
      /\ \A w \in Workers : w # current => m_task'[w] = m_task[w]
      /\ \A w \in Workers : \A type, of :
           Holds(w, type, of)' <=> IF w = current THEN task.type = type /\ task.of = of
                                                  ELSE Holds(w, type, of)
      /\ \A type, of : ~Holds(current, type, of)
      /\ UNCHANGED executed => Runs(task)' /\ \A t : Runs(t) => Runs(t)'
<1>1. current \in Workers /\ state[current] = "ready" /\ Assign(task)
  BY DEF IInv, Control, OtherAssigned
<1>2. /\ pc' = "events"
      /\ m_task' \in TaskMap /\ state' \in StateMap
      /\ \A w \in Workers : Held(w)' => m_task'[w] \in TaskTypes
      /\ \A w \in Workers : /\ state'[w] = "busy" <=> (state[w] = "busy" \/ w = current)
                            /\ state'[w] = "ended" <=> state[w] = "ended"
      /\ m_task'[current] = task
      /\ \A w \in Workers : w # current => m_task'[w] = m_task[w]
      /\ \A w \in Workers : \A type, of :
           Holds(w, type, of)' <=> IF w = current THEN task.type = type /\ task.of = of
                                                  ELSE Holds(w, type, of)
      /\ \A type, of : ~Holds(current, type, of)
  BY <1>1, Assigned DEF IInv
<1>3. UNCHANGED executed => Runs(task)' /\ \A t : Runs(t) => Runs(t)'
  BY <1>1, <1>2 DEF Runs
<1> QED
  BY <1>1, <1>2, <1>3

\* Whatever task it is, what is known of the data stays.
LEMMA OtherTaskKept ==
  ASSUME IInv, pc = "others", UnchangedByTasks, ChunksAsBefore,
         table' \in [Tables -> TableTypes],
         NoneAssigned \/ \E task \in TaskTypes : OtherAssigned(task)
  PROVE  Types' /\ Control' /\ Seen' /\ Tasks' /\ Counted' /\ Loads' /\ Ok'
<1>1. current \in Workers /\ state[current] = "ready" /\ md_done = Tables /\ outcome # "ok"
  BY DEF IInv, Control
<1>2. /\ m_task' \in TaskMap /\ state' \in StateMap
      /\ \A w \in Workers : Held(w)' => m_task'[w] \in TaskTypes
      /\ \A w \in Workers : \A p \in Parts :
           /\ Holds(w, "chunk", p)' <=> Holds(w, "chunk", p)
           /\ Holds(w, "bulk", p)' <=> Holds(w, "bulk", p)
           /\ Holds(w, "chunk", p) => m_task'[w] = m_task[w]
           /\ Holds(w, "chunk", p) \/ Holds(w, "bulk", p) =>
                (state'[w] = "busy" <=> state[w] = "busy")
      /\ pc' = "events" \/ (pc' = "others" /\ current' \in Workers /\ state'[current'] = "ready")
  <2>1. CASE NoneAssigned
    <3>1. UNCHANGED <<m_task, state, pc, current>>
      BY <2>1 DEF NoneAssigned
    <3>2. \A w \in Workers : \A type, of : Holds(w, type, of)' <=> Holds(w, type, of)
      BY <3>1 DEF Holds, Held
    <3> QED
      BY <1>1, <3>1, <3>2 DEF IInv, Types, TaskMap, StateMap, Held
  <2>2. CASE \E task \in TaskTypes : OtherAssigned(task)
    <3>1. PICK task \in TaskTypes : OtherAssigned(task)
      BY <2>2
    <3>2. /\ pc' = "events"
          /\ m_task' \in TaskMap /\ state' \in StateMap
          /\ \A w \in Workers : Held(w)' => m_task'[w] \in TaskTypes
          /\ \A w \in Workers : state'[w] = "busy" <=> (state[w] = "busy" \/ w = current)
          /\ \A w \in Workers : w # current => m_task'[w] = m_task[w]
          /\ \A w \in Workers : \A type, of :
               Holds(w, type, of)' <=> IF w = current THEN task.type = type /\ task.of = of
                                                      ELSE Holds(w, type, of)
          /\ \A type, of : ~Holds(current, type, of)
      BY <3>1, OtherAssignedFacts
    <3>3. task.type # "chunk" /\ task.type # "bulk"
      BY <3>1 DEF OtherAssigned
    <3> QED
      BY <3>2, <3>3
  <2> QED
    BY <2>1, <2>2
<1>3. Types'
  BY <1>2 DEF IInv, Types, TaskMap, StateMap, UnchangedByTasks, ChunksAsBefore, Phases
<1>4. Control'
  BY <1>1, <1>2 DEF Control, UnchangedByTasks
<1>5. Seen'
  BY <1>2, SeenKept DEF IInv, UnchangedByTasks, ChunksAsBefore
<1>6. Tasks' /\ Counted' /\ Loads'
  BY <1>2, LoadKept DEF IInv, UnchangedByTasks, ChunksAsBefore
<1>7. Ok'
  BY NotOk DEF UnchangedByTasks
<1> QED
  BY <1>3, <1>4, <1>5, <1>6, <1>7

LEMMA NextDeferredIndexStep ==
  ASSUME IInv, NextDeferredIndex
  PROVE  IInv'
<1>1. PICK u \in Tables : /\ IndexesDue(u)
                          /\ table' = [table EXCEPT ![u].indexes_scheduled = TRUE]
                          /\ Assign(Task("index", u, 0))
  BY DEF NextDeferredIndex
<1>2. pc = "others" /\ UnchangedByTasks /\ part' = part
  BY DEF NextDeferredIndex, unchangedByOthers, UnchangedByTasks, historyVars
<1>3. PICK task \in TaskTypes : task = Task("index", u, 0)
  BY DEF Task, TaskTypes
<1>4. task.type = "index" /\ task.of = u /\ OtherAssigned(task)
  BY <1>1, <1>3, TaskFields DEF OtherAssigned
<1>5. /\ current \in Workers
      /\ \A w \in Workers : /\ state'[w] = "busy" <=> (state[w] = "busy" \/ w = current)
                            /\ state'[w] = "ended" <=> state[w] = "ended"
      /\ m_task'[current] = task
      /\ \A w \in Workers : w # current => m_task'[w] = m_task[w]
      /\ \A w \in Workers : \A type, of :
           Holds(w, type, of)' <=> IF w = current THEN task.type = type /\ task.of = of
                                                  ELSE Holds(w, type, of)
      /\ \A type, of : ~Holds(current, type, of)
      /\ UNCHANGED executed => Runs(task)' /\ \A t : Runs(t) => Runs(t)'
  BY <1>2, <1>4, OtherAssignedFacts
<1>6. /\ table' \in [Tables -> TableTypes]
      /\ \A t \in Tables :
           /\ table'[t].indexes_scheduled <=> (table[t].indexes_scheduled \/ t = u)
           /\ table'[t].indexes_created = table[t].indexes_created
           /\ table'[t].analyze_scheduled = table[t].analyze_scheduled
           /\ table'[t].analyze_finished = table[t].analyze_finished
  <2>1. table \in [Tables -> TableTypes]
    BY DEF IInv, Types
  <2>2. table' = [table EXCEPT ![u].indexes_scheduled = TRUE]
    BY <1>1
  <2>3. ASSUME NEW t \in Tables
        PROVE  /\ table'[t] \in TableTypes
               /\ \A f \in {"indexes_scheduled", "indexes_created",
                            "analyze_scheduled", "analyze_finished"} :
                    table'[t][f] = IF t = u /\ f = "indexes_scheduled" THEN TRUE ELSE table[t][f]
    <3>1. table[t] \in TableTypes
      BY <2>1
    <3>2. CASE t = u
      <4>1. table'[t] = [table[t] EXCEPT !.indexes_scheduled = TRUE]
        BY <2>1, <2>2, <3>2
      <4> QED
        BY <3>1, <3>2, <4>1 DEF TableTypes
    <3>3. CASE t # u
      <4>1. table'[t] = table[t]
        BY <2>1, <2>2, <3>3
      <4> QED
        BY <3>1, <3>3, <4>1
    <3> QED
      BY <3>2, <3>3
  <2>4. table' \in [Tables -> TableTypes]
    BY <2>1, <2>2, <2>3
  <2> QED
    BY <2>1, <2>3, <2>4 DEF TableTypes
<1>7. UNCHANGED <<opt, loads, executed>>
  BY <1>2 DEF UnchangedByTasks
<1>8. Types' /\ Control' /\ Seen' /\ Tasks' /\ Counted' /\ Loads' /\ Ok'
  <2>1. ChunksAsBefore
    BY <1>2 DEF ChunksAsBefore, IInv, Types
  <2> QED
    BY <1>2, <1>4, <1>6, <2>1, OtherTaskKept
<1>9. Indexes'
  <2>1. Runs(Task("index", u, 0))'
    BY <1>3, <1>5, <1>7
  <2>2. \A t : Runs(Task("index", t, 0)) => Runs(Task("index", t, 0))'
    BY <1>5, <1>7
  <2> QED
    BY <1>6, <1>7, <2>1, <2>2 DEF IInv, Indexes, Task
<1>10. Analysis'
  <2>1. \A t : Runs(Task("analyze", t, 0)) => Runs(Task("analyze", t, 0))'
    BY <1>5, <1>7
  <2>2. \A w \in Workers : \A t : Holds(w, "analyze", t)' <=> Holds(w, "analyze", t)
    BY <1>4, <1>5
  <2> QED
    BY <1>6, <1>7, <2>1, <2>2 DEF IInv, Analysis, Analysed, Task
<1>11. Order'
  <2>1. \A t \in Tables : AllLoaded(t)' <=> AllLoaded(t)
    BY <1>7 DEF AllLoaded, PartsOf, ChunksOf
  <2>2. AllLoaded(u)
    BY <1>1, LoadedTable DEF IndexesDue
  <2>3. \A w \in Workers : \A t :
          /\ Holds(w, "index", t)' => Holds(w, "index", t) \/ (t = u /\ w = current)
          /\ Holds(w, "analyze", t)' => Holds(w, "analyze", t)
          /\ Holds(w, "checksum", t)' => Holds(w, "checksum", t)
    BY <1>4, <1>5
  <2>4. state'[current] # "ended" /\ \A p \in Parts : Owner[p] \in Tables
    BY <1>5, ReaderAssumption DEF IInv, Control
  <2> SUFFICES ASSUME NEW w \in Workers
               PROVE  Order!(w)!1' /\ Order!(w)!2'
    BY DEF Order
  <2>5. Order!(w)!1 /\ Order!(w)!2
    BY DEF IInv, Order
  <2>6. Order!(w)!1'
    BY <1>5, <1>6, <1>7, <2>1, <2>2, <2>3, <2>4, <2>5 DEF Task
  <2>7. Order!(w)!2'
    BY <1>6, <1>7, <2>3, <2>4, <2>5 DEF ChunksOf
  <2> QED
    BY <2>6, <2>7
<1>12. Checks'
  <2>1. \A p \in Parts : Total(p)' = Total(p)
    BY <1>2 DEF Total, UnchangedByTasks
  <2>2. \A w \in Workers : \A p \in Parts :
          Holds(w, "checksum", p)' <=> Holds(w, "checksum", p)
    BY <1>4, <1>5
  <2> QED
    BY <1>2, <1>5, <1>7, <2>1, <2>2, ChecksKept DEF IInv
<1> QED
  BY <1>8, <1>9, <1>10, <1>11, <1>12 DEF IInv

LEMMA NextTableAnalyzeStep ==
  ASSUME IInv, NextTableAnalyze
  PROVE  IInv'
<1>1. PICK u \in Tables : /\ AnalyzeDue(u)
                          /\ table' = [table EXCEPT ![u].analyze_scheduled = TRUE]
                          /\ IF opt.analyze = "ON" \/ u \in Histograms
                             THEN Assign(Task("analyze", u, 0))
                             ELSE UNCHANGED <<workerVars, pc, current>>
  BY DEF NextTableAnalyze
<1>2. pc = "others" /\ UnchangedByTasks /\ part' = part
  BY DEF NextTableAnalyze, unchangedByOthers, UnchangedByTasks, historyVars
<1>3. PICK task \in TaskTypes : task = Task("analyze", u, 0)
  BY DEF Task, TaskTypes
<1>4. task.type = "analyze" /\ task.of = u
      /\ IF opt.analyze = "ON" \/ u \in Histograms THEN OtherAssigned(task) ELSE NoneAssigned
  BY <1>1, <1>3, TaskFields DEF OtherAssigned, NoneAssigned, workerVars
<1>5. UNCHANGED <<opt, loads, executed>>
  BY <1>2 DEF UnchangedByTasks
<1>6. /\ \A w \in Workers : \A t :
           /\ Holds(w, "index", t)' <=> Holds(w, "index", t)
           /\ Holds(w, "checksum", t)' <=> Holds(w, "checksum", t)
           /\ Holds(w, "analyze", t)' => Holds(w, "analyze", t) \/ (t = u /\ w = current)
      /\ \A w \in Workers : state'[w] = "ended" <=> state[w] = "ended"
      /\ \A t : Runs(t) => Runs(t)'
      /\ Analysed(u) => Runs(task)'
  <2>1. CASE opt.analyze = "ON" \/ u \in Histograms
    <3>1. /\ \A w \in Workers : state'[w] = "ended" <=> state[w] = "ended"
          /\ \A w \in Workers : \A type, of :
               Holds(w, type, of)' <=> IF w = current THEN task.type = type /\ task.of = of
                                                      ELSE Holds(w, type, of)
          /\ \A type, of : ~Holds(current, type, of)
          /\ UNCHANGED executed => Runs(task)' /\ \A t : Runs(t) => Runs(t)'
      BY <1>2, <1>4, <2>1, OtherAssignedFacts
    <3> QED
      BY <1>4, <1>5, <3>1
  <2>2. CASE ~(opt.analyze = "ON" \/ u \in Histograms)
    <3>1. UNCHANGED <<m_task, state, executed>>
      BY <1>4, <1>5, <2>2 DEF NoneAssigned
    <3>2. \A w \in Workers : \A type, of : Holds(w, type, of)' <=> Holds(w, type, of)
      BY <3>1 DEF Holds, Held
    <3>3. \A t : Runs(t) => Runs(t)'
      BY <3>1 DEF Runs
    <3>4. ~Analysed(u)
      BY <2>2 DEF Analysed
    <3> QED
      BY <3>1, <3>2, <3>3, <3>4
  <2> QED
    BY <2>1, <2>2
<1>7. /\ table' \in [Tables -> TableTypes]
      /\ \A t \in Tables :
           /\ table'[t].indexes_scheduled = table[t].indexes_scheduled
           /\ table'[t].indexes_created = table[t].indexes_created
           /\ table'[t].analyze_scheduled <=> (table[t].analyze_scheduled \/ t = u)
           /\ table'[t].analyze_finished = table[t].analyze_finished
  <2>1. table \in [Tables -> TableTypes]
    BY DEF IInv, Types
  <2>2. table' = [table EXCEPT ![u].analyze_scheduled = TRUE]
    BY <1>1
  <2>3. ASSUME NEW t \in Tables
        PROVE  /\ table'[t] \in TableTypes
               /\ \A f \in {"indexes_scheduled", "indexes_created",
                            "analyze_scheduled", "analyze_finished"} :
                    table'[t][f] = IF t = u /\ f = "analyze_scheduled" THEN TRUE ELSE table[t][f]
    <3>1. table[t] \in TableTypes
      BY <2>1
    <3>2. CASE t = u
      <4>1. table'[t] = [table[t] EXCEPT !.analyze_scheduled = TRUE]
        BY <2>1, <2>2, <3>2
      <4> QED
        BY <3>1, <3>2, <4>1 DEF TableTypes
    <3>3. CASE t # u
      <4>1. table'[t] = table[t]
        BY <2>1, <2>2, <3>3
      <4> QED
        BY <3>1, <3>3, <4>1
    <3> QED
      BY <3>2, <3>3
  <2>4. table' \in [Tables -> TableTypes]
    BY <2>1, <2>2, <2>3
  <2> QED
    BY <2>1, <2>3, <2>4 DEF TableTypes
<1>8. Types' /\ Control' /\ Seen' /\ Tasks' /\ Counted' /\ Loads' /\ Ok'
  <2>1. ChunksAsBefore
    BY <1>2 DEF ChunksAsBefore, IInv, Types
  <2>2. NoneAssigned \/ \E x \in TaskTypes : OtherAssigned(x)
    BY <1>4
  <2> QED
    BY <1>2, <1>7, <2>1, <2>2, OtherTaskKept
<1>9. Indexes'
  <2>1. \A t : Runs(Task("index", t, 0)) => Runs(Task("index", t, 0))'
    BY <1>6
  <2> QED
    BY <1>5, <1>7, <2>1 DEF IInv, Indexes, Task
<1>10. Analysis'
  <2>1. \A t : Runs(Task("analyze", t, 0)) => Runs(Task("analyze", t, 0))'
    BY <1>6
  <2>2. \A w \in Workers : ~Holds(w, "analyze", u)
    BY <1>1 DEF IInv, Analysis, AnalyzeDue
  <2>3. ~table[u].analyze_finished
    BY <1>1 DEF IInv, Analysis, AnalyzeDue
  <2>4. Analysed(u) => Runs(Task("analyze", u, 0))'
    BY <1>3, <1>6
  <2> SUFFICES ASSUME NEW t \in Tables
               PROVE  /\ Analysis!(t)!1' /\ Analysis!(t)!2' /\ Analysis!(t)!3'
                      /\ Analysis!(t)!4'
    BY DEF Analysis
  <2>5. Analysis!(t)!1 /\ Analysis!(t)!2 /\ Analysis!(t)!3 /\ Analysis!(t)!4
    BY DEF IInv, Analysis
  <2>6. Analysis!(t)!1'
    BY <1>6, <1>7, <2>3, <2>5
  <2>7. Analysis!(t)!2'
    BY <1>7, <2>5
  <2>8. Analysis!(t)!3'
    BY <1>6, <2>2, <2>5
  <2>9. Analysis!(t)!4'
    <3>1. Analysed(t)' <=> Analysed(t)
      BY <1>5 DEF Analysed
    <3> QED
      BY <1>7, <2>1, <2>4, <2>5, <3>1 DEF Task
  <2> QED
    BY <2>6, <2>7, <2>8, <2>9
<1>11. Order'
  <2>1. \A t \in Tables : AllLoaded(t)' <=> AllLoaded(t)
    BY <1>5 DEF AllLoaded, PartsOf, ChunksOf
  <2>2. AllLoaded(u) /\ table[u].indexes_created
    BY <1>1, LoadedTable DEF AnalyzeDue
  <2>3. \A p \in Parts : Owner[p] \in Tables
    BY ReaderAssumption
  <2> SUFFICES ASSUME NEW w \in Workers
               PROVE  Order!(w)!1' /\ Order!(w)!2'
    BY DEF Order
  <2>4. Order!(w)!1 /\ Order!(w)!2
    BY DEF IInv, Order
  <2>5. Order!(w)!1'
    BY <1>5, <1>6, <1>7, <2>1, <2>2, <2>4 DEF Task
  <2>6. Order!(w)!2'
    BY <1>5, <1>6, <1>7, <2>3, <2>4 DEF ChunksOf
  <2> QED
    BY <2>5, <2>6
<1>12. Checks'
  <2>1. \A p \in Parts : Total(p)' = Total(p)
    BY <1>2 DEF Total, UnchangedByTasks
  <2> QED
    BY <1>2, <1>5, <1>6, <2>1, ChecksKept DEF IInv
<1> QED
  BY <1>8, <1>9, <1>10, <1>11, <1>12 DEF IInv

LEMMA NextTableChecksumStep ==
  ASSUME IInv, NextTableChecksum
  PROVE  IInv'
<1>1. PICK q \in Parts :
        /\ ChecksumDue(q)
        /\ IF table_exists(Owner[q])
           THEN /\ part' = [part EXCEPT ![q].checksums = @ - 1]
                /\ Assign(Task("checksum", q, part[q].checksums))
           ELSE /\ part' = [part EXCEPT ![q].checksums = @ - 1,
                                        ![q].checksums_verified = @ + 1]
                /\ UNCHANGED <<workerVars, pc, current>>
  BY DEF NextTableChecksum
<1>2. pc = "others" /\ UnchangedByTasks /\ table' = table
  BY DEF NextTableChecksum, unchangedByOthers, UnchangedByTasks, historyVars
<1>3. PICK d \in PartTypes : d = part[q]
  BY DEF IInv, Types
<1>4. PICK n \in Nat : n = d.checksums /\ n > 0
  BY <1>1, <1>3 DEF PartTypes, ChecksumDue
<1>5. PICK e : e = IF table_exists(Owner[q]) THEN [d EXCEPT !.checksums = n - 1]
                   ELSE [d EXCEPT !.checksums = n - 1, !.checksums_verified = @ + 1]
  OBVIOUS
<1>6. part' = [part EXCEPT ![q] = e]
  BY <1>1, <1>3, <1>4, <1>5 DEF PartTypes, IInv, Types
<1>7. /\ e \in PartTypes
      /\ e.available_chunks = d.available_chunks /\ e.chunks_seen = d.chunks_seen
      /\ e.last_chunk_seen = d.last_chunk_seen /\ e.chunks_consumed = d.chunks_consumed
      /\ e.checksums = n - 1 /\ e.checksums_total = d.checksums_total
      /\ e.chunks_loaded = d.chunks_loaded
      /\ e.checksums_verified = IF table_exists(Owner[q]) THEN d.checksums_verified
                                                         ELSE d.checksums_verified + 1
  <2>1. CASE table_exists(Owner[q])
    <3>1. e = [d EXCEPT !.checksums = n - 1]
      BY <1>5, <2>1
    <3> QED
      BY <1>4, <2>1, <3>1 DEF PartTypes
  <2>2. CASE ~table_exists(Owner[q])
    <3>1. e = [d EXCEPT !.checksums = n - 1, !.checksums_verified = @ + 1]
      BY <1>5, <2>2
    <3>2. PICK c \in PartTypes : c = [d EXCEPT !.checksums = n - 1]
      <4>1. PICK k \in Nat : k = n - 1
        BY <1>4
      <4>2. [d EXCEPT !.checksums = k] \in PartTypes
        BY DEF PartTypes
      <4> QED
        BY <4>1, <4>2
    <3>3. e = [c EXCEPT !.checksums_verified = @ + 1]
      BY <3>1, <3>2
    <3>4. /\ c.available_chunks = d.available_chunks /\ c.chunks_seen = d.chunks_seen
          /\ c.last_chunk_seen = d.last_chunk_seen /\ c.chunks_consumed = d.chunks_consumed
          /\ c.checksums = n - 1 /\ c.checksums_total = d.checksums_total
          /\ c.chunks_loaded = d.chunks_loaded /\ c.checksums_verified = d.checksums_verified
      BY <3>2 DEF PartTypes
    <3>5. c.checksums_verified + 1 \in Nat
      BY DEF PartTypes
    <3>6. /\ e \in PartTypes
          /\ e.available_chunks = c.available_chunks /\ e.chunks_seen = c.chunks_seen
          /\ e.last_chunk_seen = c.last_chunk_seen /\ e.chunks_consumed = c.chunks_consumed
          /\ e.checksums = c.checksums /\ e.checksums_total = c.checksums_total
          /\ e.chunks_loaded = c.chunks_loaded
          /\ e.checksums_verified = c.checksums_verified + 1
      BY <3>3, <3>5 DEF PartTypes
    <3> QED
      BY <2>2, <3>4, <3>6
  <2> QED
    BY <2>1, <2>2
<1>8. part' \in [Parts -> PartTypes] /\ part'[q] = e /\ \A p \in Parts : p # q => part'[p] = part[p]
  BY <1>6, <1>7 DEF IInv, Types
<1>9. PICK task \in TaskTypes : task = Task("checksum", q, n)
  BY DEF Task, TaskTypes
<1>10. task.type = "checksum" /\ task.of = q
       /\ IF table_exists(Owner[q]) THEN OtherAssigned(task) ELSE NoneAssigned
  BY <1>1, <1>3, <1>4, <1>9, TaskFields DEF OtherAssigned, NoneAssigned, workerVars
<1>11. UNCHANGED <<opt, loads, executed>>
  BY <1>2 DEF UnchangedByTasks
<1>12. /\ current \in Workers
       /\ \A w \in Workers : \A t :
            /\ Holds(w, "index", t)' <=> Holds(w, "index", t)
            /\ Holds(w, "analyze", t)' <=> Holds(w, "analyze", t)
            /\ Holds(w, "checksum", t)' <=>
                 \/ Holds(w, "checksum", t)
                 \/ t = q /\ w = current /\ table_exists(Owner[q])
       /\ ~Holds(current, "checksum", q)
       /\ \A w \in Workers : state'[w] = "ended" <=> state[w] = "ended"
       /\ \A t : Runs(t) => Runs(t)'
       /\ table_exists(Owner[q]) => Runs(task)'
  <2>1. CASE table_exists(Owner[q])
    <3>1. /\ current \in Workers
          /\ \A w \in Workers : state'[w] = "ended" <=> state[w] = "ended"
          /\ \A w \in Workers : \A type, of :
               Holds(w, type, of)' <=> IF w = current THEN task.type = type /\ task.of = of
                                                      ELSE Holds(w, type, of)
          /\ \A type, of : ~Holds(current, type, of)
          /\ UNCHANGED executed => Runs(task)' /\ \A t : Runs(t) => Runs(t)'
      BY <1>2, <1>10, <2>1, OtherAssignedFacts
    <3> QED
      BY <1>10, <1>11, <2>1, <3>1
  <2>2. CASE ~table_exists(Owner[q])
    <3>1. UNCHANGED <<m_task, state, executed>> /\ current \in Workers
          /\ state[current] = "ready"
      BY <1>2, <1>10, <1>11, <2>2 DEF NoneAssigned, IInv, Control
    <3>2. \A w \in Workers : \A type, of : Holds(w, type, of)' <=> Holds(w, type, of)
      BY <3>1 DEF Holds, Held
    <3>3. \A t : Runs(t) => Runs(t)'
      BY <3>1 DEF Runs
    <3>4. ~Holds(current, "checksum", q)
      BY <3>1 DEF Holds, Held
    <3> QED
      BY <2>2, <3>1, <3>2, <3>3, <3>4
  <2> QED
    BY <2>1, <2>2
<1>13. Types' /\ Control' /\ Seen' /\ Tasks' /\ Counted' /\ Loads' /\ Ok'
  <2>1. ChunksAsBefore
    BY <1>3, <1>7, <1>8 DEF ChunksAsBefore
  <2>2. NoneAssigned \/ \E x \in TaskTypes : OtherAssigned(x)
    BY <1>10
  <2>3. table' \in [Tables -> TableTypes]
    BY <1>2 DEF IInv, Types
  <2> QED
    BY <1>2, <2>1, <2>2, <2>3, OtherTaskKept
<1>14. Indexes'
  <2>1. \A t : Runs(Task("index", t, 0)) => Runs(Task("index", t, 0))'
    BY <1>12
  <2> QED
    BY <1>2, <1>11, <2>1 DEF IInv, Indexes, Task
<1>15. Analysis'
  <2>1. \A t : Runs(Task("analyze", t, 0)) => Runs(Task("analyze", t, 0))'
    BY <1>12
  <2> QED
    BY <1>2, <1>11, <1>12, <2>1 DEF IInv, Analysis, Analysed, Task
<1>16. Order'
  <2>1. \A t \in Tables : AllLoaded(t)' <=> AllLoaded(t)
    BY <1>11 DEF AllLoaded, PartsOf, ChunksOf
  <2>2. opt.load_data => \A i \in ChunksOf(q) : loads[q][i] >= 1
    BY <1>1, LoadedData DEF ChecksumDue
  <2>3. table[Owner[q]].indexes_created /\ table[Owner[q]].analyze_finished
    BY <1>1 DEF ChecksumDue
  <2> SUFFICES ASSUME NEW w \in Workers
               PROVE  Order!(w)!1' /\ Order!(w)!2'
    BY DEF Order
  <2>4. Order!(w)!1 /\ Order!(w)!2
    BY DEF IInv, Order
  <2>5. Order!(w)!1'
    BY <1>2, <1>11, <1>12, <2>1, <2>4 DEF Task
  <2>6. Order!(w)!2'
    BY <1>2, <1>11, <1>12, <2>2, <2>3, <2>4 DEF ChunksOf
  <2> QED
    BY <2>5, <2>6
<1>17. Checks'
  <2> SUFFICES ASSUME NEW p \in Parts
               PROVE  Checks!(p)!1' /\ Checks!(p)!2' /\ Checks!(p)!3'
    BY DEF Checks
  <2>1. Checks!(p)!1 /\ Checks!(p)!2 /\ Checks!(p)!3
    BY DEF IInv, Checks
  <2>2. Total(p)' = Total(p)
    BY <1>2 DEF Total, UnchangedByTasks
  <2>3. table_exists(Owner[p])' <=> table_exists(Owner[p])
    BY <1>11 DEF table_exists
  <2>4. \A k : Runs(Task("checksum", p, k)) => Runs(Task("checksum", p, k))'
    BY <1>12
  <2>5. CASE p # q
    <3>1. VerifiersOf(p)' = VerifiersOf(p)
      BY <1>12, <2>5 DEF VerifiersOf
    <3>2. Checks!(p)!1' /\ Checks!(p)!2'
      BY <1>8, <2>1, <2>2, <2>5, <3>1
    <3>3. Checks!(p)!3'
      BY <1>8, <2>1, <2>3, <2>4, <2>5 DEF Task
    <3> QED
      BY <3>2, <3>3
  <2>6. CASE p = q
    <3>1. part[p].checksums = n /\ part'[p].checksums = n - 1
          /\ part'[p].checksums_total = part[p].checksums_total
      BY <1>3, <1>4, <1>7, <1>8, <2>6
    <3>2. part[p].checksums_verified \in Nat /\ part[p].checksums_total \in Nat
      BY DEF IInv, Types, PartTypes
    <3>3. part'[p].checksums_verified = IF table_exists(Owner[q])
                                        THEN part[p].checksums_verified
                                        ELSE part[p].checksums_verified + 1
      BY <1>3, <1>7, <1>8, <2>6
    <3>4. Cardinality(VerifiersOf(p)) \in Nat
      BY FiniteHolders
    <3>5. Cardinality(VerifiersOf(p)') = IF table_exists(Owner[q])
                                         THEN Cardinality(VerifiersOf(p)) + 1
                                         ELSE Cardinality(VerifiersOf(p))
      <4>1. CASE table_exists(Owner[q])
        <5>1. VerifiersOf(p)' = VerifiersOf(p) \cup {current} /\ current \notin VerifiersOf(p)
          BY <1>12, <2>6, <4>1 DEF VerifiersOf
        <5>2. Cardinality(VerifiersOf(p) \cup {current}) = Cardinality(VerifiersOf(p)) + 1
          BY <5>1, FiniteHolders, FS_AddElement
        <5> QED
          BY <4>1, <5>1, <5>2
      <4>2. CASE ~table_exists(Owner[q])
        <5>1. VerifiersOf(p)' = VerifiersOf(p)
          BY <1>12, <2>6, <4>2 DEF VerifiersOf
        <5> QED
          BY <4>2, <5>1
      <4> QED
        BY <4>1, <4>2
    <3>6. Checks!(p)!1'
      BY <2>1, <2>2, <3>1
    <3>7. Checks!(p)!2'
      <4>1. CASE table_exists(Owner[q])
        <5>1. Cardinality(VerifiersOf(p)') = Cardinality(VerifiersOf(p)) + 1
              /\ part'[p].checksums_verified = part[p].checksums_verified
          BY <3>5, <3>3, <4>1
        <5> QED
          BY <2>1, <3>1, <3>4, <3>2, <5>1
      <4>2. CASE ~table_exists(Owner[q])
        <5>1. Cardinality(VerifiersOf(p)') = Cardinality(VerifiersOf(p))
              /\ part'[p].checksums_verified = part[p].checksums_verified + 1
          BY <3>5, <3>3, <4>2
        <5> QED
          BY <2>1, <3>1, <3>4, <3>2, <5>1
      <4> QED
        BY <4>1, <4>2
    <3>8. ASSUME table_exists(Owner[p]), NEW k \in n .. part[p].checksums_total
          PROVE  Runs(Task("checksum", p, k))'
      <4>1. CASE k = n
        BY <1>9, <1>12, <2>6, <3>8, <4>1
      <4>2. CASE k # n
        <5>1. k \in part[p].checksums + 1 .. part[p].checksums_total
          BY <3>1, <3>2, <4>2
        <5> QED
          BY <2>1, <2>4, <3>8, <5>1
      <4> QED
        BY <4>1, <4>2
    <3>9. Checks!(p)!3'
      <4>1. n - 1 + 1 = n
        OBVIOUS
      <4> QED
        BY <2>3, <3>1, <3>8, <4>1 DEF Task
    <3> QED
      BY <3>6, <3>7, <3>9
  <2> QED
    BY <2>5, <2>6
<1> QED
  BY <1>13, <1>14, <1>15, <1>16, <1>17 DEF IInv
-----------------------------------------------------------------------------
(***************************************************************************)
(* The workers, and the end of the load.                                   *)
(***************************************************************************)

\* What was done stays done.
LEMMA OkKept ==
  ASSUME Ok, UNCHANGED <<opt, outcome>>, executed \subseteq executed',
         \A p \in Parts : \A i \in ChunksOf(p) : loads[p][i] >= 1 => loads'[p][i] >= 1
  PROVE  Ok'
<1> SUFFICES ASSUME outcome' = "ok"
             PROVE  /\ OkMeansAll!2!1' /\ OkMeansAll!2!2' /\ OkMeansAll!2!3' /\ OkMeansAll!2!4'
                    /\ OkMeansAll!2!5'
  BY DEF Ok, OkMeansAll
<1>1. /\ OkMeansAll!2!1 /\ OkMeansAll!2!2 /\ OkMeansAll!2!3 /\ OkMeansAll!2!4
      /\ OkMeansAll!2!5
  BY DEF Ok, OkMeansAll
<1>2. OkMeansAll!2!1'
  BY <1>1 DEF AllLoaded, PartsOf, ChunksOf
<1>3. OkMeansAll!2!2' /\ OkMeansAll!2!3' /\ OkMeansAll!2!4'
  BY <1>1 DEF Task
<1>4. OkMeansAll!2!5'
  BY <1>1 DEF Task, table_exists
<1> QED
  BY <1>2, <1>3, <1>4

LEMMA ExecuteLoad ==
  ASSUME IInv, NEW v \in Workers, Execute(v), m_task[v].type \in {"chunk", "bulk"}
  PROVE  IInv'
<1>1. /\ state[v] = "busy" /\ state' = [state EXCEPT ![v] = "ended"]
      /\ UNCHANGED <<opt, m_dump_status, md_done, part, table, m_tables_with_data>>
      /\ UNCHANGED <<pc, caller, snapshot, current, outcome, m_task, files, log, executed,
                     m_compatibility_status>>
  BY DEF Execute, readerVars, mainVars
<1>2. m_task[v] \in TaskTypes /\ Held(v)
  BY <1>1 DEF IInv, Types, Held
<1>3. PICK q \in Parts : q = m_task[v].of
  BY <1>2 DEF TaskTypes
<1>4. loads' = [loads EXCEPT ![q] = [i \in ChunksOf(q) |->
                  IF m_task[v].type = "bulk" \/ i = m_task[v].index THEN loads[q][i] + 1
                                                                   ELSE loads[q][i]]]
  BY <1>3 DEF Execute
<1>5. /\ state' \in StateMap
      /\ \A w \in Workers : Held(w)' <=> Held(w)
      /\ \A w \in Workers : /\ state'[w] = "busy" <=> (state[w] = "busy" /\ w # v)
                            /\ state'[w] = "ended" <=> (state[w] = "ended" \/ w = v)
      /\ \A w \in Workers : \A type, of : Holds(w, type, of)' <=> Holds(w, type, of)
  BY <1>1, Executed DEF IInv
<1>6. loads = [p \in Parts |-> loads[p]] /\ \A p \in Parts : loads[p] \in [ChunksOf(p) -> Nat]
  BY DEF IInv, Types
<1>7. \A p \in Parts : \A i \in ChunksOf(p) :
        Covers(v, p, i) <=> p = q /\ (m_task[v].type = "bulk" \/ i = m_task[v].index)
  BY <1>2, <1>3 DEF Covers, Holds
<1>8. /\ loads' = [p \in Parts |-> loads'[p]]
      /\ \A p \in Parts : p # q => loads'[p] = loads[p]
      /\ loads'[q] = [i \in ChunksOf(q) |->
                        IF m_task[v].type = "bulk" \/ i = m_task[v].index THEN loads[q][i] + 1
                                                                         ELSE loads[q][i]]
  BY <1>4, <1>6
<1>9. \A p \in Parts : \A i \in ChunksOf(p) :
        /\ loads[p][i] \in Nat
        /\ Covers(v, p, i) => loads'[p][i] = loads[p][i] + 1
        /\ ~Covers(v, p, i) => loads'[p][i] = loads[p][i]
  BY <1>6, <1>7, <1>8
<1>10. \A p \in Parts : loads'[p] \in [ChunksOf(p) -> Nat]
  BY <1>6, <1>8
<1>11. \A p \in Parts : \A i \in ChunksOf(p) : loads[p][i] >= 1 => loads'[p][i] >= 1
  BY <1>9
<1>12. Types'
  BY <1>1, <1>5, <1>8, <1>10 DEF IInv, Types, StateMap, ChunksOf
<1>13. Control'
  BY <1>1, <1>5 DEF IInv, Control
<1>14. Seen'
  BY <1>1, SeenKept DEF IInv
<1>15. \A w \in Workers : \A p, i : Covers(w, p, i)' <=> Covers(w, p, i)
  BY <1>1, <1>5 DEF Covers
<1>16. Tasks'
  BY <1>1, <1>5, <1>15 DEF IInv, Tasks, ChunksOf, has_data, Available
<1>17. Counted'
  <2>1. \A p \in Parts : LoadersOf(p)' = LoadersOf(p) /\ (Bulk(p)' <=> Bulk(p))
    BY <1>5 DEF LoadersOf, Bulk
  <2> QED
    BY <1>1, <2>1 DEF IInv, Counted
<1>18. Loads'
  <2> SUFFICES ASSUME NEW p \in Parts, NEW i \in ChunksOf(p)
               PROVE  /\ Loads!(p)!(i)!1' /\ Loads!(p)!(i)!2' /\ Loads!(p)!(i)!3'
                      /\ Loads!(p)!(i)!4'
    BY DEF Loads, ChunksOf
  <2>1. Loads!(p)!(i)!1 /\ Loads!(p)!(i)!2 /\ Loads!(p)!(i)!3 /\ Loads!(p)!(i)!4
    BY DEF IInv, Loads
  <2>2. InLog(p, i)' <=> InLog(p, i)
    BY <1>1 DEF InLog
  <2>3. i \in Nat /\ i < Chunks[p] /\ Chunks[p] \in Nat
    BY ReaderAssumption DEF ChunksOf
  <2>4. Loads!(p)!(i)!1'
    BY <1>11, <2>1, <2>2
  <2>5. Loads!(p)!(i)!2'
    <3>1. CASE Covers(v, p, i)
      BY <1>9, <3>1
    <3>2. CASE ~Covers(v, p, i)
      BY <1>1, <1>5, <1>9, <1>15, <2>1, <3>2
    <3> QED
      BY <3>1, <3>2
  <2>6. Covers(v, p, i) => i < part[p].chunks_consumed
    <3>1. CASE Holds(v, "bulk", p)
      <4>1. part[p].chunks_consumed = Available(part[p]) /\ part[p].last_chunk_seen
        BY <3>1 DEF IInv, Tasks
      <4>2. Available(part[p]) = Chunks[p]
        BY <4>1 DEF IInv, Seen
      <4> QED
        BY <2>3, <4>1, <4>2
    <3>2. CASE ~Holds(v, "bulk", p)
      BY <3>2 DEF IInv, Tasks, Covers
    <3> QED
      BY <3>1, <3>2
  <2>7. part[p].chunks_consumed \in Nat
    BY DEF IInv, Types, PartTypes
  <2>8. \A w \in Workers : Covers(w, p, i) /\ Covers(v, p, i) => w = v
    BY DEF IInv, Tasks
  <2>9. Loads!(p)!(i)!3'
    <3>1. CASE Covers(v, p, i)
      <4>1. ASSUME log.bulk[p] # "DONE", Size[p][i] > 0
            PROVE  loads'[p][i] = 1
        BY <1>1, <1>9, <2>1, <3>1, <4>1
      <4>2. \A w \in Workers : ~(state'[w] = "busy" /\ Covers(w, p, i))
        BY <1>5, <2>8, <3>1
      <4> QED
        BY <1>1, <1>15, <2>3, <2>6, <2>7, <3>1, <4>1, <4>2
    <3>2. CASE ~Covers(v, p, i)
      BY <1>1, <1>5, <1>9, <1>15, <2>1, <2>2, <3>2
    <3> QED
      BY <3>1, <3>2
  <2>10. Loads!(p)!(i)!4'
    BY <1>1, <1>9, <2>1, <2>3, <2>6, <2>7
  <2> QED
    BY <2>4, <2>5, <2>9, <2>10
<1>19. \A t : t.type \in {"index", "analyze", "checksum"} /\ Runs(t) => Runs(t)'
  BY <1>1, <1>5 DEF Runs
<1>20. \A of : ~Holds(v, "index", of)
  BY DEF Holds
<1>21. Indexes' /\ Analysis' /\ Order'
  BY <1>1, <1>5, <1>11, <1>19, <1>20, OthersKept DEF IInv
<1>22. Checks'
  <2>1. \A p \in Parts : Total(p)' = Total(p)
    BY <1>1 DEF Total
  <2> QED
    BY <1>1, <1>5, <1>19, <2>1, ChecksKept DEF IInv
<1>23. Ok'
  BY <1>1, <1>11, OkKept DEF IInv
<1> QED
  BY <1>12, <1>13, <1>14, <1>16, <1>17, <1>18, <1>21, <1>22, <1>23 DEF IInv

LEMMA ExecuteOther ==
  ASSUME IInv, NEW v \in Workers, Execute(v), m_task[v].type \notin {"chunk", "bulk"}
  PROVE  IInv'
<1>1. /\ state[v] = "busy" /\ state' = [state EXCEPT ![v] = "ended"]
      /\ executed' = executed \cup {m_task[v]}
      /\ UNCHANGED <<opt, m_dump_status, md_done, part, table, m_tables_with_data>>
      /\ UNCHANGED <<pc, caller, snapshot, current, outcome, m_task, files, log, loads,
                     m_compatibility_status>>
  BY DEF Execute, readerVars, mainVars
<1>2. m_task[v] \in TaskTypes /\ Held(v)
  BY <1>1 DEF IInv, Types, Held
<1>3. /\ state' \in StateMap
      /\ \A w \in Workers : Held(w)' <=> Held(w)
      /\ \A w \in Workers : /\ state'[w] = "busy" <=> (state[w] = "busy" /\ w # v)
                            /\ state'[w] = "ended" <=> (state[w] = "ended" \/ w = v)
      /\ \A w \in Workers : \A type, of : Holds(w, type, of)' <=> Holds(w, type, of)
  BY <1>1, Executed DEF IInv
<1>4. Types'
  BY <1>1, <1>3 DEF IInv, Types, StateMap, ChunksOf
<1>5. Control'
  BY <1>1, <1>3 DEF IInv, Control
<1>6. Seen'
  BY <1>1, SeenKept DEF IInv
<1>7. \A of : ~Holds(v, "chunk", of) /\ ~Holds(v, "bulk", of)
  BY DEF Holds
<1>8. Tasks' /\ Counted' /\ Loads'
  BY <1>1, <1>3, <1>7, LoadKept DEF IInv
<1>9. \A t : Runs(t) => Runs(t)'
  BY <1>1, <1>3 DEF Runs
<1>10. Indexes'
  <2>1. \A t : Runs(Task("index", t, 0)) => Runs(Task("index", t, 0))'
    BY <1>9
  <2> QED
    BY <1>1, <2>1 DEF IInv, Indexes, Task
<1>11. Analysis'
  <2>1. \A t : Runs(Task("analyze", t, 0)) => Runs(Task("analyze", t, 0))'
    BY <1>9
  <2> QED
    BY <1>1, <1>3, <2>1 DEF IInv, Analysis, Analysed, Task
<1>12. Order'
  <2>1. \A t \in Tables : AllLoaded(t)' <=> AllLoaded(t)
    BY <1>1 DEF AllLoaded, PartsOf, ChunksOf
  <2>2. \A t \in Tables : Holds(v, "index", t) => Task("index", t, 0) \in executed'
    BY <1>1, <1>2 DEF Holds, TaskTypes, Task
  <2> SUFFICES ASSUME NEW w \in Workers
               PROVE  Order!(w)!1' /\ Order!(w)!2'
    BY DEF Order
  <2>3. Order!(w)!1 /\ Order!(w)!2
    BY DEF IInv, Order
  <2>4. Order!(w)!1'
    BY <1>1, <1>3, <2>1, <2>2, <2>3 DEF Task
  <2>5. Order!(w)!2'
    BY <1>1, <1>3, <2>3 DEF ChunksOf
  <2> QED
    BY <2>4, <2>5
<1>13. Checks'
  <2>1. \A p \in Parts : Total(p)' = Total(p)
    BY <1>1 DEF Total
  <2> QED
    BY <1>1, <1>3, <1>9, <2>1, ChecksKept DEF IInv
<1>14. Ok'
  BY <1>1, OkKept DEF IInv
<1> QED
  BY <1>4, <1>5, <1>6, <1>8, <1>10, <1>11, <1>12, <1>13, <1>14 DEF IInv

\* When there is no more work, and nobody is at work, all was done.
LEMMA NothingLeft ==
  ASSUME IInv, pc = "check", m_dump_status = "COMPLETE", ~work_available
  PROVE  OkMeansAll!2
<1>1. (\A w \in Workers : state[w] = "ready") /\ md_done = Tables
  BY DEF IInv, Control
<1>2. \A t \in Tables : /\ opt.load_data => all_data_scheduled(t)
                        /\ table[t].indexes_scheduled
                        /\ table[t].analyze_scheduled
                        /\ all_data_verified(t)
  BY DEF work_available
<1>3. \A t : Runs(t) => t \in executed
  BY <1>1 DEF Runs
<1>4. OkMeansAll!2!1
  <2> SUFFICES ASSUME NEW t \in Tables, opt.load_data, NEW p \in PartsOf(t),
                      NEW i \in ChunksOf(p)
               PROVE  loads[p][i] >= 1
    BY DEF AllLoaded
  <2>1. p \in Parts /\ Chunks[p] \in Nat /\ i \in Nat /\ i < Chunks[p]
    BY ReaderAssumption DEF PartsOf, ChunksOf
  <2>2. has_data(p)
    BY <2>1 DEF has_data
  <2>3. part[p].last_chunk_seen /\ part[p].chunks_consumed = Available(part[p])
    BY <1>2, <2>2 DEF all_data_scheduled, data_scheduled, all_chunks_are, Available
  <2>4. part[p].chunks_consumed = Chunks[p]
    BY <2>1, <2>3 DEF IInv, Seen
  <2> QED
    BY <1>1, <2>1, <2>4 DEF IInv, Loads
<1>5. OkMeansAll!2!2
  BY <1>2, <1>3, ReaderAssumption DEF IInv, Indexes
<1>6. OkMeansAll!2!3 /\ OkMeansAll!2!4
  BY <1>2, <1>3, ReaderAssumption DEF IInv, Analysis, Analysed
<1>7. OkMeansAll!2!5
  <2> SUFFICES ASSUME opt.checksum, NEW p \in Parts, table_exists(Owner[p]),
                      NEW k \in 1 .. Checksums[p]
               PROVE  Task("checksum", p, k) \in executed
    OBVIOUS
  <2>1. Owner[p] \in Tables /\ Checksums[p] \in Nat /\ p \in PartsOf(Owner[p])
    BY ReaderAssumption DEF PartsOf
  <2>2. Total(p) = Checksums[p]
    BY <1>1, <2>1 DEF Total
  <2>3. part[p].checksums_verified = part[p].checksums_total
    BY <1>2, <2>1 DEF all_data_verified, data_verified
  <2>4. part[p].checksums_total = Checksums[p]
        /\ part[p].checksums + part[p].checksums_verified
             + Cardinality(VerifiersOf(p)) = part[p].checksums_total
        /\ \A j \in part[p].checksums + 1 .. part[p].checksums_total :
             Runs(Task("checksum", p, j))
    BY <2>2 DEF IInv, Checks
  <2>5. part[p].checksums \in Nat /\ Cardinality(VerifiersOf(p)) \in Nat
    BY FiniteHolders DEF IInv, Types, PartTypes
  <2>6. part[p].checksums = 0
    BY <2>1, <2>3, <2>4, <2>5
  <2>7. k \in part[p].checksums + 1 .. part[p].checksums_total
    BY <2>4, <2>6
  <2> QED
    BY <1>3, <2>4, <2>7
<1> QED
  BY <1>4, <1>5, <1>6, <1>7

LEMMA LoopEndsStep ==
  ASSUME IInv, LoopEnds
  PROVE  IInv'
<1>1. /\ pc = "check" /\ pc' \in {"end", "loop"}
      /\ outcome' = "ok" =>
           pc' = "end" /\ m_dump_status = "COMPLETE" /\ ~work_available
  BY DEF LoopEnds, Ended, IInv, Control
<1>2. UNCHANGED <<readerVars, caller, snapshot, current, workerVars, historyVars, files, log,
                  m_compatibility_status>>
  BY DEF LoopEnds, unchangedByScan
<1>3. Control'
  BY <1>1, <1>2 DEF IInv, Control, workerVars, readerVars
<1>4. Ok'
  <2> SUFFICES ASSUME outcome' = "ok" PROVE OkMeansAll!2'
    BY DEF Ok, OkMeansAll
  <2>1. OkMeansAll!2
    BY <1>1, NothingLeft
  <2> QED
    BY <1>2, <2>1 DEF readerVars, historyVars, AllLoaded, PartsOf, ChunksOf, Task, table_exists
<1> QED
  BY <1>1, <1>2, <1>3, <1>4, MainKept DEF IInv, Types, workerVars, Phases

LEMMA InitHolds ==
  ASSUME Init
  PROVE  IInv
<1> USE DEF Init, ReaderInit
<1>1. \A w \in Workers : state[w] = "ready" /\ ~Held(w) /\ \A type, of : ~Holds(w, type, of)
  BY DEF Held, Holds
<1>2. Types
  <2>1. part \in [Parts -> PartTypes]
    BY DEF PartTypes
  <2>2. table \in [Tables -> TableTypes]
    BY DEF TableTypes
  <2>3. IsFiniteSet(files)
    BY FS_EmptySet
  <2>4. loads = [p \in Parts |-> loads[p]]
    OBVIOUS
  <2>5. \A p \in Parts : loads[p] \in [ChunksOf(p) -> Nat]
    OBVIOUS
  <2>6. opt \in Options
    BY ScheduleAssumption
  <2>7. m_task \in [Workers -> TaskTypes \cup {None}]
        /\ state \in [Workers -> {"ready", "idle", "busy", "ended"}]
        /\ m_compatibility_status \in [Tables -> {"unknown", "yes", "no"}]
    OBVIOUS
  <2> QED
    BY <1>1, <2>1, <2>2, <2>3, <2>4, <2>5, <2>6, <2>7 DEF Types, Phases
<1>3. Control
  BY DEF Control
<1>4. Seen
  BY ReaderAssumption DEF Seen, Available, has_data
<1>5. Tasks
  BY <1>1 DEF Tasks, Covers
<1>6. \A p \in Parts : /\ LoadersOf(p) = {} /\ VerifiersOf(p) = {} /\ ~Bulk(p)
                       /\ Cardinality(LoadersOf(p)) = 0 /\ Cardinality(VerifiersOf(p)) = 0
  BY <1>1, FS_EmptySet DEF LoadersOf, VerifiersOf, Bulk
<1>7. Counted
  BY <1>6 DEF Counted
<1>8. Loads
  <2> SUFFICES ASSUME NEW p \in Parts, NEW i \in ChunksOf(p)
               PROVE  /\ Loads!(p)!(i)!1 /\ Loads!(p)!(i)!2 /\ Loads!(p)!(i)!3
                      /\ Loads!(p)!(i)!4
    BY DEF Loads
  <2>1. i \in Nat /\ part[p].chunks_consumed = 0 /\ Owner[p] \in Tables
    BY ReaderAssumption DEF ChunksOf
  <2>2. loads[p][i] = IF InLog(p, i) THEN 1 ELSE 0
    BY DEF InLog
  <2>3. Loads!(p)!(i)!1 /\ Loads!(p)!(i)!2
    BY <2>1, <2>2
  <2>4. Loads!(p)!(i)!3
    BY <1>1, <2>1, <2>2
  <2>5. Loads!(p)!(i)!4
    BY <2>1
  <2> QED
    BY <2>3, <2>4, <2>5
<1>9. Indexes
  BY DEF Indexes
<1>10. Analysis
  BY <1>1 DEF Analysis, Analysed
<1>11. Order
  BY <1>1 DEF Order
<1>12. Checks
  <2>1. \A p \in Parts : Total(p) = 0
    BY DEF Total
  <2> QED
    BY <1>6, <2>1 DEF Checks
<1>13. Ok
  BY DEF Ok, OkMeansAll
<1> QED
  BY <1>2, <1>3, <1>4, <1>5, <1>7, <1>8, <1>9, <1>10, <1>11, <1>12, <1>13 DEF IInv

LEMMA NextHolds ==
  ASSUME IInv, [Next]_vars
  PROVE  IInv'
<1>1. CASE UNCHANGED vars
  <2>1. /\ UNCHANGED <<readerVars, historyVars, log, m_compatibility_status, m_task>>
        /\ UNCHANGED <<files, snapshot, pc, caller, state, current, outcome>>
    BY <1>1 DEF vars, mainVars, workerVars
  <2>2. Control'
    BY <2>1 DEF IInv, Control, readerVars
  <2>3. Ok'
    BY <2>1, OkKept DEF IInv, readerVars, historyVars
  <2> QED
    BY <2>1, <2>2, <2>3, MainKept DEF IInv, Types
<1>2. CASE WriteFile
  BY <1>2, WriteFileStep
<1>3. CASE Open
  BY <1>3, OpenStep
<1>4. CASE WaitForMetadata
  BY <1>4, WaitForMetadataStep
<1>5. CASE FinishListing
  BY <1>5, FinishListingStep
<1>6. CASE MetadataScanned \/ DataScanned \/ TriedAgain
  BY <1>6, ScannedStep
<1>7. CASE WaitForDump \/ Timeout
  BY <1>7, WaitStep
<1>8. CASE Loop
  BY <1>8, LoopStep
<1>9. CASE LoopEnds
  BY <1>9, LoopEndsStep
<1>10. CASE \E w \in Workers : HandleEnd(w) \/ HandleReady(w)
  BY <1>10, HandleEndStep, HandleReadyStep
<1>11. CASE AllIdle
  BY <1>11, AllIdleStep
<1>12. CASE NextTableChunk
  BY <1>12, NextTableChunkStep
<1>13. CASE NoTableChunk
  BY <1>13, NoTableChunkStep
<1>14. CASE NextDeferredIndex
  BY <1>14, NextDeferredIndexStep
<1>15. CASE NextTableAnalyze
  BY <1>15, NextTableAnalyzeStep
<1>16. CASE NextTableChecksum
  BY <1>16, NextTableChecksumStep
<1>17. CASE NothingToSchedule
  BY <1>17, NothingToScheduleStep
<1>18. CASE \E w \in Workers : Execute(w)
  BY <1>18, ExecuteLoad, ExecuteOther
<1>19. CASE Finished
  BY <1>1, <1>19 DEF Finished
<1> QED
  BY <1>1, <1>2, <1>3, <1>4, <1>5, <1>6, <1>7, <1>8, <1>9, <1>10, <1>11, <1>12, <1>13, <1>14,
     <1>15, <1>16, <1>17, <1>18, <1>19 DEF Next, Main

\* The invariant holds, whatever the dumper writes and when, for any number of
\* tables, parts, chunks, checksums and workers.
THEOREM Invariance == Spec => []IInv
<1>1. Init => IInv
  BY InitHolds
<1>2. IInv /\ [Next]_vars => IInv'
  BY NextHolds
<1> QED
  BY <1>1, <1>2, PTL DEF Spec

\* The data of a chunk is loaded once: not by two workers, not one by one and
\* in bulk, not if the log says that it was loaded (dump_loader.cc:2371).
THEOREM LoadedOnceCorrect == Spec => []LoadedOnce
<1>1. IInv => LoadedOnce
  BY DEF IInv, Loads, LoadedOnce
<1> QED
  BY <1>1, Invariance, PTL

\* While a table is being indexed, analysed or verified its data was loaded, and
\* none of the steps overtakes another (dump_reader.cc:623-679).
THEOREM StepsInOrderCorrect == Spec => []StepsInOrder
<1>1. ASSUME IInv PROVE StepsInOrder
  <2>1. \A type : \A x \in Running(type) : \E w \in Workers :
          Holds(w, type, x) /\ m_task[w] \in TaskTypes
    BY <1>1 DEF Running, Holds, Held, IInv, Types
  <2>2. \A t \in Running("index") : t \in Tables /\ AllLoaded(t)
    <3> SUFFICES ASSUME NEW t \in Running("index") PROVE t \in Tables /\ AllLoaded(t)
      OBVIOUS
    <3>1. PICK w \in Workers : Holds(w, "index", t) /\ m_task[w] \in TaskTypes
      BY <2>1
    <3>2. t \in Tables
      BY <3>1 DEF Holds, TaskTypes
    <3> QED
      BY <1>1, <3>1, <3>2 DEF IInv, Order
  <2>3. \A t \in Running("analyze") :
          /\ t \in Tables /\ AllLoaded(t)
          /\ table[t].indexes_created /\ ~table[t].analyze_finished
    <3> SUFFICES ASSUME NEW t \in Running("analyze")
                 PROVE  /\ t \in Tables /\ AllLoaded(t)
                        /\ table[t].indexes_created /\ ~table[t].analyze_finished
      OBVIOUS
    <3>1. PICK w \in Workers : Holds(w, "analyze", t) /\ m_task[w] \in TaskTypes
      BY <2>1
    <3>2. t \in Tables
      BY <3>1 DEF Holds, TaskTypes
    <3> QED
      BY <1>1, <3>1, <3>2 DEF IInv, Order, Analysis
  <2>4. \A p \in Running("checksum") :
          /\ p \in Parts
          /\ opt.load_data => \A i \in ChunksOf(p) : loads[p][i] >= 1
          /\ table[Owner[p]].indexes_created /\ table[Owner[p]].analyze_finished
    <3> SUFFICES ASSUME NEW p \in Running("checksum")
                 PROVE  /\ p \in Parts
                        /\ opt.load_data => \A i \in ChunksOf(p) : loads[p][i] >= 1
                        /\ table[Owner[p]].indexes_created
                        /\ table[Owner[p]].analyze_finished
      OBVIOUS
    <3>1. PICK w \in Workers : Holds(w, "checksum", p) /\ m_task[w] \in TaskTypes
      BY <2>1
    <3>2. p \in Parts
      BY <3>1 DEF Holds, TaskTypes
    <3> QED
      BY <1>1, <3>1, <3>2 DEF IInv, Order
  <2>5. \A t \in Tables : t \in Indexed /\ opt.deferred_indexes /\ table[t].indexes_created
          => Task("index", t, 0) \in executed
    BY <1>1 DEF IInv, Indexes
  <2>6. StepsInOrder!1
    BY <2>2, <2>3
  <2>7. StepsInOrder!2
    BY <2>4
  <2>8. StepsInOrder!3
    BY <2>3, <2>4, <2>5 DEF PartsOf
  <2>9. StepsInOrder!4
    BY <2>3, <2>4 DEF PartsOf
  <2> QED
    BY <2>6, <2>7, <2>8, <2>9 DEF StepsInOrder
<1> QED
  BY <1>1, Invariance, PTL

\* A load that ends well has loaded all the data of the dump, created the
\* indexes, analysed the tables and verified the checksums (dump_loader.cc:4068).
THEOREM OkMeansAllCorrect == Spec => []OkMeansAll
<1>1. IInv => OkMeansAll
  BY DEF IInv, Ok
<1> QED
  BY <1>1, Invariance, PTL
-----------------------------------------------------------------------------
(***************************************************************************)
(* The choice of the next chunk.  What it needs to be sound is an          *)
(* invariant of its own: it says what is in m_tables_with_data and in      *)
(* m_tables_being_loaded.                                                  *)
(***************************************************************************)

LoadsPart(w, p) == Holds(w, "chunk", p) \/ Holds(w, "bulk", p)

\* A part that has a chunk which was not consumed is in m_tables_with_data.
Pending ==
  \A p \in Parts :
    part[p].chunks_consumed < Available(part[p]) => p \in m_tables_with_data

\* What is in m_tables_being_loaded is being loaded.
BeingLoaded ==
  \A e \in m_tables_being_loaded :
    /\ e.part \in Parts /\ e.size \in Nat
    /\ \E w \in Workers : /\ state[w] = "busy" /\ LoadsPart(w, e.part)
                          /\ m_task[w].index = e.index

LoadedLess ==
  \A p \in Parts : part[p].chunks_loaded <= part[p].chunks_consumed

\* Nothing is consumed while the metadata is awaited.
Awaiting == \/ pc \in {"open", "metadata"}
            \/ pc \in {"listing", "scanned", "wait"} /\ caller = "metadata"

NoneConsumed == \A p \in Parts : part[p].chunks_consumed = 0

\* The parts which were begun, and have chunks that were not loaded.
Active ==
  {p \in Parts : /\ part[p].chunks_consumed > 0
                 /\ p \in m_tables_with_data \/ \E w \in Workers : LoadsPart(w, p)}

Limited ==
  caller = "metadata" => IsFiniteSet(Active) /\ Cardinality(Active) <= ThreadsCount

Turn ==
  /\ current \in Workers \cup {None}
  /\ scanned \in BOOLEAN
  /\ \A w \in Workers : m_task[w] = None <=> state[w] \in {"ready", "idle"}

Selection ==
  /\ Pending /\ BeingLoaded /\ LoadedLess /\ (Awaiting => NoneConsumed)
  /\ Limited /\ Turn

\* A function from a finite set to the natural numbers has a greatest value.
LEMMA Greatest ==
  ASSUME NEW S, IsFiniteSet(S), S # {}, NEW b \in [S -> Nat]
  PROVE  \E m \in S : \A x \in S : b[x] <= b[m]
<1>0. PICK n \in Nat : ExistsBijection(1 .. n, S)
  BY FS_CardinalityType
<1>1. PICK f : f \in Bijection(1 .. n, S)
  BY <1>0 DEF ExistsBijection
<1>2. f \in [1 .. n -> S] /\ \A x \in S : \E i \in 1 .. n : f[i] = x
  BY <1>1 DEF Bijection, Injection, Surjection
<1>3. n \in 1 .. n
  BY <1>2
<1> DEFINE Has(k) == \E m \in 1 .. k : \A i \in 1 .. k : b[f[i]] <= b[f[m]]
           U == {k \in 1 .. n : ~Has(k)}
<1>4. ASSUME U # {} PROVE FALSE
  <2>1. PICK k \in U : \A j \in U : k <= j
    <3>1. \A x \in U : x \in Nat
      OBVIOUS
    <3> HIDE DEF U
    <3>2. Min(U) \in U /\ \A y \in U : Min(U) <= y
      BY <1>4, <3>1, Least
    <3> QED
      BY <3>2
  <2>2. k \in 1 .. n /\ ~Has(k)
    OBVIOUS
  <2>3. k # 1
    <3>1. ASSUME k = 1 PROVE Has(k)
      <4>1. \A i \in 1 .. k : i = 1
        BY <3>1
      <4>2. b[f[1]] \in Nat
        BY <1>2, <2>2, <3>1
      <4> QED
        BY <3>1, <4>1, <4>2
    <3> QED
      BY <2>2, <3>1
  <2>4. k - 1 \in 1 .. n /\ k - 1 < k
    BY <2>2, <2>3
  <2>5. Has(k - 1)
    <3> HIDE DEF Has
    <3>1. ASSUME ~Has(k - 1) PROVE FALSE
      <4>1. k - 1 \in U
        BY <2>4, <3>1
      <4>2. k <= k - 1
        BY <2>1, <4>1
      <4> QED
        BY <2>2, <4>2
    <3> QED
      BY <3>1
  <2>6. PICK m \in 1 .. k - 1 : \A i \in 1 .. k - 1 : b[f[i]] <= b[f[m]]
    BY <2>5
  <2>7. \A i \in 1 .. k : b[f[i]] \in Nat
    BY <1>2, <2>2
  <2>8. \A i \in 1 .. k : i = k \/ i \in 1 .. k - 1
    BY <2>2
  <2>9. CASE b[f[k]] <= b[f[m]]
    <3>1. m \in 1 .. k /\ \A i \in 1 .. k : b[f[i]] <= b[f[m]]
      BY <2>2, <2>6, <2>8, <2>9
    <3> QED
      BY <2>2, <3>1
  <2>10. CASE b[f[m]] <= b[f[k]]
    <3>1. k \in 1 .. k
      BY <2>2
    <3>2. \A i \in 1 .. k : b[f[i]] <= b[f[k]]
      BY <2>2, <2>6, <2>7, <2>8, <2>10, <3>1
    <3> QED
      BY <2>2, <3>1, <3>2
  <2> QED
    BY <2>2, <2>6, <2>7, <2>9, <2>10
<1>5. Has(n)
  BY <1>3, <1>4
<1>6. PICK m \in 1 .. n : \A i \in 1 .. n : b[f[i]] <= b[f[m]]
  BY <1>5
<1> QED
  BY <1>2, <1>6

\* The size of chunks is a number.
LEMMA BytesType ==
  ASSUME NEW p \in Parts, NEW C \in SUBSET ChunksOf(p)
  PROVE  BytesOf(p, C) \in Nat
<1>1. Chunks[p] \in Nat /\ \A i \in C : i \in Int /\ Size[p][i] \in Nat
  BY ReaderAssumption DEF ChunksOf
<1>2. IsFiniteSet(C)
  <2>1. IsFiniteSet(0 .. Chunks[p] - 1)
    BY <1>1, FS_Interval
  <2> QED
    BY <2>1, FS_Subset DEF ChunksOf
<1> DEFINE f == [i \in C |-> {i} \X (1 .. Size[p][i])]
           T == {{i} \X (1 .. Size[p][i]) : i \in C}
<1>3. f \in Surjection(C, T)
  BY DEF Surjection
<1>4. IsFiniteSet(T)
  <2> HIDE DEF f, T
  <2> QED
    BY <1>2, <1>3, FS_Surjection
<1>5. ASSUME NEW i \in C PROVE IsFiniteSet({i} \X (1 .. Size[p][i]))
  <2>1. Size[p][i] \in Int /\ 1 \in Int
    BY <1>1
  <2>2. IsFiniteSet(1 .. Size[p][i])
    BY <2>1, FS_Interval
  <2>3. IsFiniteSet({i})
    BY FS_Singleton
  <2> QED
    BY <2>2, <2>3, FS_Product
<1>6. \A x \in T : IsFiniteSet(x)
  BY <1>5
<1>7. IsFiniteSet(UNION T)
  <2> HIDE DEF T
  <2> QED
    BY <1>4, <1>6, FS_UNION
<1> QED
  BY <1>7, FS_CardinalityType DEF BytesOf

LEMMA AvailableType ==
  ASSUME IInv, NEW p \in Parts
  PROVE  bytes_available(p) \in Nat
<1>1. PICK C : C = {i \in part[p].chunks_consumed .. Len(part[p].available_chunks) - 1 :
                      \A k \in part[p].chunks_consumed .. i : has_value(part[p], k)}
  OBVIOUS
<1>2. part[p].chunks_consumed \in Nat /\ Len(part[p].available_chunks) \in Nat
      /\ Len(part[p].available_chunks) <= Chunks[p] /\ Chunks[p] \in Nat
  BY ReaderAssumption DEF IInv, Types, PartTypes, Seen, Available
<1>3. C \in SUBSET ChunksOf(p)
  BY <1>1, <1>2 DEF ChunksOf
<1>4. bytes_available(p) = BytesOf(p, C)
  BY <1>1, Zenon DEF bytes_available
<1> QED
  BY <1>3, <1>4, BytesType

\* Every part with data has a file.
LEMMA FiniteWithData ==
  ASSUME IInv
  PROVE  IsFiniteSet(m_tables_with_data)
<1> DEFINE f == [p \in m_tables_with_data |-> ChunkFile(p, 0, 0 = Chunks[p] - 1)]
<1>1. ASSUME NEW p \in m_tables_with_data PROVE ChunkFile(p, 0, 0 = Chunks[p] - 1) \in files
  <2>1. p \in Parts /\ part[p].chunks_consumed \in Nat /\ Available(part[p]) \in Nat
    BY DEF IInv, Types, PartTypes, Available
  <2>2. 0 \in 0 .. Available(part[p]) - 1
    BY <2>1 DEF IInv, Seen
  <2> QED
    BY <2>1, <2>2 DEF IInv, Seen
<1>2. f \in [m_tables_with_data -> files]
  BY <1>1
<1>3. \A p, q \in m_tables_with_data : f[p] = f[q] => p = q
  BY DEF ChunkFile
<1>4. f \in Injection(m_tables_with_data, files)
  <2> HIDE DEF f
  <2> QED
    BY <1>2, <1>3, Zenon DEF Injection, IsInjective
<1>5. IsFiniteSet(files)
  BY DEF IInv, Types
<1> HIDE DEF f
<1> QED
  BY <1>4, <1>5, FS_Injection

\* A part that is being loaded was begun.
LEMMA LoadedIsBegun ==
  ASSUME IInv, NEW w \in Workers, NEW p \in Parts, LoadsPart(w, p)
  PROVE  part[p].chunks_consumed > 0
<1>1. part[p].chunks_consumed \in Nat /\ Available(part[p]) \in Nat
  BY DEF IInv, Types, PartTypes, Available
<1>2. CASE Holds(w, "chunk", p)
  <2>1. m_task[w].index \in Nat /\ m_task[w].index < part[p].chunks_consumed
    BY <1>2 DEF IInv, Types, TaskTypes, Holds, Tasks
  <2> QED
    BY <1>1, <2>1
<1>3. CASE Holds(w, "bulk", p)
  <2>1. has_data(p) /\ part[p].last_chunk_seen /\ part[p].chunks_consumed = Available(part[p])
    BY <1>3 DEF IInv, Tasks
  <2>2. Available(part[p]) = Chunks[p] /\ Chunks[p] > 0
    BY <2>1 DEF IInv, Seen, has_data
  <2> QED
    BY <2>1, <2>2
<1> QED
  BY <1>2, <1>3 DEF LoadsPart

\* While there is data a part is found: if none was begun then none is being
\* loaded either, and one of those that have the most data is taken.
LEMMA PartIsFound ==
  ASSUME IInv, Selection, m_tables_with_data # {}
  PROVE  Candidates # {}
<1> DEFINE free == m_tables_with_data \ {e.part : e \in m_tables_being_loaded}
           best == {p \in BestNotLoading(m_tables_being_loaded) : NewTableAllowed(p)}
<1>1. CASE InProgress # {}
  <2>1. Proportional(m_tables_being_loaded) # {}
    BY <1>1 DEF Proportional
  <2> QED
    BY <2>1 DEF Candidates, schedule_chunk_proportionally
<1>2. CASE InProgress = {}
  <2>1. \A p \in m_tables_with_data :
          p \in Parts /\ ~(part[p].chunks_consumed > 0) /\ bytes_available(p) \in Nat
    BY <1>2, AvailableType DEF InProgress, IInv, Types
  <2>2. free = m_tables_with_data
    <3>1. ASSUME NEW e \in m_tables_being_loaded PROVE e.part \notin m_tables_with_data
      <4>1. e.part \in Parts /\ \E w \in Workers : LoadsPart(w, e.part)
        BY DEF Selection, BeingLoaded
      <4>2. part[e.part].chunks_consumed > 0
        BY <4>1, LoadedIsBegun
      <4> QED
        BY <2>1, <4>2
    <3> QED
      BY <3>1
  <2> DEFINE b == [p \in m_tables_with_data |-> bytes_available(p)]
  <2>3. b \in [m_tables_with_data -> Nat]
    BY <2>1
  <2>4. PICK m \in m_tables_with_data : \A x \in m_tables_with_data : b[x] <= b[m]
    <3> HIDE DEF b
    <3> QED
      BY <2>3, FiniteWithData, Greatest
  <2>5. \A x \in m_tables_with_data : bytes_available(x) <= bytes_available(m)
    BY <2>4
  <2>6. \A x \in m_tables_with_data : ~Better(x, m)
    <3> SUFFICES ASSUME NEW x \in m_tables_with_data PROVE ~Better(x, m)
      OBVIOUS
    <3>1. ~(bytes_available(x) > bytes_available(m))
      BY <2>1, <2>5
    <3> QED
      BY <2>1, <3>1 DEF Better
  <2>7. m \in BestNotLoading(m_tables_being_loaded)
    BY <2>2, <2>6, Zenon DEF BestNotLoading
  <2>8. NewTableAllowed(m)
    BY <1>2, FS_EmptySet, ReaderAssumption DEF NewTableAllowed
  <2>9. m \in best
    BY <2>7, <2>8
  <2> QED
    BY <2>9 DEF Candidates, schedule_chunk_proportionally
<1> QED
  BY <1>1, <1>2

\* No part becomes active.
LEMMA LimitedKept ==
  ASSUME Selection, Active' \subseteq Active \/ Active' = {},
         caller' = "metadata" => caller = "metadata" \/ Active' = {}
  PROVE  Limited'
<1> SUFFICES ASSUME caller' = "metadata"
             PROVE  IsFiniteSet(Active') /\ Cardinality(Active') <= ThreadsCount
  BY DEF Limited
<1>1. CASE Active' = {}
  BY <1>1, FS_EmptySet, ReaderAssumption
<1>2. CASE Active' # {}
  <2>1. IsFiniteSet(Active) /\ Cardinality(Active) <= ThreadsCount /\ Active' \subseteq Active
    BY <1>2 DEF Selection, Limited
  <2>2. IsFiniteSet(Active') /\ Cardinality(Active') <= Cardinality(Active)
    BY <2>1, FS_Subset
  <2>3. Cardinality(Active) \in Nat /\ Cardinality(Active') \in Nat /\ ThreadsCount \in Nat
    BY <2>1, <2>2, FS_CardinalityType, ReaderAssumption
  <2> QED
    BY <2>1, <2>2, <2>3
<1> QED
  BY <1>1, <1>2

\* A step that consumes no chunk, begins no load and executes none.
LEMMA SelectionKept ==
  ASSUME IInv, Selection,
         UNCHANGED <<m_tables_with_data, m_tables_being_loaded>>,
         \A p \in Parts :
           /\ part'[p].available_chunks = part[p].available_chunks
           /\ part'[p].chunks_consumed = part[p].chunks_consumed
           /\ part'[p].chunks_loaded <= part'[p].chunks_consumed,
         \A w \in Workers : \A p \in Parts :
           /\ LoadsPart(w, p)' => LoadsPart(w, p)
           /\ LoadsPart(w, p) /\ state[w] = "busy" =>
                LoadsPart(w, p)' /\ state'[w] = "busy" /\ m_task'[w] = m_task[w],
         caller' = "metadata" => caller = "metadata" \/ Awaiting,
         Awaiting' => Awaiting, Turn'
  PROVE  Selection'
<1>1. Pending'
  BY DEF Selection, Pending, Available
<1>2. BeingLoaded'
  BY DEF Selection, BeingLoaded
<1>3. LoadedLess'
  BY DEF LoadedLess
<1>4. Awaiting' => NoneConsumed'
  BY DEF Selection, NoneConsumed
<1>5. Active' \subseteq Active
  BY DEF Active
<1>6. Awaiting => Active' = {}
  <2>1. Awaiting => \A p \in Parts : ~(part'[p].chunks_consumed > 0)
    BY DEF Selection, NoneConsumed
  <2> QED
    BY <2>1 DEF Active
<1>7. Limited'
  BY <1>5, <1>6, LimitedKept
<1> QED
  BY <1>1, <1>2, <1>3, <1>4, <1>7 DEF Selection

\* A step of the main thread that leaves the reader alone.
LEMMA SelectionMainKept ==
  ASSUME IInv, Selection,
         UNCHANGED <<part, m_tables_with_data, m_tables_being_loaded, m_task>>,
         \A w \in Workers : /\ state'[w] = "busy" <=> state[w] = "busy"
                            /\ state'[w] = "ended" <=> state[w] = "ended"
                            /\ state'[w] \in {"ready", "idle"} <=> state[w] \in {"ready", "idle"},
         current' \in Workers \cup {None}, scanned' \in BOOLEAN,
         caller' = "metadata" => caller = "metadata" \/ Awaiting,
         Awaiting' => Awaiting
  PROVE  Selection'
<1>1. \A w \in Workers : \A p \in Parts : LoadsPart(w, p)' <=> LoadsPart(w, p)
  BY DEF LoadsPart, Holds, Held
<1>2. Turn'
  BY DEF Selection, Turn
<1>3. \A p \in Parts : part'[p].chunks_loaded <= part'[p].chunks_consumed
  BY DEF Selection, LoadedLess
<1> QED
  BY <1>1, <1>2, <1>3, SelectionKept

LEMMA SelectionOfMain ==
  ASSUME IInv, Selection,
         \/ WriteFile \/ Open \/ WaitForMetadata \/ MetadataScanned \/ DataScanned
         \/ TriedAgain \/ WaitForDump \/ Timeout \/ Loop \/ LoopEnds
         \/ (\E w \in Workers : HandleReady(w)) \/ NoTableChunk \/ UNCHANGED vars
  PROVE  Selection'
<1>1. UNCHANGED <<part, m_tables_with_data, m_tables_being_loaded, m_task, state>>
  <2>1. CASE WriteFile
    BY <2>1 DEF WriteFile, readerVars, workerVars
  <2>2. CASE Open
    BY <2>2 DEF Open, unchangedByScan, workerVars
  <2>3. CASE WaitForMetadata \/ MetadataScanned \/ DataScanned \/ TriedAgain
    BY <2>3 DEF WaitForMetadata, MetadataScanned, DataScanned, TriedAgain, unchangedByScan,
                workerVars, readerVars
  <2>4. CASE WaitForDump \/ Timeout \/ Loop \/ LoopEnds
    BY <2>4 DEF WaitForDump, Timeout, Loop, LoopEnds, unchangedByScan, workerVars, readerVars
  <2>5. CASE (\E w \in Workers : HandleReady(w)) \/ NoTableChunk
    BY <2>5 DEF HandleReady, NoTableChunk, unchangedByScan, workerVars, readerVars
  <2>6. CASE UNCHANGED vars
    BY <2>6 DEF vars, workerVars, readerVars
  <2> QED
    BY <2>1, <2>2, <2>3, <2>4, <2>5, <2>6
<1>2. /\ current' \in Workers \cup {None} /\ scanned' \in BOOLEAN
      /\ caller' = "metadata" => caller = "metadata" \/ Awaiting
      /\ Awaiting' => Awaiting
  <2>0. current \in Workers \cup {None} /\ scanned \in BOOLEAN
    BY DEF Selection, Turn
  <2>1. CASE WriteFile
    BY <2>0, <2>1 DEF WriteFile, mainVars, Awaiting
  <2>2. CASE Open
    BY <2>0, <2>2 DEF Open, Awaiting, Ended
  <2>3. CASE WaitForMetadata
    BY <2>0, <2>3 DEF WaitForMetadata, StartListing, Awaiting
  <2>4. CASE MetadataScanned \/ DataScanned \/ TriedAgain
    BY <2>0, <2>4 DEF MetadataScanned, DataScanned, TriedAgain, Awaiting, Ended
  <2>5. CASE WaitForDump \/ Timeout
    BY <2>0, <2>5 DEF WaitForDump, Timeout, StartListing, Awaiting, Ended
  <2>6. CASE Loop \/ LoopEnds \/ NoTableChunk
    BY <2>0, <2>6 DEF Loop, LoopEnds, NoTableChunk, StartListing, Awaiting, Ended
  <2>7. CASE \E w \in Workers : HandleReady(w)
    BY <2>0, <2>7 DEF HandleReady, Awaiting
  <2>8. CASE UNCHANGED vars
    BY <2>0, <2>8 DEF vars, mainVars, Awaiting
  <2> QED
    BY <2>1, <2>2, <2>3, <2>4, <2>5, <2>6, <2>7, <2>8
<1> QED
  BY <1>1, <1>2, SelectionMainKept

LEMMA SelectionOfIdle ==
  ASSUME IInv, Selection, AllIdle \/ NothingToSchedule
  PROVE  Selection'
<1>1. UNCHANGED <<part, m_tables_with_data, m_tables_being_loaded, m_task, caller, scanned>>
      /\ pc' \in {"check", "events"} /\ current' \in {current, None}
  BY DEF AllIdle, NothingToSchedule, readerVars, unchangedByOthers
<1>2. \A w \in Workers : /\ state'[w] = "busy" <=> state[w] = "busy"
                         /\ state'[w] = "ended" <=> state[w] = "ended"
                         /\ state'[w] \in {"ready", "idle"} <=> state[w] \in {"ready", "idle"}
  <2>1. CASE AllIdle
    BY <2>1 DEF AllIdle
  <2>2. CASE NothingToSchedule
    BY <2>2 DEF NothingToSchedule, IInv, Control, Types
  <2> QED
    BY <2>1, <2>2
<1>3. current' \in Workers \cup {None} /\ scanned' \in BOOLEAN /\ ~Awaiting'
  BY <1>1 DEF Selection, Turn, Awaiting
<1> QED
  BY <1>1, <1>2, <1>3, SelectionMainKept

LEMMA NoneIsNoTask == None \notin TaskTypes
<1> SUFFICES ASSUME NEW t \in TaskTypes
             PROVE  t \in [type : {"chunk", "bulk", "index", "analyze", "checksum"},
                           of : Parts \cup Tables, index : Nat]
  BY ScheduleAssumption
<1>1. t = [type |-> t.type, of |-> t.of, index |-> t.index]
  BY DEF TaskTypes
<1>2. t.of \in Parts \cup Tables /\ t.index \in Nat
  BY DEF TaskTypes
<1>3. t.type \in {"chunk", "bulk", "index", "analyze", "checksum"}
  BY DEF TaskTypes
<1> QED
  BY <1>1, <1>2, <1>3

\* The worker that has got a task is busy.
LEMMA AssignedTurn ==
  ASSUME IInv, Selection, pc \in {"next", "others"}, NEW task \in TaskTypes, Assign(task),
         UNCHANGED scanned
  PROVE  Turn'
<1>1. current \in Workers /\ state[current] = "ready" /\ task # None
  BY NoneIsNoTask DEF IInv, Control
<1>2. /\ m_task' = [m_task EXCEPT ![current] = task]
      /\ state' = [w \in Workers |-> IF w = current THEN "busy"
                                     ELSE IF state[w] = "idle" THEN "ready"
                                     ELSE state[w]]
      /\ current' = None
  BY DEF Assign
<1>3. \A w \in Workers : m_task[w] = None <=> state[w] \in {"ready", "idle"}
  BY DEF Selection, Turn
<1>4. m_task \in [Workers -> TaskTypes \cup {None}]
  BY DEF IInv, Types
<1> QED
  BY <1>1, <1>2, <1>3, <1>4 DEF Selection, Turn

\* What HandleEnd() updates of a part is one of two counters.
LEMMA PartFieldKept ==
  ASSUME part \in [Parts -> PartTypes], NEW q \in Parts, NEW x,
         \/ part' = [part EXCEPT ![q].chunks_loaded = x]
         \/ part' = [part EXCEPT ![q].checksums_verified = x]
  PROVE  /\ \A p \in Parts :
              /\ part'[p].available_chunks = part[p].available_chunks
              /\ part'[p].chunks_consumed = part[p].chunks_consumed
         /\ part' = [part EXCEPT ![q].checksums_verified = x] =>
              \A p \in Parts : part'[p].chunks_loaded = part[p].chunks_loaded
<1>1. part[q] \in PartTypes
  OBVIOUS
<1>2. CASE part' = [part EXCEPT ![q].checksums_verified = x]
  <2>1. part'[q] = [part[q] EXCEPT !.checksums_verified = x]
        /\ \A p \in Parts : p # q => part'[p] = part[p]
    BY <1>2
  <2>2. /\ part'[q].available_chunks = part[q].available_chunks
        /\ part'[q].chunks_consumed = part[q].chunks_consumed
        /\ part'[q].chunks_loaded = part[q].chunks_loaded
    BY <1>1, <2>1 DEF PartTypes
  <2> QED
    BY <2>1, <2>2
<1>3. CASE part' = [part EXCEPT ![q].chunks_loaded = x]
                 /\ part' # [part EXCEPT ![q].checksums_verified = x]
  <2>1. part'[q] = [part[q] EXCEPT !.chunks_loaded = x]
        /\ \A p \in Parts : p # q => part'[p] = part[p]
    BY <1>3
  <2>2. /\ part'[q].available_chunks = part[q].available_chunks
        /\ part'[q].chunks_consumed = part[q].chunks_consumed
    BY <1>1, <2>1 DEF PartTypes
  <2> QED
    BY <1>3, <2>1, <2>2
<1> QED
  BY <1>2, <1>3

\* The end of a task is handled: more is counted as loaded, but not more than
\* was consumed.
LEMMA SelectionOfEnd ==
  ASSUME IInv, IInv', Selection, NEW v \in Workers, HandleEnd(v)
  PROVE  Selection'
<1>1. /\ pc = "events" /\ state[v] = "ended" /\ m_task[v] \in TaskTypes
      /\ UNCHANGED <<opt, m_tables_with_data, pc, caller, current>>
      /\ state' = [state EXCEPT ![v] = "ready"] /\ m_task' = [m_task EXCEPT ![v] = None]
  BY HandleEndFacts
<1>2. UNCHANGED <<m_tables_being_loaded, scanned>>
  BY DEF HandleEnd, mainVars
<1>3. /\ \A w \in Workers : /\ state'[w] = "busy" <=> state[w] = "busy"
      /\ \A w \in Workers : w # v => m_task'[w] = m_task[w] /\ state'[w] = state[w]
      /\ \A w \in Workers : \A type, of : Holds(w, type, of)' <=> w # v /\ Holds(w, type, of)
      /\ m_task'[v] = None /\ state'[v] = "ready"
  BY <1>1, Released DEF IInv, Types
<1>4. Turn'
  BY <1>1, <1>2, <1>3 DEF Selection, Turn
<1>5. \A p \in Parts :
           /\ part'[p].available_chunks = part[p].available_chunks
           /\ part'[p].chunks_consumed = part[p].chunks_consumed
  <2>1. part \in [Parts -> PartTypes]
    BY DEF IInv, Types
  <2>2. m_task[v].type \notin {"chunk", "bulk", "checksum"} => part' = part
    BY DEF HandleEnd
  <2>3. m_task[v].type \in {"chunk", "bulk", "checksum"} => m_task[v].of \in Parts
    BY <1>1 DEF TaskTypes
  <2>4. m_task[v].type = "chunk" =>
          part' = [part EXCEPT ![m_task[v].of].chunks_loaded = @ + 1]
    BY DEF HandleEnd
  <2>5. m_task[v].type = "bulk" =>
          part' = [part EXCEPT ![m_task[v].of].chunks_loaded =
                                 Len(part[m_task[v].of].available_chunks)]
    BY DEF HandleEnd
  <2>6. m_task[v].type = "checksum" =>
          part' = [part EXCEPT ![m_task[v].of].checksums_verified = @ + 1]
    BY DEF HandleEnd
  <2>7. CASE m_task[v].type = "chunk"
    <3>1. PICK q \in Parts : q = m_task[v].of
      BY <2>3, <2>7
    <3>2. PICK x : part' = [part EXCEPT ![q].chunks_loaded = x]
      BY <2>4, <2>7, <3>1
    <3> QED
      BY <2>1, <3>2, PartFieldKept
  <2>8. CASE m_task[v].type = "bulk"
    <3>1. PICK q \in Parts : q = m_task[v].of
      BY <2>3, <2>8
    <3>2. PICK x : part' = [part EXCEPT ![q].chunks_loaded = x]
      BY <2>5, <2>8, <3>1
    <3> QED
      BY <2>1, <3>2, PartFieldKept
  <2>9. CASE m_task[v].type = "checksum"
    <3>1. PICK q \in Parts : q = m_task[v].of
      BY <2>3, <2>9
    <3>2. PICK x : part' = [part EXCEPT ![q].checksums_verified = x]
      BY <2>6, <2>9, <3>1
    <3> QED
      BY <2>1, <3>2, PartFieldKept
  <2> QED
    BY <2>2, <2>7, <2>8, <2>9
<1>6. \A p \in Parts : part'[p].chunks_loaded <= part'[p].chunks_consumed
  <2>1. CASE ~opt.load_data
    <3>1. m_task[v].type \notin {"chunk", "bulk"}
      BY <1>1, <2>1 DEF IInv, Tasks, Holds, Held, TaskTypes
    <3>2. m_task[v].type \in {"index", "analyze"} => part' = part
      BY DEF HandleEnd
    <3>3. m_task[v].type = "checksum" =>
            part' = [part EXCEPT ![m_task[v].of].checksums_verified = @ + 1]
      BY DEF HandleEnd
    <3>4. m_task[v].type \in {"chunk", "bulk", "index", "analyze", "checksum"}
      BY <1>1 DEF TaskTypes
    <3>5. \A p \in Parts : part'[p].chunks_loaded = part[p].chunks_loaded
      <4>1. part \in [Parts -> PartTypes]
        BY DEF IInv, Types
      <4>2. CASE m_task[v].type = "checksum"
        <5>1. PICK q \in Parts : q = m_task[v].of
          BY <1>1, <4>2 DEF TaskTypes
        <5>2. PICK x : part' = [part EXCEPT ![q].checksums_verified = x]
          BY <3>3, <4>2, <5>1
        <5> QED
          BY <4>1, <5>2, PartFieldKept
      <4> QED
        BY <3>1, <3>2, <3>4, <4>2
    <3> QED
      BY <1>5, <3>5 DEF Selection, LoadedLess
  <2>2. CASE opt.load_data
    <3> SUFFICES ASSUME NEW p \in Parts
                 PROVE  part'[p].chunks_loaded <= part'[p].chunks_consumed
      OBVIOUS
    <3>1. IF Bulk(p)'
          THEN part'[p].chunks_loaded = 0 /\ LoadersOf(p)' = {}
          ELSE part'[p].chunks_loaded + Cardinality(LoadersOf(p)') = part'[p].chunks_consumed
      BY <1>1, <2>2 DEF IInv, Counted
    <3>2. IsFiniteSet(LoadersOf(p)') /\ Cardinality(LoadersOf(p)') \in Nat
      <4>1. LoadersOf(p)' \subseteq Workers
        BY DEF LoadersOf
      <4> QED
        BY <4>1, FS_Subset, FS_CardinalityType, ScheduleAssumption
    <3>3. part'[p].chunks_loaded \in Nat /\ part'[p].chunks_consumed \in Nat
      BY DEF IInv, Types, PartTypes
    <3> QED
      BY <3>1, <3>2, <3>3
  <2> QED
    BY <2>1, <2>2
<1>7. \A w \in Workers : \A p \in Parts :
           /\ LoadsPart(w, p)' => LoadsPart(w, p)
           /\ LoadsPart(w, p) /\ state[w] = "busy" =>
                LoadsPart(w, p)' /\ state'[w] = "busy" /\ m_task'[w] = m_task[w]
  BY <1>1, <1>3 DEF LoadsPart
<1>8. ~Awaiting'
  BY <1>1 DEF Awaiting
<1> QED
  BY <1>1, <1>2, <1>4, <1>5, <1>6, <1>7, <1>8, SelectionKept

\* Another task is given to a worker, or is found to be done.
LEMMA SelectionOfOther ==
  ASSUME IInv, Selection, UNCHANGED <<m_tables_with_data, m_tables_being_loaded>>,
         UNCHANGED <<caller, scanned>>, pc = "others", ChunksAsBefore,
         NoneAssigned \/ \E task \in TaskTypes : OtherAssigned(task)
  PROVE  Selection'
<1>1. \A p \in Parts :
           /\ part'[p].available_chunks = part[p].available_chunks
           /\ part'[p].chunks_consumed = part[p].chunks_consumed
           /\ part'[p].chunks_loaded <= part'[p].chunks_consumed
  BY DEF ChunksAsBefore, Selection, LoadedLess
<1>2. CASE NoneAssigned
  <2>1. UNCHANGED <<m_task, state, pc, current>>
    BY <1>2 DEF NoneAssigned
  <2>2. \A w \in Workers : \A p \in Parts : LoadsPart(w, p)' <=> LoadsPart(w, p)
    BY <2>1 DEF LoadsPart, Holds, Held
  <2>3. Turn' /\ ~Awaiting'
    BY <2>1 DEF Selection, Turn, Awaiting
  <2> QED
    BY <1>1, <2>1, <2>2, <2>3, SelectionKept
<1>3. CASE \E task \in TaskTypes : OtherAssigned(task)
  <2>1. PICK task \in TaskTypes : OtherAssigned(task)
    BY <1>3
  <2>2. /\ current \in Workers
        /\ pc' = "events"
        /\ \A w \in Workers : state'[w] = "busy" <=> (state[w] = "busy" \/ w = current)
        /\ \A w \in Workers : state'[w] = "ended" <=> state[w] = "ended"
        /\ m_task'[current] = task
        /\ \A w \in Workers : w # current => m_task'[w] = m_task[w]
        /\ \A w \in Workers : \A type, of :
             Holds(w, type, of)' <=> IF w = current THEN task.type = type /\ task.of = of
                                                    ELSE Holds(w, type, of)
        /\ \A type, of : ~Holds(current, type, of)
    BY <2>1, OtherAssignedFacts
  <2>3. task.type # "chunk" /\ task.type # "bulk" /\ task # None /\ current' = None
    BY <2>1, NoneIsNoTask DEF OtherAssigned, Assign
  <2>4. \A w \in Workers : \A p \in Parts :
           /\ LoadsPart(w, p)' <=> LoadsPart(w, p)
           /\ LoadsPart(w, p) => w # current
    BY <2>2, <2>3 DEF LoadsPart
  <2>5. Turn'
    BY <2>1, <2>3, AssignedTurn DEF OtherAssigned
  <2>6. ~Awaiting'
    BY <2>2 DEF Awaiting
  <2> QED
    BY <1>1, <2>2, <2>4, <2>5, <2>6, SelectionKept
<1> QED
  BY <1>2, <1>3

LEMMA SelectionOfOthers ==
  ASSUME IInv, IInv', Selection, NextDeferredIndex \/ NextTableAnalyze \/ NextTableChecksum
  PROVE  Selection'
<1>1. /\ UNCHANGED <<m_tables_with_data, m_tables_being_loaded>>
      /\ UNCHANGED <<caller, scanned>> /\ pc = "others"
  BY DEF NextDeferredIndex, NextTableAnalyze, NextTableChecksum, unchangedByOthers
<1>2. \A t \in Tables : \A type \in {"index", "analyze"} :
        Assign(Task(type, t, 0)) => \E task \in TaskTypes : OtherAssigned(task)
  <2> SUFFICES ASSUME NEW t \in Tables, NEW type \in {"index", "analyze"},
                      Assign(Task(type, t, 0))
               PROVE  \E task \in TaskTypes : OtherAssigned(task)
    OBVIOUS
  <2>1. Task(type, t, 0) \in TaskTypes
    BY DEF Task, TaskTypes
  <2>2. OtherAssigned(Task(type, t, 0))
    BY TaskFields DEF OtherAssigned
  <2> QED
    BY <2>1, <2>2
<1>3. part \in [Parts -> PartTypes] /\ part' \in [Parts -> PartTypes]
  BY DEF IInv, Types
<1>4. CASE NextDeferredIndex \/ NextTableAnalyze
  <2>1. part' = part
    BY <1>4 DEF NextDeferredIndex, NextTableAnalyze
  <2>2. ChunksAsBefore
    BY <1>3, <2>1 DEF ChunksAsBefore
  <2>3. NoneAssigned \/ \E task \in TaskTypes : OtherAssigned(task)
    BY <1>2, <1>4 DEF NextDeferredIndex, NextTableAnalyze, NoneAssigned, workerVars
  <2> QED
    BY <1>1, <2>2, <2>3, SelectionOfOther
<1>5. CASE NextTableChecksum
  <2>1. PICK q \in Parts :
          /\ ChecksumDue(q)
          /\ IF table_exists(Owner[q])
             THEN /\ part' = [part EXCEPT ![q].checksums = @ - 1]
                  /\ Assign(Task("checksum", q, part[q].checksums))
             ELSE /\ part' = [part EXCEPT ![q].checksums = @ - 1,
                                          ![q].checksums_verified = @ + 1]
                  /\ UNCHANGED <<workerVars, pc, current>>
    BY <1>5 DEF NextTableChecksum
  <2>2. ChunksAsBefore
    <3>1. CASE table_exists(Owner[q])
      <4>1. part' = [part EXCEPT ![q].checksums = @ - 1]
        BY <2>1, <3>1
      <4> QED
        BY <1>3, <4>1 DEF ChunksAsBefore, PartTypes
    <3>2. CASE ~table_exists(Owner[q])
      <4>1. part' = [part EXCEPT ![q].checksums = @ - 1, ![q].checksums_verified = @ + 1]
        BY <2>1, <3>2
      <4> QED
        BY <1>3, <4>1 DEF ChunksAsBefore, PartTypes
    <3> QED
      BY <3>1, <3>2
  <2>3. NoneAssigned \/ \E task \in TaskTypes : OtherAssigned(task)
    <3>1. Task("checksum", q, part[q].checksums) \in TaskTypes
      BY <1>3 DEF Task, TaskTypes, PartTypes
    <3>2. Assign(Task("checksum", q, part[q].checksums)) =>
            OtherAssigned(Task("checksum", q, part[q].checksums))
      BY TaskFields DEF OtherAssigned
    <3> QED
      BY <2>1, <3>1, <3>2 DEF NoneAssigned, workerVars
  <2> QED
    BY <1>1, <2>2, <2>3, SelectionOfOther
<1> QED
  BY <1>4, <1>5

\* A task is executed: what it loads is taken off m_tables_being_loaded, and
\* what stays there is being loaded by others.
LEMMA SelectionOfExecute ==
  ASSUME IInv, Selection, NEW v \in Workers, Execute(v)
  PROVE  Selection'
<1>1. /\ state[v] = "busy" /\ state' = [state EXCEPT ![v] = "ended"]
      /\ UNCHANGED <<part, m_tables_with_data, pc, caller, current, scanned, m_task>>
  BY DEF Execute, readerVars, mainVars
<1>2. m_task[v] \in TaskTypes /\ Held(v)
  BY <1>1 DEF IInv, Types, Held
<1>3. /\ \A w \in Workers : state'[w] = "busy" <=> (state[w] = "busy" /\ w # v)
      /\ \A w \in Workers : state'[w] \in {"ready", "idle"} <=> state[w] \in {"ready", "idle"}
      /\ \A w \in Workers : \A type, of : Holds(w, type, of)' <=> Holds(w, type, of)
  BY <1>1, Executed DEF IInv, Types
<1>4. Turn'
  BY <1>1, <1>3 DEF Selection, Turn
<1>5. \A w \in Workers : \A p \in Parts : LoadsPart(w, p)' <=> LoadsPart(w, p)
  BY <1>3 DEF LoadsPart
<1>6. BeingLoaded'
  <2> SUFFICES ASSUME NEW e \in m_tables_being_loaded'
               PROVE  /\ e.part \in Parts /\ e.size \in Nat
                      /\ \E w \in Workers : /\ state'[w] = "busy" /\ LoadsPart(w, e.part)'
                                            /\ m_task'[w].index = e.index
    BY DEF BeingLoaded
  <2>1. CASE m_task[v].type \in {"chunk", "bulk"}
    <3>1. /\ e \in m_tables_being_loaded
          /\ e.part # m_task[v].of \/ e.index # m_task[v].index
      BY <2>1 DEF Execute
    <3>2. e.part \in Parts /\ e.size \in Nat
      BY <3>1 DEF Selection, BeingLoaded
    <3>3. PICK w \in Workers : /\ state[w] = "busy" /\ LoadsPart(w, e.part)
                               /\ m_task[w].index = e.index
      BY <3>1 DEF Selection, BeingLoaded
    <3>4. w # v
      BY <3>1, <3>3 DEF LoadsPart, Holds
    <3> QED
      BY <1>1, <1>3, <1>5, <3>2, <3>3, <3>4
  <2>2. CASE m_task[v].type \notin {"chunk", "bulk"}
    <3>1. e \in m_tables_being_loaded
      BY <2>2 DEF Execute
    <3>2. e.part \in Parts /\ e.size \in Nat
      BY <3>1 DEF Selection, BeingLoaded
    <3>3. PICK w \in Workers : /\ state[w] = "busy" /\ LoadsPart(w, e.part)
                               /\ m_task[w].index = e.index
      BY <3>1 DEF Selection, BeingLoaded
    <3>4. w # v
      BY <2>2, <3>3 DEF LoadsPart, Holds
    <3> QED
      BY <1>1, <1>3, <1>5, <3>2, <3>3, <3>4
  <2> QED
    BY <2>1, <2>2
<1>7. Pending' /\ LoadedLess'
  BY <1>1 DEF Selection, Pending, LoadedLess, Available
<1>8. Awaiting' => NoneConsumed'
  BY <1>1 DEF Selection, Awaiting, NoneConsumed
<1>9. Active' = Active
  BY <1>1, <1>5 DEF Active
<1>10. Limited'
  BY <1>1, <1>9, LimitedKept
<1> QED
  BY <1>4, <1>6, <1>7, <1>8, <1>10 DEF Selection

\* A scan finds more chunks.  Nothing was begun if it is the one for metadata.
LEMMA SelectionOfListing ==
  ASSUME IInv, Selection, FinishListing
  PROVE  Selection'
<1>1. PICK F \in SUBSET files :
           /\ part' \in [Parts -> PartTypes]
           /\ \A p \in Parts : ScannedAs(p, F)
           /\ m_tables_with_data' = m_tables_with_data \cup
                {p \in Parts : Available(part'[p]) > Available(part[p])}
  BY ListingFacts, Zenon
<1>2. /\ pc = "listing" /\ pc' = "scanned"
      /\ UNCHANGED <<caller, current, scanned, m_task, state, m_tables_being_loaded>>
  BY DEF FinishListing, unchangedByScan, workerVars
<1>3. \A p \in Parts : /\ part'[p].chunks_consumed = part[p].chunks_consumed
                       /\ part'[p].chunks_loaded = part[p].chunks_loaded
                       /\ Available(part[p]) <= Available(part'[p])
  BY <1>1 DEF ScannedAs
<1>4. Pending'
  <2> SUFFICES ASSUME NEW p \in Parts, part'[p].chunks_consumed < Available(part'[p])
               PROVE  p \in m_tables_with_data'
    BY DEF Pending, Available
  <2>1. /\ part[p].chunks_consumed \in Nat /\ Available(part[p]) \in Nat
        /\ Available(part'[p]) \in Nat
    BY <1>1 DEF IInv, Types, PartTypes, Available
  <2>2. CASE Available(part'[p]) > Available(part[p])
    BY <1>1, <2>2
  <2>3. CASE Available(part'[p]) = Available(part[p])
    BY <1>1, <1>3, <2>3 DEF Selection, Pending
  <2> QED
    BY <1>3, <2>1, <2>2, <2>3
<1>5. \A w \in Workers : \A p \in Parts : LoadsPart(w, p)' <=> LoadsPart(w, p)
  BY <1>2 DEF LoadsPart, Holds, Held
<1>6. BeingLoaded' /\ LoadedLess' /\ Turn'
  BY <1>2, <1>3, <1>5 DEF Selection, BeingLoaded, LoadedLess, Turn
<1>7. Awaiting' => NoneConsumed'
  BY <1>2, <1>3 DEF Selection, Awaiting, NoneConsumed
<1>8. caller' = "metadata" => Active' = {}
  <2>1. caller' = "metadata" => \A p \in Parts : ~(part'[p].chunks_consumed > 0)
    BY <1>2, <1>3 DEF Selection, Awaiting, NoneConsumed
  <2> QED
    BY <2>1 DEF Active
<1>9. Limited'
  <2> SUFFICES ASSUME caller' = "metadata"
               PROVE  IsFiniteSet(Active') /\ Cardinality(Active') <= ThreadsCount
    BY DEF Limited
  <2>1. IsFiniteSet({}) /\ Cardinality({}) = 0
    BY FS_EmptySet
  <2>2. 0 <= ThreadsCount
    BY ReaderAssumption
  <2> QED
    BY <1>8, <2>1, <2>2
<1> QED
  BY <1>4, <1>6, <1>7, <1>9 DEF Selection

\* A part that was not begun is taken only if each of those that were begun is
\* being loaded, each by another worker, and none by the one that gets a task.
LEMMA NewPart ==
  ASSUME IInv, Selection, pc = "next", NEW q \in Candidates, ~(part[q].chunks_consumed > 0)
  PROVE  IsFiniteSet(Active) /\ Cardinality(Active) < ThreadsCount
<1>1. current \in Workers /\ state[current] = "ready"
  BY DEF IInv, Control
<1>2. q \in BestNotLoading(m_tables_being_loaded)
  <2>1. q \notin Proportional(m_tables_being_loaded)
    BY DEF Proportional, InProgress
  <2> QED
    BY <2>1 DEF Candidates, schedule_chunk_proportionally
<1>3. \A p \in m_tables_with_data : part[p].chunks_consumed > 0 =>
        \E e \in m_tables_being_loaded : e.part = p
  <2> SUFFICES ASSUME NEW p \in m_tables_with_data, part[p].chunks_consumed > 0,
                      p \notin {e.part : e \in m_tables_being_loaded}
               PROVE  FALSE
    OBVIOUS
  <2>1. ~Better(p, q)
    BY <1>2 DEF BestNotLoading
  <2> QED
    BY <2>1 DEF Better
<1>4. \A p \in Active : \E w \in Workers : LoadsPart(w, p)
  <2> SUFFICES ASSUME NEW p \in Active PROVE \E w \in Workers : LoadsPart(w, p)
    OBVIOUS
  <2>1. CASE p \in m_tables_with_data
    <3>1. PICK e \in m_tables_being_loaded : e.part = p
      BY <1>3, <2>1 DEF Active
    <3> QED
      BY <3>1 DEF Selection, BeingLoaded
  <2> QED
    BY <2>1 DEF Active
<1> DEFINE W == Workers \ {current}
           f == [p \in Active |-> CHOOSE w \in Workers : LoadsPart(w, p)]
<1>5. \A p \in Active : f[p] \in Workers /\ LoadsPart(f[p], p)
  BY <1>4
<1>6. \A p \in Active : f[p] \in W /\ m_task[f[p]].of = p
  BY <1>1, <1>5 DEF LoadsPart, Holds, Held
<1>7. f \in Injection(Active, W)
  <2>1. f \in [Active -> W]
    BY <1>6
  <2>2. \A a, b \in Active : f[a] = f[b] => a = b
    BY <1>6
  <2> HIDE DEF f, W
  <2> QED
    BY <2>1, <2>2, Zenon DEF Injection, IsInjective
<1>8. IsFiniteSet(W) /\ Cardinality(W) = ThreadsCount - 1
  BY <1>1, ScheduleAssumption, FS_RemoveElement
<1> HIDE DEF W, f
<1>9. IsFiniteSet(Active) /\ Cardinality(Active) <= Cardinality(W)
  BY <1>7, <1>8, FS_Injection
<1>10. Cardinality(Active) \in Nat /\ ThreadsCount \in Nat
  BY <1>9, FS_CardinalityType, ReaderAssumption
<1> QED
  BY <1>8, <1>9, <1>10

\* The next chunk of part q, or all of it, is taken, and its record is e.
Takes(q, e) ==
  /\ e \in PartTypes
  /\ part' = [part EXCEPT ![q] = e]
  /\ e.available_chunks = part[q].available_chunks
  /\ e.chunks_loaded <= e.chunks_consumed
  /\ m_tables_with_data' \subseteq m_tables_with_data
  /\ \A p \in m_tables_with_data \ {q} : p \in m_tables_with_data'
  /\ e.chunks_consumed < Available(e) => q \in m_tables_with_data'

\* It is given to the worker, and marked as being loaded.
LoadBegins(q) ==
  \E task \in TaskTypes : \E size \in Nat :
    /\ task.type \in {"chunk", "bulk"} /\ task.of = q
    /\ Assign(task)
    /\ m_tables_being_loaded' = m_tables_being_loaded
         \cup {[part |-> q, index |-> task.index, size |-> size]}

LEMMA SelectionOfPart ==
  ASSUME IInv, Selection, pc = "next", NEW q \in Candidates, q \in Parts,
         UNCHANGED <<caller, scanned>>, NEW e, Takes(q, e),
         (NoneAssigned /\ UNCHANGED m_tables_being_loaded) \/ LoadBegins(q)
  PROVE  Selection'
<1>1. /\ \A p \in Parts : p # q => part'[p] = part[p]
      /\ part'[q] = e
  BY DEF Takes, IInv, Types
<1>2. PICK c \in Workers : c = current /\ state[c] = "ready"
  BY DEF IInv, Control
<1>3. /\ \A w \in Workers : \A p \in Parts : p # q => (LoadsPart(w, p)' => LoadsPart(w, p))
      /\ BeingLoaded' /\ Turn' /\ pc' \in {"next", "events"}
  <2>1. CASE NoneAssigned /\ UNCHANGED m_tables_being_loaded
    <3>1. UNCHANGED <<m_task, state, pc, current>>
      BY <2>1 DEF NoneAssigned
    <3>2. \A w \in Workers : \A p \in Parts : LoadsPart(w, p)' <=> LoadsPart(w, p)
      BY <3>1 DEF LoadsPart, Holds, Held
    <3>3. BeingLoaded' /\ Turn'
      BY <2>1, <3>1, <3>2 DEF Selection, BeingLoaded, Turn
    <3> QED
      BY <3>1, <3>2, <3>3
  <2>2. CASE LoadBegins(q)
    <3>1. PICK task \in TaskTypes : \E size \in Nat :
            /\ task.type \in {"chunk", "bulk"} /\ task.of = q
            /\ Assign(task)
            /\ m_tables_being_loaded' = m_tables_being_loaded
                 \cup {[part |-> q, index |-> task.index, size |-> size]}
      BY <2>2 DEF LoadBegins
    <3>2. PICK size \in Nat : m_tables_being_loaded' = m_tables_being_loaded
            \cup {[part |-> q, index |-> task.index, size |-> size]}
      BY <3>1
    <3>3. task.type \in {"chunk", "bulk"} /\ task.of = q /\ Assign(task)
      BY <3>1
    <3>4. /\ pc' = "events"
          /\ \A w \in Workers : state'[w] = "busy" <=> (state[w] = "busy" \/ w = c)
          /\ m_task'[c] = task
          /\ \A w \in Workers : w # c => m_task'[w] = m_task[w]
          /\ \A w \in Workers : \A type, of :
               Holds(w, type, of)' <=> IF w = c THEN task.type = type /\ task.of = of
                                                      ELSE Holds(w, type, of)
          /\ \A type, of : ~Holds(c, type, of)
      BY <1>2, <3>3, Assigned DEF IInv
    <3>5. \A w \in Workers : \A p \in Parts :
            /\ p # q => (LoadsPart(w, p)' => LoadsPart(w, p))
            /\ LoadsPart(w, p) => LoadsPart(w, p)' /\ w # c
      BY <3>3, <3>4 DEF LoadsPart
    <3>6. LoadsPart(c, q)'
      BY <1>2, <3>3, <3>4 DEF LoadsPart
    <3>7. Turn'
      BY <3>3, AssignedTurn
    <3>8. BeingLoaded'
      <4> SUFFICES ASSUME NEW x \in m_tables_being_loaded'
                   PROVE  /\ x.part \in Parts /\ x.size \in Nat
                          /\ \E w \in Workers : /\ state'[w] = "busy" /\ LoadsPart(w, x.part)'
                                                /\ m_task'[w].index = x.index
        BY DEF BeingLoaded
      <4>1. CASE x \in m_tables_being_loaded
        <5>1. x.part \in Parts /\ x.size \in Nat
          BY <4>1 DEF Selection, BeingLoaded
        <5>2. PICK w \in Workers : /\ state[w] = "busy" /\ LoadsPart(w, x.part)
                                   /\ m_task[w].index = x.index
          BY <4>1 DEF Selection, BeingLoaded
        <5> QED
          BY <3>4, <3>5, <5>1, <5>2
      <4>2. CASE x = [part |-> q, index |-> task.index, size |-> size]
        <5>1. x.part = q /\ x.index = task.index /\ x.size = size
          BY <4>2
        <5> QED
          BY <1>2, <3>4, <3>6, <5>1
      <4> QED
        BY <3>2, <4>1, <4>2
    <3> QED
      BY <3>4, <3>5, <3>7, <3>8
  <2> QED
    BY <2>1, <2>2
<1>4. Pending'
  <2> SUFFICES ASSUME NEW p \in Parts, part'[p].chunks_consumed < Available(part'[p])
               PROVE  p \in m_tables_with_data'
    BY DEF Pending, Available
  <2>1. CASE p = q
    BY <1>1, <2>1 DEF Takes
  <2>2. CASE p # q
    BY <1>1, <2>2 DEF Takes, Selection, Pending
  <2> QED
    BY <2>1, <2>2
<1>5. LoadedLess'
  BY <1>1 DEF Takes, Selection, LoadedLess
<1>6. ~Awaiting'
  BY <1>3 DEF Awaiting
<1>7. Active' \subseteq Active \cup {q}
  <2> SUFFICES ASSUME NEW p \in Active', p # q PROVE p \in Active
    OBVIOUS
  <2>1. p \in Parts /\ part'[p].chunks_consumed > 0
        /\ (p \in m_tables_with_data' \/ \E w \in Workers : LoadsPart(w, p)')
    BY DEF Active
  <2> QED
    BY <1>1, <1>3, <2>1 DEF Active, Takes
<1>8. Limited'
  <2>1. CASE part[q].chunks_consumed > 0
    <3>1. q \in Active
      BY <2>1, CandidatesHaveData DEF Active
    <3> QED
      BY <1>7, <3>1, LimitedKept
  <2>2. CASE ~(part[q].chunks_consumed > 0)
    <3>1. IsFiniteSet(Active) /\ Cardinality(Active) < ThreadsCount
      BY <2>2, NewPart
    <3>2. /\ IsFiniteSet(Active \cup {q})
          /\ Cardinality(Active \cup {q})
               = IF q \in Active THEN Cardinality(Active) ELSE Cardinality(Active) + 1
      BY <3>1, FS_AddElement
    <3>3. IsFiniteSet(Active') /\ Cardinality(Active') <= Cardinality(Active \cup {q})
      BY <1>7, <3>2, FS_Subset
    <3>4. Cardinality(Active) \in Nat /\ Cardinality(Active') \in Nat /\ ThreadsCount \in Nat
      BY <3>1, <3>3, FS_CardinalityType, ReaderAssumption
    <3> QED
      BY <3>1, <3>2, <3>3, <3>4 DEF Limited
  <2> QED
    BY <2>1, <2>2
<1> QED
  BY <1>3, <1>4, <1>5, <1>6, <1>8 DEF Selection

LEMMA ChunkTaken ==
  ASSUME IInv, Selection, NEW q \in Parts, has_data_available(part[q]), ScheduleTableChunk(q)
  PROVE  /\ \E e : Takes(q, e)
         /\ (NoneAssigned /\ UNCHANGED m_tables_being_loaded) \/ LoadBegins(q)
<1>1. PICK d \in PartTypes : d = part[q]
  BY DEF IInv, Types
<1>2. PICK n \in Nat : n = d.chunks_consumed
  BY DEF PartTypes
<1>3. PICK c : c = ConsumedChunk(q)
  OBVIOUS
<1>4. c = [d EXCEPT !.chunks_consumed = n + 1]
  BY <1>1, <1>2, <1>3 DEF ConsumedChunk
<1>5. PICK done \in BOOLEAN : done = (log.chunk[q][n] = "DONE")
  OBVIOUS
<1>6. PICK e : e = IF done THEN [c EXCEPT !.chunks_loaded = @ + 1] ELSE c
  OBVIOUS
<1>7. /\ c \in PartTypes /\ c.available_chunks = d.available_chunks
      /\ c.chunks_consumed = n + 1 /\ c.chunks_loaded = d.chunks_loaded
  BY <1>4 DEF PartTypes
<1>8. /\ e \in PartTypes /\ e.available_chunks = d.available_chunks
      /\ e.chunks_consumed = n + 1
      /\ e.chunks_loaded = IF done THEN d.chunks_loaded + 1 ELSE d.chunks_loaded
  <2>1. CASE done
    <3>1. e = [c EXCEPT !.chunks_loaded = c.chunks_loaded + 1]
      BY <1>6, <2>1
    <3>2. c.chunks_loaded \in Nat /\ c.chunks_loaded + 1 \in Nat
      BY <1>7 DEF PartTypes
    <3>3. e \in PartTypes
      BY <1>7, <3>1, <3>2 DEF PartTypes
    <3>4. /\ e.available_chunks = c.available_chunks
          /\ e.chunks_consumed = c.chunks_consumed
          /\ e.chunks_loaded = c.chunks_loaded + 1
      BY <1>7, <3>1 DEF PartTypes
    <3> QED
      BY <1>7, <2>1, <3>3, <3>4
  <2>2. CASE ~done
    BY <1>6, <1>7, <2>2
  <2> QED
    BY <2>1, <2>2
<1>9. /\ m_tables_with_data' = StillWithData(q, c)
      /\ part' = [part EXCEPT ![q] = e]
      /\ IF done \/ ~opt.load_data
         THEN UNCHANGED <<m_tables_being_loaded, m_task, state, pc, current>>
         ELSE /\ m_tables_being_loaded' = Loading(q, n, Size[q][n])
              /\ Assign(Task("chunk", q, n))
  BY <1>1, <1>2, <1>3, <1>5, <1>6, Zenon DEF ScheduleTableChunk, workerVars
<1>10. n < Available(d) /\ Available(d) <= Chunks[q] /\ Available(d) \in Nat /\ Chunks[q] \in Nat
  BY <1>1, <1>2, ReaderAssumption DEF has_data_available, has_value, Available, PartTypes, IInv,
                                      Seen
<1>11. /\ m_tables_with_data' \subseteq m_tables_with_data
       /\ \A p \in m_tables_with_data \ {q} : p \in m_tables_with_data'
  BY <1>9 DEF StillWithData
<1>12. ASSUME n + 1 < Available(e) PROVE q \in m_tables_with_data'
  <2>1. q \in m_tables_with_data
    BY <1>1, <1>2, <1>10 DEF Selection, Pending
  <2>2. n + 1 < Len(d.available_chunks) /\ Len(d.available_chunks) \in Nat
        /\ d.available_chunks \in Seq({TRUE})
    BY <1>8, <1>12 DEF Available, PartTypes
  <2>3. d.available_chunks[n + 1 + 1] \in {TRUE}
    <3>1. n + 1 + 1 \in 1 .. Len(d.available_chunks)
      BY <2>2
    <3> QED
      BY <2>2, <3>1, ElementOfSeq, Zenon
  <2>4. has_data_available(c)
    BY <1>7, <2>2, <2>3 DEF has_data_available, has_value
  <2> QED
    BY <1>9, <2>1, <2>4 DEF StillWithData
<1>13. e.chunks_loaded <= e.chunks_consumed
  <2>1. d.chunks_loaded \in Nat /\ d.chunks_loaded <= n
    BY <1>1, <1>2 DEF Selection, LoadedLess, PartTypes
  <2> QED
    BY <1>8, <2>1
<1>14. Takes(q, e)
  BY <1>1, <1>8, <1>9, <1>11, <1>12, <1>13 DEF Takes
<1>15. CASE done \/ ~opt.load_data
  BY <1>9, <1>14, <1>15 DEF NoneAssigned
<1>16. CASE ~(done \/ ~opt.load_data)
  <2>1. Task("chunk", q, n) \in TaskTypes
    BY DEF Task, TaskTypes
  <2>2. PICK task \in TaskTypes : task = Task("chunk", q, n)
    BY <2>1
  <2>3. task.type = "chunk" /\ task.of = q /\ task.index = n /\ Assign(task)
    BY <1>9, <1>16, <2>2, TaskFields
  <2>4. Size[q][n] \in Nat
    BY <1>10, ReaderAssumption
  <2>5. m_tables_being_loaded' = m_tables_being_loaded
          \cup {[part |-> q, index |-> task.index, size |-> Size[q][n]]}
    BY <1>9, <1>16, <2>3 DEF Loading
  <2>6. LoadBegins(q)
    BY <2>3, <2>4, <2>5 DEF LoadBegins
  <2> QED
    BY <1>14, <2>6
<1> QED
  BY <1>15, <1>16

LEMMA BulkTaken ==
  ASSUME IInv, Selection, NEW q \in Parts, has_data_available(part[q]), BulkLoadTried(q),
         ScheduleBulkLoad(q)
  PROVE  /\ \E e : Takes(q, e)
         /\ (NoneAssigned /\ UNCHANGED m_tables_being_loaded) \/ LoadBegins(q)
<1>1. PICK d \in PartTypes : d = part[q]
  BY DEF IInv, Types
<1>2. PICK n \in Nat : n = Len(d.available_chunks)
  BY DEF PartTypes
<1>3. PICK c : c = ConsumedTable(q)
  OBVIOUS
<1>4. c = [d EXCEPT !.chunks_consumed = n]
  BY <1>1, <1>2, <1>3 DEF ConsumedTable
<1>5. PICK done \in BOOLEAN : done = (log.bulk[q] = "DONE")
  OBVIOUS
<1>6. PICK e : e = IF done THEN [c EXCEPT !.chunks_loaded = n] ELSE c
  OBVIOUS
<1>7. /\ c \in PartTypes /\ c.available_chunks = d.available_chunks
      /\ c.chunks_consumed = n /\ c.chunks_loaded = d.chunks_loaded
  BY <1>4 DEF PartTypes
<1>8. /\ e \in PartTypes /\ e.available_chunks = d.available_chunks
      /\ e.chunks_consumed = n
      /\ e.chunks_loaded = IF done THEN n ELSE d.chunks_loaded
  BY <1>6, <1>7 DEF PartTypes
<1>9. /\ m_tables_with_data' = m_tables_with_data \ {q}
      /\ part' = [part EXCEPT ![q] = e]
      /\ IF done \/ ~opt.load_data
         THEN UNCHANGED <<m_tables_being_loaded, m_task, state, pc, current>>
         ELSE /\ m_tables_being_loaded' = Loading(q, 0, PartSize(q))
              /\ Assign(Task("bulk", q, 0))
  BY <1>1, <1>2, <1>3, <1>5, <1>6, Zenon DEF ScheduleBulkLoad, workerVars
<1>10. ~(e.chunks_consumed < Available(e))
  BY <1>2, <1>8 DEF Available
<1>11. e.chunks_loaded <= e.chunks_consumed
  <2>1. d.chunks_loaded \in Nat /\ d.chunks_consumed = 0 /\ d.chunks_loaded <= d.chunks_consumed
    BY <1>1 DEF Selection, LoadedLess, PartTypes, BulkLoadTried
  <2> QED
    BY <1>8, <2>1
<1>12. Takes(q, e)
  BY <1>1, <1>8, <1>9, <1>10, <1>11 DEF Takes
<1>13. CASE done \/ ~opt.load_data
  BY <1>9, <1>12, <1>13 DEF NoneAssigned
<1>14. CASE ~(done \/ ~opt.load_data)
  <2>1. Task("bulk", q, 0) \in TaskTypes
    BY DEF Task, TaskTypes
  <2>2. PICK task \in TaskTypes : task = Task("bulk", q, 0)
    BY <2>1
  <2>3. task.type = "bulk" /\ task.of = q /\ task.index = 0 /\ Assign(task)
    BY <1>9, <1>14, <2>2, TaskFields
  <2>4. PartSize(q) \in Nat
    BY BytesType DEF PartSize
  <2>5. m_tables_being_loaded' = m_tables_being_loaded
          \cup {[part |-> q, index |-> task.index, size |-> PartSize(q)]}
    BY <1>9, <1>14, <2>3 DEF Loading
  <2>6. LoadBegins(q)
    BY <2>3, <2>4, <2>5 DEF LoadBegins
  <2> QED
    BY <1>12, <2>6
<1> QED
  BY <1>13, <1>14

LEMMA SelectionOfChunk ==
  ASSUME IInv, Selection, NextTableChunk
  PROVE  Selection'
<1>1. PICK q \in Candidates :
        /\ has_data_available(part[q])
        /\ IF BulkLoadTried(q)
           THEN \E c \in ensure_table_compatible(Owner[q]) :
                  /\ m_compatibility_status' =
                       [m_compatibility_status EXCEPT ![Owner[q]] = c]
                  /\ IF c = "yes" THEN ScheduleBulkLoad(q) ELSE ScheduleTableChunk(q)
           ELSE UNCHANGED m_compatibility_status /\ ScheduleTableChunk(q)
  BY DEF NextTableChunk
<1>2. q \in Parts
  BY CandidatesHaveData DEF IInv, Types
<1>3. pc = "next" /\ UNCHANGED <<caller, scanned>>
  BY DEF NextTableChunk
<1>4. ScheduleTableChunk(q) \/ (BulkLoadTried(q) /\ ScheduleBulkLoad(q))
  BY <1>1
<1>5. /\ \E e : Takes(q, e)
      /\ (NoneAssigned /\ UNCHANGED m_tables_being_loaded) \/ LoadBegins(q)
  BY <1>1, <1>2, <1>4, ChunkTaken, BulkTaken
<1> QED
  BY <1>2, <1>3, <1>5, SelectionOfPart

LEMMA SelectionInit ==
  ASSUME Init
  PROVE  Selection
<1> USE DEF Init, ReaderInit
<1>1. \A p \in Parts : /\ part[p].chunks_consumed = 0 /\ part[p].chunks_loaded = 0
                       /\ Available(part[p]) = 0
  BY DEF Available
<1>2. Pending /\ LoadedLess /\ NoneConsumed
  BY <1>1 DEF Pending, LoadedLess, NoneConsumed
<1>3. BeingLoaded
  BY DEF BeingLoaded
<1>4. Turn
  BY DEF Turn
<1>5. Limited
  BY DEF Limited
<1> QED
  BY <1>2, <1>3, <1>4, <1>5 DEF Selection

LEMMA SelectionNext ==
  ASSUME IInv, IInv', Selection, [Next]_vars
  PROVE  Selection'
<1>1. CASE \/ WriteFile \/ Open \/ WaitForMetadata \/ MetadataScanned \/ DataScanned
           \/ TriedAgain \/ WaitForDump \/ Timeout \/ Loop \/ LoopEnds
           \/ (\E w \in Workers : HandleReady(w)) \/ NoTableChunk \/ UNCHANGED vars
  BY <1>1, SelectionOfMain
<1>2. CASE FinishListing
  BY <1>2, SelectionOfListing
<1>3. CASE \E w \in Workers : HandleEnd(w)
  BY <1>3, SelectionOfEnd
<1>4. CASE AllIdle \/ NothingToSchedule
  BY <1>4, SelectionOfIdle
<1>5. CASE NextTableChunk
  BY <1>5, SelectionOfChunk
<1>6. CASE NextDeferredIndex \/ NextTableAnalyze \/ NextTableChecksum
  BY <1>6, SelectionOfOthers
<1>7. CASE \E w \in Workers : Execute(w)
  BY <1>7, SelectionOfExecute
<1>8. CASE Finished
  BY <1>1, <1>8 DEF Finished
<1> QED
  BY <1>1, <1>2, <1>3, <1>4, <1>5, <1>6, <1>7, <1>8 DEF Next, Main

\* m_tables_with_data has the parts with chunks that were not consumed,
\* m_tables_being_loaded only what is being loaded, and of the parts that a
\* first scan has found no more are begun and not loaded than there are threads.
THEOREM SelectionInvariance == Spec => []Selection
<1>1. Init => Selection
  BY SelectionInit
<1>2. IInv /\ IInv' /\ Selection /\ [Next]_vars => Selection'
  BY SelectionNext
<1> QED
  BY <1>1, <1>2, Invariance, PTL DEF Spec

LEMMA TypesCorrect ==
  ASSUME IInv, Selection
  PROVE  TypeOK
<1>1. ReaderTypeOK
  <2>1. ASSUME NEW p \in Parts
        PROVE  /\ part[p].available_chunks \in Seq(BOOLEAN)
               /\ part[p].last_chunk_seen \in BOOLEAN
               /\ {part[p].chunks_seen, part[p].chunks_consumed, part[p].chunks_loaded}
                    \subseteq 0 .. Len(part[p].available_chunks)
               /\ part[p].checksums + part[p].checksums_verified
                    <= part[p].checksums_total
    <3>1. /\ part[p].available_chunks \in Seq({TRUE}) /\ part[p].last_chunk_seen \in BOOLEAN
          /\ part[p].chunks_seen \in Nat /\ part[p].chunks_consumed \in Nat
          /\ part[p].chunks_loaded \in Nat /\ part[p].checksums \in Nat
          /\ part[p].checksums_verified \in Nat
      BY DEF IInv, Types, PartTypes
    <3>2. PICK s : s = part[p].available_chunks
      OBVIOUS
    <3>3. s \in Seq(BOOLEAN) /\ Len(s) \in Nat
      <4>1. s \in Seq({TRUE})
        BY <3>1, <3>2
      <4>2. {TRUE} \subseteq BOOLEAN
        OBVIOUS
      <4> QED
        BY <4>1, <4>2, SeqMonotonic, LenProperties
    <3>4. part[p].chunks_seen = Len(s) /\ part[p].chunks_consumed <= Len(s)
      BY <3>2 DEF IInv, Seen, Available
    <3>5. part[p].chunks_loaded <= part[p].chunks_consumed
      BY DEF Selection, LoadedLess
    <3>6. part[p].checksums + part[p].checksums_verified <= part[p].checksums_total
      <4>1. part[p].checksums + part[p].checksums_verified
              + Cardinality(VerifiersOf(p)) = part[p].checksums_total
        BY DEF IInv, Checks
      <4> QED
        BY <3>1, <4>1, FiniteHolders
    <3> QED
      BY <3>1, <3>2, <3>3, <3>4, <3>5, <3>6
  <2> QED
    BY <2>1 DEF ReaderTypeOK, IInv, Types, TableTypes
<1>2. \A e \in m_tables_being_loaded : e.part \in Parts /\ e.size \in Nat
  BY DEF Selection, BeingLoaded
<1>3. \A w \in Workers : (m_task[w] = None) = (state[w] \in {"ready", "idle"})
  BY DEF Selection, Turn
<1> QED
  BY <1>1, <1>2, <1>3 DEF TypeOK, IInv, Types, Selection, Turn

LEMMA NextChunks ==
  ASSUME IInv
  PROVE  \A p \in Candidates : has_data_available(part[p])
<1> SUFFICES ASSUME NEW p \in Candidates PROVE has_data_available(part[p])
  OBVIOUS
<1>1. p \in m_tables_with_data /\ p \in Parts
  BY CandidatesHaveData DEF IInv, Types
<1>2. PICK d \in PartTypes : d = part[p]
  BY <1>1 DEF IInv, Types
<1>3. PICK n \in Nat : n = d.chunks_consumed
  BY DEF PartTypes
<1>4. n < Len(d.available_chunks) /\ d.available_chunks \in Seq({TRUE})
  BY <1>1, <1>2, <1>3 DEF IInv, Seen, Available, PartTypes
<1>5. d.available_chunks[n + 1] \in {TRUE}
  <2>1. n + 1 \in 1 .. Len(d.available_chunks)
    BY <1>4
  <2> QED
    BY <1>4, <2>1, ElementOfSeq, Zenon
<1> QED
  BY <1>2, <1>3, <1>4, <1>5 DEF has_data_available, has_value

\* All the data was there when the dump was first scanned: parts that are
\* begun and not loaded have data, or are being loaded.
LEMMA LimitCorrect ==
  ASSUME IInv, Selection
  PROVE  TablesLimited
<1> SUFFICES ASSUME opt.load_data, caller = "metadata", \A p \in Parts : data_dumped(p)
             PROVE  Cardinality({p \in Parts : part[p].chunks_consumed > 0 /\ ~data_loaded(p)})
                      <= ThreadsCount
  BY DEF TablesLimited
<1> DEFINE B == {p \in Parts : part[p].chunks_consumed > 0 /\ ~data_loaded(p)}
<1>1. B \subseteq Active
  <2> SUFFICES ASSUME NEW p \in Parts, part[p].chunks_consumed > 0, ~data_loaded(p),
                      p \notin m_tables_with_data
               PROVE  \E w \in Workers : LoadsPart(w, p)
    BY DEF Active
  <2>1. /\ part[p].chunks_consumed \in Nat /\ Available(part[p]) \in Nat
        /\ part[p].chunks_loaded \in Nat /\ part[p].chunks_consumed <= Available(part[p])
    BY DEF IInv, Types, PartTypes, Available, Seen
  <2>2. part[p].chunks_consumed = Available(part[p])
    BY <2>1 DEF Selection, Pending
  <2>3. has_data(p) /\ part[p].last_chunk_seen /\ part[p].chunks_loaded # Available(part[p])
    BY DEF data_loaded, data_dumped, all_chunks_are, Available
  <2>4. CASE Bulk(p)
    BY <2>4 DEF Bulk, LoadsPart
  <2>5. CASE ~Bulk(p)
    <3>1. part[p].chunks_loaded + Cardinality(LoadersOf(p)) = part[p].chunks_consumed
      BY <2>5 DEF IInv, Counted
    <3>2. LoadersOf(p) # {}
      BY <2>1, <2>2, <2>3, <3>1, FS_EmptySet
    <3> QED
      BY <3>2 DEF LoadersOf, LoadsPart
  <2> QED
    BY <2>4, <2>5
<1>2. IsFiniteSet(Active) /\ Cardinality(Active) <= ThreadsCount
  BY DEF Selection, Limited
<1>3. IsFiniteSet(B) /\ Cardinality(B) <= Cardinality(Active)
  BY <1>1, <1>2, FS_Subset
<1>4. Cardinality(B) \in Nat /\ Cardinality(Active) \in Nat /\ ThreadsCount \in Nat
  BY <1>2, <1>3, FS_CardinalityType, ReaderAssumption
<1> QED
  BY <1>2, <1>3, <1>4

\* The choice of the next chunk is sound: whenever there is data a part is
\* found, and its next chunk is there; and if all the data was there when the
\* dump was first scanned, no more parts are begun and not loaded at a time
\* than there are threads (dump_reader.cc:509, :554, :599).
THEOREM ScheduleSoundCorrect == Spec => []ScheduleSound
<1>1. ASSUME IInv, Selection PROVE ScheduleSound
  <2>1. CandidateExists
    BY <1>1, PartIsFound, NextChunks DEF CandidateExists, data_available
  <2> QED
    BY <1>1, <2>1, TypesCorrect, LimitCorrect DEF ScheduleSound
<1> QED
  BY <1>1, Invariance, SelectionInvariance, PTL
=============================================================================
