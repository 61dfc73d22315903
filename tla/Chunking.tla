------------------------------ MODULE Chunking ------------------------------
(***************************************************************************)
(* How a worker of the dumper splits a table into files                    *)
(* (Table_worker::create_table_data_tasks() and everything below it, and   *)
(* Multi_file_writer_controller, in src/modules/util/dump/dumper.cc).      *)
(*                                                                         *)
(* A column of an integer type is split between its smallest and its       *)
(* largest value with a constant step, or with a step which is searched    *)
(* for with EXPLAIN; values are machine words, or Decimals counted in      *)
(* units of their last digit.  Any other column is split by fetching every *)
(* rows_per_chunk-th key.  A table without an index is written to          *)
(* consecutive files by a single thread.                                   *)
(***************************************************************************)
EXTENDS Integers, FiniteSets

CONSTANTS
    SignBit,      \* bound: half the number of machine words, 2^63 in the code
    Scale,        \* bound: Decimals between N and N + 1, a power of 10 in the code
    MaxDecimal,   \* bound: Decimals are examined between 0 and MaxDecimal
    k_chunker_retries, k_chunker_iterations,   \* 10 and 20 in the code
    Statistics,   \* bound: row_count and rows_per_chunk to be examined
    MaxRows,      \* bound: rows of a table with any other index, or none
    MaxChanges    \* bound: changes made by other clients to a table that is not
                  \* read from a snapshot

ASSUME ChunkingAssumption ==
    /\ SignBit \in Nat \ 0 .. 2 /\ Scale \in Nat \ {0} /\ MaxDecimal \in Nat
    /\ k_chunker_retries \in Nat \ {0} /\ k_chunker_iterations \in Nat \ {0}
    /\ \A s \in Statistics : s.row_count \in Nat /\ s.rows_per_chunk \in Nat
    /\ MaxRows \in Nat /\ MaxChanges \in Nat

Words == 2 * SignBit

Algorithms == {"int64_t", "uint64_t", "Decimal", "other", "no_index"}

VARIABLES
    type,         \* type of the first column of the index: the algorithm
    info,         \* Chunking_info: row_count, rows_per_chunk
    consistent,   \* are the rows read from a snapshot
    rows,         \* keys of the rows, if they are not all of min .. max
    stable,       \* the rows which were there all the time
    changes,      \* how many times other clients have changed the rows
    min, max,     \* the first and the last key
    pc,           \* what is to be done next
    current,      \* the first key of the next chunk
    search,       \* local variables of adaptive_step()
    file,         \* first row in the file that is open, 0: no file is open
    chunks,       \* what was pushed, or written (see NoChunks)
    interrupted   \* m_worker_interrupt

table == <<rows, stable, changes>>

input == <<type, info, consistent, min, max>>

chunkingVars == <<input, table, pc, current, search, file, chunks, interrupted>>

-----------------------------------------------------------------------------
(* Arithmetic of the three integer types.                                   *)

TypeMin(T) == IF T = "int64_t" THEN -SignBit ELSE 0

TypeMax(T) == CASE T = "int64_t"  -> SignBit - 1
                [] T = "uint64_t" -> Words - 1
                [] OTHER          -> MaxDecimal

\* The result of an operation in T: words wrap around.
In(T, x) == IF T = "Decimal" THEN x
            ELSE ((x - TypeMin(T)) % Words) + TypeMin(T)

\* Division by two rounds towards zero.
Half(x) == IF x >= 0 THEN x \div 2 ELSE -((-x) \div 2)

\* Mutant: a step may be zero.
MutantEnsureNotZero(x) == x

ensure_not_zero(x) == IF x = 0 THEN 1 ELSE x

\* An unsigned number, or a Decimal.
distance(T, lo, hi) ==
    IF T = "Decimal" THEN hi - lo + Scale
    ELSE LET result == (hi - lo) % Words
         IN IF result < Words - 1 THEN result + 1 ELSE result

cast(T, x) == IF T = "Decimal" \/ x < TypeMax(T) THEN x ELSE TypeMax(T)

sum(T, value, addend) ==
    IF T # "Decimal" /\ In(T, TypeMax(T) - addend) <= value THEN TypeMax(T)
    ELSE In(T, value + addend)

\* A number of rows as a value of the type of distance().
Rows(T, n) == IF T = "Decimal" THEN n * Scale ELSE n

AtLeastOne(n) == IF n = 0 THEN 1 ELSE n

Gap(a, b) == IF a > b THEN a - b ELSE b - a

estimated_chunks ==
    IF info.rows_per_chunk > 0
    THEN AtLeastOne(info.row_count \div info.rows_per_chunk)
    ELSE info.row_count

index_range == distance(type, min, max)

estimated_step == cast(type, ensure_not_zero(index_range \div estimated_chunks))

use_constant_step ==
    \/ estimated_chunks < 2
    \/ Gap(index_range, Rows(type, info.row_count))
         <= Rows(type, AtLeastOne(info.row_count \div 10))

accuracy == IF info.rows_per_chunk \div 10 > 10
            THEN info.rows_per_chunk \div 10 ELSE 10

double_step == In(type, 2 * estimated_step)

AlmostEnough == IF info.rows_per_chunk = 0 THEN 0 ELSE info.rows_per_chunk - 1

\* What EXPLAIN may answer for a range of keys (external): it is an estimate, any
\* number, two answers need not agree with each other.  It is only ever compared
\* with rows_per_chunk: too few rows, almost enough, as many, too many.
Answers ==
    {0, AlmostEnough, info.rows_per_chunk, info.rows_per_chunk + accuracy + 1}

-----------------------------------------------------------------------------
NoSearch ==
    [retry |-> 0, i |-> 0, left |-> 0, right |-> 0, middle |-> 0, rows |-> 0,
     delta |-> 0]

\* Keys which can occur in the table.
Keys == IF type \in {"other", "no_index"} THEN rows ELSE min .. max

\* Chunks which were created so far: keys which are in one of them at least, in
\* two of them at least; how many are marked as the last one.
NoChunks ==
    [any |-> FALSE, once |-> {}, twice |-> {}, last |-> 0]

\* One more chunk: rows with keys begin .. end, plus, in the chunk 0 of a
\* nullable index, rows without a key.
Chunk(cs, b, e, last) ==
    [any |-> TRUE,
     once |-> cs.once \cup (Keys \cap (b .. e)),
     twice |-> cs.twice \cup (cs.once \cap (b .. e)),
     last |-> cs.last + (IF last THEN 1 ELSE 0)]

IntegerInput ==
    /\ type \in {"int64_t", "uint64_t", "Decimal"}
    /\ min \in TypeMin(type) .. TypeMax(type)
    /\ max \in min .. TypeMax(type)
    /\ rows = {} /\ consistent = TRUE

\* Rows of any other index are numbered in its order.  A snapshot does not
\* change while the table is being chunked.
OtherInput ==
    /\ type \in {"other", "no_index"}
    /\ rows \in SUBSET (1 .. MaxRows)
    /\ type = "no_index" => rows = 1 .. Cardinality(rows)
    /\ consistent \in (IF type = "other" THEN BOOLEAN ELSE {TRUE})
    /\ IF rows = {} THEN min = 0 /\ max = 0
       ELSE /\ min \in rows /\ \A r \in rows : min <= r
            /\ max \in rows /\ \A r \in rows : r <= max

\* The average length of a row is the size of a table divided by row_count: if
\* there are no rows, the default length is used, and rows_per_chunk > 0.
ChunkingInit ==
    /\ info \in Statistics
    /\ info.row_count = 0 => info.rows_per_chunk > 0
    /\ IntegerInput \/ OtherInput
    /\ stable = rows /\ changes = 0
    /\ pc = "chunk_column"
    /\ current = min
    /\ search = NoSearch
    /\ file = 0
    /\ chunks = NoChunks
    /\ interrupted = FALSE

Done == pc \in {"done", "failed", "crashed"}

create_and_push_table_data_chunk_task(b, e, last) ==
    chunks' = Chunk(chunks, b, e, last)

\* ^C: the flag is tested before a chunk is created, or a row is written.
Interrupt ==
    /\ ~interrupted /\ pc \in {"step", "fetch", "write"}
    /\ interrupted' = TRUE
    /\ UNCHANGED <<input, table, pc, current, search, file, chunks>>

\* Other clients (external) insert and delete rows, once the first and the last
\* key were fetched.
Change ==
    /\ ~consistent /\ pc = "fetch" /\ changes < MaxChanges
    /\ \E r \in 1 .. MaxRows :
         /\ rows' = IF r \in rows THEN rows \ {r} ELSE rows \cup {r}
         /\ stable' = stable \ {r}
    /\ changes' = changes + 1
    /\ UNCHANGED <<input, pc, current, search, file, chunks, interrupted>>

-----------------------------------------------------------------------------
(* create_ranged_tasks() and chunk_column().                                *)

\* Without an index the number of chunks is only estimated.  If a row is larger
\* than a chunk, then the division by rows_per_chunk is undefined: it is a signal
\* on x86, zero on ARM.
chunk_column ==
    /\ pc = "chunk_column"
    /\ CASE type = "no_index" ->
               /\ pc' \in IF info.rows_per_chunk = 0 THEN {"crashed", "write"}
                         ELSE {"write"}
               /\ current' = 1
               /\ file' = 1
               /\ UNCHANGED chunks
         [] type = "other" /\ rows = {} ->
               /\ create_and_push_table_data_chunk_task(min, max, TRUE)
               /\ pc' = "done"
               /\ UNCHANGED <<current, file>>
         [] type = "other" /\ rows # {} ->
               pc' = "fetch" /\ UNCHANGED <<current, file, chunks>>
         [] OTHER ->
               pc' = "step" /\ UNCHANGED <<current, file, chunks>>
    /\ UNCHANGED <<input, table, search, interrupted>>

\* An interrupt ends the loops.  If create_ranged_tasks() returns zero, then
\* create_table_data_tasks() creates a task which dumps the whole table.
Interrupted ==
    /\ interrupted /\ pc \in {"step", "fetch"}
    /\ pc' = "done"
    /\ IF pc = "fetch" \/ ~chunks.any
       THEN create_and_push_table_data_chunk_task(min, max, TRUE)
       ELSE UNCHANGED chunks
    /\ UNCHANGED <<input, table, current, search, file, interrupted>>

-----------------------------------------------------------------------------
(* chunk_integer_column() and adaptive_step().                              *)

\* Mutant: the end of the chunk is computed before it is compared with max, the
\* sum may overflow.
MutantOverflow(next_step) ==
    LET next == In(type, current + In(type, next_step - 1))
        last == IF next > max THEN max ELSE next
    IN /\ create_and_push_table_data_chunk_task(current, last, last >= max)
       /\ current' = In(type, last + 1)
       /\ pc' = IF last >= max THEN "done" ELSE "step"

\* Mutant: a chunk is the last one only if it ends behind the last key.
MutantLastChunk(next_step) ==
    LET new_step == In(type, next_step - 1)
        last == IF current > In(type, max - new_step) THEN max
                ELSE In(type, current + new_step)
    IN /\ create_and_push_table_data_chunk_task(current, last, last > max)
       /\ current' = In(type, last + 1)
       /\ pc' = IF last >= max THEN "done" ELSE "step"

\* The loop's body, once the next step is known.
PushRange(next_step) ==
    LET new_step == In(type, next_step - 1)
        last == IF current > In(type, max - new_step) THEN max
                ELSE In(type, current + new_step)
    IN /\ create_and_push_table_data_chunk_task(current, last, last >= max)
       /\ current' = In(type, last + 1)
       /\ pc' = IF last >= max THEN "done" ELSE "step"

constant_step ==
    /\ pc = "step" /\ use_constant_step /\ ~interrupted
    /\ PushRange(estimated_step)
    /\ UNCHANGED <<input, table, search, file, interrupted>>

adaptive_step ==
    /\ pc = "step" /\ ~use_constant_step /\ ~interrupted
    /\ search' = [NoSearch EXCEPT !.middle = current, !.delta = accuracy + 1,
                                  !.rows = info.rows_per_chunk]
    /\ pc' = "retry"
    /\ UNCHANGED <<input, table, current, file, chunks, interrupted>>

\* The outer loop: each time another range is searched.
Offset == In(type, search.retry * double_step)

Retry ==
    /\ pc = "retry"
    /\ search.delta > accuracy /\ search.retry < k_chunker_retries
    /\ In(type, max - Offset) > current
    /\ LET left == In(type, current + Offset)
       IN search' = [search EXCEPT !.i = 0, !.left = left,
                                   !.right = sum(type, left, double_step)]
    /\ pc' = "search"
    /\ UNCHANGED <<input, table, current, file, chunks, interrupted>>

StepFound ==
    /\ pc = "retry"
    /\ LET over == search.delta <= accuracy \/ search.retry >= k_chunker_retries
           middle == IF over THEN search.middle ELSE max
       IN /\ over \/ In(type, max - Offset) <= current
          /\ PushRange(ensure_not_zero(In(type, middle - current)))
    /\ search' = NoSearch
    /\ UNCHANGED <<input, table, file, interrupted>>

\* The inner loop: bisection, with EXPLAIN SELECT COUNT(*).
Middle == In(type, search.left + Half(In(type, search.right - search.left)))

Bisecting ==
    /\ search.i < k_chunker_iterations
    /\ search.left < Middle /\ Middle < search.right

\* If the first bisection has found too few rows, the whole range has enough.
Narrow ==
    /\ pc = "search" /\ Bisecting /\ current <= Middle
    /\ \E n \in Answers :
         LET more == n > info.rows_per_chunk
             delta == Gap(n, info.rows_per_chunk)
         IN /\ search' = [search EXCEPT
                             !.middle = Middle, !.rows = n, !.delta = delta,
                             !.i = @ + 1,
                             !.left = IF more THEN @ ELSE Middle,
                             !.right = IF more THEN Middle ELSE @]
            /\ pc' = IF delta <= accuracy THEN "searched" ELSE "search"
    /\ UNCHANGED <<input, table, current, file, chunks, interrupted>>

\* The first bisection has found too few rows, and so has the whole range.
SkipRange ==
    /\ pc = "search" /\ Bisecting /\ current <= Middle /\ search.i = 0
    /\ \E n, total \in {a \in Answers : a < info.rows_per_chunk} :
         search' = [search EXCEPT !.middle = search.right, !.rows = n,
                                  !.delta = info.rows_per_chunk - total]
    /\ pc' = "searched"
    /\ UNCHANGED <<input, table, current, file, chunks, interrupted>>

\* EXPLAIN of a range which ends before it begins has no number of rows: the
\* conversion of NULL throws.
ImpossibleRange ==
    /\ pc = "search" /\ Bisecting /\ Middle < current
    /\ pc' = "failed"
    /\ UNCHANGED <<input, table, current, search, file, chunks, interrupted>>

EndSearch ==
    /\ pc = "search"
    /\ ~Bisecting
    /\ search' = IF search.i < k_chunker_iterations
                 THEN [search EXCEPT !.middle = Middle] ELSE search
    /\ pc' = "searched"
    /\ UNCHANGED <<input, table, current, file, chunks, interrupted>>

NextRange ==
    /\ pc = "searched"
    /\ search' =
         [search EXCEPT !.retry =
            IF search.delta <= accuracy THEN @
            ELSE IF search.rows >= info.rows_per_chunk \/ search.middle >= max
            THEN k_chunker_retries ELSE @ + 1]
    /\ pc' = "retry"
    /\ UNCHANGED <<input, table, current, file, chunks, interrupted>>

-----------------------------------------------------------------------------
(* chunk_non_integer_column().                                              *)

\* SELECT ... WHERE key >= current ORDER BY key LIMIT rows_per_chunk - 1, 2: the
\* row at the given position of the result, or the last key of the table.
RowAt(n) ==
    LET from == {r \in rows : r >= current}
        at == {r \in from : Cardinality({q \in from : q <= r}) = n}
    IN IF info.rows_per_chunk > 0 /\ at # {} THEN CHOOSE r \in at : TRUE ELSE max

\* Mutant: the next chunk begins with the row this one ends with.
MutantSharedRow ==
    /\ pc = "fetch" /\ ~interrupted
    /\ LET range_end == RowAt(info.rows_per_chunk)
       IN /\ create_and_push_table_data_chunk_task(current, range_end,
                                                   range_end = max)
          /\ pc' = IF range_end = max THEN "done" ELSE "fetch"
          /\ current' = range_end
    /\ UNCHANGED <<input, table, search, file, interrupted>>

chunk_non_integer_column ==
    /\ pc = "fetch" /\ ~interrupted
    /\ LET range_end == RowAt(info.rows_per_chunk)
       IN /\ create_and_push_table_data_chunk_task(current, range_end,
                                                   range_end = max)
          /\ pc' = IF range_end = max THEN "done" ELSE "fetch"
    /\ current' = RowAt(info.rows_per_chunk + 1)
    /\ UNCHANGED <<input, table, search, file, interrupted>>

-----------------------------------------------------------------------------
(* Multi_file_writer_controller, used by dump_table_data().                 *)

\* write_row(): a file is closed once it has enough data; how many rows these
\* are is not known.
write_row ==
    /\ pc = "write" /\ current <= max /\ ~interrupted
    /\ LET begin == IF file = 0 THEN current ELSE file
       IN \/ file' = begin /\ UNCHANGED chunks
          \/ /\ file' = 0
             /\ chunks' = Chunk(chunks, begin, current, FALSE)
    /\ current' = current + 1
    /\ UNCHANGED <<input, table, pc, search, interrupted>>

\* finish_writing(): the final file is always empty.
finish_writing ==
    /\ pc = "write" /\ current > max
    /\ LET open == IF file = 0 THEN chunks
                   ELSE Chunk(chunks, file, max, FALSE)
       IN chunks' = Chunk(open, max + 1, max, TRUE)
    /\ file' = 0 /\ pc' = "done"
    /\ UNCHANGED <<input, table, current, search, interrupted>>

WriteInterrupted ==
    /\ pc = "write" /\ current <= max /\ interrupted
    /\ pc' = "done"
    /\ UNCHANGED <<input, table, current, search, file, chunks, interrupted>>

-----------------------------------------------------------------------------
Chunker ==
    \/ chunk_column \/ Interrupted \/ constant_step \/ adaptive_step \/ Retry
    \/ StepFound \/ Narrow \/ SkipRange \/ ImpossibleRange \/ EndSearch
    \/ NextRange
    \/ chunk_non_integer_column \/ write_row \/ finish_writing
    \/ WriteInterrupted

ChunkingNext == Chunker \/ Interrupt \/ Change \/ (Done /\ UNCHANGED chunkingVars)

ChunkingSpec == ChunkingInit /\ [][ChunkingNext]_chunkingVars

\* Statements of the worker end.
FairChunkingSpec == ChunkingSpec /\ WF_chunkingVars(Chunker)

-----------------------------------------------------------------------------
\* Every variable stays in its type; at most one chunk is marked as the last one.
ChunkingTypeOK ==
    /\ type \in Algorithms /\ info \in Statistics /\ consistent \in BOOLEAN
    /\ rows \subseteq 1 .. MaxRows /\ stable \subseteq rows
    /\ changes \in 0 .. MaxChanges
    /\ pc \in {"chunk_column", "step", "retry", "search", "searched", "fetch",
               "write", "done", "failed", "crashed"}
    /\ search.retry \in 0 .. k_chunker_retries
    /\ search.i \in 0 .. k_chunker_iterations
    /\ chunks.twice \subseteq chunks.once /\ chunks.last \in 0 .. 1
    /\ file \in 0 .. MaxRows + 1
    /\ interrupted \in BOOLEAN

Chunked == pc = "done" /\ ~interrupted

\* Every row of a snapshot is written exactly once: the ranges of keys neither
\* overlap nor leave a gap, whatever EXPLAIN answers, and although steps are
\* computed in words which overflow.  If the dump is not consistent, then rows
\* which nobody touches while the table is being chunked are not lost.
EachRowOnce ==
    Chunked =>
        /\ consistent => chunks.once = Keys /\ chunks.twice = {}
        /\ stable \subseteq chunks.once

\* The last chunk, and no other, is written as the last one: this is how the
\* loader knows that it has seen all the files of a table.
OneLastChunk ==
    /\ ChunkingTypeOK
    /\ ~interrupted => chunks.last = IF pc = "done" THEN 1 ELSE 0

\* Every chunk of a snapshot that is not the last one moves the loops of
\* chunk_integer_column() and chunk_non_integer_column() forward, towards the last
\* key, although differences of words wrap around.
ChunksAdvance ==
    [][consistent /\ (constant_step \/ StepFound \/ chunk_non_integer_column)
         => pc' = "done" \/ current' > current]_chunkingVars

\* Chunking of a snapshot ends, whatever EXPLAIN answers.  (Without a snapshot
\* chunk_non_integer_column() may repeat its last chunk forever: rows added
\* behind the last key can make it start again at that key.)
ChunkingEnds == consistent => <>Done

\* A row may be larger than a chunk (rows_per_chunk is 0 then): this is handled
\* by chunk_integer_column(), and is to be handled without an index, too.
LargeRowsHandled == pc # "crashed"
=============================================================================
