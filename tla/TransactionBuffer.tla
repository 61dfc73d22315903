------------------------- MODULE TransactionBuffer -------------------------
(***************************************************************************)
(* Transaction_buffer: how the client's requests for data of a file        *)
(* (local_infile_read) are answered so that every LOAD DATA statement, a   *)
(* transaction, loads whole rows and about max_trx_size bytes.             *)
(*                                                                         *)
(* A file is described by the offsets at which a line terminator ends, and *)
(* by which of the terminators are preceded by the escape character and do *)
(* not end a row.  m_data, what was read and not yet sent, is the part of  *)
(* the file between the offsets `sent' and `buffered'.                     *)
(***************************************************************************)
EXTENDS Integers, FiniteSets, FiniteSetsExt

CONSTANTS
  MaxSize,        \* bound on the size of a file
  Lengths,        \* what the client may ask for at once
  Limits,         \* the values of max_trx_size
  Terminator,     \* length of lines_terminated_by
  Escapes         \* whether fields_escaped_by is given

\* The client library (external) asks for a multiple of 4096 bytes: at least
\* for two.  WithinLimit depends on that: find_last_row_boundary_before(1) does
\* not find the end of an empty row if there is more than that in m_data.
ASSUME BufferAssumption ==
  /\ MaxSize \in Nat
  /\ Lengths \subseteq Nat \ {0, 1}
  /\ Limits \subseteq Nat
  /\ Terminator \in Nat \ {0}
  /\ Escapes \in BOOLEAN

VARIABLES
  size, terminators, escaped,   \* the file
  max_trx_size, length,         \* the options, and what the client asks for
  sent, buffered,               \* m_data
  m_trx_size,                   \* bytes sent in this transaction
  m_trx_end_offset,             \* where it has to end, once that is known
  m_partial_row_sent,
  m_eof,
  returned,                     \* by the last read()
  offset,                       \* where the last transaction ended
  pc

fileVars == <<size, terminators, escaped, max_trx_size, length>>
vars == <<fileVars, sent, buffered, m_trx_size, m_trx_end_offset,
          m_partial_row_sent, m_eof, returned, offset, pc>>

RowEnds == terminators \ escaped

\* Terminators do not overlap, and an escape character has its own place.
Files(s) ==
  {f \in (SUBSET (Terminator .. s)) \X (SUBSET (Terminator + 1 .. s)) :
     /\ f[2] \subseteq f[1]
     /\ f[2] # {} => Escapes
     /\ \A r, q \in f[1] :
          r < q => q - r >= IF q \in f[2] THEN Terminator + 1 ELSE Terminator}

\* The buffer is created: skip_bytes, which need not be the end of a row, are
\* skipped.
Init ==
  /\ size \in 0 .. MaxSize
  /\ \E f \in Files(size) : terminators = f[1] /\ escaped = f[2]
  /\ max_trx_size \in Limits
  /\ length \in Lengths
  /\ sent \in 0 .. size
  /\ buffered = sent
  /\ offset = sent
  /\ m_trx_size = 0
  /\ m_trx_end_offset = 0
  /\ m_partial_row_sent = FALSE
  /\ m_eof = FALSE
  /\ returned = 0
  /\ pc = "ask"
-----------------------------------------------------------------------------
(* The row boundaries in m_data, relative to its beginning.  An escape     *)
(* character that was already sent is not seen.                            *)

Boundaries(from, to) ==
  {r - from : r \in {t \in terminators :
                       /\ from <= t - Terminator /\ t <= to
                       /\ t \in escaped => t - Terminator = from}}

find_first_row_boundary_after(data) == IF data = {} THEN 0 ELSE Min(data)

\* A plausible bug: a terminator that begins at the limit is accepted.
MutantFindLast(data, len, limit) ==
  LET p == IF 0 < limit /\ limit < len THEN limit ELSE len
      found == {b \in data : b - Terminator <= p} IN
  IF p < Terminator \/ found = {} THEN 0 ELSE Max(found)

\* A limit which is not positive is taken for no limit.
find_last_row_boundary_before(data, len, limit) ==
  LET p == IF 0 < limit /\ limit < len THEN limit - 1 ELSE len
      found == {b \in data : b - Terminator <= p} IN
  IF p < Terminator \/ found = {} THEN 0 ELSE Max(found)
-----------------------------------------------------------------------------
trx_bytes_left == max_trx_size - m_trx_size

\* consume(): at most n bytes are sent, and none behind the end of the
\* transaction.
Consume(n, end, partial) ==
  LET m == IF end > 0 /\ n > end - m_trx_size THEN end - m_trx_size ELSE n
      k == IF m > buffered' - sent THEN buffered' - sent ELSE m IN
  /\ sent' = sent + k
  /\ m_trx_size' = m_trx_size + k
  /\ returned' = k
  /\ m_trx_end_offset' = end
  /\ m_partial_row_sent' = partial
  /\ pc' = IF k = 0 THEN "flush" ELSE "ask"

\* local_infile_read(): the transaction is over, or read() is called.
Ask ==
  /\ pc = "ask"
  /\ pc' = IF /\ max_trx_size > 0 /\ m_trx_end_offset > 0
              /\ m_trx_end_offset <= m_trx_size
           THEN "flush" ELSE "read"
  /\ UNCHANGED <<fileVars, sent, buffered, m_trx_size, m_trx_end_offset,
                 m_partial_row_sent, m_eof, returned, offset>>

\* The file is read; reads may be short.
ReadFile(n) ==
  \E k \in 0 .. n :
    /\ buffered + k <= size
    /\ k = 0 => buffered = size
    /\ buffered' = buffered + k
    /\ m_eof' = (m_eof \/ k = 0)

\* read(), if there is no limit.
ReadAll ==
  /\ pc = "read"
  /\ max_trx_size = 0
  /\ \E k \in 0 .. length :
       /\ buffered + k <= size
       /\ k = 0 => buffered = size
       /\ buffered' = buffered + k
       /\ sent' = sent + k
       /\ returned' = k
       /\ pc' = IF k = 0 THEN "flush" ELSE "ask"
  /\ UNCHANGED <<fileVars, m_trx_size, m_trx_end_offset, m_partial_row_sent,
                 m_eof, offset>>

\* The end of the transaction was known before: m_data is sent up to there.
ReadUpToEnd ==
  /\ pc = "read"
  /\ max_trx_size > 0
  /\ m_trx_end_offset > 0
  /\ UNCHANGED <<fileVars, buffered, m_eof, offset>>
  /\ Consume(length, m_trx_end_offset, m_partial_row_sent)

\* More is read, and m_data fills the transaction.
Fills(data, len) ==
  \* the last row that fits
  \/ LET last == find_last_row_boundary_before(data, len, trx_bytes_left) IN
     /\ trx_bytes_left > 0 \/ ~m_partial_row_sent
     /\ last > 0
     /\ Consume(length, m_trx_size + last, m_partial_row_sent)
  \* no row does, those that were sent are flushed
  \/ /\ find_last_row_boundary_before(data, len, trx_bytes_left) = 0
     /\ ~m_partial_row_sent /\ m_trx_size > 0
     /\ m_trx_end_offset' = m_trx_size
     /\ returned' = 0
     /\ pc' = "flush"
     /\ UNCHANGED <<sent, m_trx_size, m_partial_row_sent>>
  \* the only row is sent though it does not fit
  \/ LET first == find_first_row_boundary_after(data) IN
     /\ \/ trx_bytes_left <= 0 /\ m_partial_row_sent
        \/ /\ find_last_row_boundary_before(data, len, trx_bytes_left) = 0
           /\ m_partial_row_sent \/ m_trx_size = 0
     /\ IF first > 0
        THEN Consume(length, m_trx_size + first, m_partial_row_sent)
        ELSE Consume(length, 0, TRUE)

\* More is read, and there is still space in the transaction.
HasSpace(data, len) ==
  LET within == find_last_row_boundary_before(data, len, length)
      beyond == find_last_row_boundary_before(data, len, trx_bytes_left) IN
  IF within > 0 THEN Consume(within, 0, FALSE)
  ELSE IF beyond > 0
  THEN Consume(IF length < beyond THEN length ELSE beyond, 0,
               m_partial_row_sent)
  ELSE IF m_trx_size = 0 THEN Consume(length, 0, TRUE)
  ELSE IF m_partial_row_sent THEN Consume(length, 0, TRUE)
  ELSE IF m_eof' THEN Consume(length, m_trx_size + len, FALSE)
  ELSE UNCHANGED <<sent, m_trx_size, m_trx_end_offset, m_partial_row_sent,
                   returned, pc>>

ReadMore ==
  /\ pc = "read"
  /\ max_trx_size > 0
  /\ m_trx_end_offset = 0
  /\ ReadFile(length)
  /\ UNCHANGED <<fileVars, offset>>
  /\ LET data == Boundaries(sent, buffered')
         len == buffered' - sent IN
     IF len >= trx_bytes_left THEN Fills(data, len) ELSE HasSpace(data, len)

\* A plausible bug: what is left in m_data is forgotten at the end of the file.
MutantFlushDone ==
  /\ pc = "flush"
  /\ offset' = sent
  /\ m_trx_size' = 0
  /\ m_trx_end_offset' = 0
  /\ m_partial_row_sent' = FALSE
  /\ pc' = IF max_trx_size > 0 /\ ~m_eof THEN "ask" ELSE "done"
  /\ UNCHANGED <<fileVars, sent, buffered, m_eof, returned>>

\* The statement is executed, and flush_done() is called.
FlushDone ==
  /\ pc = "flush"
  /\ offset' = sent
  /\ m_trx_size' = 0
  /\ m_trx_end_offset' = 0
  /\ m_partial_row_sent' = FALSE
  /\ pc' = IF max_trx_size > 0 /\ (~m_eof \/ sent < buffered) THEN "ask"
                                                              ELSE "done"
  /\ UNCHANGED <<fileVars, sent, buffered, m_eof, returned>>

\* Everything was sent.
Done == pc = "done" /\ UNCHANGED vars

Next == Ask \/ ReadAll \/ ReadUpToEnd \/ ReadMore \/ FlushDone
          \/ Done

Spec == Init /\ [][Next]_vars

(* The client asks until it is told that there is nothing more.             *)
FairSpec == Spec /\ WF_vars(Next)
-----------------------------------------------------------------------------
(* Properties.                                                             *)

TypeOK ==
  /\ size \in 0 .. MaxSize
  /\ 0 <= offset /\ offset <= sent /\ sent <= buffered /\ buffered <= size
  /\ m_trx_size \in 0 .. size
  /\ m_trx_end_offset \in 0 .. size
  /\ {m_partial_row_sent, m_eof} \subseteq BOOLEAN
  /\ pc \in {"ask", "read", "flush", "done"}

(* The transactions are the ones LoadData and the progress log rely on:     *)
(* read() is to end each of them at a row boundary.                         *)
Abstract == INSTANCE SubChunks WITH row_ends <- RowEnds, finished <- pc = "done"
RowsNotTorn == Abstract!Spec

(* A transaction is longer than max_trx_size only if it has a single row.   *)
WithinLimit ==
  max_trx_size > 0 /\ m_trx_size > max_trx_size =>
    \A r \in RowEnds : ~(offset < r /\ r < sent)

(* The assertions of consume() and read(): a transaction does not get past  *)
(* its end, which is unsigned arithmetic, and what was sent of a row that   *)
(* is not complete was recorded.                                            *)
EndNotPassed ==
  /\ m_trx_end_offset > 0 => m_trx_size <= m_trx_end_offset
  /\ m_trx_size > 0 /\ ~m_partial_row_sent /\ m_trx_end_offset = 0
       /\ sent \notin RowEnds
     => \E r \in RowEnds : sent < r /\ r <= buffered

(* local_infile_read(): "assert(static_cast<size_t>(bytes) <= len)".        *)
AskedFor == returned <= length

(* The limits read() has to respect, all at once: of the transaction, of    *)
(* its end once that is known, and of the buffer of the client library.     *)
WithinLimits == TypeOK /\ WithinLimit /\ EndNotPassed /\ AskedFor

(* The whole file is read, in finitely many transactions.                   *)
AllRead == <>(pc = "done" /\ offset = size)
=============================================================================
