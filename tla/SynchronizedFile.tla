-------------------------- MODULE SynchronizedFile --------------------------
(***************************************************************************)
(* Synchronized_file: how the copy utilities hand the data of a table from *)
(* the dumper, which writes it row by row, to the loader, which reads it   *)
(* with Transaction_buffer::fast_sub_chunking().  write() waits for a      *)
(* read() and copies a row right into its buffer, as long as rows fit.     *)
(*                                                                         *)
(* The two threads share m_request; two queues, whose calls are atomic     *)
(* (see SynchronizedQueue), tell which of them may use it.  A file is      *)
(* described by the offsets at which its rows end.                         *)
(***************************************************************************)
EXTENDS Integers, Sequences, FiniteSets, FiniteSetsExt

CONSTANTS
  MaxSize,        \* bound on the size of a file
  MaxLength,      \* bound on what the client asks for at once
  Limits          \* the values of max_trx_size

ASSUME FileAssumption ==
  /\ MaxSize \in Nat /\ MaxLength \in Nat \ {0}
  /\ Limits \subseteq Nat \ {0}

VARIABLES
  row_ends,             \* the rows the dumper is going to write
  max_trx_size, length, \* the options, and what the client asks for
  m_read_requests,      \* the number of requests in the queue
  m_read_responses,
  m_request,            \* [length, written], the buffer of the reader
  m_pending_write,
  m_size,               \* bytes that were written
  writer,               \* where the writer is
  position,             \* where the row begins that it writes, or has to write
  reader,               \* where the reader is
  m_data,               \* length of what is left of a row that was too long
  m_trx_size, m_eof,
  returned,             \* by fast_sub_chunking()
  received,             \* bytes that were given to the client
  offset,               \* where the last transaction ended
  interrupted,          \* m_interrupted, of the file system
  user_interrupt        \* m_worker_hard_interrupt, of the loader

fileVars == <<row_ends, max_trx_size, length>>
sharedVars == <<m_read_requests, m_read_responses, m_request, m_pending_write>>
writerVars == <<writer, position, m_size>>
readerVars == <<reader, m_data, m_trx_size, m_eof, returned, received, offset>>
flags == <<interrupted, user_interrupt>>
vars == <<fileVars, sharedVars, writerVars, readerVars, flags>>

Size == IF row_ends = {} THEN 0 ELSE Max(row_ends)

\* Both ends of the file were opened.
Init ==
  /\ row_ends \in SUBSET (1 .. MaxSize)
  /\ max_trx_size \in Limits
  /\ length \in 1 .. MaxLength
  /\ m_read_requests = 0
  /\ m_read_responses = <<>>
  /\ m_request = [length |-> 0, written |-> 0]
  /\ m_pending_write = 0
  /\ m_size = 0
  /\ writer = "next"
  /\ position = 0
  /\ reader = "ask"
  /\ m_data = 0
  /\ m_trx_size = 0
  /\ m_eof = FALSE
  /\ returned = 0
  /\ received = 0
  /\ offset = 0
  /\ interrupted = FALSE
  /\ user_interrupt = FALSE
-----------------------------------------------------------------------------
(* The writer: Dump_writer::write_buffer() calls write() for every row.    *)

RowEnd == Min({r \in row_ends : r > position})
RowLength == RowEnd - position

\* A plausible bug: the size of the row is not published.
MutantStartWrite ==
  /\ writer = "next"
  /\ position < Size
  /\ writer' = "test"
  /\ UNCHANGED <<fileVars, sharedVars, position, m_size, readerVars, flags>>

StartWrite ==
  /\ writer = "next"
  /\ position < Size
  /\ m_pending_write' = RowLength
  /\ writer' = "test"
  /\ UNCHANGED <<fileVars, m_read_requests, m_read_responses, m_request,
                 position, m_size, readerVars, flags>>

\* write() returns 0: the row is lost, and the dumper goes on until it finds
\* that it was interrupted as well.
TestWrite ==
  /\ writer = "test"
  /\ \/ ~interrupted /\ writer' = "pop" /\ UNCHANGED position
     \/ interrupted /\ writer' \in {"next", "close"} /\ position' = RowEnd
  /\ UNCHANGED <<fileVars, sharedVars, m_size, readerVars, flags>>

\* m_read_requests.try_pop(), which may time out.
PopRequest ==
  /\ writer = "pop"
  /\ IF m_read_requests > 0
     THEN m_read_requests' = m_read_requests - 1 /\ writer' = "copy"
     ELSE UNCHANGED m_read_requests /\ writer' = "test"
  /\ UNCHANGED <<fileVars, m_read_responses, m_request, m_pending_write,
                 position, m_size, readerVars, flags>>

\* The row does not fit: the reader is told of the rows that did, or that its
\* buffer is too small.
BufferTooSmall ==
  /\ writer = "copy"
  /\ RowLength > m_request.length
  /\ m_read_responses' = Append(m_read_responses, IF m_request.written = 0
                                                  THEN -1 ELSE m_request.written)
  /\ writer' = "test"
  /\ UNCHANGED <<fileVars, m_read_requests, m_request, m_pending_write,
                 position, m_size, readerVars, flags>>

\* The row is copied; the reader is answered once its buffer is full.
CopyRow ==
  /\ writer = "copy"
  /\ RowLength <= m_request.length
  /\ m_size' = m_size + RowLength
  /\ position' = RowEnd
  /\ m_request' = [length |-> m_request.length - RowLength,
                   written |-> m_request.written + RowLength]
  /\ m_pending_write' = 0
  /\ IF m_request'.length = 0
     THEN /\ m_read_responses' = Append(m_read_responses, m_request'.written)
          /\ UNCHANGED m_read_requests
     ELSE /\ m_read_requests' = m_read_requests + 1
          /\ UNCHANGED m_read_responses
  /\ writer' = "next"
  /\ UNCHANGED <<fileVars, readerVars, flags>>

AllWritten ==
  /\ writer = "next"
  /\ position = Size
  /\ writer' = "close"
  /\ UNCHANGED <<fileVars, sharedVars, position, m_size, readerVars, flags>>

\* Plausible bug: a buffer that is not full is forgotten.
MutantClosePending ==
  /\ writer = "close"
  /\ m_read_requests' = IF m_read_requests > 0 THEN m_read_requests - 1
                                               ELSE m_read_requests
  /\ writer' = "eof"
  /\ UNCHANGED <<fileVars, m_read_responses, m_request, m_pending_write,
                 position, m_size, readerVars, flags>>

\* close(): a buffer that is not full is given back; a request may as well
\* arrive too late to be seen.
ClosePending ==
  /\ writer = "close"
  /\ IF m_read_requests > 0
     THEN /\ m_read_requests' = m_read_requests - 1
          /\ m_read_responses' = IF m_request.written > 0
                                 THEN Append(m_read_responses, m_request.written)
                                 ELSE m_read_responses
     ELSE UNCHANGED <<m_read_requests, m_read_responses>>
  /\ writer' = "eof"
  /\ UNCHANGED <<fileVars, m_request, m_pending_write, position, m_size,
                 readerVars, flags>>

\* Plausible bug: the end of the file is not signalled.
MutantCloseEof ==
  /\ writer = "eof"
  /\ writer' = "closed"
  /\ UNCHANGED <<fileVars, sharedVars, position, m_size, readerVars, flags>>

\* "signal EOF to the reader"
CloseEof ==
  /\ writer = "eof"
  /\ m_read_responses' = Append(m_read_responses, 0)
  /\ writer' = "closed"
  /\ UNCHANGED <<fileVars, m_read_requests, m_request, m_pending_write,
                 position, m_size, readerVars, flags>>

Writer ==
  \/ StartWrite \/ TestWrite \/ PopRequest \/ BufferTooSmall \/ CopyRow
  \/ AllWritten \/ ClosePending \/ CloseEof
-----------------------------------------------------------------------------
(* The reader: local_infile_read() calls fast_sub_chunking().              *)

trx_bytes_left == max_trx_size - m_trx_size

\* consume(), as much of m_data as the client asked for
Consume(data) ==
  LET k == IF length < data THEN length ELSE data IN
  /\ m_data' = data - k
  /\ m_trx_size' = m_trx_size + k
  /\ received' = received + k
  /\ returned' = k
  /\ reader' = "check"

ReadStored ==
  /\ reader = "ask"
  /\ m_data > 0
  /\ Consume(m_data)
  /\ UNCHANGED <<fileVars, sharedVars, writerVars, m_eof, offset, flags>>

\* "the row we had stored was longer than the transaction size, or we read
\* exactly that many bytes"
TransactionFull ==
  /\ reader = "ask"
  /\ m_data = 0
  /\ trx_bytes_left <= 0
  /\ returned' = 0
  /\ reader' = "check"
  /\ UNCHANGED <<fileVars, sharedVars, writerVars, m_data, m_trx_size, m_eof,
                 received, offset, flags>>

\* Synchronized_file::read()
Request(n) ==
  /\ m_request' = [length |-> n, written |-> 0]
  /\ m_read_requests' = m_read_requests + 1
  /\ UNCHANGED <<m_read_responses, m_pending_write>>

Read ==
  /\ reader = "ask"
  /\ m_data = 0
  /\ trx_bytes_left > 0
  /\ Request(IF length < trx_bytes_left THEN length ELSE trx_bytes_left)
  /\ reader' = "test"
  /\ UNCHANGED <<fileVars, writerVars, m_data, m_trx_size, m_eof, returned,
                 received, offset, flags>>

\* What fast_sub_chunking() does with the rows read() has returned ...
Received(k) ==
  /\ m_eof' = (m_eof \/ k = 0)
  /\ m_trx_size' = m_trx_size + k
  /\ received' = received + k
  /\ returned' = k
  /\ reader' = "check"
  /\ UNCHANGED <<sharedVars, m_data>>

\* ... and if there are none, because the row is too long: it ends the
\* transaction, or a buffer which is large enough is provided.
RowTooLong ==
  /\ UNCHANGED <<m_eof, m_trx_size, received>>
  /\ IF m_trx_size > 0
     THEN /\ returned' = 0
          /\ reader' = "check"
          /\ UNCHANGED <<sharedVars, m_data>>
     ELSE /\ reader' = "row_test"
          /\ m_data' = m_pending_write
          /\ m_request' = [length |-> m_pending_write, written |-> 0]
          /\ m_read_requests' = m_read_requests + 1
          /\ UNCHANGED <<m_read_responses, m_pending_write, returned>>

\* What it does with the row: m_data has already its size, whatever was read.
RowReceived(k) ==
  /\ IF k > 0
     THEN Consume(m_data)
     ELSE /\ returned' = 0
          /\ reader' = "check"
          /\ UNCHANGED <<m_data, m_trx_size, received>>
  /\ UNCHANGED <<sharedVars, m_eof>>

\* read() returns 0 once the copy was interrupted.
TestRead ==
  /\ reader \in {"test", "row_test"}
  /\ \/ /\ ~interrupted
        /\ reader' = IF reader = "test" THEN "pop" ELSE "row_pop"
        /\ UNCHANGED returned
     \/ /\ interrupted
        /\ reader' = IF reader = "test" THEN "popped" ELSE "row_popped"
        /\ returned' = 0
  /\ UNCHANGED <<fileVars, sharedVars, writerVars, m_data, m_trx_size, m_eof,
                 received, offset, flags>>

\* m_read_responses.try_pop(), which may time out.
PopNothing ==
  /\ reader \in {"pop", "row_pop"}
  /\ m_read_responses = <<>>
  /\ reader' = IF reader = "pop" THEN "test" ELSE "row_test"
  /\ UNCHANGED <<fileVars, sharedVars, writerVars, m_data, m_trx_size, m_eof,
                 returned, received, offset, flags>>

PopResponse ==
  /\ reader \in {"pop", "row_pop"}
  /\ m_read_responses # <<>>
  /\ m_read_responses' = Tail(m_read_responses)
  /\ reader' = IF reader = "pop" THEN "popped" ELSE "row_popped"
  /\ returned' = Head(m_read_responses)
  /\ UNCHANGED <<fileVars, m_read_requests, m_request, m_pending_write,
                 writerVars, m_data, m_trx_size, m_eof, received, offset, flags>>

HandleResponse ==
  /\ \/ reader = "popped" /\ returned >= 0 /\ Received(returned)
     \/ reader = "popped" /\ returned < 0 /\ RowTooLong
     \/ reader = "row_popped" /\ RowReceived(returned)
  /\ UNCHANGED <<fileVars, writerVars, offset, flags>>

\* local_infile_read(): the statement fails if the loader was interrupted, and
\* ends if nothing was read.
CheckInterrupt ==
  /\ reader = "check"
  /\ reader' = IF user_interrupt THEN "failed"
               ELSE IF returned = 0 THEN "flush"
               ELSE "ask"
  /\ UNCHANGED <<fileVars, sharedVars, writerVars, m_data, m_trx_size, m_eof,
                 returned, received, offset, flags>>

\* The transaction is committed, and flush_done() is called.
FlushDone ==
  /\ reader = "flush"
  /\ offset' = received
  /\ m_trx_size' = 0
  /\ reader' = IF ~m_eof \/ m_data > 0 THEN "ask" ELSE "done"
  /\ UNCHANGED <<fileVars, sharedVars, writerVars, m_data, m_eof, returned,
                 received, flags>>

Reader ==
  \/ ReadStored \/ TransactionFull \/ Read \/ TestRead \/ PopNothing
  \/ PopResponse \/ HandleResponse \/ CheckInterrupt \/ FlushDone
-----------------------------------------------------------------------------
\* copy(): ^C interrupts the file system first, and the loader last.
Interrupt ==
  /\ ~interrupted
  /\ interrupted' = TRUE
  /\ UNCHANGED <<fileVars, sharedVars, writerVars, readerVars, user_interrupt>>

HardInterrupt ==
  /\ interrupted
  /\ ~user_interrupt
  /\ user_interrupt' = TRUE
  /\ UNCHANGED <<fileVars, sharedVars, writerVars, readerVars, interrupted>>

Ended == writer = "closed" /\ reader \in {"done", "failed"}

Next ==
  \/ Writer \/ Reader \/ Interrupt \/ HardInterrupt
  \/ (Ended /\ UNCHANGED vars)

Spec == Init /\ [][Next]_vars

(* Both threads run.                                                        *)
FairSpec == Spec /\ WF_vars(Writer) /\ WF_vars(Reader)
-----------------------------------------------------------------------------
(* Properties.                                                             *)

TypeOK ==
  /\ m_read_requests \in Nat
  /\ interrupted \/ m_read_requests <= 1
  /\ m_read_responses \in Seq({-1} \cup 0 .. Size)
  /\ m_request \in [length : Nat, written : 0 .. Size]
  /\ {m_pending_write, m_size, position, m_data, m_trx_size} \subseteq 0 .. Size
  /\ writer \in {"next", "test", "pop", "copy", "close", "eof", "closed"}
  /\ reader \in {"ask", "test", "pop", "popped", "row_test", "row_pop",
                 "row_popped", "check", "flush", "done", "failed"}
  /\ returned \in {-1} \cup 0 .. Size
  /\ 0 <= offset /\ offset <= received
  /\ interrupted \/ received <= m_size
  /\ {m_eof, interrupted, user_interrupt} \subseteq BOOLEAN

(* The transactions are the ones LoadData and the progress log rely on:     *)
(* though rows are handed over in a buffer of any size, and at any time,    *)
(* none is lost, and transactions end where rows end, until ^C: what is     *)
(* left then is given up, as if it was loaded.                              *)
Abstract == INSTANCE SubChunks
  WITH size <- Size,
       offset <- IF interrupted THEN Size ELSE offset,
       finished <- interrupted \/ reader = "done"
RowsNotTorn == Abstract!Spec

(* m_request: "access to this variable is protected by the two queues".     *)
(* The writer uses it only while the reader waits in read(), and only one   *)
(* of them has been told that it may, unless read() gave up because of ^C.  *)
RequestOwned ==
  \/ interrupted
  \/ writer \in {"eof", "closed"}
  \/ m_read_requests = 0 /\ writer # "copy"
  \/ /\ reader \in {"test", "pop", "row_test", "row_pop"}
     /\ m_read_responses = <<>>

(* A transaction is longer than max_trx_size only if it has a single row.   *)
WithinLimit ==
  m_trx_size > max_trx_size /\ ~interrupted =>
    \A r \in row_ends : ~(offset < r /\ r < received)

(* fast_sub_chunking(): "this read should succeed", of the read into a      *)
(* buffer that has the size of the pending write, if nobody presses ^C.     *)
RowReadSucceeds ==
  reader = "row_popped" /\ ~interrupted => returned = m_data

(* Rows are handed over one by one: by the thread that owns the request, in *)
(* a buffer of their size, and within the limit of the transaction.         *)
HandedOver == TypeOK /\ RequestOwned /\ WithinLimit /\ RowReadSucceeds

(* Both threads come back, also if the copy is interrupted while each waits *)
(* for the other one.                                                       *)
Ends == <>Ended
=============================================================================
