----------------------- MODULE SynchronizedFileProofs -----------------------
(***************************************************************************)
(* Proofs about SynchronizedFile, for files of any size, rows of any       *)
(* length, and all limits: the hand-over of a row, and that transactions   *)
(* end where rows end, which is the refinement of SubChunks.  Then about   *)
(* SynchronizedQueue, of which m_read_requests and m_read_responses are.   *)
(***************************************************************************)
EXTENDS SynchronizedFile, SynchronizedQueue, FiniteSetTheorems,
        WellFoundedInduction, SequenceTheorems, TLAPS

(***************************************************************************)
(* The inductive invariant.                                                *)
(***************************************************************************)

\* The reader is in read(), the writer in write(), and the reader has provided
\* a buffer for a single row.
Waiting == reader \in {"test", "pop", "row_test", "row_pop"}
Writing == writer \in {"test", "pop", "copy"}
Stored == reader \in {"row_test", "row_pop", "row_popped"}

\* The types of all the variables.
Types ==
  /\ row_ends \in SUBSET (1 .. MaxSize)
  /\ max_trx_size \in Limits
  /\ length \in 1 .. MaxLength
  /\ m_read_requests \in Nat
  /\ m_read_responses \in Seq({-1} \cup 0 .. Size)
  /\ m_request \in [length : Nat, written : 0 .. Size]
  /\ m_pending_write \in 0 .. Size /\ m_size \in 0 .. Size
  /\ position \in row_ends \cup {0}
  /\ writer \in {"next", "test", "pop", "copy", "close", "eof", "closed"}
  /\ reader \in {"ask", "test", "pop", "popped", "row_test", "row_pop",
                 "row_popped", "check", "flush", "done", "failed"}
  /\ m_data \in 0 .. Size /\ m_trx_size \in 0 .. Size
  /\ returned \in {-1} \cup 0 .. Size
  /\ received \in Nat /\ offset \in Nat
  /\ m_eof \in BOOLEAN /\ interrupted \in BOOLEAN /\ user_interrupt \in BOOLEAN
  /\ user_interrupt => interrupted

\* What the writer knows: everything before position was handed over, unless
\* the copy was interrupted, and the row it publishes is the next one.
WriterView ==
  /\ m_size <= position
  /\ m_request.written <= m_size
  /\ Writing => position < Size
  /\ ~interrupted =>
       /\ m_size = position
       /\ Writing => m_pending_write = RowLength
       /\ writer \in {"close", "eof", "closed"} => position = Size

\* What the reader knows: the transaction begins at offset.
ReaderView ==
  /\ received = offset + m_trx_size
  /\ m_trx_size + m_data <= Size
  /\ reader \in {"test", "pop", "popped"} => m_data = 0
  /\ reader = "popped" => m_trx_size + returned <= Size
  /\ Stored => m_trx_size = 0

\* How a request is answered before its buffer is full.
Answer == IF m_request.written = 0 THEN -1 ELSE m_request.written

\* The two ends are related until ^C, or until a read() which has not seen it
\* gets its response.
Live == ~interrupted \/ reader = "pop"

\* The queues: who owns m_request, and what there is to be read from them.
Baton ==
  Live =>
    /\ m_read_requests <= 1
    /\ writer \notin {"eof", "closed"} =>
         \/ /\ ~Waiting /\ writer # "copy"
            /\ m_read_requests = 0 /\ m_read_responses = <<>>
         \/ /\ Waiting /\ writer # "copy"
            /\ m_read_requests = 1 /\ m_read_responses = <<>>
         \/ /\ Waiting /\ writer = "copy"
            /\ m_read_requests = 0 /\ m_read_responses = <<>>
         \/ /\ Waiting /\ writer # "copy"
            /\ m_read_requests = 0 /\ m_read_responses = <<Answer>>
    /\ writer = "eof" =>
         \/ ~Waiting /\ m_read_requests = 0 /\ m_read_responses = <<>>
         \/ Waiting /\ m_request.written = 0 /\ m_read_responses = <<>>
         \/ Waiting /\ m_read_requests = 0 /\ m_read_responses = <<Answer>>
    /\ writer = "closed" =>
         \/ ~Waiting /\ m_read_requests = 0 /\ m_read_responses = <<0>>
         \/ Waiting /\ m_request.written = 0 /\ m_read_responses = <<0>>
         \/ /\ Waiting /\ m_read_requests = 0 /\ m_read_responses = <<Answer, 0>>
            /\ interrupted \/ Answer # -1
         \/ /\ ~Waiting /\ m_read_responses = <<>>
            /\ m_eof \/ (reader = "popped" /\ returned = 0)

\* Bytes that were written and not yet given to the client.
InFlight == IF Waiting THEN m_request.written
            ELSE IF reader = "popped" THEN (IF returned > 0 THEN returned ELSE 0)
            ELSE m_data

\* The reader is being told that its buffer is too small.
Refused == m_read_responses = <<-1>> \/ (reader = "popped" /\ returned = -1)

\* No byte is lost, and a request leaves the transaction within its limit.
Accounted ==
  Live =>
    /\ m_size = received + InFlight
    /\ reader \in {"test", "pop"} =>
         m_trx_size + m_request.written + m_request.length <= max_trx_size

\* The row which did not fit is still being written when a buffer of its size
\* is provided; a transaction beyond the limit has no other row.
Exact ==
  ~interrupted =>
    /\ Refused => writer \in {"test", "pop"}
    /\ reader \in {"row_test", "row_pop"} =>
         /\ m_data > 0 /\ m_request.written + m_request.length = m_data
         /\ IF m_read_responses = <<>>
            THEN m_request.written = 0 /\ Writing /\ m_data = RowLength
            ELSE m_request.written = m_data
    /\ reader = "row_popped" => returned = m_data /\ m_data > 0
    /\ m_size - offset <= max_trx_size
         \/ \A r \in row_ends : ~(offset < r /\ r < m_size)

\* A transaction ends with some rows, or at the end of the file.
Ending ==
  ~interrupted =>
    /\ m_eof => /\ reader \in {"check", "flush", "done"} /\ received = Size
                /\ reader = "check" => returned = 0
    /\ reader = "popped" /\ returned = 0 => writer = "closed"
    /\ reader = "flush" \/ (reader = "check" /\ returned = 0)
         => m_data = 0 /\ (m_trx_size > 0 \/ m_eof)
    /\ reader = "done" => m_eof /\ m_data = 0 /\ offset = Size

IInv ==
  /\ Types /\ WriterView /\ ReaderView /\ Baton /\ Accounted /\ Exact
  /\ Ending
-----------------------------------------------------------------------------
(***************************************************************************)
(* Rows, and the queue of responses.                                       *)
(***************************************************************************)

\* A set of natural numbers has a least element.
LEMMA Least ==
  ASSUME NEW S, \A x \in S : x \in Nat, S # {}
  PROVE  \E m \in S : \A k \in S : m <= k
<1>1. S \subseteq Nat
  OBVIOUS
<1>2. IsWellFoundedOn(OpToRel(<, Nat), Nat)
  BY NatLessThanWellFounded
<1>3. PICK R : R = OpToRel(<, Nat)
  OBVIOUS
<1>4. IsWellFoundedOn(R, Nat)
  BY <1>2, <1>3
<1>5. PICK m \in S : \A k \in S : ~(<<k, m>> \in R)
  BY <1>1, <1>4, WFMin
<1>6. \A j, k \in Nat : j < k => <<j, k>> \in R
  BY <1>3 DEF OpToRel
<1>7. ASSUME NEW k \in S PROVE m <= k
  <2>1. m \in Nat /\ k \in Nat /\ ~(<<k, m>> \in R)
    BY <1>5
  <2>2. ~(k < m)
    BY <1>6, <2>1
  <2> QED
    BY <2>1, <2>2
<1> QED
  BY <1>7

\* Min(S) is the least element of a set of numbers.
LEMMA MinOf ==
  ASSUME NEW S, \A x \in S : x \in Nat, S # {}
  PROVE  Min(S) \in S /\ \A y \in S : Min(S) <= y
<1>1. PICK m \in S : \A k \in S : m <= k
  BY Least
<1> QED
  BY <1>1 DEF Min

\* Max(S) is the greatest element of a set of numbers which has a bound.
LEMMA MaxOf ==
  ASSUME NEW S, NEW n \in Nat, \A x \in S : x \in 0 .. n, S # {}
  PROVE  Max(S) \in S /\ \A y \in S : Max(S) >= y
<1>1. DEFINE T == {n - x : x \in S}
<1>2. \A t \in T : t \in Nat
  OBVIOUS
<1>3. T # {}
  <2>1. PICK x \in S : TRUE
    OBVIOUS
  <2>2. n - x \in T
    BY <2>1
  <2> QED
    BY <2>2
<1>4. PICK m \in T : \A k \in T : m <= k
  <2> HIDE DEF T
  <2> QED
    BY <1>2, <1>3, Least
<1>5. PICK x \in S : m = n - x
  OBVIOUS
<1>6. \A y \in S : x >= y
  <2>1. SUFFICES ASSUME NEW y \in S PROVE x >= y
    OBVIOUS
  <2>2. n - y \in T
    OBVIOUS
  <2>3. m <= n - y
    BY <1>4, <2>2
  <2> QED
    BY <1>5, <2>3
<1> QED
  BY <1>6 DEF Max

\* The size of the file is where its last row ends.
LEMMA SizeOf ==
  ASSUME row_ends \in SUBSET (1 .. MaxSize)
  PROVE  /\ Size \in Nat
         /\ Size \in row_ends \cup {0}
         /\ \A r \in row_ends : r \in 1 .. Size
<1>1. CASE row_ends = {}
  BY <1>1 DEF Size
<1>2. CASE row_ends # {}
  <2>1. MaxSize \in Nat /\ \A r \in row_ends : r \in 1 .. MaxSize
    BY FileAssumption
  <2>2. Max(row_ends) \in row_ends /\ \A y \in row_ends : Max(row_ends) >= y
    <3>1. \A r \in row_ends : r \in 0 .. MaxSize
      BY <2>1
    <3> QED
      BY <1>2, <2>1, <3>1, MaxOf
  <2>3. Size = Max(row_ends)
    BY <1>2 DEF Size
  <2>4. Size \in row_ends /\ \A r \in row_ends : Size >= r
    BY <2>2, <2>3
  <2> QED
    BY <2>1, <2>4
<1> QED
  BY <1>1, <1>2

\* The row that begins at position ends at the next one of row_ends.
LEMMA RowOf ==
  ASSUME row_ends \in SUBSET (1 .. MaxSize), position \in row_ends \cup {0},
         position < Size
  PROVE  /\ RowEnd \in row_ends /\ RowEnd \in 1 .. Size
         /\ position < RowEnd
         /\ RowLength \in 1 .. Size /\ RowEnd = position + RowLength
         /\ \A r \in row_ends : ~(position < r /\ r < RowEnd)
<1>1. /\ Size \in Nat /\ Size \in row_ends \cup {0}
      /\ \A r \in row_ends : r \in 1 .. Size
  BY SizeOf
<1>2. position \in Nat
  BY <1>1
<1>3. DEFINE S == {r \in row_ends : r > position}
<1>4. Size \in S /\ \A x \in S : x \in Nat
  BY <1>1, <1>2
<1>5. Min(S) \in S /\ \A y \in S : Min(S) <= y
  BY <1>4, MinOf
<1>6. RowEnd = Min(S)
  BY DEF RowEnd
<1> HIDE DEF S
<1>7. RowEnd \in S /\ \A y \in S : RowEnd <= y
  BY <1>5, <1>6
<1>8. RowEnd \in row_ends /\ RowEnd > position
  BY <1>7 DEF S
<1>9. \A r \in row_ends : ~(position < r /\ r < RowEnd)
  BY <1>1, <1>2, <1>7, <1>8 DEF S
<1> QED
  BY <1>1, <1>2, <1>8, <1>9 DEF RowLength

\* The queue of responses has at most two elements.
LEMMA Tuples ==
  /\ \A a : Append(<<>>, a) = <<a>>
  /\ \A a, b : Append(<<a>>, b) = <<a, b>>
  /\ \A a : Head(<<a>>) = a /\ Tail(<<a>>) = <<>>
  /\ \A a, b : Head(<<a, b>>) = a /\ Tail(<<a, b>>) = <<b>>
  /\ \A a : <<a>> # <<>>
  /\ \A a, b : <<a, b>> # <<>>
  /\ \A a, b, c : <<a>> # <<b, c>>
  /\ \A a, b : <<a>> = <<b>> => a = b
<1>1. \A a : Append(<<>>, a) = <<a>>
  OBVIOUS
<1>2. ASSUME NEW a, NEW b PROVE Append(<<a>>, b) = <<a, b>>
  <2>1. <<a>> \in Seq({a, b}) /\ <<a, b>> \in Seq({a, b}) /\ b \in {a, b}
    OBVIOUS
  <2>2. Append(<<a>>, b) \in Seq({a, b}) /\ Len(Append(<<a>>, b)) = 2
    BY <2>1
  <2>3. \A i \in 1 .. 2 : Append(<<a>>, b)[i] = <<a, b>>[i]
    BY <2>1
  <2> QED
    BY <2>1, <2>2, <2>3, SeqEqual
<1>3. \A a : Head(<<a>>) = a /\ Tail(<<a>>) = <<>>
  OBVIOUS
<1>4. \A a, b : Head(<<a, b>>) = a
  OBVIOUS
<1>5. \A a, b : Tail(<<a, b>>) = <<b>>
  OBVIOUS
<1>6. \A a : <<a>> # <<>>
  OBVIOUS
<1>7. \A a, b : <<a, b>> # <<>>
  OBVIOUS
<1>8. \A a, b, c : <<a>> # <<b, c>>
  OBVIOUS
<1>9. \A a, b : <<a>> = <<b>> => a = b
  OBVIOUS
<1> QED
  BY <1>1, <1>2, <1>3, <1>4, <1>5, <1>6, <1>7, <1>8, <1>9

-----------------------------------------------------------------------------
(***************************************************************************)
(* The invariant holds initially, and every step of the writer preserves   *)
(* it.                                                                     *)
(***************************************************************************)

\* What the proofs about a step start from.
LEMMA Facts ==
  ASSUME IInv
  PROVE  /\ Size \in Nat /\ Size \in row_ends \cup {0}
         /\ \A r \in row_ends : r \in 1 .. Size
         /\ position \in 0 .. Size
         /\ max_trx_size \in Nat \ {0} /\ length \in Nat \ {0}
         /\ m_request.length \in Nat /\ m_request.written \in 0 .. Size
         /\ m_request = [length |-> m_request.length,
                         written |-> m_request.written]
<1>1. Types
  BY DEF IInv
<1>2. /\ Size \in Nat /\ Size \in row_ends \cup {0}
      /\ \A r \in row_ends : r \in 1 .. Size
  BY <1>1, SizeOf DEF Types
<1>3. position \in 0 .. Size
  BY <1>1, <1>2 DEF Types
<1>4. max_trx_size \in Nat \ {0} /\ length \in Nat \ {0}
  BY <1>1, FileAssumption DEF Types
<1>5. /\ m_request.length \in Nat /\ m_request.written \in 0 .. Size
      /\ m_request = [length |-> m_request.length,
                      written |-> m_request.written]
  BY <1>1 DEF Types
<1> QED
  BY <1>2, <1>3, <1>4, <1>5

\* While a row is being written, it is one of the file.
LEMMA RowFacts ==
  ASSUME IInv, Writing
  PROVE  /\ RowEnd \in row_ends /\ RowEnd \in 1 .. Size
         /\ position < RowEnd
         /\ RowLength \in 1 .. Size /\ RowEnd = position + RowLength
         /\ \A r \in row_ends : ~(position < r /\ r < RowEnd)
<1>1. /\ row_ends \in SUBSET (1 .. MaxSize)
      /\ position \in row_ends \cup {0} /\ position < Size
  BY DEF IInv, Types, WriterView
<1> QED
  BY <1>1, RowOf

\* Both ends of the file were opened.
LEMMA InitInv == Init => IInv
<1> SUFFICES ASSUME Init PROVE IInv
  OBVIOUS
<1> USE DEF Init
<1>1. row_ends \in SUBSET (1 .. MaxSize)
  OBVIOUS
<1>2. Size \in Nat
  BY <1>1, SizeOf
<1>3. Types
  <2>1. m_request \in [length : Nat, written : 0 .. Size]
    BY <1>2
  <2>2. m_read_responses \in Seq({-1} \cup 0 .. Size)
    OBVIOUS
  <2> QED
    BY <1>2, <2>1, <2>2 DEF Types
<1>4. WriterView
  BY <1>2 DEF WriterView, Writing
<1>5. ReaderView
  BY <1>2 DEF ReaderView, Stored
<1>6. Baton
  BY DEF Baton, Waiting
<1>7. Accounted
  BY DEF Accounted, InFlight, Waiting
<1>8. Exact
  <2>1. max_trx_size \in Nat
    BY FileAssumption
  <2>2. ~Refused
    BY Tuples DEF Refused
  <2> QED
    BY <2>1, <2>2 DEF Exact
<1>9. Ending
  BY DEF Ending
<1> QED
  BY <1>3, <1>4, <1>5, <1>6, <1>7, <1>8, <1>9 DEF IInv

\* The row that is to be written is published.
LEMMA StartWriteInv == IInv /\ StartWrite => IInv'
<1> SUFFICES ASSUME IInv, StartWrite PROVE IInv'
  OBVIOUS
<1> USE DEF StartWrite, fileVars, readerVars, flags
<1>1. /\ row_ends' = row_ends /\ position' = position
      /\ Size' = Size /\ RowEnd' = RowEnd /\ RowLength' = RowLength
  BY DEF Size, RowEnd, RowLength
<1>2. /\ row_ends \in SUBSET (1 .. MaxSize)
      /\ position \in row_ends \cup {0} /\ position < Size
  BY DEF IInv, Types
<1>3. Size \in Nat /\ RowLength \in 1 .. Size
  BY <1>2, RowOf, Facts
<1>4. Types'
  BY <1>1, <1>3 DEF IInv, Types
<1>5. WriterView'
  BY <1>1, <1>2 DEF IInv, WriterView, Writing
<1>6. ReaderView'
  BY <1>1 DEF IInv, ReaderView, Stored
<1>7. Baton'
  BY DEF IInv, Baton, Live, Waiting, Answer
<1>8. Accounted'
  BY DEF IInv, Accounted, Live, InFlight, Waiting
<1>9. Exact'
  BY <1>1 DEF IInv, Exact, Refused, Writing
<1>10. Ending'
  BY <1>1 DEF IInv, Ending
<1> QED
  BY <1>4, <1>5, <1>6, <1>7, <1>8, <1>9, <1>10 DEF IInv

\* The copy is interrupted before a row is written: the row is dropped.
LEMMA TestWriteInv == IInv /\ TestWrite => IInv'
<1> SUFFICES ASSUME IInv, TestWrite PROVE IInv'
  OBVIOUS
<1> USE DEF TestWrite, fileVars, sharedVars, readerVars, flags
<1>1. row_ends' = row_ends /\ Size' = Size
  BY DEF Size
<1>2. /\ RowEnd \in row_ends /\ RowEnd \in 1 .. Size /\ position < RowEnd
      /\ Size \in Nat /\ position \in Nat
  BY RowFacts, Facts DEF Writing
<1>3. ~interrupted => /\ RowEnd' = RowEnd /\ RowLength' = RowLength
                      /\ position' = position
  BY DEF RowEnd, RowLength
<1>4. Types'
  BY <1>1, <1>2 DEF IInv, Types
<1>5. WriterView'
  <2>1. m_size \in Nat
    BY <1>2 DEF IInv, Types
  <2> QED
    BY <1>1, <1>2, <1>3, <2>1 DEF IInv, WriterView, Writing
<1>6. ReaderView'
  BY <1>1 DEF IInv, ReaderView, Stored
<1>7. Baton'
  BY DEF IInv, Baton, Live, Waiting, Answer
<1>8. Accounted'
  BY DEF IInv, Accounted, Live, InFlight, Waiting
<1>9. Exact'
  BY <1>1, <1>3 DEF IInv, Exact, Refused, Writing
<1>10. Ending'
  BY <1>1 DEF IInv, Ending
<1> QED
  BY <1>4, <1>5, <1>6, <1>7, <1>8, <1>9, <1>10 DEF IInv

\* The writer gets the request, or its time is up.
LEMMA PopRequestInv == IInv /\ PopRequest => IInv'
<1> SUFFICES ASSUME IInv, PopRequest PROVE IInv'
  OBVIOUS
<1> USE DEF PopRequest, fileVars, readerVars, flags
<1>1. /\ row_ends' = row_ends /\ position' = position
      /\ Size' = Size /\ RowEnd' = RowEnd /\ RowLength' = RowLength
  BY DEF Size, RowEnd, RowLength
<1>2. m_read_requests \in Nat
  BY DEF IInv, Types
<1>3. Live /\ m_read_requests > 0 =>
        /\ Waiting /\ m_read_requests = 1 /\ m_read_responses = <<>>
  BY <1>2 DEF IInv, Baton
<1>4. Types'
  BY <1>1, <1>2 DEF IInv, Types
<1>5. WriterView'
  BY <1>1 DEF IInv, WriterView, Writing
<1>6. ReaderView'
  BY <1>1 DEF IInv, ReaderView, Stored
<1>7. Baton'
  BY <1>2, <1>3 DEF IInv, Baton, Live, Waiting, Answer
<1>8. Accounted'
  BY DEF IInv, Accounted, Live, InFlight, Waiting
<1>9. Exact'
  BY <1>1, <1>3, Tuples DEF IInv, Exact, Refused, Writing, Live, Waiting
<1>10. Ending'
  BY <1>1 DEF IInv, Ending
<1> QED
  BY <1>4, <1>5, <1>6, <1>7, <1>8, <1>9, <1>10 DEF IInv

\* The row does not fit: the request is answered without it.
LEMMA BufferTooSmallInv == IInv /\ BufferTooSmall => IInv'
<1> SUFFICES ASSUME IInv, BufferTooSmall PROVE IInv'
  OBVIOUS
<1> USE DEF BufferTooSmall, fileVars, readerVars, flags
<1>1. /\ row_ends' = row_ends /\ position' = position
      /\ Size' = Size /\ RowEnd' = RowEnd /\ RowLength' = RowLength
  BY DEF Size, RowEnd, RowLength
<1>2. m_read_responses' = Append(m_read_responses, Answer) /\ Answer' = Answer
  BY DEF Answer
<1>3. Answer \in {-1} \cup 0 .. Size
  BY Facts DEF Answer
<1>4. Live => Waiting /\ m_read_requests = 0 /\ m_read_responses' = <<Answer>>
  BY <1>2, Tuples DEF IInv, Baton
<1>5. Types'
  BY <1>1, <1>2, <1>3 DEF IInv, Types
<1>6. WriterView'
  BY <1>1 DEF IInv, WriterView, Writing
<1>7. ReaderView'
  BY <1>1 DEF IInv, ReaderView, Stored
<1>8. Baton'
  BY <1>2, <1>4 DEF IInv, Baton, Live, Waiting
<1>9. Accounted'
  BY DEF IInv, Accounted, Live, InFlight, Waiting
<1>10. Exact'
  <2>1. ~interrupted => reader \notin {"row_test", "row_pop"}
    <3>1. m_data \in Nat /\ m_request.length \in Nat /\ RowLength \in Nat
      BY Facts, RowFacts DEF IInv, Types, Writing
    <3>2. ~interrupted => m_read_responses = <<>>
      BY DEF IInv, Baton, Live
    <3> QED
      BY <3>1, <3>2 DEF IInv, Exact, Writing
  <2> QED
    BY <1>1, <2>1 DEF IInv, Exact, Writing
<1>11. Ending'
  BY <1>1 DEF IInv, Ending
<1> QED
  BY <1>5, <1>6, <1>7, <1>8, <1>9, <1>10, <1>11 DEF IInv

\* A row is copied, and the request is answered once its buffer is full.
LEMMA CopyRowInv == IInv /\ CopyRow => IInv'
<1> SUFFICES ASSUME IInv, CopyRow PROVE IInv'
  OBVIOUS
<1> USE DEF CopyRow, fileVars, readerVars, flags
<1>1. row_ends' = row_ends /\ Size' = Size
  BY DEF Size
<1>2. /\ RowEnd \in row_ends /\ RowEnd \in 1 .. Size /\ position < RowEnd
      /\ RowLength \in 1 .. Size /\ RowEnd = position + RowLength
      /\ \A r \in row_ends : ~(position < r /\ r < RowEnd)
  BY RowFacts DEF Writing
<1>3. /\ Size \in Nat /\ position \in Nat /\ m_size \in Nat
      /\ m_request.length \in Nat /\ m_request.written \in Nat
      /\ m_size <= position /\ m_request.written <= m_size
      /\ m_read_requests \in Nat /\ m_data \in Nat /\ m_trx_size \in Nat
      /\ received \in Nat /\ offset \in Nat /\ max_trx_size \in Nat
  BY Facts DEF IInv, Types, WriterView
<1>4. /\ m_request'.length = m_request.length - RowLength
      /\ m_request'.written = m_request.written + RowLength
  OBVIOUS
<1>5. /\ m_request'.length \in Nat /\ m_request'.written \in 1 .. Size
      /\ m_request'.written <= m_size' /\ m_size' \in 0 .. Size
      /\ m_size' <= position'
  <2>1. /\ RowLength <= m_request.length
        /\ m_size' = m_size + RowLength /\ position' = RowEnd
    OBVIOUS
  <2> HIDE DEF CopyRow
  <2>2. m_size' \in 0 .. Size /\ m_size' <= position'
    BY <1>2, <1>3, <2>1
  <2>3. m_request'.length \in Nat
    BY <1>2, <1>3, <1>4, <2>1
  <2>4. m_request'.written \in 1 .. Size /\ m_request'.written <= m_size'
    BY <1>2, <1>3, <1>4, <2>1, <2>2
  <2> QED
    BY <2>2, <2>3, <2>4
<1>6. Answer' = m_request'.written
  BY <1>5 DEF Answer
<1>7. Live => Waiting /\ m_read_requests = 0 /\ m_read_responses = <<>>
  BY DEF IInv, Baton
<1>8. Types'
  <2>1. m_read_responses' \in Seq({-1} \cup 0 .. Size)
    <3>1. m_read_responses \in Seq({-1} \cup 0 .. Size)
      BY DEF IInv, Types
    <3>2. m_request'.written \in {-1} \cup 0 .. Size
      BY <1>5
    <3>3. \/ m_read_responses' = Append(m_read_responses, m_request'.written)
          \/ m_read_responses' = m_read_responses
      OBVIOUS
    <3> HIDE DEF CopyRow
    <3> QED
      BY <3>1, <3>2, <3>3
  <2>2. m_read_requests' \in Nat
    BY <1>3
  <2>3. m_request' \in [length : Nat, written : 0 .. Size]
    BY <1>4, <1>5
  <2> QED
    BY <1>1, <1>2, <1>3, <1>5, <2>1, <2>2, <2>3 DEF IInv, Types
<1>9. WriterView'
  <2>1. ~interrupted => m_size' = position'
    BY <1>2, <1>3 DEF IInv, WriterView
  <2> QED
    BY <1>5, <2>1 DEF WriterView, Writing
<1>10. ReaderView'
  BY <1>1 DEF IInv, ReaderView, Stored
<1>11. Baton'
  <2>1. CASE m_request'.length = 0
    <3>1. Live => m_read_responses' = <<Answer>>' /\ m_read_requests' = 0
      BY <1>6, <1>7, <2>1, Tuples
    <3> QED
      BY <1>7, <3>1 DEF Baton, Live, Waiting
  <2>2. CASE m_request'.length # 0
    BY <1>7, <2>2 DEF Baton, Live, Waiting
  <2> QED
    BY <2>1, <2>2
<1>12. Accounted'
  <2>1. Live => m_size = received + m_request.written
    BY <1>7 DEF IInv, Accounted, InFlight
  <2>2. Live => m_size' = received' + m_request'.written
    BY <1>2, <1>3, <1>4, <2>1
  <2>3. Live /\ reader \in {"test", "pop"} =>
          m_trx_size + m_request.written + m_request.length <= max_trx_size
    BY DEF IInv, Accounted
  <2>4. Live /\ reader \in {"test", "pop"} =>
          m_trx_size' + m_request'.written + m_request'.length <= max_trx_size'
    BY <1>2, <1>3, <1>4, <2>3
  <2> QED
    BY <1>7, <2>2, <2>4 DEF Accounted, InFlight, Live, Waiting
<1>13. Exact'
  <2> SUFFICES ASSUME ~interrupted PROVE Exact'
    BY DEF Exact
  <2>1. /\ Waiting /\ m_read_requests = 0 /\ m_read_responses = <<>>
        /\ m_size = received + m_request.written /\ m_size = position
    BY <1>7 DEF IInv, Accounted, InFlight, Live, WriterView
  <2>2. ~Refused'
    <3>1. m_request'.written # -1
      BY <1>5
    <3>2. m_read_responses' = <<>> \/ m_read_responses' = <<m_request'.written>>
      BY <2>1, Tuples
    <3> QED
      BY <2>1, <3>1, <3>2, Tuples DEF Refused, Waiting
  <2>3. reader \in {"row_test", "row_pop"} =>
          /\ m_data > 0 /\ m_request'.written = m_data
          /\ m_request'.length = 0 /\ m_read_responses' # <<>>
    <3>1. reader \in {"row_test", "row_pop"} =>
            /\ m_data > 0 /\ m_request.written = 0 /\ m_data = RowLength
            /\ m_request.length = m_data
      BY <1>3, <2>1 DEF IInv, Exact
    <3>2. reader \in {"row_test", "row_pop"} =>
            m_request'.written = m_data /\ m_request'.length = 0
      <4> HIDE DEF CopyRow
      <4> QED
        BY <1>2, <1>3, <1>4, <3>1
    <3>3. m_request'.length = 0 => m_read_responses' # <<>>
      <4>1. m_request'.length = 0 =>
              m_read_responses' = Append(m_read_responses, m_request'.written)
        OBVIOUS
      <4> HIDE DEF CopyRow
      <4>2. PICK n : n = m_request'.written
        OBVIOUS
      <4>3. m_request'.length = 0 => m_read_responses' = Append(<<>>, n)
        BY <2>1, <4>1, <4>2
      <4>4. Append(<<>>, n) = <<n>> /\ <<n>> # <<>>
        BY Tuples, Zenon
      <4> QED
        BY <4>3, <4>4
    <3> QED
      BY <3>1, <3>2, <3>3
  <2>4. m_size' - offset <= max_trx_size
          \/ \A r \in row_ends : ~(offset < r /\ r < m_size')
    <3>1. received = offset + m_trx_size
      BY DEF IInv, ReaderView
    <3>2. CASE reader \in {"test", "pop"}
      <4>1. m_trx_size + m_request.written + m_request.length <= max_trx_size
        BY <3>2 DEF IInv, Accounted, Live
      <4>2. RowLength <= m_request.length /\ m_size' = m_size + RowLength
        OBVIOUS
      <4> HIDE DEF CopyRow
      <4> QED
        BY <1>2, <1>3, <2>1, <3>1, <4>1, <4>2, SMTT(30)
    <3>3. CASE reader \in {"row_test", "row_pop"}
      <4>1. m_request.written = 0 /\ m_trx_size = 0
        BY <2>1, <3>3 DEF IInv, Exact, ReaderView, Stored
      <4>2. offset = position /\ m_size' = RowEnd
        BY <1>2, <1>3, <2>1, <3>1, <4>1
      <4> QED
        BY <1>2, <4>2
    <3> QED
      BY <2>1, <3>2, <3>3 DEF Waiting
  <2>5. reader = "row_popped" => returned' = m_data' /\ m_data' > 0
    BY DEF IInv, Exact
  <2>6. reader # "popped"
    BY <2>1 DEF Waiting
  <2>7. m_request'.written + m_request'.length = m_request.written + m_request.length
    BY <1>2, <1>3, <1>4
  <2>8. reader \in {"row_test", "row_pop"} =>
          m_request'.written + m_request'.length = m_data
    BY <2>7 DEF IInv, Exact
  <2> QED
    BY <2>2, <2>3, <2>4, <2>5, <2>6, <2>8 DEF Exact
<1>14. Ending'
  BY <1>1, <1>7 DEF IInv, Ending, Live, Waiting
<1> QED
  BY <1>8, <1>9, <1>10, <1>11, <1>12, <1>13, <1>14 DEF IInv

\* All the rows were written.
LEMMA AllWrittenInv == IInv /\ AllWritten => IInv'
<1> SUFFICES ASSUME IInv, AllWritten PROVE IInv'
  OBVIOUS
<1> USE DEF AllWritten, fileVars, sharedVars, readerVars, flags
<1>1. row_ends' = row_ends /\ Size' = Size
  BY DEF Size
<1>2. Types'
  BY <1>1 DEF IInv, Types
<1>3. WriterView'
  BY <1>1 DEF IInv, WriterView, Writing
<1>4. ReaderView'
  BY <1>1 DEF IInv, ReaderView, Stored
<1>5. Baton'
  BY DEF IInv, Baton, Live, Waiting, Answer
<1>6. Accounted'
  BY DEF IInv, Accounted, Live, InFlight, Waiting
<1>7. Exact'
  BY <1>1 DEF IInv, Exact, Refused, Writing
<1>8. Ending'
  BY <1>1 DEF IInv, Ending
<1> QED
  BY <1>2, <1>3, <1>4, <1>5, <1>6, <1>7, <1>8 DEF IInv

\* close() gives back a buffer which has rows.
LEMMA ClosePendingInv == IInv /\ ClosePending => IInv'
<1> SUFFICES ASSUME IInv, ClosePending PROVE IInv'
  OBVIOUS
<1> USE DEF ClosePending, fileVars, readerVars, flags
<1>1. row_ends' = row_ends /\ Size' = Size /\ Answer' = Answer
  BY DEF Size, Answer
<1>2. m_read_requests \in Nat /\ m_request.written \in 0 .. Size /\ Size \in Nat
  BY Facts DEF IInv, Types
<1>3. Live /\ m_read_requests > 0 =>
        /\ Waiting /\ m_read_requests = 1 /\ m_read_responses = <<>>
  BY <1>2 DEF IInv, Baton
<1>4. Types'
  <2>1. m_read_responses' \in Seq({-1} \cup 0 .. Size)
    <3>1. m_read_responses \in Seq({-1} \cup 0 .. Size)
      BY DEF IInv, Types
    <3>2. \/ m_read_responses' = Append(m_read_responses, m_request.written)
          \/ m_read_responses' = m_read_responses
      OBVIOUS
    <3> HIDE DEF ClosePending
    <3> QED
      BY <1>2, <3>1, <3>2
  <2>2. m_read_requests' \in Nat
    BY <1>2
  <2> QED
    BY <1>1, <2>1, <2>2 DEF IInv, Types
<1>5. WriterView'
  BY <1>1 DEF IInv, WriterView, Writing
<1>6. ReaderView'
  BY <1>1 DEF IInv, ReaderView, Stored
<1>7. Live /\ m_read_requests > 0 =>
        /\ m_read_requests' = 0
        /\ IF m_request.written > 0
           THEN m_read_responses' = <<m_request.written>> /\ Answer = m_request.written
           ELSE m_read_responses' = <<>> /\ m_request.written = 0
  BY <1>2, <1>3, Tuples DEF Answer
<1>8. Baton'
  <2>1. CASE m_read_requests > 0
    BY <1>1, <1>3, <1>7, <2>1 DEF Baton, Live, Waiting
  <2>2. CASE ~(m_read_requests > 0)
    BY <1>1, <1>2, <2>2 DEF IInv, Baton, Live, Waiting
  <2> QED
    BY <2>1, <2>2
<1>9. Accounted'
  BY DEF IInv, Accounted, Live, InFlight, Waiting
<1>10. Exact'
  <2> SUFFICES ASSUME ~interrupted PROVE Exact'
    BY DEF Exact
  <2>1. ~Refused /\ ~Writing
    BY DEF IInv, Exact, Writing
  <2>2. ~Refused'
    <3>1. m_request.written > 0 => m_request.written # -1
      BY <1>2
    <3> QED
      BY <1>3, <1>7, <2>1, <3>1, Tuples DEF Refused, Live, Waiting
  <2>3. reader \in {"row_test", "row_pop"} =>
          m_read_responses # <<>> /\ m_read_responses' = m_read_responses
    BY <1>3, <2>1 DEF IInv, Exact, Live
  <2> QED
    BY <1>1, <2>2, <2>3 DEF IInv, Exact
<1>11. Ending'
  BY <1>1 DEF IInv, Ending
<1> QED
  BY <1>4, <1>5, <1>6, <1>8, <1>9, <1>10, <1>11 DEF IInv

\* close() signals the end of the file.
LEMMA CloseEofInv == IInv /\ CloseEof => IInv'
<1> SUFFICES ASSUME IInv, CloseEof PROVE IInv'
  OBVIOUS
<1> USE DEF CloseEof, fileVars, readerVars, flags
<1>1. row_ends' = row_ends /\ Size' = Size /\ Answer' = Answer
  BY DEF Size, Answer
<1>2. Live => \/ ~Waiting /\ m_read_requests = 0 /\ m_read_responses = <<>>
              \/ Waiting /\ m_request.written = 0 /\ m_read_responses = <<>>
              \/ Waiting /\ m_read_requests = 0 /\ m_read_responses = <<Answer>>
  BY DEF IInv, Baton
<1>3. Types'
  <2>1. m_read_responses' \in Seq({-1} \cup 0 .. Size)
    <3>1. 0 \in {-1} \cup 0 .. Size
      BY Facts
    <3> QED
      BY <3>1 DEF IInv, Types
  <2> QED
    BY <1>1, <2>1 DEF IInv, Types
<1>4. WriterView'
  BY <1>1 DEF IInv, WriterView, Writing
<1>5. ReaderView'
  BY <1>1 DEF IInv, ReaderView, Stored
<1>6. Live => /\ m_read_responses = <<>> => m_read_responses' = <<0>>
              /\ m_read_responses = <<Answer>> => m_read_responses' = <<Answer, 0>>
  <2>1. m_read_responses' = Append(m_read_responses, 0)
    OBVIOUS
  <2>2. Append(<<>>, 0) = <<0>> /\ Append(<<Answer>>, 0) = <<Answer, 0>>
    BY Tuples, Zenon
  <2> HIDE DEF CloseEof
  <2> QED
    BY <2>1, <2>2
<1>7. Baton'
  <2>1. m_read_responses = <<Answer>> => interrupted \/ Answer # -1
    BY DEF IInv, Exact, Refused
  <2> QED
    BY <1>1, <1>2, <1>6, <2>1 DEF IInv, Baton, Live, Waiting
<1>8. Accounted'
  BY DEF IInv, Accounted, Live, InFlight, Waiting
<1>9. Exact'
  <2> SUFFICES ASSUME ~interrupted PROVE Exact'
    BY DEF Exact
  <2>1. ~Refused /\ ~Writing
    BY DEF IInv, Exact, Writing
  <2>2. ~Refused'
    <3>1. \/ m_read_responses' = <<0>> \/ m_read_responses' = <<Answer, 0>>
      BY <1>2, <1>6 DEF Live
    <3>2. m_read_responses' # <<-1>>
      BY <3>1, Tuples
    <3> QED
      BY <2>1, <3>2 DEF Refused
  <2>3. reader \in {"row_test", "row_pop"} =>
          m_read_responses # <<>> /\ m_read_responses' # <<>>
    BY <1>2, <1>6, <2>1, Tuples DEF IInv, Exact, Live
  <2> QED
    BY <1>1, <2>2, <2>3 DEF IInv, Exact
<1>10. Ending'
  BY <1>1 DEF IInv, Ending
<1> QED
  BY <1>3, <1>4, <1>5, <1>7, <1>8, <1>9, <1>10 DEF IInv

\* ^C: the two ends of the file are not related any more, but a read that is
\* waiting for its response still gets it.
LEMMA InterruptInv == IInv /\ (Interrupt \/ HardInterrupt) => IInv'
<1> SUFFICES ASSUME IInv, Interrupt \/ HardInterrupt PROVE IInv'
  OBVIOUS
<1> USE DEF Interrupt, HardInterrupt, fileVars, sharedVars, writerVars, readerVars
<1>1. row_ends' = row_ends /\ Size' = Size /\ interrupted' = TRUE
  BY DEF Size, IInv, Types
<1>2. Types'
  BY <1>1 DEF IInv, Types
<1>3. WriterView'
  BY <1>1 DEF IInv, WriterView, Writing
<1>4. ReaderView'
  BY <1>1 DEF IInv, ReaderView, Stored
<1>5. Baton'
  BY <1>1 DEF IInv, Baton, Live, Waiting, Answer
<1>6. Accounted'
  BY <1>1 DEF IInv, Accounted, Live, InFlight, Waiting
<1>7. Exact' /\ Ending'
  BY <1>1 DEF Exact, Ending
<1> QED
  BY <1>2, <1>3, <1>4, <1>5, <1>6, <1>7 DEF IInv
-----------------------------------------------------------------------------
(***************************************************************************)
(* Every step of the reader preserves the invariant.                       *)
(***************************************************************************)

\* What was read before is given to the client.
LEMMA ReadStoredInv == IInv /\ ReadStored => IInv'
<1> SUFFICES ASSUME IInv, ReadStored PROVE IInv'
  OBVIOUS
<1> USE DEF ReadStored, fileVars, sharedVars, writerVars, flags
<1>1. /\ row_ends' = row_ends /\ position' = position
      /\ Size' = Size /\ RowEnd' = RowEnd /\ RowLength' = RowLength
  BY DEF Size, RowEnd, RowLength
<1>2. /\ Size \in Nat /\ m_data \in Nat /\ m_trx_size \in Nat /\ received \in Nat
      /\ offset \in Nat /\ m_size \in Nat /\ m_trx_size + m_data <= Size
      /\ received = offset + m_trx_size
  BY Facts DEF IInv, Types, ReaderView
<1>3. PICK k : /\ k = IF length < m_data THEN length ELSE m_data
               /\ m_data' = m_data - k /\ m_trx_size' = m_trx_size + k
               /\ received' = received + k /\ returned' = k /\ reader' = "check"
  BY DEF Consume
<1>4. k \in 1 .. m_data
  BY <1>2, <1>3, Facts
<1>5. Types'
  BY <1>1, <1>2, <1>3, <1>4 DEF IInv, Types
<1>6. WriterView'
  BY <1>1 DEF IInv, WriterView, Writing
<1>7. ReaderView'
  BY <1>1, <1>2, <1>3, <1>4 DEF ReaderView, Stored
<1>8. Baton'
  BY <1>3 DEF IInv, Baton, Live, Waiting
<1>9. Accounted'
  BY <1>2, <1>3, <1>4 DEF IInv, Accounted, Live, InFlight, Waiting
<1>10. Exact'
  BY <1>1, <1>3 DEF IInv, Exact, Refused, Writing
<1>11. Ending'
  BY <1>1, <1>3, <1>4 DEF IInv, Ending
<1> QED
  BY <1>5, <1>6, <1>7, <1>8, <1>9, <1>10, <1>11 DEF IInv

\* The transaction is full: nothing is read.
LEMMA TransactionFullInv == IInv /\ TransactionFull => IInv'
<1> SUFFICES ASSUME IInv, TransactionFull PROVE IInv'
  OBVIOUS
<1> USE DEF TransactionFull, fileVars, sharedVars, writerVars, flags
<1>1. /\ row_ends' = row_ends /\ position' = position
      /\ Size' = Size /\ RowEnd' = RowEnd /\ RowLength' = RowLength
  BY DEF Size, RowEnd, RowLength
<1>2. /\ Size \in Nat /\ m_trx_size \in Nat /\ max_trx_size \in Nat \ {0}
  BY Facts DEF IInv, Types
<1>3. m_trx_size > 0
  BY <1>2 DEF trx_bytes_left
<1>4. Types'
  BY <1>1, <1>2 DEF IInv, Types
<1>5. WriterView'
  BY <1>1 DEF IInv, WriterView, Writing
<1>6. ReaderView'
  BY <1>1 DEF IInv, ReaderView, Stored
<1>7. Baton'
  BY DEF IInv, Baton, Live, Waiting
<1>8. Accounted'
  BY DEF IInv, Accounted, Live, InFlight, Waiting
<1>9. Exact'
  BY <1>1 DEF IInv, Exact, Refused, Writing
<1>10. Ending'
  BY <1>1, <1>3 DEF IInv, Ending
<1> QED
  BY <1>4, <1>5, <1>6, <1>7, <1>8, <1>9, <1>10 DEF IInv

\* read() pushes a request for as much as fits into the transaction.
LEMMA ReadInv == IInv /\ Read => IInv'
<1> SUFFICES ASSUME IInv, Read PROVE IInv'
  OBVIOUS
<1> USE DEF Read, fileVars, writerVars, flags
<1>1. /\ row_ends' = row_ends /\ position' = position
      /\ Size' = Size /\ RowEnd' = RowEnd /\ RowLength' = RowLength
  BY DEF Size, RowEnd, RowLength
<1>2. /\ Size \in Nat /\ m_trx_size \in Nat /\ max_trx_size \in Nat \ {0}
      /\ length \in Nat \ {0} /\ m_read_requests \in Nat /\ received \in Nat
      /\ m_size \in Nat
  BY Facts DEF IInv, Types
<1>3. PICK n : /\ n = IF length < trx_bytes_left THEN length ELSE trx_bytes_left
               /\ m_request' = [length |-> n, written |-> 0]
               /\ m_read_requests' = m_read_requests + 1
               /\ m_read_responses' = m_read_responses
               /\ m_pending_write' = m_pending_write
  BY DEF Request
<1>4. n \in Nat /\ m_trx_size + n <= max_trx_size
  BY <1>2, <1>3 DEF trx_bytes_left
<1>5. m_request'.length = n /\ m_request'.written = 0
  BY <1>3
<1>6. Types'
  <2>1. m_request' \in [length : Nat, written : 0 .. Size]
    BY <1>2, <1>3, <1>4
  <2> QED
    BY <1>1, <1>2, <1>3, <2>1 DEF IInv, Types
<1>7. WriterView'
  BY <1>1, <1>2, <1>3, <1>5 DEF IInv, WriterView, Writing
<1>8. ReaderView'
  BY <1>1 DEF IInv, ReaderView, Stored
<1>9. Live' => ~interrupted /\ ~m_eof
  BY DEF IInv, Ending, Live
<1>10. Baton'
  <2>1. SUFFICES ASSUME ~interrupted, ~m_eof PROVE Baton'
    BY <1>9 DEF Baton
  <2>2. /\ ~Waiting /\ Waiting' /\ m_read_requests = 0
        /\ writer \notin {"eof", "closed"} =>
             m_read_responses = <<>> /\ writer # "copy"
        /\ writer = "eof" => m_read_responses = <<>>
        /\ writer = "closed" => m_read_responses = <<0>>
    BY <2>1 DEF IInv, Baton, Live, Waiting
  <2>3. m_read_requests' = 1
    BY <1>3, <2>2
  <2> QED
    BY <1>3, <1>5, <2>2, <2>3 DEF Baton
<1>11. Accounted'
  <2>1. SUFFICES ASSUME ~interrupted PROVE Accounted'
    BY <1>9 DEF Accounted
  <2>2. m_size = received
    BY <1>2, <2>1 DEF IInv, Accounted, Live, InFlight, Waiting
  <2>3. m_size' = received' + m_request'.written
    BY <1>2, <1>5, <2>2
  <2>4. m_trx_size' + m_request'.written + m_request'.length <= max_trx_size'
    BY <1>2, <1>4, <1>5
  <2> QED
    BY <2>3, <2>4 DEF Accounted, InFlight, Waiting
<1>12. Exact'
  BY <1>1, <1>3 DEF IInv, Exact, Refused, Writing
<1>13. Ending'
  BY <1>1 DEF IInv, Ending
<1> QED
  BY <1>6, <1>7, <1>8, <1>10, <1>11, <1>12, <1>13 DEF IInv

\* read() goes on waiting, or gives up because of ^C.
LEMMA TestReadInv == IInv /\ TestRead => IInv'
<1> SUFFICES ASSUME IInv, TestRead PROVE IInv'
  OBVIOUS
<1> USE DEF TestRead, fileVars, sharedVars, writerVars, flags
<1>1. /\ row_ends' = row_ends /\ position' = position
      /\ Size' = Size /\ RowEnd' = RowEnd /\ RowLength' = RowLength
  BY DEF Size, RowEnd, RowLength
<1>2. /\ Size \in Nat /\ m_trx_size \in 0 .. Size
  BY Facts DEF IInv, Types
<1>3. /\ reader' \in {"pop", "row_pop"} => ~interrupted /\ returned' = returned
      /\ reader = "test" => reader' \in {"pop", "popped"}
      /\ reader = "row_test" => reader' \in {"row_pop", "row_popped"}
      /\ reader' \in {"popped", "row_popped"} => interrupted /\ returned' = 0
  OBVIOUS
<1>4. Types'
  BY <1>1, <1>2 DEF IInv, Types
<1>5. WriterView'
  BY <1>1 DEF IInv, WriterView, Writing
<1>6. ReaderView'
  BY <1>1, <1>2, <1>3 DEF IInv, ReaderView, Stored
<1>7. Live' => /\ Waiting /\ Waiting' /\ ~interrupted
               /\ reader' \in {"pop", "row_pop"}
  BY <1>3 DEF Live, Waiting
<1>8. Baton'
  BY <1>7 DEF IInv, Baton, Live, Waiting, Answer
<1>9. Accounted'
  BY <1>7, <1>3 DEF IInv, Accounted, Live, InFlight
<1>10. Exact'
  BY <1>1, <1>3 DEF IInv, Exact, Refused, Writing
<1>11. Ending'
  BY <1>1, <1>3 DEF IInv, Ending
<1> QED
  BY <1>4, <1>5, <1>6, <1>8, <1>9, <1>10, <1>11 DEF IInv

\* There is no response in time.
LEMMA PopNothingInv == IInv /\ PopNothing => IInv'
<1> SUFFICES ASSUME IInv, PopNothing PROVE IInv'
  OBVIOUS
<1> USE DEF PopNothing, fileVars, sharedVars, writerVars, flags
<1>1. /\ row_ends' = row_ends /\ position' = position
      /\ Size' = Size /\ RowEnd' = RowEnd /\ RowLength' = RowLength
  BY DEF Size, RowEnd, RowLength
<1>2. /\ reader = "pop" => reader' = "test"
      /\ reader = "row_pop" => reader' = "row_test"
  OBVIOUS
<1>3. Types'
  BY <1>1 DEF IInv, Types
<1>4. WriterView'
  BY <1>1 DEF IInv, WriterView, Writing
<1>5. ReaderView'
  BY <1>1, <1>2 DEF IInv, ReaderView, Stored
<1>6. Baton'
  BY <1>2 DEF IInv, Baton, Live, Waiting, Answer
<1>7. Accounted'
  BY <1>2 DEF IInv, Accounted, Live, InFlight, Waiting
<1>8. Exact'
  BY <1>1, <1>2 DEF IInv, Exact, Refused, Writing
<1>9. Ending'
  BY <1>1, <1>2 DEF IInv, Ending
<1> QED
  BY <1>3, <1>4, <1>5, <1>6, <1>7, <1>8, <1>9 DEF IInv

\* The client library is told, unless the loader was interrupted.
LEMMA CheckInterruptInv == IInv /\ CheckInterrupt => IInv'
<1> SUFFICES ASSUME IInv, CheckInterrupt PROVE IInv'
  OBVIOUS
<1> USE DEF CheckInterrupt, fileVars, sharedVars, writerVars, flags
<1>1. /\ row_ends' = row_ends /\ position' = position
      /\ Size' = Size /\ RowEnd' = RowEnd /\ RowLength' = RowLength
  BY DEF Size, RowEnd, RowLength
<1>2. /\ ~interrupted => reader' # "failed"
      /\ reader' \in {"ask", "flush", "failed"}
      /\ reader' = "flush" => returned = 0
      /\ reader' = "ask" => returned # 0
  BY DEF IInv, Types
<1>3. Types'
  BY <1>1, <1>2 DEF IInv, Types
<1>4. WriterView'
  BY <1>1 DEF IInv, WriterView, Writing
<1>5. ReaderView'
  BY <1>1, <1>2 DEF IInv, ReaderView, Stored
<1>6. Baton'
  BY <1>2 DEF IInv, Baton, Live, Waiting
<1>7. Accounted'
  BY <1>2 DEF IInv, Accounted, Live, InFlight, Waiting
<1>8. Exact'
  BY <1>1, <1>2 DEF IInv, Exact, Refused, Writing
<1>9. Ending'
  BY <1>1, <1>2 DEF IInv, Ending
<1> QED
  BY <1>3, <1>4, <1>5, <1>6, <1>7, <1>8, <1>9 DEF IInv

\* Between transactions nothing is stored, unless the copy was interrupted.
LEMMA FlushDoneInv == IInv /\ FlushDone => IInv'
<1> SUFFICES ASSUME IInv, FlushDone PROVE IInv'
  OBVIOUS
<1> USE DEF FlushDone, fileVars, sharedVars, writerVars, flags
<1>1. /\ row_ends' = row_ends /\ position' = position
      /\ Size' = Size /\ RowEnd' = RowEnd /\ RowLength' = RowLength
  BY DEF Size, RowEnd, RowLength
<1>2. /\ Size \in Nat /\ m_data \in 0 .. Size /\ received \in Nat /\ m_size \in Nat
      /\ max_trx_size \in Nat
  BY Facts DEF IInv, Types
<1>3. reader' \in {"ask", "done"} /\ (reader' = "done" => m_eof /\ ~(m_data > 0))
  OBVIOUS
<1>4. Types'
  BY <1>1, <1>2 DEF IInv, Types
<1>5. WriterView'
  BY <1>1 DEF IInv, WriterView, Writing
<1>6. ReaderView'
  BY <1>1, <1>2, <1>3 DEF ReaderView, Stored
<1>7. Baton'
  BY <1>3 DEF IInv, Baton, Live, Waiting
<1>8. Accounted'
  BY <1>3 DEF IInv, Accounted, Live, InFlight, Waiting
<1>9. Exact'
  <2> SUFFICES ASSUME ~interrupted PROVE Exact'
    BY DEF Exact
  <2>1. m_data = 0 /\ m_size = received
    BY <1>2 DEF IInv, Ending, Accounted, Live, InFlight, Waiting
  <2>2. m_size' - offset' <= max_trx_size'
    BY <1>2, <2>1
  <2> QED
    BY <1>1, <1>3, <2>2 DEF IInv, Exact, Refused, Writing
<1>10. Ending'
  BY <1>1, <1>2, <1>3 DEF IInv, Ending
<1> QED
  BY <1>4, <1>5, <1>6, <1>7, <1>8, <1>9, <1>10 DEF IInv

\* The first response is taken: it is the end of the file, or it tells of the
\* rows in the buffer, if there are any.
LEMMA PopResponseInv == IInv /\ PopResponse => IInv'
<1> SUFFICES ASSUME IInv, PopResponse PROVE IInv'
  OBVIOUS
<1> USE DEF PopResponse, fileVars, writerVars, flags
<1>1. /\ row_ends' = row_ends /\ position' = position
      /\ Size' = Size /\ RowEnd' = RowEnd /\ RowLength' = RowLength
  BY DEF Size, RowEnd, RowLength
<1>2. /\ Size \in Nat /\ m_trx_size \in 0 .. Size /\ m_size \in 0 .. Size
      /\ m_request.written \in 0 .. Size /\ received \in Nat /\ offset \in Nat
      /\ received = offset + m_trx_size /\ m_data \in Nat
  BY Facts DEF IInv, Types, ReaderView
<1>3. /\ reader = "pop" => reader' = "popped"
      /\ reader = "row_pop" => reader' = "row_popped"
      /\ Waiting /\ ~Waiting'
  BY DEF Waiting
<1>4. /\ Answer = IF m_request.written = 0 THEN -1 ELSE m_request.written
      /\ Answer # 0
  BY <1>2 DEF Answer
<1>5. Types'
  <2>1. m_read_responses \in Seq({-1} \cup 0 .. Size) /\ m_read_responses # <<>>
    BY DEF IInv, Types
  <2>2. /\ Head(m_read_responses) \in {-1} \cup 0 .. Size
        /\ Tail(m_read_responses) \in Seq({-1} \cup 0 .. Size)
    <3> HIDE DEF PopResponse
    <3> QED
      BY <2>1
  <2> QED
    BY <1>1, <2>2 DEF IInv, Types
<1>6. WriterView'
  BY <1>1 DEF IInv, WriterView, Writing
\* The three things that can be in the queue.
<1>7. Live => \/ /\ writer # "closed" /\ m_read_requests = 0
                 /\ m_read_responses = <<Answer>>
              \/ /\ writer = "closed" /\ m_read_requests <= 1
                 /\ m_read_responses = <<0>> /\ m_request.written = 0
              \/ /\ writer = "closed" /\ m_read_requests = 0
                 /\ m_read_responses = <<Answer, 0>>
                 /\ interrupted \/ Answer # -1
  BY <1>3 DEF IInv, Baton
<1>8. Live => \/ /\ writer # "closed" /\ m_read_requests' = 0
                 /\ m_read_responses' = <<>> /\ returned' = Answer
              \/ /\ writer = "closed" /\ m_read_requests' <= 1
                 /\ m_read_responses' = <<>> /\ returned' = 0
                 /\ m_request.written = 0
              \/ /\ writer = "closed" /\ m_read_requests' = 0
                 /\ m_read_responses' = <<0>> /\ returned' = Answer
                 /\ interrupted \/ Answer # -1
  <2>1. /\ \A a : Head(<<a>>) = a /\ Tail(<<a>>) = <<>>
        /\ \A a, b : Head(<<a, b>>) = a /\ Tail(<<a, b>>) = <<b>>
    BY Tuples, Zenon
  <2>2. /\ m_read_responses' = Tail(m_read_responses)
        /\ returned' = Head(m_read_responses)
        /\ m_read_requests' = m_read_requests
    OBVIOUS
  <2> HIDE DEF PopResponse
  <2> QED
    BY <1>7, <2>1, <2>2
<1>9. Live => IF m_request.written = 0 THEN returned' \in {-1, 0}
                                       ELSE returned' = m_request.written
  BY <1>4, <1>8
<1>10. Live => m_size = received + m_request.written
  BY <1>3 DEF IInv, Accounted, InFlight
<1>11. ReaderView'
  <2>1. reader = "pop" => m_trx_size' + returned' <= Size'
    <3>1. reader = "pop" => returned' \in Int /\ returned' <= m_request.written
      BY <1>2, <1>9 DEF Live
    <3>2. reader = "pop" => m_trx_size + m_request.written <= Size
      <4>1. reader = "pop" => m_size = received + m_request.written
        BY <1>10 DEF Live
      <4> HIDE DEF PopResponse
      <4> QED
        BY <1>2, <4>1
    <3>3. m_trx_size' = m_trx_size
      OBVIOUS
    <3> HIDE DEF PopResponse
    <3> QED
      BY <1>1, <1>2, <3>1, <3>2, <3>3
  <2> QED
    BY <1>1, <1>3, <2>1 DEF IInv, ReaderView, Stored
<1>12. Live' => ~interrupted /\ Live
  BY <1>3 DEF Live
<1>13. reader = "row_pop" /\ ~interrupted =>
         m_data > 0 /\ m_request.written = m_data /\ returned' = m_data
  <2>1. reader = "row_pop" /\ ~interrupted =>
          m_data > 0 /\ m_request.written = m_data
    BY DEF IInv, Exact
  <2> QED
    BY <1>2, <1>9, <2>1 DEF Live
<1>14. Baton'
  <2>1. SUFFICES ASSUME ~interrupted PROVE Baton'
    BY <1>12 DEF Baton
  <2>2. m_read_requests' <= 1 /\ (writer # "closed" => m_read_requests' = 0)
    BY <1>8, <2>1 DEF Live
  <2>3. writer # "closed" => m_read_responses' = <<>>
    BY <1>8, <2>1 DEF Live
  <2>4. writer = "closed" =>
          \/ m_read_requests' = 0 /\ m_read_responses' = <<0>>
          \/ m_read_responses' = <<>> /\ reader' = "popped" /\ returned' = 0
    BY <1>2, <1>3, <1>8, <1>13, <2>1 DEF Live
  <2>5. writer # "copy"
    BY <1>3, <2>1, Tuples DEF IInv, Baton, Live
  <2> QED
    BY <1>3, <2>2, <2>3, <2>4, <2>5 DEF Baton
<1>15. Accounted'
  <2>1. SUFFICES ASSUME ~interrupted PROVE Accounted'
    BY <1>12 DEF Accounted
  <2>2. reader = "pop" => InFlight' = m_request.written
    BY <1>2, <1>3, <1>9, <2>1 DEF InFlight, Live
  <2>3. reader = "row_pop" => InFlight' = m_request.written
    BY <1>3, <1>13, <2>1 DEF InFlight
  <2> QED
    BY <1>3, <1>10, <2>1, <2>2, <2>3 DEF Accounted, Live
<1>16. Exact'
  <2> SUFFICES ASSUME ~interrupted PROVE Exact'
    BY DEF Exact
  <2>1. Refused' => Refused
    <3>1. m_read_responses' # <<-1>>
      <4>1. m_read_responses' = <<>> \/ m_read_responses' = <<0>>
        BY <1>8 DEF Live
      <4> QED
        BY <4>1, Tuples
    <3>2. returned' = -1 => m_read_responses = <<-1>>
      BY <1>4, <1>7, <1>8, Tuples DEF Live
    <3> QED
      BY <3>1, <3>2 DEF Refused
  <2> QED
    BY <1>1, <1>3, <1>13, <2>1 DEF IInv, Exact
<1>17. Ending'
  <2>1. returned' = 0 /\ ~interrupted => writer = "closed"
    BY <1>4, <1>8 DEF Live
  <2> QED
    BY <1>1, <1>3, <2>1 DEF IInv, Ending
<1> QED
  BY <1>5, <1>6, <1>11, <1>14, <1>15, <1>16, <1>17 DEF IInv

\* The rows in the buffer are given to the client.
LEMMA ReceivedInv ==
  ASSUME IInv, reader = "popped", returned >= 0, Received(returned),
         UNCHANGED <<fileVars, writerVars, offset, flags>>
  PROVE  IInv'
<1> USE DEF Received, fileVars, writerVars, sharedVars, flags
<1>1. /\ row_ends' = row_ends /\ position' = position
      /\ Size' = Size /\ RowEnd' = RowEnd /\ RowLength' = RowLength
  BY DEF Size, RowEnd, RowLength
<1>2. /\ Size \in Nat /\ m_trx_size \in 0 .. Size /\ m_size \in 0 .. Size
      /\ received \in Nat /\ offset \in Nat /\ m_data = 0
      /\ received = offset + m_trx_size /\ returned \in 0 .. Size
      /\ m_trx_size + returned <= Size
  BY Facts DEF IInv, Types, ReaderView
<1>3. reader' = "check" /\ ~Waiting /\ ~Waiting'
  BY DEF Waiting
<1>4. Types'
  BY <1>1, <1>2 DEF IInv, Types
<1>5. WriterView'
  BY <1>1 DEF IInv, WriterView, Writing
<1>6. ReaderView'
  BY <1>1, <1>2 DEF ReaderView, Stored
<1>7. Baton'
  BY <1>3 DEF IInv, Baton, Live
<1>8. ~interrupted => m_size = received + returned
  BY <1>2, <1>3 DEF IInv, Accounted, InFlight, Live
<1>9. Accounted'
  BY <1>2, <1>3, <1>8 DEF Accounted, InFlight, Live
<1>10. Exact'
  BY <1>1 DEF IInv, Exact, Refused, Writing
<1>11. Ending'
  <2> SUFFICES ASSUME ~interrupted PROVE Ending'
    BY DEF Ending
  <2>1. ~m_eof /\ (returned = 0 => writer = "closed")
    BY DEF IInv, Ending
  <2>2. returned = 0 => received = Size
    BY <1>2, <1>8, <2>1 DEF IInv, WriterView
  <2>3. m_eof' => received' = Size' /\ returned' = 0
    <3>1. m_eof' => returned = 0
      BY <2>1
    <3>2. returned' = returned /\ received' = received + returned
      OBVIOUS
    <3>3. returned = 0 => received' = Size' /\ returned' = 0
      BY <1>1, <1>2, <2>2, <3>2
    <3> QED
      BY <3>1, <3>3
  <2> QED
    BY <1>2, <2>3 DEF Ending
<1> QED
  BY <1>4, <1>5, <1>6, <1>7, <1>9, <1>10, <1>11 DEF IInv

\* The next row is too long: it ends the transaction, or is asked for.
LEMMA RowTooLongInv ==
  ASSUME IInv, reader = "popped", returned < 0, RowTooLong,
         UNCHANGED <<fileVars, writerVars, offset, flags>>
  PROVE  IInv'
<1> USE DEF RowTooLong, fileVars, writerVars, sharedVars, flags
<1>1. /\ row_ends' = row_ends /\ position' = position
      /\ Size' = Size /\ RowEnd' = RowEnd /\ RowLength' = RowLength
  BY DEF Size, RowEnd, RowLength
<1>2. /\ Size \in Nat /\ m_trx_size \in 0 .. Size /\ m_size \in 0 .. Size
      /\ received \in Nat /\ offset \in Nat /\ m_data = 0
      /\ received = offset + m_trx_size /\ returned = -1
      /\ m_pending_write \in 0 .. Size /\ m_read_requests \in Nat
  BY Facts DEF IInv, Types, ReaderView
<1>3. ~interrupted => /\ writer \in {"test", "pop"} /\ ~m_eof
                      /\ m_read_requests = 0 /\ m_read_responses = <<>>
                      /\ m_size = received
  BY <1>2 DEF IInv, Exact, Refused, Ending, Baton, Accounted, InFlight, Live, Waiting
<1>4. WriterView'
  <2>1. m_request'.written <= m_size'
    BY <1>2 DEF IInv, WriterView
  <2> QED
    BY <1>1, <1>3, <2>1 DEF IInv, WriterView, Writing
<1>5. CASE m_trx_size > 0
  <2>1. reader' = "check" /\ returned' = 0 /\ UNCHANGED <<sharedVars, m_data>>
    BY <1>5
  <2>2. Types'
    BY <1>1, <1>2, <2>1 DEF IInv, Types
  <2>3. ReaderView'
    BY <1>1, <2>1 DEF IInv, ReaderView, Stored
  <2>4. Baton'
    BY <1>3, <2>1 DEF Baton, Live, Waiting
  <2>5. Accounted'
    BY <1>2, <1>3, <2>1 DEF Accounted, InFlight, Live, Waiting
  <2>6. Exact'
    BY <1>1, <2>1 DEF IInv, Exact, Refused, Writing
  <2>7. Ending'
    BY <1>2, <1>3, <1>5, <2>1 DEF Ending
  <2> QED
    BY <1>4, <2>2, <2>3, <2>4, <2>5, <2>6, <2>7 DEF IInv
<1>6. CASE ~(m_trx_size > 0)
  <2>1. /\ reader' = "row_test" /\ m_data' = m_pending_write
        /\ m_request' = [length |-> m_pending_write, written |-> 0]
        /\ m_read_requests' = m_read_requests + 1
        /\ UNCHANGED <<m_read_responses, m_pending_write, returned>>
    BY <1>6
  <2>2. m_trx_size = 0 /\ m_trx_size' = 0
    BY <1>2, <1>6
  <2>3. m_request'.length = m_pending_write /\ m_request'.written = 0
    BY <2>1
  <2>4. Types'
    <3>1. m_request' \in [length : Nat, written : 0 .. Size]
      BY <1>2, <2>1
    <3> QED
      BY <1>1, <1>2, <2>1, <3>1 DEF IInv, Types
  <2>5. ReaderView'
    BY <1>1, <1>2, <2>1, <2>2 DEF ReaderView, Stored
  <2>6. Baton'
    BY <1>3, <2>1 DEF Baton, Live, Waiting
  <2>7. Accounted'
    BY <1>2, <1>3, <2>1, <2>3 DEF Accounted, InFlight, Live, Waiting
  <2>8. Exact'
    <3> SUFFICES ASSUME ~interrupted PROVE Exact'
      BY DEF Exact
    <3>1. Writing /\ Writing' /\ m_pending_write = RowLength
      BY <1>3 DEF IInv, WriterView, Writing
    <3>2. RowLength \in 1 .. Size
      BY <3>1, RowFacts
    <3>3. ~Refused'
      BY <1>3, <2>1, Tuples DEF Refused
    <3>4. m_data' > 0 /\ m_request'.written + m_request'.length = m_data'
      BY <2>1, <2>3, <3>1, <3>2, <1>2
    <3> QED
      BY <1>1, <1>3, <2>1, <2>3, <3>1, <3>3, <3>4 DEF IInv, Exact
  <2>9. Ending'
    BY <1>3, <2>1 DEF Ending
  <2> QED
    BY <1>4, <2>4, <2>5, <2>6, <2>7, <2>8, <2>9 DEF IInv
<1> QED
  BY <1>5, <1>6

\* The row was read into the buffer that was provided for it.
LEMMA RowReceivedInv ==
  ASSUME IInv, reader = "row_popped", RowReceived(returned),
         UNCHANGED <<fileVars, writerVars, offset, flags>>
  PROVE  IInv'
<1> USE DEF RowReceived, fileVars, writerVars, sharedVars, flags
<1>1. /\ row_ends' = row_ends /\ position' = position
      /\ Size' = Size /\ RowEnd' = RowEnd /\ RowLength' = RowLength
  BY DEF Size, RowEnd, RowLength
<1>2. /\ Size \in Nat /\ m_trx_size = 0 /\ m_size \in 0 .. Size
      /\ received \in Nat /\ offset \in Nat /\ m_data \in 0 .. Size
      /\ received = offset + m_trx_size /\ length \in Nat \ {0}
  BY Facts DEF IInv, Types, ReaderView, Stored
<1>3. PICK k \in 0 .. m_data :
        /\ m_data' = m_data - k /\ m_trx_size' = m_trx_size + k
        /\ received' = received + k /\ returned' = k /\ reader' = "check"
        /\ ~interrupted => k > 0
  <2>1. CASE returned > 0
    <3> DEFINE k == IF length < m_data THEN length ELSE m_data
    <3>1. /\ m_data' = m_data - k /\ m_trx_size' = m_trx_size + k
          /\ received' = received + k /\ returned' = k /\ reader' = "check"
      BY <2>1 DEF Consume
    <3>2. k \in 0 .. m_data /\ (m_data > 0 => k > 0)
      BY <1>2
    <3>3. ~interrupted => m_data > 0
      BY DEF IInv, Exact
    <3> HIDE DEF k
    <3> QED
      BY <3>1, <3>2, <3>3
  <2>2. CASE ~(returned > 0)
    <3>1. interrupted
      BY <2>2 DEF IInv, Exact
    <3>2. /\ returned' = 0 /\ reader' = "check"
          /\ UNCHANGED <<m_data, m_trx_size, received>>
      BY <2>2
    <3>3. /\ m_data' = m_data - 0 /\ m_trx_size' = m_trx_size + 0
          /\ received' = received + 0
      BY <1>2, <3>2
    <3> QED
      BY <1>2, <3>1, <3>2, <3>3
  <2> QED
    BY <2>1, <2>2
<1>4. ~Waiting /\ ~Waiting'
  BY <1>3 DEF Waiting
<1>5. Types'
  BY <1>1, <1>2, <1>3 DEF IInv, Types
<1>6. WriterView'
  BY <1>1 DEF IInv, WriterView, Writing
<1>7. ReaderView'
  BY <1>1, <1>2, <1>3 DEF ReaderView, Stored
<1>8. Baton'
  BY <1>3, <1>4 DEF IInv, Baton, Live
<1>9. Accounted'
  BY <1>2, <1>3, <1>4 DEF IInv, Accounted, InFlight, Live
<1>10. Exact'
  BY <1>1, <1>3 DEF IInv, Exact, Refused, Writing
<1>11. Ending'
  BY <1>2, <1>3 DEF IInv, Ending
<1> QED
  BY <1>5, <1>6, <1>7, <1>8, <1>9, <1>10, <1>11 DEF IInv

\* The three things fast_sub_chunking() does with a response.
LEMMA HandleResponseInv == IInv /\ HandleResponse => IInv'
<1> SUFFICES ASSUME IInv, HandleResponse PROVE IInv'
  OBVIOUS
<1>1. UNCHANGED <<fileVars, writerVars, offset, flags>>
  BY DEF HandleResponse
<1>2. CASE reader = "popped" /\ returned >= 0 /\ Received(returned)
  BY <1>1, <1>2, ReceivedInv
<1>3. CASE reader = "popped" /\ returned < 0 /\ RowTooLong
  BY <1>1, <1>3, RowTooLongInv
<1>4. CASE reader = "row_popped" /\ RowReceived(returned)
  BY <1>1, <1>4, RowReceivedInv
<1> QED
  BY <1>2, <1>3, <1>4 DEF HandleResponse

\* The invariant is about the variables only.
LEMMA StutterInv == IInv /\ UNCHANGED vars => IInv'
<1> SUFFICES ASSUME IInv, UNCHANGED vars PROVE IInv'
  OBVIOUS
<1> USE DEF vars, fileVars, sharedVars, writerVars, readerVars, flags
<1>1. /\ Size' = Size /\ RowEnd' = RowEnd /\ RowLength' = RowLength
  BY DEF Size, RowEnd, RowLength
<1>2. Types' /\ WriterView' /\ ReaderView'
  BY <1>1 DEF IInv, Types, WriterView, ReaderView, Writing, Stored
<1>3. Baton' /\ Accounted'
  BY DEF IInv, Baton, Accounted, Live, InFlight, Waiting, Answer
<1>4. Exact' /\ Ending'
  BY <1>1 DEF IInv, Exact, Ending, Refused, Writing
<1> QED
  BY <1>2, <1>3, <1>4 DEF IInv

\* Every step preserves the invariant.
LEMMA NextInv == IInv /\ [Next]_vars => IInv'
<1> SUFFICES ASSUME IInv, [Next]_vars PROVE IInv'
  OBVIOUS
<1>1. CASE Writer
  BY <1>1, StartWriteInv, TestWriteInv, PopRequestInv, BufferTooSmallInv,
     CopyRowInv, AllWrittenInv, ClosePendingInv, CloseEofInv DEF Writer
<1>2. CASE Reader
  BY <1>2, ReadStoredInv, TransactionFullInv, ReadInv, TestReadInv, PopNothingInv,
     PopResponseInv, HandleResponseInv, CheckInterruptInv, FlushDoneInv DEF Reader
<1>3. CASE Interrupt \/ HardInterrupt
  BY <1>3, InterruptInv
<1>4. CASE UNCHANGED vars
  BY <1>4, StutterInv
<1> QED
  BY <1>1, <1>2, <1>3, <1>4 DEF Next
-----------------------------------------------------------------------------
(***************************************************************************)
(* The theorems.                                                           *)
(***************************************************************************)

\* IInv is an invariant of write(), read(), close() and fast_sub_chunking().
THEOREM Invariance == Spec => []IInv
<1>1. Init => IInv
  BY InitInv
<1>2. IInv /\ [Next]_vars => IInv'
  BY NextInv
<1> QED
  BY <1>1, <1>2, PTL DEF Spec

\* Rows are handed over by the thread that owns the request, in a buffer of
\* their size, and within the limit of the transaction (m_request, write() and
\* fast_sub_chunking()), for any rows, limits and requests of the client.
THEOREM HandedOverCorrect == Spec => []HandedOver
<1>1. IInv => HandedOver
  <2> SUFFICES ASSUME IInv PROVE HandedOver
    OBVIOUS
  <2>1. TypeOK
    <3>1. ~interrupted => m_read_requests <= 1
      BY DEF IInv, Baton, Live
    <3>2. /\ m_trx_size \in 0 .. Size /\ received \in Nat /\ offset \in Nat
          /\ received = offset + m_trx_size /\ Size \in Nat
      BY Facts DEF IInv, Types, ReaderView
    <3>3. 0 <= offset /\ offset <= received
      BY <3>2
    <3>4. ~interrupted => received <= m_size
      <4>1. ~interrupted => m_size = received + InFlight
        BY DEF IInv, Accounted, Live
      <4>2. InFlight \in Nat
        BY <3>2, Facts DEF IInv, Types, InFlight
      <4> QED
        BY <3>2, <4>1, <4>2
    <3>5. position \in 0 .. Size
      BY Facts
    <3> QED
      BY <3>1, <3>3, <3>4, <3>5 DEF IInv, Types, TypeOK
  <2>2. RequestOwned
    BY DEF IInv, RequestOwned, Baton, Live, Waiting
  <2>3. WithinLimit
    <3> SUFFICES ASSUME m_trx_size > max_trx_size, ~interrupted, NEW r \in row_ends,
                        offset < r /\ r < received
                 PROVE  FALSE
      BY DEF WithinLimit
    <3>1. /\ m_trx_size \in Nat /\ received \in Nat /\ offset \in Nat
          /\ m_size \in Nat /\ max_trx_size \in Nat /\ r \in Nat
          /\ received = offset + m_trx_size
      BY Facts DEF IInv, Types, ReaderView
    <3>2. received <= m_size
      BY <2>1 DEF TypeOK
    <3>3. ~(m_size - offset <= max_trx_size)
      BY <3>1, <3>2
    <3>4. ~(offset < r /\ r < m_size)
      BY <3>3 DEF IInv, Exact
    <3> QED
      BY <3>1, <3>2, <3>4
  <2>4. RowReadSucceeds
    BY DEF IInv, Exact, RowReadSucceeds
  <2> QED
    BY <2>1, <2>2, <2>3, <2>4 DEF HandedOver
<1> QED
  BY <1>1, Invariance, PTL

\* The variables of SubChunks, as the refinement maps them.
AbstractOffset == IF interrupted THEN Size ELSE offset
AbstractFinished == interrupted \/ reader = "done"
abstractVars == <<row_ends, Size, AbstractOffset, AbstractFinished>>

\* A step that is neither FlushDone nor Interrupt changes nothing of them.
LEMMA AbstractStutter ==
  ASSUME IInv, row_ends' = row_ends, interrupted' = interrupted,
         offset' = offset, reader' = "done" <=> reader = "done"
  PROVE  UNCHANGED abstractVars
<1>1. Size' = Size
  BY DEF Size
<1> QED
  BY <1>1 DEF abstractVars, AbstractOffset, AbstractFinished

\* A transaction ends where the writer has ended a row, and not where the
\* previous one has ended.
LEMMA AbstractFlush ==
  ASSUME IInv, FlushDone, ~interrupted
  PROVE  Abstract!Transaction
<1> USE DEF FlushDone, fileVars, flags, writerVars
<1>1. row_ends' = row_ends /\ Size' = Size /\ interrupted' = interrupted
  BY DEF Size
<1>2. /\ Size \in Nat /\ position \in row_ends \cup {0} /\ offset \in Nat
      /\ m_trx_size \in Nat /\ received \in Nat
      /\ received = offset + m_trx_size
  BY Facts DEF IInv, Types, ReaderView
<1>3. /\ m_data = 0 /\ (m_trx_size > 0 \/ m_eof)
      /\ m_eof => received = Size
  BY DEF IInv, Ending
<1>4. received = position
  BY <1>2, <1>3 DEF IInv, WriterView, Accounted, Live, InFlight, Waiting, Ending
<1>5. received \in row_ends \cup {Size} /\ (received > offset \/ received = Size)
  BY <1>2, <1>3, <1>4
<1>6. reader' = "done" => received = Size
  BY <1>3
<1>7. /\ AbstractOffset = offset /\ AbstractOffset' = received
      /\ AbstractFinished = FALSE /\ AbstractFinished' = (reader' = "done")
  BY <1>1 DEF AbstractOffset, AbstractFinished
<1> QED
  BY <1>1, <1>5, <1>6, <1>7
  DEF Abstract!Transaction, AbstractOffset, AbstractFinished

\* ^C ends the file.
LEMMA AbstractInterrupt ==
  ASSUME IInv, Interrupt
  PROVE  Abstract!Transaction \/ UNCHANGED abstractVars
<1> USE DEF Interrupt, fileVars, readerVars
<1>1. /\ row_ends' = row_ends /\ Size' = Size /\ ~interrupted /\ interrupted'
      /\ reader' = reader /\ offset' = offset
  BY DEF Size
<1>2. CASE reader = "done"
  <2>1. offset = Size
    BY <1>2, <1>1 DEF IInv, Ending
  <2> QED
    BY <1>1, <1>2, <2>1 DEF abstractVars, AbstractOffset, AbstractFinished
<1>3. CASE reader # "done"
  BY <1>1, <1>3 DEF Abstract!Transaction
<1> QED
  BY <1>2, <1>3

\* Every step of the copy is a transaction of SubChunks, or a stutter.
LEMMA AbstractNext ==
  ASSUME IInv, [Next]_vars
  PROVE  Abstract!Transaction \/ UNCHANGED abstractVars
<1>1. CASE Writer
  <2>1. row_ends' = row_ends /\ interrupted' = interrupted
        /\ offset' = offset /\ reader' = reader
    BY <1>1 DEF Writer, StartWrite, TestWrite, PopRequest, BufferTooSmall, CopyRow,
       AllWritten, ClosePending, CloseEof, fileVars, readerVars, flags
  <2> QED
    BY <2>1, AbstractStutter
<1>2. CASE Reader
  <2>1. CASE FlushDone
    <3>1. CASE interrupted
      <4>1. row_ends' = row_ends /\ interrupted' = interrupted /\ Size' = Size
        BY <2>1 DEF FlushDone, fileVars, flags, Size
      <4> QED
        BY <3>1, <4>1 DEF abstractVars, AbstractOffset, AbstractFinished
    <3> QED
      BY <2>1, <3>1, AbstractFlush
  <2>2. CASE ~FlushDone
    <3>1. row_ends' = row_ends /\ interrupted' = interrupted /\ offset' = offset
      BY <1>2, <2>2 DEF Reader, ReadStored, TransactionFull, Read, TestRead,
         PopNothing, PopResponse, HandleResponse, CheckInterrupt, fileVars, flags
    <3>2. reader # "done" /\ reader' # "done"
      BY <1>2, <2>2 DEF Reader, ReadStored, TransactionFull, Read, TestRead,
         PopNothing, PopResponse, HandleResponse, CheckInterrupt, Consume,
         Received, RowTooLong, RowReceived
    <3> QED
      BY <3>1, <3>2, AbstractStutter
  <2> QED
    BY <2>1, <2>2
<1>3. CASE Interrupt
  BY <1>3, AbstractInterrupt
<1>4. CASE HardInterrupt
  BY <1>4, AbstractStutter DEF HardInterrupt, fileVars, readerVars
<1>5. CASE UNCHANGED vars
  BY <1>5, AbstractStutter DEF vars, fileVars, readerVars, flags
<1> QED
  BY <1>1, <1>2, <1>3, <1>4, <1>5 DEF Next

\* The copy implements SubChunks: until ^C no row is lost or torn, and
\* transactions end where rows end (fast_sub_chunking(), flush_done()).
THEOREM RowsNotTornCorrect == Spec => RowsNotTorn
<1>1. Init => Abstract!Init
  <2> SUFFICES ASSUME Init PROVE Abstract!Init
    OBVIOUS
  <2>1. Size \in Nat /\ \A r \in row_ends : r \in 1 .. Size
    BY SizeOf DEF Init
  <2> QED
    BY <2>1 DEF Init, Abstract!Init
<1>2. IInv /\ [Next]_vars => [Abstract!Transaction]_abstractVars
  BY AbstractNext
<1> QED
  BY <1>1, <1>2, Invariance, PTL
  DEF Spec, RowsNotTorn, Abstract!Spec, abstractVars, AbstractOffset,
      AbstractFinished
-----------------------------------------------------------------------------
(***************************************************************************)
(* The queues between the two threads: shcore::Synchronized_queue, for any *)
(* number of producers, consumers and items.                               *)
(***************************************************************************)

(* A consumer that sleeps does so inside of a call.                        *)
SleepersInCall == \A c \in asleep : call[c] # "none"

\* Appending to, concatenating with and removing from one of several queues.
LEMMA AppendType ==
  ASSUME NEW P, NEW S, NEW f \in [P -> Seq(S)], NEW p \in P, NEW u \in S
  PROVE  [f EXCEPT ![p] = Append(@, u)] \in [P -> Seq(S)]
  OBVIOUS

LEMMA ConcatType ==
  ASSUME NEW P, NEW S, NEW f \in [P -> Seq(S)], NEW p \in P, NEW s \in Seq(S)
  PROVE  [f EXCEPT ![p] = @ \o s] \in [P -> Seq(S)]
  OBVIOUS

LEMMA TailType ==
  ASSUME NEW P, NEW S, NEW f \in [P -> Seq(S)], NEW p \in P, f[p] # <<>>
  PROVE  /\ [f EXCEPT ![p] = Tail(@)] \in [P -> Seq(S)]
         /\ Head(f[p]) \in S
  OBVIOUS

\* The type of the queues after a push, a shutdown and a pop.
LEMMA PushType ==
  ASSUME QueueTypeOK, NEW u \in Items, NEW p \in Priorities,
         unsynchronized_push(u, p)
  PROVE  /\ m_queues' \in [Priorities -> Seq(Items \cup {Guard})]
         /\ queue_size' \in Nat
         /\ pushed' \in [Priorities -> Seq(Items \cup {Guard})]
<1>1. u \in Items \cup {Guard}
  OBVIOUS
<1> QED
  BY <1>1, AppendType DEF QueueTypeOK, unsynchronized_push

LEMMA GuardsType ==
  ASSUME NEW n \in Nat
  PROVE  /\ Guards(n) \in Seq(Items \cup {Guard})
         /\ Len(Guards(n)) = n
  BY DEF Guards

LEMMA PushGuardsType ==
  ASSUME QueueTypeOK, NEW n \in Nat, PushGuards(n)
  PROVE  /\ m_queues' \in [Priorities -> Seq(Items \cup {Guard})]
         /\ queue_size' \in Nat
         /\ pushed' \in [Priorities -> Seq(Items \cup {Guard})]
<1>1. k_shutdown_priority \in Priorities
  BY DEF Priorities
<1> QED
  BY <1>1, GuardsType, ConcatType DEF QueueTypeOK, PushGuards

LEMMA PopType ==
  ASSUME QueueTypeOK, ~unsynchronized_empty, unsynchronized_pop
  PROVE  /\ m_queues' \in [Priorities -> Seq(Items \cup {Guard})]
         /\ queue_size' \in Nat
         /\ queue_size' = queue_size - 1
         /\ taken' \in [Priorities -> Seq(Items \cup {Guard})]
<1>1. PICK p \in Priorities :
        /\ m_queues[p] # <<>>
        /\ m_queues' = [m_queues EXCEPT ![p] = Tail(@)]
        /\ queue_size' = queue_size - 1
        /\ taken' = [taken EXCEPT ![p] = Append(@, Head(m_queues[p]))]
  BY DEF unsynchronized_pop
<1>2. queue_size' \in Nat
  BY <1>1 DEF QueueTypeOK, unsynchronized_empty
<1>3. /\ m_queues' \in [Priorities -> Seq(Items \cup {Guard})]
      /\ Head(m_queues[p]) \in Items \cup {Guard}
  BY <1>1, TailType DEF QueueTypeOK
<1>4. taken' \in [Priorities -> Seq(Items \cup {Guard})]
  BY <1>1, <1>3, AppendType DEF QueueTypeOK
<1> QED
  BY <1>1, <1>2, <1>3, <1>4

LEMMA ConsumersCardinality ==
  Cardinality(Consumers) \in Nat
  BY QueueAssumption, FS_CardinalityType

LEMMA ElementsType ==
  ASSUME NEW q \in [Priorities -> Seq(Items \cup {Guard})]
  PROVE  Elements(q) \subseteq Items \cup {Guard}
  BY DEF Elements

LEMMA PopOrSleepType ==
  ASSUME QueueTypeOK, NEW c \in Consumers, NEW kind \in {"pop", "try_pop"},
         PopOrSleep(c, kind)
  PROVE  /\ m_queues' \in [Priorities -> Seq(Items \cup {Guard})]
         /\ queue_size' \in Nat
         /\ taken' \in [Priorities -> Seq(Items \cup {Guard})]
         /\ call' \in [Consumers -> {"none", "pop", "try_pop"}]
         /\ asleep' \in SUBSET Consumers
<1>1. CASE ~unsynchronized_empty
  BY <1>1, PopType DEF PopOrSleep, QueueTypeOK
<1>2. CASE unsynchronized_empty
  BY <1>2 DEF PopOrSleep, QueueTypeOK
<1> QED BY <1>1, <1>2

(* QueueTypeOK is an invariant of the queue.                               *)
THEOREM QueueTypeCorrect == QueueSpec => []QueueTypeOK
<1>1. QueueInit => QueueTypeOK
  BY QueueAssumption DEF QueueInit, QueueTypeOK, EmptyQueues
<1>2. QueueTypeOK /\ [QueueNext]_queueVars => QueueTypeOK'
  <2> SUFFICES ASSUME QueueTypeOK, [QueueNext]_queueVars PROVE QueueTypeOK'
    OBVIOUS
  <2>1. ASSUME NEW t \in Producers, NEW u \in Items, NEW p \in Queue_priority,
               Push(t, u, p)
        PROVE  QueueTypeOK'
    <3>1. p \in Priorities
      BY DEF Priorities
    <3> QED
      BY <2>1, <3>1, PushType DEF Push, QueueTypeOK
  <2>2. ASSUME NEW t \in Producers, NotifyOne(t) PROVE QueueTypeOK'
    BY <2>2 DEF NotifyOne, QueueTypeOK
  <2>3. ASSUME NEW t \in Producers, Shutdown(t) PROVE QueueTypeOK'
    <3>1. /\ m_queues' \in [Priorities -> Seq(Items \cup {Guard})]
          /\ queue_size' \in Nat
          /\ pushed' \in [Priorities -> Seq(Items \cup {Guard})]
      BY <2>3, PushGuardsType, ConsumersCardinality DEF Shutdown
    <3>2. owed' \in SUBSET (Items \cup {Guard})
      BY <2>3, ElementsType DEF Shutdown, QueueTypeOK
    <3>3. shutdowns' \in 0 .. MaxShutdowns
      BY <2>3, QueueAssumption DEF Shutdown, QueueTypeOK
    <3> QED
      BY <2>3, <3>1, <3>2, <3>3 DEF Shutdown, QueueTypeOK
  <2>4. ASSUME NEW t \in Producers, NotifyAll(t) PROVE QueueTypeOK'
    BY <2>4 DEF NotifyAll, QueueTypeOK
  <2>5. ASSUME NEW c \in Consumers, Pop(c) \/ TryPop(c) \/ Recheck(c)
        PROVE  QueueTypeOK'
    <3>1. PICK kind \in {"pop", "try_pop"} : PopOrSleep(c, kind)
      BY <2>5 DEF Pop, TryPop, Recheck, QueueTypeOK
    <3> QED
      BY <2>5, <3>1, PopOrSleepType DEF Pop, TryPop, Recheck, QueueTypeOK
  <2>6. ASSUME NEW c \in Consumers, Timeout(c) PROVE QueueTypeOK'
    <3>1. CASE ~unsynchronized_empty
      BY <2>6, <3>1, PopType DEF Timeout, QueueTypeOK
    <3>2. CASE unsynchronized_empty
      BY <2>6, <3>2 DEF Timeout, QueueTypeOK
    <3> QED BY <3>1, <3>2
  <2>7. ASSUME NEW c \in Consumers, SpuriousWakeup(c) PROVE QueueTypeOK'
    BY <2>7 DEF SpuriousWakeup, QueueTypeOK
  <2>8. CASE UNCHANGED queueVars
    BY <2>8 DEF queueVars, QueueTypeOK
  <2> QED
    BY <2>1, <2>2, <2>3, <2>4, <2>5, <2>6, <2>7, <2>8 DEF QueueNext
<1> QED
  BY <1>1, <1>2, PTL DEF QueueSpec
-----------------------------------------------------------------------------
(* Order of the elements.                                                  *)

LEMMA AppendConcat ==
  ASSUME NEW S, NEW a \in Seq(S), NEW b \in Seq(S), NEW u \in S
  PROVE  a \o Append(b, u) = Append(a \o b, u)
  OBVIOUS

LEMMA ConcatAssoc ==
  ASSUME NEW S, NEW a \in Seq(S), NEW b \in Seq(S), NEW c \in Seq(S)
  PROVE  a \o (b \o c) = (a \o b) \o c
  OBVIOUS

LEMMA MoveHead ==
  ASSUME NEW S, NEW a \in Seq(S), NEW b \in Seq(S), b # <<>>
  PROVE  Append(a, Head(b)) \o Tail(b) = a \o b
  OBVIOUS

LEMMA PopFifo ==
  ASSUME QueueTypeOK, Fifo, unsynchronized_pop, UNCHANGED pushed
  PROVE  Fifo'
<1>1. PICK p \in Priorities :
        /\ m_queues[p] # <<>>
        /\ m_queues' = [m_queues EXCEPT ![p] = Tail(@)]
        /\ taken' = [taken EXCEPT ![p] = Append(@, Head(m_queues[p]))]
  BY DEF unsynchronized_pop
<1>2. Append(taken[p], Head(m_queues[p])) \o Tail(m_queues[p])
        = taken[p] \o m_queues[p]
  BY <1>1, MoveHead DEF QueueTypeOK
<1> QED
  BY <1>1, <1>2 DEF QueueTypeOK, Fifo

LEMMA PrioritiesAre ==
  Priorities = {0, 1, 2, 3, 4}
  BY DEF Priorities, Queue_priority, k_shutdown_priority, k_max_priority

LEMMA SizeUpdate ==
  ASSUME QueueTypeOK, SizeExact, NEW p \in Priorities, NEW d \in Int,
         \A q \in Priorities : q # p => m_queues'[q] = m_queues[q],
         Len(m_queues'[p]) = Len(m_queues[p]) + d,
         queue_size' = queue_size + d
  PROVE  SizeExact'
<1> DEFINE l(q) == Len(m_queues[q])
           k(q) == Len(m_queues'[q])
<1>1. \A q \in Priorities : m_queues[q] \in Seq(Items \cup {Guard})
  BY DEF QueueTypeOK
<1>2. \A q \in Priorities : l(q) \in Int
  BY <1>1
<1>3. \A q \in Priorities : k(q) = IF p = q THEN l(q) + d ELSE l(q)
  OBVIOUS
<1>4. queue_size = l(0) + l(1) + l(2) + l(3) + l(4)
  BY DEF SizeExact
<1> HIDE DEF l, k
<1>5. 0 \in Priorities /\ 1 \in Priorities /\ 2 \in Priorities
      /\ 3 \in Priorities /\ 4 \in Priorities /\ p \in {0, 1, 2, 3, 4}
  BY PrioritiesAre
<1>6. k(0) + k(1) + k(2) + k(3) + k(4) = l(0) + l(1) + l(2) + l(3) + l(4) + d
  <2>1. /\ l(0) \in Int /\ l(1) \in Int /\ l(2) \in Int /\ l(3) \in Int
        /\ l(4) \in Int
    BY <1>2, <1>5, Zenon
  <2>2. /\ k(0) = IF p = 0 THEN l(0) + d ELSE l(0)
        /\ k(1) = IF p = 1 THEN l(1) + d ELSE l(1)
        /\ k(2) = IF p = 2 THEN l(2) + d ELSE l(2)
        /\ k(3) = IF p = 3 THEN l(3) + d ELSE l(3)
        /\ k(4) = IF p = 4 THEN l(4) + d ELSE l(4)
    BY <1>3, <1>5, Zenon
  <2>3. CASE p = 0
    BY <2>1, <2>2, <2>3, SMTT(30)
  <2>4. CASE p = 1
    BY <2>1, <2>2, <2>4, SMTT(30)
  <2>5. CASE p = 2
    BY <2>1, <2>2, <2>5, SMTT(30)
  <2>6. CASE p = 3
    BY <2>1, <2>2, <2>6, SMTT(30)
  <2>7. CASE p = 4
    BY <2>1, <2>2, <2>7, SMTT(30)
  <2> QED
    BY <1>5, <2>3, <2>4, <2>5, <2>6, <2>7
<1> QED
  BY <1>4, <1>6 DEF SizeExact, k

LEMMA PopSize ==
  ASSUME QueueTypeOK, QueueTypeOK', SizeExact, unsynchronized_pop
  PROVE  SizeExact'
<1>1. PICK p \in Priorities :
        /\ m_queues[p] # <<>>
        /\ m_queues' = [m_queues EXCEPT ![p] = Tail(@)]
        /\ queue_size' = queue_size - 1
  BY DEF unsynchronized_pop
<1>2. Len(Tail(m_queues[p])) = Len(m_queues[p]) + (-1)
  BY <1>1 DEF QueueTypeOK
<1>3. /\ \A q \in Priorities : q # p => m_queues'[q] = m_queues[q]
      /\ Len(m_queues'[p]) = Len(m_queues[p]) + (-1)
  BY <1>1, <1>2 DEF QueueTypeOK
<1>4. queue_size' = queue_size + (-1)
  BY <1>1 DEF QueueTypeOK
<1> QED
  BY <1>3, <1>4, SizeUpdate

(* Fifo is an invariant: nothing that was pushed is lost, duplicated or    *)
(* reordered within its priority; and queue_size is exact, so that pop() never*)
(* fails and a consumer sleeps only when there is nothing to take.         *)
THEOREM FifoCorrect == QueueSpec => [](Fifo /\ SizeExact)
<1>1. QueueInit => Fifo /\ SizeExact
  BY DEF QueueInit, EmptyQueues, Fifo, SizeExact, Priorities, Queue_priority,
         k_shutdown_priority, k_max_priority
<1>2. QueueTypeOK /\ QueueTypeOK' /\ Fifo /\ SizeExact /\ [QueueNext]_queueVars
        => (Fifo /\ SizeExact)'
  <2> SUFFICES ASSUME QueueTypeOK, QueueTypeOK', Fifo, SizeExact, [QueueNext]_queueVars
               PROVE  (Fifo /\ SizeExact)'
    OBVIOUS
  <2>1. ASSUME NEW t \in Producers, NEW u \in Items, NEW p \in Queue_priority,
               Push(t, u, p)
        PROVE  (Fifo /\ SizeExact)'
    <3>1. p \in Priorities
      BY DEF Priorities
    <3>2. taken[p] \o Append(m_queues[p], u) = Append(taken[p] \o m_queues[p], u)
      <4>1. /\ taken[p] \in Seq(Items \cup {Guard})
            /\ m_queues[p] \in Seq(Items \cup {Guard})
            /\ u \in Items \cup {Guard}
        BY <3>1 DEF QueueTypeOK
      <4>2. \A a, b \in Seq(Items \cup {Guard}) : \A x \in Items \cup {Guard} :
              a \o Append(b, x) = Append(a \o b, x)
        BY AppendConcat
      <4> QED
        BY <4>1, <4>2, Zenon
    <3>3. Fifo'
      BY <2>1, <3>1, <3>2 DEF Push, unsynchronized_push, QueueTypeOK, Fifo
    <3>4. /\ \A q \in Priorities : q # p => m_queues'[q] = m_queues[q]
          /\ Len(m_queues'[p]) = Len(m_queues[p]) + 1
      BY <2>1, <3>1 DEF Push, unsynchronized_push, QueueTypeOK
    <3>5. SizeExact'
      BY <2>1, <3>1, <3>4, SizeUpdate DEF Push, unsynchronized_push
    <3> QED BY <3>3, <3>5
  <2>2. ASSUME NEW t \in Producers, Shutdown(t) PROVE (Fifo /\ SizeExact)'
    <3> DEFINE p == k_shutdown_priority
               n == Cardinality(Consumers)
    <3>1. p \in Priorities /\ n \in Nat
      BY ConsumersCardinality DEF Priorities
    <3>2. Guards(n) \in Seq(Items \cup {Guard}) /\ Len(Guards(n)) = n
      BY <3>1, GuardsType
    <3>3. PushGuards(n) /\ taken' = taken
      BY <2>2 DEF Shutdown
    <3> HIDE DEF p, n
    <3>4. /\ m_queues' = [m_queues EXCEPT ![p] = @ \o Guards(n)]
          /\ queue_size' = queue_size + n
          /\ pushed' = [pushed EXCEPT ![p] = @ \o Guards(n)]
      BY <3>3 DEF PushGuards, p
    <3>5. taken[p] \o (m_queues[p] \o Guards(n))
            = (taken[p] \o m_queues[p]) \o Guards(n)
      <4>1. /\ taken[p] \in Seq(Items \cup {Guard})
            /\ m_queues[p] \in Seq(Items \cup {Guard})
        BY <3>1 DEF QueueTypeOK
      <4>2. \A a, b, c \in Seq(Items \cup {Guard}) :
              a \o (b \o c) = (a \o b) \o c
        BY ConcatAssoc
      <4> QED
        BY <3>2, <4>1, <4>2, Zenon
    <3>6. Fifo'
      BY <3>1, <3>3, <3>4, <3>5 DEF QueueTypeOK, Fifo
    <3>9. Len(m_queues[p] \o Guards(n)) = Len(m_queues[p]) + n
      <4>1. m_queues[p] \in Seq(Items \cup {Guard})
        BY <3>1 DEF QueueTypeOK
      <4> QED
        BY <3>2, <4>1
    <3>7. /\ \A q \in Priorities : q # p => m_queues'[q] = m_queues[q]
          /\ Len(m_queues'[p]) = Len(m_queues[p]) + n
      BY <3>1, <3>4, <3>9 DEF QueueTypeOK
    <3>8. SizeExact'
      BY <3>1, <3>4, <3>7, SizeUpdate
    <3> QED BY <3>6, <3>8
  <2>3. ASSUME NEW c \in Consumers,
               Pop(c) \/ TryPop(c) \/ Recheck(c) \/ Timeout(c)
        PROVE  (Fifo /\ SizeExact)'
    <3>1. UNCHANGED pushed
      BY <2>3 DEF Pop, TryPop, Recheck, Timeout
    <3>2. \/ unsynchronized_pop
          \/ UNCHANGED <<m_queues, queue_size, taken>>
      BY <2>3 DEF Pop, TryPop, Recheck, Timeout, PopOrSleep
    <3>3. CASE unsynchronized_pop
      BY <3>1, <3>3, PopFifo, PopSize
    <3>4. CASE UNCHANGED <<m_queues, queue_size, taken>>
      BY <3>1, <3>4 DEF Fifo, SizeExact
    <3> QED BY <3>2, <3>3, <3>4
  <2>4. CASE UNCHANGED <<m_queues, queue_size, pushed, taken>>
    BY <2>4 DEF Fifo, SizeExact
  <2>5. \/ UNCHANGED <<m_queues, queue_size, pushed, taken>>
        \/ \E t \in Producers :
             \/ \E u \in Items, p \in Queue_priority : Push(t, u, p)
             \/ Shutdown(t)
        \/ \E c \in Consumers :
             Pop(c) \/ TryPop(c) \/ Recheck(c) \/ Timeout(c)
    BY DEF QueueNext, NotifyOne, NotifyAll, SpuriousWakeup, queueVars
  <2> QED
    BY <2>1, <2>2, <2>3, <2>4, <2>5
<1> QED
  BY <1>1, <1>2, QueueTypeCorrect, PTL DEF QueueSpec

(* QueueExact is an invariant of the queue: the order of its elements, the *)
(* size unsynchronized_empty() looks at, and the types.                    *)
THEOREM QueueExactCorrect == QueueSpec => []QueueExact
  BY QueueTypeCorrect, FifoCorrect, PTL DEF QueueExact
-----------------------------------------------------------------------------
(* Wakeups.                                                                *)

LEMMA Finite ==
  ASSUME QueueTypeOK
  PROVE  /\ IsFiniteSet(Notifiers) /\ Cardinality(Notifiers) \in Nat
         /\ IsFiniteSet(Awake) /\ Cardinality(Awake) \in Nat
<1>1. Notifiers \in SUBSET Producers /\ Awake \in SUBSET Consumers
  BY DEF Notifiers, Awake
<1> QED
  BY <1>1, QueueAssumption, FS_Subset, FS_CardinalityType

WakeupInv == SleepersInCall /\ NoLostWakeup

(* WakeupInv rests on nothing but the types: while somebody sleeps, an     *)
(* element more comes with a notification more, a notification turns a     *)
(* sleeper into a thread that is awake, and a thread that was awake goes   *)
(* back to sleep only when the queue is empty.                             *)
LEMMA WakeupStep == QueueTypeOK /\ WakeupInv /\ [QueueNext]_queueVars => WakeupInv'
<1> SUFFICES ASSUME QueueTypeOK, WakeupInv, [QueueNext]_queueVars PROVE WakeupInv'
  OBVIOUS
<1>f. /\ IsFiniteSet(Notifiers) /\ Cardinality(Notifiers) \in Nat
      /\ IsFiniteSet(Awake) /\ Cardinality(Awake) \in Nat
  BY Finite
<1>1. ASSUME NEW t \in Producers, NEW u \in Items, NEW p \in Queue_priority,
             Push(t, u, p)
      PROVE  WakeupInv'
  <2>1. Notifiers' = Notifiers \cup {t} /\ t \notin Notifiers
    BY <1>1 DEF Push, QueueTypeOK, Notifiers
  <2>2. Cardinality(Notifiers') = Cardinality(Notifiers) + 1
    BY <2>1, <1>f, FS_AddElement
  <2>3. Awake' = Awake /\ asleep' = asleep /\ call' = call
        /\ queue_size' = queue_size + 1
    BY <1>1 DEF Push, Awake, unsynchronized_push
  <2>4. ASSUME NEW s \in Producers, notifying[s] = "all"
        PROVE  notifying'[s] = "all"
    BY <1>1, <2>4 DEF Push, QueueTypeOK
  <2> QED
    BY <2>2, <2>3, <2>4, <1>f DEF QueueTypeOK, WakeupInv, SleepersInCall, NoLostWakeup
<1>2. ASSUME NEW t \in Producers, NotifyOne(t) PROVE WakeupInv'
  <2>1. CASE asleep = {}
    BY <1>2, <2>1 DEF NotifyOne, WakeupInv, SleepersInCall, NoLostWakeup
  <2>2. CASE asleep # {}
    <3>1. PICK c \in asleep : asleep' = asleep \ {c}
      BY <1>2, <2>2 DEF NotifyOne
    <3>2. Notifiers' = Notifiers \ {t} /\ t \in Notifiers
      BY <1>2 DEF NotifyOne, QueueTypeOK, Notifiers
    <3>3. Cardinality(Notifiers') = Cardinality(Notifiers) - 1
      BY <3>2, <1>f, FS_RemoveElement
    <3>4. Awake' = Awake \cup {c} /\ c \notin Awake
      BY <1>2, <3>1 DEF NotifyOne, QueueTypeOK, Awake, WakeupInv, SleepersInCall
    <3>5. Cardinality(Awake') = Cardinality(Awake) + 1
      BY <3>4, <1>f, FS_AddElement
    <3>6. ASSUME NEW s \in Producers, notifying[s] = "all"
          PROVE  notifying'[s] = "all"
      BY <1>2, <3>6 DEF NotifyOne, QueueTypeOK
    <3>7. queue_size' = queue_size /\ call' = call
      BY <1>2 DEF NotifyOne
    <3>8. SleepersInCall'
      BY <3>1, <3>7 DEF WakeupInv, SleepersInCall
    <3>9. NoLostWakeup'
      BY <2>2, <3>3, <3>5, <3>6, <3>7, <1>f DEF QueueTypeOK, WakeupInv, NoLostWakeup
    <3> QED BY <3>8, <3>9 DEF WakeupInv
  <2> QED BY <2>1, <2>2
<1>3. ASSUME NEW t \in Producers, Shutdown(t) PROVE WakeupInv'
  <2>1. notifying'[t] = "all" /\ call' = call /\ asleep' = asleep
    BY <1>3 DEF Shutdown, QueueTypeOK
  <2> QED
    BY <2>1 DEF WakeupInv, SleepersInCall, NoLostWakeup
<1>4. ASSUME NEW t \in Producers, NotifyAll(t) PROVE WakeupInv'
  BY <1>4 DEF NotifyAll, WakeupInv, SleepersInCall, NoLostWakeup
\* A consumer which held the mutex took an element, or saw that there is none.
<1>5. ASSUME NEW c \in Consumers,
             c \notin asleep,
             UNCHANGED notifying,
             \/ /\ ~unsynchronized_empty
                /\ unsynchronized_pop
                /\ call' = [call EXCEPT ![c] = "none"]
                /\ asleep' = asleep \ {c}
             \/ /\ unsynchronized_empty
                /\ queue_size' = queue_size
                /\ \/ asleep' = asleep \ {c} /\ call' = [call EXCEPT ![c] = "none"]
                   \/ \E k \in {"pop", "try_pop"} :
                        asleep' = asleep \cup {c} /\ call' = [call EXCEPT ![c] = k]
      PROVE  WakeupInv'
  <2>1. SleepersInCall'
    BY <1>5 DEF QueueTypeOK, WakeupInv, SleepersInCall
  <2>2. CASE unsynchronized_empty
    <3>1. Awake' \in SUBSET Consumers /\ Notifiers' = Notifiers
      BY <1>5 DEF Awake, Notifiers
    <3>2. Cardinality(Awake') \in Nat
      BY <3>1, QueueAssumption, FS_Subset, FS_CardinalityType
    <3>3. queue_size' = 0
      BY <1>5, <2>2 DEF unsynchronized_empty
    <3>4. NoLostWakeup'
      BY <3>1, <3>2, <3>3, <1>f DEF NoLostWakeup
    <3> QED BY <2>1, <3>4 DEF WakeupInv
  <2>3. CASE ~unsynchronized_empty
    <3>1. Awake' = Awake \ {c} /\ Notifiers' = Notifiers /\ asleep' = asleep
      <4>1. /\ call' = [call EXCEPT ![c] = "none"]
            /\ asleep' = asleep
        BY <1>5, <2>3
      <4>2. Awake' = Awake \ {c}
        BY <4>1 DEF QueueTypeOK, Awake
      <4> QED
        BY <1>5, <4>1, <4>2 DEF Notifiers
    <3>2. Cardinality(Awake') >= Cardinality(Awake) - 1
      <4>1. Cardinality(Awake \ {c}) = IF c \in Awake THEN Cardinality(Awake) - 1
                                                    ELSE Cardinality(Awake)
        BY <1>f, FS_RemoveElement
      <4> HIDE DEF Awake
      <4> QED
        BY <3>1, <4>1, <1>f
    <3>3. queue_size' = queue_size - 1
      BY <1>5, <2>3, PopType
    <3>5. Cardinality(Awake') \in Nat
      BY <3>1, <1>f, FS_RemoveElement, FS_CardinalityType
    <3>4. NoLostWakeup'
      BY <3>1, <3>2, <3>3, <3>5, <1>5, <1>f DEF QueueTypeOK, WakeupInv, NoLostWakeup
    <3> QED BY <2>1, <3>4 DEF WakeupInv
  <2> QED BY <2>2, <2>3
<1>6. ASSUME NEW c \in Consumers, Pop(c) \/ TryPop(c) \/ Recheck(c)
      PROVE  WakeupInv'
  <2>1. PICK k \in {"pop", "try_pop"} : PopOrSleep(c, k)
    BY <1>6 DEF Pop, TryPop, Recheck, QueueTypeOK
  <2>2. c \notin asleep
    BY <1>6 DEF Pop, TryPop, Recheck, WakeupInv, SleepersInCall
  <2>3. UNCHANGED notifying
    BY <1>6 DEF Pop, TryPop, Recheck
  <2>4. asleep = asleep \ {c}
    BY <2>2
  <2> QED
    BY <1>5, <2>1, <2>2, <2>3, <2>4 DEF PopOrSleep
<1>7. ASSUME NEW c \in Consumers, Timeout(c) PROVE WakeupInv'
  <2>1. CASE c \notin asleep
    BY <1>5, <1>7, <2>1 DEF Timeout
  <2>2. CASE c \in asleep
    <3>1. Awake' = Awake /\ Notifiers' = Notifiers /\ notifying' = notifying
          /\ asleep' \subseteq asleep
      BY <1>7, <2>2 DEF Timeout, QueueTypeOK, Awake, Notifiers
    <3>2. queue_size' \in Nat /\ queue_size' <= queue_size
      BY <1>7, PopType DEF Timeout, QueueTypeOK
    <3>3. SleepersInCall'
      BY <1>7 DEF Timeout, QueueTypeOK, WakeupInv, SleepersInCall
    <3>4. NoLostWakeup'
      BY <3>1, <3>2, <1>f DEF QueueTypeOK, WakeupInv, NoLostWakeup
    <3> QED BY <3>3, <3>4 DEF WakeupInv
  <2> QED BY <2>1, <2>2
<1>8. ASSUME NEW c \in Consumers, SpuriousWakeup(c) PROVE WakeupInv'
  <2>1. Awake' = Awake \cup {c} /\ Notifiers' = Notifiers
    BY <1>8 DEF SpuriousWakeup, QueueTypeOK, Awake, Notifiers, WakeupInv, SleepersInCall
  <2>2. Cardinality(Awake') \in Nat /\ Cardinality(Awake') >= Cardinality(Awake)
    <3>1. IsFiniteSet(Awake \cup {c})
      BY <1>f, FS_AddElement
    <3>2. Cardinality(Awake \cup {c}) = IF c \in Awake THEN Cardinality(Awake)
                                                     ELSE Cardinality(Awake) + 1
      BY <1>f, FS_AddElement
    <3> QED
      BY <2>1, <3>1, <3>2, <1>f, FS_CardinalityType
  <2>3. SleepersInCall'
    BY <1>8 DEF SpuriousWakeup, WakeupInv, SleepersInCall
  <2>4. queue_size' = queue_size /\ notifying' = notifying /\ asleep' \subseteq asleep
    BY <1>8 DEF SpuriousWakeup
  <2>5. NoLostWakeup'
    BY <2>1, <2>2, <2>4, <1>f DEF QueueTypeOK, WakeupInv, NoLostWakeup
  <2> QED BY <2>3, <2>5 DEF WakeupInv
<1>9. CASE UNCHANGED queueVars
  BY <1>9 DEF queueVars, WakeupInv, SleepersInCall, NoLostWakeup, Awake, Notifiers
<1> QED
  BY <1>1, <1>2, <1>3, <1>4, <1>6, <1>7, <1>8, <1>9 DEF QueueNext

(* No wakeup of push(), shutdown(), pop() and try_pop() is lost, for any   *)
(* number of producers and consumers.                                      *)
THEOREM NoLostWakeupCorrect == QueueSpec => []NoLostWakeup
<1>1. QueueInit => WakeupInv
  BY DEF QueueInit, WakeupInv, SleepersInCall, NoLostWakeup
<1> QED
  BY <1>1, WakeupStep, QueueTypeCorrect, PTL DEF QueueSpec, WakeupInv
-----------------------------------------------------------------------------
(* Shutdown.                                                               *)

\* What is owed was pushed with one of the priorities above the guards', and
\* nothing has the guards' priority before the first shutdown.
DrainInv ==
  /\ shutdowns = 0 => pushed[k_shutdown_priority] = <<>> /\ owed = {}
  /\ \A u \in owed :
       \E q \in Queue_priority : \E i \in DOMAIN pushed[q] : pushed[q][i] = u
  /\ DrainedBeforeGuards

\* A sequence that grows keeps its elements.
LEMMA AppendKeeps ==
  ASSUME NEW S, NEW s \in Seq(S), NEW u \in S
  PROVE  \A i \in DOMAIN s : i \in DOMAIN Append(s, u) /\ Append(s, u)[i] = s[i]
  OBVIOUS

LEMMA QueuePriorities ==
  /\ Priorities = {k_shutdown_priority} \cup Queue_priority
  /\ k_shutdown_priority \notin Queue_priority
  /\ \A q \in Queue_priority : q > k_shutdown_priority
  BY DEF Priorities, Queue_priority, k_shutdown_priority, k_max_priority

\* What was popped stays popped.
LEMMA PopKeeps ==
  ASSUME QueueTypeOK, unsynchronized_pop
  PROVE  Elements(taken) \subseteq Elements(taken')
<1>1. PICK p \in Priorities :
        /\ m_queues[p] # <<>>
        /\ taken' = [taken EXCEPT ![p] = Append(@, Head(m_queues[p]))]
  BY DEF unsynchronized_pop
<1>2. Head(m_queues[p]) \in Items \cup {Guard}
  BY <1>1, TailType DEF QueueTypeOK
<1>3. \A q \in Priorities : \A i \in DOMAIN taken[q] :
        i \in DOMAIN taken'[q] /\ taken'[q][i] = taken[q][i]
  <2> SUFFICES ASSUME NEW q \in Priorities, NEW i \in DOMAIN taken[q]
               PROVE  i \in DOMAIN taken'[q] /\ taken'[q][i] = taken[q][i]
    OBVIOUS
  <2>1. CASE q = p
    <3>1. taken[p] \in Seq(Items \cup {Guard})
      BY DEF QueueTypeOK
    <3>2. taken'[p] = Append(taken[p], Head(m_queues[p]))
      BY <1>1 DEF QueueTypeOK
    <3> QED BY <1>2, <2>1, <3>1, <3>2, AppendKeeps
  <2>2. CASE q # p
    BY <1>1, <2>2 DEF QueueTypeOK
  <2> QED BY <2>1, <2>2
<1> QED
  BY <1>3 DEF Elements

\* The pop that returns a guard finds the queues above empty: by Fifo all that
\* was pushed to them was popped.
LEMMA PopDrained ==
  ASSUME QueueTypeOK, Fifo, DrainInv, unsynchronized_pop, UNCHANGED owed
  PROVE  DrainedBeforeGuards'
<1> DEFINE z == k_shutdown_priority
<1>1. PICK p \in Priorities :
        /\ m_queues[p] # <<>>
        /\ \A q \in Priorities : q > p => m_queues[q] = <<>>
        /\ taken' = [taken EXCEPT ![p] = Append(@, Head(m_queues[p]))]
  BY DEF unsynchronized_pop
<1>2. CASE p # z
  <2>1. taken'[z] = taken[z]
    BY <1>1, <1>2, QueuePriorities DEF QueueTypeOK
  <2> QED
    BY <2>1, PopKeeps DEF DrainInv, DrainedBeforeGuards
<1>3. CASE p = z
  <2>1. ASSUME NEW q \in Queue_priority PROVE pushed[q] = taken[q]
    <3>1. q \in Priorities /\ m_queues[q] = <<>>
      BY <1>1, <1>3, QueuePriorities
    <3>2. taken[q] \in Seq(Items \cup {Guard})
      BY <3>1 DEF QueueTypeOK
    <3>3. taken[q] \o <<>> = taken[q]
      BY <3>2
    <3> QED
      BY <3>1, <3>3 DEF Fifo
  <2>2. owed \subseteq Elements(taken)
    BY <2>1, QueuePriorities DEF DrainInv, Elements
  <2> QED
    BY <2>2, PopKeeps DEF DrainedBeforeGuards
<1> QED
  BY <1>2, <1>3

LEMMA DrainStep == QueueTypeOK /\ Fifo /\ DrainInv /\ [QueueNext]_queueVars => DrainInv'
<1> SUFFICES ASSUME QueueTypeOK, Fifo, DrainInv, [QueueNext]_queueVars PROVE DrainInv'
  OBVIOUS
<1> DEFINE z == k_shutdown_priority
<1>1. ASSUME NEW t \in Producers, NEW u \in Items, NEW p \in Queue_priority,
             Push(t, u, p)
      PROVE  DrainInv'
  <2>1. /\ pushed' = [pushed EXCEPT ![p] = Append(@, u)]
        /\ UNCHANGED <<shutdowns, taken, owed>>
    BY <1>1 DEF Push, unsynchronized_push
  <2>2. pushed'[z] = pushed[z]
    BY <2>1, QueuePriorities DEF QueueTypeOK
  <2>3. \A q \in Queue_priority : \A i \in DOMAIN pushed[q] :
          i \in DOMAIN pushed'[q] /\ pushed'[q][i] = pushed[q][i]
    <3> SUFFICES ASSUME NEW q \in Queue_priority, NEW i \in DOMAIN pushed[q]
                 PROVE  i \in DOMAIN pushed'[q] /\ pushed'[q][i] = pushed[q][i]
      OBVIOUS
    <3>1. q \in Priorities /\ p \in Priorities
      BY QueuePriorities
    <3>2. CASE q = p
      <4>1. pushed[p] \in Seq(Items \cup {Guard}) /\ u \in Items \cup {Guard}
        BY <3>1 DEF QueueTypeOK
      <4>2. pushed'[p] = Append(pushed[p], u)
        BY <2>1, <3>1 DEF QueueTypeOK
      <4> QED BY <3>2, <4>1, <4>2, AppendKeeps
    <3>3. CASE q # p
      BY <2>1, <3>1, <3>3 DEF QueueTypeOK
    <3> QED BY <3>2, <3>3
  <2>4. DrainedBeforeGuards'
    BY <2>1 DEF DrainInv, DrainedBeforeGuards, Elements
  <2>5. \A v \in owed' : \E q \in Queue_priority :
          \E i \in DOMAIN pushed'[q] : pushed'[q][i] = v
    BY <2>1, <2>3 DEF DrainInv
  <2> QED
    BY <2>1, <2>2, <2>4, <2>5 DEF DrainInv
<1>2. ASSUME NEW t \in Producers, Shutdown(t) PROVE DrainInv'
  <2>1. /\ shutdowns' = shutdowns + 1 /\ taken' = taken
        /\ pushed' = [pushed EXCEPT ![z] = @ \o Guards(Cardinality(Consumers))]
        /\ owed' = IF shutdowns = 0 THEN Elements(pushed) ELSE owed
    BY <1>2 DEF Shutdown, PushGuards
  <2>2. shutdowns' # 0
    BY <2>1 DEF QueueTypeOK
  <2>3. \A q \in Queue_priority : pushed'[q] = pushed[q]
    BY <2>1, QueuePriorities DEF QueueTypeOK
  <2>4. CASE shutdowns = 0
    <3>1. pushed[z] = <<>>
      BY <2>4 DEF DrainInv
    <3>2. \A u \in owed' :
            \E q \in Queue_priority : \E i \in DOMAIN pushed[q] : pushed[q][i] = u
      <4>1. owed' = Elements(pushed)
        BY <2>1, <2>4
      <4>2. DOMAIN pushed[z] = {}
        BY <3>1
      <4> QED
        BY <4>1, <4>2, QueuePriorities DEF Elements
    <3>3. taken[z] = <<>>
      <4>1. /\ taken[z] \in Seq(Items \cup {Guard})
            /\ m_queues[z] \in Seq(Items \cup {Guard})
            /\ taken[z] \o m_queues[z] = <<>>
        BY <3>1, QueuePriorities DEF QueueTypeOK, Fifo
      <4> QED BY <4>1
    <3> QED
      BY <2>1, <2>2, <2>3, <3>2, <3>3 DEF DrainInv, DrainedBeforeGuards
  <2>5. CASE shutdowns # 0
    BY <2>1, <2>2, <2>3, <2>5 DEF DrainInv, DrainedBeforeGuards, Elements
  <2> QED
    BY <2>4, <2>5
<1>3. ASSUME NEW c \in Consumers,
             Pop(c) \/ TryPop(c) \/ Recheck(c) \/ Timeout(c)
      PROVE  DrainInv'
  <2>1. UNCHANGED <<shutdowns, pushed, owed>>
    BY <1>3 DEF Pop, TryPop, Recheck, Timeout
  <2>2. unsynchronized_pop \/ UNCHANGED taken
    BY <1>3 DEF Pop, TryPop, Recheck, Timeout, PopOrSleep
  <2>3. DrainedBeforeGuards'
    BY <2>1, <2>2, PopDrained DEF DrainInv, DrainedBeforeGuards
  <2> QED
    BY <2>1, <2>3 DEF DrainInv
<1>4. CASE UNCHANGED <<shutdowns, pushed, taken, owed>>
  BY <1>4 DEF DrainInv, DrainedBeforeGuards
<1>5. \/ UNCHANGED <<shutdowns, pushed, taken, owed>>
      \/ \E t \in Producers :
           \/ \E u \in Items, p \in Queue_priority : Push(t, u, p)
           \/ Shutdown(t)
      \/ \E c \in Consumers :
           Pop(c) \/ TryPop(c) \/ Recheck(c) \/ Timeout(c)
  BY DEF QueueNext, NotifyOne, NotifyAll, SpuriousWakeup, queueVars
<1> QED
  BY <1>1, <1>2, <1>3, <1>4, <1>5

(* A thread that gets a guard of shutdown() knows that everything pushed   *)
(* before it was taken, for any number of producers, consumers and items.  *)
THEOREM DrainedBeforeGuardsCorrect == QueueSpec => []DrainedBeforeGuards
<1>1. QueueInit => DrainInv
  BY QueuePriorities DEF QueueInit, EmptyQueues, DrainInv, DrainedBeforeGuards
<1> QED
  BY <1>1, DrainStep, QueueTypeCorrect, FifoCorrect, PTL DEF QueueSpec, DrainInv
=============================================================================
