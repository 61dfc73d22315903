----------------------- MODULE TransactionBufferProofs ----------------------
(***************************************************************************)
(* Proofs about TransactionBuffer, for files of any size, rows of any      *)
(* length, all limits and all sizes of the client's requests, if lines end *)
(* with a single byte and there is no escape character: for other dialects *)
(* the runs show that read() is wrong.  Transactions are within the limit, *)
(* and are the ones of SubChunks.                                          *)
(***************************************************************************)
EXTENDS TransactionBuffer, WellFoundedInduction, TLAPS

\* The dialect: lines_terminated_by is a single byte, fields_escaped_by is empty.
OneByteLines == Terminator = 1 /\ ~Escapes

\* The types of all the variables, and the dialect.
BufferTypes ==
  /\ Terminator = 1
  /\ size \in 0 .. MaxSize
  /\ terminators \in SUBSET (1 .. size) /\ escaped = {}
  /\ max_trx_size \in Nat
  /\ length \in Nat \ {0, 1}
  /\ sent \in Nat /\ buffered \in Nat /\ offset \in Nat
  /\ m_trx_size \in Nat /\ m_trx_end_offset \in Nat
  /\ m_partial_row_sent \in BOOLEAN /\ m_eof \in BOOLEAN
  /\ returned \in 0 .. length
  /\ pc \in {"ask", "read", "flush", "done"}

\* How much of the file was loaded, sent, and read.
Progress ==
  /\ offset <= sent /\ sent <= buffered /\ buffered <= size
  /\ m_eof => buffered = size
  /\ pc = "done" => offset = size
  /\ max_trx_size > 0 => sent = offset + m_trx_size

\* Without a limit the file is sent as it is read.
Unlimited ==
  max_trx_size = 0 =>
    /\ m_trx_size = 0 /\ m_trx_end_offset = 0 /\ ~m_partial_row_sent
    /\ sent = buffered
    /\ pc = "flush" => sent = size

\* Once the end of the transaction is known, it is in m_data, it is where a row
\* ends, and it is within the limit if there is more than one row.
EndKnown ==
  m_trx_end_offset > 0 =>
    /\ m_trx_size <= m_trx_end_offset
    /\ offset + m_trx_end_offset <= buffered
    /\ offset + m_trx_end_offset \in terminators \cup {size}
    /\ m_trx_end_offset > max_trx_size =>
         \A r \in terminators : ~(offset < r /\ r < offset + m_trx_end_offset)
    /\ pc = "read" => m_trx_size < m_trx_end_offset

\* Until then either a part of its only row was sent, or rows were sent that are
\* within the limit, and the end of the last one is in m_data, within the limit.
EndUnknown ==
  max_trx_size > 0 /\ m_trx_end_offset = 0 =>
    IF m_partial_row_sent
    THEN \A r \in terminators : ~(offset < r /\ r <= sent)
    ELSE /\ m_trx_size < max_trx_size
         /\ \/ m_trx_size = 0
            \/ sent \in terminators
            \/ \E r \in terminators :
                 sent < r /\ r <= buffered /\ r < offset + max_trx_size

\* read() returns zero where the transaction, or the file, ends.
EndReached ==
  pc = "flush" /\ max_trx_size > 0 =>
    \/ m_trx_end_offset > 0 /\ m_trx_size = m_trx_end_offset
    \/ m_trx_end_offset = 0 /\ sent = size

BufferInv ==
  /\ BufferTypes /\ Progress /\ Unlimited /\ EndKnown /\ EndUnknown /\ EndReached

\* A set of natural numbers has a least element.
LEMMA Least ==
  ASSUME NEW S, \A x \in S : x \in Nat, S # {}
  PROVE  \E m \in S : \A k \in S : m <= k
<1>1. S \subseteq Nat
  OBVIOUS
<1>2. IsWellFoundedOn(OpToRel(<, Nat), Nat)
  BY NatLessThanWellFounded
<1>3. PICK R : R = OpToRel(<, Nat)
  OBVIOUS
<1>4. IsWellFoundedOn(R, Nat)
  BY <1>2, <1>3
<1>5. PICK m \in S : \A k \in S : ~(<<k, m>> \in R)
  BY <1>1, <1>4, WFMin
<1>6. \A j, k \in Nat : j < k => <<j, k>> \in R
  BY <1>3 DEF OpToRel
<1>7. ASSUME NEW k \in S PROVE m <= k
  <2>1. m \in Nat /\ k \in Nat /\ ~(<<k, m>> \in R)
    BY <1>5
  <2>2. ~(k < m)
    BY <1>6, <2>1
  <2> QED
    BY <2>1, <2>2
<1> QED
  BY <1>7

\* Min(S) is the least element of a set of numbers.
LEMMA MinOf ==
  ASSUME NEW S, \A x \in S : x \in Nat, S # {}
  PROVE  Min(S) \in S /\ \A y \in S : Min(S) <= y
<1>1. PICK m \in S : \A k \in S : m <= k
  BY Least
<1> QED
  BY <1>1 DEF Min

\* Max(S) is the greatest element of a set of numbers which has a bound.
LEMMA MaxOf ==
  ASSUME NEW S, NEW n \in Nat, \A x \in S : x \in 0 .. n, S # {}
  PROVE  Max(S) \in S /\ \A y \in S : Max(S) >= y
<1>1. DEFINE T == {n - x : x \in S}
<1>2. \A t \in T : t \in Nat
  OBVIOUS
<1>3. T # {}
  <2>1. PICK x \in S : TRUE
    OBVIOUS
  <2>2. n - x \in T
    BY <2>1
  <2> QED
    BY <2>2
<1>4. PICK m \in T : \A k \in T : m <= k
  <2> HIDE DEF T
  <2> QED
    BY <1>2, <1>3, Least
<1>5. PICK x \in S : m = n - x
  OBVIOUS
<1>6. \A y \in S : x >= y
  <2>1. SUFFICES ASSUME NEW y \in S PROVE x >= y
    OBVIOUS
  <2>2. n - y \in T
    OBVIOUS
  <2>3. m <= n - y
    BY <1>4, <2>2
  <2> QED
    BY <1>5, <2>3
<1> QED
  BY <1>6 DEF Max

LEMMA BufferRowEnds ==
  ASSUME escaped = {} PROVE RowEnds = terminators
BY DEF RowEnds

\* The boundaries found in m_data are where rows end.
LEMMA BoundariesOf ==
  ASSUME Terminator = 1, escaped = {}, NEW n \in Nat, terminators \in SUBSET (1 .. n),
         NEW from \in Nat, NEW to \in Nat, from <= to
  PROVE  Boundaries(from, to)
           = {b \in 1 .. to - from : from + b \in terminators}
<1> DEFINE T == {t \in terminators :
                  /\ from <= t - 1 /\ t <= to
                  /\ t \in escaped => t - 1 = from}
           B == {b \in 1 .. to - from : from + b \in terminators}
<1>1. \A t \in terminators : t \in Nat
  OBVIOUS
<1>2. ASSUME NEW t \in T PROVE t - from \in B
  <2>1. t \in Nat /\ from <= t - 1 /\ t <= to
    BY <1>1
  <2>2. t - from \in 1 .. to - from /\ from + (t - from) = t
    BY <2>1
  <2> QED
    BY <2>2
<1>3. ASSUME NEW b \in B PROVE \E t \in T : b = t - from
  <2>1. b \in Nat /\ 1 <= b /\ b <= to - from /\ from + b \in terminators
    OBVIOUS
  <2>2. from + b \in T /\ (from + b) - from = b
    BY <2>1
  <2> QED
    BY <2>2
<1>4. Boundaries(from, to) = {t - from : t \in T}
  BY DEF Boundaries
<1> HIDE DEF T, B
<1>5. {t - from : t \in T} = B
  BY <1>2, <1>3
<1> QED
  BY <1>4, <1>5 DEF B

LEMMA FirstBoundary ==
  ASSUME NEW n \in Nat, NEW data \in SUBSET (1 .. n)
  PROVE  LET first == find_first_row_boundary_after(data) IN
         /\ first \in Nat
         /\ first > 0 => first \in data /\ \A b \in data : first <= b
         /\ first = 0 => data = {}
<1>1. CASE data = {}
  BY <1>1 DEF find_first_row_boundary_after
<1>2. CASE data # {}
  <2>1. \A x \in data : x \in Nat /\ x > 0
    OBVIOUS
  <2>2. Min(data) \in data /\ \A y \in data : Min(data) <= y
    BY <1>2, <2>1, MinOf
  <2>3. find_first_row_boundary_after(data) = Min(data)
    BY <1>2 DEF find_first_row_boundary_after
  <2>4. Min(data) \in Nat /\ Min(data) > 0
    BY <2>1, <2>2
  <2> QED
    BY <1>2, <2>2, <2>3, <2>4
<1> QED
  BY <1>1, <1>2

\* A boundary within the limit is found, unless the limit is a single byte.
LEMMA LastBoundary ==
  ASSUME Terminator = 1,
         NEW len \in Nat, NEW data \in SUBSET (1 .. len), NEW limit \in Int
  PROVE  LET last == find_last_row_boundary_before(data, len, limit) IN
         /\ last \in Nat
         /\ last > 0 => last \in data
         /\ limit > 0 => last <= limit
         /\ last = 0 /\ limit >= len => data = {}
         /\ last = 0 /\ limit >= 2 => \A b \in data : b > limit
<1> DEFINE p == IF 0 < limit /\ limit < len THEN limit - 1 ELSE len
           found == {b \in data : b - 1 <= p}
           last == find_last_row_boundary_before(data, len, limit)
<1>1. p \in Nat
  OBVIOUS
<1>2. \A b \in data : b \in Nat /\ 1 <= b /\ b <= len
  OBVIOUS
<1>3. last = IF p < 1 \/ found = {} THEN 0 ELSE Max(found)
  BY DEF find_last_row_boundary_before
<1>4. CASE p < 1 \/ found = {}
  <2>1. last = 0
    BY <1>3, <1>4
  <2>2. ASSUME limit >= len PROVE data = {}
    <3>1. p = len
      BY <2>2
    <3>2. ASSUME NEW b \in data PROVE FALSE
      <4>1. b \in found /\ len >= 1
        BY <1>2, <3>1, <3>2
      <4> QED
        BY <1>4, <3>1, <4>1
    <3> QED
      BY <3>2
  <2>3. ASSUME limit >= 2, NEW b \in data PROVE b > limit
    <3>1. CASE limit >= len
      BY <2>2, <3>1
    <3>2. CASE limit < len
      <4>1. p = limit - 1 /\ ~(p < 1)
        BY <2>3, <3>2
      <4>2. ~(b - 1 <= limit - 1)
        BY <1>4, <4>1
      <4> QED
        BY <1>2, <4>2
    <3> QED
      BY <3>1, <3>2
  <2> HIDE DEF last, found, p
  <2>4. /\ last \in Nat /\ (last > 0 => last \in data) /\ (limit > 0 => last <= limit)
        /\ (last = 0 /\ limit >= len => data = {})
        /\ (last = 0 /\ limit >= 2 => \A b \in data : b > limit)
    BY <2>1, <2>2, <2>3
  <2> QED
    BY <2>4 DEF last
<1>5. CASE ~(p < 1) /\ found # {}
  <2>1. Max(found) \in found
    <3>1. \A x \in found : x \in 0 .. len
      BY <1>2
    <3> HIDE DEF found
    <3> QED
      BY <1>5, <3>1, MaxOf
  <2>2. last \in data /\ last - 1 <= p
    BY <1>3, <1>5, <2>1
  <2>3. limit > 0 => last <= limit
    <3> HIDE DEF last
    <3>1. last \in Nat /\ last <= len /\ last <= p + 1
      BY <1>1, <1>2, <2>2
    <3> QED
      BY <3>1
  <2> HIDE DEF last, found, p
  <2>4. /\ last \in Nat /\ last > 0 /\ last \in data /\ (limit > 0 => last <= limit)
    BY <1>2, <2>2, <2>3
  <2> QED
    BY <2>4 DEF last
<1> QED
  BY <1>4, <1>5

\* What consume() sends of m_data, if that ends at the offset `to'.
LEMMA Consumed ==
  ASSUME NEW n \in Nat, NEW end \in Nat, NEW partial \in BOOLEAN, NEW to \in Nat,
         m_trx_size \in Nat, sent \in Nat, buffered' = to, sent <= to,
         end > 0 => m_trx_size <= end,
         Consume(n, end, partial)
  PROVE  \E k \in Nat :
           /\ k <= n /\ sent + k <= to
           /\ end > 0 => m_trx_size + k <= end
           /\ \/ k = n \/ sent + k = to
              \/ end > 0 /\ m_trx_size + k = end
           /\ sent' = sent + k /\ m_trx_size' = m_trx_size + k
           /\ returned' = k /\ m_trx_end_offset' = end
           /\ m_partial_row_sent' = partial
           /\ pc' = IF k = 0 THEN "flush" ELSE "ask"
<1> DEFINE m == IF end > 0 /\ n > end - m_trx_size THEN end - m_trx_size ELSE n
           k == IF m > to - sent THEN to - sent ELSE m
<1>1. m \in Nat /\ m <= n /\ (end > 0 => m_trx_size + m <= end)
      /\ (m = n \/ (end > 0 /\ m_trx_size + m = end))
  OBVIOUS
<1>2. k \in Nat /\ k <= n /\ sent + k <= to
      /\ (end > 0 => m_trx_size + k <= end)
      /\ (k = n \/ sent + k = to \/ (end > 0 /\ m_trx_size + k = end))
  <2> HIDE DEF m
  <2> QED
    BY <1>1
<1>3. /\ sent' = sent + k /\ m_trx_size' = m_trx_size + k
      /\ returned' = k /\ m_trx_end_offset' = end
      /\ m_partial_row_sent' = partial
      /\ pc' = IF k = 0 THEN "flush" ELSE "ask"
  BY DEF Consume
<1> HIDE DEF k
<1> QED
  BY <1>2, <1>3

LEMMA BufferInit == OneByteLines /\ Init => BufferInv
<1> SUFFICES ASSUME OneByteLines, Init PROVE BufferInv
  OBVIOUS
<1>1. size \in 0 .. MaxSize /\ MaxSize \in Nat
  BY BufferAssumption DEF Init
<1>2. PICK f \in Files(size) : terminators = f[1] /\ escaped = f[2]
  BY DEF Init
<1>3. terminators \in SUBSET (1 .. size) /\ escaped = {}
  BY <1>2 DEF Files, OneByteLines
<1>4. max_trx_size \in Nat /\ length \in Nat \ {0, 1}
  BY BufferAssumption DEF Init
<1>5. sent \in 0 .. size
  BY DEF Init
<1>6. sent \in Nat /\ sent <= size
  BY <1>1, <1>5
<1>7. /\ buffered = sent /\ offset = sent /\ m_trx_size = 0
      /\ m_trx_end_offset = 0 /\ m_partial_row_sent = FALSE /\ m_eof = FALSE
      /\ returned = 0 /\ pc = "ask"
  BY DEF Init
<1>8. BufferTypes
  <2>1. 0 \in 0 .. length
    BY <1>4
  <2> QED
    BY <1>1, <1>3, <1>4, <1>6, <1>7, <2>1, Zenon DEF BufferTypes, OneByteLines
<1>9. Progress /\ Unlimited /\ EndKnown /\ EndReached
  BY <1>4, <1>6, <1>7 DEF Progress, Unlimited, EndKnown, EndReached
<1>10. EndUnknown
  BY <1>4, <1>7 DEF EndUnknown
<1> QED
  BY <1>8, <1>9, <1>10 DEF BufferInv

\* consume() keeps the invariant, whatever the end of the transaction is that
\* read() has found, if there is one: a row ends there.  Otherwise either no row
\* ends before what is sent does, or rows are sent that are within the limit.
LEMMA ConsumeInv ==
  ASSUME BufferInv, pc = "read", max_trx_size > 0,
         UNCHANGED <<fileVars, offset>>,
         NEW to \in Nat, buffered' = to, buffered <= to, to <= size,
         NEW eof \in BOOLEAN, m_eof' = eof, eof => to = size,
         NEW n \in Nat, n <= length, n > 0 \/ sent = to,
         NEW end \in Nat, NEW partial \in BOOLEAN,
         Consume(n, end, partial),
         end > 0 => /\ m_trx_size <= end /\ offset + end <= to
                    /\ offset + end \in terminators \cup {size}
                    /\ end > max_trx_size =>
                         \A r \in terminators : ~(offset < r /\ r < offset + end),
         end = 0 /\ sent = to => to = size,
         end = 0 /\ partial =>
           \A r \in terminators : offset < r => r > sent + n \/ r > to,
         end = 0 /\ ~partial =>
           /\ sent + n <= to /\ m_trx_size + n < max_trx_size
           /\ \/ sent + n \in terminators
              \/ \E r \in terminators :
                   sent + n < r /\ r <= to /\ r < offset + max_trx_size
  PROVE  BufferInv'
<1> USE DEF BufferInv
<1>1. /\ sent \in Nat /\ buffered \in Nat /\ offset \in Nat /\ m_trx_size \in Nat
      /\ size \in Nat /\ max_trx_size \in Nat /\ length \in Nat
      /\ offset <= sent /\ sent <= buffered /\ sent = offset + m_trx_size
      /\ \A r \in terminators : r \in Nat
  BY BufferAssumption DEF BufferTypes, Progress
<1>2. PICK k \in Nat :
           /\ k <= n /\ sent + k <= to
           /\ end > 0 => m_trx_size + k <= end
           /\ \/ k = n \/ sent + k = to
              \/ end > 0 /\ m_trx_size + k = end
           /\ sent' = sent + k /\ m_trx_size' = m_trx_size + k
           /\ returned' = k /\ m_trx_end_offset' = end
           /\ m_partial_row_sent' = partial
           /\ pc' = IF k = 0 THEN "flush" ELSE "ask"
  <2>1. sent <= to
    BY <1>1
  <2> QED
    BY <1>1, <2>1, Consumed
<1>3. /\ size' = size /\ terminators' = terminators /\ escaped' = escaped
      /\ max_trx_size' = max_trx_size /\ length' = length /\ offset' = offset
  BY DEF fileVars
<1>4. BufferTypes'
  <2>1. sent + k \in Nat /\ m_trx_size + k \in Nat /\ k \in 0 .. length
    BY <1>1, <1>2
  <2>2. pc' \in {"ask", "read", "flush", "done"}
    BY <1>2
  <2> QED
    BY <1>2, <1>3, <2>1, <2>2 DEF BufferTypes
<1>5. Progress'
  <2>1. /\ offset <= sent + k /\ sent + k <= to /\ to <= size
        /\ sent + k = offset + (m_trx_size + k)
    BY <1>1, <1>2
  <2>2. pc' # "done"
    BY <1>2
  <2> QED
    BY <1>2, <1>3, <2>1, <2>2 DEF Progress
<1>6. Unlimited'
  BY <1>1, <1>3 DEF Unlimited
<1>7. EndKnown'
  <2>1. pc' # "read"
    BY <1>2
  <2> QED
    BY <1>2, <1>3, <2>1 DEF EndKnown
<1>8. EndUnknown'
  <2> SUFFICES ASSUME end = 0 PROVE EndUnknown'
    BY <1>2 DEF EndUnknown
  <2>1. CASE partial
    <3>1. ASSUME NEW r \in terminators, offset < r, r <= sent + k PROVE FALSE
      BY <1>1, <1>2, <2>1, <3>1
    <3> QED
      BY <1>2, <1>3, <2>1, <3>1 DEF EndUnknown
  <2>2. CASE ~partial
    <3>1. k = n
      BY <1>1, <1>2, <2>2
    <3>2. m_trx_size + k < max_trx_size
      BY <2>2, <3>1
    <3>3. \/ sent + k \in terminators
          \/ \E r \in terminators :
               sent + k < r /\ r <= to /\ r < offset + max_trx_size
      BY <2>2, <3>1
    <3> QED
      BY <1>2, <1>3, <2>2, <3>2, <3>3 DEF EndUnknown
  <2> QED
    BY <2>1, <2>2
<1>9. EndReached'
  <2> SUFFICES ASSUME k = 0 PROVE EndReached'
    BY <1>2 DEF EndReached
  <2>1. CASE end > 0
    <3>1. m_trx_size + k = end
      BY <1>1, <1>2, <2>1
    <3> QED
      BY <1>2, <2>1, <3>1 DEF EndReached
  <2>2. CASE end = 0
    <3>1. sent + k = size
      BY <1>1, <1>2, <2>2
    <3> QED
      BY <1>2, <1>3, <2>2, <3>1 DEF EndReached
  <2> QED
    BY <2>1, <2>2
<1> QED
  BY <1>4, <1>5, <1>6, <1>7, <1>8, <1>9

LEMMA AskInv == BufferInv /\ Ask => BufferInv'
<1> SUFFICES ASSUME BufferInv, Ask PROVE BufferInv'
  OBVIOUS
<1> USE DEF BufferInv
<1>1. /\ size' = size /\ terminators' = terminators /\ escaped' = escaped
      /\ max_trx_size' = max_trx_size /\ length' = length /\ offset' = offset
      /\ sent' = sent /\ buffered' = buffered /\ m_trx_size' = m_trx_size
      /\ m_trx_end_offset' = m_trx_end_offset /\ returned' = returned
      /\ m_partial_row_sent' = m_partial_row_sent /\ m_eof' = m_eof
  BY DEF Ask, fileVars
<1>2. CASE max_trx_size > 0 /\ m_trx_end_offset > 0 /\ m_trx_end_offset <= m_trx_size
  <2>1. pc' = "flush"
    BY <1>2 DEF Ask
  <2>2. m_trx_size = m_trx_end_offset
    BY <1>2 DEF BufferTypes, EndKnown
  <2>3. BufferTypes' /\ Progress' /\ EndUnknown'
    BY <1>1, <2>1 DEF BufferTypes, Progress, EndUnknown
  <2>4. Unlimited'
    BY <1>1, <1>2 DEF BufferTypes, Unlimited
  <2>5. EndKnown'
    BY <1>1, <2>1 DEF EndKnown
  <2>6. EndReached'
    BY <1>1, <1>2, <2>2 DEF EndReached
  <2> QED
    BY <2>3, <2>4, <2>5, <2>6
<1>3. CASE ~(max_trx_size > 0 /\ m_trx_end_offset > 0 /\ m_trx_end_offset <= m_trx_size)
  <2>1. pc' = "read"
    BY <1>3 DEF Ask
  <2>2. m_trx_end_offset > 0 => m_trx_size < m_trx_end_offset
    BY <1>3 DEF BufferTypes, Unlimited
  <2>3. BufferTypes' /\ Progress' /\ EndUnknown'
    BY <1>1, <2>1 DEF BufferTypes, Progress, EndUnknown
  <2>4. Unlimited' /\ EndReached'
    BY <1>1, <2>1 DEF Unlimited, EndReached
  <2>5. EndKnown'
    BY <1>1, <2>1, <2>2 DEF EndKnown
  <2> QED
    BY <2>3, <2>4, <2>5
<1> QED
  BY <1>2, <1>3

LEMMA ReadAllInv == BufferInv /\ ReadAll => BufferInv'
<1> SUFFICES ASSUME BufferInv, ReadAll PROVE BufferInv'
  OBVIOUS
<1> USE DEF BufferInv
<1>1. PICK k \in 0 .. length :
       /\ buffered + k <= size
       /\ k = 0 => buffered = size
       /\ buffered' = buffered + k
       /\ sent' = sent + k
       /\ returned' = k
       /\ pc' = IF k = 0 THEN "flush" ELSE "ask"
  BY DEF ReadAll
<1>2. /\ size' = size /\ terminators' = terminators /\ escaped' = escaped
      /\ max_trx_size' = max_trx_size /\ length' = length /\ offset' = offset
      /\ m_trx_size' = m_trx_size /\ m_trx_end_offset' = m_trx_end_offset
      /\ m_partial_row_sent' = m_partial_row_sent /\ m_eof' = m_eof
      /\ max_trx_size = 0
  BY DEF ReadAll, fileVars
<1>3. /\ sent \in Nat /\ buffered \in Nat /\ offset \in Nat /\ size \in Nat
      /\ length \in Nat /\ offset <= sent /\ sent = buffered
      /\ m_trx_size = 0 /\ m_trx_end_offset = 0 /\ ~m_partial_row_sent
  BY <1>2, BufferAssumption DEF BufferTypes, Progress, Unlimited
<1>4. sent + k \in Nat /\ buffered + k \in Nat /\ k \in Nat /\ offset <= sent + k
  BY <1>3
<1>5. pc' \in {"ask", "flush"}
  BY <1>1
<1>6. BufferTypes'
  BY <1>1, <1>2, <1>4, <1>5 DEF BufferTypes
<1>7. m_eof => buffered + k = size
  BY <1>1, <1>3, <1>4 DEF Progress
<1>8. Progress'
  BY <1>1, <1>2, <1>3, <1>4, <1>5, <1>7 DEF Progress
<1>9. pc' = "flush" => sent + k = size
  BY <1>1, <1>3
<1>10. Unlimited'
  BY <1>1, <1>2, <1>3, <1>9 DEF Unlimited
<1>11. EndKnown' /\ EndUnknown' /\ EndReached'
  BY <1>2, <1>3 DEF EndKnown, EndUnknown, EndReached
<1> QED
  BY <1>6, <1>8, <1>10, <1>11

LEMMA ReadUpToEndInv == BufferInv /\ ReadUpToEnd => BufferInv'
<1> SUFFICES ASSUME BufferInv, ReadUpToEnd PROVE BufferInv'
  OBVIOUS
<1>1. /\ pc = "read" /\ max_trx_size > 0 /\ m_trx_end_offset > 0
      /\ UNCHANGED <<fileVars, offset>>
      /\ buffered' = buffered /\ m_eof' = m_eof
      /\ Consume(length, m_trx_end_offset, m_partial_row_sent)
  BY DEF ReadUpToEnd
<1>2. /\ buffered \in Nat /\ length \in Nat /\ length > 0 /\ m_trx_end_offset \in Nat
      /\ m_partial_row_sent \in BOOLEAN /\ m_eof \in BOOLEAN
      /\ buffered <= buffered /\ buffered <= size /\ (m_eof => buffered = size)
      /\ length <= length
  BY DEF BufferInv, BufferTypes, Progress
<1>3. /\ m_trx_size <= m_trx_end_offset /\ offset + m_trx_end_offset <= buffered
      /\ offset + m_trx_end_offset \in terminators \cup {size}
      /\ m_trx_end_offset > max_trx_size =>
           \A r \in terminators : ~(offset < r /\ r < offset + m_trx_end_offset)
  BY <1>1 DEF BufferInv, EndKnown
<1>4. m_trx_end_offset # 0
  BY <1>1, <1>2
<1> QED
  BY <1>1, <1>2, <1>3, <1>4, ConsumeInv

\* More was read, and m_data ends at the offset `to'.
MoreRead(to, eof) ==
  /\ BufferInv /\ pc = "read" /\ max_trx_size > 0 /\ m_trx_end_offset = 0
  /\ UNCHANGED <<fileVars, offset>>
  /\ to \in Nat /\ buffered <= to /\ to <= size /\ buffered' = to
  /\ eof \in BOOLEAN /\ m_eof' = eof /\ (eof => to = size)
  /\ sent = to => to = size

\* What read() knows of m_data.
LEMMA MoreReadFacts ==
  ASSUME NEW to, NEW eof, MoreRead(to, eof),
         NEW data, data = {b \in 1 .. to - sent : sent + b \in terminators}
  PROVE  /\ sent \in Nat /\ buffered \in Nat /\ offset \in Nat /\ to \in Nat
         /\ m_trx_size \in Nat /\ max_trx_size \in Nat /\ size \in Nat
         /\ length \in Nat /\ length >= 2 /\ m_partial_row_sent \in BOOLEAN
         /\ Terminator = 1
         /\ sent = offset + m_trx_size /\ sent <= to /\ to <= size
         /\ to - sent \in Nat /\ data \in SUBSET (1 .. to - sent)
         /\ trx_bytes_left = max_trx_size - m_trx_size
         /\ \A b \in data : b \in Nat /\ b >= 1 /\ sent + b <= to
                            /\ sent + b \in terminators
         /\ \A r \in terminators :
              r \in Nat /\ (sent < r /\ r <= to => r - sent \in data)
<1> USE DEF MoreRead, BufferInv
<1>1. /\ sent \in Nat /\ buffered \in Nat /\ offset \in Nat /\ to \in Nat
      /\ m_trx_size \in Nat /\ max_trx_size \in Nat /\ size \in Nat
      /\ length \in Nat /\ length >= 2 /\ m_partial_row_sent \in BOOLEAN
      /\ Terminator = 1
      /\ sent = offset + m_trx_size /\ sent <= buffered /\ buffered <= to
      /\ to <= size
  BY BufferAssumption DEF BufferTypes, Progress
<1>2. to - sent \in Nat /\ sent <= to
  BY <1>1
<1>3. \A r \in terminators : r \in Nat
  BY <1>1 DEF BufferTypes
<1>4. ASSUME NEW r \in terminators, sent < r, r <= to PROVE r - sent \in data
  <2>1. r \in Nat
    BY <1>3
  <2>2. r - sent \in 1 .. to - sent /\ sent + (r - sent) = r
    BY <1>1, <1>4, <2>1
  <2> QED
    BY <2>2
<1>5. ASSUME NEW b \in data
      PROVE  b \in Nat /\ b >= 1 /\ sent + b <= to /\ sent + b \in terminators
  <2>1. b \in 1 .. to - sent /\ sent + b \in terminators
    OBVIOUS
  <2> QED
    BY <1>1, <1>2, <2>1
<1>6. trx_bytes_left = max_trx_size - m_trx_size
  BY DEF trx_bytes_left
<1>7. data \in SUBSET (1 .. to - sent)
  OBVIOUS
<1> QED
  BY <1>1, <1>2, <1>3, <1>4, <1>5, <1>6, <1>7

\* No row of the transaction was sent.
NoRowSent == \A r \in terminators : ~(offset < r /\ r <= sent)

LEMMA NoRowSentYet ==
  ASSUME NEW to, NEW eof, MoreRead(to, eof), m_partial_row_sent \/ m_trx_size = 0
  PROVE  NoRowSent
<1> USE DEF MoreRead, BufferInv
<1>1. CASE m_partial_row_sent
  BY <1>1 DEF EndUnknown, NoRowSent
<1>2. CASE m_trx_size = 0
  <2>1. offset \in Nat /\ sent = offset /\ \A r \in terminators : r \in Nat
    BY <1>2 DEF BufferTypes, Progress
  <2> QED
    BY <2>1 DEF NoRowSent
<1> QED
  BY <1>1, <1>2

\* A part of the only row is sent, and it does not end in m_data.
LEMMA PartialInv ==
  ASSUME NEW to, NEW eof, MoreRead(to, eof), NoRowSent,
         NEW data, data = {b \in 1 .. to - sent : sent + b \in terminators},
         data = {}, Consume(length, 0, TRUE)
  PROVE  BufferInv'
<1>1. /\ sent \in Nat /\ offset \in Nat /\ to \in Nat
      /\ length \in Nat /\ length >= 2
      /\ \A r \in terminators :
           r \in Nat /\ (sent < r /\ r <= to => r - sent \in data)
  BY MoreReadFacts
<1>2. ASSUME NEW r \in terminators, offset < r PROVE r > to
  BY <1>1, <1>2 DEF NoRowSent
<1>3. BufferInv /\ pc = "read" /\ max_trx_size > 0
      /\ UNCHANGED <<fileVars, offset>>
      /\ to \in Nat /\ buffered' = to /\ buffered <= to /\ to <= size
      /\ eof \in BOOLEAN /\ m_eof' = eof /\ (eof => to = size)
      /\ (sent = to => to = size)
  BY DEF MoreRead
<1>4. length \in Nat /\ length > 0 /\ length <= length
      /\ 0 \in Nat /\ ~(0 > 0) /\ TRUE \in BOOLEAN
  BY <1>1
<1>5. \A r \in terminators : offset < r => r > sent + length \/ r > to
  BY <1>2
<1> QED
  BY <1>3, <1>4, <1>5, ConsumeInv, Zenon

\* The end of the transaction is found.
LEMMA EndFound ==
  ASSUME NEW to, NEW eof, MoreRead(to, eof),
         NEW partial \in BOOLEAN, NEW end \in Nat, end > 0,
         Consume(length, end, partial),
         m_trx_size <= end, offset + end <= to,
         offset + end \in terminators \cup {size},
         end > max_trx_size =>
           \A r \in terminators : ~(offset < r /\ r < offset + end)
  PROVE  BufferInv'
<1>1. BufferInv /\ pc = "read" /\ max_trx_size > 0
      /\ UNCHANGED <<fileVars, offset>>
      /\ to \in Nat /\ buffered' = to /\ buffered <= to /\ to <= size
      /\ eof \in BOOLEAN /\ m_eof' = eof /\ (eof => to = size)
  BY DEF MoreRead
<1>2. length \in Nat /\ length > 0 /\ length <= length /\ end # 0
  BY <1>1 DEF BufferInv, BufferTypes
<1> QED
  BY <1>1, <1>2, ConsumeInv

\* What was read fills the transaction.
LEMMA FillsInv ==
  ASSUME NEW to, NEW eof, MoreRead(to, eof),
         NEW data, data = {b \in 1 .. to - sent : sent + b \in terminators},
         to - sent >= trx_bytes_left,
         Fills(data, to - sent)
  PROVE  BufferInv'
<1> DEFINE left == max_trx_size - m_trx_size
           last == find_last_row_boundary_before(data, to - sent, left)
           first == find_first_row_boundary_after(data)
<1>1. /\ sent \in Nat /\ buffered \in Nat /\ offset \in Nat /\ to \in Nat
      /\ m_trx_size \in Nat /\ max_trx_size \in Nat /\ size \in Nat
      /\ length \in Nat /\ length >= 2 /\ m_partial_row_sent \in BOOLEAN
      /\ Terminator = 1
      /\ sent = offset + m_trx_size /\ sent <= to /\ to <= size
      /\ to - sent \in Nat /\ data \in SUBSET (1 .. to - sent)
  BY MoreReadFacts
<1>2. \A b \in data : b \in Nat /\ b >= 1 /\ sent + b <= to
                      /\ sent + b \in terminators
  BY MoreReadFacts
<1>3. \A r \in terminators :
        r \in Nat /\ (sent < r /\ r <= to => r - sent \in data)
  BY MoreReadFacts
<1>4. trx_bytes_left = left /\ left \in Int
  BY <1>1, MoreReadFacts
<1>5. /\ last \in Nat
      /\ last > 0 => last \in data
      /\ left > 0 => last <= left
      /\ last = 0 /\ left >= 2 => \A b \in data : b > left
  <2> HIDE DEF left
  <2>1. data \in SUBSET (1 .. to - sent) /\ to - sent \in Nat /\ left \in Int
        /\ Terminator = 1
    BY <1>1, <1>4
  <2>2. last = find_last_row_boundary_before(data, to - sent, left)
    OBVIOUS
  <2> HIDE DEF last
  <2> QED
    BY <2>1, <2>2, LastBoundary
<1>6. /\ first \in Nat
      /\ first > 0 => first \in data /\ \A b \in data : first <= b
      /\ first = 0 => data = {}
  BY <1>1, FirstBoundary
<1>7. ~m_partial_row_sent =>
        /\ left > 0
        /\ \/ m_trx_size = 0
           \/ sent \in terminators
           \/ \E r \in terminators :
                sent < r /\ r <= buffered /\ r < offset + max_trx_size
  <2>1. ~m_partial_row_sent =>
        /\ m_trx_size < max_trx_size
        /\ \/ m_trx_size = 0
           \/ sent \in terminators
           \/ \E r \in terminators :
                sent < r /\ r <= buffered /\ r < offset + max_trx_size
    BY DEF MoreRead, BufferInv, EndUnknown
  <2>2. m_trx_size < max_trx_size => left > 0
    BY <1>1
  <2> QED
    BY <2>1, <2>2
<1>8. \/ /\ left > 0 \/ ~m_partial_row_sent
         /\ last > 0
         /\ Consume(length, m_trx_size + last, m_partial_row_sent)
      \/ /\ last = 0
         /\ ~m_partial_row_sent /\ m_trx_size > 0
         /\ m_trx_end_offset' = m_trx_size
         /\ returned' = 0
         /\ pc' = "flush"
         /\ UNCHANGED <<sent, m_trx_size, m_partial_row_sent>>
      \/ /\ m_partial_row_sent \/ m_trx_size = 0
         /\ IF first > 0
            THEN Consume(length, m_trx_size + first, m_partial_row_sent)
            ELSE Consume(length, 0, TRUE)
  BY <1>4, Zenon DEF Fills
<1> HIDE DEF last, first
\* the last row that fits
<1>9. ASSUME left > 0 \/ ~m_partial_row_sent, last > 0,
             Consume(length, m_trx_size + last, m_partial_row_sent)
      PROVE  BufferInv'
  <2>1. left > 0
    BY <1>7, <1>9
  <2>2. /\ last \in Nat /\ last <= left /\ sent + last <= to
        /\ sent + last \in terminators
    BY <1>2, <1>5, <1>9, <2>1
  <2>3. offset + (m_trx_size + last) = sent + last
    BY <1>1, <2>2
  <2>4. /\ m_trx_size + last \in Nat /\ m_trx_size + last > 0
        /\ m_trx_size <= m_trx_size + last
        /\ ~(m_trx_size + last > max_trx_size)
    BY <1>1, <1>9, <2>2
  <2> QED
    BY <1>1, <1>9, <2>2, <2>3, <2>4, EndFound
\* the rows that were sent
<1>10. ASSUME last = 0, ~m_partial_row_sent, m_trx_size > 0,
              m_trx_end_offset' = m_trx_size, returned' = 0, pc' = "flush",
              UNCHANGED <<sent, m_trx_size, m_partial_row_sent>>
       PROVE  BufferInv'
  <2>1. sent \in terminators
    <3>1. ASSUME NEW r \in terminators, sent < r, r <= buffered,
                 r < offset + max_trx_size
          PROVE  FALSE
      <4>1. r \in Nat /\ buffered <= to
        BY <1>3 DEF MoreRead
      <4>2. r <= to
        BY <1>1, <3>1, <4>1
      <4>3. r - sent \in data
        BY <1>3, <3>1, <4>2
      <4>4. left >= 2 /\ ~(r - sent > left)
        BY <1>1, <3>1, <4>1
      <4> QED
        BY <1>5, <1>10, <4>3, <4>4
    <3>2. m_trx_size # 0
      BY <1>1, <1>10
    <3> QED
      BY <1>7, <1>10, <3>1, <3>2
  <2>2. /\ size' = size /\ terminators' = terminators /\ escaped' = escaped
        /\ max_trx_size' = max_trx_size /\ length' = length /\ offset' = offset
        /\ buffered' = to /\ m_eof' = eof /\ eof \in BOOLEAN /\ (eof => to = size)
        /\ sent' = sent /\ m_trx_size' = m_trx_size
        /\ m_partial_row_sent' = m_partial_row_sent
    BY <1>10 DEF MoreRead, fileVars
  <2>3. BufferInv /\ max_trx_size > 0
    BY DEF MoreRead
  <2>4. BufferTypes'
    <3>1. 0 \in 0 .. length
      BY <1>1
    <3> QED
      BY <1>1, <1>10, <2>2, <2>3, <3>1 DEF BufferInv, BufferTypes
  <2>5. Progress'
    BY <1>1, <1>10, <2>2, <2>3 DEF BufferInv, Progress
  <2>6. Unlimited'
    BY <1>1, <2>2, <2>3 DEF Unlimited
  <2>7. EndKnown'
    <3>1. /\ m_trx_size <= m_trx_size /\ offset + m_trx_size <= to
          /\ offset + m_trx_size \in terminators
      BY <1>1, <2>1
    <3>2. ~(m_trx_size > max_trx_size)
      BY <1>1, <1>7, <1>10
    <3> QED
      BY <1>10, <2>2, <3>1, <3>2 DEF EndKnown
  <2>8. EndUnknown'
    <3>1. m_trx_size # 0
      BY <1>1, <1>10
    <3> QED
      BY <1>10, <3>1 DEF EndUnknown
  <2>9. EndReached'
    BY <1>10, <2>2 DEF EndReached
  <2> QED
    BY <2>4, <2>5, <2>6, <2>7, <2>8, <2>9 DEF BufferInv
\* the only row
<1>11. ASSUME m_partial_row_sent \/ m_trx_size = 0,
              IF first > 0
              THEN Consume(length, m_trx_size + first, m_partial_row_sent)
              ELSE Consume(length, 0, TRUE)
       PROVE  BufferInv'
  <2>1. NoRowSent
    BY <1>11, NoRowSentYet
  <2>2. CASE first > 0
    <3>1. /\ first \in Nat /\ sent + first <= to /\ sent + first \in terminators
      BY <1>2, <1>6, <2>2
    <3>2. offset + (m_trx_size + first) = sent + first
      BY <1>1, <3>1
    <3>3. /\ m_trx_size + first \in Nat /\ m_trx_size + first > 0
          /\ m_trx_size <= m_trx_size + first
      BY <1>1, <2>2, <3>1
    <3>4. ASSUME NEW r \in terminators, offset < r, r < sent + first PROVE FALSE
      <4>1. r \in Nat /\ sent < r /\ r <= to
        BY <1>1, <1>3, <2>1, <3>1, <3>4 DEF NoRowSent
      <4>2. first <= r - sent
        BY <1>3, <1>6, <2>2, <4>1
      <4> QED
        BY <1>1, <3>1, <3>4, <4>1, <4>2
    <3>5. Consume(length, m_trx_size + first, m_partial_row_sent)
      BY <1>11, <2>2
    <3> QED
      BY <1>1, <3>1, <3>2, <3>3, <3>4, <3>5, EndFound
  <2>3. CASE ~(first > 0)
    <3>1. data = {}
      BY <1>6, <2>3
    <3>2. Consume(length, 0, TRUE)
      BY <1>11, <2>3
    <3> QED
      BY <2>1, <3>1, <3>2, PartialInv
  <2> QED
    BY <2>2, <2>3
<1> QED
  BY <1>8, <1>9, <1>10, <1>11

\* There is still space in the transaction.
LEMMA HasSpaceInv ==
  ASSUME NEW to, NEW eof, MoreRead(to, eof),
         NEW data, data = {b \in 1 .. to - sent : sent + b \in terminators},
         ~(to - sent >= trx_bytes_left),
         HasSpace(data, to - sent)
  PROVE  BufferInv'
<1> DEFINE left == max_trx_size - m_trx_size
           within == find_last_row_boundary_before(data, to - sent, length)
           beyond == find_last_row_boundary_before(data, to - sent, left)
<1>1. /\ sent \in Nat /\ buffered \in Nat /\ offset \in Nat /\ to \in Nat
      /\ m_trx_size \in Nat /\ max_trx_size \in Nat /\ size \in Nat
      /\ length \in Nat /\ length >= 2 /\ m_partial_row_sent \in BOOLEAN
      /\ Terminator = 1
      /\ sent = offset + m_trx_size /\ sent <= to /\ to <= size
      /\ to - sent \in Nat /\ data \in SUBSET (1 .. to - sent)
  BY MoreReadFacts
<1>2. \A b \in data : b \in Nat /\ b >= 1 /\ sent + b <= to
                      /\ sent + b \in terminators
  BY MoreReadFacts
<1>3. \A r \in terminators :
        r \in Nat /\ (sent < r /\ r <= to => r - sent \in data)
  BY MoreReadFacts
<1>4. trx_bytes_left = left /\ left \in Int
  BY <1>1, MoreReadFacts
<1>5. to - sent < left /\ left >= to - sent
  BY <1>1, <1>4
<1>6. /\ within \in Nat
      /\ within > 0 => within \in data
      /\ within <= length
      /\ within = 0 => \A b \in data : b > length
  <2>1. PICK l \in Int : l = length
    BY <1>1
  <2>2. data \in SUBSET (1 .. to - sent) /\ to - sent \in Nat /\ l > 0 /\ l >= 2
        /\ Terminator = 1
    BY <1>1, <2>1
  <2>3. within = find_last_row_boundary_before(data, to - sent, l)
    BY <2>1
  <2> HIDE DEF within
  <2>4. /\ within \in Nat
        /\ within > 0 => within \in data
        /\ l > 0 => within <= l
        /\ within = 0 /\ l >= 2 => \A b \in data : b > l
    BY <2>2, <2>3, LastBoundary
  <2> QED
    BY <2>1, <2>2, <2>4
<1>7. /\ beyond \in Nat
      /\ beyond > 0 => beyond \in data
      /\ beyond = 0 => data = {}
  <2> HIDE DEF left
  <2>1. data \in SUBSET (1 .. to - sent) /\ to - sent \in Nat /\ left \in Int
        /\ Terminator = 1
    BY <1>1, <1>4
  <2>2. beyond = find_last_row_boundary_before(data, to - sent, left)
    OBVIOUS
  <2> HIDE DEF beyond
  <2> QED
    BY <1>5, <2>1, <2>2, LastBoundary
<1>8. BufferInv /\ pc = "read" /\ max_trx_size > 0 /\ m_trx_end_offset = 0
      /\ UNCHANGED <<fileVars, offset>>
      /\ to \in Nat /\ buffered' = to /\ buffered <= to /\ to <= size
      /\ eof \in BOOLEAN /\ m_eof' = eof /\ (eof => to = size)
      /\ (sent = to => to = size)
  BY DEF MoreRead
<1>9. IF within > 0 THEN Consume(within, 0, FALSE)
      ELSE IF beyond > 0
      THEN Consume(IF length < beyond THEN length ELSE beyond, 0,
                          m_partial_row_sent)
      ELSE IF m_trx_size = 0 THEN Consume(length, 0, TRUE)
      ELSE IF m_partial_row_sent THEN Consume(length, 0, TRUE)
      ELSE IF m_eof' THEN Consume(length, m_trx_size + (to - sent), FALSE)
      ELSE UNCHANGED <<sent, m_trx_size, m_trx_end_offset, m_partial_row_sent,
                       returned, pc>>
  BY <1>4, Zenon DEF HasSpace
<1> HIDE DEF within, beyond
\* whole rows
<1>10. CASE within > 0
  <2>1. /\ within \in Nat /\ within <= length /\ sent + within <= to
        /\ sent + within \in terminators
    BY <1>2, <1>6, <1>10
  <2>2. m_trx_size + within < max_trx_size
    BY <1>1, <1>5, <2>1
  <2>3. Consume(within, 0, FALSE)
    BY <1>9, <1>10
  <2>4. 0 \in Nat /\ ~(0 > 0) /\ FALSE \in BOOLEAN
    OBVIOUS
  <2> QED
    BY <1>8, <1>10, <2>1, <2>2, <2>3, <2>4, ConsumeInv, Zenon
\* a part of a row which is in m_data
<1>11. CASE ~(within > 0) /\ beyond > 0
  <2>1. \A b \in data : b > length
    BY <1>6, <1>11
  <2>2. beyond \in data /\ beyond > length
    BY <1>7, <1>11, <2>1
  <2>3. /\ beyond \in Nat /\ sent + beyond <= to /\ sent + beyond \in terminators
    BY <1>2, <2>2
  <2>4. Consume(length, 0, m_partial_row_sent)
    <3>1. length < beyond
      BY <1>1, <2>2, <2>3
    <3>2. (IF length < beyond THEN length ELSE beyond) = length
      BY <3>1
    <3> QED
      BY <1>9, <1>11, <3>2
  <2>5. ASSUME m_partial_row_sent, NEW r \in terminators, offset < r
        PROVE  r > sent + length \/ r > to
    <3>1. r \in Nat /\ sent < r
      BY <1>1, <1>3, <2>5, NoRowSentYet DEF NoRowSent
    <3>2. r <= to => r - sent > length
      BY <1>3, <2>1, <3>1
    <3> QED
      BY <1>1, <3>1, <3>2
  <2>6. /\ sent + length <= to /\ m_trx_size + length < max_trx_size
        /\ sent + length < sent + beyond /\ sent + beyond < offset + max_trx_size
    BY <1>1, <1>5, <2>2, <2>3
  <2>7. \E r \in terminators :
          sent + length < r /\ r <= to /\ r < offset + max_trx_size
    BY <2>3, <2>6
  <2>8. length \in Nat /\ length > 0 /\ length <= length
        /\ 0 \in Nat /\ ~(0 > 0) /\ m_partial_row_sent \in BOOLEAN
    BY <1>1
  <2>9. m_partial_row_sent =>
          \A r \in terminators : offset < r => r > sent + length \/ r > to
    BY <2>5
  <2>10. CASE m_partial_row_sent
    <3>1. Consume(length, 0, TRUE) /\ TRUE \in BOOLEAN
      BY <2>4, <2>10
    <3> QED
      BY <1>8, <2>8, <2>9, <2>10, <3>1, ConsumeInv, Zenon
  <2>11. CASE ~m_partial_row_sent
    <3>1. Consume(length, 0, FALSE) /\ FALSE \in BOOLEAN
      BY <2>4, <2>8, <2>11
    <3> QED
      BY <1>8, <2>6, <2>7, <2>8, <2>11, <3>1, ConsumeInv, Zenon
  <2> QED
    BY <2>10, <2>11
\* a part of a row which is not
<1>12. CASE ~(within > 0) /\ ~(beyond > 0) /\ (m_trx_size = 0 \/ m_partial_row_sent)
  <2>1. data = {}
    BY <1>7, <1>12
  <2>2. NoRowSent
    BY <1>12, NoRowSentYet
  <2>3. Consume(length, 0, TRUE)
    BY <1>9, <1>12
  <2> QED
    BY <2>1, <2>2, <2>3, PartialInv
\* the end of the file
<1>13. CASE /\ ~(within > 0) /\ ~(beyond > 0)
            /\ m_trx_size # 0 /\ ~m_partial_row_sent /\ eof
  <2>1. Consume(length, m_trx_size + (to - sent), FALSE)
    BY <1>8, <1>9, <1>13
  <2>2. offset + (m_trx_size + (to - sent)) = to /\ to = size
    BY <1>1, <1>8, <1>13
  <2>3. /\ m_trx_size + (to - sent) \in Nat /\ m_trx_size + (to - sent) > 0
        /\ m_trx_size <= m_trx_size + (to - sent)
        /\ ~(m_trx_size + (to - sent) > max_trx_size)
    BY <1>1, <1>5, <1>13
  <2>4. to <= to
    BY <1>1
  <2> QED
    BY <2>1, <2>2, <2>3, <2>4, EndFound
\* more is to be read
<1>14. CASE /\ ~(within > 0) /\ ~(beyond > 0)
            /\ m_trx_size # 0 /\ ~m_partial_row_sent /\ ~eof
  <2>1. /\ sent' = sent /\ m_trx_size' = m_trx_size
        /\ m_trx_end_offset' = m_trx_end_offset /\ returned' = returned
        /\ m_partial_row_sent' = m_partial_row_sent /\ pc' = pc
    BY <1>8, <1>9, <1>14
  <2>2. /\ size' = size /\ terminators' = terminators /\ escaped' = escaped
        /\ max_trx_size' = max_trx_size /\ length' = length /\ offset' = offset
        /\ buffered' = to /\ m_eof' = eof
    BY <1>8 DEF fileVars
  <2>3. BufferTypes'
    BY <1>8, <2>1, <2>2 DEF BufferInv, BufferTypes
  <2>4. Progress'
    BY <1>1, <1>8, <1>14, <2>1, <2>2 DEF BufferInv, Progress
  <2>5. Unlimited' /\ EndKnown' /\ EndReached'
    BY <1>1, <1>8, <2>1, <2>2 DEF Unlimited, EndKnown, EndReached
  <2>6. EndUnknown'
    <3>1. /\ m_trx_size < max_trx_size
          /\ \/ m_trx_size = 0
             \/ sent \in terminators
             \/ \E r \in terminators :
                  sent < r /\ r <= buffered /\ r < offset + max_trx_size
      BY <1>8, <1>14 DEF BufferInv, EndUnknown
    <3>2. \A r \in terminators : r <= buffered => r <= to
      BY <1>1, <1>3, <1>8
    <3> QED
      BY <1>14, <2>1, <2>2, <3>1, <3>2 DEF EndUnknown
  <2> QED
    BY <2>3, <2>4, <2>5, <2>6 DEF BufferInv
<1>15. eof \in BOOLEAN
  BY <1>8
<1> QED
  BY <1>10, <1>11, <1>12, <1>13, <1>14, <1>15

LEMMA ReadMoreInv == BufferInv /\ ReadMore => BufferInv'
<1> SUFFICES ASSUME BufferInv, ReadMore PROVE BufferInv'
  OBVIOUS
<1>1. PICK k \in 0 .. length :
        /\ buffered + k <= size
        /\ k = 0 => buffered = size
        /\ buffered' = buffered + k
        /\ m_eof' = (m_eof \/ k = 0)
  BY DEF ReadMore, ReadFile
<1>2. /\ buffered \in Nat /\ sent \in Nat /\ size \in Nat /\ length \in Nat
      /\ sent <= buffered /\ (m_eof => buffered = size) /\ m_eof \in BOOLEAN
      /\ \A r \in terminators : r \in Nat
      /\ terminators \in SUBSET (1 .. size) /\ escaped = {} /\ Terminator = 1
  BY BufferAssumption DEF BufferInv, BufferTypes, Progress
<1>3. PICK to \in Nat : to = buffered + k
  BY <1>1, <1>2
<1>4. PICK eof \in BOOLEAN : eof = (m_eof \/ k = 0)
  OBVIOUS
<1>5. /\ buffered <= to /\ to <= size /\ sent <= to /\ (eof => to = size)
      /\ sent = to => to = size
  BY <1>1, <1>2, <1>3, <1>4
<1>6. MoreRead(to, eof)
  BY <1>1, <1>3, <1>4, <1>5 DEF MoreRead, ReadMore
<1> DEFINE data == {b \in 1 .. to - sent : sent + b \in terminators}
<1>7. Boundaries(sent, to) = data
  BY <1>2, <1>5, BoundariesOf
<1>8. IF to - sent >= trx_bytes_left
      THEN Fills(data, to - sent) ELSE HasSpace(data, to - sent)
  <2> HIDE DEF data
  <2>1. buffered' = to
    BY <1>1, <1>3
  <2> QED
    BY <1>7, <2>1 DEF ReadMore
<1>9. PICK d : d = data
  OBVIOUS
<1>10. IF to - sent >= trx_bytes_left
       THEN Fills(d, to - sent) ELSE HasSpace(d, to - sent)
  <2> HIDE DEF data
  <2> QED
    BY <1>8, <1>9
<1> QED
  BY <1>6, <1>9, <1>10, FillsInv, HasSpaceInv

LEMMA BufferFlushInv == BufferInv /\ FlushDone => BufferInv'
<1> SUFFICES ASSUME BufferInv, FlushDone PROVE BufferInv'
  OBVIOUS
<1> USE DEF BufferInv
<1>1. /\ size' = size /\ terminators' = terminators /\ escaped' = escaped
      /\ max_trx_size' = max_trx_size /\ length' = length
      /\ sent' = sent /\ buffered' = buffered /\ m_eof' = m_eof
      /\ returned' = returned /\ offset' = sent /\ m_trx_size' = 0
      /\ m_trx_end_offset' = 0 /\ m_partial_row_sent' = FALSE
      /\ pc' = IF max_trx_size > 0 /\ (~m_eof \/ sent < buffered)
               THEN "ask" ELSE "done"
  BY DEF FlushDone, fileVars
<1>2. /\ sent \in Nat /\ buffered \in Nat /\ size \in Nat /\ max_trx_size \in Nat
      /\ sent <= buffered /\ buffered <= size /\ (m_eof => buffered = size)
  BY BufferAssumption DEF BufferTypes, Progress
<1>3. BufferTypes'
  <2>1. pc' \in {"ask", "done"}
    BY <1>1
  <2> QED
    BY <1>1, <1>2, <2>1 DEF BufferTypes
<1>4. pc' = "done" => sent = size
  <2>1. CASE max_trx_size = 0
    BY <2>1 DEF Unlimited, FlushDone
  <2>2. CASE max_trx_size > 0
    BY <1>1, <1>2, <2>2
  <2> QED
    BY <1>2, <2>1, <2>2
<1>5. Progress'
  BY <1>1, <1>2, <1>4 DEF Progress
<1>6. pc' # "flush"
  BY <1>1
<1>7. Unlimited'
  BY <1>1, <1>6 DEF Unlimited
<1>8. EndKnown' /\ EndUnknown' /\ EndReached'
  BY <1>1, <1>2, <1>6 DEF EndKnown, EndUnknown, EndReached
<1> QED
  BY <1>3, <1>5, <1>7, <1>8

LEMMA BufferNext == BufferInv /\ [Next]_vars => BufferInv'
<1> SUFFICES ASSUME BufferInv, [Next]_vars PROVE BufferInv'
  OBVIOUS
<1>1. CASE UNCHANGED vars
  BY <1>1 DEF vars, fileVars, BufferInv, BufferTypes, Progress,
     Unlimited, EndKnown, EndUnknown, EndReached
<1> QED
  BY <1>1, AskInv, ReadAllInv, ReadUpToEndInv, ReadMoreInv, BufferFlushInv
  DEF Next, Done

\* The inductive invariant of Transaction_buffer: where the end of a transaction
\* is, once read() has found it, and what m_data has of the row until then.
THEOREM BufferInvariance == OneByteLines /\ Spec => []BufferInv
<1> QED
  BY BufferInit, BufferNext, PTL DEF Spec

\* read() keeps a transaction within max_trx_size, unless it has a single row;
\* consume() does not get past the end of a transaction, a part of a row is sent
\* only if that is recorded, and the client gets no more than it has asked for.
THEOREM WithinLimitsCorrect == OneByteLines /\ Spec => []WithinLimits
<1>1. BufferInv => WithinLimits
  <2> SUFFICES ASSUME BufferInv PROVE WithinLimits
    OBVIOUS
  <2> USE DEF BufferInv
  <2>1. /\ sent \in Nat /\ buffered \in Nat /\ offset \in Nat
        /\ m_trx_size \in Nat /\ m_trx_end_offset \in Nat /\ size \in Nat
        /\ max_trx_size \in Nat /\ length \in Nat
        /\ offset <= sent /\ sent <= buffered /\ buffered <= size
        /\ \A r \in terminators : r \in Nat
    BY BufferAssumption DEF BufferTypes, Progress
  <2>2. RowEnds = terminators
    BY BufferRowEnds DEF BufferTypes
  <2>3. max_trx_size > 0 => sent = offset + m_trx_size
    BY DEF Progress
  <2>4. max_trx_size = 0 => m_trx_size = 0 /\ m_trx_end_offset = 0
    BY DEF Unlimited
  <2>5. TypeOK
    <3>1. m_trx_size \in 0 .. size
      BY <2>1, <2>3, <2>4
    <3>2. m_trx_end_offset \in 0 .. size
      <4>1. m_trx_end_offset > 0 => offset + m_trx_end_offset <= buffered
        BY DEF EndKnown
      <4> QED
        BY <2>1, <4>1
    <3>3. 0 <= offset
      BY <2>1
    <3> QED
      BY <2>1, <3>1, <3>2, <3>3 DEF TypeOK, BufferTypes
  <2>6. WithinLimit
    <3> SUFFICES ASSUME max_trx_size > 0, m_trx_size > max_trx_size,
                        NEW r \in terminators, offset < r, r < sent
                 PROVE  FALSE
      BY <2>2 DEF WithinLimit
    <3>1. CASE m_trx_end_offset > 0
      <4>1. /\ m_trx_size <= m_trx_end_offset
            /\ m_trx_end_offset > max_trx_size =>
                 ~(offset < r /\ r < offset + m_trx_end_offset)
        BY <3>1 DEF EndKnown
      <4>2. m_trx_end_offset > max_trx_size
        BY <2>1, <4>1
      <4>3. r < offset + m_trx_end_offset
        BY <2>1, <2>3, <4>1
      <4> QED
        BY <4>1, <4>2, <4>3
    <3>2. CASE m_trx_end_offset = 0
      <4>1. CASE m_partial_row_sent
        <5>1. ~(offset < r /\ r <= sent)
          BY <3>2, <4>1 DEF EndUnknown
        <5> QED
          BY <2>1, <5>1
      <4>2. CASE ~m_partial_row_sent
        <5>1. m_trx_size < max_trx_size
          BY <3>2, <4>2 DEF EndUnknown
        <5> QED
          BY <2>1, <5>1
      <4> QED
        BY <4>1, <4>2
    <3> QED
      BY <2>1, <3>1, <3>2
  <2>7. EndNotPassed
    <3>1. m_trx_end_offset > 0 => m_trx_size <= m_trx_end_offset
      BY DEF EndKnown
    <3>2. ASSUME m_trx_size > 0, ~m_partial_row_sent, m_trx_end_offset = 0,
                 sent \notin terminators
          PROVE  \E r \in terminators : sent < r /\ r <= buffered
      <4>1. max_trx_size > 0 /\ m_trx_size # 0
        BY <2>1, <2>4, <3>2
      <4> QED
        BY <3>2, <4>1 DEF EndUnknown
    <3> QED
      BY <2>2, <3>1, <3>2 DEF EndNotPassed
  <2>8. AskedFor
    BY <2>1 DEF AskedFor, BufferTypes
  <2> QED
    BY <2>5, <2>6, <2>7, <2>8 DEF WithinLimits
<1> QED
  BY <1>1, BufferInvariance, PTL

\* flush_done() is called where a row ends, or the file does.
LEMMA BufferFlush ==
  ASSUME BufferInv, FlushDone
  PROVE  Abstract!Transaction
<1> USE DEF BufferInv
<1>1. /\ size' = size /\ terminators' = terminators /\ escaped' = escaped
      /\ offset' = sent
      /\ pc = "flush" /\ pc' \in {"ask", "done"}
  BY DEF FlushDone, fileVars
<1>2. /\ sent \in Nat /\ offset \in Nat /\ max_trx_size \in Nat
      /\ m_trx_end_offset \in Nat
  BY DEF BufferTypes
<1>3. RowEnds = terminators /\ RowEnds' = terminators
  <2>1. escaped = {} /\ escaped' = {}
    BY <1>1 DEF BufferTypes
  <2> QED
    BY <1>1, <2>1 DEF RowEnds
<1>4. sent \in terminators \cup {size} /\ (sent > offset \/ sent = size)
  <2>1. CASE max_trx_size = 0
    BY <1>1, <2>1 DEF Unlimited
  <2>2. CASE max_trx_size > 0 /\ m_trx_end_offset > 0
    <3>1. m_trx_size = m_trx_end_offset
      BY <1>1, <2>2 DEF EndReached
    <3>2. offset + m_trx_end_offset \in terminators \cup {size}
      BY <2>2 DEF EndKnown
    <3>3. sent = offset + m_trx_end_offset
      BY <2>2, <3>1 DEF Progress
    <3>4. sent > offset
      BY <1>2, <2>2, <3>3
    <3> QED
      BY <3>2, <3>3, <3>4
  <2>3. CASE max_trx_size > 0 /\ m_trx_end_offset = 0
    BY <1>1, <2>3 DEF EndReached
  <2> QED
    BY <1>2, <2>1, <2>2, <2>3
<1>5. BufferInv'
  BY BufferFlushInv
<1>6. pc' = "done" => sent = size
  BY <1>1, <1>5 DEF Progress
<1> QED
  BY <1>1, <1>3, <1>4, <1>6 DEF Abstract!Transaction

\* Transaction_buffer implements SubChunks: transactions end where rows end, no
\* byte is loaded twice, and the last one ends where the file does (read(),
\* consume(), flush_done()).
THEOREM RowsNotTornCorrect == OneByteLines /\ Spec => RowsNotTorn
<1>1. OneByteLines /\ Init => Abstract!Init
  <2> SUFFICES ASSUME OneByteLines, Init PROVE Abstract!Init
    OBVIOUS
  <2>1. BufferInv
    BY BufferInit
  <2>2. /\ size \in Nat /\ offset \in 0 .. size
        /\ terminators \subseteq 0 .. size /\ RowEnds = terminators
    BY <2>1, BufferAssumption, BufferRowEnds DEF BufferInv, BufferTypes, Progress
  <2>3. (pc = "done") = FALSE
    BY DEF Init
  <2> QED
    BY <2>2, <2>3 DEF Abstract!Init
<1>2. BufferInv /\ [Next]_vars =>
        [Abstract!Transaction]_<<RowEnds, size, offset, pc = "done">>
  <2> SUFFICES ASSUME BufferInv, [Next]_vars
               PROVE  \/ Abstract!Transaction
                      \/ UNCHANGED <<RowEnds, size, offset, pc = "done">>
    OBVIOUS
  <2>1. CASE FlushDone
    BY <2>1, BufferFlush
  <2>2. CASE ~FlushDone
    <3>1. /\ terminators' = terminators /\ escaped' = escaped
          /\ size' = size /\ offset' = offset
      BY <2>2 DEF Next, Ask, ReadAll, ReadUpToEnd,
         ReadMore, Done, vars, fileVars
    <3>2. (pc' = "done") = (pc = "done")
      <4>1. CASE UNCHANGED pc
        BY <4>1
      <4>2. CASE pc # "done" /\ pc' # "done"
        BY <4>2
      <4> QED
        BY <2>2, <4>1, <4>2 DEF Next, Ask, ReadAll,
           ReadUpToEnd, ReadMore, Fills, HasSpace,
           Consume, Done, vars
    <3> QED
      BY <3>1, <3>2 DEF RowEnds
  <2> QED
    BY <2>1, <2>2
<1> QED
  BY <1>1, <1>2, BufferInvariance, PTL
  DEF Spec, RowsNotTorn, Abstract!Spec
=============================================================================
