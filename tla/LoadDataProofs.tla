--------------------------- MODULE LoadDataProofs ---------------------------
(***************************************************************************)
(* Proofs about LoadData: for all dumps, tables and numbers of workers and *)
(* runs, the log never claims that something was loaded which was not.     *)
(***************************************************************************)
EXTENDS LoadData, TLAPS

(***************************************************************************)
(* The inductive invariant.                                                *)
(***************************************************************************)

Active(w) == pc[w] # "idle"

\* Who has a chunk, and whose an event is.
Ownership ==
  /\ \A w \in Workers : m_chunk[w] = None <=> ~Active(w)
  /\ \A v, w \in Workers : m_chunk[v] = m_chunk[w] /\ Active(v) => v = w
  /\ \A w \in Workers : m_chunk[w] \notin todo
  /\ \A w \in Workers : Active(w) => last[m_chunk[w]].status # DONE
  /\ phase # "running" => events = <<>> /\ \A w \in Workers : ~Active(w)
  /\ phase = "finished" => todo = {}
  /\ \A i \in 1 .. Len(events) :
       /\ events[i].of = m_chunk[events[i].worker]
       /\ events[i].type = "READY" =>
            /\ pc[events[i].worker] = "ready"
            /\ \A j \in i + 1 .. Len(events) :
                 events[j].worker # events[i].worker

\* A worker has not read beyond the end of its file, nor backwards.
Offsets ==
  /\ \A w \in Workers :
       /\ pc[w] = "start" /\ (HasKey(m_chunk[w]) \/ ~m_resume[w])
            => offset[w] <= Size[m_chunk[w]]
       /\ pc[w] \in {"load", "committed", "loaded", "ended", "ready"}
            => offset[w] <= Size[m_chunk[w]]
       /\ pc[w] = "truncate" => ~HasKey(m_chunk[w])
       /\ begin[w] <= offset[w]
  /\ \A i \in 1 .. Len(events) : events[i].begin <= events[i].end

\* What the log has about a chunk is true.
Truthful(entry, copies, c) ==
  /\ entry.status = PENDING => entry.bytes = 0
  /\ entry.status = DONE => LoadedUpTo(copies, c, Size[c])
  /\ Reached(copies, c, entry.bytes)

\* The log of the chunks of tables with a key.
Progress ==
  \A c \in Chunks :
    HasKey(c) =>
      /\ \A r \in Rows(c) : rows[c][r] <= 1
      /\ Truthful(file[c], rows[c], c)
      /\ Truthful(last[c], rows[c], c)
      /\ phase = "running" /\ c \in todo => file[c] = last[c]
      /\ phase \in {"running", "finished"} /\ c \notin todo
           /\ (\A w \in Workers : m_chunk[w] # c)
           => LoadedUpTo(rows[c], c, Size[c])

\* The log has the chunk as started, or is going to: one of the first n events
\* says so.
Started(entry, evs, w, n) ==
  \/ entry.status # PENDING
  \/ \E j \in 1 .. n : evs[j].worker = w /\ evs[j].type = "LOAD_START"

\* A worker has loaded all that precedes the offset it is at, and this offset
\* is not before the one the log has.
WorkerOK(w) ==
  LET c == m_chunk[w] IN
  /\ Reached(rows[c], c, offset[w])
  /\ pc[w] = "committed" => /\ LoadedUpTo(rows[c], c, offset[w])
                            /\ file[c].bytes <= begin[w]
  /\ pc[w] # "committed" => file[c].bytes <= offset[w]
  /\ pc[w] \in {"loaded", "ended", "ready"} => LoadedUpTo(rows[c], c, Size[c])
  /\ pc[w] # "start" => Started(file[c], events, w, Len(events))

WorkerProgress ==
  \A w \in Workers : Active(w) /\ HasKey(m_chunk[w]) => WorkerOK(w)

\* The same for the sub-chunks whose end was not logged yet.
EventOK(i) ==
  LET e == events[i]
      w == e.worker
      c == m_chunk[w] IN
  /\ e.type = "LOAD_END" => LoadedUpTo(rows[c], c, Size[c])
  /\ e.type = "LOAD_SUBCHUNK_END" =>
       /\ Reached(rows[c], c, e.end)
       /\ file[c].bytes <= e.begin
       /\ pc[w] = "committed" => e.end <= begin[w]
       /\ pc[w] # "committed" => e.end <= offset[w]
       /\ Started(file[c], events, w, i - 1)
       /\ \A j \in i + 1 .. Len(events) :
            events[j].worker = w /\ events[j].type = "LOAD_SUBCHUNK_END"
              => e.end <= events[j].begin

EventProgress ==
  \A i \in 1 .. Len(events) :
    HasKey(m_chunk[events[i].worker]) => EventOK(i)

(***************************************************************************)
(* The invariant of the log: what it says was loaded was.                  *)
(***************************************************************************)
IInv ==
  /\ TypeOK
  /\ Ownership
  /\ Offsets
  /\ Progress
  /\ WorkerProgress
  /\ EventProgress

(***************************************************************************)
(* The invariant of a load that was interrupted at most once: it has not   *)
(* been resumed within a row.                                              *)
(***************************************************************************)

\* Where the next transaction of a worker begins that is to be logged.
NextBegin(w) == IF pc[w] = "committed" THEN begin[w] ELSE offset[w]

\* A worker may commit more sub-chunks, or log one.
Loading(w) == pc[w] \in {"start", "load", "committed"}

\* In the first run, the sub-chunks which are logged follow one another ...
ChainOK(w) ==
  LET entry == file[m_chunk[w]] IN
  /\ pc[w] # "truncate" /\ ~m_resume[w]
  /\ entry.subs <= subchunk[w]
  /\ entry.subs = subchunk[w] /\ Loading(w) => entry.bytes = NextBegin(w)

\* ... with those which are about to be logged.
LinkOK(i) ==
  LET e == events[i]
      w == e.worker
      entry == file[m_chunk[w]] IN
  e.type = "LOAD_SUBCHUNK_END" =>
    /\ e.end \in RowEnds[m_chunk[w]]
    /\ entry.subs <= e.subchunk
    /\ entry.subs = e.subchunk => entry.bytes = e.begin
    /\ e.subchunk < subchunk[w]
    /\ e.subchunk + 1 = subchunk[w] /\ Loading(w) => e.end = NextBegin(w)
    /\ \A j \in i + 1 .. Len(events) :
         events[j].worker = w /\ events[j].type = "LOAD_SUBCHUNK_END" =>
           /\ e.subchunk < events[j].subchunk
           /\ e.subchunk + 1 = events[j].subchunk => e.end = events[j].begin

Chains ==
  /\ \A w \in Workers : Active(w) => ChainOK(w)
  /\ \A i \in 1 .. Len(events) : LinkOK(i)

FirstRun ==
  /\ runs = 0 => file = EmptyLog /\ phase = "down"
  /\ runs <= 1 =>
       /\ last = EmptyLog
       /\ \A c \in Chunks : file[c].bytes \in RowEnds[c]
       /\ phase = "running" => \A c \in todo : file[c] = EmptyLog[c]
       /\ Chains

\* In the second run, loads begin where a row does.
SecondRun ==
  runs <= 2 =>
    /\ torn = {}
    /\ \A c \in Chunks : last[c].bytes \in RowEnds[c]
    /\ \A w \in Workers : Active(w) => offset[w] \in RowEnds[m_chunk[w]]

\* Rows are replaced only in tables that are not intact.
Replacements ==
  \A c \in Chunks : \A r \in Rows(c) :
    <<c, r>> \in overwritten => ~Intact(c)

ExactInv == IInv /\ FirstRun /\ SecondRun /\ Replacements
-----------------------------------------------------------------------------
(***************************************************************************)
(* Lemmas about what is loaded.                                            *)
(***************************************************************************)

LEMMA ChunkFacts ==
  ASSUME NEW c \in Chunks
  PROVE  /\ Size[c] \in Nat
         /\ 0 \in RowEnds[c] /\ Size[c] \in RowEnds[c]
         /\ \A r \in RowEnds[c] : r \in Nat /\ r <= Size[c]
         /\ \A r \in Rows(c) : r \in RowEnds[c] /\ r \in Nat /\ r > 0
                               /\ r <= Size[c]
  BY LoadAssumption DEF Rows

LEMMA NothingReached ==
  ASSUME NEW c \in Chunks, NEW copies
  PROVE  Reached(copies, c, 0)
  BY ChunkFacts DEF Reached, LoadedUpTo

LEMMA ReachedBefore ==
  ASSUME NEW c \in Chunks, NEW copies, NEW o \in Nat, NEW p \in Nat,
         Reached(copies, c, o), p <= o
  PROVE  Reached(copies, c, p)
  BY ChunkFacts DEF Reached

LEMMA ReachedInFile ==
  ASSUME NEW c \in Chunks, NEW copies, NEW o \in Nat, Reached(copies, c, o)
  PROVE  o <= Size[c]
  BY ChunkFacts DEF Reached

LEMMA LoadedReached ==
  ASSUME NEW c \in Chunks, NEW copies, NEW e \in RowEnds[c],
         LoadedUpTo(copies, c, e)
  PROVE  Reached(copies, c, e)
  BY ChunkFacts DEF Reached

LEMMA LoadedAll ==
  ASSUME NEW c \in Chunks, NEW copies, NEW o \in Nat, Size[c] <= o,
         LoadedUpTo(copies, c, o)
  PROVE  LoadedUpTo(copies, c, Size[c])
  BY ChunkFacts DEF LoadedUpTo

\* Rows stay in the table.
LEMMA LoadedStays ==
  ASSUME NEW c \in Chunks, NEW a, NEW b,
         \A r \in Rows(c) : a[r] >= 1 => b[r] >= 1
  PROVE  /\ \A o : LoadedUpTo(a, c, o) => LoadedUpTo(b, c, o)
         /\ \A o : Reached(a, c, o) => Reached(b, c, o)
         /\ \A entry : Truthful(entry, a, c) => Truthful(entry, b, c)
<1>1. \A o : LoadedUpTo(a, c, o) => LoadedUpTo(b, c, o)
  BY DEF LoadedUpTo
<1>2. \A o : Reached(a, c, o) => Reached(b, c, o)
  BY <1>1 DEF Reached
<1> QED
  BY <1>1, <1>2 DEF Truthful

\* A transaction that begins where everything before is loaded leaves
\* everything up to its end loaded, even if it began within a row.
LEMMA TransactionLoads ==
  ASSUME NEW c \in Chunks, NEW a, NEW b, NEW o \in Nat, NEW e \in RowEnds[c],
         Reached(a, c, o),
         \A r \in Rows(c) : a[r] >= 1 => b[r] >= 1,
         \A r \in RowsBetween(c, o, e) : b[r] >= 1
  PROVE  LoadedUpTo(b, c, e)
<1>1. PICK f \in RowEnds[c] : o <= f /\ LoadedUpTo(a, c, f)
  BY DEF Reached
<1> SUFFICES ASSUME NEW r \in Rows(c), r <= e
             PROVE  b[r] >= 1
  BY DEF LoadedUpTo
<1>2. CASE r <= f
  BY <1>1, <1>2 DEF LoadedUpTo
<1>3. CASE ~(r <= f)
  <2>1. f < r
    BY <1>1, <1>3, ChunkFacts
  <2>2. r \in RowsBetween(c, o, e)
    BY <1>1, <2>1 DEF RowsBetween
  <2> QED
    BY <2>2
<1> QED
  BY <1>2, <1>3
-----------------------------------------------------------------------------
(***************************************************************************)
(* Lemmas about the events.                                                *)
(***************************************************************************)

LEMMA AppendFacts ==
  ASSUME NEW S, NEW s \in Seq(S), NEW e \in S
  PROVE  /\ Append(s, e) \in Seq(S)
         /\ Len(s) \in Nat
         /\ Len(Append(s, e)) = Len(s) + 1
         /\ \A i \in 1 .. Len(s) : Append(s, e)[i] = s[i]
         /\ Append(s, e)[Len(s) + 1] = e
  OBVIOUS

LEMMA TailFacts ==
  ASSUME NEW S, NEW s \in Seq(S), s # <<>>
  PROVE  /\ Head(s) \in S /\ Head(s) = s[1]
         /\ Tail(s) \in Seq(S)
         /\ Len(s) \in Nat /\ Len(s) >= 1
         /\ Len(Tail(s)) = Len(s) - 1
         /\ \A i \in 1 .. Len(s) - 1 : Tail(s)[i] = s[i + 1]
  OBVIOUS

LEMMA StartedAppend ==
  ASSUME NEW S, NEW s \in Seq(S), NEW e \in S, NEW entry, NEW w
  PROVE  /\ \A n \in 0 .. Len(s) :
              Started(entry, s, w, n) => Started(entry, Append(s, e), w, n)
         /\ Started(entry, s, w, Len(s))
              => Started(entry, Append(s, e), w, Len(s) + 1)
         /\ e.worker = w /\ e.type = "LOAD_START"
              => Started(entry, Append(s, e), w, Len(s) + 1)
  BY AppendFacts DEF Started

LEMMA StartedTail ==
  ASSUME NEW S, NEW s \in Seq(S), s # <<>>, NEW entry, NEW w,
         NEW n \in 1 .. Len(s),
         Started(entry, s, w, n),
         ~(Head(s).worker = w /\ Head(s).type = "LOAD_START")
  PROVE  Started(entry, Tail(s), w, n - 1)
<1>1. CASE entry.status # PENDING
  BY <1>1 DEF Started
<1>2. CASE entry.status = PENDING
  <2>1. PICK j \in 1 .. n : s[j].worker = w /\ s[j].type = "LOAD_START"
    BY <1>2 DEF Started
  <2>2. j # 1
    BY <2>1, TailFacts
  <2>3. j - 1 \in 1 .. n - 1 /\ j - 1 \in 1 .. Len(s) - 1
    BY <2>2, TailFacts
  <2>4. Tail(s)[j - 1] = s[j]
    BY <2>3, TailFacts
  <2> QED
    BY <2>1, <2>3, <2>4 DEF Started
<1> QED
  BY <1>1, <1>2
-----------------------------------------------------------------------------
(***************************************************************************)
(* Consequences of the type invariant.                                     *)
(***************************************************************************)

LEMMA TypeFacts ==
  ASSUME TypeOK
  PROVE  /\ Len(events) \in Nat
         /\ \A w \in Workers : /\ offset[w] \in Nat /\ begin[w] \in Nat
                                /\ subchunk[w] \in Nat
                                /\ m_chunk[w] \in Chunks \cup {None}
         /\ \A i \in 1 .. Len(events) :
              /\ events[i] \in Events
              /\ events[i].worker \in Workers /\ events[i].of \in Chunks
              /\ events[i].begin \in Nat /\ events[i].end \in Nat
         /\ \A c \in Chunks : /\ file[c] \in Entries /\ file[c].bytes \in Nat
                               /\ last[c] \in Entries /\ last[c].bytes \in Nat
                               /\ rows[c] \in [Rows(c) -> Nat]
<1>1. Len(events) \in Nat /\ \A i \in 1 .. Len(events) : events[i] \in Events
  BY DEF TypeOK
<1>2. \A e \in Events : /\ e.worker \in Workers /\ e.of \in Chunks
                        /\ e.begin \in Nat /\ e.end \in Nat
  BY DEF Events
<1>3. \A w \in Workers : /\ offset[w] \in Nat /\ begin[w] \in Nat
                         /\ subchunk[w] \in Nat
                         /\ m_chunk[w] \in Chunks \cup {None}
  BY DEF TypeOK
<1>4. \A c \in Chunks : file[c] \in Entries /\ last[c] \in Entries
                       /\ rows[c] \in [Rows(c) -> Nat]
  BY DEF TypeOK, Logs
<1>5. \A entry \in Entries : entry.bytes \in Nat
  BY DEF Entries
<1> QED
  BY <1>1, <1>2, <1>3, <1>4, <1>5

\* The event a worker posts.
LEMMA EventFacts ==
  ASSUME TypeOK, NEW w \in Workers, m_chunk[w] \in Chunks,
         NEW t \in {"LOAD_START", "LOAD_SUBCHUNK_END", "LOAD_END", "READY"}
  PROVE  /\ Event(w, t) \in Events
         /\ Event(w, t).type = t /\ Event(w, t).worker = w
         /\ Event(w, t).begin = begin[w] /\ Event(w, t).end = offset[w]
         /\ Event(w, t).of = m_chunk[w]
  BY TypeFacts DEF Event, Events

\* An active worker has a chunk.
LEMMA ActiveFacts ==
  ASSUME IInv, NEW w \in Workers, pc[w] # "idle"
  PROVE  m_chunk[w] \in Chunks /\ phase = "running"
  BY TypeFacts DEF IInv, Ownership, Active
-----------------------------------------------------------------------------
(***************************************************************************)
(* The workers preserve the invariant.                                     *)
(***************************************************************************)

\* A worker posts an event e: what it says must be so, and what the events
\* before it say still is.
LEMMA PostStep ==
  ASSUME IInv, NEW w \in Workers, pc[w] # "idle", NEW e \in Events,
         events' = Append(events, e), e.worker = w,
         UNCHANGED <<file, rows, m_chunk, begin, offset>>,
         NEW next, pc' = [pc EXCEPT ![w] = next], next # "committed",
         e.type = "LOAD_END" /\ HasKey(m_chunk[w]) =>
             LoadedUpTo(rows[m_chunk[w]], m_chunk[w], Size[m_chunk[w]]),
         e.type = "LOAD_SUBCHUNK_END" =>
           pc[w] = "committed" /\ e.begin = begin[w] /\ e.end = offset[w]
  PROVE  /\ EventProgress'
         /\ \A v \in Workers \ {w} :
              Active(v)' /\ HasKey(m_chunk[v]) => WorkerOK(v)'
         /\ Len(events') = Len(events) + 1
         /\ \A i \in 1 .. Len(events) : events'[i] = events[i]
         /\ events'[Len(events) + 1] = e
         /\ events' \in Seq(Events)
         /\ \A x, v : Started(x, events, v, Len(events))
                        => Started(x, events', v, Len(events'))
<1>0. /\ m_chunk[w] \in Chunks /\ TypeOK /\ events \in Seq(Events)
      /\ Len(events) \in Nat
  BY ActiveFacts, TypeFacts DEF IInv, TypeOK
<1>1. /\ Len(events') = Len(events) + 1
      /\ \A i \in 1 .. Len(events) : events'[i] = events[i]
      /\ events'[Len(events) + 1] = e
      /\ events' \in Seq(Events)
  BY <1>0, AppendFacts
<1>2. \A x, v : \A n \in 0 .. Len(events) :
        Started(x, events, v, n) => Started(x, events', v, n)
  BY <1>0, StartedAppend
<1>3. \A x, v : Started(x, events, v, Len(events))
                  => Started(x, events', v, Len(events'))
  BY <1>0, <1>1 DEF Started
<1>4. ASSUME NEW v \in Workers \ {w}, Active(v)', HasKey(m_chunk[v])
      PROVE  WorkerOK(v)'
  <2>1. Active(v) /\ WorkerOK(v)
    BY <1>0, <1>4 DEF IInv, WorkerProgress, TypeOK, Active
  <2> QED
    BY <1>0, <1>3, <2>1 DEF WorkerOK, TypeOK
<1>5. ASSUME NEW i \in 1 .. Len(events'), HasKey(m_chunk[events'[i].worker])
      PROVE  EventOK(i)'
  <2>1. CASE i = Len(events) + 1
    <3> DEFINE c == m_chunk[w]
    <3>1. events'[i] = e /\ events'[i].worker = w /\ HasKey(c)
      BY <1>1, <1>5, <2>1
    <3>2. WorkerOK(w)
      BY <3>1 DEF IInv, WorkerProgress, Active
    <3>3. e.type = "LOAD_SUBCHUNK_END" =>
            /\ Reached(rows[c], c, e.end)
            /\ file[c].bytes <= e.begin
            /\ Started(file[c], events', w, i - 1)
      BY <1>0, <1>2, <2>1, <3>2 DEF WorkerOK
    <3>4. pc'[w] # "committed"
      BY <1>0 DEF TypeOK
    <3>5. ~ \E j \in i + 1 .. Len(events') : TRUE
      BY <1>0, <1>1, <2>1
    <3>6. e.type = "LOAD_SUBCHUNK_END" => e.end <= offset[w]
      BY <1>0, TypeFacts
    <3> QED
      BY <3>1, <3>3, <3>4, <3>5, <3>6 DEF EventOK
  <2>2. CASE i \in 1 .. Len(events)
    <3> DEFINE v == events[i].worker
               c == m_chunk[v]
    <3>1. EventOK(i) /\ events'[i] = events[i] /\ v \in Workers
      BY <1>0, <1>1, <1>5, <2>2, TypeFacts DEF IInv, EventProgress
    <3>2. i - 1 \in 0 .. Len(events)
      BY <1>0, <2>2
    <3>3. Started(file[c], events, v, i - 1) => Started(file[c], events', v, i - 1)
      BY <1>2, <3>2
    <3> SUFFICES ASSUME events[i].type = "LOAD_SUBCHUNK_END"
                 PROVE  /\ pc'[v] = "committed" => events[i].end <= begin[v]
                        /\ pc'[v] # "committed" => events[i].end <= offset[v]
                        /\ \A j \in i + 1 .. Len(events') :
                             events'[j].worker = v
                               /\ events'[j].type = "LOAD_SUBCHUNK_END"
                               => events[i].end <= events'[j].begin
      BY <3>1, <3>3 DEF EventOK
    <3>4. /\ pc[v] = "committed" => events[i].end <= begin[v]
          /\ pc[v] # "committed" => events[i].end <= offset[v]
      BY <3>1 DEF EventOK
    <3>5. begin[v] <= offset[v]
      BY <3>1 DEF IInv, Offsets
    <3>6. /\ pc'[v] = "committed" => events[i].end <= begin[v]
          /\ pc'[v] # "committed" => events[i].end <= offset[v]
      BY <1>0, <2>2, <3>1, <3>4, <3>5, TypeFacts DEF TypeOK
    <3>7. ASSUME NEW j \in i + 1 .. Len(events'), events'[j].worker = v,
                 events'[j].type = "LOAD_SUBCHUNK_END"
          PROVE  events[i].end <= events'[j].begin
      <4>1. CASE j = Len(events) + 1
        BY <1>1, <3>4, <3>7, <4>1
      <4>2. CASE j \in i + 1 .. Len(events)
        <5>1. events'[j] = events[j]
          BY <1>0, <1>1, <2>2, <4>2
        <5> QED
          BY <3>1, <3>7, <4>2, <5>1 DEF EventOK
      <4> QED
        BY <1>0, <1>1, <2>2, <4>1, <4>2
    <3> QED
      BY <3>6, <3>7
  <2> QED
    BY <1>0, <1>1, <2>1, <2>2
<1>6. EventProgress'
  BY <1>5 DEF EventProgress
<1> QED
  BY <1>1, <1>3, <1>4, <1>6

LEMMA OnLoadStartStep ==
  ASSUME IInv, NEW w \in Workers, OnLoadStart(w)
  PROVE  IInv'
<1> DEFINE c == m_chunk[w]
           e == Event(w, "LOAD_START")
<1>0. /\ c \in Chunks /\ phase = "running" /\ TypeOK /\ pc[w] = "start"
      /\ events' = Append(events, e) /\ e \in Events /\ events \in Seq(Events)
  BY ActiveFacts, EventFacts DEF OnLoadStart, IInv, TypeOK
<1>2. /\ e.type = "LOAD_START" /\ e.worker = w /\ e.of = c
      /\ e.begin = begin[w] /\ e.end = offset[w]
  BY <1>0, EventFacts
<1>1. /\ Len(events') = Len(events) + 1
      /\ \A i \in 1 .. Len(events) : events'[i] = events[i]
      /\ events'[Len(events) + 1] = e
      /\ events' \in Seq(Events)
      /\ EventProgress'
      /\ \A v \in Workers \ {w} :
           Active(v)' /\ HasKey(m_chunk[v]) => WorkerOK(v)'
  BY <1>0, <1>2, PostStep DEF OnLoadStart, taskVars, serverVars
<1>3. TypeOK'
  BY <1>0, <1>1 DEF OnLoadStart, TypeOK, runVars, taskVars, serverVars
<1>4. Ownership'
  BY <1>0, <1>1, <1>2, TypeFacts, SMTT(30) DEF OnLoadStart, TypeOK, IInv, Ownership, Active,
     runVars, taskVars, serverVars
<1>5. Offsets'
  BY <1>0, <1>1, <1>2, TypeFacts DEF OnLoadStart, TypeOK, IInv, Offsets,
     runVars, taskVars, serverVars
<1>6. Progress'
  BY <1>0 DEF OnLoadStart, IInv, Progress, runVars, taskVars, serverVars
<1>7. HasKey(c) => WorkerOK(w)'
  <2>1. HasKey(c) => WorkerOK(w)
    BY <1>0 DEF IInv, WorkerProgress, Active
  <2>2. Started(file[c], events', w, Len(events'))
    BY <1>0, <1>1, <1>2, TypeFacts DEF Started
  <2> QED
    BY <1>0, <2>1, <2>2 DEF WorkerOK, OnLoadStart, TypeOK, runVars, taskVars,
       serverVars
<1>8. WorkerProgress'
  BY <1>0, <1>1, <1>7 DEF WorkerProgress, OnLoadStart, taskVars
<1> QED
  BY <1>1, <1>3, <1>4, <1>5, <1>6, <1>8 DEF IInv

\* TRUNCATE TABLE leaves alone the tables that have a key.
LEMMA TruncateStep ==
  ASSUME IInv, NEW w \in Workers, Truncate(w)
  PROVE  IInv'
<1>0. /\ m_chunk[w] \in Chunks /\ TypeOK /\ pc[w] = "truncate"
      /\ ~HasKey(m_chunk[w])
  BY ActiveFacts DEF Truncate, IInv, Offsets
<1>1. \A c \in Chunks : HasKey(c) => rows'[c] = rows[c]
  BY <1>0 DEF Truncate, HasKey
<1>2. TypeOK'
  BY <1>0, ChunkFacts DEF Truncate, TypeOK, runVars
<1>3. Ownership'
  BY <1>0 DEF Truncate, TypeOK, IInv, Ownership, Active, runVars
<1>4. Offsets'
  BY <1>0, ChunkFacts, TypeFacts DEF Truncate, TypeOK, IInv, Offsets, runVars
<1>5. Progress'
  BY <1>0, <1>1 DEF Truncate, IInv, Progress, runVars
<1>6. WorkerProgress'
  <2> SUFFICES ASSUME NEW v \in Workers, Active(v)', HasKey(m_chunk[v])
               PROVE  WorkerOK(v)'
    BY DEF WorkerProgress, Truncate
  <2>1. v # w /\ m_chunk[v] \in Chunks /\ WorkerOK(v)
    BY <1>0, TypeFacts, ActiveFacts DEF IInv, WorkerProgress, Active, Truncate,
       TypeOK
  <2> QED
    BY <1>0, <1>1, <2>1 DEF WorkerOK, Truncate, TypeOK
<1>7. EventProgress'
  <2> SUFFICES ASSUME NEW i \in 1 .. Len(events),
                      HasKey(m_chunk[events[i].worker])
               PROVE  EventOK(i)'
    BY DEF EventProgress, Truncate
  <2>1. /\ EventOK(i) /\ events[i].worker \in Workers /\ events[i].worker # w
        /\ m_chunk[events[i].worker] \in Chunks
    BY <1>0, TypeFacts DEF IInv, EventProgress, Ownership
  <2> QED
    BY <1>0, <1>1, <2>1 DEF EventOK, Truncate, TypeOK
<1> QED
  BY <1>2, <1>3, <1>4, <1>5, <1>6, <1>7 DEF IInv

LEMMA CommitStep ==
  ASSUME IInv, NEW w \in Workers, Commit(w)
  PROVE  IInv'
<1> DEFINE c == m_chunk[w]
           o == offset[w]
           after == IF truncating[w] THEN "committed" ELSE "loaded"
<1>0. c \in Chunks /\ TypeOK /\ pc[w] = "load" /\ o \in Nat /\ phase = "running"
  BY ActiveFacts, TypeFacts DEF Commit, IInv
<1>1. PICK e \in RowEnds[c] :
        /\ e > o \/ e = Size[c]
        /\ truncating[w] \/ e = Size[c]
        /\ Load(c, RowsBetween(c, o, e))
        /\ begin' = [begin EXCEPT ![w] = o]
        /\ offset' = [offset EXCEPT ![w] = e]
        /\ torn' \in SUBSET Chunks
        /\ overwritten' \in SUBSET UNION {{d} \X Rows(d) : d \in Chunks}
  <2>1. TableRows(Table[c]) \subseteq UNION {{d} \X Rows(d) : d \in Chunks}
    BY DEF TableRows
  <2>2. \A lost \in Replaced(c, o) :
          lost \subseteq UNION {{d} \X Rows(d) : d \in Chunks}
    BY <2>1 DEF Replaced
  <2> QED
    BY <1>0, <2>2 DEF Commit, TypeOK
<1>2. /\ pc' = [pc EXCEPT ![w] = after]
      /\ UNCHANGED <<phase, runs, last, todo, file, m_chunk, m_resume, subchunk,
                     truncating, events>>
  BY DEF Commit, runVars
<1>3. /\ e \in Nat /\ e <= Size[c] /\ Size[c] \in Nat
      /\ o <= Size[c] /\ o <= e
  BY <1>0, <1>1, ChunkFacts DEF IInv, Offsets
<1>4. /\ \A d \in Chunks : d # c => rows'[d] = rows[d]
      /\ \A d \in Chunks : rows'[d] \in [Rows(d) -> Nat]
      /\ rows' = [d \in Chunks |-> rows'[d]]
      /\ \A r \in Rows(c) : rows[c][r] >= 1 => rows'[c][r] >= 1
      /\ \A r \in RowsBetween(c, o, e) : rows'[c][r] >= 1
      /\ HasKey(c) /\ (\A r \in Rows(c) : rows[c][r] <= 1)
           => \A r \in Rows(c) : rows'[c][r] <= 1
  <2>1. rows = [d \in Chunks |-> rows[d]]
    BY <1>0 DEF TypeOK
  <2>2. \A d \in Chunks : rows[d] \in [Rows(d) -> Nat]
    BY <1>0 DEF TypeOK
  <2>3. rows' = [d \in Chunks |->
                   IF d = c
                   THEN [r \in Rows(c) |->
                           IF r \notin RowsBetween(c, o, e) THEN rows[c][r]
                           ELSE IF HasKey(c) THEN 1 ELSE rows[c][r] + 1]
                   ELSE rows[d]]
    BY <1>0, <1>1, <2>1 DEF Load
  <2>4. RowsBetween(c, o, e) \subseteq Rows(c)
    BY DEF RowsBetween
  <2>5. rows'[c] = [r \in Rows(c) |->
                      IF r \notin RowsBetween(c, o, e) THEN rows[c][r]
                      ELSE IF HasKey(c) THEN 1 ELSE rows[c][r] + 1]
    BY <1>0, <2>3
  <2>6. \A d \in Chunks : d # c => rows'[d] = rows[d]
    BY <1>0, <2>3
  <2>7. rows' = [d \in Chunks |-> rows'[d]]
    BY <2>3
  <2>8. \A r \in Rows(c) : rows[c][r] \in Nat
    BY <1>0, <2>2
  <2>9. /\ rows'[c] \in [Rows(c) -> Nat]
        /\ \A r \in Rows(c) : rows[c][r] >= 1 => rows'[c][r] >= 1
        /\ \A r \in RowsBetween(c, o, e) : rows'[c][r] >= 1
        /\ HasKey(c) /\ (\A r \in Rows(c) : rows[c][r] <= 1)
           => \A r \in Rows(c) : rows'[c][r] <= 1
    BY <2>4, <2>5, <2>8
  <2> QED
    BY <2>2, <2>6, <2>7, <2>9
<1>5. HasKey(c) => /\ LoadedUpTo(rows'[c], c, e)
                   /\ Reached(rows'[c], c, e)
  <2> SUFFICES ASSUME HasKey(c)
               PROVE  LoadedUpTo(rows'[c], c, e)
    BY <1>0, <1>1, LoadedReached
  <2>1. Reached(rows[c], c, o)
    BY <1>0 DEF IInv, WorkerProgress, WorkerOK, Active
  <2> QED
    BY <1>0, <1>1, <1>4, <2>1, TransactionLoads
<1>6. \A d \in Chunks :
        /\ \A p : LoadedUpTo(rows[d], d, p) => LoadedUpTo(rows'[d], d, p)
        /\ \A p : Reached(rows[d], d, p) => Reached(rows'[d], d, p)
        /\ \A entry : Truthful(entry, rows[d], d) => Truthful(entry, rows'[d], d)
  BY <1>4, LoadedStays
<1>7. TypeOK'
  BY <1>0, <1>1, <1>2, <1>3, <1>4 DEF TypeOK
<1>8. Ownership'
  BY <1>0, <1>2 DEF IInv, Ownership, Active, TypeOK
<1>9. Offsets'
  BY <1>0, <1>1, <1>2, <1>3, TypeFacts DEF IInv, Offsets, TypeOK
<1>10. Progress'
  <2> SUFFICES ASSUME NEW d \in Chunks, HasKey(d)
               PROVE  /\ \A r \in Rows(d) : rows'[d][r] <= 1
                      /\ Truthful(file[d], rows'[d], d)
                      /\ Truthful(last[d], rows'[d], d)
                      /\ phase = "running" /\ d \in todo => file[d] = last[d]
                      /\ phase \in {"running", "finished"} /\ d \notin todo
                           /\ (\A v \in Workers : m_chunk[v] # d)
                           => LoadedUpTo(rows'[d], d, Size[d])
    BY <1>2 DEF Progress
  <2> QED
    BY <1>4, <1>6 DEF IInv, Progress
<1>11. WorkerProgress'
  <2> SUFFICES ASSUME NEW v \in Workers, Active(v)', HasKey(m_chunk[v])
               PROVE  WorkerOK(v)'
    BY <1>2 DEF WorkerProgress
  <2>1. Active(v) /\ WorkerOK(v) /\ m_chunk[v] \in Chunks
    BY <1>0, <1>2, ActiveFacts DEF IInv, WorkerProgress, TypeOK, Active
  <2>2. CASE v # w
    BY <1>0, <1>1, <1>2, <1>6, <2>1, <2>2 DEF WorkerOK, TypeOK
  <2>3. CASE v = w
    <3>1. /\ file[c].bytes <= o
          /\ Started(file[c], events, w, Len(events))
      BY <1>0, <2>1, <2>3 DEF WorkerOK
    <3>2. /\ pc'[w] = after /\ offset'[w] = e /\ begin'[w] = o
      BY <1>0, <1>1, <1>2 DEF TypeOK
    <3>3. pc'[w] # "committed" => e = Size[c]
      BY <1>1, <3>2
    <3>4. file[c].bytes <= e
      BY <1>0, <1>3, <3>1, TypeFacts
    <3> QED
      BY <1>2, <1>5, <2>3, <3>1, <3>2, <3>3, <3>4 DEF WorkerOK
  <2> QED
    BY <2>2, <2>3
<1>12. EventProgress'
  <2> SUFFICES ASSUME NEW i \in 1 .. Len(events),
                      HasKey(m_chunk[events[i].worker])
               PROVE  EventOK(i)'
    BY <1>2 DEF EventProgress
  <2> DEFINE v == events[i].worker
  <2>1. EventOK(i) /\ v \in Workers /\ m_chunk[v] \in Chunks
        /\ events[i].end \in Nat
    BY <1>0, TypeFacts DEF IInv, EventProgress, Ownership
  <2>2. events[i].type = "LOAD_SUBCHUNK_END" =>
          /\ pc'[v] = "committed" => events[i].end <= begin'[v]
          /\ pc'[v] # "committed" => events[i].end <= offset'[v]
    <3>1. CASE v # w
      BY <1>0, <1>1, <1>2, <2>1, <3>1 DEF EventOK, TypeOK
    <3>2. CASE v = w
      <4>1. events[i].type = "LOAD_SUBCHUNK_END" => events[i].end <= o
        BY <1>0, <2>1, <3>2 DEF EventOK
      <4>2. begin'[w] = o /\ offset'[w] = e
        BY <1>0, <1>1 DEF TypeOK
      <4> QED
        BY <1>0, <1>3, <2>1, <3>2, <4>1, <4>2
    <3> QED
      BY <3>1, <3>2
  <2> QED
    BY <1>2, <1>6, <2>1, <2>2 DEF EventOK
<1> QED
  BY <1>7, <1>8, <1>9, <1>10, <1>11, <1>12 DEF IInv

LEMMA TransactionFinishedStep ==
  ASSUME IInv, NEW w \in Workers, TransactionFinished(w)
  PROVE  IInv'
<1> DEFINE c == m_chunk[w]
           e == Event(w, "LOAD_SUBCHUNK_END")
<1>0. /\ c \in Chunks /\ TypeOK /\ pc[w] = "committed"
      /\ events' = Append(events, e) /\ e \in Events /\ events \in Seq(Events)
      /\ subchunk' = [subchunk EXCEPT ![w] = @ + 1]
      /\ UNCHANGED <<phase, runs, last, todo, file, m_chunk, m_resume, offset,
                     begin, truncating, rows, torn,
                     overwritten>>
  BY ActiveFacts, EventFacts DEF TransactionFinished, IInv, TypeOK, runVars,
     serverVars
<1>1. PICK next \in {"load", "loaded"} :
        /\ pc' = [pc EXCEPT ![w] = next]
        /\ next = "loaded" => offset[w] = Size[c]
  <2>1. offset[w] <= Size[c] /\ offset[w] \in Nat /\ Size[c] \in Nat
    BY <1>0, TypeFacts, ChunkFacts DEF IInv, Offsets
  <2>2. PICK next \in AfterTransaction(w) : pc' = [pc EXCEPT ![w] = next]
    BY DEF TransactionFinished
  <2>3. CASE offset[w] < Size[c]
    BY <2>2, <2>3 DEF AfterTransaction
  <2>4. CASE ~(offset[w] < Size[c])
    <3>1. offset[w] = Size[c]
      BY <2>1, <2>4
    <3>2. next \in {"load", "loaded"}
      BY <2>2 DEF AfterTransaction
    <3> QED
      BY <2>2, <3>1, <3>2
  <2> QED
    BY <2>3, <2>4
<1>2. /\ e.type = "LOAD_SUBCHUNK_END" /\ e.worker = w /\ e.of = c
      /\ e.begin = begin[w] /\ e.end = offset[w]
  BY <1>0, EventFacts
<1>3. /\ Len(events') = Len(events) + 1
      /\ \A i \in 1 .. Len(events) : events'[i] = events[i]
      /\ events'[Len(events) + 1] = e
      /\ events' \in Seq(Events)
      /\ \A x, v : Started(x, events, v, Len(events))
                     => Started(x, events', v, Len(events'))
      /\ EventProgress'
      /\ \A v \in Workers \ {w} :
           Active(v)' /\ HasKey(m_chunk[v]) => WorkerOK(v)'
  BY <1>0, <1>1, <1>2, PostStep
<1>4. TypeOK'
  BY <1>0, <1>1, <1>3 DEF TypeOK
<1>5. Ownership'
  <2>1. \A v \in Workers : Active(v)' <=> Active(v)
    BY <1>0, <1>1 DEF TypeOK, Active
  <2>2. \A v \in Workers : pc[v] = "ready" => v # w /\ pc'[v] = "ready"
    BY <1>0, <1>1 DEF TypeOK
  <2>3. ASSUME NEW i \in 1 .. Len(events')
        PROVE  /\ events'[i].of = m_chunk'[events'[i].worker]
               /\ events'[i].type = "READY" =>
                    /\ pc'[events'[i].worker] = "ready"
                    /\ \A j \in i + 1 .. Len(events') :
                         events'[j].worker # events'[i].worker
    <3>1. CASE i = Len(events) + 1
      BY <1>0, <1>2, <1>3, <3>1
    <3>2. CASE i \in 1 .. Len(events)
      <4>1. /\ events'[i] = events[i]
            /\ events[i].of = m_chunk[events[i].worker]
            /\ events[i].worker \in Workers
            /\ events[i].type = "READY" =>
                 /\ pc[events[i].worker] = "ready"
                 /\ \A j \in i + 1 .. Len(events) :
                      events[j].worker # events[i].worker
        BY <1>0, <1>3, <3>2, TypeFacts DEF IInv, Ownership
      <4>2. events[i].type = "READY" =>
              /\ events[i].worker # w /\ pc'[events[i].worker] = "ready"
        BY <2>2, <4>1
      <4>3. ASSUME NEW j \in i + 1 .. Len(events'), events[i].type = "READY"
            PROVE  events'[j].worker # events[i].worker
        <5>1. CASE j = Len(events) + 1
          BY <1>2, <1>3, <4>2, <4>3, <5>1
        <5>2. CASE j \in i + 1 .. Len(events)
          <6>1. events'[j] = events[j]
            BY <1>0, <1>3, <3>2, <5>2, TypeFacts
          <6> QED
            BY <4>1, <4>3, <5>2, <6>1
        <5>3. Len(events) \in Nat /\ Len(events') = Len(events) + 1
          BY <1>0, <1>3, TypeFacts
        <5> QED
          BY <3>2, <5>1, <5>2, <5>3
      <4> QED
        BY <1>0, <4>1, <4>2, <4>3
    <3> QED
      BY <1>0, <1>3, <3>1, <3>2, TypeFacts
  <2> QED
    BY <1>0, <2>1, <2>3, ActiveFacts DEF IInv, Ownership, Active
<1>6. Offsets'
  BY <1>0, <1>1, <1>2, <1>3, TypeFacts DEF TypeOK, IInv, Offsets
<1>7. Progress'
  BY <1>0 DEF IInv, Progress
<1>8. HasKey(c) => WorkerOK(w)'
  <2> SUFFICES ASSUME HasKey(c)
               PROVE  WorkerOK(w)'
    OBVIOUS
  <2>1. WorkerOK(w) /\ pc'[w] = next
    BY <1>0, <1>1 DEF IInv, WorkerProgress, Active, TypeOK
  <2>2. file[c].bytes <= offset[w]
    BY <1>0, <2>1, TypeFacts DEF WorkerOK, IInv, Offsets
  <2> QED
    BY <1>0, <1>1, <1>3, <2>1, <2>2 DEF WorkerOK
<1>9. WorkerProgress'
  BY <1>0, <1>3, <1>8 DEF WorkerProgress
<1> QED
  BY <1>3, <1>4, <1>5, <1>6, <1>7, <1>9 DEF IInv

LEMMA OnLoadEndStep ==
  ASSUME IInv, NEW w \in Workers, OnLoadEnd(w)
  PROVE  IInv'
<1> DEFINE c == m_chunk[w]
           e == Event(w, "LOAD_END")
<1>0. /\ c \in Chunks /\ TypeOK /\ pc[w] = "loaded"
      /\ pc' = [pc EXCEPT ![w] = "ended"]
      /\ events' = Append(events, e) /\ e \in Events /\ events \in Seq(Events)
      /\ UNCHANGED <<phase, runs, last, todo, file, m_chunk, m_resume, offset,
                     begin, subchunk, truncating, rows, torn,
                     overwritten>>
  BY ActiveFacts, EventFacts DEF OnLoadEnd, IInv, TypeOK, runVars, taskVars,
     serverVars
<1>1. HasKey(c) => WorkerOK(w)
  BY <1>0 DEF IInv, WorkerProgress, Active
<1>2. /\ e.type = "LOAD_END" /\ e.worker = w /\ e.of = c
      /\ e.begin = begin[w] /\ e.end = offset[w]
      /\ HasKey(c) => LoadedUpTo(rows[c], c, Size[c])
  BY <1>0, <1>1, EventFacts DEF WorkerOK
<1>3. /\ Len(events') = Len(events) + 1
      /\ \A i \in 1 .. Len(events) : events'[i] = events[i]
      /\ events'[Len(events) + 1] = e
      /\ events' \in Seq(Events)
      /\ \A x, v : Started(x, events, v, Len(events))
                     => Started(x, events', v, Len(events'))
      /\ EventProgress'
      /\ \A v \in Workers \ {w} :
           Active(v)' /\ HasKey(m_chunk[v]) => WorkerOK(v)'
  BY <1>0, <1>2, PostStep
<1>4. TypeOK'
  BY <1>0, <1>3 DEF TypeOK
<1>5. Ownership'
  BY <1>0, <1>2, <1>3, TypeFacts, SMTT(30) DEF TypeOK, IInv, Ownership, Active
<1>6. Offsets'
  BY <1>0, <1>2, <1>3, TypeFacts DEF TypeOK, IInv, Offsets
<1>7. Progress'
  BY <1>0 DEF IInv, Progress
<1>8. HasKey(c) => WorkerOK(w)'
  BY <1>0, <1>1, <1>3 DEF WorkerOK, TypeOK
<1>9. WorkerProgress'
  BY <1>0, <1>3, <1>8 DEF WorkerProgress
<1> QED
  BY <1>3, <1>4, <1>5, <1>6, <1>7, <1>9 DEF IInv

LEMMA ReadyStep ==
  ASSUME IInv, NEW w \in Workers, Ready(w)
  PROVE  IInv'
<1> DEFINE c == m_chunk[w]
           e == Event(w, "READY")
<1>0. /\ c \in Chunks /\ TypeOK /\ pc[w] = "ended"
      /\ pc' = [pc EXCEPT ![w] = "ready"]
      /\ events' = Append(events, e) /\ e \in Events /\ events \in Seq(Events)
      /\ UNCHANGED <<phase, runs, last, todo, file, m_chunk, m_resume, offset,
                     begin, subchunk, truncating, rows, torn,
                     overwritten>>
  BY ActiveFacts, EventFacts DEF Ready, IInv, TypeOK, runVars, taskVars,
     serverVars
<1>1. HasKey(c) => WorkerOK(w)
  BY <1>0 DEF IInv, WorkerProgress, Active
<1>2. /\ e.type = "READY" /\ e.worker = w /\ e.of = c
      /\ e.begin = begin[w] /\ e.end = offset[w]
  BY <1>0, EventFacts
<1>3. /\ Len(events') = Len(events) + 1
      /\ \A i \in 1 .. Len(events) : events'[i] = events[i]
      /\ events'[Len(events) + 1] = e
      /\ events' \in Seq(Events)
      /\ \A x, v : Started(x, events, v, Len(events))
                     => Started(x, events', v, Len(events'))
      /\ EventProgress'
      /\ \A v \in Workers \ {w} :
           Active(v)' /\ HasKey(m_chunk[v]) => WorkerOK(v)'
  BY <1>0, <1>2, PostStep
<1>4. TypeOK'
  BY <1>0, <1>3 DEF TypeOK
<1>5. Ownership'
  <2>1. \A v \in Workers : Active(v)' <=> Active(v)
    BY <1>0 DEF TypeOK, Active
  <2>2. \A v \in Workers : pc[v] = "ready" => v # w /\ pc'[v] = "ready"
    BY <1>0 DEF TypeOK
  <2>3. ASSUME NEW i \in 1 .. Len(events')
        PROVE  /\ events'[i].of = m_chunk'[events'[i].worker]
               /\ events'[i].type = "READY" =>
                    /\ pc'[events'[i].worker] = "ready"
                    /\ \A j \in i + 1 .. Len(events') :
                         events'[j].worker # events'[i].worker
    <3>1. CASE i = Len(events) + 1
      <4>1. Len(events) \in Nat /\ pc'[w] = "ready"
        BY <1>0, TypeFacts DEF TypeOK
      <4> QED
        BY <1>0, <1>2, <1>3, <3>1, <4>1
    <3>2. CASE i \in 1 .. Len(events)
      <4>1. /\ events'[i] = events[i]
            /\ events[i].of = m_chunk[events[i].worker]
            /\ events[i].worker \in Workers
            /\ events[i].type = "READY" =>
                 /\ pc[events[i].worker] = "ready"
                 /\ \A j \in i + 1 .. Len(events) :
                      events[j].worker # events[i].worker
        BY <1>0, <1>3, <3>2, TypeFacts DEF IInv, Ownership
      <4>2. events[i].type = "READY" =>
              /\ events[i].worker # w /\ pc'[events[i].worker] = "ready"
        BY <2>2, <4>1
      <4>3. ASSUME NEW j \in i + 1 .. Len(events'), events[i].type = "READY"
            PROVE  events'[j].worker # events[i].worker
        <5>1. CASE j = Len(events) + 1
          BY <1>2, <1>3, <4>2, <4>3, <5>1
        <5>2. CASE j \in i + 1 .. Len(events)
          <6>1. events'[j] = events[j]
            BY <1>0, <1>3, <3>2, <5>2, TypeFacts
          <6> QED
            BY <4>1, <4>3, <5>2, <6>1
        <5>3. Len(events) \in Nat /\ Len(events') = Len(events) + 1
          BY <1>0, <1>3, TypeFacts
        <5> QED
          BY <3>2, <5>1, <5>2, <5>3
      <4> QED
        BY <1>0, <4>1, <4>2, <4>3
    <3> QED
      BY <1>0, <1>3, <3>1, <3>2, TypeFacts
  <2> QED
    BY <1>0, <2>1, <2>3, ActiveFacts DEF IInv, Ownership, Active
<1>6. Offsets'
  BY <1>0, <1>2, <1>3, TypeFacts DEF TypeOK, IInv, Offsets
<1>7. Progress'
  BY <1>0 DEF IInv, Progress
<1>8. HasKey(c) => WorkerOK(w)'
  BY <1>0, <1>1, <1>3 DEF WorkerOK, TypeOK
<1>9. WorkerProgress'
  BY <1>0, <1>3, <1>8 DEF WorkerProgress
<1> QED
  BY <1>3, <1>4, <1>5, <1>6, <1>7, <1>9 DEF IInv
-----------------------------------------------------------------------------
(***************************************************************************)
(* The main thread and the end of a run preserve the invariant.            *)
(***************************************************************************)

\* No run is in progress: there are no events, and no worker has a task.
LEMMA Quiet ==
  ASSUME IInv, phase # "running"
  PROVE  /\ events = <<>> /\ Len(events) = 0
         /\ \A w \in Workers : pc[w] = "idle" /\ m_chunk[w] = None
  BY DEF IInv, Ownership, Active

LEMMA OpenLogStep ==
  ASSUME IInv, OpenLog
  PROVE  IInv'
<1>0. /\ TypeOK /\ phase = "down" /\ phase' = "opened" /\ last' = file
      /\ file' = EmptyLog /\ runs' = runs + 1 /\ runs < MaxRuns
      /\ UNCHANGED <<todo, pc, m_chunk, m_resume, offset, begin, subchunk,
                     truncating, events, rows, torn,
                     overwritten>>
  BY DEF OpenLog, IInv, taskVars, serverVars
<1>1. /\ events = <<>> /\ Len(events) = 0
      /\ \A w \in Workers : pc[w] = "idle" /\ m_chunk[w] = None
  BY <1>0, Quiet
<1>2. TypeOK'
  <2>1. EmptyLog \in Logs
    BY DEF EmptyLog, Logs, Entries
  <2>2. runs + 1 \in 0 .. MaxRuns
    BY <1>0, LoadAssumption DEF TypeOK
  <2> QED
    BY <1>0, <2>1, <2>2 DEF TypeOK
<1>3. Ownership' /\ Offsets' /\ WorkerProgress' /\ EventProgress'
  BY <1>0, <1>1 DEF IInv, Ownership, Offsets, WorkerProgress, EventProgress,
     Active
<1>4. Progress'
  <2>1. \A c \in Chunks : Truthful(EmptyLog[c], rows[c], c)
    BY NothingReached DEF Truthful, EmptyLog, PENDING, DONE
  <2> QED
    BY <1>0, <2>1 DEF IInv, Progress
<1> QED
  BY <1>2, <1>3, <1>4 DEF IInv

LEMMA RewriteLogStep ==
  ASSUME IInv, RewriteLog
  PROVE  IInv'
<1>0. /\ TypeOK /\ phase = "opened" /\ phase' = "running" /\ file' = last
      /\ todo' = Chunks
      /\ UNCHANGED <<runs, last, pc, m_chunk, m_resume, offset, begin, subchunk,
                     truncating, events, rows, torn,
                     overwritten>>
  BY DEF RewriteLog, IInv, taskVars, serverVars
<1>1. /\ events = <<>> /\ Len(events) = 0
      /\ \A w \in Workers : pc[w] = "idle" /\ m_chunk[w] = None
  BY <1>0, Quiet
<1>2. TypeOK'
  BY <1>0 DEF TypeOK
<1>3. Ownership' /\ Offsets' /\ WorkerProgress' /\ EventProgress'
  BY <1>0, <1>1, LoadAssumption DEF IInv, Ownership, Offsets, WorkerProgress,
     EventProgress, Active
<1>4. Progress'
  BY <1>0 DEF IInv, Progress
<1> QED
  BY <1>2, <1>3, <1>4 DEF IInv

LEMMA CrashStep ==
  ASSUME IInv, Crash
  PROVE  IInv'
<1>0. TypeOK
  BY DEF IInv
<1>1. TypeOK'
  BY <1>0 DEF Crash, TypeOK, NoTask, serverVars
<1>2. /\ events' = <<>> /\ Len(events') = 0
      /\ \A w \in Workers : /\ pc'[w] = "idle" /\ m_chunk'[w] = None
                            /\ begin'[w] = 0 /\ offset'[w] = 0
      /\ todo' = {} /\ phase' = "down"
      /\ UNCHANGED <<file, last, rows>>
  BY DEF Crash, NoTask, serverVars
<1>3. Ownership' /\ Offsets' /\ WorkerProgress' /\ EventProgress'
  BY <1>2 DEF Ownership, Offsets, WorkerProgress, EventProgress, Active
<1>4. Progress'
  BY <1>2 DEF IInv, Progress
<1> QED
  BY <1>1, <1>3, <1>4 DEF IInv

LEMMA FinishStep ==
  ASSUME IInv, Finish
  PROVE  IInv'
<1>0. /\ TypeOK /\ phase = "running" /\ phase' = "finished" /\ events = <<>>
      /\ todo = {}
      /\ \A w \in Workers : pc[w] = "idle"
      /\ UNCHANGED <<runs, last, todo, file, pc, m_chunk, m_resume, offset,
                     begin, subchunk, truncating, events, rows, torn,
                     overwritten>>
  BY DEF Finish, IInv, taskVars, serverVars
<1>1. TypeOK'
  BY <1>0 DEF TypeOK
<1>2. Ownership' /\ Offsets' /\ WorkerProgress' /\ EventProgress'
  BY <1>0 DEF IInv, Ownership, Offsets, WorkerProgress, EventProgress, Active
<1>3. Progress'
  BY <1>0 DEF IInv, Progress
<1> QED
  BY <1>1, <1>2, <1>3 DEF IInv

LEMMA SkipLoadedStep ==
  ASSUME IInv, NEW c \in Chunks, SkipLoaded(c)
  PROVE  IInv'
<1>0. /\ TypeOK /\ phase = "running" /\ c \in todo /\ last[c].status = DONE
      /\ todo' = todo \ {c}
      /\ UNCHANGED <<phase, runs, last, file, pc, m_chunk, m_resume, offset,
                     begin, subchunk, truncating, events, rows, torn,
                     overwritten>>
  BY DEF SkipLoaded, IInv, taskVars, serverVars
<1>1. TypeOK'
  BY <1>0 DEF TypeOK
<1>2. Ownership' /\ Offsets'
  BY <1>0 DEF IInv, Ownership, Offsets, Active
<1>3. WorkerProgress' /\ EventProgress'
  BY <1>0 DEF IInv, WorkerProgress, WorkerOK, EventProgress, EventOK, Active
<1>4. Progress'
  BY <1>0 DEF IInv, Progress, Truthful
<1> QED
  BY <1>1, <1>2, <1>3, <1>4 DEF IInv

LEMMA ScheduleStep ==
  ASSUME IInv, NEW w \in Workers, NEW c \in Chunks, Schedule(w, c)
  PROVE  IInv'
<1> DEFINE skip == BytesToSkip(c)
<1>0. /\ TypeOK /\ phase = "running" /\ c \in todo /\ pc[w] = "idle"
      /\ last[c].status # DONE
      /\ todo' = todo \ {c}
      /\ pc' = [pc EXCEPT ![w] = "start"]
      /\ m_chunk' = [m_chunk EXCEPT ![w] = c]
      /\ m_resume' = [m_resume EXCEPT ![w] = last[c].status = INTERRUPTED]
      /\ offset' = [offset EXCEPT ![w] = skip]
      /\ begin' = [begin EXCEPT ![w] = skip]
      /\ subchunk' = [subchunk EXCEPT ![w] = 0]
      /\ truncating' \in [Workers -> BOOLEAN]
      /\ UNCHANGED <<phase, runs, last, file, events, rows, torn,
                     overwritten>>
  BY DEF Schedule, IInv, TypeOK, serverVars
<1>1. skip \in Nat
  BY <1>0, TypeFacts DEF BytesToSkip
<1>2. /\ m_chunk'[w] = c /\ pc'[w] = "start" /\ offset'[w] = skip
      /\ begin'[w] = skip
      /\ m_resume'[w] = (last[c].status = INTERRUPTED)
      /\ \A v \in Workers \ {w} :
           /\ m_chunk'[v] = m_chunk[v] /\ pc'[v] = pc[v]
           /\ offset'[v] = offset[v] /\ begin'[v] = begin[v]
           /\ m_resume'[v] = m_resume[v]
  BY <1>0 DEF TypeOK
<1>3. m_chunk[w] = None /\ \A v \in Workers : m_chunk[v] # c
  BY <1>0 DEF IInv, Ownership, Active
<1>4. \A i \in 1 .. Len(events) :
        events[i].worker \in Workers /\ events[i].worker # w
  BY <1>0, <1>3, TypeFacts, LoadAssumption DEF IInv, Ownership
<1>5. HasKey(c) => /\ Reached(rows[c], c, skip)
                   /\ file[c].bytes <= skip
                   /\ skip <= Size[c]
  <2> SUFFICES ASSUME HasKey(c)
               PROVE  Reached(rows[c], c, skip) /\ file[c].bytes <= skip
    BY <1>1, ReachedInFile
  <2>1. /\ file[c] = last[c] /\ Truthful(last[c], rows[c], c)
        /\ last[c].bytes \in Nat
        /\ last[c].status \in {PENDING, INTERRUPTED, DONE}
    BY <1>0, TypeFacts DEF IInv, Progress, Entries
  <2>2. skip = last[c].bytes
    BY <1>0, <2>1 DEF Truthful, BytesToSkip
  <2> QED
    BY <2>1, <2>2 DEF Truthful
<1>6. TypeOK'
  BY <1>0, <1>1 DEF TypeOK
<1>7. Ownership'
  <2>1. /\ \A v \in Workers : m_chunk'[v] = None <=> ~Active(v)'
        /\ \A v \in Workers : m_chunk'[v] \notin todo'
        /\ \A v \in Workers : Active(v)' => last'[m_chunk'[v]].status # DONE
    BY <1>0, <1>2, LoadAssumption DEF IInv, Ownership, Active
  <2>2. \A u, v \in Workers : m_chunk'[u] = m_chunk'[v] /\ Active(u)' => u = v
    BY <1>0, <1>2, <1>3 DEF IInv, Ownership, Active
  <2>3. \A i \in 1 .. Len(events) :
          /\ events[i].of = m_chunk'[events[i].worker]
          /\ events[i].type = "READY" =>
               /\ pc'[events[i].worker] = "ready"
               /\ \A j \in i + 1 .. Len(events) :
                    events[j].worker # events[i].worker
    BY <1>2, <1>4 DEF IInv, Ownership
  <2> QED
    BY <1>0, <2>1, <2>2, <2>3 DEF Ownership
<1>8. Offsets'
  <2>1. ~HasKey(c) /\ last[c].status # INTERRUPTED => skip <= Size[c]
    BY <1>0, ChunkFacts DEF BytesToSkip
  <2>2. HasKey(c) \/ ~m_resume'[w] => skip <= Size[c]
    BY <1>2, <1>5, <2>1
  <2> QED
    BY <1>0, <1>1, <1>2, <2>2 DEF IInv, Offsets
<1>9. Progress'
  <2> SUFFICES ASSUME NEW d \in Chunks, HasKey(d)
               PROVE  /\ d \in todo' => file[d] = last[d]
                      /\ d \notin todo' /\ (\A v \in Workers : m_chunk'[v] # d)
                           => LoadedUpTo(rows[d], d, Size[d])
    BY <1>0 DEF IInv, Progress
  <2>1. d = c => m_chunk'[w] = d
    BY <1>2
  <2>2. (\A v \in Workers : m_chunk'[v] # d) => \A v \in Workers : m_chunk[v] # d
    BY <1>2, <1>3, LoadAssumption
  <2> QED
    BY <1>0, <2>1, <2>2 DEF IInv, Progress
<1>10. WorkerProgress'
  <2> SUFFICES ASSUME NEW v \in Workers, Active(v)', HasKey(m_chunk'[v])
               PROVE  WorkerOK(v)'
    BY DEF WorkerProgress
  <2>1. CASE v = w
    BY <1>0, <1>2, <1>5, <2>1 DEF WorkerOK
  <2>2. CASE v # w
    <3>1. Active(v) /\ HasKey(m_chunk[v]) /\ WorkerOK(v)
      BY <1>2, <2>2 DEF IInv, WorkerProgress, Active
    <3> QED
      BY <1>0, <1>2, <2>2, <3>1 DEF WorkerOK
  <2> QED
    BY <2>1, <2>2
<1>11. EventProgress'
  <2> SUFFICES ASSUME NEW i \in 1 .. Len(events),
                      HasKey(m_chunk'[events[i].worker])
               PROVE  EventOK(i)'
    BY <1>0 DEF EventProgress
  <2>1. EventOK(i)
    BY <1>2, <1>4 DEF IInv, EventProgress
  <2> QED
    BY <1>0, <1>2, <1>4, <2>1 DEF EventOK
<1> QED
  BY <1>6, <1>7, <1>8, <1>9, <1>10, <1>11 DEF IInv

\* What the handler of the first event writes to the log: it is about one
\* chunk only, stays truthful, and does not get ahead of the event.
LEMMA LoggedFacts ==
  ASSUME IInv, events # <<>>, NEW e, e = events[1], NEW c, c = m_chunk[e.worker]
  PROVE  /\ Logged(e) \in Logs
         /\ \A d \in Chunks : d # c => Logged(e)[d] = file[d]
         /\ file[c].status # PENDING => Logged(e)[c].status # PENDING
         /\ e.type = "LOAD_START" => Logged(e)[c].status # PENDING
         /\ e.type # "LOAD_SUBCHUNK_END" => Logged(e)[c].bytes = file[c].bytes
         /\ e.type = "LOAD_SUBCHUNK_END" /\ HasKey(c)
              => Logged(e)[c].bytes <= e.end
         /\ HasKey(c) => Truthful(Logged(e)[c], rows[c], c)
<1>0. /\ TypeOK /\ 1 \in 1 .. Len(events) /\ e \in Events /\ e.worker \in Workers
      /\ e.begin \in Nat /\ e.end \in Nat /\ e.begin <= e.end
      /\ e.subchunk \in Nat
      /\ c = e.of /\ c \in Chunks
      /\ e.type \in {"LOAD_START", "LOAD_SUBCHUNK_END", "LOAD_END", "READY"}
  <2>1. TypeOK /\ 1 \in 1 .. Len(events)
    BY TailFacts DEF IInv, TypeOK
  <2>2. e \in Events /\ e.of = m_chunk[e.worker] /\ e.begin <= e.end
    BY <2>1, TypeFacts DEF IInv, Ownership, Offsets
  <2> QED
    BY <2>1, <2>2 DEF Events
<1>1. /\ file \in [Chunks -> Entries] /\ file[c] \in Entries
      /\ file[c].bytes \in Nat /\ file[c].subs \in Nat
      /\ file[c].status \in {PENDING, INTERRUPTED, DONE}
      /\ last[c].subs \in Nat
  BY <1>0 DEF TypeOK, Logs, Entries
<1>2. last[c].status # DONE
  BY <1>0, LoadAssumption DEF IInv, Ownership
<1>3. HasKey(c) => EventOK(1) /\ Truthful(file[c], rows[c], c)
  BY <1>0 DEF IInv, EventProgress, Progress
<1>4. INTERRUPTED # PENDING /\ DONE # PENDING /\ INTERRUPTED # DONE
  BY DEF INTERRUPTED, PENDING, DONE
<1>5. CASE e.type = "LOAD_START"
  <2>1. CASE file[c].status = DONE
    <3>1. Logged(e) = file
      BY <1>5, <2>1 DEF Logged, LogStart
    <3> QED
      BY <1>1, <1>3, <1>4, <1>5, <2>1, <3>1 DEF Logs
  <2>2. CASE file[c].status # DONE
    <3>1. Logged(e) = [file EXCEPT ![c].status = INTERRUPTED]
      BY <1>2, <1>5, <2>2 DEF Logged, LogStart
    <3>2. Logged(e)[c] = [file[c] EXCEPT !.status = INTERRUPTED]
      BY <1>0, <1>1, <3>1
    <3>3. /\ Logged(e)[c].status = INTERRUPTED
          /\ Logged(e)[c].bytes = file[c].bytes /\ Logged(e)[c] \in Entries
      BY <1>1, <3>2 DEF Entries
    <3>4. Logged(e) \in Logs /\ \A d \in Chunks : d # c => Logged(e)[d] = file[d]
      BY <1>0, <1>1, <3>1, <3>2, <3>3 DEF Logs
    <3> QED
      BY <1>3, <1>4, <1>5, <3>3, <3>4 DEF Truthful
  <2> QED
    BY <2>1, <2>2
<1>6. CASE e.type = "LOAD_END"
  <2>1. Logged(e) = [file EXCEPT ![c].status = DONE]
    BY <1>2, <1>6 DEF Logged, LogEnd
  <2>2. Logged(e)[c] = [file[c] EXCEPT !.status = DONE]
    BY <1>0, <1>1, <2>1
  <2>3. /\ Logged(e)[c].status = DONE
        /\ Logged(e)[c].bytes = file[c].bytes /\ Logged(e)[c] \in Entries
    BY <1>1, <2>2 DEF Entries
  <2>4. Logged(e) \in Logs /\ \A d \in Chunks : d # c => Logged(e)[d] = file[d]
    BY <1>0, <1>1, <2>1, <2>2, <2>3 DEF Logs
  <2>5. HasKey(c) => LoadedUpTo(rows[c], c, Size[c])
    BY <1>3, <1>6 DEF EventOK
  <2> QED
    BY <1>3, <1>4, <1>6, <2>3, <2>4, <2>5 DEF Truthful
<1>7. CASE e.type = "LOAD_SUBCHUNK_END"
  <2>1. HasKey(c) =>
          /\ Reached(rows[c], c, e.end) /\ file[c].bytes <= e.begin
          /\ file[c].status # PENDING
    BY <1>3, <1>7 DEF EventOK, Started
  <2>2. CASE e.subchunk < last[c].subs \/ e.subchunk # file[c].subs
    <3>1. Logged(e) = file
      BY <1>7, <2>2 DEF Logged, LogSubchunkEnd
    <3>2. HasKey(c) => file[c].bytes <= e.end
      BY <1>0, <1>1, <2>1
    <3> QED
      BY <1>1, <1>3, <1>7, <3>1, <3>2 DEF Logs
  <2>3. CASE ~(e.subchunk < last[c].subs \/ e.subchunk # file[c].subs)
    <3> DEFINE size == e.end - e.begin
               entry == [status |-> file[c].status, subs |-> file[c].subs + 1,
                         bytes |-> file[c].bytes + size]
    <3>1. Logged(e) = [file EXCEPT ![c] = entry]
      <4>1. Logged(e) = LogSubchunkEnd(file, last, c, e.subchunk, size)
        BY <1>7 DEF Logged
      <4> QED
        BY <2>3, <4>1 DEF LogSubchunkEnd
    <3>2. Logged(e)[c] = entry
      BY <1>0, <1>1, <3>1
    <3>3. size \in Nat
      BY <1>0
    <3>4. /\ Logged(e)[c].status = file[c].status
          /\ Logged(e)[c].bytes = file[c].bytes + size
          /\ Logged(e)[c] \in Entries
      BY <1>1, <3>2, <3>3 DEF Entries
    <3>5. Logged(e) \in Logs /\ \A d \in Chunks : d # c => Logged(e)[d] = file[d]
      BY <1>0, <1>1, <3>1, <3>2, <3>4 DEF Logs
    <3>6. HasKey(c) => Logged(e)[c].bytes <= e.end /\ Logged(e)[c].bytes \in Nat
      BY <1>0, <1>1, <2>1, <3>3, <3>4
    <3>7. HasKey(c) => Reached(rows[c], c, Logged(e)[c].bytes)
      BY <1>0, <2>1, <3>6, ReachedBefore
    <3> QED
      BY <1>3, <1>7, <2>1, <3>4, <3>5, <3>6, <3>7 DEF Truthful
  <2> QED
    BY <2>2, <2>3
<1>8. CASE e.type = "READY"
  <2>1. Logged(e) = file
    BY <1>8 DEF Logged
  <2> QED
    BY <1>1, <1>3, <1>8, <2>1 DEF Logs
<1> QED
  BY <1>0, <1>5, <1>6, <1>7, <1>8

LEMMA HandleEventStep ==
  ASSUME IInv, HandleEvent
  PROVE  IInv'
<1> DEFINE e == events[1]
           n == e.worker
           c == m_chunk[n]
<1>0. /\ TypeOK /\ phase = "running" /\ events # <<>> /\ events \in Seq(Events)
      /\ e = Head(events)
      /\ Len(events) \in Nat /\ Len(events) >= 1
      /\ events' \in Seq(Events) /\ Len(events') = Len(events) - 1
      /\ events' = Tail(events)
      /\ \A i \in 1 .. Len(events') :
           i + 1 \in 1 .. Len(events) /\ events'[i] = events[i + 1]
  BY TailFacts DEF HandleEvent, IInv, TypeOK
<1>1. /\ e \in Events /\ n \in Workers /\ c = e.of /\ c \in Chunks
      /\ n \in Workers
      /\ e.type \in {"LOAD_START", "LOAD_SUBCHUNK_END", "LOAD_END", "READY"}
      /\ c # None
  <2>1. 1 \in 1 .. Len(events)
    BY <1>0
  <2>2. e \in Events /\ e.of = c
    BY <1>0, <2>1, TypeFacts DEF IInv, Ownership
  <2> QED
    BY <2>2, LoadAssumption DEF Events
<1>2. /\ file' = Logged(e)
      /\ pc' = IF e.type = "READY" THEN [pc EXCEPT ![n] = "idle"] ELSE pc
      /\ m_chunk' = IF e.type = "READY" THEN [m_chunk EXCEPT ![n] = None]
                                        ELSE m_chunk
      /\ UNCHANGED <<phase, runs, last, todo, m_resume, offset, begin, subchunk,
                     truncating, rows, torn,
                     overwritten>>
  BY <1>0 DEF HandleEvent, runVars, serverVars
<1>3. /\ \A v \in Workers : (v # n \/ e.type # "READY")
           => pc'[v] = pc[v] /\ m_chunk'[v] = m_chunk[v]
      /\ e.type = "READY" => pc'[n] = "idle" /\ m_chunk'[n] = None
  BY <1>0, <1>1, <1>2 DEF TypeOK
<1>4. /\ file' \in Logs
      /\ \A d \in Chunks : d # c => file'[d] = file[d]
      /\ file[c].status # PENDING => file'[c].status # PENDING
      /\ e.type = "LOAD_START" => file'[c].status # PENDING
      /\ e.type # "LOAD_SUBCHUNK_END" => file'[c].bytes = file[c].bytes
      /\ e.type = "LOAD_SUBCHUNK_END" /\ HasKey(c) => file'[c].bytes <= e.end
      /\ HasKey(c) => Truthful(file'[c], rows[c], c)
  BY <1>0, <1>2, LoggedFacts
\* The rest of the events are of workers whose task is not released.
<1>5. \A i \in 1 .. Len(events') :
        /\ events'[i].worker \in Workers
        /\ e.type = "READY" => events'[i].worker # n
        /\ m_chunk'[events'[i].worker] = m_chunk[events'[i].worker]
        /\ pc'[events'[i].worker] = pc[events'[i].worker]
        /\ events'[i].of = m_chunk[events'[i].worker]
        /\ events'[i].of \in Chunks
  <2> SUFFICES ASSUME NEW i \in 1 .. Len(events')
               PROVE  /\ events'[i].worker \in Workers
                      /\ events'[i].of = m_chunk[events'[i].worker]
                      /\ events'[i].of \in Chunks
                      /\ e.type = "READY" => events'[i].worker # n
    BY <1>3
  <2>1. /\ i + 1 \in 1 .. Len(events) /\ events'[i] = events[i + 1]
        /\ 1 \in 1 .. Len(events) /\ i + 1 \in 1 + 1 .. Len(events)
    BY <1>0
  <2>2. events[i + 1].worker \in Workers /\ events[i + 1].of \in Chunks
    BY <1>0, <2>1, TypeFacts
  <2> QED
    BY <2>1, <2>2 DEF IInv, Ownership
\* Only the worker of the event has this chunk.
<1>6. \A v \in Workers : v # n => m_chunk[v] # c
  BY <1>1 DEF IInv, Ownership
<1>7. e.type = "READY" => pc[n] = "ready"
  <2>1. 1 \in 1 .. Len(events)
    BY <1>0
  <2> QED
    BY <2>1 DEF IInv, Ownership
<1>8. \A v, x, y : \A k \in 1 .. Len(events) :
        /\ Started(x, events, v, k)
        /\ x.status # PENDING => y.status # PENDING
        /\ v = n /\ e.type = "LOAD_START" => y.status # PENDING
        => Started(y, events', v, k - 1)
  <2> SUFFICES ASSUME NEW v, NEW x, NEW y, NEW k \in 1 .. Len(events),
                      Started(x, events, v, k),
                      x.status # PENDING => y.status # PENDING,
                      v = n /\ e.type = "LOAD_START" => y.status # PENDING
               PROVE  Started(y, events', v, k - 1)
    OBVIOUS
  <2>1. CASE v = n /\ e.type = "LOAD_START"
    BY <2>1 DEF Started
  <2>2. CASE ~(v = n /\ e.type = "LOAD_START")
    <3>1. Started(x, Tail(events), v, k - 1)
      BY <1>0, <2>2, StartedTail
    <3> QED
      BY <1>0, <3>1 DEF Started
  <2> QED
    BY <2>1, <2>2
<1>9. TypeOK'
  BY <1>0, <1>1, <1>2, <1>4 DEF TypeOK
<1>10. Ownership'
  <2>1. /\ \A v \in Workers : m_chunk'[v] = None <=> ~Active(v)'
        /\ \A v \in Workers : Active(v)' => last'[m_chunk'[v]].status # DONE
        /\ \A u, v \in Workers : m_chunk'[u] = m_chunk'[v] /\ Active(u)' => u = v
    BY <1>2, <1>3 DEF IInv, Ownership, Active
  <2>2. \A v \in Workers : m_chunk'[v] \notin todo'
    BY <1>0, <1>2, <1>3, LoadAssumption DEF IInv, Ownership, TypeOK
  <2>3. ASSUME NEW i \in 1 .. Len(events')
        PROVE  /\ events'[i].of = m_chunk'[events'[i].worker]
               /\ events'[i].type = "READY" =>
                    /\ pc'[events'[i].worker] = "ready"
                    /\ \A j \in i + 1 .. Len(events') :
                         events'[j].worker # events'[i].worker
    <3>1. i + 1 \in 1 .. Len(events) /\ events'[i] = events[i + 1]
      BY <1>0
    <3>2. events[i + 1].type = "READY" =>
            /\ pc[events[i + 1].worker] = "ready"
            /\ \A j \in i + 1 + 1 .. Len(events) :
                 events[j].worker # events[i + 1].worker
      BY <3>1 DEF IInv, Ownership
    <3>3. \A j \in i + 1 .. Len(events') :
            j + 1 \in i + 1 + 1 .. Len(events) /\ events'[j] = events[j + 1]
      BY <1>0
    <3> QED
      BY <1>5, <3>1, <3>2, <3>3
  <2> QED
    BY <1>0, <1>2, <2>1, <2>2, <2>3 DEF Ownership
<1>11. Offsets'
  <2>1. \A i \in 1 .. Len(events') : events'[i].begin <= events'[i].end
    BY <1>0 DEF IInv, Offsets
  <2> QED
    BY <1>2, <1>3, <2>1 DEF IInv, Offsets
<1>12. Progress'
  <2> SUFFICES ASSUME NEW d \in Chunks, HasKey(d)
               PROVE  /\ Truthful(file'[d], rows[d], d)
                      /\ d \in todo => file'[d] = last[d]
                      /\ d \notin todo /\ (\A v \in Workers : m_chunk'[v] # d)
                           => LoadedUpTo(rows[d], d, Size[d])
    BY <1>0, <1>2 DEF IInv, Progress
  <2>1. Truthful(file'[d], rows[d], d)
    BY <1>4 DEF IInv, Progress
  <2>2. d \in todo => file'[d] = last[d]
    BY <1>0, <1>1, <1>4 DEF IInv, Progress, Ownership
  <2>3. CASE d = c /\ e.type = "READY"
    <3>1. WorkerOK(n)
      BY <1>1, <1>7, <2>3 DEF IInv, WorkerProgress, Active
    <3> QED
      BY <1>7, <2>1, <2>2, <2>3, <3>1 DEF WorkerOK
  <2>4. CASE d # c \/ e.type # "READY"
    <3>1. (\A v \in Workers : m_chunk'[v] # d)
            => \A v \in Workers : m_chunk[v] # d
      BY <1>3, <2>4
    <3> QED
      BY <1>0, <2>1, <2>2, <3>1 DEF IInv, Progress
  <2> QED
    BY <2>3, <2>4
<1>13. WorkerProgress'
  <2> SUFFICES ASSUME NEW v \in Workers, Active(v)', HasKey(m_chunk'[v])
               PROVE  WorkerOK(v)'
    BY DEF WorkerProgress
  <2>1. /\ v # n \/ e.type # "READY"
        /\ pc'[v] = pc[v] /\ m_chunk'[v] = m_chunk[v]
        /\ WorkerOK(v) /\ m_chunk[v] \in Chunks
    BY <1>3, ActiveFacts DEF IInv, WorkerProgress, Active
  <2> DEFINE d == m_chunk[v]
  <2>2. /\ file[d].status # PENDING => file'[d].status # PENDING
        /\ v = n /\ e.type = "LOAD_START" => file'[d].status # PENDING
    BY <1>4, <1>6, <2>1
  <2>3. pc[v] # "start" => Started(file'[d], events', v, Len(events'))
    <3>1. Len(events) \in 1 .. Len(events) /\ Len(events') = Len(events) - 1
      BY <1>0
    <3> QED
      BY <1>8, <2>1, <2>2, <3>1 DEF WorkerOK
  <2>4. /\ pc[v] = "committed" => file'[d].bytes <= begin[v]
        /\ pc[v] # "committed" => file'[d].bytes <= offset[v]
    <3>1. CASE v # n \/ e.type # "LOAD_SUBCHUNK_END"
      BY <1>4, <1>6, <2>1, <3>1 DEF WorkerOK
    <3>2. CASE v = n /\ e.type = "LOAD_SUBCHUNK_END"
      <4>1. EventOK(1) /\ e.end \in Nat
        BY <1>0, <1>1, <2>1, <3>2, TypeFacts DEF IInv, EventProgress
      <4>2. /\ pc[n] = "committed" => e.end <= begin[n]
            /\ pc[n] # "committed" => e.end <= offset[n]
        BY <3>2, <4>1 DEF EventOK
      <4>3. file'[c].bytes \in Nat /\ begin[n] \in Nat /\ offset[n] \in Nat
        BY <1>0, <1>1, <1>4, TypeFacts DEF Logs, Entries
      <4>4. file'[c].bytes <= e.end
        BY <1>4, <2>1, <3>2
      <4> QED
        BY <3>2, <4>1, <4>2, <4>3, <4>4
    <3> QED
      BY <3>1, <3>2
  <2> QED
    BY <1>2, <2>1, <2>3, <2>4 DEF WorkerOK
<1>14. EventProgress'
  <2> SUFFICES ASSUME NEW i \in 1 .. Len(events'),
                      HasKey(m_chunk'[events'[i].worker])
               PROVE  EventOK(i)'
    BY DEF EventProgress
  <2> DEFINE v == events'[i].worker
             d == m_chunk[v]
  <2>1. /\ i + 1 \in 1 .. Len(events) /\ events'[i] = events[i + 1]
        /\ v \in Workers /\ m_chunk'[v] = d /\ pc'[v] = pc[v] /\ d \in Chunks
        /\ EventOK(i + 1) /\ HasKey(d)
    <3>1. i + 1 \in 1 .. Len(events) /\ events'[i] = events[i + 1]
      BY <1>0
    <3>2. v \in Workers /\ m_chunk'[v] = d /\ pc'[v] = pc[v] /\ d \in Chunks
      BY <1>5
    <3>3. HasKey(d) /\ v = events[i + 1].worker
      BY <3>1, <3>2
    <3>4. EventOK(i + 1)
      BY <3>1, <3>3 DEF IInv, EventProgress
    <3> QED
      BY <3>1, <3>2, <3>3, <3>4
  <2>2. /\ file[d].status # PENDING => file'[d].status # PENDING
        /\ v = n /\ e.type = "LOAD_START" => file'[d].status # PENDING
    BY <1>4, <1>6, <2>1
  <2>3. events'[i].type = "LOAD_SUBCHUNK_END"
          => Started(file'[d], events', v, i - 1)
    <3>1. CASE i = 1
      <4>1. events'[i].type = "LOAD_SUBCHUNK_END" => Started(file[d], events, v, 1)
        BY <2>1, <3>1 DEF EventOK
      <4>2. 1 \in 1 .. Len(events) /\ 1 - 1 = i - 1
        BY <1>0, <3>1
      <4> QED
        BY <1>8, <2>2, <4>1, <4>2
    <3>2. CASE i # 1
      <4>1. events'[i].type = "LOAD_SUBCHUNK_END"
              => Started(file[d], events, v, i + 1 - 1)
        BY <2>1 DEF EventOK
      <4>2. i + 1 - 1 = i /\ i \in 1 .. Len(events)
        BY <1>0
      <4> QED
        BY <1>8, <2>2, <4>1, <4>2
    <3> QED
      BY <3>1, <3>2
  <2>4. events'[i].type = "LOAD_SUBCHUNK_END" => file'[d].bytes <= events'[i].begin
    <3>1. CASE v # n \/ e.type # "LOAD_SUBCHUNK_END"
      BY <1>4, <1>6, <2>1, <3>1 DEF EventOK
    <3>2. CASE v = n /\ e.type = "LOAD_SUBCHUNK_END"
      <4>1. EventOK(1) /\ e.end \in Nat /\ events'[i].begin \in Nat
        BY <1>0, <1>1, <2>1, <3>2, TypeFacts DEF IInv, EventProgress
      <4>2. i + 1 \in 1 + 1 .. Len(events)
        BY <1>0, <2>1
      <4>3. events'[i].type = "LOAD_SUBCHUNK_END" => e.end <= events'[i].begin
        BY <2>1, <3>2, <4>1, <4>2 DEF EventOK
      <4>4. file'[c].bytes \in Nat /\ file'[c].bytes <= e.end
        BY <1>1, <1>4, <2>1, <3>2 DEF Logs, Entries
      <4> QED
        BY <3>2, <4>1, <4>3, <4>4
    <3> QED
      BY <3>1, <3>2
  <2>5. events'[i].type = "LOAD_SUBCHUNK_END" =>
          \A j \in i + 1 .. Len(events') :
            events'[j].worker = v /\ events'[j].type = "LOAD_SUBCHUNK_END"
              => events'[i].end <= events'[j].begin
    <3>1. \A j \in i + 1 .. Len(events') :
            j + 1 \in i + 1 + 1 .. Len(events) /\ events'[j] = events[j + 1]
      BY <1>0
    <3> QED
      BY <2>1, <3>1 DEF EventOK
  <2> QED
    BY <1>2, <2>1, <2>3, <2>4, <2>5 DEF EventOK
<1> QED
  BY <1>9, <1>10, <1>11, <1>12, <1>13, <1>14 DEF IInv
-----------------------------------------------------------------------------
(***************************************************************************)
(* A load that was interrupted once is resumed where a row begins.         *)
(***************************************************************************)

LEMMA ChainTypes ==
  ASSUME TypeOK
  PROVE  /\ runs \in Nat /\ Len(events) \in Nat
         /\ \A c \in Chunks : /\ file[c].subs \in Nat /\ file[c].bytes \in Nat
                               /\ last[c].subs \in Nat /\ last[c].bytes \in Nat
         /\ \A w \in Workers : /\ subchunk[w] \in Nat /\ offset[w] \in Nat
                                /\ begin[w] \in Nat
         /\ \A i \in 1 .. Len(events) :
              /\ events[i].worker \in Workers
              /\ events[i].subchunk \in Nat
              /\ events[i].begin \in Nat /\ events[i].end \in Nat
<1>1. \A entry \in Entries : entry.subs \in Nat /\ entry.bytes \in Nat
  BY DEF Entries
<1>2. \A e \in Events : /\ e.worker \in Workers /\ e.subchunk \in Nat
                        /\ e.begin \in Nat /\ e.end \in Nat
  BY DEF Events
<1>3. runs \in Nat
  BY LoadAssumption DEF TypeOK
<1> QED
  BY <1>1, <1>2, <1>3, TypeFacts

\* Nothing of a file is skipped before the first row.
LEMMA EmptyAtRow ==
  ASSUME NEW c \in Chunks
  PROVE  /\ EmptyLog[c].bytes = 0 /\ EmptyLog[c].subs = 0
         /\ EmptyLog[c].status = PENDING
         /\ EmptyLog[c].bytes \in RowEnds[c]
  BY ChunkFacts DEF EmptyLog

\* A worker posts an event which is not about a sub-chunk.
LEMMA PostChains ==
  ASSUME IInv, Chains, NEW w \in Workers, pc[w] # "idle",
         pc[w] # "committed", NEW e \in Events,
         events' = Append(events, e), e.type # "LOAD_SUBCHUNK_END",
         UNCHANGED <<file, m_chunk, m_resume, begin, offset, subchunk>>,
         NEW next \in {"load", "loaded", "ended", "ready"},
         next = "load" => pc[w] = "start",
         pc' = [pc EXCEPT ![w] = next]
  PROVE  Chains'
<1>0. TypeOK /\ events \in Seq(Events) /\ Len(events) \in Nat
  BY TypeFacts DEF IInv, TypeOK
<1>1. /\ Len(events') = Len(events) + 1
      /\ \A i \in 1 .. Len(events) : events'[i] = events[i]
      /\ events'[Len(events) + 1] = e
  BY <1>0, AppendFacts
<1>2. \A v \in Workers : /\ Active(v)' => Active(v)
                         /\ Loading(v)' => Loading(v)
                         /\ Loading(v)' => NextBegin(v)' = NextBegin(v)
                         /\ pc'[v] = "truncate" => pc[v] = "truncate"
  BY <1>0 DEF TypeOK, Active, Loading, NextBegin
<1>3. ASSUME NEW v \in Workers, Active(v)'
      PROVE  ChainOK(v)'
  <2>1. ChainOK(v)
    BY <1>2, <1>3 DEF Chains
  <2> QED
    BY <1>2, <2>1 DEF ChainOK
<1>4. ASSUME NEW i \in 1 .. Len(events')
      PROVE  LinkOK(i)'
  <2>1. CASE i = Len(events) + 1
    BY <1>1, <2>1 DEF LinkOK
  <2>2. CASE i \in 1 .. Len(events)
    <3>1. LinkOK(i) /\ events'[i] = events[i] /\ events[i].worker \in Workers
      BY <1>0, <1>1, <2>2, TypeFacts DEF Chains
    <3>2. \A j \in i + 1 .. Len(events') :
            events'[j].type = "LOAD_SUBCHUNK_END"
              => j \in i + 1 .. Len(events) /\ events'[j] = events[j]
      <4> SUFFICES ASSUME NEW j \in i + 1 .. Len(events'),
                          events'[j].type = "LOAD_SUBCHUNK_END"
                   PROVE  j \in i + 1 .. Len(events) /\ events'[j] = events[j]
        OBVIOUS
      <4>1. j # Len(events) + 1
        BY <1>1
      <4>2. /\ Len(events) \in Nat /\ i \in Nat /\ i >= 1
            /\ Len(events') = Len(events) + 1
        BY <1>0, <1>1, <2>2
      <4>3. j \in Nat /\ i + 1 <= j /\ j <= Len(events)
        BY <4>1, <4>2
      <4>4. j \in i + 1 .. Len(events) /\ j \in 1 .. Len(events)
        BY <4>2, <4>3
      <4> QED
        BY <1>1, <4>4
    <3> QED
      BY <1>2, <3>1, <3>2 DEF LinkOK
  <2> QED
    BY <1>0, <1>1, <2>1, <2>2
<1> QED
  BY <1>3, <1>4 DEF Chains

\* A worker commits: what it commits is logged later.
LEMMA CommitChains ==
  ASSUME IInv, Chains, NEW w \in Workers, Commit(w)
  PROVE  Chains'
<1>0. TypeOK /\ pc[w] = "load" /\ Loading(w) /\ Active(w)
  BY DEF Commit, IInv, Loading, Active
<1>1. PICK e : /\ begin' = [begin EXCEPT ![w] = offset[w]]
               /\ offset' = [offset EXCEPT ![w] = e]
  BY DEF Commit
<1>2. /\ UNCHANGED <<file, m_chunk, m_resume, subchunk, events>>
      /\ pc' = [pc EXCEPT ![w] =
                  IF truncating[w] THEN "committed" ELSE "loaded"]
  BY DEF Commit
<1>3. \A v \in Workers : /\ Active(v)' => Active(v)
                         /\ Loading(v)' => Loading(v)
                         /\ Loading(v)' => NextBegin(v)' = NextBegin(v)
                         /\ pc'[v] = "truncate" => pc[v] = "truncate"
  BY <1>0, <1>1, <1>2 DEF TypeOK, Active, Loading, NextBegin
<1>4. ASSUME NEW v \in Workers, Active(v)'
      PROVE  ChainOK(v)'
  <2>1. ChainOK(v)
    BY <1>3, <1>4 DEF Chains
  <2> QED
    BY <1>2, <1>3, <2>1 DEF ChainOK
<1>5. ASSUME NEW i \in 1 .. Len(events)
      PROVE  LinkOK(i)'
  <2>1. LinkOK(i) /\ events[i].worker \in Workers
    BY <1>0, TypeFacts DEF Chains
  <2> QED
    BY <1>2, <1>3, <2>1 DEF LinkOK
<1> QED
  BY <1>2, <1>4, <1>5 DEF Chains

\* The end of a sub-chunk is posted: it is the next one of its chain.
LEMMA TransactionFinishedChains ==
  ASSUME IInv, Chains, NEW w \in Workers, TransactionFinished(w),
         offset[w] \in RowEnds[m_chunk[w]]
  PROVE  Chains'
<1> DEFINE e == Event(w, "LOAD_SUBCHUNK_END")
<1>0. /\ TypeOK /\ pc[w] = "committed" /\ Active(w) /\ Loading(w)
      /\ m_chunk[w] \in Chunks /\ events \in Seq(Events) /\ e \in Events
      /\ events' = Append(events, e) /\ Len(events) \in Nat
      /\ subchunk' = [subchunk EXCEPT ![w] = @ + 1]
      /\ UNCHANGED <<file, m_chunk, m_resume, begin, offset>>
  BY ActiveFacts, EventFacts, TypeFacts DEF TransactionFinished, IInv, TypeOK,
     Active, Loading
<1>1. PICK next \in {"load", "loaded"} : pc' = [pc EXCEPT ![w] = next]
  BY DEF TransactionFinished, AfterTransaction
<1>2. /\ e.type = "LOAD_SUBCHUNK_END" /\ e.worker = w /\ e.subchunk = subchunk[w]
      /\ e.begin = begin[w] /\ e.end = offset[w]
  BY DEF Event
<1>3. /\ Len(events') = Len(events) + 1
      /\ \A i \in 1 .. Len(events) : events'[i] = events[i]
      /\ events'[Len(events) + 1] = e
  BY <1>0, AppendFacts
<1>4. /\ \A v \in Workers \ {w} :
           /\ pc'[v] = pc[v] /\ subchunk'[v] = subchunk[v]
           /\ Active(v)' = Active(v) /\ Loading(v)' = Loading(v)
           /\ NextBegin(v)' = NextBegin(v)
      /\ pc'[w] = next /\ subchunk'[w] = subchunk[w] + 1
      /\ NextBegin(w) = begin[w] /\ NextBegin(w)' = offset[w]
      /\ subchunk[w] \in Nat
  BY <1>0, <1>1, TypeFacts DEF TypeOK, Active, Loading, NextBegin
<1>5. ChainOK(w) /\ file[m_chunk[w]].subs \in Nat
  BY <1>0, ChainTypes DEF Chains
<1>6. ASSUME NEW v \in Workers, Active(v)'
      PROVE  ChainOK(v)'
  <2>1. CASE v = w
    BY <1>0, <1>4, <1>5, <2>1 DEF ChainOK
  <2>2. CASE v # w
    <3>1. ChainOK(v)
      BY <1>4, <1>6, <2>2 DEF Chains
    <3> QED
      BY <1>0, <1>4, <2>2, <3>1 DEF ChainOK
  <2> QED
    BY <2>1, <2>2
<1>7. ASSUME NEW i \in 1 .. Len(events')
      PROVE  LinkOK(i)'
  <2>1. CASE i = Len(events) + 1
    <3>1. events'[i] = e /\ ~ \E j \in i + 1 .. Len(events') : TRUE
      BY <1>0, <1>3, <2>1
    <3>2. file[m_chunk[w]].subs = subchunk[w]
            => file[m_chunk[w]].bytes = begin[w]
      BY <1>0, <1>4, <1>5 DEF ChainOK
    <3>3. file[m_chunk[w]].subs <= subchunk[w] /\ subchunk[w] < subchunk'[w]
      BY <1>4, <1>5 DEF ChainOK
    <3> QED
      BY <1>0, <1>2, <1>4, <3>1, <3>2, <3>3 DEF LinkOK
  <2>2. CASE i \in 1 .. Len(events)
    <3> DEFINE v == events[i].worker
    <3>1. /\ LinkOK(i) /\ events'[i] = events[i] /\ v \in Workers
          /\ events[i].subchunk \in Nat
      BY <1>0, <1>3, <2>2, ChainTypes DEF Chains
    <3> SUFFICES ASSUME events[i].type = "LOAD_SUBCHUNK_END"
                 PROVE  LinkOK(i)'
      BY <3>1 DEF LinkOK
    <3>2. /\ events[i].end \in RowEnds[m_chunk[v]]
          /\ file[m_chunk[v]].subs <= events[i].subchunk
          /\ file[m_chunk[v]].subs = events[i].subchunk
               => file[m_chunk[v]].bytes = events[i].begin
          /\ events[i].subchunk < subchunk[v]
          /\ events[i].subchunk + 1 = subchunk[v] /\ Loading(v)
               => events[i].end = NextBegin(v)
      BY <3>1 DEF LinkOK
    <3>3. /\ events[i].subchunk < subchunk'[v]
          /\ events[i].subchunk + 1 = subchunk'[v] /\ Loading(v)'
               => events[i].end = NextBegin(v)'
      BY <1>4, <3>1, <3>2
    <3>4. ASSUME NEW j \in i + 1 .. Len(events'), events'[j].worker = v,
                 events'[j].type = "LOAD_SUBCHUNK_END"
          PROVE  /\ events[i].subchunk < events'[j].subchunk
                 /\ events[i].subchunk + 1 = events'[j].subchunk
                      => events[i].end = events'[j].begin
      <4>1. CASE j = Len(events) + 1
        BY <1>0, <1>2, <1>3, <1>4, <3>2, <3>4, <4>1
      <4>2. CASE j \in i + 1 .. Len(events)
        <5>1. events'[j] = events[j]
          BY <1>0, <1>3, <2>2, <4>2
        <5> QED
          BY <3>1, <3>4, <4>2, <5>1 DEF LinkOK
      <4> QED
        BY <1>0, <1>3, <2>2, <4>1, <4>2
    <3> QED
      BY <1>0, <3>1, <3>2, <3>3, <3>4 DEF LinkOK
  <2> QED
    BY <1>0, <1>3, <2>1, <2>2
<1> QED
  BY <1>6, <1>7 DEF Chains

\* An event is handled: if it is the end of a sub-chunk, the chain is logged up
\* to where the sub-chunk ends.
LEMMA HandleEventChains ==
  ASSUME IInv, Chains, HandleEvent, last = EmptyLog,
         \A c \in Chunks : file[c].bytes \in RowEnds[c]
  PROVE  /\ Chains'
         /\ \A c \in Chunks : file'[c].bytes \in RowEnds[c]
         /\ \A c \in todo : file'[c] = file[c]
<1> DEFINE e == Head(events)
           n == e.worker
           c == m_chunk[n]
<1>0. /\ TypeOK /\ events \in Seq(Events) /\ events # <<>>
      /\ Len(events) \in Nat /\ Len(events) >= 1
      /\ e = events[1] /\ e \in Events /\ Len(events') = Len(events) - 1
      /\ \A i \in 1 .. Len(events') :
           i + 1 \in 1 .. Len(events) /\ events'[i] = events[i + 1]
  BY TailFacts DEF HandleEvent, IInv, TypeOK
<1>1. 1 \in 1 .. Len(events)
  BY <1>0
<1>2. /\ n \in Workers /\ c \in Chunks /\ e.of = c /\ c # None /\ LinkOK(1)
      /\ e.subchunk \in Nat /\ e.begin \in Nat /\ e.end \in Nat
      /\ e.begin <= e.end
      /\ e.type \in {"LOAD_START", "LOAD_SUBCHUNK_END", "LOAD_END", "READY"}
  <2>1. e \in Events /\ e.of = c /\ LinkOK(1) /\ e.begin <= e.end
    BY <1>0, <1>1 DEF IInv, Ownership, Offsets, Chains
  <2> QED
    BY <2>1, LoadAssumption DEF Events
<1>3. /\ file' = Logged(e) /\ file \in Logs
      /\ pc' = IF e.type = "READY" THEN [pc EXCEPT ![n] = "idle"] ELSE pc
      /\ m_chunk' = IF e.type = "READY" THEN [m_chunk EXCEPT ![n] = None]
                                        ELSE m_chunk
      /\ UNCHANGED <<m_resume, offset, begin, subchunk>>
  BY <1>0 DEF HandleEvent, TypeOK
<1>4. last[c].subs = 0
  BY <1>2, EmptyAtRow
\* What is logged.
<1>5. \A d \in Chunks : d # c => file'[d] = file[d]
  BY <1>2, <1>3 DEF Logged, LogStart, LogSubchunkEnd, LogEnd, Logs
<1>6. e.type # "LOAD_SUBCHUNK_END" \/ e.subchunk # file[c].subs =>
        file'[c].subs = file[c].subs /\ file'[c].bytes = file[c].bytes
  <2>1. CASE e.type = "LOAD_START"
    BY <1>2, <1>3, <2>1 DEF Logged, LogStart, Logs, Entries
  <2>2. CASE e.type = "LOAD_SUBCHUNK_END"
    BY <1>2, <1>3, <2>2 DEF Logged, LogSubchunkEnd
  <2>3. CASE e.type = "LOAD_END"
    BY <1>2, <1>3, <2>3 DEF Logged, LogEnd, Logs, Entries
  <2>4. CASE e.type = "READY"
    BY <1>2, <1>3, <2>4 DEF Logged
  <2> QED
    BY <1>2, <2>1, <2>2, <2>3, <2>4
<1>7. e.type = "LOAD_SUBCHUNK_END" /\ e.subchunk = file[c].subs =>
        /\ file'[c].subs = file[c].subs + 1
        /\ file'[c].bytes = e.end
        /\ e.end \in RowEnds[c]
  <2> SUFFICES ASSUME e.type = "LOAD_SUBCHUNK_END", e.subchunk = file[c].subs
               PROVE  /\ file'[c].subs = file[c].subs + 1
                      /\ file'[c].bytes = e.end
                      /\ e.end \in RowEnds[c]
    OBVIOUS
  <2>1. e.end \in RowEnds[c] /\ file[c].bytes = e.begin
    BY <1>0, <1>2 DEF LinkOK
  <2>2. ~(e.subchunk < last[c].subs \/ e.subchunk # file[c].subs)
    BY <1>2, <1>4
  <2>3. file' = [file EXCEPT ![c] = [status |-> @.status, subs |-> @.subs + 1,
                                     bytes |-> @.bytes + (e.end - e.begin)]]
    BY <1>3, <2>2 DEF Logged, LogSubchunkEnd
  <2>4. /\ file'[c].subs = file[c].subs + 1
        /\ file'[c].bytes = file[c].bytes + (e.end - e.begin)
    BY <1>2, <1>3, <2>3 DEF Logs
  <2> QED
    BY <1>2, <2>1, <2>4
<1>8. \A d \in Chunks : file[d].subs \in Nat /\ file[d].bytes \in Nat
  BY <1>0, ChainTypes
<1>9. \A d \in Chunks : file'[d].bytes \in RowEnds[d]
  BY <1>5, <1>6, <1>7
<1>10. \A d \in todo : file'[d] = file[d]
  BY <1>0, <1>2, <1>5 DEF IInv, Ownership, TypeOK
\* Who has the chunks.
<1>11. /\ \A v \in Workers : v # n /\ Active(v) => m_chunk[v] # c
       /\ \A v \in Workers : Active(v)' =>
            /\ Active(v) /\ pc'[v] = pc[v] /\ m_chunk'[v] = m_chunk[v]
            /\ m_chunk[v] \in Chunks
  BY <1>0, <1>2, <1>3, ActiveFacts DEF IInv, Ownership, TypeOK, Active
<1>12. ASSUME NEW i \in 1 .. Len(events')
       PROVE  LET v == events'[i].worker IN
              /\ v \in Workers /\ Active(v) /\ m_chunk[v] \in Chunks
              /\ pc'[v] = pc[v] /\ m_chunk'[v] = m_chunk[v]
              /\ LinkOK(i + 1) /\ i + 1 \in 1 .. Len(events)
              /\ events'[i] = events[i + 1]
  <2>1. i + 1 \in 1 .. Len(events) /\ events'[i] = events[i + 1]
        /\ i + 1 \in 1 + 1 .. Len(events)
    BY <1>0
  <2>2. events[i + 1].worker \in Workers /\ events[i + 1].of \in Chunks
        /\ events[i + 1].of = m_chunk[events[i + 1].worker]
    BY <1>0, <2>1, TypeFacts DEF IInv, Ownership
  <2>3. e.type = "READY" => events[i + 1].worker # n
    BY <1>0, <1>1, <2>1 DEF IInv, Ownership
  <2>4. Active(events[i + 1].worker)
    BY <2>2, LoadAssumption DEF IInv, Ownership
  <2> QED
    BY <1>0, <1>3, <2>1, <2>2, <2>3, <2>4 DEF Chains, TypeOK
<1>13. ASSUME NEW v \in Workers, Active(v)'
       PROVE  ChainOK(v)'
  <2>1. /\ ChainOK(v) /\ pc'[v] = pc[v] /\ m_chunk'[v] = m_chunk[v]
        /\ m_chunk[v] \in Chunks /\ Active(v) /\ subchunk[v] \in Nat
    BY <1>0, <1>11, <1>13, ChainTypes DEF Chains
  <2>2. NextBegin(v)' = NextBegin(v) /\ Loading(v)' = Loading(v)
    BY <1>3, <2>1 DEF NextBegin, Loading
  <2>3. CASE v = n /\ e.type = "LOAD_SUBCHUNK_END" /\ e.subchunk = file[c].subs
    <3>1. /\ e.subchunk < subchunk[v]
          /\ e.subchunk + 1 = subchunk[v] /\ Loading(v) => e.end = NextBegin(v)
      BY <1>0, <1>2, <2>3 DEF LinkOK
    <3>2. /\ file'[c].subs <= subchunk[v]
          /\ file'[c].subs = subchunk[v] /\ Loading(v)
               => file'[c].bytes = NextBegin(v)
      BY <1>2, <1>7, <1>8, <2>1, <2>3, <3>1
    <3> QED
      BY <1>3, <2>1, <2>2, <2>3, <3>2 DEF ChainOK
  <2>4. CASE ~(v = n /\ e.type = "LOAD_SUBCHUNK_END"
                 /\ e.subchunk = file[c].subs)
    <3>1. /\ file'[m_chunk[v]].subs = file[m_chunk[v]].subs
          /\ file'[m_chunk[v]].bytes = file[m_chunk[v]].bytes
      BY <1>5, <1>6, <1>11, <2>1, <2>4
    <3> QED
      BY <1>3, <2>1, <2>2, <3>1 DEF ChainOK
  <2> QED
    BY <2>3, <2>4
<1>14. ASSUME NEW i \in 1 .. Len(events')
       PROVE  LinkOK(i)'
  <2>0. PICK x \in Events, v \in Workers : x = events'[i] /\ v = x.worker
    BY <1>0, <1>12, TypeFacts
  <2> DEFINE d == m_chunk[v]
  <2>1. /\ Active(v) /\ d \in Chunks
        /\ pc'[v] = pc[v] /\ m_chunk'[v] = d
        /\ LinkOK(i + 1) /\ i + 1 \in 1 .. Len(events) /\ x = events[i + 1]
        /\ x.subchunk \in Nat
    BY <1>0, <1>12, <2>0, ChainTypes
  <2> SUFFICES ASSUME x.type = "LOAD_SUBCHUNK_END"
               PROVE  LinkOK(i)'
    BY <2>0 DEF LinkOK
  <2>2. NextBegin(v)' = NextBegin(v) /\ Loading(v)' = Loading(v)
    BY <1>3, <2>1 DEF NextBegin, Loading
  <2>3. /\ x.end \in RowEnds[d]
        /\ file[d].subs <= x.subchunk
        /\ file[d].subs = x.subchunk => file[d].bytes = x.begin
        /\ x.subchunk < subchunk[v]
        /\ x.subchunk + 1 = subchunk[v] /\ Loading(v) => x.end = NextBegin(v)
        /\ \A j \in i + 1 + 1 .. Len(events) :
             events[j].worker = v /\ events[j].type = "LOAD_SUBCHUNK_END" =>
               /\ x.subchunk < events[j].subchunk
               /\ x.subchunk + 1 = events[j].subchunk => x.end = events[j].begin
    BY <2>0, <2>1 DEF LinkOK
  <2>4. /\ file'[d].subs <= x.subchunk
        /\ file'[d].subs = x.subchunk => file'[d].bytes = x.begin
    <3>1. CASE v = n /\ e.type = "LOAD_SUBCHUNK_END" /\ e.subchunk = file[c].subs
      <4>1. i + 1 \in 1 + 1 .. Len(events)
        BY <1>0, <2>1
      <4>2. /\ e.subchunk < x.subchunk
            /\ e.subchunk + 1 = x.subchunk => e.end = x.begin
        <5>1. \A j \in 1 + 1 .. Len(events) :
                events[j].worker = n /\ events[j].type = "LOAD_SUBCHUNK_END" =>
                  /\ e.subchunk < events[j].subchunk
                  /\ e.subchunk + 1 = events[j].subchunk
                       => e.end = events[j].begin
          BY <1>0, <1>2, <3>1 DEF LinkOK
        <5> QED
          BY <2>0, <2>1, <3>1, <4>1, <5>1
      <4> QED
        BY <1>2, <1>7, <1>8, <2>1, <3>1, <4>2
    <3>2. CASE ~(v = n /\ e.type = "LOAD_SUBCHUNK_END"
                   /\ e.subchunk = file[c].subs)
      <4>1. file'[d].subs = file[d].subs /\ file'[d].bytes = file[d].bytes
        BY <1>5, <1>6, <1>11, <2>1, <3>2
      <4> QED
        BY <2>3, <4>1
    <3> QED
      BY <3>1, <3>2
  <2>5. \A j \in i + 1 .. Len(events') :
          events'[j].worker = v /\ events'[j].type = "LOAD_SUBCHUNK_END" =>
            /\ x.subchunk < events'[j].subchunk
            /\ x.subchunk + 1 = events'[j].subchunk => x.end = events'[j].begin
    <3>1. \A j \in i + 1 .. Len(events') :
            j + 1 \in i + 1 + 1 .. Len(events) /\ events'[j] = events[j + 1]
      BY <1>0
    <3> QED
      BY <2>3, <3>1
  <2> QED
    BY <1>3, <2>0, <2>1, <2>2, <2>3, <2>4, <2>5 DEF LinkOK
<1> QED
  BY <1>9, <1>10, <1>13, <1>14 DEF Chains

\* A chunk is scheduled in the first run: nothing of it was logged yet.
LEMMA ScheduleChains ==
  ASSUME IInv, Chains, NEW w \in Workers, NEW c \in Chunks, Schedule(w, c),
         last = EmptyLog, file[c] = EmptyLog[c]
  PROVE  Chains'
<1>0. /\ TypeOK /\ phase = "running" /\ c \in todo /\ pc[w] = "idle"
      /\ pc' = [pc EXCEPT ![w] = "start"]
      /\ m_chunk' = [m_chunk EXCEPT ![w] = c]
      /\ m_resume' = [m_resume EXCEPT ![w] = last[c].status = INTERRUPTED]
      /\ offset' = [offset EXCEPT ![w] = BytesToSkip(c)]
      /\ begin' = [begin EXCEPT ![w] = BytesToSkip(c)]
      /\ subchunk' = [subchunk EXCEPT ![w] = 0]
      /\ UNCHANGED <<file, events>>
  BY DEF Schedule, IInv
<1>1. BytesToSkip(c) = 0 /\ last[c].status # INTERRUPTED
  BY EmptyAtRow DEF BytesToSkip, PENDING, INTERRUPTED
<1>2. /\ m_chunk'[w] = c /\ pc'[w] = "start" /\ offset'[w] = 0
      /\ begin'[w] = 0 /\ subchunk'[w] = 0 /\ ~m_resume'[w]
      /\ \A v \in Workers \ {w} :
           /\ m_chunk'[v] = m_chunk[v] /\ pc'[v] = pc[v]
           /\ offset'[v] = offset[v] /\ begin'[v] = begin[v]
           /\ m_resume'[v] = m_resume[v] /\ subchunk'[v] = subchunk[v]
  BY <1>0, <1>1 DEF TypeOK
<1>3. \A i \in 1 .. Len(events) :
        events[i].worker \in Workers /\ events[i].worker # w
  BY <1>0, TypeFacts, LoadAssumption DEF IInv, Ownership, Active
<1>4. ChainOK(w)'
  BY <1>0, <1>2, EmptyAtRow DEF ChainOK, NextBegin
<1>5. ASSUME NEW v \in Workers \ {w}, Active(v)'
      PROVE  ChainOK(v)'
  <2>1. ChainOK(v)
    BY <1>2, <1>5 DEF Chains, Active
  <2> QED
    BY <1>0, <1>2, <2>1 DEF ChainOK, NextBegin, Loading
<1>6. ASSUME NEW i \in 1 .. Len(events)
      PROVE  LinkOK(i)'
  <2>1. LinkOK(i)
    BY DEF Chains
  <2> QED
    BY <1>0, <1>2, <1>3, <2>1 DEF LinkOK, NextBegin, Loading
<1> QED
  BY <1>0, <1>4, <1>5, <1>6 DEF Chains

\* A step which leaves the server and the offsets alone, and ends no load.
LEMMA KeepsRows ==
  ASSUME SecondRun, Replacements,
         UNCHANGED <<runs, last, rows, torn, overwritten, offset>>,
         \A w \in Workers : Active(w)' => Active(w) /\ m_chunk'[w] = m_chunk[w]
  PROVE  SecondRun' /\ Replacements'
  BY DEF SecondRun, Replacements, Intact

LEMMA RunExact ==
  ASSUME ExactInv, OpenLog \/ RewriteLog \/ Crash \/ Finish
  PROVE  FirstRun' /\ SecondRun' /\ Replacements'
<1>0. /\ runs \in Nat /\ TypeOK
      /\ UNCHANGED <<torn, overwritten>>
      /\ events' = <<>> /\ \A w \in Workers : pc'[w] = "idle"
  <2>1. runs \in Nat /\ TypeOK
    BY ChainTypes DEF ExactInv, IInv
  <2>2. CASE OpenLog \/ RewriteLog
    BY <2>1, <2>2, Quiet DEF ExactInv, OpenLog, RewriteLog, serverVars
  <2>3. CASE Crash \/ Finish
    BY <2>1, <2>3 DEF Crash, Finish, serverVars
  <2> QED
    BY <2>1, <2>2, <2>3
<1>1. Replacements'
  BY <1>0 DEF ExactInv, Replacements, Intact
<1>2. Chains'
  BY <1>0 DEF Chains, Active
<1>3. CASE OpenLog
  <2>1. /\ runs' = runs + 1 /\ phase' = "opened" /\ last' = file
        /\ file' = EmptyLog
    BY <1>3 DEF OpenLog
  <2>2. FirstRun'
    BY <1>0, <1>2, <2>1, EmptyAtRow DEF ExactInv, FirstRun
  <2>3. SecondRun'
    BY <1>0, <2>1 DEF ExactInv, FirstRun, SecondRun, Active
  <2> QED
    BY <1>1, <2>2, <2>3
<1>4. CASE RewriteLog
  <2>1. /\ UNCHANGED <<runs, last>> /\ phase = "opened" /\ phase' = "running"
        /\ file' = last
    BY <1>4 DEF RewriteLog
  <2>2. FirstRun'
    <3>1. runs # 0
      BY <2>1 DEF ExactInv, FirstRun
    <3>2. runs <= 1 => last = EmptyLog
      BY DEF ExactInv, FirstRun
    <3>3. runs <= 1 => \A c \in todo' : file'[c] = EmptyLog[c]
      BY <2>1, <3>2
    <3> QED
      BY <1>2, <2>1, <3>1, <3>2, <3>3, EmptyAtRow DEF FirstRun
  <2>3. SecondRun'
    BY <1>0, <2>1 DEF ExactInv, SecondRun, Active
  <2> QED
    BY <1>1, <2>2, <2>3
<1>5. CASE Crash \/ Finish
  <2>1. /\ UNCHANGED <<runs, last, file>> /\ phase # "down"
        /\ phase' \in {"down", "finished"}
    BY <1>5 DEF Crash, Finish
  <2>2. FirstRun'
    BY <1>0, <1>2, <2>1 DEF ExactInv, FirstRun
  <2>3. SecondRun'
    BY <1>0, <2>1 DEF ExactInv, SecondRun, Active
  <2> QED
    BY <1>1, <2>2, <2>3
<1> QED
  BY <1>3, <1>4, <1>5

LEMMA SkipLoadedExact ==
  ASSUME ExactInv, NEW c \in Chunks, SkipLoaded(c)
  PROVE  FirstRun' /\ SecondRun' /\ Replacements'
<1>1. /\ todo' = todo \ {c}
      /\ UNCHANGED <<phase, runs, last, file, pc, m_chunk, m_resume, offset,
                     begin, subchunk, truncating, events, rows, torn,
                     overwritten>>
  BY DEF SkipLoaded, taskVars, serverVars
<1>2. Chains => Chains'
  BY <1>1 DEF Chains, ChainOK, LinkOK, NextBegin, Loading, Active
<1>3. FirstRun'
  BY <1>1, <1>2 DEF ExactInv, FirstRun
<1>4. SecondRun' /\ Replacements'
  BY <1>1, KeepsRows DEF ExactInv, Active
<1> QED
  BY <1>3, <1>4

LEMMA ScheduleExact ==
  ASSUME ExactInv, NEW w \in Workers, NEW c \in Chunks, Schedule(w, c)
  PROVE  FirstRun' /\ SecondRun' /\ Replacements'
<1>0. /\ TypeOK /\ phase = "running" /\ c \in todo /\ todo' = todo \ {c}
      /\ pc' = [pc EXCEPT ![w] = "start"]
      /\ m_chunk' = [m_chunk EXCEPT ![w] = c]
      /\ offset' = [offset EXCEPT ![w] = BytesToSkip(c)]
      /\ UNCHANGED <<phase, runs, last, file, events, torn, overwritten>>
  BY DEF Schedule, ExactInv, IInv, serverVars
<1>1. FirstRun'
  <2>1. runs <= 1 => Chains'
    BY <1>0, ScheduleChains DEF ExactInv, FirstRun
  <2> QED
    BY <1>0, <2>1 DEF ExactInv, FirstRun
<1>2. SecondRun'
  <2> SUFFICES ASSUME runs <= 2
               PROVE  \A v \in Workers :
                        Active(v)' => offset'[v] \in RowEnds[m_chunk'[v]]
    BY <1>0 DEF ExactInv, SecondRun
  <2>1. BytesToSkip(c) \in RowEnds[c]
    BY ChunkFacts DEF ExactInv, SecondRun, BytesToSkip
  <2> QED
    BY <1>0, <2>1 DEF ExactInv, SecondRun, Active, TypeOK
<1>3. Replacements'
  BY <1>0 DEF ExactInv, Replacements, Intact
<1> QED
  BY <1>1, <1>2, <1>3

LEMMA HandleEventExact ==
  ASSUME ExactInv, HandleEvent
  PROVE  FirstRun' /\ SecondRun' /\ Replacements'
<1>0. /\ TypeOK /\ phase = "running"
      /\ UNCHANGED <<phase, runs, last, todo, offset, rows, torn, overwritten>>
      /\ events # <<>>
  BY DEF HandleEvent, ExactInv, IInv, runVars, serverVars
<1>1. FirstRun'
  <2>1. runs # 0
    BY <1>0 DEF ExactInv, FirstRun
  <2>2. runs <= 1 =>
          /\ Chains'
          /\ \A c \in Chunks : file'[c].bytes \in RowEnds[c]
          /\ \A c \in todo : file'[c] = file[c]
    BY HandleEventChains DEF ExactInv, FirstRun
  <2> QED
    BY <1>0, <2>1, <2>2 DEF ExactInv, FirstRun
<1>2. \A w \in Workers : Active(w)' => Active(w) /\ m_chunk'[w] = m_chunk[w]
  BY <1>0, TypeFacts DEF HandleEvent, TypeOK, Active
<1> QED
  BY <1>0, <1>1, <1>2, KeepsRows DEF ExactInv

\* A worker which posts an event.
LEMMA PostExact ==
  ASSUME ExactInv, NEW w \in Workers,
         OnLoadStart(w) \/ TransactionFinished(w) \/ OnLoadEnd(w) \/ Ready(w)
  PROVE  FirstRun' /\ SecondRun' /\ Replacements'
<1>0. /\ TypeOK /\ Active(w) /\ phase = "running" /\ m_chunk[w] \in Chunks
      /\ UNCHANGED <<phase, runs, last, todo, file, m_chunk, m_resume, offset,
                     begin, rows, torn, overwritten>>
      /\ \A v \in Workers : Active(v)' => Active(v)
  <2>1. pc[w] # "idle" /\ TypeOK
    BY DEF OnLoadStart, TransactionFinished, OnLoadEnd, Ready, ExactInv, IInv
  <2>2. Active(w) /\ phase = "running" /\ m_chunk[w] \in Chunks
    BY <2>1, ActiveFacts DEF ExactInv, Active
  <2>3. UNCHANGED <<phase, runs, last, todo, file, m_chunk, m_resume, offset,
                    begin, rows, torn, overwritten>>
    BY DEF OnLoadStart, TransactionFinished, OnLoadEnd, Ready, runVars,
       taskVars, serverVars
  <2>4. \A v \in Workers : v # w => pc'[v] = pc[v]
    BY <2>1 DEF OnLoadStart, TransactionFinished, OnLoadEnd, Ready, TypeOK
  <2> QED
    BY <2>1, <2>2, <2>3, <2>4 DEF Active
<1>1. ASSUME runs <= 1
      PROVE  Chains'
  <2>1. IInv /\ Chains /\ ChainOK(w)
    BY <1>0, <1>1 DEF ExactInv, FirstRun, Chains
  <2>2. CASE OnLoadStart(w)
    <3>1. /\ pc' = [pc EXCEPT ![w] = "load"] /\ pc[w] = "start"
          /\ events' = Append(events, Event(w, "LOAD_START"))
          /\ subchunk' = subchunk
      BY <2>1, <2>2 DEF OnLoadStart, ChainOK, taskVars
    <3> QED
      BY <1>0, <2>1, <3>1, EventFacts, PostChains
  <2>3. CASE TransactionFinished(w)
    <3>1. offset[w] \in RowEnds[m_chunk[w]]
      BY <1>0, <1>1, ChainTypes DEF ExactInv, SecondRun
    <3> QED
      BY <2>1, <2>3, <3>1, TransactionFinishedChains
  <2>4. CASE OnLoadEnd(w)
    <3>1. /\ pc' = [pc EXCEPT ![w] = "ended"] /\ pc[w] = "loaded"
          /\ events' = Append(events, Event(w, "LOAD_END"))
          /\ subchunk' = subchunk
      BY <2>4 DEF OnLoadEnd, taskVars
    <3> QED
      BY <1>0, <2>1, <3>1, EventFacts, PostChains
  <2>5. CASE Ready(w)
    <3>1. /\ pc' = [pc EXCEPT ![w] = "ready"] /\ pc[w] = "ended"
          /\ events' = Append(events, Event(w, "READY"))
          /\ subchunk' = subchunk
      BY <2>5 DEF Ready, taskVars
    <3> QED
      BY <1>0, <2>1, <3>1, EventFacts, PostChains
  <2> QED
    BY <2>2, <2>3, <2>4, <2>5
<1>2. FirstRun'
  BY <1>0, <1>1 DEF ExactInv, FirstRun
<1> QED
  BY <1>0, <1>2, KeepsRows DEF ExactInv

LEMMA TruncateExact ==
  ASSUME ExactInv, NEW w \in Workers, Truncate(w)
  PROVE  FirstRun' /\ SecondRun' /\ Replacements'
<1>0. /\ TypeOK /\ pc[w] = "truncate" /\ Active(w) /\ m_chunk[w] \in Chunks
      /\ UNCHANGED <<phase, runs, last, todo, file, m_chunk>>
      /\ pc' = [pc EXCEPT ![w] = "load"]
      /\ offset' = [offset EXCEPT ![w] = 0]
      /\ torn' = {c \in torn : Table[c] # Table[m_chunk[w]]}
      /\ overwritten' = overwritten \ TableRows(Table[m_chunk[w]])
  BY ActiveFacts DEF Truncate, ExactInv, IInv, Active, runVars
\* No chunk is resumed in the first run.
<1>1. ~(runs <= 1) /\ runs \in Nat
  BY <1>0, ChainTypes DEF ExactInv, FirstRun, Chains, ChainOK
<1>2. FirstRun'
  BY <1>0, <1>1 DEF FirstRun
<1>3. SecondRun'
  <2>1. \A v \in Workers :
          Active(v)' => Active(v) /\ (offset'[v] = offset[v] \/ offset'[v] = 0)
    BY <1>0 DEF TypeOK, Active
  <2>2. \A v \in Workers : Active(v) => m_chunk[v] \in Chunks
    BY ActiveFacts DEF ExactInv, Active
  <2> QED
    BY <1>0, <2>1, <2>2, ChunkFacts DEF ExactInv, SecondRun
<1>4. Replacements'
  <2> SUFFICES ASSUME NEW c \in Chunks, NEW r \in Rows(c),
                      <<c, r>> \in overwritten'
               PROVE  \E d \in torn' : Table[d] = Table[c]
    BY DEF Replacements, Intact
  <2>1. PICK d \in torn : Table[d] = Table[c]
    BY <1>0 DEF ExactInv, Replacements, Intact
  <2>2. Table[c] # Table[m_chunk[w]]
    BY <1>0 DEF TableRows
  <2> QED
    BY <1>0, <2>1, <2>2
<1> QED
  BY <1>2, <1>3, <1>4

LEMMA CommitExact ==
  ASSUME ExactInv, NEW w \in Workers, Commit(w)
  PROVE  FirstRun' /\ SecondRun' /\ Replacements'
<1> DEFINE c == m_chunk[w]
           o == offset[w]
<1>0. /\ TypeOK /\ pc[w] = "load" /\ Active(w) /\ c \in Chunks
      /\ UNCHANGED <<phase, runs, last, todo, file, m_chunk>>
      /\ pc' = [pc EXCEPT ![w] =
                  IF truncating[w] THEN "committed" ELSE "loaded"]
  BY ActiveFacts DEF Commit, ExactInv, IInv, Active, runVars
<1>1. PICK e \in RowEnds[c] :
        /\ torn' = IF o \in RowEnds[c] THEN torn ELSE torn \cup {c}
        /\ \E lost \in Replaced(c, o) :
             overwritten' = (overwritten \cup lost)
                              \ ({c} \X RowsBetween(c, o, e))
        /\ offset' = [offset EXCEPT ![w] = e]
  BY DEF Commit
<1>2. FirstRun'
  BY <1>0, CommitChains DEF ExactInv, FirstRun
<1>3. SecondRun'
  <2>1. \A v \in Workers :
          /\ Active(v)' => Active(v)
          /\ offset'[v] = IF v = w THEN e ELSE offset[v]
    BY <1>0, <1>1 DEF TypeOK, Active
  <2> QED
    BY <1>0, <1>1, <2>1 DEF ExactInv, SecondRun
<1>4. Replacements'
  <2> SUFFICES ASSUME NEW d \in Chunks, NEW r \in Rows(d),
                      <<d, r>> \in overwritten'
               PROVE  \E x \in torn' : Table[x] = Table[d]
    BY DEF Replacements, Intact
  <2>1. PICK lost \in Replaced(c, o) : <<d, r>> \in overwritten \cup lost
    BY <1>1
  <2>2. CASE <<d, r>> \in overwritten
    BY <1>1, <2>2 DEF ExactInv, Replacements, Intact
  <2>3. CASE <<d, r>> \in lost
    <3>1. o \notin RowEnds[c] /\ <<d, r>> \in TableRows(Table[c])
      BY <2>1, <2>3 DEF Replaced
    <3>2. Table[d] = Table[c]
      BY <3>1 DEF TableRows
    <3> QED
      BY <1>0, <1>1, <3>1, <3>2
  <2> QED
    BY <2>1, <2>2, <2>3
<1> QED
  BY <1>2, <1>3, <1>4
-----------------------------------------------------------------------------
(***************************************************************************)
(* The theorems.                                                           *)
(***************************************************************************)

LEMMA InitInvariant == Init => IInv
<1> SUFFICES ASSUME Init
             PROVE  IInv
  OBVIOUS
<1>1. TypeOK
  BY LoadAssumption, ChunkFacts DEF Init, TypeOK, EmptyLog, Logs, Entries, NoTask
<1>2. Ownership /\ Offsets /\ WorkerProgress /\ EventProgress
  BY DEF Init, Ownership, Offsets, WorkerProgress, EventProgress, Active, NoTask
<1>3. Progress
  <2>1. \A c \in Chunks : Truthful(EmptyLog[c], rows[c], c)
    BY NothingReached DEF Truthful, EmptyLog, PENDING, DONE
  <2>2. \A c \in Chunks : \A r \in Rows(c) : rows[c][r] = 0
    BY DEF Init
  <2> QED
    BY <2>1, <2>2 DEF Init, Progress
<1> QED
  BY <1>1, <1>2, <1>3 DEF IInv

LEMMA StepInvariant == IInv /\ [Next]_vars => IInv'
<1> SUFFICES ASSUME IInv, [Next]_vars
             PROVE  IInv'
  OBVIOUS
<1>1. CASE OpenLog
  BY <1>1, OpenLogStep
<1>2. CASE RewriteLog
  BY <1>2, RewriteLogStep
<1>3. CASE Finish
  BY <1>3, FinishStep
<1>4. CASE HandleEvent
  BY <1>4, HandleEventStep
<1>5. ASSUME NEW c \in Chunks, SkipLoaded(c)
      PROVE  IInv'
  BY <1>5, SkipLoadedStep
<1>6. ASSUME NEW c \in Chunks, NEW w \in Workers, Schedule(w, c)
      PROVE  IInv'
  BY <1>6, ScheduleStep
<1>7. CASE Crash
  BY <1>7, CrashStep
<1>8. ASSUME NEW w \in Workers, Worker(w)
      PROVE  IInv'
  BY <1>8, OnLoadStartStep, TruncateStep, CommitStep, TransactionFinishedStep,
     OnLoadEndStep, ReadyStep DEF Worker
<1>9. CASE UNCHANGED vars
  <2>1. TypeOK'
    BY <1>9 DEF IInv, TypeOK, vars, runVars, taskVars, serverVars
  <2>2. Ownership' /\ Offsets' /\ Progress'
    BY <1>9 DEF IInv, Ownership, Offsets, Progress, Active, vars, runVars,
       taskVars, serverVars
  <2>3. WorkerProgress' /\ EventProgress'
    BY <1>9 DEF IInv, WorkerProgress, WorkerOK, EventProgress, EventOK, Active,
       vars, runVars, taskVars, serverVars
  <2> QED
    BY <2>1, <2>2, <2>3 DEF IInv
<1> QED
  BY <1>1, <1>2, <1>3, <1>4, <1>5, <1>6, <1>7, <1>8, <1>9 DEF Next, Main

\* The invariant holds in every run of the loader.
THEOREM Invariance == Spec => []IInv
  BY InitInvariant, StepInvariant, PTL DEF Spec

\* The state has its type: in particular no event refers to a task that was
\* released.
THEOREM TypeCorrect == Spec => []TypeOK
<1>1. IInv => TypeOK
  BY DEF IInv
<1> QED
  BY <1>1, Invariance, PTL

\* What the log has as DONE is in the table, for tables with a key.
THEOREM DoneIsLoadedCorrect == Spec => []DoneIsLoaded
<1>1. IInv => DoneIsLoaded
  BY DEF IInv, Progress, Truthful, DoneIsLoaded
<1> QED
  BY <1>1, Invariance, PTL

\* A resumed load skips nothing that was not committed.
THEOREM SkipsOnlyLoadedCorrect == Spec => []SkipsOnlyLoaded
<1>1. IInv => SkipsOnlyLoaded
  BY DEF IInv, WorkerProgress, WorkerOK, Active, SkipsOnlyLoaded
<1> QED
  BY <1>1, Invariance, PTL

LEMMA InitExact == Init => ExactInv
<1> SUFFICES ASSUME Init
             PROVE  ExactInv
  OBVIOUS
<1>1. IInv
  BY InitInvariant
<1>2. Chains
  BY DEF Init, Chains, Active
<1>3. FirstRun
  BY <1>2, EmptyAtRow DEF Init, FirstRun
<1>4. SecondRun /\ Replacements
  BY EmptyAtRow DEF Init, SecondRun, Replacements, Active
<1> QED
  BY <1>1, <1>3, <1>4 DEF ExactInv

LEMMA StepExact == ExactInv /\ [Next]_vars => ExactInv'
<1> SUFFICES ASSUME ExactInv, [Next]_vars
             PROVE  ExactInv'
  OBVIOUS
<1>1. IInv'
  BY StepInvariant DEF ExactInv
<1>2. CASE OpenLog \/ RewriteLog \/ Finish \/ Crash
  BY <1>1, <1>2, RunExact DEF ExactInv
<1>3. CASE HandleEvent
  BY <1>1, <1>3, HandleEventExact DEF ExactInv
<1>4. ASSUME NEW c \in Chunks, SkipLoaded(c)
      PROVE  ExactInv'
  BY <1>1, <1>4, SkipLoadedExact DEF ExactInv
<1>5. ASSUME NEW c \in Chunks, NEW w \in Workers, Schedule(w, c)
      PROVE  ExactInv'
  BY <1>1, <1>5, ScheduleExact DEF ExactInv
<1>6. ASSUME NEW w \in Workers, Worker(w)
      PROVE  ExactInv'
  BY <1>1, <1>6, PostExact, TruncateExact, CommitExact DEF Worker, ExactInv
<1>7. CASE UNCHANGED vars
  <2>1. UNCHANGED <<phase, runs, last, todo, file, pc, m_chunk, m_resume,
                    offset, begin, subchunk, events, rows, torn, overwritten>>
    BY <1>7 DEF vars, runVars, taskVars, serverVars
  <2>2. Chains => Chains'
    BY <2>1 DEF Chains, ChainOK, LinkOK, NextBegin, Loading, Active
  <2>3. FirstRun'
    BY <2>1, <2>2 DEF ExactInv, FirstRun
  <2>4. SecondRun' /\ Replacements'
    BY <2>1, KeepsRows DEF ExactInv, Active
  <2> QED
    BY <1>1, <2>3, <2>4 DEF ExactInv
<1> QED
  BY <1>2, <1>3, <1>4, <1>5, <1>6, <1>7 DEF Next, Main

\* Once a run completes, there is exactly one copy of every row of a table
\* with a key and nothing else, if the load was interrupted at most once, or
\* if no part of a row was loaded.
THEOREM KeyedExactCorrect == Spec => []KeyedExact
<1>1. ExactInv => KeyedExact
  <2> SUFFICES ASSUME ExactInv, phase = "finished", NEW c \in Chunks
               PROVE  /\ runs <= 2 => Intact(c)
                      /\ HasKey(c) /\ Intact(c)
                           => \A r \in Rows(c) : Copies(c, r) = 1
    BY DEF KeyedExact
  <2>1. runs <= 2 => Intact(c)
    BY DEF ExactInv, SecondRun, Intact
  <2>2. ASSUME HasKey(c), Intact(c), NEW r \in Rows(c)
        PROVE  Copies(c, r) = 1
    <3>1. c \notin todo /\ \A w \in Workers : m_chunk[w] # c
      BY Quiet, LoadAssumption DEF ExactInv, IInv, Ownership
    <3>2. LoadedUpTo(rows[c], c, Size[c]) /\ rows[c][r] <= 1
      BY <2>2, <3>1 DEF ExactInv, IInv, Progress
    <3>3. rows[c][r] >= 1 /\ rows[c][r] \in Nat
      BY <3>2, ChunkFacts, TypeFacts DEF LoadedUpTo, ExactInv, IInv
    <3>4. <<c, r>> \notin overwritten
      BY <2>2 DEF ExactInv, Replacements
    <3> QED
      BY <3>2, <3>3, <3>4 DEF Copies
  <2> QED
    BY <2>1, <2>2
<1> QED
  BY <1>1, InitExact, StepExact, PTL DEF Spec

\* The task an event's handler finds is the one the event was posted for.
THEOREM EventOfCurrentTaskCorrect == Spec => []EventOfCurrentTask
<1>1. IInv => EventOfCurrentTask
  <2> SUFFICES ASSUME IInv, NEW i \in DOMAIN events
               PROVE  events[i].of = m_chunk[events[i].worker]
    BY DEF EventOfCurrentTask
  <2>1. i \in 1 .. Len(events)
    BY DEF IInv, TypeOK
  <2> QED
    BY <2>1 DEF IInv, Ownership
<1> QED
  BY <1>1, Invariance, PTL
=============================================================================
