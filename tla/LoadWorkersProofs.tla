------------------------- MODULE LoadWorkersProofs -------------------------
(***************************************************************************)
(* Proofs about LoadWorkers, for any number of workers, tasks, weights and *)
(* stages: the scheduler's accounts are right, tasks are executed once and *)
(* in order, and a load that reports success has executed all of them,     *)
(* whichever workers fail and whenever the load is interrupted.            *)
(***************************************************************************)
EXTENDS LoadWorkers, Functions, FiniteSetTheorems, SequenceTheorems,
        WellFoundedInduction, TLAPS

(***************************************************************************)
(* The inductive invariant.                                                *)
(***************************************************************************)

Running == phase \in {"setup", "loop", "returned"}

Ev(type, w) == Event(type, w) \in Range(m_worker_events)
Idle == Range(idle_workers)
Given(w) == m_work_ready[w] \in {<<TRUE>>, <<TRUE, FALSE>>}

\* What was put into the queue of a worker; it is told to stop only at the end.
WorkItems == {<<>>, <<TRUE>>, <<FALSE>>, <<TRUE, FALSE>>}
WorkReady ==
  \A w \in Workers :
    /\ m_work_ready[w] \in WorkItems
    /\ phase \notin {"join", "done"} => m_work_ready[w] \in {<<>>, <<TRUE>>}

\* No event is posted twice, and the end of a task is handled before the worker
\* gets another one.
EndsFirst(events) ==
  \A i, j \in DOMAIN events :
    /\ events[i].worker = events[j].worker
    /\ events[i].type = "READY" /\ events[j].type = "END"
    => j < i

Queues ==
  /\ IsInjective(m_worker_events)
  /\ EndsFirst(m_worker_events)
  /\ IsInjective(idle_workers)

\* How the main thread sees a worker, and what the worker does.
View(w) ==
  /\ pc[w] \in {"connect", "execute"} =>
       ~Ev("READY", w) /\ ~Ev("END", w) /\ w \notin Idle /\ ~Given(w)
  /\ pc[w] = "connect" => ~Ev("CONNECTED", w) /\ m_weight[w] = 0
  /\ pc[w] = "ready" => ~Ev("READY", w) /\ w \notin Idle /\ ~Given(w)
  /\ pc[w] = "wait" => /\ ~(Ev("READY", w) /\ w \in Idle)
                       /\ ~(Ev("READY", w) /\ Given(w))
                       /\ ~(w \in Idle /\ Given(w))
                       /\ Running => Ev("READY", w) \/ w \in Idle \/ Given(w)
  /\ pc[w] = "gone" => ~Given(w)
  /\ pc[w] = "gone" /\ Running =>
       ~Ev("READY", w) /\ ~Ev("END", w) /\ w \notin Idle /\ m_worker_interrupt
  /\ Ev("END", w) => pc[w] = "ready" \/ Ev("READY", w)
  /\ Ev("EXIT", w) \/ Ev("FATAL_ERROR", w) \/ w \notin m_workers => pc[w] = "gone"
  /\ Ev("FATAL_ERROR", w) => w \in m_thread_exceptions
  /\ w \in Idle => m_weight[w] = 0

Views == \A w \in Workers : View(w)

Loop ==
  /\ phase = "setup" => stage = 0 /\ todo = Tasks
  /\ phase \in {"setup", "returned"} => Idle = {}
  /\ m_thread_exceptions # {} => m_worker_interrupt
  /\ m_abort => m_worker_interrupt /\ m_thread_exceptions # {}

\* Priority_queue: tasks are in the list of their weight, and top is the last
\* list that is not empty.
HeaviestOf(q) ==
  /\ \A p \in 1 .. ThreadsCount :
       /\ IsInjective(q.tasks[p])
       /\ \A t \in Range(q.tasks[p]) : CappedWeight(t) = p
       /\ p > q.top => q.tasks[p] = <<>>
  /\ IF IsEmpty(q) THEN q.top = 1 ELSE q.tasks[q.top] # <<>>

Heaviest == HeaviestOf(m_pending_tasks)

\* Where the tasks are.
PendingOf(q) == {t \in Tasks : t \in Range(q.tasks[CappedWeight(t)])}
Pending == PendingOf(m_pending_tasks)
Busy(w) == Given(w) \/ pc[w] = "execute" \/ Ev("END", w)
InHand == {m_task[w] : w \in {v \in Workers : Busy(v)}}

Places ==
  /\ \A w \in Workers : Busy(w) => m_task[w] \in Tasks
  /\ \A v, w \in Workers : Busy(v) /\ Busy(w) /\ m_task[v] = m_task[w] => v = w
  /\ todo \cap (Pending \cup InHand \cup completed) = {}
  /\ Pending \cap (InHand \cup completed) = {}
  /\ InHand \cap completed = {}
  /\ ~m_worker_interrupt => Tasks = todo \cup Pending \cup InHand \cup completed

\* Tasks are scheduled in the order of the stages and after what they require.
InOrder ==
  /\ \A t \in Pending \cup InHand : Stage[t] = stage /\ Requires[t] \subseteq completed
  /\ \A t \in Tasks : Stage[t] < stage => t \in completed

\* Some worker is going to ask for a task, if there is one it could execute.
Asked == \E w \in m_workers : pc[w] = "ready" \/ Ev("READY", w)

Serves ==
  IF IsEmpty(m_pending_tasks)
  THEN Available # {} /\ m_current_weight < ThreadsCount
  ELSE m_current_weight + CappedWeight(Top(m_pending_tasks)) <= ThreadsCount

Awaited == phase = "loop" /\ ~m_worker_interrupt /\ Idle # {} /\ Serves => Asked

\* How the load ends.
Ending ==
  /\ NothingLeft
  /\ phase \in {"stop", "join"} /\ ~thrown /\ ~m_worker_interrupt => completed = Tasks
  /\ outcome = "ok" => completed = Tasks

IInv ==
  /\ TypeOK /\ WorkReady /\ Queues /\ Views /\ Loop /\ Heaviest /\ Places /\ InOrder
  /\ WeightExact /\ Awaited /\ Ending
-----------------------------------------------------------------------------
(***************************************************************************)
(* Sequences without repetitions.                                          *)
(***************************************************************************)

LEMMA Elements ==
  ASSUME NEW S, NEW s \in Seq(S)
  PROVE  /\ \A x : x \in Range(s) <=> \E i \in 1 .. Len(s) : x = s[i]
         /\ IsInjective(s) <=> \A i, j \in 1 .. Len(s) : s[i] = s[j] => i = j
         /\ Range(s) \subseteq S
  BY DEF Range, IsInjective

LEMMA Concatenated ==
  ASSUME NEW S, NEW s \in Seq(S), NEW t \in Seq(S)
  PROVE  /\ s \o t \in Seq(S)
         /\ Range(s \o t) = Range(s) \cup Range(t)
         /\ IsInjective(s) /\ IsInjective(t) /\ Range(s) \cap Range(t) = {}
              => IsInjective(s \o t)
<1>0. PICK u : u = s \o t
  OBVIOUS
<1>1. /\ u \in Seq(S) /\ Len(u) = Len(s) + Len(t)
      /\ Len(s) \in Nat /\ Len(t) \in Nat
      /\ \A i \in 1 .. Len(s) : u[i] = s[i]
      /\ \A i \in 1 .. Len(u) : i > Len(s) => u[i] = t[i - Len(s)]
  BY <1>0
<1>2. \A i \in 1 .. Len(u) : i > Len(s) => i - Len(s) \in 1 .. Len(t)
  BY <1>1
<1>3. \A i \in 1 .. Len(t) : i + Len(s) \in 1 .. Len(u) /\ u[i + Len(s)] = t[i]
  <2> SUFFICES ASSUME NEW i \in 1 .. Len(t)
               PROVE  i + Len(s) \in 1 .. Len(u) /\ u[i + Len(s)] = t[i]
    OBVIOUS
  <2>1. i + Len(s) \in 1 .. Len(u) /\ i + Len(s) > Len(s) /\ (i + Len(s)) - Len(s) = i
    BY <1>1
  <2> QED BY <1>1, <2>1
<1>4. Range(u) = Range(s) \cup Range(t)
  <2>1. ASSUME NEW x \in Range(u) PROVE x \in Range(s) \cup Range(t)
    <3>1. PICK i \in 1 .. Len(u) : x = u[i]
      BY <1>1, <2>1, Elements
    <3>2. CASE i <= Len(s)
      BY <1>1, <3>1, <3>2, Elements
    <3>3. CASE i > Len(s)
      BY <1>1, <1>2, <3>1, <3>3, Elements
    <3> QED BY <1>1, <3>2, <3>3
  <2>2. ASSUME NEW x \in Range(s) PROVE x \in Range(u)
    <3>1. PICK i \in 1 .. Len(s) : x = s[i]
      BY <2>2, Elements
    <3>2. i \in 1 .. Len(u) /\ x = u[i]
      BY <1>1, <3>1
    <3> QED BY <1>1, <3>2, Elements
  <2>3. ASSUME NEW x \in Range(t) PROVE x \in Range(u)
    <3>1. PICK i \in 1 .. Len(t) : x = t[i]
      BY <2>3, Elements
    <3> QED BY <1>1, <1>3, <3>1, Elements
  <2> QED BY <2>1, <2>2, <2>3
<1>5. ASSUME IsInjective(s), IsInjective(t), Range(s) \cap Range(t) = {},
             NEW i \in 1 .. Len(u), NEW j \in 1 .. Len(u), u[i] = u[j]
      PROVE  i = j
  <2>1. CASE i <= Len(s) /\ j <= Len(s)
    BY <1>1, <1>5, <2>1, Elements
  <2>2. CASE i > Len(s) /\ j > Len(s)
    <3>1. i - Len(s) = j - Len(s)
      BY <1>1, <1>2, <1>5, <2>2, Elements, SMTT(30)
    <3> QED BY <1>1, <3>1
  <2>3. CASE i <= Len(s) /\ j > Len(s)
    <3>1. u[i] \in Range(s) /\ u[j] \in Range(t)
      BY <1>1, <1>2, <2>3, Elements, SMTT(30)
    <3> QED BY <1>5, <3>1
  <2>4. CASE i > Len(s) /\ j <= Len(s)
    <3>1. u[j] \in Range(s) /\ u[i] \in Range(t)
      BY <1>1, <1>2, <2>4, Elements, SMTT(30)
    <3> QED BY <1>5, <3>1
  <2> QED BY <1>1, <2>1, <2>2, <2>3, <2>4
<1>6. IsInjective(s) /\ IsInjective(t) /\ Range(s) \cap Range(t) = {} => IsInjective(u)
  BY <1>1, <1>5, Elements
<1> QED
  BY <1>0, <1>1, <1>4, <1>6

LEMMA Single ==
  ASSUME NEW S, NEW x \in S
  PROVE  <<x>> \in Seq(S) /\ Range(<<x>>) = {x} /\ IsInjective(<<x>>)
<1>0. PICK u : u = <<x>>
  OBVIOUS
<1>1. u \in Seq(S) /\ Len(u) = 1 /\ u[1] = x
  BY <1>0
<1>2. \A i : i \in 1 .. Len(u) <=> i = 1
  BY <1>1
<1>3. Range(u) = {x} /\ IsInjective(u)
  BY <1>1, <1>2, Elements
<1> QED BY <1>0, <1>1, <1>3

LEMMA Appended ==
  ASSUME NEW S, NEW s \in Seq(S), NEW x \in S
  PROVE  /\ Append(s, x) \in Seq(S)
         /\ Range(Append(s, x)) = Range(s) \cup {x}
         /\ IsInjective(s) /\ x \notin Range(s) => IsInjective(Append(s, x))
<1>1. Append(s, x) = s \o <<x>>
  OBVIOUS
<1>0. PICK u : u = <<x>>
  OBVIOUS
<1>2. u \in Seq(S) /\ Range(u) = {x} /\ IsInjective(u)
  BY <1>0, Single
<1>3. PICK v : v = s \o u
  OBVIOUS
<1>4. /\ v \in Seq(S)
      /\ Range(v) = Range(s) \cup Range(u)
      /\ IsInjective(s) /\ IsInjective(u) /\ Range(s) \cap Range(u) = {} => IsInjective(v)
  BY <1>2, <1>3, Concatenated
<1>5. Append(s, x) = v
  BY <1>0, <1>1, <1>3
<1> QED BY <1>2, <1>4, <1>5

LEMMA FirstTaken ==
  ASSUME NEW S, NEW s \in Seq(S), s # <<>>, IsInjective(s)
  PROVE  /\ Head(s) \in S /\ Head(s) \in Range(s) /\ Tail(s) \in Seq(S)
         /\ Range(Tail(s)) = Range(s) \ {Head(s)}
         /\ IsInjective(Tail(s))
<1>0. PICK u : u = Tail(s)
  OBVIOUS
<1>1. /\ u \in Seq(S) /\ Len(u) = Len(s) - 1 /\ Len(s) \in Nat /\ Len(s) >= 1
      /\ Head(s) = s[1]
      /\ \A i \in 1 .. Len(s) - 1 : u[i] = s[i + 1]
  BY <1>0
<1>2. \A i \in 1 .. Len(u) : /\ u[i] = s[i + 1] /\ i + 1 \in 1 .. Len(s) /\ i + 1 # 1
  BY <1>1
<1>3. \A i \in 1 .. Len(s) : i # 1 => i - 1 \in 1 .. Len(u) /\ u[i - 1] = s[i]
  <2> SUFFICES ASSUME NEW i \in 1 .. Len(s), i # 1
               PROVE  i - 1 \in 1 .. Len(u) /\ u[i - 1] = s[i]
    OBVIOUS
  <2>1. i - 1 \in 1 .. Len(u) /\ (i - 1) + 1 = i
    BY <1>1
  <2> QED BY <1>2, <2>1
<1>4. \A i, j \in 1 .. Len(s) : s[i] = s[j] => i = j
  BY Elements
<1>5. 1 \in 1 .. Len(s)
  BY <1>1
<1>6. Head(s) \in S /\ Head(s) \in Range(s)
  BY <1>1, <1>5, Elements
<1>7. Range(u) = Range(s) \ {Head(s)}
  <2>1. ASSUME NEW x \in Range(u) PROVE x \in Range(s) \ {Head(s)}
    <3>1. PICK i \in 1 .. Len(u) : x = u[i]
      BY <1>1, <2>1, Elements
    <3>2. x = s[i + 1] /\ i + 1 \in 1 .. Len(s) /\ i + 1 # 1
      BY <1>2, <3>1
    <3>3. x # s[1]
      BY <1>4, <1>5, <3>2
    <3> QED BY <1>1, <3>2, <3>3, Elements
  <2>2. ASSUME NEW x \in Range(s), x # Head(s) PROVE x \in Range(u)
    <3>1. PICK i \in 1 .. Len(s) : x = s[i]
      BY <2>2, Elements
    <3>2. i # 1
      BY <1>1, <2>2, <3>1
    <3> QED BY <1>1, <1>3, <3>1, <3>2, Elements
  <2> QED BY <2>1, <2>2
<1>8. ASSUME NEW i \in 1 .. Len(u), NEW j \in 1 .. Len(u), u[i] = u[j]
      PROVE  i = j
  <2>1. i + 1 = j + 1
    BY <1>2, <1>4, <1>8
  <2> QED BY <1>1, <2>1
<1>9. IsInjective(u)
  BY <1>1, <1>8, Elements
<1> QED
  BY <1>0, <1>1, <1>6, <1>7, <1>9

LEMMA EmptyRange ==
  ASSUME NEW S, NEW s \in Seq(S)
  PROVE  s = <<>> <=> Range(s) = {}
<1>1. s # <<>> => 1 \in 1 .. Len(s)
  OBVIOUS
<1>2. s # <<>> => s[1] \in Range(s)
  BY <1>1, Elements
<1>3. \A x \in Range(s) : \E i \in 1 .. Len(s) : x = s[i]
  BY Elements
<1>4. s = <<>> => Len(s) = 0
  OBVIOUS
<1>5. Len(s) = 0 => Range(s) = {}
  BY <1>3
<1> QED
  BY <1>2, <1>4, <1>5

LEMMA LargestOf ==
  ASSUME NEW n \in Nat, NEW B \in SUBSET (1 .. n), B # {}
  PROVE  \E p \in B : \A r \in B : r <= p
<1> DEFINE R == OpToRel(<, Nat)
           T == {n - p : p \in B}
<1>1. IsWellFoundedOn(R, Nat)
  BY NatLessThanWellFounded
<1>0. \A p \in B : p \in Nat /\ p <= n /\ n - p \in Nat
  OBVIOUS
<1>2. T \subseteq Nat /\ T # {}
  BY <1>0
<1>3. PICK x \in T : \A y \in T : ~(<<y, x>> \in R)
  BY <1>1, <1>2, WFMin
<1>4. \A y \in T : ~(y < x)
  BY <1>2, <1>3 DEF OpToRel
<1>5. PICK p \in B : x = n - p
  BY <1>3
<1>6. \A r \in B : r <= p
  <2> SUFFICES ASSUME NEW r \in B PROVE r <= p
    OBVIOUS
  <2>1. n - r \in T /\ ~(n - r < n - p)
    BY <1>4, <1>5
  <2> QED BY <1>0, <1>5, <2>1
<1> QED
  BY <1>6
-----------------------------------------------------------------------------
(***************************************************************************)
(* Priority_queue.                                                         *)
(***************************************************************************)

PriorityQueues == [tasks : [1 .. ThreadsCount -> Seq(Tasks)], top : 1 .. ThreadsCount]

LEMMA Size == ThreadsCount \in Nat /\ ThreadsCount >= 1
<1>1. Cardinality(Workers) \in Nat /\ Cardinality(Workers) # 0
  BY WorkersAssumption, FS_CardinalityType, FS_EmptySet
<1> QED BY <1>1 DEF ThreadsCount

LEMMA Capped ==
  ASSUME NEW t \in Tasks
  PROVE  CappedWeight(t) \in 1 .. ThreadsCount
<1>1. Weight[t] \in Nat /\ Weight[t] # 0
  BY WorkersAssumption
<1> QED
  BY <1>1, Size DEF CappedWeight

\* A task is in the list of its weight, if it is pending.
LEMMA PendingIn ==
  ASSUME NEW q \in PriorityQueues, HeaviestOf(q)
  PROVE  \A t, p : p \in 1 .. ThreadsCount /\ t \in Range(q.tasks[p])
                     => t \in PendingOf(q) /\ CappedWeight(t) = p
<1> SUFFICES ASSUME NEW t, NEW p \in 1 .. ThreadsCount, t \in Range(q.tasks[p])
             PROVE  t \in PendingOf(q) /\ CappedWeight(t) = p
  OBVIOUS
<1>1. q.tasks[p] \in Seq(Tasks)
  BY DEF PriorityQueues
<1>2. t \in Tasks
  BY <1>1, Elements
<1>3. CappedWeight(t) = p
  BY DEF HeaviestOf
<1> QED
  BY <1>2, <1>3 DEF PendingOf

LEMMA PendingEmpty ==
  ASSUME NEW q \in PriorityQueues, HeaviestOf(q)
  PROVE  IsEmpty(q) <=> PendingOf(q) = {}
<1>1. \A p \in 1 .. ThreadsCount : q.tasks[p] \in Seq(Tasks)
  BY DEF PriorityQueues
<1>2. \A p \in 1 .. ThreadsCount : q.tasks[p] = <<>> <=> Range(q.tasks[p]) = {}
  BY <1>1, EmptyRange
<1>3. DOMAIN q.tasks = 1 .. ThreadsCount
  BY DEF PriorityQueues
<1>4. ASSUME IsEmpty(q) PROVE PendingOf(q) = {}
  BY <1>2, <1>3, <1>4, Capped DEF IsEmpty, PendingOf
<1>5. ASSUME PendingOf(q) = {} PROVE IsEmpty(q)
  BY <1>2, <1>3, <1>5, PendingIn DEF IsEmpty
<1> QED
  BY <1>4, <1>5

LEMMA EmplaceFacts ==
  ASSUME NEW q \in PriorityQueues, HeaviestOf(q), NEW t \in Tasks, t \notin PendingOf(q)
  PROVE  /\ Emplace(q, t) \in PriorityQueues
         /\ HeaviestOf(Emplace(q, t))
         /\ PendingOf(Emplace(q, t)) = PendingOf(q) \cup {t}
         /\ ~IsEmpty(Emplace(q, t))
<1>1. PICK c \in 1 .. ThreadsCount : c = CappedWeight(t)
  BY Capped
<1>2. PICK u : u = q.tasks[c]
  OBVIOUS
<1>3. PICK v : v = Append(u, t)
  OBVIOUS
<1>4. u \in Seq(Tasks) /\ IsInjective(u) /\ t \notin Range(u)
  BY <1>1, <1>2 DEF PriorityQueues, HeaviestOf, PendingOf
<1>5. v \in Seq(Tasks) /\ Range(v) = Range(u) \cup {t} /\ IsInjective(v) /\ v # <<>>
  BY <1>3, <1>4, Appended
<1>6. PICK r : r = Emplace(q, t)
  OBVIOUS
<1>7. /\ r.tasks = [q.tasks EXCEPT ![c] = v]
      /\ r.top = IF c > q.top THEN c ELSE q.top
      /\ r = [tasks |-> [q.tasks EXCEPT ![c] = v], top |-> IF c > q.top THEN c ELSE q.top]
  BY <1>1, <1>2, <1>3, <1>6 DEF Emplace
<1>8. q.tasks \in [1 .. ThreadsCount -> Seq(Tasks)] /\ q.top \in 1 .. ThreadsCount
  BY DEF PriorityQueues
<1>9. r \in PriorityQueues
  BY <1>5, <1>7, <1>8 DEF PriorityQueues
<1>10. \A p \in 1 .. ThreadsCount : IF p = c THEN r.tasks[p] = v ELSE r.tasks[p] = q.tasks[p]
  BY <1>7, <1>8
<1>11. ~IsEmpty(r)
  BY <1>5, <1>9, <1>10 DEF IsEmpty, PriorityQueues
<1>12. r.top \in 1 .. ThreadsCount /\ r.top >= q.top /\ r.top >= c
       /\ (r.top = c \/ (r.top = q.top /\ c < q.top))
  BY <1>7, <1>8
<1>13. r.tasks[r.top] # <<>>
  <2>1. CASE r.top = c
    BY <1>5, <1>10, <2>1
  <2>2. CASE r.top = q.top /\ c < q.top
    <3>1. q.tasks[q.top] # <<>>
      BY <1>1, <2>2 DEF HeaviestOf
    <3> QED BY <1>8, <1>10, <1>12, <1>1, <2>2, <3>1
  <2> QED BY <1>12, <2>1, <2>2
<1>14. HeaviestOf(r)
  <2>1. \A p \in 1 .. ThreadsCount : IsInjective(r.tasks[p])
    BY <1>5, <1>10 DEF HeaviestOf
  <2>2. \A p \in 1 .. ThreadsCount : \A x \in Range(r.tasks[p]) : CappedWeight(x) = p
    BY <1>1, <1>2, <1>5, <1>10 DEF HeaviestOf
  <2>3. \A p \in 1 .. ThreadsCount : p > r.top => r.tasks[p] = <<>>
    BY <1>8, <1>10, <1>12 DEF HeaviestOf
  <2> QED BY <1>11, <1>13, <2>1, <2>2, <2>3 DEF HeaviestOf
<1>15. PendingOf(r) = PendingOf(q) \cup {t}
  BY <1>1, <1>2, <1>5, <1>10, Capped DEF PendingOf
<1> QED
  BY <1>6, <1>9, <1>11, <1>14, <1>15

LEMMA PopTopFacts ==
  ASSUME NEW q \in PriorityQueues, HeaviestOf(q), ~IsEmpty(q)
  PROVE  /\ Top(q) \in PendingOf(q)
         /\ PopTop(q) \in PriorityQueues
         /\ HeaviestOf(PopTop(q))
         /\ PendingOf(PopTop(q)) = PendingOf(q) \ {Top(q)}
<1>1. PICK c \in 1 .. ThreadsCount : c = q.top
  BY DEF PriorityQueues
<1>2. PICK u : u = q.tasks[c]
  OBVIOUS
<1>3. PICK v : v = Tail(u)
  OBVIOUS
<1>4. PICK x : x = Head(u)
  OBVIOUS
<1>5. u \in Seq(Tasks) /\ IsInjective(u) /\ u # <<>>
  BY <1>1, <1>2 DEF PriorityQueues, HeaviestOf
<1>6. /\ v \in Seq(Tasks) /\ Range(v) = Range(u) \ {x} /\ IsInjective(v)
      /\ x \in Range(u) /\ x \in Tasks
  BY <1>3, <1>4, <1>5, FirstTaken
<1>7. Top(q) = x
  BY <1>1, <1>2, <1>4 DEF Top
<1>8. q.tasks \in [1 .. ThreadsCount -> Seq(Tasks)]
  BY DEF PriorityQueues
<1>9. PICK f : f = [q.tasks EXCEPT ![c] = v]
  OBVIOUS
<1>10. /\ f \in [1 .. ThreadsCount -> Seq(Tasks)]
       /\ \A p \in 1 .. ThreadsCount : IF p = c THEN f[p] = v ELSE f[p] = q.tasks[p]
  BY <1>6, <1>8, <1>9
<1>11. PICK below : below = {p \in 1 .. c : f[p] # <<>>}
  OBVIOUS
<1>12. PICK r : r = PopTop(q)
  OBVIOUS
<1>13. r = [tasks |-> f,
            top |-> IF below = {} THEN 1 ELSE CHOOSE p \in below : \A s \in below : s <= p]
  BY <1>1, <1>2, <1>3, <1>9, <1>11, <1>12 DEF PopTop
<1>14. r.tasks = f /\ r.top \in 1 .. ThreadsCount
       /\ (below = {} => r.top = 1)
       /\ (below # {} => r.top \in below /\ \A s \in below : s <= r.top)
  <2>1. CASE below = {}
    BY <1>13, <2>1, Size
  <2>2. CASE below # {}
    <3>1. below \in SUBSET (1 .. c) /\ c \in Nat
      BY <1>1, <1>11
    <3>2. \E p \in below : \A s \in below : s <= p
      BY <2>2, <3>1, LargestOf
    <3>3. r.top \in below /\ \A s \in below : s <= r.top
      BY <1>13, <2>2, <3>2
    <3>4. \A m \in 1 .. c : m \in 1 .. ThreadsCount
      BY <1>1, Size
    <3> QED BY <1>13, <2>2, <3>1, <3>3, <3>4
  <2> QED BY <2>1, <2>2
<1>15. r \in PriorityQueues
  BY <1>10, <1>13, <1>14 DEF PriorityQueues
<1>16. HeaviestOf(r)
  <2>1. \A p \in 1 .. ThreadsCount : IsInjective(f[p])
    BY <1>6, <1>10 DEF HeaviestOf
  <2>2. \A p \in 1 .. ThreadsCount : \A y \in Range(f[p]) : CappedWeight(y) = p
    BY <1>1, <1>2, <1>6, <1>10 DEF HeaviestOf
  <2>3. \A p \in 1 .. ThreadsCount : p > c => f[p] = <<>>
    BY <1>1, <1>10 DEF HeaviestOf
  <2>4. \A p \in 1 .. ThreadsCount : p > r.top => f[p] = <<>>
    BY <1>1, <1>11, <1>14, <2>3
  <2>5. ~IsEmpty(r) => below # {}
    <3>1. DOMAIN r.tasks = 1 .. ThreadsCount
      BY <1>10, <1>14
    <3> QED BY <1>1, <1>11, <1>14, <2>3, <3>1 DEF IsEmpty
  <2>6. below # {} => f[r.top] # <<>>
    BY <1>11, <1>14
  <2>7. IsEmpty(r) => below = {}
    BY <1>1, <1>10, <1>11, <1>14 DEF IsEmpty
  <2> QED BY <1>14, <2>1, <2>2, <2>4, <2>5, <2>6, <2>7 DEF HeaviestOf
<1>17. PendingOf(r) = PendingOf(q) \ {x}
  <2>1. CappedWeight(x) = c
    BY <1>1, <1>2, <1>6 DEF HeaviestOf
  <2> QED BY <1>2, <1>6, <1>10, <1>14, <2>1, Capped DEF PendingOf
<1>18. x \in PendingOf(q)
  BY <1>1, <1>2, <1>6, PendingIn
<1> QED
  BY <1>7, <1>12, <1>15, <1>16, <1>17, <1>18
-----------------------------------------------------------------------------
(***************************************************************************)
(* The queue of events.                                                    *)
(***************************************************************************)

Events == [type : EventTypes, worker : Workers]

LEMMA EventsDiffer ==
  ASSUME NEW t, NEW v
  PROVE  /\ t \in EventTypes /\ v \in Workers => Event(t, v) \in Events
         /\ Event(t, v).type = t /\ Event(t, v).worker = v
         /\ \A u, w : Event(t, v) = Event(u, w) <=> t = u /\ v = w
  BY DEF Event, Events

LEMMA EndsFirstTail ==
  ASSUME NEW s \in Seq(Events), s # <<>>, EndsFirst(s)
  PROVE  EndsFirst(Tail(s))
<1>0. PICK u : u = Tail(s)
  OBVIOUS
<1>1. /\ u \in Seq(Events) /\ Len(u) = Len(s) - 1 /\ Len(s) \in Nat /\ Len(s) >= 1
      /\ \A i \in 1 .. Len(u) : u[i] = s[i + 1] /\ i + 1 \in 1 .. Len(s)
      /\ DOMAIN u = 1 .. Len(u) /\ DOMAIN s = 1 .. Len(s)
  BY <1>0
<1>2. ASSUME NEW i \in 1 .. Len(u), NEW j \in 1 .. Len(u), u[i].worker = u[j].worker,
             u[i].type = "READY", u[j].type = "END"
      PROVE  j < i
  <2>1. j + 1 < i + 1
    BY <1>1, <1>2 DEF EndsFirst
  <2> QED BY <1>1, <2>1
<1> QED
  BY <1>0, <1>1, <1>2 DEF EndsFirst

\* Events are added, among them no end of a task of a worker that is READY.
LEMMA EndsFirstConcat ==
  ASSUME NEW s \in Seq(Events), EndsFirst(s), NEW b \in Seq(Events), EndsFirst(b),
         \A x \in Range(s), y \in Range(b) :
           x.worker = y.worker /\ x.type = "READY" => y.type # "END"
  PROVE  EndsFirst(s \o b)
<1>0. PICK u : u = s \o b
  OBVIOUS
<1>1. /\ u \in Seq(Events) /\ Len(u) = Len(s) + Len(b) /\ Len(s) \in Nat /\ Len(b) \in Nat
      /\ \A i \in 1 .. Len(s) : u[i] = s[i]
      /\ \A i \in 1 .. Len(u) : i > Len(s) => u[i] = b[i - Len(s)] /\ i - Len(s) \in 1 .. Len(b)
      /\ DOMAIN u = 1 .. Len(u) /\ DOMAIN s = 1 .. Len(s) /\ DOMAIN b = 1 .. Len(b)
  BY <1>0
<1>2. ASSUME NEW i \in 1 .. Len(u), NEW j \in 1 .. Len(u), u[i].worker = u[j].worker,
             u[i].type = "READY", u[j].type = "END"
      PROVE  j < i
  <2>1. CASE i <= Len(s) /\ j <= Len(s)
    <3>1. i \in 1 .. Len(s) /\ j \in 1 .. Len(s)
      BY <1>1, <2>1
    <3>2. u[i] = s[i] /\ u[j] = s[j] /\ i \in DOMAIN s /\ j \in DOMAIN s
      BY <1>1, <3>1
    <3> QED BY <1>2, <3>2 DEF EndsFirst
  <2>2. CASE i > Len(s) /\ j <= Len(s)
    BY <1>1, <2>2
  <2>3. CASE i > Len(s) /\ j > Len(s)
    <3>1. j - Len(s) < i - Len(s)
      BY <1>1, <1>2, <2>3 DEF EndsFirst
    <3> QED BY <1>1, <3>1
  <2>4. CASE i <= Len(s) /\ j > Len(s)
    <3>1. u[i] = s[i] /\ u[j] = b[j - Len(s)] /\ j - Len(s) \in 1 .. Len(b)
          /\ i \in 1 .. Len(s)
      BY <1>1, <2>4
    <3>2. s[i] \in Range(s) /\ b[j - Len(s)] \in Range(b)
      BY <3>1, Elements
    <3> QED BY <1>2, <3>1, <3>2
  <2> QED BY <1>1, <2>1, <2>2, <2>3, <2>4
<1> QED
  BY <1>0, <1>1, <1>2 DEF EndsFirst

\* An event is posted.
LEMMA PostFacts ==
  ASSUME NEW s \in Seq(Events), IsInjective(s), EndsFirst(s),
         NEW type \in EventTypes, NEW w \in Workers, Event(type, w) \notin Range(s),
         type = "END" => Event("READY", w) \notin Range(s)
  PROVE  /\ Append(s, Event(type, w)) \in Seq(Events)
         /\ IsInjective(Append(s, Event(type, w))) /\ EndsFirst(Append(s, Event(type, w)))
         /\ Range(Append(s, Event(type, w))) = Range(s) \cup {Event(type, w)}
<1>1. PICK e \in Events : e = Event(type, w)
  BY EventsDiffer
<1>2. PICK b : b = <<e>>
  OBVIOUS
<1>3. b \in Seq(Events) /\ Range(b) = {e} /\ Len(b) = 1 /\ DOMAIN b = 1 .. 1
  BY <1>2, Single
<1>4. EndsFirst(b)
  <2>1. \A i, j \in DOMAIN b : i = j
    BY <1>3
  <2>2. \A x : ~(x = "READY" /\ x = "END")
    OBVIOUS
  <2> QED BY <2>1, <2>2 DEF EndsFirst
<1>5. \A x \in Range(s) : x.worker = e.worker /\ x.type = "READY" => e.type # "END"
  <2> SUFFICES ASSUME NEW x \in Range(s), x.worker = e.worker, x.type = "READY"
               PROVE  e.type # "END"
    OBVIOUS
  <2>1. x \in Events /\ e.worker = w /\ e.type = type
    BY <1>1, Elements, EventsDiffer
  <2>2. x = Event("READY", w)
    BY <2>1 DEF Events, Event
  <2> QED BY <2>1, <2>2
<1>6. EndsFirst(s \o b)
  BY <1>3, <1>4, <1>5, EndsFirstConcat
<1>7. Append(s, e) = s \o b
  BY <1>2
<1>8. /\ Append(s, e) \in Seq(Events) /\ IsInjective(Append(s, e))
      /\ Range(Append(s, e)) = Range(s) \cup {e}
  BY <1>1, Appended
<1> QED
  BY <1>1, <1>6, <1>7, <1>8

\* The first event is taken; a worker that is READY has no task that ends.
LEMMA TakeFacts ==
  ASSUME NEW s \in Seq(Events), s # <<>>, IsInjective(s), EndsFirst(s)
  PROVE  /\ Head(s) \in Events /\ Head(s) \in Range(s)
         /\ Head(s) = Event(Head(s).type, Head(s).worker)
         /\ Head(s).type \in EventTypes /\ Head(s).worker \in Workers
         /\ Tail(s) \in Seq(Events) /\ IsInjective(Tail(s)) /\ EndsFirst(Tail(s))
         /\ Range(Tail(s)) = Range(s) \ {Head(s)}
         /\ Head(s).type = "READY" => Event("END", Head(s).worker) \notin Range(s)
<1>1. PICK e : e = Head(s)
  OBVIOUS
<1>2. /\ e \in Events /\ e \in Range(s) /\ Tail(s) \in Seq(Events)
      /\ IsInjective(Tail(s)) /\ Range(Tail(s)) = Range(s) \ {e}
  BY <1>1, FirstTaken
<1>3. EndsFirst(Tail(s))
  BY EndsFirstTail
<1>4. e = Event(e.type, e.worker) /\ e.type \in EventTypes /\ e.worker \in Workers
  BY <1>2 DEF Events, Event
<1>5. ASSUME e.type = "READY", Event("END", e.worker) \in Range(s) PROVE FALSE
  <2>1. PICK j \in 1 .. Len(s) : s[j] = Event("END", e.worker)
    BY <1>5, Elements
  <2>2. e = s[1] /\ 1 \in DOMAIN s /\ j \in DOMAIN s
    BY <1>1, <2>1
  <2>3. s[j].type = "END" /\ s[j].worker = s[1].worker /\ s[1].type = "READY"
    BY <1>5, <2>1, <2>2, EventsDiffer
  <2>4. j < 1
    BY <2>2, <2>3 DEF EndsFirst
  <2> QED BY <2>1, <2>4
<1> QED
  BY <1>1, <1>2, <1>3, <1>4, <1>5

\* Idle workers are put back into the queue, n of them.
Batch(s, d, n) == s \o [i \in 1 .. n |-> Event("READY", d[i])]
Rest(d, n) == SubSeq(d, n + 1, Len(d))

LEMMA BatchFacts ==
  ASSUME NEW s \in Seq(Events), IsInjective(s), EndsFirst(s),
         NEW d \in Seq(Workers), IsInjective(d), NEW n \in 0 .. Len(d),
         \A v \in Range(d) : Event("READY", v) \notin Range(s)
  PROVE  /\ Batch(s, d, n) \in Seq(Events)
         /\ IsInjective(Batch(s, d, n)) /\ EndsFirst(Batch(s, d, n))
         /\ Rest(d, n) \in Seq(Workers) /\ IsInjective(Rest(d, n))
         /\ \E F \in SUBSET Range(d) :
              /\ F = {} <=> n = 0
              /\ n = Len(d) => F = Range(d)
              /\ Range(Rest(d, n)) = Range(d) \ F
              /\ \A x : x \in Range(Batch(s, d, n)) <=>
                   x \in Range(s) \/ \E v \in F : x = Event("READY", v)
<1>b. PICK b : b = [i \in 1 .. n |-> Event("READY", d[i])]
  OBVIOUS
<1>0. PICK F : F = {d[i] : i \in 1 .. n}
  OBVIOUS
<1>1. /\ Len(d) \in Nat /\ n \in Nat /\ DOMAIN d = 1 .. Len(d)
      /\ \A i \in 1 .. n : i \in 1 .. Len(d) /\ d[i] \in Workers
      /\ \A i, j \in 1 .. Len(d) : d[i] = d[j] => i = j
      /\ \A x : x \in Range(d) <=> \E i \in 1 .. Len(d) : x = d[i]
  <2>1. Len(d) \in Nat /\ n \in Nat /\ DOMAIN d = 1 .. Len(d)
    OBVIOUS
  <2>2. \A i \in 1 .. n : i \in 1 .. Len(d)
    BY <2>1
  <2>3. \A i \in 1 .. n : d[i] \in Workers
    BY <2>2
  <2>4. \A i, j \in 1 .. Len(d) : d[i] = d[j] => i = j
    BY Elements
  <2>5. \A x : x \in Range(d) <=> \E i \in 1 .. Len(d) : x = d[i]
    BY Elements
  <2> QED BY <2>1, <2>2, <2>3, <2>4, <2>5
<1>2. /\ b \in Seq(Events) /\ Len(b) = n /\ DOMAIN b = 1 .. n
      /\ \A i \in 1 .. n : b[i] = Event("READY", d[i])
  <2>1. \A i \in 1 .. n : Event("READY", d[i]) \in Events
    BY <1>1, EventsDiffer DEF EventTypes
  <2> QED BY <1>b, <1>1, <2>1
<1>3. \A x : x \in Range(b) <=> \E i \in 1 .. n : x = Event("READY", d[i])
  BY <1>b, <1>2, Elements
<1>4. IsInjective(b)
  <2> SUFFICES ASSUME NEW i \in 1 .. n, NEW j \in 1 .. n, b[i] = b[j] PROVE i = j
    BY <1>2, Elements
  <2>1. d[i] = d[j]
    BY <1>2, EventsDiffer
  <2> QED BY <1>1, <2>1
<1>5. Range(b) = {Event("READY", v) : v \in F}
  BY <1>0, <1>3
<1>6. Range(s) \cap Range(b) = {}
  BY <1>1, <1>3
<1>7. EndsFirst(b)
  <2>1. \A i \in 1 .. n : b[i].type # "END"
    BY <1>2, EventsDiffer
  <2> QED BY <1>2, <2>1 DEF EndsFirst
<1>8. EndsFirst(s \o b)
  <2>1. \A y \in Range(b) : y.type # "END"
    BY <1>3, EventsDiffer
  <2> QED BY <1>2, <1>7, <2>1, EndsFirstConcat
<1>9. s \o b \in Seq(Events) /\ IsInjective(s \o b) /\ Range(s \o b) = Range(s) \cup Range(b)
  BY <1>2, <1>4, <1>6, Concatenated
<1>10. PICK r : r = SubSeq(d, n + 1, Len(d))
  OBVIOUS
<1>11. /\ r \in Seq(Workers) /\ Len(r) = Len(d) - n
       /\ \A i \in 1 .. Len(r) : r[i] = d[n + i] /\ n + i \in 1 .. Len(d)
  <2>1. n + 1 \in 1 .. Len(d) + 1 /\ Len(d) \in Nat /\ n \in Nat /\ n <= Len(d)
    BY <1>1
  <2>2. r \in Seq(Workers) /\ Len(r) = Len(d) - n
    <3>1. CASE n = Len(d)
      BY <1>10, <2>1, <3>1
    <3>2. CASE n < Len(d)
      BY <1>10, <2>1, <3>2
    <3> QED BY <2>1, <3>1, <3>2
  <2>3. ASSUME NEW i \in 1 .. Len(r) PROVE r[i] = d[n + i] /\ n + i \in 1 .. Len(d)
    <3>0. i \in Nat /\ 1 <= i /\ i <= Len(d) - n
      BY <2>1, <2>2, <2>3
    <3>1. n + i \in 1 .. Len(d)
      BY <2>1, <3>0
    <3>2. (n + 1) + i - 1 = n + i
      BY <2>1, <3>0
    <3> QED BY <1>10, <2>1, <2>2, <3>0, <3>1, <3>2
  <2> QED BY <2>2, <2>3
<1>12. IsInjective(r)
  <2> SUFFICES ASSUME NEW i \in 1 .. Len(r), NEW j \in 1 .. Len(r), r[i] = r[j] PROVE i = j
    BY <1>11, Elements
  <2>1. n + i = n + j
    BY <1>1, <1>11
  <2> QED BY <1>1, <2>1
<1>13. Range(r) = Range(d) \ F
  <2>1. ASSUME NEW x \in Range(r) PROVE x \in Range(d) \ F
    <3>1. PICK i \in 1 .. Len(r) : x = r[i]
      BY <1>11, <2>1, Elements
    <3>2. x = d[n + i] /\ n + i \in 1 .. Len(d) /\ n + i > n
      BY <1>1, <1>11, <3>1
    <3>3. \A j \in 1 .. n : d[j] # x
      BY <1>1, <3>2
    <3> QED BY <1>0, <1>1, <3>2, <3>3
  <2>2. ASSUME NEW x \in Range(d) \ F PROVE x \in Range(r)
    <3>1. PICK i \in 1 .. Len(d) : x = d[i]
      BY <1>1, <2>2
    <3>2. i > n
      BY <1>0, <1>1, <2>2, <3>1
    <3>3. i - n \in 1 .. Len(r) /\ n + (i - n) = i
      BY <1>1, <1>11, <3>1, <3>2
    <3>4. x = r[i - n]
      BY <1>11, <3>1, <3>3
    <3> QED BY <1>11, <3>3, <3>4, Elements
  <2> QED BY <2>1, <2>2
<1>14. F \subseteq Range(d) /\ (F = {} <=> n = 0) /\ (n = Len(d) => F = Range(d))
  <2>1. n = 0 => F = {}
    BY <1>0
  <2>2. n # 0 => 1 \in 1 .. n
    BY <1>1
  <2>3. n # 0 => F # {}
    BY <1>0, <2>2
  <2>4. F \subseteq Range(d)
    BY <1>0, <1>1
  <2>5. n = Len(d) => F = Range(d)
    BY <1>0, <1>1, <2>4
  <2> QED BY <2>1, <2>3, <2>4, <2>5
<1> QED
  <2>1. Batch(s, d, n) = s \o b /\ Rest(d, n) = r
    BY <1>b, <1>10 DEF Batch, Rest
  <2>2. /\ s \o b \in Seq(Events) /\ IsInjective(s \o b) /\ EndsFirst(s \o b)
        /\ \A x : x \in Range(s \o b) <=> x \in Range(s) \/ \E v \in F : x = Event("READY", v)
    BY <1>5, <1>8, <1>9
  <2> QED BY <1>11, <1>12, <1>13, <1>14, <2>1, <2>2
-----------------------------------------------------------------------------
(***************************************************************************)
(* What a step changes.                                                    *)
(***************************************************************************)

\* Nothing the main thread knows of worker v changes.
Same(v) ==
  /\ pc'[v] = pc[v] /\ m_weight'[v] = m_weight[v] /\ m_task'[v] = m_task[v]
  /\ \A u : Ev(u, v)' <=> Ev(u, v)
  /\ (v \in Idle)' <=> v \in Idle
  /\ Given(v)' <=> Given(v)

\* The load, once it stops, is not resumed; what fails is not forgotten.
Onward ==
  /\ Running' => Running
  /\ m_worker_interrupt => m_worker_interrupt'
  /\ \A v \in Workers : v \notin m_workers' =>
       v \notin m_workers \/ Ev("EXIT", v) \/ Ev("FATAL_ERROR", v)
  /\ m_thread_exceptions \subseteq m_thread_exceptions'

LEMMA SameView ==
  ASSUME NEW v \in Workers, View(v), Same(v), Onward
  PROVE  View(v)' /\ (Busy(v)' <=> Busy(v))
<1>1. Busy(v)' <=> Busy(v)
  BY DEF Same, Busy
<1>2. (pc[v] \in {"connect", "execute"} =>
         ~Ev("READY", v) /\ ~Ev("END", v) /\ v \notin Idle /\ ~Given(v))'
  BY DEF Same, View
<1>3. (pc[v] = "connect" => ~Ev("CONNECTED", v) /\ m_weight[v] = 0)'
  BY DEF Same, View
<1>4. (pc[v] = "ready" => ~Ev("READY", v) /\ v \notin Idle /\ ~Given(v))'
  BY DEF Same, View
<1>5. (pc[v] = "wait" => /\ ~(Ev("READY", v) /\ v \in Idle)
                         /\ ~(Ev("READY", v) /\ Given(v))
                         /\ ~(v \in Idle /\ Given(v))
                         /\ Running => Ev("READY", v) \/ v \in Idle \/ Given(v))'
  BY DEF Same, View, Onward
<1>6. (/\ pc[v] = "gone" => ~Given(v)
       /\ pc[v] = "gone" /\ Running =>
         ~Ev("READY", v) /\ ~Ev("END", v) /\ v \notin Idle /\ m_worker_interrupt)'
  BY DEF Same, View, Onward
<1>7. (Ev("END", v) => pc[v] = "ready" \/ Ev("READY", v))'
  BY DEF Same, View
<1>8. (Ev("EXIT", v) \/ Ev("FATAL_ERROR", v) \/ v \notin m_workers => pc[v] = "gone")'
  BY DEF Same, View, Onward
<1>9. (Ev("FATAL_ERROR", v) => v \in m_thread_exceptions)'
  BY DEF Same, View, Onward
<1>10. (v \in Idle => m_weight[v] = 0)'
  BY DEF Same, View
<1> QED
  BY <1>1, <1>2, <1>3, <1>4, <1>5, <1>6, <1>7, <1>8, <1>9, <1>10 DEF View

\* A worker posts an event.
LEMMA Posted ==
  ASSUME TypeOK, Queues, NEW type \in EventTypes, NEW w \in Workers, Post(type, w),
         ~Ev(type, w), type = "END" => ~Ev("READY", w)
  PROVE  /\ m_worker_events' \in Seq(Events)
         /\ IsInjective(m_worker_events)' /\ EndsFirst(m_worker_events)'
         /\ \A u, v : Ev(u, v)' <=> Ev(u, v) \/ (u = type /\ v = w)
<1>0. PICK s, e : s = m_worker_events /\ e = Append(s, Event(type, w))
  OBVIOUS
<1>1. s \in Seq(Events) /\ IsInjective(s) /\ EndsFirst(s)
  BY <1>0 DEF TypeOK, Queues, Events
<1>2. Event(type, w) \notin Range(s) /\ (type = "END" => Event("READY", w) \notin Range(s))
  BY <1>0 DEF Ev
<1>3. /\ e \in Seq(Events) /\ IsInjective(e) /\ EndsFirst(e)
      /\ Range(e) = Range(s) \cup {Event(type, w)}
  BY <1>0, <1>1, <1>2, PostFacts
<1>4. m_worker_events' = e
  BY <1>0 DEF Post
<1>5. ASSUME NEW u, NEW v PROVE Ev(u, v)' <=> Ev(u, v) \/ (u = type /\ v = w)
  <2>1. Event(u, v) = Event(type, w) <=> u = type /\ v = w
    BY EventsDiffer
  <2> QED BY <1>0, <1>3, <1>4, <2>1 DEF Ev
<1> QED
  BY <1>3, <1>4, <1>5

\* The main thread takes an event.
LEMMA EventTaken ==
  ASSUME TypeOK, Queues, NEW types \in SUBSET EventTypes, Received(types),
         m_worker_events' = Tail(m_worker_events)
  PROVE  /\ m_worker_events' \in Seq(Events)
         /\ IsInjective(m_worker_events)' /\ EndsFirst(m_worker_events)'
         /\ \E type \in types, w \in Workers :
              /\ w = Head(m_worker_events).worker /\ Ev(type, w)
              /\ type = "READY" => ~Ev("END", w)
              /\ \A u, v : Ev(u, v)' <=> Ev(u, v) /\ ~(u = type /\ v = w)
<1>0. PICK s, e : s = m_worker_events /\ e = Tail(s)
  OBVIOUS
<1>1. s \in Seq(Events) /\ IsInjective(s) /\ EndsFirst(s) /\ s # <<>>
  BY <1>0 DEF TypeOK, Queues, Events, Received
<1>2. PICK h : h = Head(s)
  OBVIOUS
<1>3. /\ h \in Range(s) /\ h = Event(h.type, h.worker) /\ h.type \in types
      /\ h.worker \in Workers /\ e \in Seq(Events) /\ IsInjective(e) /\ EndsFirst(e)
      /\ Range(e) = Range(s) \ {h}
      /\ h.type = "READY" => Event("END", h.worker) \notin Range(s)
  BY <1>0, <1>1, <1>2, TakeFacts DEF Received
<1>4. PICK type \in types, w \in Workers : type = h.type /\ w = h.worker
  BY <1>3
<1>5. ASSUME NEW u, NEW v PROVE Ev(u, v)' <=> Ev(u, v) /\ ~(u = type /\ v = w)
  <2>1. Event(u, v) = h <=> u = type /\ v = w
    BY <1>3, <1>4, EventsDiffer
  <2> QED BY <1>0, <1>3, <2>1 DEF Ev
<1>6. w = Head(m_worker_events).worker /\ Ev(type, w) /\ (type = "READY" => ~Ev("END", w))
  BY <1>0, <1>2, <1>3, <1>4 DEF Ev
<1> QED
  BY <1>0, <1>3, <1>5, <1>6

\* The tasks are where they were, though a task of a worker may be lost once the
\* load was interrupted.
LEMMA PlacesKept ==
  ASSUME Places, InOrder,
         UNCHANGED <<stage, todo, completed, m_pending_tasks, m_task>>,
         \A v \in Workers : Busy(v)' => Busy(v),
         ~m_worker_interrupt' =>
           ~m_worker_interrupt /\ \A v \in Workers : Busy(v) => Busy(v)'
  PROVE  Places' /\ InOrder'
<1>1. Pending' = Pending
  BY DEF Pending, PendingOf
<1>2. InHand' \subseteq InHand
  BY DEF InHand
<1>3. ~m_worker_interrupt' => InHand' = InHand
  BY DEF InHand
<1>4. Places'
  <2>1. (\A v \in Workers : Busy(v) => m_task[v] \in Tasks)'
    BY DEF Places
  <2>2. (\A v, w \in Workers : Busy(v) /\ Busy(w) /\ m_task[v] = m_task[w] => v = w)'
    BY DEF Places
  <2>3. (/\ todo \cap (Pending \cup InHand \cup completed) = {}
         /\ Pending \cap (InHand \cup completed) = {}
         /\ InHand \cap completed = {})'
    BY <1>1, <1>2 DEF Places
  <2>4. (~m_worker_interrupt => Tasks = todo \cup Pending \cup InHand \cup completed)'
    BY <1>1, <1>3 DEF Places
  <2> QED BY <2>1, <2>2, <2>3, <2>4 DEF Places
<1>5. InOrder'
  BY <1>1, <1>2 DEF InOrder
<1> QED
  BY <1>4, <1>5

LEMMA Pairs ==
  ASSUME NEW S, NEW x \in S, NEW y \in S
  PROVE  /\ <<x>> \in Seq(S) /\ <<x>> # <<>> /\ Head(<<x>>) = x /\ Tail(<<x>>) = <<>>
         /\ <<x, y>> \in Seq(S) /\ <<x, y>> # <<>> /\ Head(<<x, y>>) = x
         /\ Tail(<<x, y>>) = <<y>>
         /\ Append(<<>>, x) = <<x>> /\ Append(<<x>>, y) = <<x, y>>
         /\ <<x>> # <<x, y>> /\ <<y>> # <<x, y>> /\ (<<x>> = <<y>> => x = y)
<1>1. <<x>> \in Seq(S) /\ <<x>> # <<>> /\ Head(<<x>>) = x
  OBVIOUS
<1>2. Tail(<<x>>) = <<>>
  OBVIOUS
<1>3. <<x, y>> \in Seq(S) /\ <<x, y>> # <<>> /\ Head(<<x, y>>) = x
  OBVIOUS
<1>4. Tail(<<x, y>>) = <<y>>
  <2>1. PICK c, d, e : c = <<x, y>> /\ d = Tail(c) /\ e = <<y>>
    OBVIOUS
  <2>2. c \in Seq(S) /\ Len(c) = 2 /\ c[2] = y /\ e \in Seq(S) /\ Len(e) = 1 /\ e[1] = y
    BY <2>1
  <2>3. d \in Seq(S) /\ Len(d) = 1 /\ d[1] = c[2]
    BY <2>1, <2>2
  <2>4. \A i \in 1 .. Len(d) : i = 1
    BY <2>3
  <2>5. d = e
    BY <2>2, <2>3, <2>4, SeqEqual
  <2> QED BY <2>1, <2>5
<1>5. Append(<<>>, x) = <<x>> /\ Append(<<x>>, y) = <<x, y>>
  <2>0. PICK a, c, e : a = <<x>> /\ c = <<x, y>> /\ e = Append(a, y)
    OBVIOUS
  <2>1. Append(<<>>, x) = <<x>>
    OBVIOUS
  <2>2. /\ a \in Seq(S) /\ Len(a) = 1 /\ a[1] = x
        /\ c \in Seq(S) /\ Len(c) = 2 /\ c[1] = x /\ c[2] = y
    BY <2>0
  <2>3. e \in Seq(S) /\ Len(e) = 2 /\ e[1] = x /\ e[2] = y
    BY <2>0, <2>2
  <2>4. \A i \in 1 .. Len(e) : i = 1 \/ i = 2
    BY <2>3
  <2>5. e = c
    BY <2>2, <2>3, <2>4, SeqEqual
  <2> QED BY <2>0, <2>1, <2>5
<1>6. <<x>> # <<x, y>> /\ <<y>> # <<x, y>> /\ (<<x>> = <<y>> => x = y)
  <2>1. PICK a, b, c : a = <<x>> /\ b = <<y>> /\ c = <<x, y>>
    OBVIOUS
  <2>2. Len(a) = 1 /\ Len(b) = 1 /\ Len(c) = 2 /\ a[1] = x /\ b[1] = y
    BY <2>1
  <2> QED BY <2>1, <2>2
<1> QED
  BY <1>1, <1>2, <1>3, <1>4, <1>5, <1>6

\* What was put into the queue of a worker, before and after it takes an item.
LEMMA Items ==
  ASSUME NEW q \in WorkItems
  PROVE  /\ q \in Seq(BOOLEAN)
         /\ q # <<>> =>
              /\ Head(q) \in BOOLEAN /\ (Head(q) <=> q \in {<<TRUE>>, <<TRUE, FALSE>>})
              /\ Tail(q) \in {<<>>, <<FALSE>>} /\ Tail(q) \in WorkItems
              /\ Tail(q) \notin {<<TRUE>>, <<TRUE, FALSE>>}
              /\ q = <<TRUE>> => Tail(q) = <<>>
         /\ q \in {<<>>, <<TRUE>>} =>
              /\ Append(q, FALSE) \in WorkItems /\ q # <<TRUE, FALSE>>
              /\ Append(q, FALSE) \in {<<TRUE>>, <<TRUE, FALSE>>} <=> q = <<TRUE>>
         /\ q = <<>> => Append(q, TRUE) = <<TRUE>>
<1>0. PICK yes, no \in BOOLEAN : yes = TRUE /\ no = FALSE
  OBVIOUS
<1>1. yes # no /\ yes = TRUE /\ no = FALSE /\ yes /\ ~no
  BY <1>0
<1>2. PICK a, b, c : a = <<yes>> /\ b = <<no>> /\ c = <<yes, no>>
  OBVIOUS
<1>3. /\ a \in Seq(BOOLEAN) /\ a # <<>> /\ Head(a) = yes /\ Tail(a) = <<>>
      /\ b \in Seq(BOOLEAN) /\ b # <<>> /\ Head(b) = no /\ Tail(b) = <<>>
      /\ c \in Seq(BOOLEAN) /\ c # <<>> /\ Head(c) = yes /\ Tail(c) = b
      /\ Append(<<>>, yes) = a /\ Append(<<>>, no) = b /\ Append(a, no) = c
      /\ a # c /\ b # c
  BY <1>2, Pairs
<1>4. a # b
  <2>1. a = b => yes = no
    BY <1>2, Pairs
  <2> QED BY <1>1, <2>1
<1>5. <<>> \in Seq(BOOLEAN)
  OBVIOUS
<1>6. \A x : x \in WorkItems <=> x = <<>> \/ x = a \/ x = b \/ x = c
  BY <1>1, <1>2 DEF WorkItems
<1> DEFINE Goal ==
      /\ q \in Seq(BOOLEAN)
      /\ q # <<>> =>
           /\ Head(q) \in BOOLEAN /\ (Head(q) <=> q \in {a, c})
           /\ Tail(q) \in {<<>>, b} /\ Tail(q) \in WorkItems
           /\ Tail(q) \notin {a, c}
           /\ q = a => Tail(q) = <<>>
      /\ q \in {<<>>, a} =>
           /\ Append(q, no) \in WorkItems /\ q # c
           /\ Append(q, no) \in {a, c} <=> q = a
      /\ q = <<>> => Append(q, yes) = a
<1>7. Goal
  <2>1. CASE q = <<>>
    BY <1>3, <1>4, <1>5, <1>6, <2>1
  <2>2. CASE q = a
    BY <1>1, <1>3, <1>4, <1>5, <1>6, <2>2
  <2>3. CASE q = b
    BY <1>1, <1>3, <1>4, <1>5, <1>6, <2>3
  <2>4. CASE q = c
    BY <1>1, <1>3, <1>4, <1>5, <1>6, <2>4
  <2> QED BY <1>6, <2>1, <2>2, <2>3, <2>4
<1> QED
  BY <1>1, <1>2, <1>7
-----------------------------------------------------------------------------
(***************************************************************************)
(* The steps of the workers.                                               *)
(***************************************************************************)

Labels == {"connect", "ready", "wait", "execute", "gone"}

\* What a step of worker w does: the main thread's state, and what it knows of the
\* other workers, stay the same.
Stepped(w) ==
  /\ UNCHANGED <<mainVars, m_task, m_weight, ctrl_c>>
  /\ m_worker_events' \in Seq(Events)
  /\ IsInjective(m_worker_events)' /\ EndsFirst(m_worker_events)'
  /\ m_work_ready' \in [Workers -> Seq(BOOLEAN)] /\ WorkReady'
  /\ pc' \in [Workers -> Labels]
  /\ m_worker_interrupt' \in BOOLEAN /\ (m_worker_interrupt => m_worker_interrupt')
  /\ m_thread_exceptions \subseteq m_thread_exceptions'
  /\ m_thread_exceptions' \subseteq Workers
  /\ m_thread_exceptions' # {} => m_worker_interrupt'
  /\ \A v \in Workers : v # w => Same(v)
  /\ View(w)'
  /\ Busy(w)' => Busy(w)
  /\ ~m_worker_interrupt' => (Busy(w) => Busy(w)')
  /\ phase = "loop" /\ ~m_worker_interrupt' =>
       (pc[w] = "ready" \/ Ev("READY", w) => pc'[w] = "ready" \/ Ev("READY", w)')

LEMMA ConnectMoves ==
  ASSUME IInv, NEW w \in Workers, Connect(w)
  PROVE  Stepped(w)
<1> USE DEF IInv
<1>0. View(w)
  BY DEF Views
<1>1. /\ pc[w] = "connect" /\ pc' = [pc EXCEPT ![w] = "ready"] /\ Post("CONNECTED", w)
      /\ UNCHANGED <<mainVars, taskVars, m_thread_exceptions, m_worker_interrupt, ctrl_c>>
  BY DEF Connect
<1>2. pc' \in [Workers -> Labels] /\ pc'[w] = "ready" /\ \A v \in Workers : v # w => pc'[v] = pc[v]
  BY <1>1 DEF TypeOK, Labels
<1>3. /\ m_worker_events' \in Seq(Events)
      /\ IsInjective(m_worker_events)' /\ EndsFirst(m_worker_events)'
      /\ \A u, v : Ev(u, v)' <=> Ev(u, v) \/ (u = "CONNECTED" /\ v = w)
  <2>1. ~Ev("CONNECTED", w) /\ "CONNECTED" \in EventTypes
    BY <1>0, <1>1 DEF View, EventTypes
  <2> QED BY <1>1, <2>1, Posted
<1>4. (Idle = Idle') /\ \A v : Given(v)' <=> Given(v)
  BY <1>1 DEF Idle, Given, mainVars, taskVars
<1>5. \A v \in Workers : v # w => Same(v)
  BY <1>1, <1>2, <1>3, <1>4 DEF Same, taskVars
<1>6. View(w)'
  BY <1>0, <1>1, <1>2, <1>3, <1>4 DEF View, mainVars, taskVars, Running
<1>7. Busy(w)' <=> Busy(w)
  BY <1>1, <1>2, <1>3, <1>4 DEF Busy
<1>8. WorkReady' /\ m_work_ready' \in [Workers -> Seq(BOOLEAN)]
  BY <1>1 DEF WorkReady, taskVars, mainVars, TypeOK
<1>9. m_worker_interrupt' \in BOOLEAN /\ m_thread_exceptions' \subseteq Workers
      /\ (m_thread_exceptions' # {} => m_worker_interrupt')
  BY <1>1 DEF TypeOK, Loop
<1> QED
  BY <1>1, <1>2, <1>3, <1>5, <1>6, <1>7, <1>8, <1>9 DEF Stepped, taskVars

LEMMA ReadyMoves ==
  ASSUME IInv, NEW w \in Workers, Ready(w)
  PROVE  Stepped(w)
<1> USE DEF IInv
<1>0. View(w)
  BY DEF Views
<1>1. /\ pc[w] = "ready" /\ pc' = [pc EXCEPT ![w] = "wait"] /\ Post("READY", w)
      /\ UNCHANGED <<mainVars, taskVars, m_thread_exceptions, m_worker_interrupt, ctrl_c>>
  BY DEF Ready
<1>2. pc' \in [Workers -> Labels] /\ pc'[w] = "wait" /\ \A v \in Workers : v # w => pc'[v] = pc[v]
  BY <1>1 DEF TypeOK, Labels
<1>3. /\ m_worker_events' \in Seq(Events)
      /\ IsInjective(m_worker_events)' /\ EndsFirst(m_worker_events)'
      /\ \A u, v : Ev(u, v)' <=> Ev(u, v) \/ (u = "READY" /\ v = w)
  <2>1. ~Ev("READY", w) /\ "READY" \in EventTypes
    BY <1>0, <1>1 DEF View, EventTypes
  <2> QED BY <1>1, <2>1, Posted
<1>4. (Idle = Idle') /\ \A v : Given(v)' <=> Given(v)
  BY <1>1 DEF Idle, Given, mainVars, taskVars
<1>5. \A v \in Workers : v # w => Same(v)
  BY <1>1, <1>2, <1>3, <1>4 DEF Same, taskVars
<1>6. View(w)'
  BY <1>0, <1>1, <1>2, <1>3, <1>4 DEF View, mainVars, taskVars, Running
<1>7. Busy(w)' <=> Busy(w)
  BY <1>1, <1>2, <1>3, <1>4 DEF Busy
<1>8. WorkReady' /\ m_work_ready' \in [Workers -> Seq(BOOLEAN)]
  BY <1>1 DEF WorkReady, taskVars, mainVars, TypeOK
<1>9. m_worker_interrupt' \in BOOLEAN /\ m_thread_exceptions' \subseteq Workers
      /\ (m_thread_exceptions' # {} => m_worker_interrupt')
  BY <1>1 DEF TypeOK, Loop
<1> QED
  BY <1>1, <1>2, <1>3, <1>5, <1>6, <1>7, <1>8, <1>9 DEF Stepped, taskVars

LEMMA TaskEndsMoves ==
  ASSUME IInv, NEW w \in Workers, TaskEnds(w)
  PROVE  Stepped(w)
<1> USE DEF IInv
<1>0. View(w)
  BY DEF Views
<1>1. /\ pc[w] = "execute" /\ pc' = [pc EXCEPT ![w] = "ready"] /\ Post("END", w)
      /\ UNCHANGED <<mainVars, taskVars, m_thread_exceptions, m_worker_interrupt, ctrl_c>>
  BY DEF TaskEnds
<1>2. pc' \in [Workers -> Labels] /\ pc'[w] = "ready" /\ \A v \in Workers : v # w => pc'[v] = pc[v]
  BY <1>1 DEF TypeOK, Labels
<1>3. /\ m_worker_events' \in Seq(Events)
      /\ IsInjective(m_worker_events)' /\ EndsFirst(m_worker_events)'
      /\ \A u, v : Ev(u, v)' <=> Ev(u, v) \/ (u = "END" /\ v = w)
  <2>1. ~Ev("END", w) /\ ~Ev("READY", w) /\ "END" \in EventTypes
    BY <1>0, <1>1 DEF View, EventTypes
  <2> QED BY <1>1, <2>1, Posted
<1>4. (Idle = Idle') /\ \A v : Given(v)' <=> Given(v)
  BY <1>1 DEF Idle, Given, mainVars, taskVars
<1>5. \A v \in Workers : v # w => Same(v)
  BY <1>1, <1>2, <1>3, <1>4 DEF Same, taskVars
<1>6. View(w)'
  BY <1>0, <1>1, <1>2, <1>3, <1>4 DEF View, mainVars, taskVars, Running
<1>7. Busy(w)' <=> Busy(w)
  BY <1>1, <1>2, <1>3, <1>4 DEF Busy
<1>8. WorkReady' /\ m_work_ready' \in [Workers -> Seq(BOOLEAN)]
  BY <1>1 DEF WorkReady, taskVars, mainVars, TypeOK
<1>9. m_worker_interrupt' \in BOOLEAN /\ m_thread_exceptions' \subseteq Workers
      /\ (m_thread_exceptions' # {} => m_worker_interrupt')
  BY <1>1 DEF TypeOK, Loop
<1> QED
  BY <1>1, <1>2, <1>3, <1>5, <1>6, <1>7, <1>8, <1>9 DEF Stepped, taskVars

LEMMA FailMoves ==
  ASSUME IInv, NEW w \in Workers, Fail(w)
  PROVE  Stepped(w)
<1> USE DEF IInv
<1>0. View(w)
  BY DEF Views
<1>1. /\ pc[w] \in {"connect", "execute"} /\ pc' = [pc EXCEPT ![w] = "gone"]
      /\ Post("FATAL_ERROR", w) /\ m_worker_interrupt' = TRUE
      /\ m_thread_exceptions' = m_thread_exceptions \cup {w}
      /\ UNCHANGED <<mainVars, taskVars, ctrl_c>>
  BY DEF Fail
<1>2. pc' \in [Workers -> Labels] /\ pc'[w] = "gone" /\ \A v \in Workers : v # w => pc'[v] = pc[v]
  BY <1>1 DEF TypeOK, Labels
<1>3. /\ m_worker_events' \in Seq(Events)
      /\ IsInjective(m_worker_events)' /\ EndsFirst(m_worker_events)'
      /\ \A u, v : Ev(u, v)' <=> Ev(u, v) \/ (u = "FATAL_ERROR" /\ v = w)
  <2>1. ~Ev("FATAL_ERROR", w) /\ "FATAL_ERROR" \in EventTypes
    BY <1>0, <1>1 DEF View, EventTypes
  <2> QED BY <1>1, <2>1, Posted
<1>4. (Idle = Idle') /\ \A v : Given(v)' <=> Given(v)
  BY <1>1 DEF Idle, Given, mainVars, taskVars
<1>5. \A v \in Workers : v # w => Same(v)
  BY <1>1, <1>2, <1>3, <1>4 DEF Same, taskVars
<1>6. View(w)'
  BY <1>0, <1>1, <1>2, <1>3, <1>4 DEF View, mainVars, taskVars, Running
<1>7. Busy(w)' => Busy(w)
  BY <1>0, <1>1, <1>2, <1>3, <1>4 DEF Busy, View
<1>8. WorkReady' /\ m_work_ready' \in [Workers -> Seq(BOOLEAN)]
  BY <1>1 DEF WorkReady, taskVars, mainVars, TypeOK
<1>9. m_worker_interrupt' \in BOOLEAN /\ m_thread_exceptions' \subseteq Workers
  BY <1>1 DEF TypeOK
<1> QED
  BY <1>1, <1>2, <1>3, <1>5, <1>6, <1>7, <1>8, <1>9 DEF Stepped, taskVars

LEMMA PopWorkMoves ==
  ASSUME IInv, NEW w \in Workers, PopWork(w)
  PROVE  Stepped(w)
<1> USE DEF IInv
<1>0. View(w)
  BY DEF Views
<1>1. PICK q : q = m_work_ready[w]
  OBVIOUS
<1>2. /\ pc[w] = "wait" /\ q # <<>>
      /\ m_work_ready' = [m_work_ready EXCEPT ![w] = Tail(q)]
      /\ UNCHANGED <<mainVars, m_task, m_weight, m_thread_exceptions,
                     m_worker_interrupt, ctrl_c>>
      /\ pc' = [pc EXCEPT ![w] = "execute"] \/ pc' = [pc EXCEPT ![w] = "gone"]
  BY <1>1 DEF PopWork
<1>3. /\ q \in WorkItems /\ Tail(q) \in WorkItems /\ Tail(q) \in Seq(BOOLEAN)
      /\ Head(q) \in BOOLEAN /\ (Head(q) <=> Given(w))
      /\ Tail(q) \notin {<<TRUE>>, <<TRUE, FALSE>>}
      /\ phase \notin {"join", "done"} => q = <<TRUE>> /\ Tail(q) = <<>>
  <2>1. q \in WorkItems /\ (phase \notin {"join", "done"} => q \in {<<>>, <<TRUE>>})
    BY <1>1 DEF WorkReady
  <2> QED BY <1>1, <1>2, <2>1, Items DEF Given
<1>4. m_work_ready' \in [Workers -> Seq(BOOLEAN)] /\ m_work_ready'[w] = Tail(q)
      /\ \A v \in Workers : v # w => m_work_ready'[v] = m_work_ready[v]
  BY <1>2, <1>3 DEF TypeOK
<1>5. WorkReady'
  BY <1>2, <1>3, <1>4 DEF WorkReady, mainVars
<1>6. ~Given(w)' /\ \A v \in Workers : v # w => (Given(v)' <=> Given(v))
  BY <1>3, <1>4 DEF Given
<1>7. Idle' = Idle
  BY <1>2 DEF Idle, mainVars
<1>8. pc' \in [Workers -> Labels] /\ \A v \in Workers : v # w => pc'[v] = pc[v]
  BY <1>2 DEF TypeOK, Labels
<1>9. m_worker_interrupt' \in BOOLEAN /\ m_thread_exceptions' \subseteq Workers
      /\ (m_thread_exceptions' # {} => m_worker_interrupt')
  BY <1>2 DEF TypeOK, Loop
<1>10. phase \notin {"join", "done"} => Given(w)
  BY <1>1, <1>3 DEF Given
<1>11. CASE Head(q) /\ ~m_worker_interrupt
  <2>1. pc' = [pc EXCEPT ![w] = "execute"] /\ UNCHANGED m_worker_events
    BY <1>1, <1>11 DEF PopWork
  <2>2. pc'[w] = "execute" /\ \A u, v : Ev(u, v)' <=> Ev(u, v)
    BY <2>1 DEF Ev, TypeOK
  <2>3. /\ m_worker_events' \in Seq(Events)
        /\ IsInjective(m_worker_events)' /\ EndsFirst(m_worker_events)'
    BY <2>1 DEF TypeOK, Events, Queues
  <2>4. \A v \in Workers : v # w => Same(v)
    BY <1>2, <1>6, <1>7, <1>8, <2>2 DEF Same
  <2>5. Given(w)
    BY <1>3, <1>11
  <2>6. View(w)'
    BY <1>0, <1>2, <1>6, <1>7, <2>2, <2>5 DEF View, mainVars, Running
  <2>7. Busy(w)' /\ Busy(w)
    BY <2>2, <2>5 DEF Busy
  <2>8. ~Ev("READY", w) /\ pc[w] # "ready"
    BY <1>0, <1>2, <2>5 DEF View
  <2> QED BY <1>2, <1>4, <1>5, <1>8, <1>9, <2>3, <2>4, <2>6, <2>7, <2>8 DEF Stepped
<1>12. CASE ~(Head(q) /\ ~m_worker_interrupt)
  <2>1. pc' = [pc EXCEPT ![w] = "gone"] /\ Post("EXIT", w)
    BY <1>1, <1>12 DEF PopWork
  <2>2. pc'[w] = "gone"
    BY <2>1 DEF TypeOK
  <2>3. /\ m_worker_events' \in Seq(Events)
        /\ IsInjective(m_worker_events)' /\ EndsFirst(m_worker_events)'
        /\ \A u, v : Ev(u, v)' <=> Ev(u, v) \/ (u = "EXIT" /\ v = w)
    <3>1. ~Ev("EXIT", w) /\ "EXIT" \in EventTypes
      BY <1>0, <1>2 DEF View, EventTypes
    <3> QED BY <2>1, <3>1, Posted
  <2>4. \A v \in Workers : v # w => Same(v)
    BY <1>2, <1>6, <1>7, <1>8, <2>3 DEF Same
  <2>5. Running => Given(w) /\ m_worker_interrupt
    BY <1>3, <1>10, <1>12 DEF Running
  <2>6. View(w)'
    BY <1>0, <1>2, <1>6, <1>7, <2>2, <2>3, <2>5 DEF View, mainVars, Running
  <2>7. Busy(w)' => Busy(w)
    BY <1>6, <2>2, <2>3 DEF Busy
  <2>8. ~m_worker_interrupt' => ~Given(w)
    BY <1>2, <1>3, <1>12
  <2>9. ~m_worker_interrupt' => (Busy(w) => Busy(w)')
    BY <1>2, <2>3, <2>8 DEF Busy
  <2>10. phase = "loop" => m_worker_interrupt'
    BY <1>2, <2>5 DEF Running
  <2> QED BY <1>2, <1>4, <1>5, <1>8, <1>9, <2>3, <2>4, <2>6, <2>7, <2>9, <2>10 DEF Stepped
<1> QED
  BY <1>11, <1>12

\* A worker keeps its place and the load its state.
LEMMA SteppedInv ==
  ASSUME IInv, NEW w \in Workers, Stepped(w)
  PROVE  IInv'
<1> USE DEF IInv
<1>1. /\ UNCHANGED <<phase, stage, todo, completed, m_pending_tasks, m_current_weight,
                     m_workers, idle_workers, m_abort, thrown, outcome>>
      /\ UNCHANGED <<m_task, m_weight, ctrl_c>>
  BY DEF Stepped, mainVars
<1>2. TypeOK'
  BY <1>1 DEF TypeOK, Stepped, Labels, Events
<1>3. WorkReady'
  BY DEF Stepped
<1>4. Queues'
  BY <1>1 DEF Stepped, Queues
<1>5. Onward
  BY <1>1 DEF Stepped, Onward, Running
<1>6. \A v \in Workers : v # w => View(v)' /\ (Busy(v)' <=> Busy(v))
  BY <1>5, SameView DEF Stepped, Views
<1>7. Views'
  BY <1>6 DEF Views, Stepped
<1>8. Loop'
  BY <1>1 DEF Loop, Idle, Stepped
<1>9. Heaviest'
  BY <1>1 DEF Heaviest, HeaviestOf, IsEmpty
<1>10. Places' /\ InOrder'
  <2>1. \A v \in Workers : Busy(v)' => Busy(v)
    BY <1>6 DEF Stepped
  <2>2. ~m_worker_interrupt' => ~m_worker_interrupt /\ \A v \in Workers : Busy(v) => Busy(v)'
    BY <1>6 DEF Stepped
  <2> QED BY <1>1, <2>1, <2>2, PlacesKept
<1>11. WeightExact'
  BY <1>1 DEF WeightExact, Occupied
<1>12. Awaited'
  <2> SUFFICES ASSUME phase' = "loop", ~m_worker_interrupt', Idle' # {}, Serves'
               PROVE  Asked'
    BY DEF Awaited
  <2>1. phase = "loop" /\ ~m_worker_interrupt /\ Idle # {}
    BY <1>1 DEF Idle, Stepped
  <2>2. Serves
    BY <1>1 DEF Serves, Available, IsEmpty, Top
  <2>3. PICK v \in m_workers : pc[v] = "ready" \/ Ev("READY", v)
    BY <2>1, <2>2 DEF Awaited, Asked
  <2>4. v \in Workers
    BY DEF TypeOK
  <2>5. pc'[v] = "ready" \/ Ev("READY", v)'
    <3>1. CASE v = w
      BY <2>1, <2>3, <3>1 DEF Stepped
    <3>2. CASE v # w
      BY <2>3, <2>4, <3>2 DEF Stepped, Same
    <3> QED BY <3>1, <3>2
  <2> QED BY <1>1, <2>3, <2>5 DEF Asked
<1>13. Ending'
  BY <1>1 DEF Ending, NothingLeft, Stepped
<1> QED
  BY <1>2, <1>3, <1>4, <1>7, <1>8, <1>9, <1>10, <1>11, <1>12, <1>13

LEMMA WorkerInv ==
  ASSUME IInv, NEW w \in Workers, Worker(w)
  PROVE  IInv'
<1>1. Stepped(w)
  BY ConnectMoves, ReadyMoves, PopWorkMoves, TaskEndsMoves, FailMoves DEF Worker
<1> QED
  BY <1>1, SteppedInv
-----------------------------------------------------------------------------
(***************************************************************************)
(* The steps of run() and execute_tasks().                                 *)
(***************************************************************************)

\* Neither the tasks nor what is known of the workers change.
Settled ==
  /\ UNCHANGED <<todo, completed, m_pending_tasks, m_current_weight, m_workers,
                 idle_workers, m_abort, m_worker_events, m_task, m_weight, pc,
                 m_thread_exceptions>>
  /\ \A v \in Workers : Given(v)' <=> Given(v)

LEMMA SettledKept ==
  ASSUME IInv, Settled, Running' => Running, m_worker_interrupt => m_worker_interrupt'
  PROVE  /\ Queues' /\ Views' /\ Heaviest' /\ WeightExact'
         /\ Idle' = Idle /\ Pending' = Pending /\ InHand' = InHand
         /\ \A v \in Workers : Busy(v)' <=> Busy(v)
         /\ UNCHANGED stage => Places' /\ InOrder'
<1> USE DEF IInv
<1>1. UNCHANGED <<todo, completed, m_pending_tasks, m_current_weight, m_workers,
                  idle_workers, m_abort, m_worker_events, m_task, m_weight, pc,
                  m_thread_exceptions>>
  BY DEF Settled
<1>2. Idle' = Idle /\ Pending' = Pending /\ \A u, v : Ev(u, v)' <=> Ev(u, v)
  BY <1>1 DEF Idle, Pending, PendingOf, Ev
<1>3. \A v \in Workers : Same(v)
  BY <1>1, <1>2 DEF Same, Settled
<1>4. Onward
  BY <1>1 DEF Onward
<1>5. \A v \in Workers : View(v)' /\ (Busy(v)' <=> Busy(v))
  BY <1>3, <1>4, SameView DEF Views
<1>6. Queues' /\ Heaviest' /\ WeightExact'
  BY <1>1 DEF Queues, EndsFirst, Heaviest, HeaviestOf, IsEmpty, WeightExact, Occupied
<1>7. InHand' = InHand
  BY <1>1, <1>5 DEF InHand
<1>8. UNCHANGED stage => Places' /\ InOrder'
  <2> SUFFICES ASSUME UNCHANGED stage PROVE Places' /\ InOrder'
    OBVIOUS
  <2>1. UNCHANGED <<stage, todo, completed, m_pending_tasks, m_task>>
    BY <1>1
  <2> QED BY <1>5, <2>1, PlacesKept
<1> QED
  BY <1>2, <1>5, <1>6, <1>7, <1>8 DEF Views

\* All of the stage is completed before the next one begins.
LEMMA StartStageInv ==
  ASSUME IInv, StartStage
  PROVE  IInv'
<1> USE DEF IInv
<1>1. /\ phase \in {"setup", "returned"} /\ ~m_worker_interrupt /\ stage < Stages
      /\ stage' = stage + 1 /\ phase' = "loop"
      /\ UNCHANGED <<todo, completed, m_pending_tasks, m_current_weight, m_workers,
                     idle_workers, m_abort, thrown, outcome, m_worker_events,
                     m_task, m_weight, m_work_ready, pc, m_thread_exceptions,
                     m_worker_interrupt, ctrl_c>>
  BY DEF StartStage, taskVars, workerVars
<1>2. Settled
  BY <1>1 DEF Settled, Given
<1>3. Running
  BY <1>1 DEF Running
<1>4. /\ Queues' /\ Views' /\ Heaviest' /\ WeightExact'
      /\ Idle' = Idle /\ Pending' = Pending /\ InHand' = InHand
      /\ \A v \in Workers : Busy(v)' <=> Busy(v)
  BY <1>1, <1>2, <1>3, SettledKept
<1>5. stage' \in 0 .. Stages /\ stage \in Nat
  BY <1>1, WorkersAssumption DEF TypeOK
<1>6. TypeOK'
  BY <1>1, <1>5 DEF TypeOK
<1>7. WorkReady' /\ Loop'
  BY <1>1 DEF WorkReady, Loop, Idle
<1>8. \A t \in Tasks : Stage[t] <= stage => t \in completed
  <2>1. CASE phase = "setup"
    <3>1. \A t \in Tasks : Stage[t] >= 1 /\ Stage[t] \in Nat
      BY WorkersAssumption
    <3> QED BY <1>5, <2>1, <3>1 DEF Loop
  <2>2. CASE phase = "returned"
    BY <1>1, <2>2 DEF Ending, NothingLeft
  <2> QED BY <1>1, <2>1, <2>2
<1>9. Pending = {} /\ InHand = {}
  <2>1. \A t \in Pending \cup InHand : t \in Tasks /\ Stage[t] = stage
    BY DEF InOrder, Pending, PendingOf, InHand, Places
  <2>2. \A t \in Pending \cup InHand : t \in completed
    BY <1>5, <1>8, <2>1
  <2> QED BY <2>2 DEF Places
<1>10. Places'
  <2>1. (/\ todo \cap (Pending \cup InHand \cup completed) = {}
         /\ Pending \cap (InHand \cup completed) = {}
         /\ InHand \cap completed = {}
         /\ ~m_worker_interrupt => Tasks = todo \cup Pending \cup InHand \cup completed)'
    BY <1>1, <1>4 DEF Places
  <2>2. (/\ \A w \in Workers : Busy(w) => m_task[w] \in Tasks
         /\ \A v, w \in Workers : Busy(v) /\ Busy(w) /\ m_task[v] = m_task[w] => v = w)'
    BY <1>1, <1>4 DEF Places
  <2> QED BY <2>1, <2>2 DEF Places
<1>11. InOrder'
  <2>1. \A t \in Tasks : Stage[t] < stage + 1 => t \in completed
    <3>1. \A t \in Tasks : Stage[t] \in Nat
      BY WorkersAssumption
    <3> QED BY <1>5, <1>8, <3>1
  <2> QED BY <1>1, <1>4, <1>9, <2>1 DEF InOrder
<1>12. Awaited'
  BY <1>1, <1>4 DEF Awaited, Loop
<1>13. Ending'
  BY <1>1 DEF Ending, NothingLeft
<1> QED
  BY <1>4, <1>6, <1>7, <1>10, <1>11, <1>12, <1>13

LEMMA SetupThrowsInv ==
  ASSUME IInv, SetupThrows
  PROVE  IInv'
<1> USE DEF IInv
<1>1. /\ phase \in {"setup", "returned"} /\ thrown' = TRUE /\ phase' = "stop"
      /\ UNCHANGED <<stage, todo, completed, m_pending_tasks, m_current_weight, m_workers,
                     idle_workers, m_abort, outcome, m_worker_events,
                     m_task, m_weight, m_work_ready, pc, m_thread_exceptions,
                     m_worker_interrupt, ctrl_c>>
  BY DEF SetupThrows, taskVars, workerVars
<1>2. Settled /\ ~Running'
  BY <1>1 DEF Settled, Given, Running
<1>3. Queues' /\ Views' /\ Heaviest' /\ WeightExact' /\ Places' /\ InOrder'
  BY <1>1, <1>2, SettledKept
<1>4. TypeOK'
  BY <1>1 DEF TypeOK
<1>5. WorkReady' /\ Loop' /\ Awaited' /\ Ending'
  BY <1>1 DEF WorkReady, Loop, Awaited, Ending, NothingLeft
<1> QED
  BY <1>3, <1>4, <1>5

LEMMA ExecuteTasksReturnsInv ==
  ASSUME IInv, ExecuteTasksReturns
  PROVE  IInv'
<1> USE DEF IInv
<1>1. /\ phase \in {"setup", "returned"} /\ phase' = "stop"
      /\ m_worker_interrupt \/ (phase = "returned" /\ stage = Stages)
      /\ UNCHANGED <<stage, todo, completed, m_pending_tasks, m_current_weight, m_workers,
                     idle_workers, m_abort, thrown, outcome, m_worker_events,
                     m_task, m_weight, m_work_ready, pc, m_thread_exceptions,
                     m_worker_interrupt, ctrl_c>>
  BY DEF ExecuteTasksReturns, taskVars, workerVars
<1>2. Settled /\ ~Running'
  BY <1>1 DEF Settled, Given, Running
<1>3. Queues' /\ Views' /\ Heaviest' /\ WeightExact' /\ Places' /\ InOrder'
  BY <1>1, <1>2, SettledKept
<1>4. TypeOK'
  BY <1>1 DEF TypeOK
<1>5. WorkReady' /\ Loop' /\ Awaited'
  BY <1>1 DEF WorkReady, Loop, Awaited
<1>6. ~m_worker_interrupt => completed = Tasks
  <2>1. \A t \in Tasks : Stage[t] <= Stages
    BY WorkersAssumption
  <2>2. ~m_worker_interrupt => \A t \in Tasks : Stage[t] <= Stages => t \in completed
    BY <1>1 DEF Ending, NothingLeft
  <2>3. completed \subseteq Tasks
    BY DEF TypeOK
  <2> QED BY <2>1, <2>2, <2>3
<1>7. Ending'
  BY <1>1, <1>6 DEF Ending, NothingLeft
<1> QED
  BY <1>3, <1>4, <1>5, <1>7

LEMMA StopWorkersInv ==
  ASSUME IInv, StopWorkers
  PROVE  IInv'
<1> USE DEF IInv
<1>1. /\ phase = "stop" /\ phase' = "join"
      /\ m_work_ready' = [w \in Workers |-> IF w \in m_workers
                                            THEN Append(m_work_ready[w], FALSE)
                                            ELSE m_work_ready[w]]
      /\ UNCHANGED <<stage, todo, completed, m_pending_tasks, m_current_weight, m_workers,
                     idle_workers, m_abort, thrown, outcome, m_worker_events,
                     m_task, m_weight, pc, m_thread_exceptions, m_worker_interrupt, ctrl_c>>
  BY DEF StopWorkers, workerVars
<1>2. ASSUME NEW w \in Workers
      PROVE  m_work_ready'[w] \in WorkItems /\ (Given(w)' <=> Given(w))
  <2>1. PICK q : q = m_work_ready[w]
    OBVIOUS
  <2>2. q \in WorkItems /\ q \in {<<>>, <<TRUE>>}
    BY <1>1, <2>1 DEF WorkReady
  <2>3. /\ Append(q, FALSE) \in WorkItems /\ q # <<TRUE, FALSE>>
        /\ Append(q, FALSE) \in {<<TRUE>>, <<TRUE, FALSE>>} <=> q = <<TRUE>>
    BY <2>2, Items
  <2>4. q \in {<<TRUE>>, <<TRUE, FALSE>>} <=> q = <<TRUE>>
    BY <2>3
  <2>5. m_work_ready'[w] = Append(q, FALSE) \/ m_work_ready'[w] = q
    BY <1>1, <2>1
  <2> QED BY <2>1, <2>2, <2>3, <2>4, <2>5 DEF Given
<1>3. WorkReady' /\ m_work_ready' \in [Workers -> Seq(BOOLEAN)]
  <2>1. \A w \in Workers : m_work_ready'[w] \in Seq(BOOLEAN)
    BY <1>2, Items
  <2> QED BY <1>1, <1>2, <2>1 DEF WorkReady
<1>4. Settled /\ ~Running'
  BY <1>1, <1>2 DEF Settled, Running
<1>5. Queues' /\ Views' /\ Heaviest' /\ WeightExact' /\ Places' /\ InOrder'
  BY <1>1, <1>4, SettledKept
<1>6. TypeOK'
  BY <1>1, <1>3 DEF TypeOK
<1>7. Loop' /\ Awaited' /\ Ending'
  BY <1>1 DEF Loop, Awaited, Ending, NothingLeft
<1> QED
  BY <1>3, <1>5, <1>6, <1>7

\* run() succeeds: nothing was thrown, no worker failed and nobody interrupted it.
LEMMA JoinWorkersInv ==
  ASSUME IInv, JoinWorkers
  PROVE  IInv'
<1> USE DEF IInv
<1>1. /\ phase = "join" /\ phase' = "done"
      /\ outcome' = IF thrown THEN "error"
                    ELSE IF m_worker_interrupt /\ ~m_abort THEN "cancelled"
                    ELSE IF m_thread_exceptions # {} THEN "error"
                    ELSE "ok"
      /\ UNCHANGED <<stage, todo, completed, m_pending_tasks, m_current_weight, m_workers,
                     idle_workers, m_abort, thrown, m_worker_events,
                     m_task, m_weight, m_work_ready, pc, m_thread_exceptions,
                     m_worker_interrupt, ctrl_c>>
  BY DEF JoinWorkers, taskVars, workerVars
<1>2. Settled /\ ~Running'
  BY <1>1 DEF Settled, Given, Running
<1>3. Queues' /\ Views' /\ Heaviest' /\ WeightExact' /\ Places' /\ InOrder'
  BY <1>1, <1>2, SettledKept
<1>4. TypeOK'
  BY <1>1 DEF TypeOK
<1>5. WorkReady' /\ Loop' /\ Awaited'
  BY <1>1 DEF WorkReady, Loop, Awaited
<1>6. outcome' = "ok" => ~thrown /\ ~m_worker_interrupt
  BY <1>1 DEF Loop
<1>7. Ending'
  BY <1>1, <1>6 DEF Ending, NothingLeft
<1> QED
  BY <1>3, <1>4, <1>5, <1>7

LEMMA InterruptInv ==
  ASSUME IInv, Interrupt
  PROVE  IInv'
<1> USE DEF IInv
<1>1. /\ m_worker_interrupt' = TRUE /\ ctrl_c' = TRUE
      /\ UNCHANGED <<phase, stage, todo, completed, m_pending_tasks, m_current_weight,
                     m_workers, idle_workers, m_abort, thrown, outcome, m_worker_events,
                     m_task, m_weight, m_work_ready, pc, m_thread_exceptions>>
  BY DEF Interrupt, taskVars, workerVars, mainVars
<1>2. Settled /\ (Running' => Running)
  BY <1>1 DEF Settled, Given, Running
<1>3. Queues' /\ Views' /\ Heaviest' /\ WeightExact' /\ Places' /\ InOrder' /\ Idle' = Idle
  BY <1>1, <1>2, SettledKept
<1>4. TypeOK'
  BY <1>1 DEF TypeOK
<1>5. WorkReady' /\ Loop' /\ Awaited' /\ Ending'
  BY <1>1, <1>3 DEF WorkReady, Loop, Awaited, Ending, NothingLeft
<1> QED
  BY <1>3, <1>4, <1>5

LEMMA UnchangedInv ==
  ASSUME IInv, UNCHANGED vars
  PROVE  IInv'
<1> USE DEF IInv
<1>1. /\ UNCHANGED <<m_worker_interrupt, ctrl_c>>
      /\ UNCHANGED <<phase, stage, todo, completed, m_pending_tasks, m_current_weight,
                     m_workers, idle_workers, m_abort, thrown, outcome, m_worker_events,
                     m_task, m_weight, m_work_ready, pc, m_thread_exceptions>>
  BY DEF vars, taskVars, workerVars, mainVars
<1>2. Settled /\ (Running' => Running)
  BY <1>1 DEF Settled, Given, Running
<1>3. Queues' /\ Views' /\ Heaviest' /\ WeightExact' /\ Places' /\ InOrder' /\ Idle' = Idle
  BY <1>1, <1>2, SettledKept
<1>4. TypeOK'
  BY <1>1 DEF TypeOK
<1>5. WorkReady' /\ Loop' /\ Ending'
  BY <1>1, <1>3 DEF WorkReady, Loop, Ending, NothingLeft
<1>6. Awaited'
  BY <1>1, <1>3 DEF Awaited, Asked, Serves, Available, IsEmpty, Top, Ev
<1> QED
  BY <1>3, <1>4, <1>5, <1>6
-----------------------------------------------------------------------------
(***************************************************************************)
(* The events other than READY.                                            *)
(***************************************************************************)


HandleOther == HandleConnected \/ HandleEnd \/ HandleExit \/ HandleFatalError

\* What the handlers have in common, for an event of some type.
LEMMA OtherMoves ==
  ASSUME IInv, HandleOther, NEW type \in EventTypes \ {"READY"}, Received({type})
  PROVE  /\ phase = "loop" /\ Queues' /\ Heaviest' /\ WeightExact' /\ WorkReady'
         /\ UNCHANGED <<phase, stage, todo, m_pending_tasks, m_current_weight, idle_workers,
                        thrown, outcome, m_task, m_weight, m_work_ready, pc,
                        m_thread_exceptions, ctrl_c>>
         /\ Idle' = Idle /\ Pending' = Pending
         /\ m_worker_events' \in Seq(Events)
         /\ m_worker_interrupt => m_worker_interrupt'
         /\ \E w \in Workers :
              /\ w = Head(m_worker_events).worker /\ Ev(type, w)
              /\ \A u, v : Ev(u, v)' <=> Ev(u, v) /\ ~(u = type /\ v = w)
              /\ \A v \in Workers : v # w => Same(v)
<1> USE DEF IInv
<1>1. /\ UNCHANGED <<phase, stage, todo, m_pending_tasks, m_current_weight, idle_workers,
                     thrown, outcome, m_task, m_weight, m_work_ready, pc,
                     m_thread_exceptions, ctrl_c>>
      /\ m_worker_events' = Tail(m_worker_events)
      /\ m_worker_interrupt => m_worker_interrupt'
  BY DEF HandleOther, HandleConnected, HandleEnd, HandleExit, HandleFatalError,
         mainVars, taskVars, workerVars
<1>2. phase = "loop"
  BY DEF Received, InLoop
<1>3. Idle' = Idle /\ Pending' = Pending /\ Heaviest' /\ WeightExact' /\ WorkReady'
  BY <1>1 DEF Idle, Pending, PendingOf, Heaviest, HeaviestOf, IsEmpty, WeightExact, Occupied,
              WorkReady
<1>4. /\ m_worker_events' \in Seq(Events)
      /\ IsInjective(m_worker_events)' /\ EndsFirst(m_worker_events)'
      /\ \E t \in {type}, w \in Workers :
           /\ w = Head(m_worker_events).worker /\ Ev(t, w)
           /\ t = "READY" => ~Ev("END", w)
           /\ \A u, v : Ev(u, v)' <=> Ev(u, v) /\ ~(u = t /\ v = w)
  BY <1>1, EventTaken
<1>5. PICK w \in Workers :
        /\ w = Head(m_worker_events).worker /\ Ev(type, w)
        /\ \A u, v : Ev(u, v)' <=> Ev(u, v) /\ ~(u = type /\ v = w)
  BY <1>4
<1>6. \A v \in Workers : v # w => Same(v)
  BY <1>1, <1>3, <1>5 DEF Same, Given
<1>7. Queues'
  BY <1>1, <1>4 DEF Queues
<1> QED
  BY <1>1, <1>2, <1>3, <1>4, <1>5, <1>6, <1>7

LEMMA HandleConnectedInv ==
  ASSUME IInv, HandleConnected
  PROVE  IInv'
<1> USE DEF IInv
<1>1. "CONNECTED" \in EventTypes \ {"READY"} /\ Received({"CONNECTED"}) /\ HandleOther
      /\ UNCHANGED <<completed, m_workers, m_abort, m_worker_interrupt>>
  BY DEF HandleConnected, EventTypes, mainVars, HandleOther
<1>2. /\ Queues' /\ Heaviest' /\ WeightExact' /\ WorkReady' /\ m_worker_events' \in Seq(Events)
      /\ UNCHANGED <<phase, stage, todo, m_pending_tasks, m_current_weight, idle_workers,
                     thrown, outcome, m_task, m_weight, m_work_ready, pc,
                     m_thread_exceptions, ctrl_c>>
      /\ Idle' = Idle
  BY <1>1, OtherMoves
<1>3. PICK w \in Workers :
        /\ \A u, v : Ev(u, v)' <=> Ev(u, v) /\ ~(u = "CONNECTED" /\ v = w)
        /\ \A v \in Workers : v # w => Same(v)
  BY <1>1, OtherMoves
<1>4. TypeOK'
  BY <1>1, <1>2 DEF TypeOK, Events
<1>5. Onward
  BY <1>1, <1>2 DEF Onward, Running
<1>6. View(w)' /\ (Busy(w)' <=> Busy(w))
  BY <1>1, <1>2, <1>3 DEF Views, View, Busy, Given, Running
<1>7. \A v \in Workers : View(v)' /\ (Busy(v)' <=> Busy(v))
  BY <1>3, <1>5, <1>6, SameView DEF Views
<1>8. Places' /\ InOrder'
  <2>1. UNCHANGED <<stage, todo, completed, m_pending_tasks, m_task>>
    BY <1>1, <1>2
  <2> QED BY <1>1, <1>7, <2>1, PlacesKept
<1>9. Loop' /\ Ending'
  BY <1>1, <1>2 DEF Loop, Ending, NothingLeft
<1>10. Awaited'
  <2>1. Serves' = Serves
    BY <1>1, <1>2 DEF Serves, Available, IsEmpty, Top
  <2>2. Asked => Asked'
    BY <1>1, <1>2, <1>3 DEF Asked
  <2> QED BY <1>1, <1>2, <2>1, <2>2 DEF Awaited
<1> QED
  BY <1>2, <1>4, <1>7, <1>8, <1>9, <1>10 DEF Views

\* A worker whose task ended asks for another one: it is READY, or about to be.
LEMMA HandleEndInv ==
  ASSUME IInv, HandleEnd
  PROVE  IInv'
<1> USE DEF IInv
<1>1. "END" \in EventTypes \ {"READY"} /\ Received({"END"}) /\ HandleOther
      /\ UNCHANGED <<m_workers, m_abort, m_worker_interrupt>>
      /\ completed' = completed \cup {m_task[Head(m_worker_events).worker]}
  BY DEF HandleEnd, EventTypes, mainVars, HandleOther
<1>2. /\ Queues' /\ Heaviest' /\ WeightExact' /\ WorkReady' /\ m_worker_events' \in Seq(Events)
      /\ UNCHANGED <<phase, stage, todo, m_pending_tasks, m_current_weight, idle_workers,
                     thrown, outcome, m_task, m_weight, m_work_ready, pc,
                     m_thread_exceptions, ctrl_c>>
      /\ Idle' = Idle /\ Pending' = Pending /\ phase = "loop"
  BY <1>1, OtherMoves
<1>3. PICK w \in Workers :
        /\ w = Head(m_worker_events).worker /\ Ev("END", w)
        /\ \A u, v : Ev(u, v)' <=> Ev(u, v) /\ ~(u = "END" /\ v = w)
        /\ \A v \in Workers : v # w => Same(v)
  BY <1>1, OtherMoves
<1>4. PICK t : t = m_task[w]
  OBVIOUS
<1>5. /\ pc[w] = "ready" \/ Ev("READY", w)
      /\ pc[w] \in {"ready", "wait"} /\ ~Given(w) /\ w \in m_workers
  <2>1. View(w) /\ pc[w] \in Labels /\ Running
    BY <1>2 DEF Views, TypeOK, Labels, Running
  <2> QED BY <1>3, <2>1 DEF View, Labels
<1>6. Busy(w) /\ ~Busy(w)'
  BY <1>2, <1>3, <1>5 DEF Busy, Given
<1>7. t \in Tasks /\ completed' = completed \cup {t} /\ t \in InHand
  BY <1>1, <1>3, <1>4, <1>6 DEF Places, InHand
<1>8. TypeOK'
  BY <1>1, <1>2, <1>7 DEF TypeOK, Events
<1>9. Onward
  BY <1>1, <1>2 DEF Onward, Running
<1>10. View(w)'
  BY <1>1, <1>2, <1>3, <1>5 DEF Views, View, Given, Running
<1>11. \A v \in Workers : View(v)' /\ (v # w => (Busy(v)' <=> Busy(v)))
  BY <1>3, <1>9, <1>10, SameView DEF Views
<1>12. InHand' = InHand \ {t}
  <2>1. \A v \in Workers : v # w /\ Busy(v) => m_task[v] # t
    BY <1>4, <1>6 DEF Places
  <2> QED BY <1>2, <1>4, <1>6, <1>11, <2>1 DEF InHand
<1>13. Places'
  <2>1. (/\ todo \cap (Pending \cup InHand \cup completed) = {}
         /\ Pending \cap (InHand \cup completed) = {}
         /\ InHand \cap completed = {})'
    BY <1>2, <1>7, <1>12 DEF Places
  <2>2. (~m_worker_interrupt => Tasks = todo \cup Pending \cup InHand \cup completed)'
    BY <1>1, <1>2, <1>7, <1>12 DEF Places
  <2>3. (/\ \A v \in Workers : Busy(v) => m_task[v] \in Tasks
         /\ \A u, v \in Workers : Busy(u) /\ Busy(v) /\ m_task[u] = m_task[v] => u = v)'
    BY <1>2, <1>6, <1>11 DEF Places
  <2> QED BY <2>1, <2>2, <2>3 DEF Places
<1>14. InOrder'
  BY <1>2, <1>7, <1>12 DEF InOrder
<1>15. Loop'
  BY <1>1, <1>2 DEF Loop
<1>16. Awaited'
  BY <1>1, <1>2, <1>3, <1>5 DEF Awaited, Asked
<1>17. Ending'
  BY <1>1, <1>2, <1>7 DEF Ending, NothingLeft, TypeOK
<1> QED
  BY <1>2, <1>8, <1>11, <1>13, <1>14, <1>15, <1>16, <1>17 DEF Views

\* A worker leaves the loop only after the load was interrupted.
LEMMA HandleGoneInv ==
  ASSUME IInv, HandleExit \/ HandleFatalError
  PROVE  IInv'
<1> USE DEF IInv
<1>1. PICK type \in {"EXIT", "FATAL_ERROR"} :
        /\ Received({type}) /\ HandleOther
        /\ m_workers' = m_workers \ {Head(m_worker_events).worker}
        /\ UNCHANGED completed
        /\ type = "EXIT" => UNCHANGED <<m_abort, m_worker_interrupt>>
        /\ type = "FATAL_ERROR" => m_abort' = TRUE /\ m_worker_interrupt' = TRUE
  BY DEF HandleExit, HandleFatalError, HandleOther
<1>0. type \in EventTypes \ {"READY"}
  BY DEF EventTypes
<1>2. /\ Queues' /\ Heaviest' /\ WeightExact' /\ WorkReady' /\ m_worker_events' \in Seq(Events)
      /\ UNCHANGED <<phase, stage, todo, m_pending_tasks, m_current_weight, idle_workers,
                     thrown, outcome, m_task, m_weight, m_work_ready, pc,
                     m_thread_exceptions, ctrl_c>>
      /\ Idle' = Idle /\ phase = "loop" /\ (m_worker_interrupt => m_worker_interrupt')
  BY <1>0, <1>1, OtherMoves
<1>3. PICK w \in Workers :
        /\ w = Head(m_worker_events).worker /\ Ev(type, w)
        /\ \A u, v : Ev(u, v)' <=> Ev(u, v) /\ ~(u = type /\ v = w)
        /\ \A v \in Workers : v # w => Same(v)
  BY <1>0, <1>1, OtherMoves
<1>4. /\ pc[w] = "gone" /\ m_worker_interrupt
      /\ type = "FATAL_ERROR" => w \in m_thread_exceptions
  <2>1. View(w) /\ Running
    BY <1>2 DEF Views, Running
  <2> QED BY <1>3, <2>1 DEF View
<1>5. m_worker_interrupt'
  BY <1>1, <1>2, <1>4
<1>6. m_workers' = m_workers \ {w}
  BY <1>1, <1>3
<1>7. TypeOK'
  BY <1>1, <1>2, <1>6 DEF TypeOK, Events
<1>8. Onward
  BY <1>2, <1>3, <1>5, <1>6 DEF Onward, Running
<1>9. View(w)' /\ (Busy(w)' <=> Busy(w))
  BY <1>2, <1>3, <1>4, <1>5 DEF Views, View, Busy, Given, Running
<1>10. \A v \in Workers : View(v)' /\ (Busy(v)' <=> Busy(v))
  BY <1>3, <1>8, <1>9, SameView DEF Views
<1>11. Places' /\ InOrder'
  <2>1. UNCHANGED <<stage, todo, completed, m_pending_tasks, m_task>>
    BY <1>1, <1>2
  <2> QED BY <1>5, <1>10, <2>1, PlacesKept
<1>12. Loop'
  BY <1>1, <1>2, <1>4, <1>5 DEF Loop
<1>13. Awaited' /\ Ending'
  BY <1>1, <1>2, <1>5 DEF Awaited, Ending, NothingLeft
<1> QED
  BY <1>2, <1>7, <1>10, <1>11, <1>12, <1>13 DEF Views
-----------------------------------------------------------------------------
(***************************************************************************)
(* What the tasks weigh together.                                          *)
(***************************************************************************)

OccupiedBy(f) == {u \in Workers \X (1 .. ThreadsCount) : u[2] <= f[u[1]]}

\* A set that is counted without repetition.
LEMMA CountedBy ==
  ASSUME NEW n \in Nat, NEW T, NEW f \in [1 .. n -> T],
         \A i, j \in 1 .. n : f[i] = f[j] => i = j,
         \A x \in T : \E i \in 1 .. n : x = f[i]
  PROVE  IsFiniteSet(T) /\ Cardinality(T) = n
<1>1. IsFiniteSet(1 .. n) /\ Cardinality(1 .. n) = n
  BY FS_Interval
<1>2. f \in Bijection(1 .. n, T)
  BY DEF Bijection, Injection, Surjection, IsInjective
<1>3. ExistsBijection(1 .. n, T)
  BY <1>2 DEF ExistsBijection
<1> QED
  BY <1>1, <1>3, FS_Bijection

LEMMA SlotsOf ==
  ASSUME NEW w \in Workers, NEW n \in 0 .. ThreadsCount
  PROVE  LET T == {u \in Workers \X (1 .. ThreadsCount) : u[1] = w /\ u[2] <= n}
         IN  IsFiniteSet(T) /\ Cardinality(T) = n
<1> DEFINE T == {u \in Workers \X (1 .. ThreadsCount) : u[1] = w /\ u[2] <= n}
           f == [i \in 1 .. n |-> <<w, i>>]
<1>1. n \in Nat /\ \A i \in 1 .. n : i \in 1 .. ThreadsCount
  BY Size
<1>2. f \in [1 .. n -> T]
  BY <1>1
<1>3. \A i, j \in 1 .. n : f[i] = f[j] => i = j
  OBVIOUS
<1>4. \A x \in T : \E i \in 1 .. n : x = f[i]
  <2> SUFFICES ASSUME NEW x \in T PROVE \E i \in 1 .. n : x = f[i]
    OBVIOUS
  <2>1. x = <<w, x[2]>> /\ x[2] \in 1 .. n
    BY <1>1, Size
  <2> QED BY <2>1
<1> HIDE DEF T, f
<1>5. IsFiniteSet(T) /\ Cardinality(T) = n
  BY <1>1, <1>2, <1>3, <1>4, CountedBy
<1> QED
  BY <1>5 DEF T

LEMMA WeightChanged ==
  ASSUME NEW f \in [Workers -> 0 .. ThreadsCount], NEW w \in Workers,
         NEW n \in 0 .. ThreadsCount
  PROVE  /\ Cardinality(OccupiedBy(f)) \in Nat
         /\ f[w] <= Cardinality(OccupiedBy(f))
         /\ Cardinality(OccupiedBy([f EXCEPT ![w] = n])) =
              (Cardinality(OccupiedBy(f)) - f[w]) + n
<1> DEFINE A == {u \in Workers \X (1 .. ThreadsCount) : u[1] = w /\ u[2] <= f[w]}
           B == {u \in Workers \X (1 .. ThreadsCount) : u[1] = w /\ u[2] <= n}
           R == {u \in Workers \X (1 .. ThreadsCount) : u[1] # w /\ u[2] <= f[u[1]]}
<1>1. PICK k \in 0 .. ThreadsCount : k = f[w]
  OBVIOUS
<1>2. IsFiniteSet(A) /\ Cardinality(A) = k
  BY <1>1, SlotsOf
<1>3. IsFiniteSet(B) /\ Cardinality(B) = n
  BY SlotsOf
<1>4. IsFiniteSet(R)
  <2>1. IsFiniteSet(Workers) /\ IsFiniteSet(1 .. ThreadsCount)
    BY WorkersAssumption, Size, FS_Interval
  <2>2. IsFiniteSet(Workers \X (1 .. ThreadsCount))
    BY <2>1, FS_Product
  <2>3. R \in SUBSET (Workers \X (1 .. ThreadsCount))
    OBVIOUS
  <2> HIDE DEF R
  <2> QED BY <2>2, <2>3, FS_Subset
<1>5. OccupiedBy(f) = A \cup R /\ A \cap R = {}
  BY DEF OccupiedBy
<1>6. OccupiedBy([f EXCEPT ![w] = n]) = B \cup R /\ B \cap R = {}
  BY DEF OccupiedBy
<1> HIDE DEF A, B, R
<1>7. PICK r \in Nat : r = Cardinality(R)
  BY <1>4, FS_CardinalityType
<1>8. Cardinality({}) = 0
  BY FS_EmptySet
<1>9. Cardinality(OccupiedBy(f)) = k + r
  <2>1. Cardinality(A \cup R) = Cardinality(A) + Cardinality(R) - Cardinality(A \cap R)
    BY <1>2, <1>4, FS_Union
  <2>2. Cardinality(A \cap R) = 0
    BY <1>5, <1>8
  <2>3. k \in Nat /\ Cardinality(A \cup R) = k + r
    BY <1>2, <1>7, <2>1, <2>2, Size
  <2> QED BY <1>5, <2>3
<1>10. Cardinality(OccupiedBy([f EXCEPT ![w] = n])) = n + r
  <2>1. Cardinality(B \cup R) = Cardinality(B) + Cardinality(R) - Cardinality(B \cap R)
    BY <1>3, <1>4, FS_Union
  <2>2. Cardinality(B \cap R) = 0
    BY <1>6, <1>8
  <2>3. n \in Nat /\ Cardinality(B \cup R) = n + r
    BY <1>3, <1>7, <2>1, <2>2, Size
  <2> QED BY <1>6, <2>3
<1> QED
  BY <1>1, <1>7, <1>9, <1>10, Size

\* Nothing is weighed once no worker has a task.
LEMMA NothingWeighed ==
  ASSUME NEW f \in [Workers -> 0 .. ThreadsCount], \A w \in Workers : f[w] = 0
  PROVE  Cardinality(OccupiedBy(f)) = 0
<1>1. OccupiedBy(f) = {}
  BY DEF OccupiedBy
<1> QED
  BY <1>1, FS_EmptySet
-----------------------------------------------------------------------------
(***************************************************************************)
(* A worker is READY: it becomes idle, or it is given a task.              *)
(***************************************************************************)

HandleReady == HandleReadyInterrupted \/ HandleReadyMoreWork \/ HandleReadyNoMoreWork

\* The queue of tasks, after schedule_next() was called, and why the worker is not
\* given a task.
LEMMA ReadyCases ==
  ASSUME IInv, HandleReady, NEW w, w = Head(m_worker_events).worker
  PROVE  /\ Received({"READY"})
         /\ \E q \in PriorityQueues, new \in SUBSET Available :
              /\ todo' = todo \ new /\ HeaviestOf(q) /\ PendingOf(q) = Pending \cup new
              /\ \/ /\ GoIdle(w, q)
                    /\ \/ m_worker_interrupt
                       \/ IsEmpty(q) /\ Available = {}
                       \/ ~IsEmpty(q) /\ ~Fits(w, q)
                 \/ /\ Assign(w, q)
                    /\ ~m_worker_interrupt /\ ~IsEmpty(q) /\ Fits(w, q)
<1> USE DEF IInv
<1>1. m_pending_tasks \in PriorityQueues /\ HeaviestOf(m_pending_tasks)
  BY DEF TypeOK, PriorityQueues, Heaviest
<1>2. {} \in SUBSET Available /\ todo = todo \ {} /\ PendingOf(m_pending_tasks) = Pending \cup {}
  BY DEF Pending
<1>3. CASE HandleReadyInterrupted
  <2>1. /\ Received({"READY"}) /\ m_worker_interrupt /\ todo' = todo
        /\ GoIdle(w, m_pending_tasks)
    BY <1>3 DEF HandleReadyInterrupted
  <2> QED BY <1>1, <1>2, <2>1
<1>4. CASE HandleReadyNoMoreWork
  <2>1. /\ Received({"READY"}) /\ ~m_worker_interrupt /\ todo' = todo /\ Available = {}
        /\ IF ~IsEmpty(m_pending_tasks) /\ Fits(w, m_pending_tasks)
           THEN Assign(w, m_pending_tasks) ELSE GoIdle(w, m_pending_tasks)
    BY <1>4 DEF HandleReadyNoMoreWork
  <2>2. \/ /\ GoIdle(w, m_pending_tasks)
           /\ IsEmpty(m_pending_tasks) \/ (~IsEmpty(m_pending_tasks) /\ ~Fits(w, m_pending_tasks))
        \/ /\ Assign(w, m_pending_tasks)
           /\ ~IsEmpty(m_pending_tasks) /\ Fits(w, m_pending_tasks)
    BY <2>1
  <2> QED BY <1>1, <1>2, <2>1, <2>2
<1>5. CASE HandleReadyMoreWork
  <2>1. PICK t \in Available :
          /\ Received({"READY"}) /\ ~m_worker_interrupt /\ todo' = todo \ {t}
          /\ IF Fits(w, Emplace(m_pending_tasks, t))
             THEN Assign(w, Emplace(m_pending_tasks, t))
             ELSE GoIdle(w, Emplace(m_pending_tasks, t))
    BY <1>5 DEF HandleReadyMoreWork
  <2>2. PICK q : q = Emplace(m_pending_tasks, t)
    OBVIOUS
  <2>3. t \in Tasks /\ t \notin PendingOf(m_pending_tasks)
    BY DEF Available, TypeOK, Places, Pending
  <2>4. /\ q \in PriorityQueues /\ HeaviestOf(q) /\ ~IsEmpty(q)
        /\ PendingOf(q) = PendingOf(m_pending_tasks) \cup {t}
    BY <1>1, <2>2, <2>3, EmplaceFacts
  <2>5. {t} \in SUBSET Available /\ PendingOf(q) = Pending \cup {t}
    BY <2>4 DEF Pending
  <2>6. IF Fits(w, q) THEN Assign(w, q) ELSE GoIdle(w, q)
    BY <2>1, <2>2
  <2> QED BY <2>1, <2>4, <2>5, <2>6
<1> QED
  BY <1>3, <1>4, <1>5 DEF HandleReady

\* A worker that is READY waits, and is neither idle nor has it a task.
LEMMA ReadyWorker ==
  ASSUME IInv, Received({"READY"}), NEW w, w = Head(m_worker_events).worker
  PROVE  /\ w \in Workers /\ w \in m_workers /\ phase = "loop" /\ pc[w] = "wait"
         /\ Ev("READY", w) /\ ~Ev("END", w) /\ w \notin Idle /\ ~Given(w) /\ ~Busy(w)
         /\ m_work_ready[w] = <<>>
<1> USE DEF IInv
<1>0. PICK s, h : s = m_worker_events /\ h = Head(s)
  OBVIOUS
<1>1. s \in Seq(Events) /\ IsInjective(s) /\ EndsFirst(s) /\ s # <<>> /\ h.type = "READY"
  BY <1>0 DEF TypeOK, Queues, Events, Received
<1>2. /\ h \in Range(s) /\ h = Event(h.type, h.worker) /\ h.worker \in Workers
      /\ Event("END", h.worker) \notin Range(s)
  BY <1>0, <1>1, TakeFacts
<1>3. w \in Workers /\ Ev("READY", w) /\ ~Ev("END", w)
  BY <1>0, <1>1, <1>2 DEF Ev
<1>4. phase = "loop" /\ Running
  BY DEF Received, InLoop, Running
<1>5. View(w) /\ pc[w] \in Labels
  BY <1>3 DEF Views, TypeOK, Labels
<1>6. pc[w] = "wait" /\ w \notin Idle /\ ~Given(w) /\ w \in m_workers
  BY <1>3, <1>4, <1>5 DEF View, Labels
<1>7. ~Busy(w)
  BY <1>3, <1>6 DEF Busy
<1>8. m_work_ready[w] = <<>>
  BY <1>3, <1>4, <1>6 DEF WorkReady, Given
<1> QED
  BY <1>3, <1>4, <1>6, <1>7, <1>8

\* The weight of the last task of worker w is given back, and n is added.
LEMMA WeightStep ==
  ASSUME IInv, NEW w \in Workers, NEW n \in 0 .. ThreadsCount,
         WeightWithout(w) + n <= ThreadsCount,
         m_weight' = [m_weight EXCEPT ![w] = n],
         m_current_weight' = WeightWithout(w) + n
  PROVE  /\ WeightExact' /\ WeightWithout(w) \in Nat
         /\ m_current_weight' \in 0 .. ThreadsCount
         /\ m_weight' \in [Workers -> 0 .. ThreadsCount]
         /\ m_weight'[w] = n /\ \A v \in Workers : v # w => m_weight'[v] = m_weight[v]
<1> USE DEF IInv
<1>0. PICK f \in [Workers -> 0 .. ThreadsCount] : f = m_weight
  BY DEF TypeOK
<1>1. PICK g : g = [f EXCEPT ![w] = n]
  OBVIOUS
<1>2. PICK c : c = m_current_weight
  OBVIOUS
<1>3. c = Cardinality(OccupiedBy(f)) /\ Occupied' = OccupiedBy(g)
  BY <1>0, <1>1, <1>2 DEF WeightExact, Occupied, OccupiedBy
<1>4. c \in Nat /\ f[w] <= c /\ Cardinality(OccupiedBy(g)) = (c - f[w]) + n
  BY <1>0, <1>1, <1>3, WeightChanged
<1>5. WeightWithout(w) = c - f[w] /\ f[w] \in Nat
  BY <1>0, <1>1, <1>2, Size DEF WeightWithout
<1>6. WeightWithout(w) \in Nat /\ m_current_weight' \in 0 .. ThreadsCount
  BY <1>4, <1>5, Size
<1>7. WeightExact'
  BY <1>3, <1>4, <1>5 DEF WeightExact
<1> QED
  BY <1>0, <1>1, <1>6, <1>7

\* READY is taken from the queue, and the worker becomes idle.
LEMMA GoIdleInv ==
  ASSUME IInv, Received({"READY"}), NEW w, w = Head(m_worker_events).worker,
         NEW q \in PriorityQueues, HeaviestOf(q), NEW new \in SUBSET Available,
         todo' = todo \ new, PendingOf(q) = Pending \cup new, GoIdle(w, q),
         \/ m_worker_interrupt
         \/ IsEmpty(q) /\ Available = {}
         \/ ~IsEmpty(q) /\ ~Fits(w, q)
  PROVE  IInv'
<1> USE DEF IInv
<1>1. /\ w \in Workers /\ w \in m_workers /\ phase = "loop" /\ pc[w] = "wait"
      /\ Ev("READY", w) /\ ~Ev("END", w) /\ w \notin Idle /\ ~Given(w) /\ ~Busy(w)
  BY ReadyWorker
<1>2. /\ m_pending_tasks' = q /\ idle_workers' = Append(idle_workers, w)
      /\ m_current_weight' = WeightWithout(w) /\ m_weight' = [m_weight EXCEPT ![w] = 0]
      /\ m_worker_events' = Tail(m_worker_events)
      /\ UNCHANGED <<phase, stage, completed, m_workers, m_abort, thrown, outcome, m_task,
                     m_work_ready, pc, m_thread_exceptions, m_worker_interrupt, ctrl_c>>
  BY DEF GoIdle, Released, workerVars
<1>3. /\ m_worker_events' \in Seq(Events)
      /\ IsInjective(m_worker_events)' /\ EndsFirst(m_worker_events)'
      /\ \A u, v : Ev(u, v)' <=> Ev(u, v) /\ ~(u = "READY" /\ v = w)
  <2>1. {"READY"} \in SUBSET EventTypes
    BY DEF EventTypes
  <2> QED BY <1>2, <2>1, EventTaken
<1>4. idle_workers' \in Seq(Workers) /\ IsInjective(idle_workers)' /\ Idle' = Idle \cup {w}
  <2>1. PICK s, r : s = idle_workers /\ r = Append(s, w)
    OBVIOUS
  <2>2. s \in Seq(Workers) /\ IsInjective(s) /\ w \notin Range(s)
    BY <1>1, <2>1 DEF TypeOK, Queues, Idle
  <2>3. r \in Seq(Workers) /\ IsInjective(r) /\ Range(r) = Range(s) \cup {w}
    BY <1>1, <2>1, <2>2, Appended
  <2> QED BY <1>2, <2>1, <2>3 DEF Idle
<1>5. /\ WeightExact' /\ m_current_weight' \in 0 .. ThreadsCount
      /\ m_weight' \in [Workers -> 0 .. ThreadsCount]
      /\ m_weight'[w] = 0 /\ \A v \in Workers : v # w => m_weight'[v] = m_weight[v]
  <2>1. m_current_weight \in 0 .. ThreadsCount /\ m_weight[w] \in 0 .. ThreadsCount
    BY <1>1 DEF TypeOK
  <2>2. WeightWithout(w) = WeightWithout(w) + 0 /\ WeightWithout(w) + 0 <= ThreadsCount
    BY <2>1, Size DEF WeightWithout
  <2>3. 0 \in 0 .. ThreadsCount
    BY Size
  <2> QED BY <1>1, <1>2, <2>2, <2>3, WeightStep
<1>6. TypeOK'
  BY <1>2, <1>3, <1>4, <1>5 DEF TypeOK, Events, PriorityQueues
<1>7. WorkReady' /\ Queues' /\ Loop' /\ Ending'
  BY <1>1, <1>2, <1>3, <1>4 DEF WorkReady, Queues, Loop, Ending, NothingLeft
<1>8. Heaviest'
  BY <1>2 DEF Heaviest, HeaviestOf, IsEmpty
<1>9. \A v \in Workers : v # w => Same(v)
  BY <1>2, <1>3, <1>4, <1>5 DEF Same, Given
<1>10. Onward
  BY <1>2 DEF Onward, Running
<1>11. View(w)' /\ ~Busy(w)'
  <2>1. pc'[w] = "wait" /\ ~Ev("READY", w)' /\ ~Ev("END", w)' /\ (w \in Idle)' /\ ~Given(w)'
        /\ w \in m_workers' /\ ~Ev("EXIT", w)' /\ ~Ev("FATAL_ERROR", w)'
    BY <1>1, <1>2, <1>3, <1>4 DEF Given, Views, View
  <2> QED BY <1>5, <2>1 DEF View, Busy
<1>12. \A v \in Workers : View(v)' /\ (Busy(v)' <=> Busy(v))
  BY <1>1, <1>9, <1>10, <1>11, SameView DEF Views
<1>13. Pending' = Pending \cup new /\ InHand' = InHand
  BY <1>2, <1>12 DEF Pending, PendingOf, InHand
<1>14. new \subseteq todo /\ \A t \in new : Stage[t] = stage /\ Requires[t] \subseteq completed
  BY DEF Available
<1>15. Places'
  <2>1. (/\ todo \cap (Pending \cup InHand \cup completed) = {}
         /\ Pending \cap (InHand \cup completed) = {}
         /\ InHand \cap completed = {})'
    BY <1>2, <1>13, <1>14 DEF Places
  <2>2. (~m_worker_interrupt => Tasks = todo \cup Pending \cup InHand \cup completed)'
    BY <1>2, <1>13, <1>14 DEF Places
  <2>3. (/\ \A v \in Workers : Busy(v) => m_task[v] \in Tasks
         /\ \A u, v \in Workers : Busy(u) /\ Busy(v) /\ m_task[u] = m_task[v] => u = v)'
    BY <1>2, <1>12 DEF Places
  <2> QED BY <2>1, <2>2, <2>3 DEF Places
<1>16. InOrder'
  BY <1>2, <1>13, <1>14 DEF InOrder
<1>17. Awaited'
  <2>1. CASE m_worker_interrupt
    BY <1>2, <2>1 DEF Awaited
  <2>2. CASE IsEmpty(q) /\ Available = {}
    <3>1. IsEmpty(m_pending_tasks)' /\ Available' = {}
      BY <1>2, <2>2 DEF IsEmpty, Available
    <3> QED BY <3>1 DEF Awaited, Serves
  <2>3. CASE ~IsEmpty(q) /\ ~Fits(w, q)
    <3>1. ~IsEmpty(m_pending_tasks)' /\ Top(m_pending_tasks)' = Top(q)
      BY <1>2, <2>3 DEF IsEmpty, Top
    <3>2. CappedWeight(Top(m_pending_tasks))' = CappedWeight(Top(q))
      BY <3>1 DEF CappedWeight
    <3>3. ~Serves'
      BY <1>2, <2>3, <3>1, <3>2 DEF Serves, Fits
    <3> QED BY <3>3 DEF Awaited
  <2> QED BY <2>1, <2>2, <2>3
<1> QED
  BY <1>5, <1>6, <1>7, <1>8, <1>12, <1>15, <1>16, <1>17 DEF Views

LEMMA HandleReadyThrowsInv ==
  ASSUME IInv, HandleReadyThrows
  PROVE  IInv'
<1> USE DEF IInv
<1>0. PICK w : w = Head(m_worker_events).worker
  OBVIOUS
<1>1. /\ Received({"READY"}) /\ thrown' = TRUE /\ phase' = "stop"
      /\ m_current_weight' = WeightWithout(w) /\ m_weight' = [m_weight EXCEPT ![w] = 0]
      /\ m_worker_events' = Tail(m_worker_events)
      /\ UNCHANGED <<stage, todo, completed, m_pending_tasks, m_workers, idle_workers, m_abort,
                     outcome, m_task, m_work_ready, pc, m_thread_exceptions,
                     m_worker_interrupt, ctrl_c>>
  BY <1>0 DEF HandleReadyThrows, Released, workerVars
<1>2. /\ w \in Workers /\ w \in m_workers /\ phase = "loop" /\ pc[w] = "wait"
      /\ Ev("READY", w) /\ ~Ev("END", w) /\ w \notin Idle /\ ~Given(w) /\ ~Busy(w)
  BY <1>0, <1>1, ReadyWorker
<1>3. /\ m_worker_events' \in Seq(Events)
      /\ IsInjective(m_worker_events)' /\ EndsFirst(m_worker_events)'
      /\ \A u, v : Ev(u, v)' <=> Ev(u, v) /\ ~(u = "READY" /\ v = w)
  <2>1. {"READY"} \in SUBSET EventTypes
    BY DEF EventTypes
  <2> QED BY <1>0, <1>1, <2>1, EventTaken
<1>5. /\ WeightExact' /\ m_current_weight' \in 0 .. ThreadsCount
      /\ m_weight' \in [Workers -> 0 .. ThreadsCount]
      /\ m_weight'[w] = 0 /\ \A v \in Workers : v # w => m_weight'[v] = m_weight[v]
  <2>1. m_current_weight \in 0 .. ThreadsCount /\ m_weight[w] \in 0 .. ThreadsCount
    BY <1>2 DEF TypeOK
  <2>2. WeightWithout(w) = WeightWithout(w) + 0 /\ WeightWithout(w) + 0 <= ThreadsCount
    BY <2>1, Size DEF WeightWithout
  <2>3. 0 \in 0 .. ThreadsCount
    BY Size
  <2> QED BY <1>1, <1>2, <2>2, <2>3, WeightStep
<1>6. TypeOK'
  BY <1>1, <1>3, <1>5 DEF TypeOK, Events
<1>7. WorkReady' /\ Queues' /\ Loop' /\ Awaited' /\ Ending'
  BY <1>1, <1>2, <1>3 DEF WorkReady, Queues, Loop, Awaited, Ending, NothingLeft
<1>8. Heaviest' /\ Idle' = Idle
  BY <1>1 DEF Heaviest, HeaviestOf, IsEmpty, Idle
<1>9. \A v \in Workers : v # w => Same(v)
  BY <1>1, <1>3, <1>5, <1>8 DEF Same, Given
<1>10. Onward
  BY <1>1 DEF Onward, Running
<1>11. View(w)' /\ ~Busy(w)'
  <2>1. pc'[w] = "wait" /\ ~Ev("READY", w)' /\ ~Ev("END", w)' /\ ~(w \in Idle)' /\ ~Given(w)'
        /\ w \in m_workers' /\ ~Ev("EXIT", w)' /\ ~Ev("FATAL_ERROR", w)' /\ ~Running'
    BY <1>1, <1>2, <1>3, <1>8 DEF Given, Views, View, Running
  <2> QED BY <1>5, <2>1 DEF View, Busy
<1>12. \A v \in Workers : View(v)' /\ (Busy(v)' <=> Busy(v))
  BY <1>2, <1>9, <1>10, <1>11, SameView DEF Views
<1>13. Places' /\ InOrder'
  <2>1. UNCHANGED <<stage, todo, completed, m_pending_tasks, m_task>>
    BY <1>1
  <2> QED BY <1>1, <1>12, <2>1, PlacesKept
<1> QED
  BY <1>5, <1>6, <1>7, <1>8, <1>12, <1>13 DEF Views

\* An idle worker waits, and its READY is not in the queue.
LEMMA IdleWorker ==
  ASSUME IInv, phase = "loop", NEW v \in Idle
  PROVE  /\ v \in Workers /\ v \in m_workers /\ pc[v] = "wait" /\ m_weight[v] = 0
         /\ ~Ev("READY", v) /\ ~Ev("END", v) /\ ~Given(v) /\ ~Busy(v)
<1> USE DEF IInv
<1>1. v \in Workers
  <2>1. PICK s \in Seq(Workers) : s = idle_workers
    BY DEF TypeOK
  <2> QED BY <2>1, Elements DEF Idle
<1>2. View(v) /\ pc[v] \in Labels /\ Running
  BY <1>1 DEF Views, TypeOK, Labels, Running
<1>3. pc[v] = "wait"
  BY <1>2 DEF View, Labels
<1>4. ~Ev("READY", v) /\ ~Given(v) /\ v \in m_workers /\ m_weight[v] = 0
  BY <1>2, <1>3 DEF View
<1>5. ~Ev("END", v)
  BY <1>2, <1>3, <1>4 DEF View
<1> QED
  BY <1>1, <1>3, <1>4, <1>5 DEF Busy

\* n idle workers are put back into the queue.
LEMMA PutBack ==
  ASSUME IInv, phase = "loop", NEW s \in Seq(Events), IsInjective(s), EndsFirst(s),
         Range(s) \subseteq Range(m_worker_events), NEW n \in 0 .. Len(idle_workers),
         m_worker_events' = s \o [i \in 1 .. n |-> Event("READY", idle_workers[i])],
         idle_workers' = SubSeq(idle_workers, n + 1, Len(idle_workers))
  PROVE  /\ m_worker_events' \in Seq(Events)
         /\ IsInjective(m_worker_events)' /\ EndsFirst(m_worker_events)'
         /\ idle_workers' \in Seq(Workers) /\ IsInjective(idle_workers)'
         /\ \E F \in SUBSET Idle :
              /\ F = {} <=> n = 0
              /\ n = Len(idle_workers) => F = Idle
              /\ Idle' = Idle \ F
              /\ \A u, v : Ev(u, v)' <=> Event(u, v) \in Range(s) \/ (u = "READY" /\ v \in F)
<1> USE DEF IInv
<1>1. PICK d, e, r : d = idle_workers /\ e = Batch(s, d, n) /\ r = Rest(d, n)
  OBVIOUS
<1>2. d \in Seq(Workers) /\ IsInjective(d) /\ n \in 0 .. Len(d)
  BY <1>1 DEF TypeOK, Queues
<1>3. \A v \in Range(d) : Event("READY", v) \notin Range(s)
  BY <1>1, IdleWorker DEF Idle, Ev
<1>4. /\ e \in Seq(Events) /\ IsInjective(e) /\ EndsFirst(e)
      /\ r \in Seq(Workers) /\ IsInjective(r)
      /\ \E F \in SUBSET Range(d) :
              /\ F = {} <=> n = 0
              /\ n = Len(d) => F = Range(d)
              /\ Range(r) = Range(d) \ F
              /\ \A x : x \in Range(e) <=> x \in Range(s) \/ \E v \in F : x = Event("READY", v)
  <2>1. /\ Batch(s, d, n) \in Seq(Events)
        /\ IsInjective(Batch(s, d, n)) /\ EndsFirst(Batch(s, d, n))
        /\ Rest(d, n) \in Seq(Workers) /\ IsInjective(Rest(d, n))
    BY ONLY s \in Seq(Events), IsInjective(s), EndsFirst(s), <1>2, <1>3, BatchFacts
  <2>2. \E F \in SUBSET Range(d) :
              /\ F = {} <=> n = 0
              /\ n = Len(d) => F = Range(d)
              /\ Range(Rest(d, n)) = Range(d) \ F
              /\ \A x : x \in Range(Batch(s, d, n)) <=>
                   x \in Range(s) \/ \E v \in F : x = Event("READY", v)
    BY ONLY s \in Seq(Events), IsInjective(s), EndsFirst(s), <1>2, <1>3, BatchFacts
  <2> QED BY <1>1, <2>1, <2>2
<1>5. m_worker_events' = e /\ idle_workers' = r
  BY <1>1 DEF Batch, Rest
<1>6. PICK F \in SUBSET Range(d) :
        /\ F = {} <=> n = 0
        /\ n = Len(d) => F = Range(d)
        /\ Range(r) = Range(d) \ F
        /\ \A x : x \in Range(e) <=> x \in Range(s) \/ \E v \in F : x = Event("READY", v)
  BY <1>4
<1>7. ASSUME NEW u, NEW v
      PROVE  Ev(u, v)' <=> Event(u, v) \in Range(s) \/ (u = "READY" /\ v \in F)
  <2>1. (\E x \in F : Event(u, v) = Event("READY", x)) <=> u = "READY" /\ v \in F
    BY EventsDiffer
  <2> QED BY <1>5, <1>6, <2>1 DEF Ev
<1>8. F \in SUBSET Idle /\ Idle' = Idle \ F /\ (n = Len(idle_workers) => F = Idle)
  BY <1>1, <1>5, <1>6 DEF Idle
<1> QED
  BY <1>4, <1>5, <1>6, <1>7, <1>8

\* The worker is given the heaviest task, and idle workers are called back if
\* threads are left.
LEMMA AssignInv ==
  ASSUME IInv, Received({"READY"}), NEW w, w = Head(m_worker_events).worker,
         NEW q \in PriorityQueues, HeaviestOf(q), NEW new \in SUBSET Available,
         todo' = todo \ new, PendingOf(q) = Pending \cup new, Assign(w, q),
         ~m_worker_interrupt, ~IsEmpty(q), Fits(w, q)
  PROVE  IInv'
<1> USE DEF IInv
<1>1. /\ w \in Workers /\ w \in m_workers /\ phase = "loop" /\ pc[w] = "wait"
      /\ Ev("READY", w) /\ ~Ev("END", w) /\ w \notin Idle /\ ~Given(w) /\ ~Busy(w)
      /\ m_work_ready[w] = <<>>
  BY ReadyWorker
<1>2. PICK t, c : t = Top(q) /\ c = CappedWeight(t)
  OBVIOUS
<1>3. /\ t \in PendingOf(q) /\ PopTop(q) \in PriorityQueues /\ HeaviestOf(PopTop(q))
      /\ PendingOf(PopTop(q)) = PendingOf(q) \ {t}
  BY <1>2, PopTopFacts
<1>4. t \in Tasks /\ c \in 1 .. ThreadsCount
  BY <1>2, <1>3, Capped DEF PendingOf
<1>5. /\ m_pending_tasks' = PopTop(q) /\ m_task' = [m_task EXCEPT ![w] = t]
      /\ m_weight' = [m_weight EXCEPT ![w] = c]
      /\ m_work_ready' = [m_work_ready EXCEPT ![w] = Append(@, TRUE)]
      /\ m_current_weight' = WeightWithout(w) + c
      /\ WeightWithout(w) + c <= ThreadsCount
      /\ CallBack(ThreadsCount - (WeightWithout(w) + c))
      /\ UNCHANGED <<phase, stage, completed, m_workers, m_abort, thrown, outcome, pc,
                     m_thread_exceptions, m_worker_interrupt, ctrl_c>>
  BY <1>2 DEF Assign, Fits, workerVars
<1>6. /\ WeightExact' /\ m_current_weight' \in 0 .. ThreadsCount /\ WeightWithout(w) \in Nat
      /\ m_weight' \in [Workers -> 0 .. ThreadsCount]
      /\ \A v \in Workers : v # w => m_weight'[v] = m_weight[v]
  <2>1. c \in 0 .. ThreadsCount
    BY <1>4, Size
  <2> QED BY <1>1, <1>5, <2>1, WeightStep
<1>7. PICK a \in Nat : a = ThreadsCount - (WeightWithout(w) + c)
  BY <1>4, <1>5, <1>6, Size
<1>8. PICK n : n = IF a < Len(idle_workers) THEN a ELSE Len(idle_workers)
  OBVIOUS
<1>9. /\ m_worker_events' = Tail(m_worker_events)
                              \o [i \in 1 .. n |-> Event("READY", idle_workers[i])]
      /\ idle_workers' = SubSeq(idle_workers, n + 1, Len(idle_workers))
      /\ Len(idle_workers) \in Nat /\ n \in 0 .. Len(idle_workers)
      /\ n = 0 => a = 0 \/ Len(idle_workers) = 0
  <2>1. Len(idle_workers) \in Nat
    BY DEF TypeOK
  <2> QED BY <1>5, <1>7, <1>8, <2>1 DEF CallBack
<1>10. PICK s : s = Tail(m_worker_events)
  OBVIOUS
<1>11. /\ s \in Seq(Events) /\ IsInjective(s) /\ EndsFirst(s)
       /\ Range(s) \subseteq Range(m_worker_events)
       /\ \A u, v : Event(u, v) \in Range(s) <=> Ev(u, v) /\ ~(u = "READY" /\ v = w)
  <2>1. PICK z, h : z = m_worker_events /\ h = Head(z)
    OBVIOUS
  <2>2. z \in Seq(Events) /\ IsInjective(z) /\ EndsFirst(z) /\ z # <<>> /\ h.type = "READY"
    BY <2>1 DEF TypeOK, Queues, Events, Received
  <2>3. /\ h = Event("READY", w) /\ s \in Seq(Events) /\ IsInjective(s) /\ EndsFirst(s)
        /\ Range(s) = Range(z) \ {h}
    BY <1>10, <2>1, <2>2, TakeFacts
  <2>4. \A u, v : Event(u, v) = h <=> u = "READY" /\ v = w
    BY <2>3, EventsDiffer
  <2> QED BY <2>1, <2>3, <2>4 DEF Ev
<1>12. /\ m_worker_events' \in Seq(Events)
       /\ IsInjective(m_worker_events)' /\ EndsFirst(m_worker_events)'
       /\ idle_workers' \in Seq(Workers) /\ IsInjective(idle_workers)'
       /\ \E F \in SUBSET Idle :
            /\ F = {} <=> n = 0
            /\ n = Len(idle_workers) => F = Idle
            /\ Idle' = Idle \ F
            /\ \A u, v : Ev(u, v)' <=> Event(u, v) \in Range(s) \/ (u = "READY" /\ v \in F)
  BY <1>1, <1>9, <1>10, <1>11, PutBack
<1>13. PICK F \in SUBSET Idle :
         /\ F = {} <=> n = 0
         /\ n = Len(idle_workers) => F = Idle
         /\ Idle' = Idle \ F
         /\ \A u, v : Ev(u, v)' <=> \/ Ev(u, v) /\ ~(u = "READY" /\ v = w)
                                    \/ u = "READY" /\ v \in F
  BY <1>11, <1>12
<1>14. /\ m_work_ready' \in [Workers -> Seq(BOOLEAN)] /\ m_work_ready'[w] = <<TRUE>>
       /\ \A v \in Workers : v # w => m_work_ready'[v] = m_work_ready[v]
  <2>1. Append(<<>>, TRUE) = <<TRUE>> /\ <<TRUE>> \in Seq(BOOLEAN)
    BY Items DEF WorkItems
  <2>2. m_work_ready' = [m_work_ready EXCEPT ![w] = <<TRUE>>]
    BY <1>1, <1>5, <2>1
  <2> QED BY <1>1, <2>1, <2>2 DEF TypeOK
<1>15. WorkReady'
  BY <1>5, <1>14 DEF WorkReady, WorkItems
<1>16. Given(w)' /\ \A v \in Workers : v # w => (Given(v)' <=> Given(v))
  BY <1>14 DEF Given
<1>17. m_task' \in [Workers -> Tasks \cup {None}] /\ m_task'[w] = t
       /\ \A v \in Workers : v # w => m_task'[v] = m_task[v]
  BY <1>1, <1>4, <1>5 DEF TypeOK
<1>18. TypeOK'
  BY <1>3, <1>5, <1>6, <1>12, <1>14, <1>17 DEF TypeOK, Events, PriorityQueues
<1>19. Queues' /\ Ending'
  BY <1>1, <1>5, <1>12 DEF Queues, Ending, NothingLeft
<1>20. Loop'
  BY <1>1, <1>5 DEF Loop
<1>21. Heaviest'
  BY <1>3, <1>5 DEF Heaviest, HeaviestOf, IsEmpty
<1>22. Onward
  BY <1>5 DEF Onward, Running
<1>23. \A v \in Workers : v # w /\ v \notin F => Same(v)
  BY <1>5, <1>6, <1>13, <1>16, <1>17 DEF Same
<1>24. View(w)' /\ Busy(w)'
  <2>1. pc'[w] = "wait" /\ ~Ev("READY", w)' /\ ~Ev("END", w)' /\ ~(w \in Idle)' /\ Given(w)'
        /\ w \in m_workers' /\ ~Ev("EXIT", w)' /\ ~Ev("FATAL_ERROR", w)'
    BY <1>1, <1>5, <1>13, <1>16 DEF Views, View
  <2> QED BY <2>1 DEF View, Busy
<1>25. ASSUME NEW v \in F PROVE View(v)' /\ ~Busy(v)' /\ ~Busy(v) /\ v \in m_workers
  <2>1. /\ v \in Workers /\ v \in m_workers /\ pc[v] = "wait" /\ m_weight[v] = 0
        /\ ~Ev("READY", v) /\ ~Ev("END", v) /\ ~Given(v) /\ ~Busy(v) /\ v # w
    BY <1>1, <1>25, IdleWorker
  <2>2. pc'[v] = "wait" /\ Ev("READY", v)' /\ ~Ev("END", v)' /\ ~(v \in Idle)' /\ ~Given(v)'
        /\ v \in m_workers' /\ ~Ev("EXIT", v)' /\ ~Ev("FATAL_ERROR", v)'
    BY <1>5, <1>13, <1>16, <2>1 DEF Views, View
  <2> QED BY <2>1, <2>2 DEF View, Busy
<1>26. \A v \in Workers : View(v)' /\ (v # w => (Busy(v)' <=> Busy(v)))
  BY <1>22, <1>23, <1>24, <1>25, SameView DEF Views
<1>27. Pending' = (Pending \cup new) \ {t} /\ InHand' = InHand \cup {t}
  <2>1. Pending' = PendingOf(PopTop(q))
    BY <1>5 DEF Pending, PendingOf
  <2>2. InHand' = InHand \cup {t}
    BY <1>1, <1>17, <1>24, <1>26 DEF InHand
  <2> QED BY <1>3, <2>1, <2>2
<1>28. new \subseteq todo /\ \A x \in new : Stage[x] = stage /\ Requires[x] \subseteq completed
  BY DEF Available
<1>29. t \in Pending \cup new /\ t \notin InHand
  BY <1>3, <1>28 DEF Places
<1>30. Places'
  <2>1. (/\ todo \cap (Pending \cup InHand \cup completed) = {}
         /\ Pending \cap (InHand \cup completed) = {}
         /\ InHand \cap completed = {})'
    BY <1>5, <1>27, <1>28, <1>29 DEF Places
  <2>2. (~m_worker_interrupt => Tasks = todo \cup Pending \cup InHand \cup completed)'
    BY <1>5, <1>27, <1>28, <1>29 DEF Places
  <2>3. (\A v \in Workers : Busy(v) => m_task[v] \in Tasks)'
    BY <1>4, <1>17, <1>26 DEF Places
  <2>4. (\A u, v \in Workers : Busy(u) /\ Busy(v) /\ m_task[u] = m_task[v] => u = v)'
    <3>1. \A v \in Workers : Busy(v) => m_task[v] # t
      BY <1>29 DEF InHand
    <3> QED BY <1>17, <1>26, <3>1 DEF Places
  <2> QED BY <2>1, <2>2, <2>3, <2>4 DEF Places
<1>31. InOrder'
  BY <1>5, <1>27, <1>28, <1>29 DEF InOrder
<1>32. Awaited'
  <2>1. CASE n # 0
    <3>1. PICK v : v \in F
      BY <1>13, <2>1
    <3>2. v \in m_workers' /\ Ev("READY", v)'
      BY <1>5, <1>13, <1>25, <3>1
    <3> QED BY <3>2 DEF Awaited, Asked
  <2>2. CASE n = 0 /\ Len(idle_workers) = 0
    <3>1. F = {} /\ F = Idle
      BY <1>13, <2>2
    <3> QED BY <1>13, <3>1 DEF Awaited
  <2>3. CASE n = 0 /\ a = 0
    <3>1. m_current_weight' = ThreadsCount
      BY <1>4, <1>5, <1>6, <1>7, <2>3, Size
    <3>2. ~IsEmpty(m_pending_tasks)' => CappedWeight(Top(m_pending_tasks))' \in 1 .. ThreadsCount
      <4> SUFFICES ASSUME ~IsEmpty(PopTop(q))
                   PROVE  CappedWeight(Top(PopTop(q))) \in 1 .. ThreadsCount
        BY <1>5 DEF IsEmpty, Top, CappedWeight
      <4>1. Top(PopTop(q)) \in PendingOf(PopTop(q))
        BY <1>3, PopTopFacts
      <4> QED BY <4>1, Capped DEF PendingOf
    <3>3. ~Serves'
      BY <3>1, <3>2, Size DEF Serves
    <3> QED BY <3>3 DEF Awaited
  <2> QED BY <1>9, <2>1, <2>2, <2>3
<1> QED
  BY <1>6, <1>15, <1>18, <1>19, <1>20, <1>21, <1>26, <1>30, <1>31, <1>32 DEF Views

LEMMA HandleReadyInv ==
  ASSUME IInv, HandleReady
  PROVE  IInv'
<1>1. PICK w : w = Head(m_worker_events).worker
  OBVIOUS
<1>2. Received({"READY"})
  BY <1>1, ReadyCases
<1>3. PICK q \in PriorityQueues, new \in SUBSET Available :
        /\ todo' = todo \ new /\ HeaviestOf(q) /\ PendingOf(q) = Pending \cup new
        /\ \/ /\ GoIdle(w, q)
              /\ \/ m_worker_interrupt
                 \/ IsEmpty(q) /\ Available = {}
                 \/ ~IsEmpty(q) /\ ~Fits(w, q)
           \/ /\ Assign(w, q)
              /\ ~m_worker_interrupt /\ ~IsEmpty(q) /\ Fits(w, q)
  BY <1>1, ReadyCases
<1>4. CASE GoIdle(w, q) /\ (\/ m_worker_interrupt
                            \/ IsEmpty(q) /\ Available = {}
                            \/ ~IsEmpty(q) /\ ~Fits(w, q))
  BY <1>1, <1>2, <1>3, <1>4, GoIdleInv
<1>5. CASE Assign(w, q) /\ ~m_worker_interrupt /\ ~IsEmpty(q) /\ Fits(w, q)
  BY <1>1, <1>2, <1>3, <1>5, AssignInv
<1> QED
  BY <1>3, <1>4, <1>5
-----------------------------------------------------------------------------
(***************************************************************************)
(* All the workers are idle.                                               *)
(***************************************************************************)

\* No worker left the loop, so that all of them are idle: none of them executes a
\* task, no task is pending, as the heaviest one would be given to the worker that
\* became idle last, and none is available.
LEMMA AllCompleted ==
  ASSUME IInv, phase = "loop", ~InLoop, ~m_worker_interrupt
  PROVE  \A t \in Tasks : Stage[t] <= stage => t \in completed
<1> USE DEF IInv
<1>1. m_workers = Workers
  <2>1. \A w \in Workers : View(w) /\ Running
    BY DEF Views, Running
  <2>2. \A w \in Workers : pc[w] # "gone"
    BY <2>1 DEF View
  <2> QED BY <2>1, <2>2 DEF View, TypeOK
<1>2. Idle = Workers
  <2>1. PICK d \in Seq(Workers) : d = idle_workers
    BY DEF TypeOK
  <2>2. Len(d) \in Nat /\ IsInjective(d) /\ Range(d) \subseteq Workers
    BY <2>1, Elements DEF Queues
  <2>3. /\ d \in [1 .. Len(d) -> Range(d)]
        /\ \A i, j \in 1 .. Len(d) : d[i] = d[j] => i = j
        /\ \A x \in Range(d) : \E i \in 1 .. Len(d) : x = d[i]
    BY <2>2, Elements DEF Range
  <2>4. Cardinality(Range(d)) = Len(d)
    BY <2>2, <2>3, CountedBy
  <2>5. ~(Len(d) < Cardinality(Workers))
    BY <1>1, <2>1 DEF InLoop
  <2>6. /\ IsFiniteSet(Workers) /\ Cardinality(Workers) \in Nat
        /\ Range(d) \in SUBSET Workers
    BY <2>2, WorkersAssumption, FS_CardinalityType
  <2>7. /\ Cardinality(Range(d)) <= Cardinality(Workers)
        /\ Cardinality(Workers) = Cardinality(Range(d)) => Workers = Range(d)
    BY <2>6, FS_Subset
  <2>8. Cardinality(Workers) = Cardinality(Range(d))
    BY <2>2, <2>4, <2>5, <2>6, <2>7
  <2> QED BY <2>1, <2>7, <2>8 DEF Idle
<1>3. \A v \in Workers : pc[v] = "wait" /\ m_weight[v] = 0 /\ ~Ev("READY", v) /\ ~Busy(v)
  BY <1>2, IdleWorker
<1>4. InHand = {}
  BY <1>3 DEF InHand
<1>5. m_current_weight = 0
  <2>1. PICK f \in [Workers -> 0 .. ThreadsCount] : f = m_weight
    BY DEF TypeOK
  <2>2. Cardinality(OccupiedBy(f)) = 0
    BY <1>3, <2>1, NothingWeighed
  <2> QED BY <2>1, <2>2 DEF WeightExact, Occupied, OccupiedBy
<1>6. ~Asked /\ Idle # {}
  BY <1>1, <1>2, <1>3, WorkersAssumption DEF Asked
<1>7. ~Serves
  BY <1>6 DEF Awaited
<1>8. m_pending_tasks \in PriorityQueues /\ HeaviestOf(m_pending_tasks)
  BY DEF TypeOK, PriorityQueues, Heaviest
<1>9. IsEmpty(m_pending_tasks)
  <2> SUFFICES ASSUME ~IsEmpty(m_pending_tasks) PROVE FALSE
    OBVIOUS
  <2>1. Top(m_pending_tasks) \in Tasks
    BY <1>8, PopTopFacts DEF PendingOf
  <2>2. CappedWeight(Top(m_pending_tasks)) \in 1 .. ThreadsCount
    BY <2>1, Capped
  <2> QED BY <1>5, <1>7, <2>2, Size DEF Serves
<1>10. Pending = {}
  BY <1>8, <1>9, PendingEmpty DEF Pending
<1>11. Available = {}
  BY <1>5, <1>7, <1>9, Size DEF Serves
<1>12. Tasks = todo \cup completed
  BY <1>4, <1>10 DEF Places
<1> DEFINE S == {t \in Tasks : Stage[t] <= stage /\ t \notin completed}
<1>13. S = {}
  <2> SUFFICES ASSUME S # {} PROVE FALSE
    OBVIOUS
  <2>1. PICK t \in S : Requires[t] \cap S = {}
    BY WorkersAssumption
  <2>2. stage \in Nat /\ \A x \in Tasks : Stage[x] \in Nat
    BY WorkersAssumption DEF TypeOK
  <2>3. Stage[t] = stage
    BY <2>2 DEF InOrder
  <2>4. Requires[t] \subseteq completed
    <3> SUFFICES ASSUME NEW r \in Requires[t] PROVE r \in completed
      OBVIOUS
    <3>1. r \in Tasks /\ Stage[r] <= Stage[t]
      BY WorkersAssumption
    <3> QED BY <2>1, <2>3, <3>1
  <2>5. t \in Available
    BY <1>12, <2>3, <2>4 DEF Available
  <2> QED BY <1>11, <2>5
<1> QED
  BY <1>13

LEMMA AllIdleInv ==
  ASSUME IInv, AllIdle
  PROVE  IInv'
<1> USE DEF IInv
<1>1. /\ phase = "loop" /\ ~InLoop /\ phase' = "returned" /\ idle_workers' = <<>>
      /\ m_worker_events' = m_worker_events
           \o [i \in 1 .. Len(idle_workers) |-> Event("READY", idle_workers[i])]
      /\ UNCHANGED <<stage, todo, completed, m_pending_tasks, m_current_weight, m_workers,
                     m_abort, thrown, outcome, m_task, m_weight, m_work_ready, pc,
                     m_thread_exceptions, m_worker_interrupt, ctrl_c>>
  BY DEF AllIdle, taskVars, workerVars
<1>2. /\ m_worker_events' \in Seq(Events)
      /\ IsInjective(m_worker_events)' /\ EndsFirst(m_worker_events)'
      /\ idle_workers' \in Seq(Workers) /\ IsInjective(idle_workers)'
      /\ Idle' = {}
      /\ \A u, v : Ev(u, v)' <=> Ev(u, v) \/ (u = "READY" /\ v \in Idle)
  <2>1. PICK s, n : s = m_worker_events /\ n = Len(idle_workers)
    OBVIOUS
  <2>2. /\ s \in Seq(Events) /\ IsInjective(s) /\ EndsFirst(s) /\ n \in Nat
        /\ Range(s) \subseteq Range(m_worker_events) /\ idle_workers \in Seq(Workers)
    BY <2>1 DEF TypeOK, Queues, Events
  <2>3. n \in 0 .. Len(idle_workers)
    BY <2>1, <2>2
  <2>4. SubSeq(idle_workers, n + 1, Len(idle_workers)) = <<>>
    BY <2>1, <2>2
  <2>5. /\ m_worker_events' = s \o [i \in 1 .. n |-> Event("READY", idle_workers[i])]
        /\ idle_workers' = SubSeq(idle_workers, n + 1, Len(idle_workers))
    BY <1>1, <2>1, <2>4
  <2>6. /\ m_worker_events' \in Seq(Events)
        /\ IsInjective(m_worker_events)' /\ EndsFirst(m_worker_events)'
        /\ idle_workers' \in Seq(Workers) /\ IsInjective(idle_workers)'
        /\ \E F \in SUBSET Idle :
             /\ F = {} <=> n = 0
             /\ n = Len(idle_workers) => F = Idle
             /\ Idle' = Idle \ F
             /\ \A u, v : Ev(u, v)' <=> Event(u, v) \in Range(s) \/ (u = "READY" /\ v \in F)
    BY <1>1, <2>2, <2>3, <2>5, PutBack
  <2> QED BY <2>1, <2>6 DEF Ev
<1>3. TypeOK'
  BY <1>1, <1>2 DEF TypeOK, Events
<1>4. WorkReady' /\ Queues' /\ Heaviest' /\ WeightExact'
  BY <1>1, <1>2 DEF WorkReady, Queues, Heaviest, HeaviestOf, IsEmpty, WeightExact, Occupied
<1>5. Loop' /\ Awaited'
  BY <1>1, <1>2 DEF Loop, Awaited
<1>6. Onward
  BY <1>1 DEF Onward, Running
<1>7. \A v \in Workers : v \notin Idle => Same(v)
  BY <1>1, <1>2 DEF Same, Given
<1>8. ASSUME NEW v \in Idle PROVE View(v)' /\ ~Busy(v)' /\ ~Busy(v)
  <2>1. /\ v \in Workers /\ v \in m_workers /\ pc[v] = "wait" /\ m_weight[v] = 0
        /\ ~Ev("READY", v) /\ ~Ev("END", v) /\ ~Given(v) /\ ~Busy(v)
    BY <1>1, <1>8, IdleWorker
  <2>2. pc'[v] = "wait" /\ Ev("READY", v)' /\ ~Ev("END", v)' /\ ~(v \in Idle)' /\ ~Given(v)'
        /\ v \in m_workers' /\ ~Ev("EXIT", v)' /\ ~Ev("FATAL_ERROR", v)'
    <3>1. ~Given(v)'
      BY <1>1, <2>1 DEF Given
    <3>2. ~Ev("EXIT", v) /\ ~Ev("FATAL_ERROR", v)
      BY <2>1 DEF Views, View
    <3>3. Ev("READY", v)' /\ ~Ev("END", v)' /\ ~Ev("EXIT", v)' /\ ~Ev("FATAL_ERROR", v)'
      BY <1>2, <2>1, <3>2
    <3> QED BY <1>1, <1>2, <2>1, <3>1, <3>3
  <2> QED BY <2>1, <2>2 DEF View, Busy
<1>9. \A v \in Workers : View(v)' /\ (Busy(v)' <=> Busy(v))
  BY <1>6, <1>7, <1>8, SameView DEF Views
<1>10. Places' /\ InOrder'
  <2>1. UNCHANGED <<stage, todo, completed, m_pending_tasks, m_task>>
    BY <1>1
  <2> QED BY <1>1, <1>9, <2>1, PlacesKept
<1>11. Ending'
  <2>1. NothingLeft'
    BY <1>1, AllCompleted DEF NothingLeft
  <2> QED BY <1>1, <2>1 DEF Ending
<1> QED
  BY <1>3, <1>4, <1>5, <1>9, <1>10, <1>11 DEF Views
-----------------------------------------------------------------------------
(***************************************************************************)
(* The theorems.                                                           *)
(***************************************************************************)

LEMMA InitInv == Init => IInv
<1> SUFFICES ASSUME Init PROVE IInv
  OBVIOUS
<1> USE DEF Init
<1>1. TypeOK
  <2>1. 1 \in 1 .. ThreadsCount /\ 0 \in 0 .. ThreadsCount /\ 0 \in 0 .. Stages
    BY Size, WorkersAssumption
  <2>2. m_pending_tasks \in [tasks : [1 .. ThreadsCount -> Seq(Tasks)],
                             top : 1 .. ThreadsCount]
    BY <2>1
  <2>3. /\ m_weight \in [Workers -> 0 .. ThreadsCount]
        /\ m_work_ready \in [Workers -> Seq(BOOLEAN)]
        /\ m_task \in [Workers -> Tasks \cup {None}]
        /\ pc \in [Workers -> {"connect", "ready", "wait", "execute", "gone"}]
    BY <2>1
  <2>4. /\ phase \in {"setup", "loop", "returned", "stop", "join", "done"}
        /\ stage \in 0 .. Stages /\ m_current_weight \in 0 .. ThreadsCount
        /\ idle_workers \in Seq(Workers)
        /\ m_worker_events \in Seq([type : EventTypes, worker : Workers])
        /\ todo \subseteq Tasks /\ completed \subseteq Tasks /\ m_workers \subseteq Workers
    BY <2>1
  <2> QED BY <2>2, <2>3, <2>4 DEF TypeOK
<1>2. Range(<<>>) = {} /\ IsInjective(<<>>) /\ EndsFirst(<<>>)
  BY DEF Range, IsInjective, EndsFirst
<1>3. WorkReady /\ Queues
  BY <1>2 DEF WorkReady, WorkItems, Queues
<1>4. Idle = {} /\ \A u, v : ~Ev(u, v)
  BY <1>2 DEF Idle, Ev
<1>5. \A w \in Workers : ~Given(w) /\ ~Busy(w)
  <2>1. <<>> # <<TRUE>> /\ <<>> # <<TRUE, FALSE>>
    OBVIOUS
  <2> QED BY <1>4, <2>1 DEF Given, Busy
<1>6. Views
  BY <1>4, <1>5 DEF Views, View
<1>7. Loop /\ Awaited /\ Ending
  BY <1>4 DEF Loop, Awaited, Ending, NothingLeft
<1>8. Heaviest
  <2>1. \A p \in 1 .. ThreadsCount : m_pending_tasks.tasks[p] = <<>>
    OBVIOUS
  <2>2. IsEmpty(m_pending_tasks) /\ m_pending_tasks.top = 1
    BY <2>1 DEF IsEmpty
  <2> QED BY <1>2, <2>1, <2>2 DEF Heaviest, HeaviestOf
<1>9. Pending = {} /\ InHand = {}
  <2>1. \A t \in Tasks : m_pending_tasks.tasks[CappedWeight(t)] = <<>>
    BY Capped
  <2> QED BY <1>2, <1>5, <2>1 DEF Pending, PendingOf, InHand
<1>10. Places
  BY <1>5, <1>9 DEF Places
<1>11. InOrder
  <2>1. \A t \in Tasks : ~(Stage[t] < 0)
    BY WorkersAssumption
  <2> QED BY <1>9, <2>1 DEF InOrder
<1>12. WeightExact
  <2>1. PICK f \in [Workers -> 0 .. ThreadsCount] : f = m_weight
    BY <1>1 DEF TypeOK
  <2>2. Cardinality(OccupiedBy(f)) = 0
    BY <2>1, NothingWeighed
  <2> QED BY <2>1, <2>2 DEF WeightExact, Occupied, OccupiedBy
<1> QED
  BY <1>1, <1>3, <1>6, <1>7, <1>8, <1>10, <1>11, <1>12 DEF IInv

LEMMA NextInv == IInv /\ [Next]_vars => IInv'
<1> SUFFICES ASSUME IInv, [Next]_vars PROVE IInv'
  OBVIOUS
<1>1. CASE Main
  BY <1>1, StartStageInv, SetupThrowsInv, ExecuteTasksReturnsInv, StopWorkersInv,
     JoinWorkersInv, HandleConnectedInv, HandleEndInv, HandleGoneInv, HandleReadyInv,
     HandleReadyThrowsInv, AllIdleInv DEF Main, HandleReady
<1>2. CASE Interrupt
  BY <1>2, InterruptInv
<1>3. ASSUME NEW w \in Workers, Worker(w) PROVE IInv'
  BY <1>3, WorkerInv
<1>4. CASE UNCHANGED vars
  BY <1>4, UnchangedInv
<1> QED
  BY <1>1, <1>2, <1>3, <1>4 DEF Next, Done

\* The inductive invariant holds: of the queues, of how the main thread sees the
\* workers, of where the tasks are, and of the weights.
THEOREM Invariance == Spec => []IInv
<1>1. Init => IInv
  BY InitInv
<1>2. IInv /\ [Next]_vars => IInv'
  BY NextInv
<1> QED
  BY <1>1, <1>2, PTL DEF Spec

\* Something is once in a sequence without repetitions, or not at all.
LEMMA Occurrences ==
  ASSUME NEW S, NEW s \in Seq(S), IsInjective(s), NEW x
  PROVE  Cardinality({i \in DOMAIN s : s[i] = x}) = IF x \in Range(s) THEN 1 ELSE 0
<1>1. DOMAIN s = 1 .. Len(s)
  OBVIOUS
<1>2. CASE x \in Range(s)
  <2>1. PICK i \in DOMAIN s : x = s[i]
    BY <1>1, <1>2, Elements
  <2>2. {j \in DOMAIN s : s[j] = x} = {i}
    BY <1>1, <2>1, Elements
  <2> QED BY <1>2, <2>2, FS_Singleton
<1>3. CASE x \notin Range(s)
  <2>1. {j \in DOMAIN s : s[j] = x} = {}
    BY <1>1, <1>3, Elements
  <2> QED BY <1>3, <2>1, FS_EmptySet
<1> QED
  BY <1>2, <1>3

\* The scheduler's accounts are right, in every reachable state: the weights that
\* handle_worker_events() adds and subtracts are the ones of the tasks that workers
\* have; a worker that waits is idle, or READY, or was given work, and only one of
\* these; and one that could execute a task is called back.
THEOREM WorkersAccountedCorrect == Spec => []WorkersAccounted
<1>1. IInv => WorkersAccounted
  <2> SUFFICES ASSUME IInv PROVE WorkersAccounted
    OBVIOUS
  <2> USE DEF IInv
  <2>1. OneOfIdleReadyBusy
    <3> SUFFICES ASSUME phase = "loop", NEW w \in m_workers, pc[w] = "wait"
                 PROVE  Cardinality(ReadyEvents(w))
                          + Cardinality({i \in DOMAIN idle_workers : idle_workers[i] = w})
                          + Len(m_work_ready[w]) = 1
      BY DEF OneOfIdleReadyBusy
    <3>1. w \in Workers /\ View(w) /\ Running
      BY DEF TypeOK, Views, Running
    <3>2. Cardinality(ReadyEvents(w)) = IF Ev("READY", w) THEN 1 ELSE 0
      <4>1. PICK s \in Seq(Events) : s = m_worker_events
        BY DEF TypeOK, Events
      <4>2. IsInjective(s)
        BY <4>1 DEF Queues
      <4> QED BY <4>1, <4>2, Occurrences DEF ReadyEvents, Ev
    <3>3. Cardinality({i \in DOMAIN idle_workers : idle_workers[i] = w})
            = IF w \in Idle THEN 1 ELSE 0
      <4>1. PICK s \in Seq(Workers) : s = idle_workers
        BY DEF TypeOK
      <4>2. IsInjective(s)
        BY <4>1 DEF Queues
      <4> QED BY <4>1, <4>2, Occurrences DEF Idle
    <3>4. Len(m_work_ready[w]) = IF Given(w) THEN 1 ELSE 0
      <4>1. m_work_ready[w] \in {<<>>, <<TRUE>>}
        BY <3>1 DEF WorkReady
      <4>2. <<>> # <<TRUE>> /\ <<>> # <<TRUE, FALSE>> /\ Len(<<>>) = 0 /\ Len(<<TRUE>>) = 1
        OBVIOUS
      <4> QED BY <4>1, <4>2 DEF Given
    <3>5. /\ Ev("READY", w) \/ w \in Idle \/ Given(w)
          /\ ~(Ev("READY", w) /\ w \in Idle) /\ ~(Ev("READY", w) /\ Given(w))
          /\ ~(w \in Idle /\ Given(w))
      BY <3>1 DEF View
    <3> QED BY <3>2, <3>3, <3>4, <3>5
  <2>2. NoWorkerForgotten
    <3>1. idle_workers # <<>> => Idle # {}
      <4>1. PICK s \in Seq(Workers) : s = idle_workers
        BY DEF TypeOK
      <4> QED BY <4>1, EmptyRange DEF Idle
    <3>2. Asked => \E w \in m_workers : pc[w] = "ready" \/ ReadyEvents(w) # {}
      BY DEF Asked, Ev, ReadyEvents, Range
    <3> QED BY <3>1, <3>2 DEF NoWorkerForgotten, Awaited, Serves
  <2> QED BY <2>1, <2>2 DEF WorkersAccounted
<1> QED
  BY <1>1, Invariance, PTL

\* No worker executes a task before the tasks of earlier stages and the ones the
\* task requires are completed, and no task is executed twice.
THEOREM ExecutedInOrderCorrect == Spec => []ExecutedInOrder
<1>1. IInv => ExecutedInOrder
  <2> SUFFICES ASSUME IInv, NEW w \in Workers, pc[w] = "execute"
               PROVE  /\ m_task[w] \notin completed
                      /\ Requires[m_task[w]] \subseteq completed
                      /\ \A t \in Tasks : Stage[t] < Stage[m_task[w]] => t \in completed
                      /\ \A v \in Workers \ {w} : pc[v] = "execute" => m_task[v] # m_task[w]
    BY DEF ExecutedInOrder
  <2> USE DEF IInv
  <2>1. Busy(w) /\ m_task[w] \in InHand
    BY DEF Busy, InHand
  <2>2. m_task[w] \notin completed /\ Stage[m_task[w]] = stage
        /\ Requires[m_task[w]] \subseteq completed
    BY <2>1 DEF Places, InOrder
  <2>3. \A v \in Workers \ {w} : pc[v] = "execute" => m_task[v] # m_task[w]
    BY <2>1 DEF Places, Busy
  <2> QED BY <2>2, <2>3 DEF InOrder
<1> QED
  BY <1>1, Invariance, PTL

\* handle_worker_events() returns only after all the tasks of the stage were
\* completed, unless the load was interrupted, and a load that reports success has
\* completed all of them.
THEOREM OkMeansLoadedCorrect == Spec => []OkMeansLoaded
<1>1. IInv => OkMeansLoaded
  BY DEF IInv, Ending, OkMeansLoaded
<1> QED
  BY <1>1, Invariance, PTL
=============================================================================
