-------------------------- MODULE ThreadPoolProofs --------------------------
(***************************************************************************)
(* Proofs about ThreadPool, for any number of workers and tasks and all    *)
(* interleavings of workers which fail, of the processor and of a client   *)
(* which is interrupted: process() returns only if all the tasks were      *)
(* processed, each of them once, and a failure is visible to the client.   *)
(***************************************************************************)
EXTENDS ThreadPool, FiniteSetTheorems, SequenceTheorems, TLAPS

(***************************************************************************)
(* The inductive invariant.                                                *)
(***************************************************************************)

EsLabels == {"es_test", "es_interrupt", "es_state", "es_workers", "es_main"}

WorkerLabels == {"pop", "popped", "produce", "produced", "shutdown", "processing",
                 "gone"} \cup EsLabels
ProcLabels == {"pop", "popped", "process", "check", "done_test", "done_set", "join",
               "gone"} \cup EsLabels
ClientLabels == {"add", "poll", "wait", "gone"} \cup EsLabels

\* What each thread may be doing, and with which task.
Control ==
  /\ \A w \in Workers :
       /\ pc[w] \in WorkerLabels
       /\ pc[w] = "popped" => task[w] \in Tasks \cup {Guard}
       /\ pc[w] = "produce" => task[w] \in Tasks
  /\ pc[Proc] \in ProcLabels
  /\ pc[Proc] = "popped" => task[Proc] \in Tasks \cup {Guard}
  /\ pc[Proc] = "process" => task[Proc] \in Tasks
  /\ pc[Client] \in ClientLabels
  /\ to_add \subseteq Roots

\* Who starts an emergency shutdown has a reason, and whoever has failed ends
\* only after the others were interrupted.
Reasons ==
  /\ \A w \in m_worker_exceptions :
       \/ pc[w] \in {"es_test", "es_interrupt"}
       \/ m_worker_interrupt /\ pc[w] \in {"es_state", "es_workers", "es_main", "gone"}
  /\ \A w \in Workers :
       pc[w] \in EsLabels \ {"es_main"} => w \in m_worker_exceptions
  /\ \A th \in Threads : pc[th] \in {"es_state", "es_workers"} => m_worker_interrupt
  /\ \A th \in {Client, Proc} : pc[th] = "es_main" => m_worker_interrupt
  /\ pc[Proc] \in EsLabels => failed \/ interrupted
  /\ pc[Client] \in EsLabels => interrupted
  /\ m_worker_interrupt => failed \/ interrupted \/ m_worker_exceptions # {}

\* Workers for which the count of the active ones still stands.
Counted == m_worker_exceptions
             \cup {w \in Workers : pc[w] \in {"pop", "popped", "produce", "produced",
                                              "shutdown"}}

\* The processor was told that there are no more tasks, or it was interrupted.
Told == m_worker_interrupt \/ m_active_threads = 0

\* The processor is about to end.
Leaving ==
  \/ pc[Proc] \in {"done_test", "done_set", "join", "gone"}
  \/ pc[Proc] = "popped" /\ task[Proc] = Guard

Counting ==
  /\ Cardinality(Counted) <= m_active_threads
  /\ \A w \in Workers : pc[w] = "processing" => m_active_threads = 0
  /\ \A th \in Threads : pc[th] = "es_main" => Told
  /\ main_guards > 0 => Told
  /\ pc[Proc] = "done_set" => m_active_threads = 0
  /\ Leaving => Told /\ (m_worker_interrupt \/ m_main_thread_tasks = <<>>)
  /\ m_worker_interrupt =>
       \/ \E th \in Threads : pc[th] = "es_state"
       \/ m_async_state = "TERMINATED" \/ m_active_threads = 0

\* A worker that has seen a guard.
Exiting(w) ==
  \/ pc[w] \in {"shutdown", "processing", "es_main", "gone"}
  \/ pc[w] = "popped" /\ task[w] = Guard

NoneWaiting == \A p \in Priorities : m_worker_tasks[p] = <<>>

\* Workers exit once nobody adds tasks and there are none to take.
Exits ==
  \/ m_worker_interrupt
  \/ /\ worker_guards = 0 \/ task_producers = {}
     /\ (\A w \in Workers : ~Exiting(w)) \/ (task_producers = {} /\ NoneWaiting)

\* Where the tasks are.
Waiting == Range(m_worker_tasks["HIGH"]) \cup Range(m_worker_tasks["MEDIUM"])
Takes(w) == pc[w] \in {"popped", "produce"} /\ task[w] # Guard
Taken == {task[w] : w \in {v \in Workers : Takes(v)}}
Ready == Range(m_main_thread_tasks)
InProcess == IF pc[Proc] \in {"popped", "process"} /\ task[Proc] # Guard
             THEN {task[Proc]} ELSE {}
Past == Range(processed)

Present == Waiting \cup Taken \cup Ready \cup InProcess

\* Every task is in one place only, and there once.
Unique ==
  /\ \A p \in Priorities : IsInjective(m_worker_tasks[p])
  /\ Range(m_worker_tasks["HIGH"]) \cap Range(m_worker_tasks["MEDIUM"]) = {}
  /\ IsInjective(m_main_thread_tasks)
  /\ IsInjective(processed)
  /\ \A v, w \in Workers : Takes(v) /\ Takes(w) /\ task[v] = task[w] => v = w

Apart ==
  /\ to_add \cap (Present \cup Past) = {}
  /\ Waiting \cap (Taken \cup Ready \cup InProcess \cup Past) = {}
  /\ Taken \cap (Ready \cup InProcess \cup Past) = {}
  /\ Ready \cap (InProcess \cup Past) = {}
  /\ InProcess \cap Past = {}

Once == Unique /\ Apart

\* A task is added by another one when that one is processed.
Families ==
  \A t \in Tasks : \A c \in Children[t] :
    c \in Present \cup Past => t \notin to_add \cup Present

\* Whoever may still add tasks is counted.
Producers ==
  /\ pc[Client] = "add" => Client \in task_producers
  /\ pc[Client] # "add" => to_add = {} \/ interrupted
  /\ \A t \in Present : Children[t] # {} => t \in task_producers
  /\ pc[Client] = "add" => \A t \in to_add : Children[t] # {} => t \in task_producers

\* If nothing went wrong, no task was lost.
Fine == ~m_worker_interrupt /\ ~failed /\ m_worker_exceptions = {}

Accounted ==
  Fine => \A t \in Tasks :
            \/ t \in to_add \cup Present \cup Past
            \/ \E u \in Tasks : t \in Children[u] /\ u \notin Past

Outcome ==
  /\ result # "none" => pc[Proc] = "gone" /\ \A w \in Workers : pc[w] = "gone"
  /\ result = "returned" => /\ ~failed /\ m_worker_exceptions = {}
                            /\ interrupted \/ Past = Tasks

IInv ==
  /\ TypeOK /\ Control /\ Reasons /\ Counting /\ Exits /\ Once /\ Families
  /\ Producers /\ Accounted /\ Outcome
-----------------------------------------------------------------------------
(***************************************************************************)
(* Sequences without repetitions.                                          *)
(***************************************************************************)

LEMMA Elements ==
  ASSUME NEW S, NEW s \in Seq(S)
  PROVE  /\ \A x : x \in Range(s) <=> \E i \in 1 .. Len(s) : x = s[i]
         /\ IsInjective(s) <=> \A i, j \in 1 .. Len(s) : s[i] = s[j] => i = j
         /\ Range(s) \subseteq S
  BY DEF Range, IsInjective

LEMMA Concatenated ==
  ASSUME NEW S, NEW s \in Seq(S), NEW t \in Seq(S)
  PROVE  /\ s \o t \in Seq(S)
         /\ Range(s \o t) = Range(s) \cup Range(t)
         /\ IsInjective(s) /\ IsInjective(t) /\ Range(s) \cap Range(t) = {}
              => IsInjective(s \o t)
<1>0. PICK u : u = s \o t
  OBVIOUS
<1>1. /\ u \in Seq(S) /\ Len(u) = Len(s) + Len(t)
      /\ Len(s) \in Nat /\ Len(t) \in Nat
      /\ \A i \in 1 .. Len(s) : u[i] = s[i]
      /\ \A i \in 1 .. Len(u) : i > Len(s) => u[i] = t[i - Len(s)]
  BY <1>0
<1>2. \A i \in 1 .. Len(u) : i > Len(s) => i - Len(s) \in 1 .. Len(t)
  BY <1>1
<1>3. \A i \in 1 .. Len(t) : i + Len(s) \in 1 .. Len(u) /\ u[i + Len(s)] = t[i]
  <2> SUFFICES ASSUME NEW i \in 1 .. Len(t)
               PROVE  i + Len(s) \in 1 .. Len(u) /\ u[i + Len(s)] = t[i]
    OBVIOUS
  <2>1. i + Len(s) \in 1 .. Len(u) /\ i + Len(s) > Len(s) /\ (i + Len(s)) - Len(s) = i
    BY <1>1
  <2> QED BY <1>1, <2>1
<1>4. Range(u) = Range(s) \cup Range(t)
  <2>1. ASSUME NEW x \in Range(u) PROVE x \in Range(s) \cup Range(t)
    <3>1. PICK i \in 1 .. Len(u) : x = u[i]
      BY <1>1, <2>1, Elements
    <3>2. CASE i <= Len(s)
      BY <1>1, <3>1, <3>2, Elements
    <3>3. CASE i > Len(s)
      BY <1>1, <1>2, <3>1, <3>3, Elements
    <3> QED BY <1>1, <3>2, <3>3
  <2>2. ASSUME NEW x \in Range(s) PROVE x \in Range(u)
    <3>1. PICK i \in 1 .. Len(s) : x = s[i]
      BY <2>2, Elements
    <3>2. i \in 1 .. Len(u) /\ x = u[i]
      BY <1>1, <3>1
    <3> QED BY <1>1, <3>2, Elements
  <2>3. ASSUME NEW x \in Range(t) PROVE x \in Range(u)
    <3>1. PICK i \in 1 .. Len(t) : x = t[i]
      BY <2>3, Elements
    <3> QED BY <1>1, <1>3, <3>1, Elements
  <2> QED BY <2>1, <2>2, <2>3
<1>5. ASSUME IsInjective(s), IsInjective(t), Range(s) \cap Range(t) = {},
             NEW i \in 1 .. Len(u), NEW j \in 1 .. Len(u), u[i] = u[j]
      PROVE  i = j
  <2>1. CASE i <= Len(s) /\ j <= Len(s)
    BY <1>1, <1>5, <2>1, Elements
  <2>2. CASE i > Len(s) /\ j > Len(s)
    <3>1. i - Len(s) = j - Len(s)
      BY <1>1, <1>2, <1>5, <2>2, Elements, SMTT(30)
    <3> QED BY <1>1, <3>1
  <2>3. CASE i <= Len(s) /\ j > Len(s)
    <3>1. u[i] \in Range(s) /\ u[j] \in Range(t)
      BY <1>1, <1>2, <2>3, Elements, SMTT(30)
    <3> QED BY <1>5, <3>1
  <2>4. CASE i > Len(s) /\ j <= Len(s)
    <3>1. u[j] \in Range(s) /\ u[i] \in Range(t)
      BY <1>1, <1>2, <2>4, Elements, SMTT(30)
    <3> QED BY <1>5, <3>1
  <2> QED BY <1>1, <2>1, <2>2, <2>3, <2>4
<1>6. IsInjective(s) /\ IsInjective(t) /\ Range(s) \cap Range(t) = {} => IsInjective(u)
  BY <1>1, <1>5, Elements
<1> QED
  BY <1>0, <1>1, <1>4, <1>6

LEMMA Single ==
  ASSUME NEW S, NEW x \in S
  PROVE  <<x>> \in Seq(S) /\ Range(<<x>>) = {x} /\ IsInjective(<<x>>)
<1>0. PICK u : u = <<x>>
  OBVIOUS
<1>1. u \in Seq(S) /\ Len(u) = 1 /\ u[1] = x
  BY <1>0
<1>2. \A i : i \in 1 .. Len(u) <=> i = 1
  BY <1>1
<1>3. Range(u) = {x} /\ IsInjective(u)
  BY <1>1, <1>2, Elements
<1> QED BY <1>0, <1>1, <1>3

LEMMA Appended ==
  ASSUME NEW S, NEW s \in Seq(S), NEW x \in S
  PROVE  /\ Append(s, x) \in Seq(S)
         /\ Range(Append(s, x)) = Range(s) \cup {x}
         /\ IsInjective(s) /\ x \notin Range(s) => IsInjective(Append(s, x))
<1>1. Append(s, x) = s \o <<x>>
  OBVIOUS
<1>0. PICK u : u = <<x>>
  OBVIOUS
<1>2. u \in Seq(S) /\ Range(u) = {x} /\ IsInjective(u)
  BY <1>0, Single
<1>3. PICK v : v = s \o u
  OBVIOUS
<1>4. /\ v \in Seq(S)
      /\ Range(v) = Range(s) \cup Range(u)
      /\ IsInjective(s) /\ IsInjective(u) /\ Range(s) \cap Range(u) = {} => IsInjective(v)
  BY <1>2, <1>3, Concatenated
<1>5. Append(s, x) = v
  BY <1>0, <1>1, <1>3
<1> QED BY <1>2, <1>4, <1>5

LEMMA FirstTaken ==
  ASSUME NEW S, NEW s \in Seq(S), s # <<>>, IsInjective(s)
  PROVE  /\ Head(s) \in S /\ Head(s) \in Range(s) /\ Tail(s) \in Seq(S)
         /\ Range(Tail(s)) = Range(s) \ {Head(s)}
         /\ IsInjective(Tail(s))
<1>0. PICK u : u = Tail(s)
  OBVIOUS
<1>1. /\ u \in Seq(S) /\ Len(u) = Len(s) - 1 /\ Len(s) \in Nat /\ Len(s) >= 1
      /\ Head(s) = s[1]
      /\ \A i \in 1 .. Len(s) - 1 : u[i] = s[i + 1]
  BY <1>0
<1>2. \A i \in 1 .. Len(u) : /\ u[i] = s[i + 1] /\ i + 1 \in 1 .. Len(s) /\ i + 1 # 1
  BY <1>1
<1>3. \A i \in 1 .. Len(s) : i # 1 => i - 1 \in 1 .. Len(u) /\ u[i - 1] = s[i]
  <2> SUFFICES ASSUME NEW i \in 1 .. Len(s), i # 1
               PROVE  i - 1 \in 1 .. Len(u) /\ u[i - 1] = s[i]
    OBVIOUS
  <2>1. i - 1 \in 1 .. Len(u) /\ (i - 1) + 1 = i
    BY <1>1
  <2> QED BY <1>2, <2>1
<1>4. \A i, j \in 1 .. Len(s) : s[i] = s[j] => i = j
  BY Elements
<1>5. 1 \in 1 .. Len(s)
  BY <1>1
<1>6. Head(s) \in S /\ Head(s) \in Range(s)
  BY <1>1, <1>5, Elements
<1>7. Range(u) = Range(s) \ {Head(s)}
  <2>1. ASSUME NEW x \in Range(u) PROVE x \in Range(s) \ {Head(s)}
    <3>1. PICK i \in 1 .. Len(u) : x = u[i]
      BY <1>1, <2>1, Elements
    <3>2. x = s[i + 1] /\ i + 1 \in 1 .. Len(s) /\ i + 1 # 1
      BY <1>2, <3>1
    <3>3. x # s[1]
      BY <1>4, <1>5, <3>2
    <3> QED BY <1>1, <3>2, <3>3, Elements
  <2>2. ASSUME NEW x \in Range(s), x # Head(s) PROVE x \in Range(u)
    <3>1. PICK i \in 1 .. Len(s) : x = s[i]
      BY <2>2, Elements
    <3>2. i # 1
      BY <1>1, <2>2, <3>1
    <3> QED BY <1>1, <1>3, <3>1, <3>2, Elements
  <2> QED BY <2>1, <2>2
<1>8. ASSUME NEW i \in 1 .. Len(u), NEW j \in 1 .. Len(u), u[i] = u[j]
      PROVE  i = j
  <2>1. i + 1 = j + 1
    BY <1>2, <1>4, <1>8
  <2> QED BY <1>1, <2>1
<1>9. IsInjective(u)
  BY <1>1, <1>8, Elements
<1> QED
  BY <1>0, <1>1, <1>6, <1>7, <1>9

LEMMA Ordered ==
  ASSUME NEW S \in SUBSET Tasks, NEW s \in Orders(S)
  PROVE  s \in Seq(S) /\ s \in Seq(Tasks) /\ Range(s) = S /\ IsInjective(s)
<1>1. IsFiniteSet(S)
  BY PoolAssumption, FS_Subset
<1>2. Cardinality(S) \in Nat
  BY <1>1, FS_CardinalityType
<1>3. s \in [1 .. Cardinality(S) -> S] /\ Range(s) = S
  BY DEF Orders
<1>4. s \in Surjection(1 .. Cardinality(S), S)
  BY <1>3 DEF Surjection, Range
<1>5. IsFiniteSet(1 .. Cardinality(S))
      /\ Cardinality(1 .. Cardinality(S)) = Cardinality(S)
  BY <1>2, FS_Interval
<1>6. s \in Injection(1 .. Cardinality(S), S)
  BY <1>4, <1>5, FS_SurjSameCardinalityImpliesInj
<1>7. s \in Seq(S)
  BY <1>2, <1>3
<1> QED
  BY <1>3, <1>6, <1>7 DEF Injection, IsInjective
-----------------------------------------------------------------------------
(***************************************************************************)
(* The steps, and which of them move a task from one place to another.     *)
(***************************************************************************)

LEMMA Names ==
  /\ Client \in Threads /\ Proc \in Threads /\ Workers \subseteq Threads
  /\ Client # Proc /\ Client \notin Workers /\ Proc \notin Workers
  /\ Guard \notin Tasks /\ Roots \subseteq Tasks
  BY PoolAssumption DEF Threads, Roots

LEMMA Cases ==
  ASSUME [Next]_vars
  PROVE  \/ \E th \in Threads : EmergencyShutdown(th)
         \/ \E w \in Workers : \/ PopTask(w) \/ TestPopped(w) \/ Produce(w)
                               \/ ProduceFails(w) \/ TestProduced(w)
                               \/ DecrementActive(w) \/ SetProcessing(w)
         \/ PopResult \/ TestResult \/ ProcessData \/ ProcessDataThrows
         \/ TestProcessed \/ TestDone \/ SetDone \/ Join
         \/ \E t \in Tasks : AddTask(t)
         \/ AllAdded \/ PollTerminated \/ PollInterrupted \/ PollReceived
         \/ Returns \/ Interrupt \/ UNCHANGED vars
  BY Names DEF Next, Worker, Processor, ClientStep, Done

\* Steps which leave every task where it is, or lose one because the pool stops.
Quietly ==
  /\ UNCHANGED <<m_worker_tasks, m_main_thread_tasks, processed, to_add>>
  /\ \A w \in Workers : Takes(w)' => Takes(w) /\ task'[w] = task[w]
  /\ InProcess' \subseteq InProcess
  /\ Fine' => /\ Fine
              /\ \A w \in Workers : Takes(w) => Takes(w)'
              /\ InProcess' = InProcess

Moving ==
  \/ \E t \in Tasks : AddTask(t)
  \/ \E w \in Workers : PopTask(w) /\ m_worker_tasks[Top] # <<>>
  \/ \E w \in Workers : Produce(w)
  \/ PopResult /\ m_main_thread_tasks # <<>>
  \/ ProcessData \/ ProcessDataThrows

LEMMA QuietShutdown ==
  ASSUME TypeOK, NEW th \in Threads, EmergencyShutdown(th)
  PROVE  Quietly
<1>1. /\ UNCHANGED <<m_worker_tasks, m_main_thread_tasks, processed, to_add, task,
                     m_worker_exceptions, failed>>
      /\ m_worker_interrupt => m_worker_interrupt'
  BY DEF EmergencyShutdown, TestInterrupt, SetInterrupt, SetTerminated, ShutdownWorkers,
         ShutdownMain, queueVars, workerQueue, mainQueue, stateVars, clientVars, procVars
<1>2. /\ pc[th] \notin {"popped", "produce", "process"}
      /\ pc'[th] \notin {"popped", "produce", "process"}
      /\ \A v \in Threads : v # th => pc'[v] = pc[v]
  BY DEF EmergencyShutdown, TestInterrupt, SetInterrupt, SetTerminated, ShutdownWorkers,
         ShutdownMain, Goto, AfterShutdown, TypeOK, Labels
<1>3. \A w \in Workers : (Takes(w)' <=> Takes(w)) /\ task'[w] = task[w]
  BY <1>1, <1>2, Names DEF Takes
<1>4. InProcess' = InProcess
  BY <1>1, <1>2, Names DEF InProcess
<1> QED
  BY <1>1, <1>3, <1>4 DEF Quietly, Fine

LEMMA Quiet ==
  ASSUME IInv, [Next]_vars
  PROVE  Quietly \/ Moving
<1> USE Names DEF IInv, TypeOK
<1>1. ASSUME NEW w \in Workers, PopTask(w), m_worker_tasks[Top] = <<>>
      PROVE  Quietly
  <2>1. ~Takes(w) /\ ~Takes(w)'
    BY <1>1 DEF PopTask, Takes, Goto
  <2>2. \A v \in Workers : v # w => (Takes(v)' <=> Takes(v)) /\ task'[v] = task[v]
    BY <1>1 DEF PopTask, Takes, Goto
  <2>3. InProcess' = InProcess
    BY <1>1 DEF PopTask, Goto, InProcess
  <2>4. UNCHANGED <<m_worker_tasks, m_main_thread_tasks, processed, to_add, failed,
                    m_worker_interrupt, m_worker_exceptions>>
    BY <1>1 DEF PopTask, mainQueue, stateVars, clientVars, procVars
  <2> QED BY <2>1, <2>2, <2>3, <2>4 DEF Quietly, Fine
<1>2. ASSUME NEW w \in Workers, TestPopped(w)
      PROVE  Quietly
  <2>1. /\ UNCHANGED <<m_worker_tasks, m_main_thread_tasks, processed, to_add, task,
                       failed, m_worker_interrupt, m_worker_exceptions>>
        /\ \A v \in Threads : v # w => pc'[v] = pc[v]
        /\ pc[w] = "popped"
        /\ \/ m_worker_interrupt /\ pc'[w] = "gone"
           \/ ~m_worker_interrupt /\ task[w] = Guard /\ pc'[w] = "shutdown"
           \/ ~m_worker_interrupt /\ task[w] # Guard /\ pc'[w] = "produce"
    BY <1>2 DEF TestPopped, Goto, queueVars, workerQueue, mainQueue, stateVars,
                clientVars, procVars
  <2>2. \A v \in Workers : v # w => (Takes(v)' <=> Takes(v))
    BY <2>1 DEF Takes
  <2>3. Takes(w)' => Takes(w)
    BY <2>1 DEF Takes
  <2>4. ~m_worker_interrupt => (Takes(w) => Takes(w)')
    BY <2>1 DEF Takes
  <2>5. InProcess' = InProcess
    BY <2>1 DEF InProcess
  <2> QED BY <2>1, <2>2, <2>3, <2>4, <2>5 DEF Quietly, Fine
<1>3. ASSUME NEW w \in Workers, ProduceFails(w)
      PROVE  Quietly
  <2>1. /\ UNCHANGED <<m_worker_tasks, m_main_thread_tasks, processed, to_add, task>>
        /\ \A v \in Threads : v # w => pc'[v] = pc[v]
        /\ pc[w] = "produce" /\ pc'[w] = "es_test" /\ w \in m_worker_exceptions'
    BY <1>3 DEF ProduceFails, Goto, queueVars, workerQueue, mainQueue, stateVars,
                clientVars, procVars
  <2>2. \A v \in Workers : Takes(v)' => Takes(v)
    BY <2>1 DEF Takes
  <2>3. InProcess' = InProcess /\ ~Fine'
    BY <2>1 DEF InProcess, Fine
  <2> QED BY <2>1, <2>2, <2>3 DEF Quietly
<1>4. ASSUME NEW w \in Workers, TestProduced(w) \/ DecrementActive(w) \/ SetProcessing(w)
      PROVE  Quietly
  <2>1. /\ UNCHANGED <<m_worker_tasks, m_main_thread_tasks, processed, to_add, task,
                       failed, m_worker_interrupt, m_worker_exceptions>>
        /\ \A v \in Threads : v # w => pc'[v] = pc[v]
        /\ pc[w] \notin {"popped", "produce"} /\ pc'[w] \notin {"popped", "produce"}
    BY <1>4 DEF TestProduced, DecrementActive, SetProcessing, Goto, queueVars, workerQueue,
                mainQueue, stateVars, clientVars, procVars
  <2>2. \A v \in Workers : (Takes(v)' <=> Takes(v)) /\ task'[v] = task[v]
    BY <2>1 DEF Takes
  <2>3. InProcess' = InProcess
    BY <2>1 DEF InProcess
  <2> QED BY <2>1, <2>2, <2>3 DEF Quietly, Fine
<1>5. ASSUME PopResult, m_main_thread_tasks = <<>>
      PROVE  Quietly
  <2>1. /\ UNCHANGED <<m_worker_tasks, m_main_thread_tasks, processed, to_add,
                       failed, m_worker_interrupt, m_worker_exceptions>>
        /\ \A v \in Threads : v # Proc => pc'[v] = pc[v] /\ task'[v] = task[v]
        /\ pc[Proc] = "pop" /\ task'[Proc] = Guard
    BY <1>5 DEF PopResult, Goto, workerQueue, stateVars, clientVars, procVars
  <2>2. \A v \in Workers : (Takes(v)' <=> Takes(v)) /\ task'[v] = task[v]
    BY <2>1 DEF Takes
  <2>3. InProcess' = InProcess
    BY <2>1 DEF InProcess
  <2> QED BY <2>1, <2>2, <2>3 DEF Quietly, Fine
<1>6. ASSUME TestResult
      PROVE  Quietly
  <2>1. /\ UNCHANGED <<m_worker_tasks, m_main_thread_tasks, processed, to_add, task,
                       failed, m_worker_interrupt, m_worker_exceptions>>
        /\ \A v \in Threads : v # Proc => pc'[v] = pc[v]
        /\ pc[Proc] = "popped"
        /\ \/ (m_worker_interrupt \/ task[Proc] = Guard) /\ pc'[Proc] = "done_test"
           \/ pc'[Proc] = "process"
    BY <1>6 DEF TestResult, Goto, queueVars, workerQueue, mainQueue, stateVars,
                clientVars, procVars
  <2>2. \A v \in Workers : (Takes(v)' <=> Takes(v)) /\ task'[v] = task[v]
    BY <2>1 DEF Takes
  <2>3. InProcess' \subseteq InProcess /\ (~m_worker_interrupt => InProcess' = InProcess)
    BY <2>1 DEF InProcess
  <2> QED BY <2>1, <2>2, <2>3 DEF Quietly, Fine
<1>7. ASSUME TestProcessed \/ TestDone \/ SetDone \/ Join
      PROVE  Quietly
  <2>1. /\ UNCHANGED <<m_worker_tasks, m_main_thread_tasks, processed, to_add, task,
                       failed, m_worker_interrupt, m_worker_exceptions>>
        /\ \A v \in Threads : v # Proc => pc'[v] = pc[v]
        /\ pc[Proc] \notin {"popped", "process"} /\ pc'[Proc] \notin {"popped", "process"}
    BY <1>7 DEF TestProcessed, TestDone, SetDone, Join, Goto, queueVars, workerQueue,
                mainQueue, stateVars, clientVars, procVars
  <2>2. \A v \in Workers : (Takes(v)' <=> Takes(v)) /\ task'[v] = task[v]
    BY <2>1 DEF Takes
  <2>3. InProcess' = InProcess
    BY <2>1 DEF InProcess
  <2> QED BY <2>1, <2>2, <2>3 DEF Quietly, Fine
<1>8. ASSUME AllAdded \/ PollTerminated \/ PollInterrupted \/ PollReceived \/ Returns
               \/ Interrupt \/ UNCHANGED vars
      PROVE  Quietly
  <2>1. /\ UNCHANGED <<m_worker_tasks, m_main_thread_tasks, processed, to_add, task,
                       failed, m_worker_interrupt, m_worker_exceptions>>
        /\ \A v \in Threads : v # Client => pc'[v] = pc[v]
    BY <1>8 DEF AllAdded, PollTerminated, PollInterrupted, PollReceived, Returns, Interrupt,
                Goto, queueVars, workerQueue, mainQueue, stateVars, clientVars, procVars,
                vars
  <2>2. \A v \in Workers : (Takes(v)' <=> Takes(v)) /\ task'[v] = task[v]
    BY <2>1 DEF Takes
  <2>3. InProcess' = InProcess
    BY <2>1 DEF InProcess
  <2> QED BY <2>1, <2>2, <2>3 DEF Quietly, Fine
<1> QED
  BY <1>1, <1>2, <1>3, <1>4, <1>5, <1>6, <1>7, <1>8, QuietShutdown, Cases DEF Moving

\* What a quiet step means for the places.
LEMMA QuietPlaces ==
  ASSUME Quietly
  PROVE  /\ Waiting' = Waiting /\ Ready' = Ready /\ Past' = Past
         /\ Taken' \subseteq Taken /\ InProcess' \subseteq InProcess
         /\ Present' \subseteq Present
         /\ Fine' => Present' = Present
<1>1. Waiting' = Waiting /\ Ready' = Ready /\ Past' = Past
  BY DEF Quietly, Waiting, Ready, Past
<1>2. Taken' \subseteq Taken
  BY DEF Quietly, Taken
<1>3. Fine' => Taken \subseteq Taken'
  BY DEF Quietly, Taken
<1> QED
  BY <1>1, <1>2, <1>3 DEF Quietly, Present

\* Tasks are pushed to the queue of the workers.
LEMMA Pushed ==
  ASSUME TypeOK, Unique, NEW p \in Priorities, NEW s \in Seq(Tasks),
         IsInjective(s), Range(s) \cap Waiting = {},
         m_worker_tasks' = Push(m_worker_tasks, p, s)
  PROVE  /\ m_worker_tasks' \in [Priorities -> Seq(Tasks)]
         /\ \A q \in Priorities : IsInjective(m_worker_tasks'[q])
         /\ Range(m_worker_tasks'["HIGH"]) \cap Range(m_worker_tasks'["MEDIUM"]) = {}
         /\ Waiting' = Waiting \cup Range(s)
<1>1. PICK u : u = m_worker_tasks[p]
  OBVIOUS
<1>2. PICK v : v = u \o s
  OBVIOUS
<1>3. u \in Seq(Tasks) /\ IsInjective(u) /\ Range(u) \subseteq Waiting
  BY <1>1 DEF TypeOK, Unique, Waiting, Priorities
<1>4. v \in Seq(Tasks) /\ Range(v) = Range(u) \cup Range(s) /\ IsInjective(v)
  BY <1>2, <1>3, Concatenated
<1>5. m_worker_tasks' = [m_worker_tasks EXCEPT ![p] = v]
  BY <1>1, <1>2 DEF Push
<1>6. m_worker_tasks' \in [Priorities -> Seq(Tasks)]
  BY <1>4, <1>5 DEF TypeOK
<1>7. \A q \in Priorities : IsInjective(m_worker_tasks'[q])
  BY <1>4, <1>5 DEF TypeOK, Unique
<1>8. CASE p = "HIGH"
  <2>1. m_worker_tasks'["HIGH"] = v /\ m_worker_tasks'["MEDIUM"] = m_worker_tasks["MEDIUM"]
    BY <1>5, <1>8 DEF TypeOK, Priorities
  <2> QED BY <1>1, <1>4, <1>6, <1>7, <1>8, <2>1 DEF Unique, Waiting
<1>9. CASE p = "MEDIUM"
  <2>1. m_worker_tasks'["MEDIUM"] = v /\ m_worker_tasks'["HIGH"] = m_worker_tasks["HIGH"]
    BY <1>5, <1>9 DEF TypeOK, Priorities
  <2> QED BY <1>1, <1>4, <1>6, <1>7, <1>9, <2>1 DEF Unique, Waiting
<1> QED
  BY <1>8, <1>9 DEF Priorities

\* A task is taken from the queue of the workers.
LEMMA Popped ==
  ASSUME TypeOK, Unique, m_worker_tasks[Top] # <<>>,
         m_worker_tasks' = [m_worker_tasks EXCEPT ![Top] = Tail(@)]
  PROVE  /\ m_worker_tasks' \in [Priorities -> Seq(Tasks)]
         /\ \A q \in Priorities : IsInjective(m_worker_tasks'[q])
         /\ Range(m_worker_tasks'["HIGH"]) \cap Range(m_worker_tasks'["MEDIUM"]) = {}
         /\ Head(m_worker_tasks[Top]) \in Waiting \cap Tasks
         /\ Waiting' = Waiting \ {Head(m_worker_tasks[Top])}
<1>0. PICK p \in Priorities : p = Top
  BY DEF Top, Priorities
<1>1. PICK u : u = m_worker_tasks[p]
  OBVIOUS
<1>2. PICK v : v = Tail(u)
  OBVIOUS
<1>3. PICK x : x = Head(u)
  OBVIOUS
<1>4. u \in Seq(Tasks) /\ IsInjective(u) /\ u # <<>>
  BY <1>0, <1>1 DEF TypeOK, Unique, Priorities
<1>5. v \in Seq(Tasks) /\ Range(v) = Range(u) \ {x} /\ IsInjective(v) /\ x \in Range(u)
      /\ x \in Tasks
  BY <1>2, <1>3, <1>4, FirstTaken
<1>6. m_worker_tasks' = [m_worker_tasks EXCEPT ![p] = v]
  BY <1>0, <1>1, <1>2
<1>7. m_worker_tasks' \in [Priorities -> Seq(Tasks)]
  BY <1>5, <1>6 DEF TypeOK
<1>8. \A q \in Priorities : IsInjective(m_worker_tasks'[q])
  BY <1>5, <1>6 DEF TypeOK, Unique
<1>9. Head(m_worker_tasks[Top]) = x
  BY <1>0, <1>1, <1>3
<1>10. CASE p = "HIGH"
  <2>1. m_worker_tasks'["HIGH"] = v /\ m_worker_tasks'["MEDIUM"] = m_worker_tasks["MEDIUM"]
    BY <1>6, <1>10 DEF TypeOK, Priorities
  <2> QED BY <1>1, <1>5, <1>7, <1>8, <1>9, <1>10, <2>1 DEF Unique, Waiting
<1>11. CASE p = "MEDIUM"
  <2>1. m_worker_tasks'["MEDIUM"] = v /\ m_worker_tasks'["HIGH"] = m_worker_tasks["HIGH"]
    BY <1>6, <1>11 DEF TypeOK, Priorities
  <2> QED BY <1>1, <1>5, <1>7, <1>8, <1>9, <1>11, <2>1 DEF Unique, Waiting
<1> QED
  BY <1>10, <1>11 DEF Priorities

LEMMA AddTaskMoves ==
  ASSUME IInv, NEW t \in Tasks, AddTask(t)
  PROVE  /\ Unique'
         /\ m_worker_tasks' \in [Priorities -> Seq(Tasks)]
         /\ t \in to_add /\ to_add' = to_add \ {t}
         /\ Waiting' = Waiting \cup {t} /\ Taken' = Taken /\ Ready' = Ready
         /\ InProcess' = InProcess /\ Past' = Past
<1> USE DEF IInv
<1>1. PICK s : s = <<t>>
  OBVIOUS
<1>2. s \in Seq(Tasks) /\ Range(s) = {t} /\ IsInjective(s)
  BY <1>1, Single
<1>3. t \in to_add /\ t \notin Waiting
  BY DEF AddTask, Once, Apart, Present
<1>4. PICK p \in Priorities : p = Priority(t)
  BY DEF Priority, Priorities
<1>5. m_worker_tasks' = Push(m_worker_tasks, p, s)
  BY <1>1, <1>4 DEF AddTask
<1>6. /\ m_worker_tasks' \in [Priorities -> Seq(Tasks)]
      /\ \A q \in Priorities : IsInjective(m_worker_tasks'[q])
      /\ Range(m_worker_tasks'["HIGH"]) \cap Range(m_worker_tasks'["MEDIUM"]) = {}
      /\ Waiting' = Waiting \cup {t}
  BY <1>2, <1>3, <1>5, Pushed DEF Once
<1>7. UNCHANGED <<pc, task, m_main_thread_tasks, processed>> /\ to_add' = to_add \ {t}
  BY DEF AddTask, mainQueue, procVars
<1>8. /\ Taken' = Taken /\ Ready' = Ready /\ InProcess' = InProcess /\ Past' = Past
      /\ \A w \in Workers : Takes(w)' <=> Takes(w)
  BY <1>7 DEF Taken, Takes, Ready, InProcess, Past
<1>9. Unique'
  BY <1>6, <1>7, <1>8 DEF Once, Unique
<1> QED
  BY <1>3, <1>6, <1>7, <1>8, <1>9

LEMMA PopTaskMoves ==
  ASSUME IInv, NEW w \in Workers, PopTask(w), m_worker_tasks[Top] # <<>>
  PROVE  /\ Unique' /\ UNCHANGED to_add
         /\ m_worker_tasks' \in [Priorities -> Seq(Tasks)]
         /\ \E x \in Waiting \cap Tasks :
              /\ task' = [task EXCEPT ![w] = x]
              /\ Waiting' = Waiting \ {x} /\ Taken' = Taken \cup {x} /\ Ready' = Ready
              /\ InProcess' = InProcess /\ Past' = Past
<1> USE Names DEF IInv
<1>1. PICK x : x = Head(m_worker_tasks[Top])
  OBVIOUS
<1>2. /\ pc[w] = "pop" /\ pc' = [pc EXCEPT ![w] = "popped"]
      /\ task' = [task EXCEPT ![w] = x]
      /\ m_worker_tasks' = [m_worker_tasks EXCEPT ![Top] = Tail(@)]
      /\ UNCHANGED <<m_main_thread_tasks, processed, to_add>>
  BY <1>1 DEF PopTask, Goto, mainQueue, procVars, clientVars
<1>3. /\ m_worker_tasks' \in [Priorities -> Seq(Tasks)]
      /\ \A q \in Priorities : IsInjective(m_worker_tasks'[q])
      /\ Range(m_worker_tasks'["HIGH"]) \cap Range(m_worker_tasks'["MEDIUM"]) = {}
      /\ x \in Waiting \cap Tasks /\ Waiting' = Waiting \ {x}
  BY <1>1, <1>2, Popped DEF Once
<1>4. x \notin Taken
  BY <1>3 DEF Once, Apart
<1>5. /\ \A v \in Workers : v # w => (Takes(v)' <=> Takes(v)) /\ task'[v] = task[v]
      /\ ~Takes(w) /\ Takes(w)' /\ task'[w] = x
  BY <1>2, <1>3 DEF Takes, TypeOK
<1>6. Taken' = Taken \cup {x}
  BY <1>5 DEF Taken
<1>7. \A u, v \in Workers : Takes(u)' /\ Takes(v)' /\ task'[u] = task'[v] => u = v
  <2>1. \A v \in Workers : v # w /\ Takes(v)' => task'[v] # x
    BY <1>4, <1>5 DEF Taken
  <2> QED BY <1>5, <2>1 DEF Once, Unique
<1>8. Ready' = Ready /\ InProcess' = InProcess /\ Past' = Past
  BY <1>2 DEF Ready, InProcess, Past, TypeOK
<1>9. Unique'
  BY <1>2, <1>3, <1>7 DEF Once, Unique
<1> QED
  BY <1>2, <1>3, <1>6, <1>8, <1>9

LEMMA ProduceMoves ==
  ASSUME IInv, NEW w \in Workers, Produce(w)
  PROVE  /\ Unique' /\ UNCHANGED to_add
         /\ m_main_thread_tasks' \in Seq(Tasks)
         /\ \E x \in Taken \cap Tasks :
              /\ Waiting' = Waiting /\ Taken' = Taken \ {x} /\ Ready' = Ready \cup {x}
              /\ InProcess' = InProcess /\ Past' = Past
<1> USE Names DEF IInv
<1>1. PICK x : x = task[w]
  OBVIOUS
<1>2. /\ pc[w] = "produce" /\ pc' = [pc EXCEPT ![w] = "produced"]
      /\ m_main_thread_tasks' = Append(m_main_thread_tasks, x)
      /\ UNCHANGED <<task, m_worker_tasks, processed, to_add>>
  BY <1>1 DEF Produce, Goto, workerQueue, procVars, clientVars
<1>3. x \in Tasks /\ Takes(w) /\ x \in Taken
  BY <1>1, <1>2 DEF Control, Takes, Taken
<1>4. x \notin Ready
  BY <1>3 DEF Once, Apart
<1>5. /\ m_main_thread_tasks' \in Seq(Tasks) /\ IsInjective(m_main_thread_tasks')
      /\ Ready' = Ready \cup {x}
  <2>1. PICK u : u = m_main_thread_tasks
    OBVIOUS
  <2>2. PICK v : v = Append(u, x)
    OBVIOUS
  <2>3. u \in Seq(Tasks) /\ IsInjective(u) /\ x \notin Range(u)
    BY <1>4, <2>1 DEF TypeOK, Once, Unique, Ready
  <2>4. v \in Seq(Tasks) /\ Range(v) = Range(u) \cup {x} /\ IsInjective(v)
    BY <1>3, <2>2, <2>3, Appended
  <2> QED BY <1>2, <2>1, <2>2, <2>4 DEF Ready
<1>6. /\ \A v \in Workers : v # w => (Takes(v)' <=> Takes(v)) /\ task'[v] = task[v]
      /\ ~Takes(w)'
  BY <1>2 DEF Takes, TypeOK
<1>7. Taken' = Taken \ {x}
  BY <1>1, <1>3, <1>6 DEF Taken, Once, Unique
<1>8. Waiting' = Waiting /\ InProcess' = InProcess /\ Past' = Past
  BY <1>2 DEF Waiting, InProcess, Past, TypeOK
<1>9. Unique'
  BY <1>2, <1>5, <1>6 DEF Once, Unique
<1> QED
  BY <1>2, <1>3, <1>5, <1>7, <1>8, <1>9

LEMMA PopResultMoves ==
  ASSUME IInv, PopResult, m_main_thread_tasks # <<>>
  PROVE  /\ Unique' /\ UNCHANGED to_add
         /\ m_main_thread_tasks' \in Seq(Tasks)
         /\ \E x \in Ready \cap Tasks :
              /\ task' = [task EXCEPT ![Proc] = x]
              /\ Waiting' = Waiting /\ Taken' = Taken /\ Ready' = Ready \ {x}
              /\ InProcess = {} /\ InProcess' = {x} /\ Past' = Past
<1> USE Names DEF IInv
<1>1. PICK x : x = Head(m_main_thread_tasks)
  OBVIOUS
<1>2. /\ pc[Proc] = "pop" /\ pc' = [pc EXCEPT ![Proc] = "popped"]
      /\ m_main_thread_tasks' = Tail(m_main_thread_tasks)
      /\ task' = [task EXCEPT ![Proc] = x]
      /\ UNCHANGED <<m_worker_tasks, processed, to_add>>
  BY <1>1 DEF PopResult, Goto, workerQueue, procVars, clientVars
<1>3. /\ m_main_thread_tasks' \in Seq(Tasks) /\ IsInjective(m_main_thread_tasks')
      /\ x \in Ready \cap Tasks /\ Ready' = Ready \ {x}
  <2>1. PICK u : u = m_main_thread_tasks
    OBVIOUS
  <2>2. PICK v : v = Tail(u)
    OBVIOUS
  <2>3. u \in Seq(Tasks) /\ IsInjective(u) /\ u # <<>>
    BY <2>1 DEF TypeOK, Once, Unique
  <2>4. v \in Seq(Tasks) /\ Range(v) = Range(u) \ {x} /\ IsInjective(v)
        /\ x \in Range(u) /\ x \in Tasks
    BY <1>1, <2>1, <2>2, <2>3, FirstTaken
  <2> QED BY <1>2, <2>1, <2>2, <2>4 DEF Ready
<1>4. InProcess = {} /\ InProcess' = {x}
  BY <1>2, <1>3 DEF InProcess, TypeOK
<1>5. \A v \in Workers : (Takes(v)' <=> Takes(v)) /\ task'[v] = task[v]
  BY <1>2 DEF Takes, TypeOK
<1>6. Waiting' = Waiting /\ Taken' = Taken /\ Past' = Past
  BY <1>2, <1>5 DEF Waiting, Taken, Past
<1>7. Unique'
  BY <1>2, <1>3, <1>5 DEF Once, Unique
<1> QED
  BY <1>2, <1>3, <1>4, <1>6, <1>7

\* Tasks which are added by a task that is processed.
LEMMA AddChildrenMoves ==
  ASSUME IInv, NEW t \in InProcess \cap Tasks, NEW added \in SUBSET Children[t],
         AddChildren(t, added)
  PROVE  /\ added \subseteq Tasks \ Roots
         /\ added \cap (to_add \cup Present \cup Past) = {}
         /\ m_worker_tasks' \in [Priorities -> Seq(Tasks)]
         /\ \A q \in Priorities : IsInjective(m_worker_tasks'[q])
         /\ Range(m_worker_tasks'["HIGH"]) \cap Range(m_worker_tasks'["MEDIUM"]) = {}
         /\ Waiting' = Waiting \cup added
<1> USE DEF IInv
<1>1. added \subseteq Tasks \ Roots
  BY PoolAssumption DEF Roots
<1>2. added \cap (to_add \cup Present \cup Past) = {}
  BY <1>1 DEF Families, Control, Present
<1>3. PICK s \in Orders(added) : m_worker_tasks' = Push(m_worker_tasks, "MEDIUM", s)
  BY DEF AddChildren
<1>4. s \in Seq(Tasks) /\ Range(s) = added /\ IsInjective(s)
  BY <1>1, <1>3, Ordered
<1>5. Range(s) \cap Waiting = {} /\ "MEDIUM" \in Priorities
  BY <1>2, <1>4 DEF Present, Priorities
<1>6. /\ m_worker_tasks' \in [Priorities -> Seq(Tasks)]
      /\ \A q \in Priorities : IsInjective(m_worker_tasks'[q])
      /\ Range(m_worker_tasks'["HIGH"]) \cap Range(m_worker_tasks'["MEDIUM"]) = {}
      /\ Waiting' = Waiting \cup Range(s)
  BY <1>3, <1>4, <1>5, Pushed DEF Once
<1> QED
  BY <1>1, <1>2, <1>4, <1>6

LEMMA ProcessDataMoves ==
  ASSUME IInv, ProcessData
  PROVE  /\ Unique' /\ UNCHANGED to_add
         /\ m_worker_tasks' \in [Priorities -> Seq(Tasks)] /\ processed' \in Seq(Tasks)
         /\ \E x \in InProcess \cap Tasks :
              /\ x = task[Proc] /\ AddChildren(x, Children[x])
              /\ Children[x] \cap (to_add \cup Present \cup Past) = {}
              /\ Children[x] \subseteq Tasks \ Roots
              /\ Waiting' = Waiting \cup Children[x] /\ Taken' = Taken /\ Ready' = Ready
              /\ InProcess = {x} /\ InProcess' = {} /\ Past' = Past \cup {x}
<1> USE Names DEF IInv
<1>1. PICK x : x = task[Proc]
  OBVIOUS
<1>2. /\ pc[Proc] = "process" /\ processed' = Append(processed, x)
      /\ AddChildren(x, Children[x])
      /\ \A v \in Threads : v # Proc => pc'[v] = pc[v]
      /\ pc'[Proc] \in {"check", "es_test"}
      /\ UNCHANGED <<task, m_main_thread_tasks, to_add>>
  BY <1>1 DEF ProcessData, Goto, mainQueue, TypeOK
<1>3. x \in Tasks /\ InProcess = {x} /\ InProcess' = {}
  BY <1>1, <1>2 DEF Control, InProcess
<1>4. /\ Children[x] \subseteq Tasks \ Roots
      /\ Children[x] \cap (to_add \cup Present \cup Past) = {}
      /\ m_worker_tasks' \in [Priorities -> Seq(Tasks)]
      /\ \A q \in Priorities : IsInjective(m_worker_tasks'[q])
      /\ Range(m_worker_tasks'["HIGH"]) \cap Range(m_worker_tasks'["MEDIUM"]) = {}
      /\ Waiting' = Waiting \cup Children[x]
  BY <1>2, <1>3, AddChildrenMoves
<1>5. processed' \in Seq(Tasks) /\ IsInjective(processed') /\ Past' = Past \cup {x}
  <2>1. PICK u : u = processed
    OBVIOUS
  <2>2. PICK v : v = Append(u, x)
    OBVIOUS
  <2>3. u \in Seq(Tasks) /\ IsInjective(u) /\ x \notin Range(u)
    BY <1>3, <2>1 DEF TypeOK, Once, Unique, Apart, Past
  <2>4. v \in Seq(Tasks) /\ Range(v) = Range(u) \cup {x} /\ IsInjective(v)
    BY <1>3, <2>2, <2>3, Appended
  <2> QED BY <1>2, <2>1, <2>2, <2>4 DEF Past
<1>6. \A v \in Workers : (Takes(v)' <=> Takes(v)) /\ task'[v] = task[v]
  BY <1>2 DEF Takes, TypeOK
<1>7. Taken' = Taken /\ Ready' = Ready
  BY <1>2, <1>6 DEF Taken, Ready
<1>8. Unique'
  BY <1>2, <1>4, <1>5, <1>6 DEF Once, Unique
<1> QED
  BY <1>1, <1>2, <1>3, <1>4, <1>5, <1>7, <1>8

LEMMA ProcessDataThrowsMoves ==
  ASSUME IInv, ProcessDataThrows
  PROVE  /\ Unique' /\ UNCHANGED to_add /\ ~Fine'
         /\ m_worker_tasks' \in [Priorities -> Seq(Tasks)]
         /\ \E x \in InProcess \cap Tasks : \E added \in SUBSET Children[x] :
              /\ x = task[Proc] /\ AddChildren(x, added)
              /\ added \cap (to_add \cup Present \cup Past) = {}
              /\ added \subseteq Tasks \ Roots
              /\ Waiting' = Waiting \cup added /\ Taken' = Taken /\ Ready' = Ready
              /\ InProcess = {x} /\ InProcess' = {} /\ Past' = Past
<1> USE Names DEF IInv
<1>1. PICK x : x = task[Proc]
  OBVIOUS
<1>2. PICK added \in SUBSET Children[x] : AddChildren(x, added)
  BY <1>1 DEF ProcessDataThrows
<1>3. /\ pc[Proc] = "process" /\ failed'
      /\ \A v \in Threads : v # Proc => pc'[v] = pc[v]
      /\ pc'[Proc] = "es_test"
      /\ UNCHANGED <<task, m_main_thread_tasks, to_add, processed>>
  BY <1>1 DEF ProcessDataThrows, Goto, mainQueue, TypeOK
<1>4. x \in Tasks /\ InProcess = {x} /\ InProcess' = {}
  BY <1>1, <1>3 DEF Control, InProcess
<1>5. /\ added \subseteq Tasks \ Roots
      /\ added \cap (to_add \cup Present \cup Past) = {}
      /\ m_worker_tasks' \in [Priorities -> Seq(Tasks)]
      /\ \A q \in Priorities : IsInjective(m_worker_tasks'[q])
      /\ Range(m_worker_tasks'["HIGH"]) \cap Range(m_worker_tasks'["MEDIUM"]) = {}
      /\ Waiting' = Waiting \cup added
  BY <1>2, <1>4, AddChildrenMoves
<1>6. \A v \in Workers : (Takes(v)' <=> Takes(v)) /\ task'[v] = task[v]
  BY <1>3 DEF Takes, TypeOK
<1>7. Taken' = Taken /\ Ready' = Ready /\ Past' = Past /\ ~Fine'
  BY <1>3, <1>6 DEF Taken, Ready, Past, Fine
<1>8. Unique'
  BY <1>3, <1>5, <1>6 DEF Once, Unique
<1> QED
  BY <1>1, <1>2, <1>3, <1>4, <1>5, <1>7, <1>8
-----------------------------------------------------------------------------
(***************************************************************************)
(* Every task stays in one place, and none is lost.                        *)
(***************************************************************************)

\* Only tasks which the client adds add others, and no task has two parents.
LEMMA Parents ==
  /\ \A t \in Tasks : Children[t] # {} => t \in Roots
  /\ \A t \in Tasks : \A c \in Children[t] : c \in Tasks /\ c \notin Roots
  /\ \A t, u \in Tasks : \A c : c \in Children[t] /\ c \in Children[u] => t = u
  BY PoolAssumption DEF Roots

LEMMA OnceStep ==
  ASSUME IInv, [Next]_vars
  PROVE  Once'
<1> USE DEF IInv, Once
<1>1. CASE Quietly
  <2>1. Unique'
    BY <1>1 DEF Quietly, Unique
  <2>2. Apart'
    BY <1>1, QuietPlaces DEF Apart, Quietly
  <2> QED BY <2>1, <2>2
<1>2. ASSUME NEW t \in Tasks, AddTask(t) PROVE Once'
  BY <1>2, AddTaskMoves DEF Apart, Present
<1>3. ASSUME NEW w \in Workers, PopTask(w), m_worker_tasks[Top] # <<>> PROVE Once'
  BY <1>3, PopTaskMoves DEF Apart, Present
<1>4. ASSUME NEW w \in Workers, Produce(w) PROVE Once'
  BY <1>4, ProduceMoves DEF Apart, Present
<1>5. ASSUME PopResult, m_main_thread_tasks # <<>> PROVE Once'
  BY <1>5, PopResultMoves DEF Apart, Present
<1>6. CASE ProcessData
  BY <1>6, ProcessDataMoves DEF Apart, Present
<1>7. CASE ProcessDataThrows
  BY <1>7, ProcessDataThrowsMoves DEF Apart, Present
<1> QED
  BY <1>1, <1>2, <1>3, <1>4, <1>5, <1>6, <1>7, Quiet DEF Moving

LEMMA FamiliesStep ==
  ASSUME IInv, [Next]_vars
  PROVE  Families'
<1> USE DEF IInv
<1>1. CASE Quietly
  BY <1>1, QuietPlaces DEF Families, Quietly
<1>2. ASSUME NEW t \in Tasks, AddTask(t) PROVE Families'
  <2>1. t \in Roots /\ to_add' \cup Present' = to_add \cup Present /\ Past' = Past
        /\ Present' = Present \cup {t}
    BY <1>2, AddTaskMoves DEF Present, Control
  <2> QED BY <2>1, Parents DEF Families
<1>3. ASSUME NEW w \in Workers, PopTask(w), m_worker_tasks[Top] # <<>> PROVE Families'
  <2>1. Present' = Present /\ Past' = Past /\ to_add' = to_add
    BY <1>3, PopTaskMoves DEF Present
  <2> QED BY <2>1 DEF Families
<1>4. ASSUME NEW w \in Workers, Produce(w) PROVE Families'
  <2>1. Present' = Present /\ Past' = Past /\ to_add' = to_add
    BY <1>4, ProduceMoves DEF Present
  <2> QED BY <2>1 DEF Families
<1>5. ASSUME PopResult, m_main_thread_tasks # <<>> PROVE Families'
  <2>1. Present' = Present /\ Past' = Past /\ to_add' = to_add
    BY <1>5, PopResultMoves DEF Present
  <2> QED BY <2>1 DEF Families
<1>6. ASSUME NEW x \in InProcess \cap Tasks, NEW added \in SUBSET Children[x],
             Waiting' = Waiting \cup added, Taken' = Taken, Ready' = Ready,
             InProcess = {x}, InProcess' = {}, to_add' = to_add,
             Past' = Past \/ Past' = Past \cup {x}
      PROVE  Families'
  <2>1. x \notin Waiting \cup Taken \cup Ready \cup to_add
    BY <1>6 DEF Once, Apart, Present
  <2>2. Present' = (Present \ {x}) \cup added
    BY <1>6, <2>1, Parents DEF Present
  <2>3. SUFFICES ASSUME NEW t \in Tasks, NEW c \in Children[t], c \in Present' \cup Past'
                 PROVE  t \notin to_add' \cup Present'
    BY DEF Families
  <2>4. t \notin added
    BY Parents, <2>3
  <2>5. CASE c \in added
    <3>1. t = x
      BY <2>5, <1>6, Parents
    <3> QED BY <1>6, <2>1, <2>2, <2>4, <3>1
  <2>6. CASE c \notin added
    <3>1. c \in Present \cup Past
      BY <1>6, <2>2, <2>3, <2>6 DEF Present
    <3>2. t \notin to_add \cup Present
      BY <3>1 DEF Families
    <3> QED BY <1>6, <2>2, <2>4, <3>2
  <2> QED BY <2>5, <2>6
<1>7. CASE ProcessData
  BY <1>6, <1>7, ProcessDataMoves
<1>8. CASE ProcessDataThrows
  BY <1>6, <1>8, ProcessDataThrowsMoves
<1> QED
  BY <1>1, <1>2, <1>3, <1>4, <1>5, <1>7, <1>8, Quiet DEF Moving

\* A step that moves a task hides no failure.
LEMMA FineStep ==
  ASSUME IInv, Moving, Fine'
  PROVE  Fine
<1>1. UNCHANGED <<m_worker_interrupt, m_worker_exceptions>>
  BY DEF Moving, AddTask, PopTask, Produce, PopResult, ProcessData, ProcessDataThrows,
         stateVars
<1>2. UNCHANGED failed \/ failed'
  BY DEF Moving, AddTask, PopTask, Produce, PopResult, ProcessData, ProcessDataThrows,
         procVars
<1> QED
  BY <1>1, <1>2 DEF Fine

LEMMA AccountedStep ==
  ASSUME IInv, [Next]_vars
  PROVE  Accounted'
<1> USE DEF IInv
<1> DEFINE Where(t) == \/ t \in to_add \cup Present \cup Past
                       \/ \E u \in Tasks : t \in Children[u] /\ u \notin Past
<1>0. SUFFICES ASSUME Fine' PROVE \A t \in Tasks : Where(t)'
  BY DEF Accounted
<1>1. Fine => \A t \in Tasks : Where(t)
  BY DEF Accounted
<1>2. ASSUME Fine, to_add' \cup Present' = to_add \cup Present, Past' = Past
      PROVE  \A t \in Tasks : Where(t)'
  BY <1>1, <1>2
<1>3. CASE Quietly
  <2>1. to_add' = to_add /\ Present' = Present /\ Past' = Past /\ Fine
    BY <1>0, <1>3, QuietPlaces DEF Quietly
  <2> QED BY <1>2, <2>1
<1>4. ASSUME NEW t \in Tasks, AddTask(t) PROVE \A s \in Tasks : Where(s)'
  <2>1. Fine /\ to_add' \cup Present' = to_add \cup Present /\ Past' = Past
    BY <1>0, <1>4, AddTaskMoves, FineStep DEF Present, Moving
  <2> QED BY <1>2, <2>1
<1>5. ASSUME NEW w \in Workers, PopTask(w), m_worker_tasks[Top] # <<>>
      PROVE  \A s \in Tasks : Where(s)'
  <2>1. Fine /\ Present' = Present /\ to_add' = to_add /\ Past' = Past
    BY <1>0, <1>5, PopTaskMoves, FineStep DEF Present, Moving
  <2> QED BY <1>2, <2>1
<1>6. ASSUME NEW w \in Workers, Produce(w) PROVE \A s \in Tasks : Where(s)'
  <2>1. Fine /\ Present' = Present /\ to_add' = to_add /\ Past' = Past
    BY <1>0, <1>6, ProduceMoves, FineStep DEF Present, Moving
  <2> QED BY <1>2, <2>1
<1>7. ASSUME PopResult, m_main_thread_tasks # <<>> PROVE \A s \in Tasks : Where(s)'
  <2>1. Fine /\ Present' = Present /\ to_add' = to_add /\ Past' = Past
    BY <1>0, <1>7, PopResultMoves, FineStep DEF Present, Moving
  <2> QED BY <1>2, <2>1
<1>8. CASE ProcessData
  <2>1. Fine
    BY <1>0, <1>8, FineStep DEF Moving
  <2>2. PICK x \in InProcess \cap Tasks :
          /\ Waiting' = Waiting \cup Children[x] /\ Taken' = Taken /\ Ready' = Ready
          /\ InProcess = {x} /\ InProcess' = {} /\ Past' = Past \cup {x}
          /\ to_add' = to_add
    BY <1>8, ProcessDataMoves
  <2>3. /\ to_add' \cup Present' \cup Past' = to_add \cup Present \cup Past \cup Children[x]
    BY <2>2 DEF Present
  <2>4. SUFFICES ASSUME NEW t \in Tasks, t \notin to_add' \cup Present' \cup Past'
                 PROVE  \E u \in Tasks : t \in Children[u] /\ u \notin Past'
    OBVIOUS
  <2>5. PICK u \in Tasks : t \in Children[u] /\ u \notin Past
    BY <1>1, <2>1, <2>3, <2>4
  <2>6. u # x
    BY <2>3, <2>4, <2>5
  <2> QED BY <2>2, <2>5, <2>6
<1>9. CASE ProcessDataThrows
  BY <1>0, <1>9, ProcessDataThrowsMoves
<1> QED
  BY <1>3, <1>4, <1>5, <1>6, <1>7, <1>8, <1>9, Quiet DEF Moving
-----------------------------------------------------------------------------
(***************************************************************************)
(* Types and control.                                                      *)
(***************************************************************************)

\* The workers that are counted: each of them is an active one.
LEMMA CountedActive ==
  ASSUME TypeOK, Counting
  PROVE  /\ IsFiniteSet(Counted) /\ Cardinality(Counted) \in Nat
         /\ \A w \in Counted : m_active_threads >= 1
         /\ m_active_threads \in Nat
<1>1. Counted \subseteq Workers
  BY DEF Counted, TypeOK
<1>2. IsFiniteSet(Counted) /\ Cardinality(Counted) \in Nat /\ IsFiniteSet(Workers)
  BY <1>1, PoolAssumption, FS_Subset, FS_CardinalityType
<1>3. Cardinality(Workers) \in Nat
  BY <1>2, FS_CardinalityType
<1>4. m_active_threads \in Nat /\ Cardinality(Counted) <= m_active_threads
  BY <1>3 DEF TypeOK, Counting
<1>5. Counted # {} => Cardinality(Counted) # 0
  BY <1>2, FS_EmptySet
<1> QED
  BY <1>2, <1>4, <1>5

LEMMA Size ==
  Cardinality(Workers) \in Nat /\ Cardinality(Workers) > 0
<1>1. IsFiniteSet(Workers) /\ Workers # {}
  BY PoolAssumption
<1>2. Cardinality(Workers) \in Nat /\ Cardinality(Workers) # 0
  BY <1>1, FS_CardinalityType, FS_EmptySet
<1> QED BY <1>2

LEMMA LabelsStep ==
  ASSUME IInv, [Next]_vars
  PROVE  pc' \in [Threads -> Labels]
<1> USE Names DEF IInv, TypeOK, Labels, Goto
<1>1. ASSUME NEW th \in Threads, EmergencyShutdown(th) PROVE pc' \in [Threads -> Labels]
  <2>1. AfterShutdown(th) \in Labels
    BY DEF AfterShutdown
  <2> QED
    BY <1>1, <2>1 DEF EmergencyShutdown, TestInterrupt, SetInterrupt, SetTerminated,
                      ShutdownWorkers, ShutdownMain
<1>2. ASSUME NEW w \in Workers,
             \/ PopTask(w) \/ TestPopped(w) \/ Produce(w) \/ ProduceFails(w)
             \/ TestProduced(w) \/ DecrementActive(w) \/ SetProcessing(w)
      PROVE  pc' \in [Threads -> Labels]
  BY <1>2 DEF PopTask, TestPopped, Produce, ProduceFails, TestProduced, DecrementActive,
              SetProcessing
<1>3. ASSUME \/ PopResult \/ TestResult \/ ProcessData \/ ProcessDataThrows
             \/ TestProcessed \/ TestDone \/ SetDone \/ Join
      PROVE  pc' \in [Threads -> Labels]
  BY <1>3 DEF PopResult, TestResult, ProcessData, ProcessDataThrows, TestProcessed,
              TestDone, SetDone, Join
<1>4. ASSUME \/ \E t \in Tasks : AddTask(t)
             \/ AllAdded \/ PollTerminated \/ PollInterrupted \/ PollReceived
             \/ Returns \/ Interrupt \/ UNCHANGED vars
      PROVE  pc' \in [Threads -> Labels]
  BY <1>4 DEF AddTask, AllAdded, PollTerminated, PollInterrupted, PollReceived, Returns,
              Interrupt, vars
<1> QED
  BY <1>1, <1>2, <1>3, <1>4, Cases

LEMMA QueueTypes ==
  ASSUME IInv, [Next]_vars
  PROVE  /\ m_worker_tasks' \in [Priorities -> Seq(Tasks)]
         /\ m_main_thread_tasks' \in Seq(Tasks)
         /\ processed' \in Seq(Tasks)
         /\ to_add' \subseteq Roots
         /\ task' \in [Threads -> Tasks \cup {Guard, None}]
<1> USE Names DEF IInv, TypeOK, Control
<1>1. CASE Quietly
  <2>1. task' \in [Threads -> Tasks \cup {Guard, None}]
    <3>1. ASSUME NEW th \in Threads, EmergencyShutdown(th) PROVE task' = task
      BY <3>1 DEF EmergencyShutdown, TestInterrupt, SetInterrupt, SetTerminated,
                  ShutdownWorkers, ShutdownMain
    <3>2. ASSUME NEW w \in Workers, PopTask(w)
          PROVE  task' \in [Threads -> Tasks \cup {Guard, None}]
      <4>1. CASE m_worker_tasks[Top] # <<>>
        BY <3>2, <4>1, PopTaskMoves
      <4>2. CASE m_worker_tasks[Top] = <<>>
        BY <3>2, <4>2 DEF PopTask
      <4> QED BY <4>1, <4>2
    <3>3. ASSUME NEW w \in Workers,
                 \/ TestPopped(w) \/ Produce(w) \/ ProduceFails(w)
                 \/ TestProduced(w) \/ DecrementActive(w) \/ SetProcessing(w)
          PROVE  task' = task
      BY <3>3 DEF TestPopped, Produce, ProduceFails, TestProduced, DecrementActive,
                  SetProcessing
    <3>4. ASSUME PopResult
          PROVE  task' \in [Threads -> Tasks \cup {Guard, None}]
      <4>1. CASE m_main_thread_tasks # <<>>
        <5>1. PICK x \in Ready \cap Tasks : task' = [task EXCEPT ![Proc] = x]
          BY <3>4, <4>1, PopResultMoves
        <5> QED BY <5>1
      <4>2. CASE m_main_thread_tasks = <<>>
        BY <3>4, <4>2 DEF PopResult
      <4> QED BY <4>1, <4>2
    <3>5. ASSUME \/ TestResult \/ ProcessData \/ ProcessDataThrows
                 \/ TestProcessed \/ TestDone \/ SetDone \/ Join
          PROVE  task' = task
      BY <3>5 DEF TestResult, ProcessData, ProcessDataThrows, TestProcessed,
                  TestDone, SetDone, Join
    <3>6. ASSUME \/ \E t \in Tasks : AddTask(t)
                 \/ AllAdded \/ PollTerminated \/ PollInterrupted \/ PollReceived
                 \/ Returns \/ Interrupt \/ UNCHANGED vars
          PROVE  task' = task
      BY <3>6 DEF AddTask, AllAdded, PollTerminated, PollInterrupted, PollReceived, Returns,
                  Interrupt, vars
    <3> QED BY <3>1, <3>2, <3>3, <3>4, <3>5, <3>6, Cases
  <2> QED BY <1>1, <2>1 DEF Quietly
<1>2. ASSUME NEW t \in Tasks, AddTask(t)
      PROVE  /\ m_worker_tasks' \in [Priorities -> Seq(Tasks)] /\ to_add' \subseteq Roots
             /\ UNCHANGED <<m_main_thread_tasks, processed, task>>
  BY <1>2, AddTaskMoves DEF AddTask, mainQueue, procVars
<1>3. ASSUME NEW w \in Workers, PopTask(w), m_worker_tasks[Top] # <<>>
      PROVE  /\ m_worker_tasks' \in [Priorities -> Seq(Tasks)]
             /\ task' \in [Threads -> Tasks \cup {Guard, None}]
             /\ UNCHANGED <<m_main_thread_tasks, processed, to_add>>
  <2>1. PICK x \in Waiting \cap Tasks : task' = [task EXCEPT ![w] = x]
    BY <1>3, PopTaskMoves
  <2>2. m_worker_tasks' \in [Priorities -> Seq(Tasks)] /\ UNCHANGED to_add
    BY <1>3, PopTaskMoves
  <2> QED BY <1>3, <2>1, <2>2 DEF PopTask, mainQueue, procVars
<1>4. ASSUME NEW w \in Workers, Produce(w)
      PROVE  /\ m_main_thread_tasks' \in Seq(Tasks)
             /\ UNCHANGED <<m_worker_tasks, processed, task, to_add>>
  BY <1>4, ProduceMoves DEF Produce, workerQueue, procVars
<1>5. ASSUME PopResult, m_main_thread_tasks # <<>>
      PROVE  /\ m_main_thread_tasks' \in Seq(Tasks)
             /\ task' \in [Threads -> Tasks \cup {Guard, None}]
             /\ UNCHANGED <<m_worker_tasks, processed, to_add>>
  <2>1. PICK x \in Ready \cap Tasks : task' = [task EXCEPT ![Proc] = x]
    BY <1>5, PopResultMoves
  <2>2. m_main_thread_tasks' \in Seq(Tasks) /\ UNCHANGED to_add
    BY <1>5, PopResultMoves
  <2> QED BY <1>5, <2>1, <2>2 DEF PopResult, workerQueue, procVars
<1>6. ASSUME ProcessData
      PROVE  /\ m_worker_tasks' \in [Priorities -> Seq(Tasks)] /\ processed' \in Seq(Tasks)
             /\ UNCHANGED <<m_main_thread_tasks, task, to_add>>
  BY <1>6, ProcessDataMoves DEF ProcessData, mainQueue
<1>7. ASSUME ProcessDataThrows
      PROVE  /\ m_worker_tasks' \in [Priorities -> Seq(Tasks)]
             /\ UNCHANGED <<m_main_thread_tasks, task, to_add, processed>>
  BY <1>7, ProcessDataThrowsMoves DEF ProcessDataThrows, mainQueue
<1> QED
  BY <1>1, <1>2, <1>3, <1>4, <1>5, <1>6, <1>7, Quiet DEF Moving

LEMMA TypeStep ==
  ASSUME IInv, [Next]_vars
  PROVE  TypeOK'
<1> USE Names, Size DEF IInv
<1>1. /\ pc' \in [Threads -> Labels] /\ to_add' \subseteq Tasks
      /\ m_worker_tasks' \in [Priorities -> Seq(Tasks)]
      /\ m_main_thread_tasks' \in Seq(Tasks)
      /\ processed' \in Seq(Tasks)
      /\ task' \in [Threads -> Tasks \cup {Guard, None}]
  BY LabelsStep, QueueTypes
<1> DEFINE Numbers == worker_guards \in Nat /\ main_guards \in Nat
                        /\ m_active_threads \in 0 .. Cardinality(Workers)
           Others == /\ async \in BOOLEAN /\ m_worker_interrupt \in BOOLEAN
                     /\ m_async_state \in {"IDLE", "PRODUCING", "PROCESSING", "DONE",
                                           "TERMINATED"}
                     /\ m_worker_exceptions \subseteq Workers
                     /\ task_producers \subseteq Tasks \cup {Client}
                     /\ failed \in BOOLEAN /\ interrupted \in BOOLEAN
                     /\ result \in {"none", "returned", "threw"}
<1>2. Numbers /\ Others
  BY DEF TypeOK
<1>3. Numbers'
  <2>1. ASSUME NEW th \in Threads, EmergencyShutdown(th) PROVE Numbers'
    BY <1>2, <2>1 DEF EmergencyShutdown, TestInterrupt, SetInterrupt, SetTerminated,
                      ShutdownWorkers, ShutdownMain, queueVars, workerQueue, mainQueue,
                      stateVars
  <2>2. ASSUME NEW w \in Workers,
               \/ PopTask(w) \/ TestPopped(w) \/ Produce(w) \/ ProduceFails(w)
               \/ TestProduced(w) \/ SetProcessing(w)
        PROVE  Numbers'
    BY <1>2, <2>2 DEF PopTask, TestPopped, Produce, ProduceFails, TestProduced,
                      SetProcessing, queueVars, workerQueue, mainQueue, stateVars
  <2>3. ASSUME NEW w \in Workers, DecrementActive(w) PROVE Numbers'
    <3>1. w \in Counted
      BY <2>3 DEF DecrementActive, Counted
    <3>2. m_active_threads >= 1
      BY <3>1, CountedActive
    <3> QED BY <1>2, <2>3, <3>2 DEF DecrementActive, queueVars, workerQueue, mainQueue
  <2>4. ASSUME \/ PopResult \/ TestResult \/ TestProcessed \/ TestDone \/ SetDone \/ Join
        PROVE  Numbers'
    BY <1>2, <2>4 DEF PopResult, TestResult, TestProcessed, TestDone, SetDone, Join,
                      queueVars, workerQueue, mainQueue, stateVars
  <2>5. ASSUME NEW x, NEW added, AddChildren(x, added) PROVE worker_guards' \in Nat
    BY <1>2, <2>5 DEF AddChildren, TasksDone
  <2>6. ASSUME ProcessData \/ ProcessDataThrows PROVE Numbers'
    <3>1. worker_guards' \in Nat
      BY <2>5, <2>6 DEF ProcessData, ProcessDataThrows
    <3> QED BY <1>2, <2>6, <3>1 DEF ProcessData, ProcessDataThrows, mainQueue, stateVars
  <2>7. ASSUME \/ \E t \in Tasks : AddTask(t)
               \/ PollTerminated \/ PollInterrupted \/ PollReceived
               \/ Returns \/ Interrupt \/ UNCHANGED vars
        PROVE  Numbers'
    BY <1>2, <2>7 DEF AddTask, PollTerminated, PollInterrupted,
                      PollReceived, Returns, Interrupt, vars, queueVars, workerQueue,
                      mainQueue, stateVars
  <2>8. CASE AllAdded
    <3>1. worker_guards' \in Nat
      BY <1>2, <2>8 DEF AllAdded, TasksDone
    <3> QED BY <1>2, <2>8, <3>1 DEF AllAdded, mainQueue, stateVars
  <2> QED BY <2>1, <2>2, <2>3, <2>4, <2>6, <2>7, <2>8, Cases
<1>4. Others'
  <2>1. ASSUME NEW th \in Threads, EmergencyShutdown(th) PROVE Others'
    BY <1>2, <2>1 DEF EmergencyShutdown, TestInterrupt, SetInterrupt, SetTerminated,
                      ShutdownWorkers, ShutdownMain, stateVars, clientVars, procVars
  <2>2. ASSUME NEW w \in Workers,
               \/ PopTask(w) \/ TestPopped(w) \/ Produce(w) \/ ProduceFails(w)
               \/ TestProduced(w) \/ DecrementActive(w) \/ SetProcessing(w)
        PROVE  Others'
    BY <1>2, <2>2 DEF PopTask, TestPopped, Produce, ProduceFails, TestProduced,
                      DecrementActive, SetProcessing, stateVars, clientVars, procVars
  <2>3. ASSUME \/ PopResult \/ TestResult \/ TestProcessed \/ TestDone \/ SetDone \/ Join
        PROVE  Others'
    BY <1>2, <2>3 DEF PopResult, TestResult, TestProcessed, TestDone, SetDone, Join,
                      stateVars, clientVars, procVars
  <2>4. ASSUME ProcessData \/ ProcessDataThrows PROVE Others'
    BY <1>2, <2>4 DEF ProcessData, ProcessDataThrows, AddChildren, stateVars
  <2>5. ASSUME \/ \E t \in Tasks : AddTask(t)
               \/ AllAdded \/ PollTerminated \/ PollInterrupted \/ PollReceived
               \/ Returns \/ Interrupt \/ UNCHANGED vars
        PROVE  Others'
    <3>1. ASSUME \/ \E t \in Tasks : AddTask(t)
                 \/ AllAdded \/ Returns \/ Interrupt
          PROVE  Others'
      BY <1>2, <3>1 DEF AddTask, AllAdded, Returns, Interrupt, stateVars, clientVars,
                        procVars
    <3>2. ASSUME PollTerminated \/ PollInterrupted \/ PollReceived PROVE Others'
      BY <1>2, <3>2 DEF PollTerminated, PollInterrupted, PollReceived, stateVars,
                        clientVars, procVars
    <3>3. ASSUME UNCHANGED vars PROVE Others'
      BY <1>2, <3>3 DEF vars, stateVars, clientVars, procVars
    <3> QED BY <2>5, <3>1, <3>2, <3>3
  <2> QED BY <2>1, <2>2, <2>3, <2>4, <2>5, Cases
<1> QED
  BY <1>1, <1>3, <1>4 DEF TypeOK

\* Failures and interruptions are not taken back.
LEMMA Monotone ==
  ASSUME IInv, [Next]_vars
  PROVE  /\ m_worker_interrupt => m_worker_interrupt'
         /\ failed => failed'
         /\ interrupted => interrupted'
         /\ m_worker_exceptions \subseteq m_worker_exceptions'
         /\ \A w \in m_worker_exceptions' \ m_worker_exceptions : ProduceFails(w)
<1>1. ASSUME NEW th \in Threads, EmergencyShutdown(th)
      PROVE  UNCHANGED <<failed, interrupted, m_worker_exceptions>>
             /\ (UNCHANGED m_worker_interrupt \/ m_worker_interrupt')
  BY <1>1 DEF EmergencyShutdown, TestInterrupt, SetInterrupt, SetTerminated,
              ShutdownWorkers, ShutdownMain, stateVars, clientVars, procVars
<1>2. ASSUME NEW w \in Workers,
             \/ PopTask(w) \/ TestPopped(w) \/ Produce(w)
             \/ TestProduced(w) \/ DecrementActive(w) \/ SetProcessing(w)
      PROVE  UNCHANGED <<failed, interrupted, m_worker_exceptions, m_worker_interrupt>>
  BY <1>2 DEF PopTask, TestPopped, Produce, TestProduced, DecrementActive,
              SetProcessing, stateVars, clientVars, procVars
<1>3. ASSUME NEW w \in Workers, ProduceFails(w)
      PROVE  UNCHANGED <<failed, interrupted, m_worker_interrupt>>
             /\ m_worker_exceptions' = m_worker_exceptions \cup {w}
  BY <1>3 DEF ProduceFails, stateVars, clientVars, procVars
<1>4. ASSUME \/ PopResult \/ TestResult \/ ProcessData \/ ProcessDataThrows
             \/ TestProcessed \/ TestDone \/ SetDone \/ Join
      PROVE  UNCHANGED <<interrupted, m_worker_exceptions, m_worker_interrupt>>
             /\ (UNCHANGED failed \/ failed')
  BY <1>4 DEF PopResult, TestResult, ProcessData, ProcessDataThrows, TestProcessed,
              TestDone, SetDone, Join, stateVars, clientVars, procVars
<1>5. ASSUME \/ \E t \in Tasks : AddTask(t)
             \/ AllAdded \/ PollTerminated \/ PollInterrupted \/ PollReceived
             \/ Returns \/ Interrupt \/ UNCHANGED vars
      PROVE  UNCHANGED <<failed, m_worker_exceptions, m_worker_interrupt>>
             /\ (UNCHANGED interrupted \/ interrupted')
  BY <1>5 DEF AddTask, AllAdded, PollTerminated, PollInterrupted, PollReceived, Returns,
              Interrupt, vars, stateVars, clientVars, procVars
<1> QED
  BY <1>1, <1>2, <1>3, <1>4, <1>5, Cases

LEMMA ControlStep ==
  ASSUME IInv, [Next]_vars
  PROVE  Control'
<1> USE Names DEF IInv
<1> DEFINE C(th) ==
      /\ th \in Workers => /\ pc[th] \in WorkerLabels
                           /\ pc[th] = "popped" => task[th] \in Tasks \cup {Guard}
                           /\ pc[th] = "produce" => task[th] \in Tasks
      /\ th = Proc => /\ pc[th] \in ProcLabels
                      /\ pc[th] = "popped" => task[th] \in Tasks \cup {Guard}
                      /\ pc[th] = "process" => task[th] \in Tasks
      /\ th = Client => pc[th] \in ClientLabels
<1>1. \A th \in Threads : C(th)
  BY DEF Control
<1>2. SUFFICES \A th \in Threads : C(th)'
  BY QueueTypes DEF Control
<1>3. ASSUME NEW o \in Threads, \A v \in Threads : v # o => pc'[v] = pc[v] /\ task'[v] = task[v],
             C(o)'
      PROVE  \A th \in Threads : C(th)'
  <2> SUFFICES ASSUME NEW th \in Threads PROVE C(th)'
    OBVIOUS
  <2>1. CASE th = o
    BY <1>3, <2>1
  <2>2. CASE th # o
    BY <1>1, <1>3, <2>2
  <2> QED BY <2>1, <2>2
<1> USE DEF TypeOK, Goto, WorkerLabels, ProcLabels, ClientLabels, EsLabels
<1>4. ASSUME NEW th \in Threads, EmergencyShutdown(th) PROVE \A t \in Threads : C(t)'
  <2>1. \A v \in Threads : v # th => pc'[v] = pc[v] /\ task'[v] = task[v]
    BY <1>4 DEF EmergencyShutdown, TestInterrupt, SetInterrupt, SetTerminated,
                ShutdownWorkers, ShutdownMain
  <2>2. pc'[th] \in EsLabels \/ pc'[th] = AfterShutdown(th)
    BY <1>4 DEF EmergencyShutdown, TestInterrupt, SetInterrupt, SetTerminated,
                ShutdownWorkers, ShutdownMain
  <2>3. C(th)'
    BY <2>2 DEF AfterShutdown
  <2> QED BY <1>3, <2>1, <2>3
<1>5. ASSUME NEW w \in Workers,
             \/ PopTask(w) \/ TestPopped(w) \/ Produce(w) \/ ProduceFails(w)
             \/ TestProduced(w) \/ DecrementActive(w) \/ SetProcessing(w)
      PROVE  \A th \in Threads : C(th)'
  <2>1. \A v \in Threads : v # w => pc'[v] = pc[v] /\ task'[v] = task[v]
    BY <1>5 DEF PopTask, TestPopped, Produce, ProduceFails, TestProduced, DecrementActive,
                SetProcessing
  <2>2. CASE PopTask(w)
    <3>1. task'[w] \in Tasks \cup {Guard}
      <4>1. CASE m_worker_tasks[Top] # <<>>
        <5>1. PICK x \in Waiting \cap Tasks : task' = [task EXCEPT ![w] = x]
          BY <2>2, <4>1, PopTaskMoves
        <5> QED BY <5>1
      <4>2. CASE m_worker_tasks[Top] = <<>>
        BY <2>2, <4>2 DEF PopTask
      <4> QED BY <4>1, <4>2
    <3>2. pc'[w] = "popped"
      BY <2>2 DEF PopTask
    <3>3. C(w)'
      BY <3>1, <3>2
    <3> QED BY <1>3, <2>1, <3>3
  <2>3. CASE TestPopped(w)
    <3>1. C(w)'
      BY <1>1, <2>3 DEF TestPopped
    <3> QED BY <1>3, <2>1, <3>1
  <2>4. CASE Produce(w) \/ ProduceFails(w) \/ TestProduced(w) \/ DecrementActive(w)
               \/ SetProcessing(w)
    <3>1. C(w)'
      BY <1>1, <2>4 DEF Produce, ProduceFails, TestProduced, DecrementActive, SetProcessing
    <3> QED BY <1>3, <2>1, <3>1
  <2> QED BY <1>5, <2>2, <2>3, <2>4
<1>6. ASSUME \/ PopResult \/ TestResult \/ ProcessData \/ ProcessDataThrows
             \/ TestProcessed \/ TestDone \/ SetDone \/ Join
      PROVE  \A th \in Threads : C(th)'
  <2>1. \A v \in Threads : v # Proc => pc'[v] = pc[v] /\ task'[v] = task[v]
    BY <1>6 DEF PopResult, TestResult, ProcessData, ProcessDataThrows, TestProcessed,
                TestDone, SetDone, Join
  <2>2. CASE PopResult
    <3>1. task'[Proc] \in Tasks \cup {Guard}
      <4>1. CASE m_main_thread_tasks # <<>>
        <5>1. PICK x \in Ready \cap Tasks : task' = [task EXCEPT ![Proc] = x]
          BY <2>2, <4>1, PopResultMoves
        <5> QED BY <5>1
      <4>2. CASE m_main_thread_tasks = <<>>
        BY <2>2, <4>2 DEF PopResult
      <4> QED BY <4>1, <4>2
    <3>2. pc'[Proc] = "popped"
      BY <2>2 DEF PopResult
    <3>3. C(Proc)'
      BY <3>1, <3>2
    <3> QED BY <1>3, <2>1, <3>3
  <2>3. CASE TestResult
    <3>1. C(Proc)'
      BY <1>1, <2>3 DEF TestResult
    <3> QED BY <1>3, <2>1, <3>1
  <2>4. CASE \/ ProcessData \/ ProcessDataThrows \/ TestProcessed \/ TestDone
             \/ SetDone \/ Join
    <3>1. pc'[Proc] \in {"check", "es_test", "done_test", "pop", "join", "done_set", "gone"}
      BY <2>4 DEF ProcessData, ProcessDataThrows, TestProcessed, TestDone, SetDone, Join
    <3>2. C(Proc)'
      BY <3>1
    <3> QED BY <1>3, <2>1, <3>2
  <2> QED BY <1>6, <2>2, <2>3, <2>4
<1>7. ASSUME AllAdded \/ PollTerminated \/ PollInterrupted \/ PollReceived \/ Returns
      PROVE  \A th \in Threads : C(th)'
  <2>1. /\ \A v \in Threads : v # Client => pc'[v] = pc[v] /\ task'[v] = task[v]
        /\ pc'[Client] \in {"poll", "wait", "es_test", "gone"}
    BY <1>7 DEF AllAdded, PollTerminated, PollInterrupted, PollReceived, Returns
  <2>2. C(Client)'
    BY <2>1
  <2> QED BY <1>3, <2>1, <2>2
<1>8. ASSUME (\E t \in Tasks : AddTask(t)) \/ Interrupt \/ UNCHANGED vars
      PROVE  \A th \in Threads : C(th)'
  <2>1. UNCHANGED <<pc, task>>
    BY <1>8 DEF AddTask, Interrupt, vars
  <2> QED BY <1>1, <2>1
<1> QED
  BY <1>4, <1>5, <1>6, <1>7, <1>8, Cases

LEMMA ReasonsStep ==
  ASSUME IInv, [Next]_vars
  PROVE  Reasons'
<1> USE Names DEF IInv, TypeOK
<1> DEFINE R(th) ==
      /\ th \in m_worker_exceptions =>
           \/ pc[th] \in {"es_test", "es_interrupt"}
           \/ m_worker_interrupt
                /\ pc[th] \in {"es_state", "es_workers", "es_main", "gone"}
      /\ th \in Workers /\ pc[th] \in EsLabels \ {"es_main"} => th \in m_worker_exceptions
      /\ pc[th] \in {"es_state", "es_workers"} => m_worker_interrupt
      /\ th \in {Client, Proc} /\ pc[th] = "es_main" => m_worker_interrupt
      /\ th = Proc /\ pc[th] \in EsLabels => failed \/ interrupted
      /\ th = Client /\ pc[th] \in EsLabels => interrupted
<1>1. \A th \in Threads : R(th)
  BY DEF Reasons
<1>2. m_worker_interrupt => failed \/ interrupted \/ m_worker_exceptions # {}
  BY DEF Reasons
<1>3. ASSUME \A th \in Threads : R(th)', UNCHANGED m_worker_interrupt
      PROVE  Reasons'
  <2>1. (failed => failed') /\ (interrupted => interrupted')
        /\ (m_worker_exceptions # {} => m_worker_exceptions' # {})
    BY Monotone
  <2>2. m_worker_exceptions' \subseteq Workers
    BY TypeStep
  <2> QED BY <1>2, <1>3, <2>1, <2>2 DEF Reasons
<1>4. ASSUME NEW o \in Threads, \A v \in Threads : v # o => pc'[v] = pc[v],
             ~ProduceFails(o) => m_worker_exceptions' = m_worker_exceptions,
             ProduceFails(o) => m_worker_exceptions' = m_worker_exceptions \cup {o},
             R(o)'
      PROVE  \A th \in Threads : R(th)'
  <2> SUFFICES ASSUME NEW th \in Threads PROVE R(th)'
    OBVIOUS
  <2>1. CASE th = o
    BY <1>4, <2>1
  <2>2. CASE th # o
    <3>1. (th \in m_worker_exceptions' <=> th \in m_worker_exceptions) /\ pc'[th] = pc[th]
      BY <1>4, <2>2
    <3>2. /\ m_worker_interrupt => m_worker_interrupt'
          /\ failed => failed'
          /\ interrupted => interrupted'
      BY Monotone
    <3> QED BY <1>1, <3>1, <3>2
  <2> QED BY <2>1, <2>2
<1> USE DEF Goto, EsLabels
<1>5. ASSUME NEW th \in Threads, EmergencyShutdown(th) PROVE Reasons'
  <2>1. /\ \A v \in Threads : v # th => pc'[v] = pc[v]
        /\ UNCHANGED <<m_worker_exceptions, failed, interrupted>>
        /\ ~ProduceFails(th)
    BY <1>5 DEF EmergencyShutdown, TestInterrupt, SetInterrupt, SetTerminated,
                ShutdownWorkers, ShutdownMain, procVars, clientVars, ProduceFails
  <2>2. CASE TestInterrupt(th)
    <3>1. /\ pc[th] = "es_test" /\ UNCHANGED m_worker_interrupt
          /\ \/ m_worker_interrupt /\ pc'[th] = AfterShutdown(th)
             \/ ~m_worker_interrupt /\ pc'[th] = "es_interrupt"
      BY <2>2 DEF TestInterrupt, stateVars
    <3>2. R(th)'
      BY <1>1, <2>1, <3>1 DEF AfterShutdown
    <3> QED BY <1>3, <1>4, <2>1, <3>1, <3>2
  <2>3. CASE SetInterrupt(th)
    <3>1. pc[th] = "es_interrupt" /\ m_worker_interrupt' /\ pc'[th] = "es_state"
      BY <2>3 DEF SetInterrupt
    <3>2. R(th)'
      BY <1>1, <2>1, <3>1
    <3>3. failed \/ interrupted \/ m_worker_exceptions # {}
      BY <1>1, <3>1 DEF Threads
    <3>4. \A v \in Threads : R(v)'
      BY <1>4, <2>1, <3>2
    <3>5. m_worker_exceptions' \subseteq Workers
      BY TypeStep
    <3> QED BY <2>1, <3>3, <3>4, <3>5 DEF Reasons
  <2>4. CASE SetTerminated(th)
    <3>1. pc[th] = "es_state" /\ UNCHANGED m_worker_interrupt /\ pc'[th] = "es_workers"
      BY <2>4 DEF SetTerminated
    <3>2. R(th)'
      BY <1>1, <2>1, <3>1
    <3> QED BY <1>3, <1>4, <2>1, <3>1, <3>2
  <2>5. CASE ShutdownWorkers(th)
    <3>1. pc[th] = "es_workers" /\ UNCHANGED m_worker_interrupt /\ pc'[th] = "es_main"
      BY <2>5 DEF ShutdownWorkers, stateVars
    <3>2. R(th)'
      BY <1>1, <2>1, <3>1
    <3> QED BY <1>3, <1>4, <2>1, <3>1, <3>2
  <2>6. CASE ShutdownMain(th)
    <3>1. pc[th] = "es_main" /\ UNCHANGED m_worker_interrupt /\ pc'[th] = AfterShutdown(th)
      BY <2>6 DEF ShutdownMain, stateVars
    <3>2. R(th)'
      BY <1>1, <2>1, <3>1 DEF AfterShutdown
    <3> QED BY <1>3, <1>4, <2>1, <3>1, <3>2
  <2> QED BY <1>5, <2>2, <2>3, <2>4, <2>5, <2>6 DEF EmergencyShutdown
<1>6. ASSUME NEW w \in Workers,
             \/ PopTask(w) \/ TestPopped(w) \/ Produce(w)
             \/ TestProduced(w) \/ DecrementActive(w) \/ SetProcessing(w)
      PROVE  Reasons'
  <2>1. /\ \A v \in Threads : v # w => pc'[v] = pc[v]
        /\ UNCHANGED <<m_worker_exceptions, m_worker_interrupt>>
        /\ pc[w] \in {"pop", "popped", "produce", "produced", "shutdown", "processing"}
        /\ pc'[w] \in {"popped", "produce", "produced", "pop", "shutdown", "processing",
                       "gone", "es_main"}
    BY <1>6 DEF PopTask, TestPopped, Produce, TestProduced, DecrementActive, SetProcessing,
                stateVars
  <2>2. w \notin m_worker_exceptions
    BY <1>1, <2>1
  <2>3. R(w)'
    BY <2>1, <2>2
  <2>4. ~ProduceFails(w)
    BY <2>1 DEF ProduceFails
  <2> QED BY <1>3, <1>4, <2>1, <2>3, <2>4
<1>7. ASSUME NEW w \in Workers, ProduceFails(w) PROVE Reasons'
  <2>1. /\ \A v \in Threads : v # w => pc'[v] = pc[v]
        /\ m_worker_exceptions' = m_worker_exceptions \cup {w}
        /\ UNCHANGED m_worker_interrupt
        /\ pc'[w] = "es_test"
    BY <1>7 DEF ProduceFails, stateVars
  <2>2. R(w)'
    BY <2>1
  <2> QED BY <1>3, <1>4, <1>7, <2>1, <2>2
<1>8. ASSUME \/ PopResult \/ TestResult \/ ProcessData \/ ProcessDataThrows
             \/ TestProcessed \/ TestDone \/ SetDone \/ Join
      PROVE  Reasons'
  <2>1. /\ \A v \in Threads : v # Proc => pc'[v] = pc[v]
        /\ UNCHANGED <<m_worker_exceptions, m_worker_interrupt, interrupted>>
        /\ pc'[Proc] \in {"popped", "process", "check", "es_test", "done_test", "pop",
                          "join", "done_set", "gone"}
        /\ pc[Proc] \in {"pop", "popped", "process", "check", "done_test", "done_set", "join"}
    BY <1>8 DEF PopResult, TestResult, ProcessData, ProcessDataThrows, TestProcessed,
                TestDone, SetDone, Join, stateVars, clientVars
  <2>2. pc'[Proc] = "es_test" => interrupted \/ failed'
    BY <1>8 DEF PopResult, TestResult, ProcessData, ProcessDataThrows, TestProcessed,
                TestDone, SetDone, Join
  <2>3. ~ProduceFails(Proc)
    BY <2>1, <1>8 DEF PopResult, TestResult, ProcessData, ProcessDataThrows, TestProcessed,
                TestDone, SetDone, Join, ProduceFails
  <2>4. R(Proc)'
    BY <2>1, <2>2
  <2> QED BY <1>3, <1>4, <2>1, <2>3, <2>4
<1>9. ASSUME AllAdded \/ PollTerminated \/ PollInterrupted \/ PollReceived \/ Returns
      PROVE  Reasons'
  <2>1. /\ \A v \in Threads : v # Client => pc'[v] = pc[v]
        /\ UNCHANGED <<m_worker_exceptions, m_worker_interrupt>>
        /\ pc'[Client] \in {"poll", "wait", "es_test", "gone"}
        /\ pc[Client] \in {"add", "poll", "wait"}
    BY <1>9 DEF AllAdded, PollTerminated, PollInterrupted, PollReceived, Returns, stateVars
  <2>2. pc'[Client] = "es_test" => interrupted'
    BY <1>9 DEF AllAdded, PollTerminated, PollInterrupted, PollReceived, Returns, clientVars
  <2>3. R(Client)' /\ ~ProduceFails(Client)
    BY <2>1, <2>2 DEF ProduceFails
  <2> QED BY <1>3, <1>4, <2>1, <2>3
<1>10. ASSUME (\E t \in Tasks : AddTask(t)) \/ Interrupt \/ UNCHANGED vars
       PROVE  Reasons'
  <2>1. UNCHANGED <<pc, m_worker_exceptions, m_worker_interrupt>>
    BY <1>10 DEF AddTask, Interrupt, vars, stateVars
  <2>2. (failed => failed') /\ (interrupted => interrupted')
    BY Monotone
  <2>3. \A th \in Threads : R(th)'
    BY <1>1, <2>1, <2>2
  <2> QED BY <1>3, <2>1, <2>3
<1> QED
  BY <1>5, <1>6, <1>7, <1>8, <1>9, <1>10, Cases
-----------------------------------------------------------------------------
(***************************************************************************)
(* The workers that are active, and what the processor is told.            *)
(***************************************************************************)

LEMMA CountedStep ==
  ASSUME IInv, [Next]_vars
  PROVE  /\ Cardinality(Counted') <= m_active_threads'
         /\ m_active_threads = 0 => m_active_threads' = 0
<1> USE Names DEF IInv, TypeOK
<1>0. /\ IsFiniteSet(Counted) /\ Cardinality(Counted) \in Nat /\ m_active_threads \in Nat
      /\ Cardinality(Counted) <= m_active_threads
      /\ \A w \in Counted : m_active_threads >= 1
  BY CountedActive DEF Counting
<1>1. ASSUME Counted' \subseteq Counted, UNCHANGED m_active_threads
      PROVE  Cardinality(Counted') <= m_active_threads'
  <2>1. PICK S, T : S = Counted /\ T = Counted'
    OBVIOUS
  <2>2. IsFiniteSet(T) /\ Cardinality(T) <= Cardinality(S)
    BY <1>0, <1>1, <2>1, FS_Subset
  <2>3. Cardinality(T) \in Nat
    BY <2>2, FS_CardinalityType
  <2> QED BY <1>0, <1>1, <2>1, <2>2, <2>3
<1> USE DEF Goto, EsLabels
<1>2. ASSUME NEW th \in Threads, EmergencyShutdown(th)
      PROVE  Counted' \subseteq Counted /\ UNCHANGED m_active_threads
  <2>1. /\ UNCHANGED <<m_active_threads, m_worker_exceptions>>
        /\ \A v \in Threads : v # th => pc'[v] = pc[v]
        /\ pc'[th] \in EsLabels \/ pc'[th] = AfterShutdown(th)
    BY <1>2 DEF EmergencyShutdown, TestInterrupt, SetInterrupt, SetTerminated,
                ShutdownWorkers, ShutdownMain, stateVars
  <2>2. \A w \in Workers : pc'[w] = pc[w] \/ pc'[w] \in EsLabels \/ pc'[w] = "gone"
    BY <2>1 DEF AfterShutdown
  <2> QED BY <2>1, <2>2 DEF Counted
<1>3. ASSUME NEW w \in Workers,
             \/ PopTask(w) \/ TestPopped(w) \/ Produce(w) \/ ProduceFails(w)
             \/ TestProduced(w) \/ SetProcessing(w)
      PROVE  Counted' \subseteq Counted /\ UNCHANGED m_active_threads
  <2>1. /\ UNCHANGED <<m_active_threads>>
        /\ \A v \in Threads : v # w => pc'[v] = pc[v]
    BY <1>3 DEF PopTask, TestPopped, Produce, ProduceFails, TestProduced, SetProcessing,
                stateVars
  <2>2. \/ pc[w] \in {"pop", "popped", "produce", "produced", "shutdown"}
        \/ pc'[w] = "es_main"
    BY <1>3 DEF PopTask, TestPopped, Produce, ProduceFails, TestProduced, SetProcessing
  <2>3. m_worker_exceptions' = m_worker_exceptions
        \/ (m_worker_exceptions' = m_worker_exceptions \cup {w} /\ pc[w] = "produce")
    BY <1>3 DEF PopTask, TestPopped, Produce, ProduceFails, TestProduced, SetProcessing
  <2> QED BY <2>1, <2>2, <2>3 DEF Counted
<1>4. ASSUME \/ PopResult \/ TestResult \/ ProcessData \/ ProcessDataThrows
             \/ TestProcessed \/ TestDone \/ SetDone \/ Join
      PROVE  Counted' \subseteq Counted /\ UNCHANGED m_active_threads
  <2>1. /\ \A v \in Threads : v # Proc => pc'[v] = pc[v]
        /\ UNCHANGED <<m_worker_exceptions, m_active_threads>>
    BY <1>4 DEF PopResult, TestResult, ProcessData, ProcessDataThrows, TestProcessed,
                TestDone, SetDone, Join, stateVars
  <2> QED BY <2>1 DEF Counted
<1>5. ASSUME \/ \E t \in Tasks : AddTask(t)
             \/ AllAdded \/ PollTerminated \/ PollInterrupted \/ PollReceived
             \/ Returns \/ Interrupt \/ UNCHANGED vars
      PROVE  Counted' \subseteq Counted /\ UNCHANGED m_active_threads
  <2>1. /\ \A v \in Threads : v # Client => pc'[v] = pc[v]
        /\ UNCHANGED <<m_worker_exceptions, m_active_threads>>
    BY <1>5 DEF AddTask, AllAdded, PollTerminated, PollInterrupted, PollReceived, Returns,
                Interrupt, vars, stateVars
  <2> QED BY <2>1 DEF Counted
<1>6. ASSUME NEW w \in Workers, DecrementActive(w)
      PROVE  /\ Cardinality(Counted') <= m_active_threads'
             /\ m_active_threads # 0
  <2>1. /\ pc[w] = "shutdown" /\ pc'[w] \in {"processing", "gone"}
        /\ \A v \in Threads : v # w => pc'[v] = pc[v]
        /\ m_active_threads' = m_active_threads - 1
        /\ UNCHANGED m_worker_exceptions
    BY <1>6 DEF DecrementActive
  <2>2. w \in Counted /\ w \notin m_worker_exceptions
    BY <2>1 DEF Counted, Reasons
  <2>3. Counted' \subseteq Counted \ {w}
    BY <2>1, <2>2 DEF Counted
  <2>4. PICK S, T : S = Counted /\ T = Counted'
    OBVIOUS
  <2>5. IsFiniteSet(S \ {w}) /\ Cardinality(S \ {w}) = Cardinality(S) - 1
    BY <1>0, <2>2, <2>4, FS_RemoveElement
  <2>6. PICK U : U = S \ {w}
    OBVIOUS
  <2>7. IsFiniteSet(U) /\ T \subseteq U /\ Cardinality(U) = Cardinality(S) - 1
    BY <2>3, <2>4, <2>5, <2>6
  <2>8. IsFiniteSet(T) /\ Cardinality(T) <= Cardinality(U)
    BY <2>7, FS_Subset
  <2>9. Cardinality(T) \in Nat /\ Cardinality(U) \in Nat
    BY <2>7, <2>8, FS_CardinalityType
  <2> QED BY <1>0, <2>1, <2>2, <2>4, <2>7, <2>8, <2>9
<1> QED
  BY <1>1, <1>2, <1>3, <1>4, <1>5, <1>6, Cases

LEMMA ToldStep ==
  ASSUME IInv, [Next]_vars, Told
  PROVE  Told'
  BY CountedStep, Monotone DEF Told

\* Nothing is produced once no worker is active.
LEMMA NothingProduced ==
  ASSUME IInv, NEW w \in Workers, Produce(w), Told
  PROVE  m_worker_interrupt
<1>1. w \in Counted
  BY DEF Produce, Counted
<1>2. m_active_threads >= 1 /\ m_active_threads \in Nat
  BY <1>1, CountedActive DEF IInv
<1> QED
  BY <1>2 DEF Told

LEMMA CountingStep ==
  ASSUME IInv, [Next]_vars
  PROVE  Counting'
<1> USE Names DEF IInv, TypeOK
<1>0. Told => Told'
  BY ToldStep
<1>1. m_active_threads = 0 => m_active_threads' = 0
  BY CountedStep
<1>2. \A w \in Workers : pc'[w] = "processing" => m_active_threads' = 0
  <2>1. ASSUME NEW w \in Workers, pc'[w] = "processing", pc[w] # "processing"
        PROVE  m_active_threads' = 0
    <3>1. ASSUME NEW th \in Threads, EmergencyShutdown(th) PROVE FALSE
      <4>1. pc'[w] = pc[w] \/ pc'[w] \in EsLabels \/ pc'[w] = "gone"
        BY <3>1 DEF EmergencyShutdown, TestInterrupt, SetInterrupt, SetTerminated,
                    ShutdownWorkers, ShutdownMain, AfterShutdown, Goto, EsLabels
      <4> QED BY <2>1, <4>1 DEF EsLabels
    <3>2. ASSUME NEW v \in Workers,
                 \/ PopTask(v) \/ TestPopped(v) \/ Produce(v) \/ ProduceFails(v)
                 \/ TestProduced(v) \/ SetProcessing(v)
          PROVE  FALSE
      BY <2>1, <3>2 DEF PopTask, TestPopped, Produce, ProduceFails, TestProduced,
                        SetProcessing, Goto
    <3>3. ASSUME \/ PopResult \/ TestResult \/ ProcessData \/ ProcessDataThrows
                 \/ TestProcessed \/ TestDone \/ SetDone \/ Join
          PROVE  FALSE
      BY <2>1, <3>3 DEF PopResult, TestResult, ProcessData, ProcessDataThrows,
                        TestProcessed, TestDone, SetDone, Join, Goto
    <3>4. ASSUME \/ \E t \in Tasks : AddTask(t)
                 \/ AllAdded \/ PollTerminated \/ PollInterrupted \/ PollReceived
                 \/ Returns \/ Interrupt \/ UNCHANGED vars
          PROVE  FALSE
      BY <2>1, <3>4 DEF AddTask, AllAdded, PollTerminated, PollInterrupted, PollReceived,
                        Returns, Interrupt, vars, Goto
    <3>5. ASSUME NEW v \in Workers, DecrementActive(v)
          PROVE  m_active_threads' = 0
      <4>1. v = w /\ m_active_threads = 1
        BY <2>1, <3>5 DEF DecrementActive, Goto
      <4> QED BY <3>5, <4>1 DEF DecrementActive
    <3> QED BY <3>1, <3>2, <3>3, <3>4, <3>5, Cases
  <2> QED BY <1>1, <2>1 DEF Counting
<1>3. ASSUME NEW th \in Threads, pc'[th] = "es_main" PROVE Told'
  <2>1. CASE pc[th] = "es_main"
    BY <1>0, <2>1 DEF Counting
  <2>2. CASE pc[th] # "es_main"
    <3>1. ASSUME NEW v \in Threads, EmergencyShutdown(v) PROVE Told
      <4>1. pc[th] = "es_workers"
        BY <1>3, <2>2, <3>1 DEF EmergencyShutdown, TestInterrupt, SetInterrupt, SetTerminated,
                    ShutdownWorkers, ShutdownMain, AfterShutdown, Goto, EsLabels
      <4> QED BY <4>1 DEF Reasons, Told
    <3>2. ASSUME NEW v \in Workers,
                 \/ PopTask(v) \/ TestPopped(v) \/ Produce(v) \/ ProduceFails(v)
                 \/ TestProduced(v) \/ DecrementActive(v)
          PROVE  FALSE
      BY <1>3, <2>2, <3>2 DEF PopTask, TestPopped, Produce, ProduceFails, TestProduced,
                        DecrementActive, Goto
    <3>3. ASSUME \/ PopResult \/ TestResult \/ ProcessData \/ ProcessDataThrows
                 \/ TestProcessed \/ TestDone \/ SetDone \/ Join
          PROVE  FALSE
      BY <1>3, <2>2, <3>3 DEF PopResult, TestResult, ProcessData, ProcessDataThrows,
                        TestProcessed, TestDone, SetDone, Join, Goto
    <3>4. ASSUME \/ \E t \in Tasks : AddTask(t)
                 \/ AllAdded \/ PollTerminated \/ PollInterrupted \/ PollReceived
                 \/ Returns \/ Interrupt \/ UNCHANGED vars
          PROVE  FALSE
      BY <1>3, <2>2, <3>4 DEF AddTask, AllAdded, PollTerminated, PollInterrupted, PollReceived,
                        Returns, Interrupt, vars, Goto
    <3>5. ASSUME NEW v \in Workers, SetProcessing(v)
          PROVE  Told
      BY <3>5 DEF SetProcessing, Counting, Told
    <3> QED BY <1>0, <3>1, <3>2, <3>3, <3>4, <3>5, Cases
  <2> QED BY <2>1, <2>2
<1>4. main_guards' > 0 => Told'
  <2>1. ASSUME NEW v \in Threads, EmergencyShutdown(v) PROVE main_guards' = main_guards \/ Told
    <3>1. main_guards' = main_guards \/ pc[v] = "es_main"
      BY <2>1 DEF EmergencyShutdown, TestInterrupt, SetInterrupt, SetTerminated,
                  ShutdownWorkers, ShutdownMain, queueVars, mainQueue
    <3> QED BY <3>1 DEF Counting
  <2>2. ASSUME NEW v \in Workers,
               \/ PopTask(v) \/ TestPopped(v) \/ Produce(v) \/ ProduceFails(v)
               \/ TestProduced(v) \/ DecrementActive(v) \/ SetProcessing(v)
        PROVE  main_guards' = main_guards
    BY <2>2 DEF PopTask, TestPopped, Produce, ProduceFails, TestProduced,
                DecrementActive, SetProcessing, queueVars, mainQueue
  <2>3. ASSUME \/ TestResult \/ ProcessData \/ ProcessDataThrows
               \/ TestProcessed \/ TestDone \/ SetDone \/ Join
        PROVE  main_guards' = main_guards
    BY <2>3 DEF TestResult, ProcessData, ProcessDataThrows,
                TestProcessed, TestDone, SetDone, Join, queueVars, mainQueue
  <2>4. CASE PopResult
    <3>1. main_guards' = main_guards \/ main_guards > 0
      BY <2>4 DEF PopResult
    <3> QED BY <1>0, <3>1 DEF Counting
  <2>5. ASSUME \/ \E t \in Tasks : AddTask(t)
               \/ AllAdded \/ PollTerminated \/ PollInterrupted \/ PollReceived
               \/ Returns \/ Interrupt \/ UNCHANGED vars
        PROVE  main_guards' = main_guards
    BY <2>5 DEF AddTask, AllAdded, PollTerminated, PollInterrupted, PollReceived,
                Returns, Interrupt, vars, queueVars, mainQueue
  <2> QED BY <1>0, <2>1, <2>2, <2>3, <2>4, <2>5, Cases DEF Counting
<1>5. /\ pc'[Proc] = "done_set" => m_active_threads' = 0
      /\ Leaving' => Told' /\ (m_worker_interrupt' \/ m_main_thread_tasks' = <<>>)
  <2> DEFINE Goal ==
        /\ pc'[Proc] = "done_set" => m_active_threads' = 0
        /\ Leaving' => Told' /\ (m_worker_interrupt' \/ m_main_thread_tasks' = <<>>)
  <2>0. /\ pc[Proc] = "done_set" => m_active_threads = 0
        /\ Leaving => Told /\ (m_worker_interrupt \/ m_main_thread_tasks = <<>>)
        /\ m_worker_interrupt => m_worker_interrupt'
    BY Monotone DEF Counting
  <2>1. ASSUME pc'[Proc] = pc[Proc], task'[Proc] = task[Proc],
               \/ UNCHANGED m_main_thread_tasks
               \/ \E w \in Workers : Produce(w)
        PROVE  Goal
    <3>1. Leaving' => Leaving
      BY <2>1 DEF Leaving
    <3>2. CASE UNCHANGED m_main_thread_tasks
      BY <1>0, <1>1, <2>0, <2>1, <3>1, <3>2
    <3>3. ASSUME NEW w \in Workers, Produce(w)
          PROVE  Goal
      <4>1. Told => m_worker_interrupt
        BY <3>3, NothingProduced
      <4> QED BY <1>0, <1>1, <2>0, <2>1, <3>1, <4>1
    <3> QED BY <2>1, <3>2, <3>3
  <2>2. ASSUME NEW v \in Threads, v # Proc, EmergencyShutdown(v)
        PROVE  /\ pc'[Proc] = pc[Proc] /\ task'[Proc] = task[Proc]
               /\ UNCHANGED m_main_thread_tasks
    BY <2>2 DEF EmergencyShutdown, TestInterrupt, SetInterrupt, SetTerminated,
                ShutdownWorkers, ShutdownMain, queueVars, mainQueue, Goto
  <2>3. ASSUME EmergencyShutdown(Proc)
        PROVE  Goal
    <3>1. pc'[Proc] \in EsLabels \/ (pc'[Proc] \in {"join", "check"} /\ m_worker_interrupt)
      <4>1. \/ pc'[Proc] \in EsLabels
            \/ pc'[Proc] = AfterShutdown(Proc) /\ (m_worker_interrupt \/ pc[Proc] = "es_main")
        BY <2>3 DEF EmergencyShutdown, TestInterrupt, SetInterrupt, SetTerminated,
                    ShutdownWorkers, ShutdownMain, Goto, EsLabels
      <4>2. pc[Proc] = "es_main" => m_worker_interrupt
        BY DEF Reasons
      <4> QED BY <4>1, <4>2 DEF AfterShutdown
    <3> QED BY <1>0, <2>0, <3>1 DEF Leaving, EsLabels, Told
  <2>4. ASSUME NEW v \in Workers,
               \/ PopTask(v) \/ TestPopped(v) \/ ProduceFails(v)
               \/ TestProduced(v) \/ DecrementActive(v) \/ SetProcessing(v)
        PROVE  /\ pc'[Proc] = pc[Proc] /\ task'[Proc] = task[Proc]
               /\ UNCHANGED m_main_thread_tasks
    BY <2>4 DEF PopTask, TestPopped, ProduceFails, TestProduced,
                DecrementActive, SetProcessing, queueVars, mainQueue, Goto
  <2>5. ASSUME NEW v \in Workers, Produce(v)
        PROVE  pc'[Proc] = pc[Proc] /\ task'[Proc] = task[Proc]
    BY <2>5 DEF Produce, Goto
  <2>6. CASE PopResult
    <3>1. CASE m_main_thread_tasks # <<>>
      <4>1. PICK x \in Ready \cap Tasks : task' = [task EXCEPT ![Proc] = x]
        BY <2>6, <3>1, PopResultMoves
      <4>2. pc'[Proc] = "popped" /\ task'[Proc] # Guard
        BY <2>6, <4>1 DEF PopResult, Goto
      <4> QED BY <4>2 DEF Leaving
    <3>2. CASE m_main_thread_tasks = <<>>
      <4>1. main_guards > 0 /\ m_main_thread_tasks' = <<>> /\ pc'[Proc] = "popped"
        BY <2>6, <3>2 DEF PopResult, Goto
      <4> QED BY <1>0, <4>1 DEF Counting
    <3> QED BY <3>1, <3>2
  <2>7. CASE TestResult
    <3>1. /\ UNCHANGED <<m_main_thread_tasks, m_worker_interrupt>>
          /\ pc[Proc] = "popped"
          /\ \/ pc'[Proc] = "done_test" /\ (m_worker_interrupt \/ task[Proc] = Guard)
             \/ pc'[Proc] = "process"
      BY <2>7 DEF TestResult, Goto, queueVars, mainQueue, stateVars
    <3>2. pc'[Proc] = "done_test" => m_worker_interrupt \/ Leaving
      BY <3>1 DEF Leaving
    <3> QED BY <1>0, <2>0, <3>1, <3>2 DEF Leaving, Told
  <2>8. CASE ProcessData \/ ProcessDataThrows
    <3>1. pc'[Proc] \in {"check", "es_test"}
      BY <2>8 DEF ProcessData, ProcessDataThrows, Goto
    <3> QED BY <3>1 DEF Leaving
  <2>9. CASE TestProcessed
    <3>1. pc'[Proc] = "pop" \/ (pc'[Proc] = "done_test" /\ m_worker_interrupt)
      BY <2>9 DEF TestProcessed, Goto
    <3> QED BY <2>0, <3>1, <1>0 DEF Leaving, Told
  <2>10. CASE TestDone
    <3>1. /\ pc[Proc] = "done_test" /\ UNCHANGED m_main_thread_tasks
          /\ pc'[Proc] = "done_set" => ~m_worker_interrupt
      BY <2>10 DEF TestDone, Goto, queueVars, mainQueue
    <3>2. Leaving
      BY <3>1 DEF Leaving
    <3> QED BY <1>0, <1>1, <2>0, <3>1, <3>2 DEF Told
  <2>11. CASE SetDone \/ Join
    <3>1. pc[Proc] \in {"done_set", "join"} /\ UNCHANGED m_main_thread_tasks
          /\ pc'[Proc] \in {"join", "gone"}
      BY <2>11 DEF SetDone, Join, Goto, queueVars, mainQueue
    <3>2. Leaving
      BY <3>1 DEF Leaving
    <3> QED BY <1>0, <2>0, <3>1, <3>2
  <2>12. ASSUME \/ \E t \in Tasks : AddTask(t)
                \/ AllAdded \/ PollTerminated \/ PollInterrupted \/ PollReceived
                \/ Returns \/ Interrupt \/ UNCHANGED vars
         PROVE  /\ pc'[Proc] = pc[Proc] /\ task'[Proc] = task[Proc]
                /\ UNCHANGED m_main_thread_tasks
    BY <2>12 DEF AddTask, AllAdded, PollTerminated, PollInterrupted, PollReceived,
                Returns, Interrupt, vars, queueVars, mainQueue, Goto
  <2> QED
    BY <2>1, <2>2, <2>3, <2>4, <2>5, <2>6, <2>7, <2>8, <2>9, <2>10, <2>11, <2>12, Cases
<1>6. m_worker_interrupt' =>
       \/ \E th \in Threads : pc'[th] = "es_state"
       \/ m_async_state' = "TERMINATED" \/ m_active_threads' = 0
  <2> DEFINE Goal ==
        m_worker_interrupt' =>
          \/ \E th \in Threads : pc'[th] = "es_state"
          \/ m_async_state' = "TERMINATED" \/ m_active_threads' = 0
  <2>0. m_worker_interrupt =>
          \/ \E th \in Threads : pc[th] = "es_state"
          \/ m_async_state = "TERMINATED" \/ m_active_threads = 0
    BY DEF Counting
  <2>1. ASSUME UNCHANGED <<m_worker_interrupt, m_async_state>>,
               \A th \in Threads : pc[th] = "es_state" => pc'[th] = "es_state"
        PROVE  Goal
    BY <1>1, <2>0, <2>1
  <2>2. ASSUME NEW v \in Threads, TestInterrupt(v) \/ ShutdownWorkers(v) \/ ShutdownMain(v)
        PROVE  Goal
    <3>1. UNCHANGED <<m_worker_interrupt, m_async_state>> /\ pc[v] # "es_state"
          /\ \A th \in Threads : th # v => pc'[th] = pc[th]
      BY <2>2 DEF TestInterrupt, ShutdownWorkers, ShutdownMain, Goto, stateVars
    <3> QED BY <2>1, <3>1
  <2>3. ASSUME NEW v \in Threads, SetInterrupt(v) PROVE Goal
    BY <2>3 DEF SetInterrupt, Goto
  <2>4. ASSUME NEW v \in Threads, SetTerminated(v) PROVE Goal
    BY <2>4 DEF SetTerminated, Goto
  <2>5. ASSUME NEW v \in Workers,
               \/ PopTask(v) \/ TestPopped(v) \/ Produce(v) \/ ProduceFails(v)
               \/ TestProduced(v) \/ DecrementActive(v)
        PROVE  /\ UNCHANGED <<m_worker_interrupt, m_async_state>> /\ pc[v] # "es_state"
               /\ \A th \in Threads : th # v => pc'[th] = pc[th]
    BY <2>5 DEF PopTask, TestPopped, Produce, ProduceFails, TestProduced,
                DecrementActive, stateVars, Goto
  <2>6. ASSUME NEW v \in Workers, SetProcessing(v) PROVE Goal
    <3>1. m_active_threads = 0
      BY <2>6 DEF SetProcessing, Counting
    <3> QED BY <1>1, <3>1
  <2>7. ASSUME \/ PopResult \/ TestResult \/ ProcessData \/ ProcessDataThrows
               \/ TestProcessed \/ TestDone \/ Join
        PROVE  /\ UNCHANGED <<m_worker_interrupt, m_async_state>> /\ pc[Proc] # "es_state"
               /\ \A th \in Threads : th # Proc => pc'[th] = pc[th]
    BY <2>7 DEF PopResult, TestResult, ProcessData, ProcessDataThrows,
                TestProcessed, TestDone, Join, stateVars, Goto
  <2>8. CASE SetDone
    <3>1. m_active_threads = 0
      BY <2>8 DEF SetDone, Counting
    <3> QED BY <1>1, <3>1
  <2>9. ASSUME \/ \E t \in Tasks : AddTask(t)
               \/ AllAdded \/ PollTerminated \/ PollInterrupted \/ PollReceived
               \/ Returns \/ Interrupt \/ UNCHANGED vars
        PROVE  Goal
    <3>1. /\ UNCHANGED <<m_worker_interrupt, m_async_state>>
          /\ UNCHANGED pc \/ pc[Client] # "es_state"
          /\ \A th \in Threads : th # Client => pc'[th] = pc[th]
      BY <2>9 DEF AddTask, AllAdded, PollTerminated, PollInterrupted, PollReceived,
                  Returns, Interrupt, vars, stateVars, Goto
    <3> QED BY <2>1, <3>1
  <2> QED
    BY <2>1, <2>2, <2>3, <2>4, <2>5, <2>6, <2>7, <2>8, <2>9, Cases DEF EmergencyShutdown
<1> QED
  BY <1>2, <1>3, <1>4, <1>5, <1>6, CountedStep DEF Counting
-----------------------------------------------------------------------------
(***************************************************************************)
(* Who may still add tasks, and the workers which leave.                   *)
(***************************************************************************)

LEMMA EmptyRange ==
  ASSUME NEW s \in Seq(Tasks)
  PROVE  s = <<>> <=> Range(s) = {}
<1>1. s # <<>> => 1 \in 1 .. Len(s)
  OBVIOUS
<1>2. s # <<>> => s[1] \in Range(s)
  BY <1>1, Elements
<1>3. \A x \in Range(s) : \E i \in 1 .. Len(s) : x = s[i]
  BY Elements
<1>4. s = <<>> => Len(s) = 0
  OBVIOUS
<1>5. Len(s) = 0 => Range(s) = {}
  BY <1>3
<1> QED
  BY <1>2, <1>4, <1>5

\* Nobody joins the ones who may add tasks.
LEMMA ProducersShrink ==
  ASSUME IInv, [Next]_vars
  PROVE  task_producers' \subseteq task_producers
<1>1. ASSUME NEW th \in Threads, EmergencyShutdown(th)
      PROVE  UNCHANGED task_producers
  BY <1>1 DEF EmergencyShutdown, TestInterrupt, SetInterrupt, SetTerminated,
              ShutdownWorkers, ShutdownMain, clientVars
<1>2. ASSUME NEW w \in Workers,
             \/ PopTask(w) \/ TestPopped(w) \/ Produce(w) \/ ProduceFails(w)
             \/ TestProduced(w) \/ DecrementActive(w) \/ SetProcessing(w)
      PROVE  UNCHANGED task_producers
  BY <1>2 DEF PopTask, TestPopped, Produce, ProduceFails, TestProduced, DecrementActive,
              SetProcessing, clientVars
<1>3. ASSUME PopResult \/ TestResult \/ TestProcessed \/ TestDone \/ SetDone \/ Join
      PROVE  UNCHANGED task_producers
  BY <1>3 DEF PopResult, TestResult, TestProcessed, TestDone, SetDone, Join, clientVars
<1>4. ASSUME ProcessData \/ ProcessDataThrows
      PROVE  task_producers' \subseteq task_producers
  BY <1>4 DEF ProcessData, ProcessDataThrows, AddChildren
<1>5. ASSUME \/ \E t \in Tasks : AddTask(t)
             \/ AllAdded \/ PollTerminated \/ PollInterrupted \/ PollReceived
             \/ Returns \/ Interrupt \/ UNCHANGED vars
      PROVE  task_producers' \subseteq task_producers
  BY <1>5 DEF AddTask, AllAdded, PollTerminated, PollInterrupted, PollReceived, Returns,
              Interrupt, vars, clientVars
<1> QED
  BY <1>1, <1>2, <1>3, <1>4, <1>5, Cases

\* Once nobody may add tasks, no task is added.
LEMMA NothingAdded ==
  ASSUME IInv, [Next]_vars, task_producers = {}
  PROVE  Waiting' \subseteq Waiting
<1> USE DEF IInv
<1>1. CASE Quietly
  BY <1>1, QuietPlaces
<1>2. ASSUME NEW t \in Tasks, AddTask(t) PROVE FALSE
  BY <1>2 DEF AddTask, Producers
<1>3. ASSUME NEW w \in Workers, PopTask(w), m_worker_tasks[Top] # <<>>
      PROVE  Waiting' \subseteq Waiting
  BY <1>3, PopTaskMoves
<1>4. ASSUME NEW w \in Workers, Produce(w) PROVE Waiting' = Waiting
  BY <1>4, ProduceMoves
<1>5. ASSUME PopResult, m_main_thread_tasks # <<>> PROVE Waiting' = Waiting
  BY <1>5, PopResultMoves
<1>6. \A x \in InProcess : Children[x] = {}
  BY DEF Producers, Present
<1>7. CASE ProcessData
  BY <1>6, <1>7, ProcessDataMoves
<1>8. CASE ProcessDataThrows
  BY <1>6, <1>8, ProcessDataThrowsMoves
<1> QED
  BY <1>1, <1>2, <1>3, <1>4, <1>5, <1>7, <1>8, Quiet DEF Moving

LEMMA ExitsStep ==
  ASSUME IInv, [Next]_vars
  PROVE  Exits'
<1> USE Names, Size DEF IInv, TypeOK
<1>1. SUFFICES ASSUME ~m_worker_interrupt' PROVE Exits'
  BY DEF Exits
<1>2. ~m_worker_interrupt
  BY <1>1, Monotone
<1>3. /\ worker_guards = 0 \/ task_producers = {}
      /\ (\A w \in Workers : ~Exiting(w)) \/ (task_producers = {} /\ NoneWaiting)
  BY <1>2 DEF Exits
<1>4. task_producers = {} => task_producers' = {}
  BY ProducersShrink
<1>5. task_producers = {} /\ NoneWaiting => NoneWaiting'
  <2>1. TypeOK'
    BY TypeStep
  <2>2. /\ m_worker_tasks'["HIGH"] \in Seq(Tasks) /\ m_worker_tasks'["MEDIUM"] \in Seq(Tasks)
        /\ m_worker_tasks["HIGH"] \in Seq(Tasks) /\ m_worker_tasks["MEDIUM"] \in Seq(Tasks)
    BY <2>1 DEF Priorities
  <2>3. NoneWaiting' <=> Waiting' = {}
    BY <2>2, EmptyRange DEF NoneWaiting, Waiting, Priorities
  <2>4. NoneWaiting <=> Waiting = {}
    BY <2>2, EmptyRange DEF NoneWaiting, Waiting, Priorities
  <2> QED BY <2>3, <2>4, NothingAdded
<1>6. worker_guards' = 0 \/ task_producers' = {}
  <2>1. ASSUME NEW th \in Threads, EmergencyShutdown(th)
        PROVE  worker_guards' = worker_guards
    <3>1. ~ShutdownWorkers(th)
      BY <1>2 DEF ShutdownWorkers, Reasons
    <3> QED
      BY <2>1, <3>1 DEF EmergencyShutdown, TestInterrupt, SetInterrupt, SetTerminated,
                  ShutdownMain, queueVars, workerQueue
  <2>2. ASSUME NEW w \in Workers,
               \/ TestPopped(w) \/ Produce(w) \/ ProduceFails(w)
               \/ TestProduced(w) \/ DecrementActive(w) \/ SetProcessing(w)
        PROVE  worker_guards' = worker_guards
    BY <2>2 DEF TestPopped, Produce, ProduceFails, TestProduced, DecrementActive,
                SetProcessing, queueVars, workerQueue
  <2>3. ASSUME NEW w \in Workers, PopTask(w)
        PROVE  worker_guards' = worker_guards \/ worker_guards # 0
    BY <2>3 DEF PopTask
  <2>4. ASSUME PopResult \/ TestResult \/ TestProcessed \/ TestDone \/ SetDone \/ Join
        PROVE  worker_guards' = worker_guards
    BY <2>4 DEF PopResult, TestResult, TestProcessed, TestDone, SetDone, Join, queueVars,
                workerQueue
  <2>5. ASSUME NEW x, NEW added, AddChildren(x, added)
        PROVE  worker_guards' = worker_guards \/ task_producers' = {}
    BY <2>5 DEF AddChildren, TasksDone
  <2>6. ASSUME ProcessData \/ ProcessDataThrows
        PROVE  worker_guards' = worker_guards \/ task_producers' = {}
    BY <2>5, <2>6 DEF ProcessData, ProcessDataThrows
  <2>7. ASSUME AllAdded
        PROVE  worker_guards' = worker_guards \/ task_producers' = {}
    BY <2>7 DEF AllAdded, TasksDone
  <2>8. ASSUME \/ \E t \in Tasks : AddTask(t)
               \/ PollTerminated \/ PollInterrupted \/ PollReceived
               \/ Returns \/ Interrupt \/ UNCHANGED vars
        PROVE  worker_guards' = worker_guards
    BY <2>8 DEF AddTask, PollTerminated, PollInterrupted, PollReceived, Returns,
                Interrupt, vars, queueVars, workerQueue
  <2> QED
    BY <1>3, <1>4, <2>1, <2>2, <2>3, <2>4, <2>6, <2>7, <2>8, Cases
<1>7. CASE task_producers = {} /\ NoneWaiting
  BY <1>4, <1>5, <1>6, <1>7 DEF Exits
<1>8. CASE \A w \in Workers : ~Exiting(w)
  <2>0. ASSUME \A w \in Workers : ~Exiting(w)' PROVE Exits'
    BY <1>6, <2>0 DEF Exits
  <2>1. ASSUME NEW o \in Threads,
               \A v \in Threads : v # o => pc'[v] = pc[v] /\ task'[v] = task[v],
               o \in Workers => ~Exiting(o)'
        PROVE  Exits'
    <3>1. \A w \in Workers : w # o => ~Exiting(w)'
      BY <1>8, <2>1 DEF Exiting
    <3> QED BY <2>0, <2>1, <3>1
  <2>2. ASSUME NEW th \in Threads, EmergencyShutdown(th)
        PROVE  Exits'
    <3>1. \A v \in Threads : v # th => pc'[v] = pc[v] /\ task'[v] = task[v]
      BY <2>2 DEF EmergencyShutdown, TestInterrupt, SetInterrupt, SetTerminated,
                  ShutdownWorkers, ShutdownMain, Goto
    <3>2. ASSUME th \in Workers PROVE ~Exiting(th)'
      <4>1. ~SetInterrupt(th)
        BY <1>1 DEF SetInterrupt
      <4>2. ~SetTerminated(th) /\ ~ShutdownWorkers(th)
        BY <1>2 DEF SetTerminated, ShutdownWorkers, Reasons
      <4>3. ~ShutdownMain(th)
        BY <1>8, <3>2 DEF ShutdownMain, Exiting
      <4>4. TestInterrupt(th)
        BY <2>2, <4>1, <4>2, <4>3 DEF EmergencyShutdown
      <4> QED BY <1>2, <4>4 DEF TestInterrupt, Exiting, Goto
    <3> QED BY <2>1, <3>1, <3>2
  <2>3. ASSUME NEW w \in Workers, PopTask(w) PROVE Exits'
    <3>1. \A v \in Threads : v # w => pc'[v] = pc[v] /\ task'[v] = task[v]
      BY <2>3 DEF PopTask, Goto
    <3>2. CASE m_worker_tasks[Top] # <<>>
      <4>1. PICK x \in Waiting \cap Tasks : task' = [task EXCEPT ![w] = x]
        BY <2>3, <3>2, PopTaskMoves
      <4>2. pc'[w] = "popped" /\ task'[w] # Guard
        BY <2>3, <4>1 DEF PopTask, Goto
      <4>3. ~Exiting(w)'
        BY <4>2 DEF Exiting
      <4> QED BY <2>1, <3>1, <4>3
    <3>3. CASE m_worker_tasks[Top] = <<>>
      <4>1. worker_guards # 0
        BY <2>3, <3>3 DEF PopTask
      <4>2. NoneWaiting
        BY <3>3 DEF NoneWaiting, Top, Priorities
      <4> QED BY <1>3, <1>4, <1>5, <1>6, <4>1, <4>2 DEF Exits
    <3> QED BY <3>2, <3>3
  <2>4. ASSUME NEW w \in Workers,
               \/ TestPopped(w) \/ Produce(w) \/ ProduceFails(w)
               \/ TestProduced(w) \/ DecrementActive(w) \/ SetProcessing(w)
        PROVE  Exits'
    <3>1. \A v \in Threads : v # w => pc'[v] = pc[v] /\ task'[v] = task[v]
      BY <2>4 DEF TestPopped, Produce, ProduceFails, TestProduced, DecrementActive,
                  SetProcessing, Goto
    <3>2. ~Exiting(w)
      BY <1>8
    <3>3. ~DecrementActive(w) /\ ~SetProcessing(w)
      BY <3>2 DEF DecrementActive, SetProcessing, Exiting
    <3>4. pc'[w] \in {"produce", "produced", "es_test", "pop"}
      BY <1>2, <2>4, <3>2, <3>3 DEF TestPopped, Produce, ProduceFails, TestProduced, Goto,
                                    Exiting
    <3>5. ~Exiting(w)'
      BY <3>4 DEF Exiting
    <3> QED BY <2>1, <3>1, <3>5
  <2>5. ASSUME \/ PopResult \/ TestResult \/ ProcessData \/ ProcessDataThrows
               \/ TestProcessed \/ TestDone \/ SetDone \/ Join
        PROVE  Exits'
    <3>1. \A v \in Threads : v # Proc => pc'[v] = pc[v] /\ task'[v] = task[v]
      BY <2>5 DEF PopResult, TestResult, ProcessData, ProcessDataThrows,
                  TestProcessed, TestDone, SetDone, Join, Goto
    <3> QED BY <2>1, <3>1
  <2>6. ASSUME \/ \E t \in Tasks : AddTask(t)
               \/ AllAdded \/ PollTerminated \/ PollInterrupted \/ PollReceived
               \/ Returns \/ Interrupt \/ UNCHANGED vars
        PROVE  Exits'
    <3>1. \A v \in Threads : v # Client => pc'[v] = pc[v] /\ task'[v] = task[v]
      BY <2>6 DEF AddTask, AllAdded, PollTerminated, PollInterrupted, PollReceived,
                  Returns, Interrupt, vars, Goto
    <3> QED BY <2>1, <3>1
  <2> QED
    BY <2>2, <2>3, <2>4, <2>5, <2>6, Cases
<1> QED
  BY <1>3, <1>7, <1>8

LEMMA ProducersStep ==
  ASSUME IInv, [Next]_vars
  PROVE  Producers'
<1> USE Names DEF IInv
<1>0. Client \notin Tasks
  BY PoolAssumption
<1>1. to_add \cap Present = {} /\ to_add \subseteq Tasks
  BY DEF Once, Apart, TypeOK
<1>2. ASSUME UNCHANGED <<task_producers, to_add>>, Present' \subseteq Present,
             pc'[Client] = "add" <=> pc[Client] = "add"
      PROVE  Producers'
  <2>1. interrupted => interrupted'
    BY Monotone
  <2> QED BY <1>2, <2>1 DEF Producers
<1>3. CASE Quietly /\ ~ProcessData /\ ~ProcessDataThrows
  <2>1. Present' \subseteq Present /\ to_add' = to_add
    BY <1>3, QuietPlaces DEF Quietly
  <2>2. CASE AllAdded
    <3>1. /\ task_producers' = task_producers \ ({Client} \cup to_add)
          /\ pc'[Client] # "add"
          /\ to_add = {} \/ interrupted
          /\ UNCHANGED interrupted
      BY <2>2 DEF AllAdded, Goto, TypeOK
    <3>2. Client \notin Present
      BY <1>0, <1>3 DEF Present, Waiting, Taken, Ready, InProcess, Takes, TypeOK, Range, Priorities,
                        Control
    <3> QED BY <1>1, <2>1, <3>1, <3>2 DEF Producers
  <2>3. CASE ~AllAdded
    <3>1. UNCHANGED task_producers
      <4>1. ASSUME NEW th \in Threads, EmergencyShutdown(th)
            PROVE  UNCHANGED task_producers
        BY <4>1 DEF EmergencyShutdown, TestInterrupt, SetInterrupt, SetTerminated,
                    ShutdownWorkers, ShutdownMain, clientVars
      <4>2. ASSUME NEW w \in Workers,
                   \/ PopTask(w) \/ TestPopped(w) \/ Produce(w) \/ ProduceFails(w)
                   \/ TestProduced(w) \/ DecrementActive(w) \/ SetProcessing(w)
            PROVE  UNCHANGED task_producers
        BY <4>2 DEF PopTask, TestPopped, Produce, ProduceFails, TestProduced,
                    DecrementActive, SetProcessing, clientVars
      <4>3. ASSUME \/ PopResult \/ TestResult \/ TestProcessed \/ TestDone
                   \/ SetDone \/ Join
            PROVE  UNCHANGED task_producers
        BY <4>3 DEF PopResult, TestResult, TestProcessed, TestDone, SetDone, Join,
                    clientVars
      <4>4. ASSUME \/ \E t \in Tasks : AddTask(t)
                   \/ PollTerminated \/ PollInterrupted \/ PollReceived
                   \/ Returns \/ Interrupt \/ UNCHANGED vars
            PROVE  UNCHANGED task_producers
        BY <4>4 DEF AddTask, PollTerminated, PollInterrupted, PollReceived, Returns,
                    Interrupt, vars, clientVars
      <4> QED BY <1>3, <2>3, <4>1, <4>2, <4>3, <4>4, Cases
    <3>2. pc'[Client] = "add" <=> pc[Client] = "add"
      <4>1. ASSUME NEW th \in Threads, EmergencyShutdown(th)
            PROVE  pc'[Client] = "add" <=> pc[Client] = "add"
        BY <4>1 DEF EmergencyShutdown, TestInterrupt, SetInterrupt, SetTerminated,
                    ShutdownWorkers, ShutdownMain, AfterShutdown, Goto, TypeOK
      <4>2. ASSUME NEW w \in Workers,
                   \/ PopTask(w) \/ TestPopped(w) \/ Produce(w) \/ ProduceFails(w)
                   \/ TestProduced(w) \/ DecrementActive(w) \/ SetProcessing(w)
            PROVE  pc'[Client] = pc[Client]
        BY <4>2 DEF PopTask, TestPopped, Produce, ProduceFails, TestProduced,
                    DecrementActive, SetProcessing, Goto, TypeOK
      <4>3. ASSUME \/ PopResult \/ TestResult \/ TestProcessed \/ TestDone
                   \/ SetDone \/ Join
            PROVE  pc'[Client] = pc[Client]
        BY <4>3 DEF PopResult, TestResult, TestProcessed, TestDone, SetDone, Join,
                    Goto, TypeOK
      <4>4. ASSUME \/ \E t \in Tasks : AddTask(t)
                   \/ PollTerminated \/ PollInterrupted \/ PollReceived
                   \/ Returns \/ Interrupt \/ UNCHANGED vars
            PROVE  pc'[Client] = "add" <=> pc[Client] = "add"
        BY <4>4 DEF AddTask, PollTerminated, PollInterrupted, PollReceived, Returns,
                    Interrupt, vars, Goto, TypeOK
      <4> QED BY <1>3, <2>3, <4>1, <4>2, <4>3, <4>4, Cases
    <3> QED BY <1>2, <2>1, <3>1, <3>2
  <2> QED BY <2>2, <2>3
<1>4. ASSUME NEW t \in Tasks, AddTask(t) PROVE Producers'
  <2>1. /\ t \in to_add /\ to_add' = to_add \ {t} /\ Present' = Present \cup {t}
    BY <1>4, AddTaskMoves DEF Present
  <2>2. UNCHANGED <<pc, task_producers, interrupted>> /\ pc[Client] = "add"
    BY <1>4 DEF AddTask
  <2> QED BY <2>1, <2>2 DEF Producers
<1>5. ASSUME NEW w \in Workers, PopTask(w), m_worker_tasks[Top] # <<>> PROVE Producers'
  <2>1. Present' = Present /\ to_add' = to_add
    BY <1>5, PopTaskMoves DEF Present
  <2>2. UNCHANGED task_producers /\ pc'[Client] = pc[Client]
    BY <1>5 DEF PopTask, Goto, TypeOK, clientVars
  <2> QED BY <1>2, <2>1, <2>2
<1>6. ASSUME NEW w \in Workers, Produce(w) PROVE Producers'
  <2>1. Present' = Present /\ to_add' = to_add
    BY <1>6, ProduceMoves DEF Present
  <2>2. UNCHANGED task_producers /\ pc'[Client] = pc[Client]
    BY <1>6 DEF Produce, Goto, TypeOK, clientVars
  <2> QED BY <1>2, <2>1, <2>2
<1>7. ASSUME PopResult, m_main_thread_tasks # <<>> PROVE Producers'
  <2>1. Present' = Present /\ to_add' = to_add
    BY <1>7, PopResultMoves DEF Present
  <2>2. UNCHANGED task_producers /\ pc'[Client] = pc[Client]
    BY <1>7 DEF PopResult, Goto, TypeOK, clientVars
  <2> QED BY <1>2, <2>1, <2>2
<1>8. ASSUME NEW x \in InProcess \cap Tasks, NEW added \in SUBSET Children[x],
             task_producers' = task_producers \ {x},
             Waiting' = Waiting \cup added, Taken' = Taken, Ready' = Ready,
             InProcess = {x}, InProcess' = {}, to_add' = to_add,
             pc'[Client] = pc[Client], UNCHANGED interrupted
      PROVE  Producers'
  <2>1. x \notin Waiting \cup Taken \cup Ready \cup to_add
    BY <1>8 DEF Once, Apart, Present
  <2>2. Present' = (Present \ {x}) \cup added
    BY <1>8, <2>1, Parents DEF Present
  <2>3. \A c \in added : Children[c] = {}
    BY Parents
  <2>4. x \notin Present'
    BY <2>2, Parents
  <2> QED BY <1>0, <1>8, <2>1, <2>2, <2>3, <2>4 DEF Producers
<1>9. CASE ProcessData
  <2>1. PICK x \in InProcess \cap Tasks :
          /\ AddChildren(x, Children[x])
          /\ Waiting' = Waiting \cup Children[x] /\ Taken' = Taken /\ Ready' = Ready
          /\ InProcess = {x} /\ InProcess' = {} /\ to_add' = to_add
    BY <1>9, ProcessDataMoves
  <2>2. pc'[Client] = pc[Client] /\ UNCHANGED interrupted
    BY <1>9 DEF ProcessData, Goto, TypeOK
  <2>3. task_producers' = task_producers \ {x}
    BY <2>1 DEF AddChildren
  <2> QED BY <1>8, <2>1, <2>2, <2>3
<1>10. CASE ProcessDataThrows
  <2>1. PICK x \in InProcess \cap Tasks : \E added \in SUBSET Children[x] :
          /\ AddChildren(x, added)
          /\ Waiting' = Waiting \cup added /\ Taken' = Taken /\ Ready' = Ready
          /\ InProcess = {x} /\ InProcess' = {} /\ to_add' = to_add
    BY <1>10, ProcessDataThrowsMoves
  <2>2. pc'[Client] = pc[Client] /\ UNCHANGED interrupted
    BY <1>10 DEF ProcessDataThrows, Goto, TypeOK
  <2>3. task_producers' = task_producers \ {x}
    BY <2>1 DEF AddChildren
  <2> QED BY <1>8, <2>1, <2>2, <2>3
<1> QED
  BY <1>3, <1>4, <1>5, <1>6, <1>7, <1>9, <1>10, Quiet DEF Moving
-----------------------------------------------------------------------------
(***************************************************************************)
(* How process() ends.                                                     *)
(***************************************************************************)

\* Every worker has left, nothing has failed and nobody was interrupted: all
\* the tasks were processed.
LEMMA AllProcessed ==
  ASSUME IInv, Fine, ~interrupted, pc[Proc] = "join",
         \A w \in Workers : pc[w] = "gone"
  PROVE  Past = Tasks
<1> USE DEF IInv
<1>1. PICK w \in Workers : pc[w] = "gone"
  BY PoolAssumption
<1>2. task_producers = {} /\ NoneWaiting
  BY <1>1 DEF Exits, Exiting, Fine
<1>3. pc[Client] # "add"
  BY <1>2 DEF Producers
<1>4. to_add = {}
  BY <1>3 DEF Producers
<1>5. Waiting = {}
  <2>1. /\ m_worker_tasks["HIGH"] \in Seq(Tasks) /\ m_worker_tasks["MEDIUM"] \in Seq(Tasks)
        /\ m_worker_tasks["HIGH"] = <<>> /\ m_worker_tasks["MEDIUM"] = <<>>
    BY <1>2 DEF TypeOK, NoneWaiting, Priorities
  <2> QED BY <2>1, EmptyRange DEF Waiting
<1>6. Taken = {}
  BY DEF Taken, Takes
<1>7. Ready = {}
  <2>1. m_main_thread_tasks = <<>> /\ m_main_thread_tasks \in Seq(Tasks)
    BY DEF Counting, Leaving, Fine, TypeOK
  <2> QED BY <2>1, EmptyRange DEF Ready
<1>8. InProcess = {}
  BY DEF InProcess
<1>9. Present = {}
  BY <1>5, <1>6, <1>7, <1>8 DEF Present
<1>10. \A t \in Tasks : t \in Past \/ \E u \in Tasks : t \in Children[u] /\ u \notin Past
  BY <1>4, <1>9 DEF Accounted
<1>11. \A t \in Roots : t \in Past
  BY <1>10, Parents, Names
<1>12. Tasks \subseteq Past
  BY <1>10, <1>11, Parents
<1>13. Past \subseteq Tasks
  BY Elements DEF Past, TypeOK
<1> QED
  BY <1>12, <1>13

LEMMA OutcomeStep ==
  ASSUME IInv, [Next]_vars
  PROVE  Outcome'
<1> USE Names DEF IInv, TypeOK
<1>1. CASE Join
  <2>1. /\ pc[Proc] = "join" /\ \A w \in Workers : pc[w] = "gone"
        /\ pc'[Proc] = "gone" /\ \A w \in Workers : pc'[w] = "gone"
        /\ UNCHANGED <<failed, m_worker_exceptions, processed, interrupted>>
        /\ result' = "returned" => ~failed /\ m_worker_exceptions = {}
    BY <1>1 DEF Join, Goto, clientVars
  <2>2. ASSUME ~failed, m_worker_exceptions = {}, ~interrupted PROVE Past = Tasks
    <3>1. Fine
      BY <2>2 DEF Reasons, Fine
    <3> QED BY <2>1, <2>2, <3>1, AllProcessed
  <2>3. Past' = Past
    BY <2>1 DEF Past
  <2> QED BY <2>1, <2>2, <2>3 DEF Outcome
<1>2. CASE ~Join
  <2>1. result' = result
    <3>1. ASSUME NEW th \in Threads, EmergencyShutdown(th) PROVE result' = result
      BY <3>1 DEF EmergencyShutdown, TestInterrupt, SetInterrupt, SetTerminated,
                  ShutdownWorkers, ShutdownMain, procVars
    <3>2. ASSUME NEW w \in Workers,
                 \/ PopTask(w) \/ TestPopped(w) \/ Produce(w) \/ ProduceFails(w)
                 \/ TestProduced(w) \/ DecrementActive(w) \/ SetProcessing(w)
          PROVE  result' = result
      BY <3>2 DEF PopTask, TestPopped, Produce, ProduceFails, TestProduced,
                  DecrementActive, SetProcessing, procVars
    <3>3. ASSUME \/ PopResult \/ TestResult \/ ProcessData \/ ProcessDataThrows
                 \/ TestProcessed \/ TestDone \/ SetDone
          PROVE  result' = result
      BY <3>3 DEF PopResult, TestResult, ProcessData, ProcessDataThrows, TestProcessed,
                  TestDone, SetDone, procVars
    <3>4. ASSUME \/ \E t \in Tasks : AddTask(t)
                 \/ AllAdded \/ PollTerminated \/ PollInterrupted \/ PollReceived
                 \/ Returns \/ Interrupt \/ UNCHANGED vars
          PROVE  result' = result
      BY <3>4 DEF AddTask, AllAdded, PollTerminated, PollInterrupted, PollReceived, Returns,
                  Interrupt, vars, procVars
    <3> QED BY <1>2, <3>1, <3>2, <3>3, <3>4, Cases
  <2>2. SUFFICES ASSUME result # "none" PROVE Outcome'
    BY <2>1 DEF Outcome
  <2>3. /\ pc[Proc] = "gone" /\ \A w \in Workers : pc[w] = "gone"
        /\ result = "returned" => /\ ~failed /\ m_worker_exceptions = {}
                                  /\ interrupted \/ Past = Tasks
    BY <2>2 DEF Outcome
  <2> DEFINE Ended == /\ pc'[Proc] = "gone" /\ \A w \in Workers : pc'[w] = "gone"
                      /\ UNCHANGED <<failed, m_worker_exceptions, processed>>
  <2>4. Ended
    <3>1. ASSUME NEW th \in Threads, EmergencyShutdown(th) PROVE Ended
      <4>1. th = Client
        BY <2>3, <3>1 DEF EmergencyShutdown, TestInterrupt, SetInterrupt, SetTerminated,
                          ShutdownWorkers, ShutdownMain, Threads
      <4> QED
        BY <2>3, <3>1, <4>1 DEF EmergencyShutdown, TestInterrupt, SetInterrupt,
                          SetTerminated, ShutdownWorkers, ShutdownMain, procVars, Goto
    <3>2. ASSUME NEW w \in Workers,
                 \/ PopTask(w) \/ TestPopped(w) \/ Produce(w) \/ ProduceFails(w)
                 \/ TestProduced(w) \/ DecrementActive(w) \/ SetProcessing(w)
          PROVE  FALSE
      BY <2>3, <3>2 DEF PopTask, TestPopped, Produce, ProduceFails, TestProduced,
                  DecrementActive, SetProcessing
    <3>3. ASSUME \/ PopResult \/ TestResult \/ ProcessData \/ ProcessDataThrows
                 \/ TestProcessed \/ TestDone \/ SetDone
          PROVE  FALSE
      BY <2>3, <3>3 DEF PopResult, TestResult, ProcessData, ProcessDataThrows,
                  TestProcessed, TestDone, SetDone
    <3>4. ASSUME \/ \E t \in Tasks : AddTask(t)
                 \/ AllAdded \/ PollTerminated \/ PollInterrupted \/ PollReceived
                 \/ Returns \/ Interrupt \/ UNCHANGED vars
          PROVE  Ended
      BY <2>3, <3>4 DEF AddTask, AllAdded, PollTerminated, PollInterrupted, PollReceived,
                  Returns, Interrupt, vars, procVars, Goto
    <3> QED BY <1>2, <3>1, <3>2, <3>3, <3>4, Cases
  <2>5. Past' = Past
    BY <2>4 DEF Past
  <2>6. interrupted => interrupted'
    BY Monotone
  <2> QED BY <2>1, <2>3, <2>4, <2>5, <2>6 DEF Outcome
<1> QED
  BY <1>1, <1>2
-----------------------------------------------------------------------------
(***************************************************************************)
(* The theorems.                                                           *)
(***************************************************************************)

LEMMA InitInv == Init => IInv
<1> SUFFICES ASSUME Init PROVE IInv
  OBVIOUS
<1> USE Names DEF Init
<1>1. <<>> \in Seq(Tasks) /\ Range(<<>>) = {} /\ IsInjective(<<>>)
  BY DEF Range, IsInjective
<1>2. /\ pc[Client] = "add" /\ pc[Proc] = "pop" /\ \A w \in Workers : pc[w] = "pop"
  OBVIOUS
<1>3. TypeOK
  <2>1. /\ pc \in [Threads -> Labels] /\ task \in [Threads -> Tasks \cup {Guard, None}]
        /\ m_worker_tasks \in [Priorities -> Seq(Tasks)] /\ m_main_thread_tasks \in Seq(Tasks)
        /\ processed \in Seq(Tasks)
    BY <1>1 DEF Labels
  <2>2. worker_guards \in Nat /\ main_guards \in Nat
        /\ m_active_threads \in 0 .. Cardinality(Workers)
    BY Size
  <2>3. /\ async \in BOOLEAN /\ m_worker_interrupt \in BOOLEAN
        /\ m_async_state \in {"IDLE", "PRODUCING", "PROCESSING", "DONE", "TERMINATED"}
        /\ m_worker_exceptions \subseteq Workers /\ to_add \subseteq Tasks
        /\ task_producers \subseteq Tasks \cup {Client}
        /\ failed \in BOOLEAN /\ interrupted \in BOOLEAN
        /\ result \in {"none", "returned", "threw"}
    OBVIOUS
  <2> QED BY <2>1, <2>2, <2>3 DEF TypeOK
<1>4. Control /\ Reasons
  BY <1>2 DEF Control, Reasons, WorkerLabels, ProcLabels, ClientLabels, EsLabels, Threads
<1>5. Counted = Workers
  BY <1>2 DEF Counted
<1>6. Counting
  BY <1>2, <1>5, Size DEF Counting, Told, Leaving, Threads
<1>7. Exits
  BY <1>2 DEF Exits, Exiting
<1>8. /\ Waiting = {} /\ Ready = {} /\ Past = {} /\ InProcess = {} /\ Taken = {}
      /\ \A w \in Workers : ~Takes(w)
  BY <1>1, <1>2 DEF Waiting, Ready, Past, InProcess, Taken, Takes, Priorities
<1>9. Present = {}
  BY <1>8 DEF Present
<1>10. Once
  BY <1>1, <1>8, <1>9 DEF Once, Unique, Apart, Priorities
<1>11. Families /\ Producers
  BY <1>2, <1>8, <1>9 DEF Families, Producers
<1>12. Accounted
  BY <1>8 DEF Accounted, Roots
<1>13. Outcome
  BY DEF Outcome
<1> QED
  BY <1>3, <1>4, <1>6, <1>7, <1>10, <1>11, <1>12, <1>13 DEF IInv

(* However the steps of the workers, of the processor and of the client     *)
(* interleave, and whichever of them fail: every task is in one place, and  *)
(* whoever may still add tasks or produce results is counted.               *)
THEOREM Invariance == Spec => []IInv
<1>1. Init => IInv
  BY InitInv
<1>2. IInv /\ [Next]_vars => IInv'
  BY TypeStep, ControlStep, ReasonsStep, CountingStep, ExitsStep, OnceStep, FamiliesStep,
     ProducersStep, AccountedStep, OutcomeStep DEF IInv
<1> QED
  BY <1>1, <1>2, PTL DEF Spec

(* process() returns only if every task was processed, also those which were *)
(* added meanwhile, no task is processed twice, and an exception of a worker *)
(* is thrown again.                                                          *)
THEOREM ReturnedMeansProcessedCorrect == Spec => []ReturnedMeansProcessed
<1>1. IInv => ReturnedMeansProcessed
  BY DEF IInv, Once, Unique, Outcome, ReturnedMeansProcessed, NoTaskDropped,
         ProcessedOnce, ExceptionsRethrown, Past
<1> QED
  BY <1>1, Invariance, PTL

(* A worker that has failed and is gone has left the pool TERMINATED, or     *)
(* somebody is about to do so: the client that polls the state cannot miss   *)
(* the failure.                                                              *)
THEOREM FailureVisibleCorrect == Spec => []FailureVisible
<1>1. IInv => FailureVisible
  <2> SUFFICES ASSUME IInv, NEW w \in m_worker_exceptions, pc[w] = "gone",
                      \A th \in Threads : pc[th] # "es_state"
               PROVE  m_async_state = "TERMINATED"
    BY DEF FailureVisible
  <2>1. m_worker_interrupt
    BY DEF IInv, Reasons
  <2>2. w \in Counted
    BY DEF Counted
  <2>3. m_active_threads # 0
    BY <2>2, CountedActive DEF IInv
  <2> QED BY <2>1, <2>3 DEF IInv, Counting
<1> QED
  BY <1>1, Invariance, PTL
=============================================================================
