---------------------------- MODULE LoadWorkers ----------------------------
(***************************************************************************)
(* The threads of Dump_loader: run(), the event loop of the main thread    *)
(* (handle_worker_events) and the workers (Worker::do_run).                *)
(*                                                                         *)
(* Tasks are executed in stages (DDL of tables, then the data with all     *)
(* that follows it); every stage is one call of handle_worker_events(),    *)
(* which returns once all the workers are idle.  A task has a weight: the  *)
(* number of threads it is expected to keep busy, and the weights of the   *)
(* tasks that are executed must not exceed the number of threads.          *)
(***************************************************************************)
EXTENDS Naturals, Integers, Sequences, FiniteSets

CONSTANTS
  Workers,        \* the threads (threads_count() of them)
  Tasks,
  Stages,         \* number of stages
  Stage,          \* Stage[t]: the stage task t belongs to
  Weight,         \* Weight[t]: the weight the task is created with
  Requires,       \* Requires[t]: tasks whose end makes task t available
  None

ThreadsCount == Cardinality(Workers)

\* What a task requires belongs to its stage or to an earlier one, and tasks do
\* not require each other in circles: data, then indexes, then checksums.
ASSUME WorkersAssumption ==
  /\ IsFiniteSet(Workers) /\ Workers # {}
  /\ Stages \in Nat
  /\ Stage \in [Tasks -> 1 .. Stages]
  /\ Weight \in [Tasks -> Nat \ {0}]
  /\ Requires \in [Tasks -> SUBSET Tasks]
  /\ \A t \in Tasks : \A r \in Requires[t] : Stage[r] <= Stage[t]
  /\ \A S \in SUBSET Tasks : S # {} => \E t \in S : Requires[t] \cap S = {}
  /\ None \notin Tasks

VARIABLES
  phase,              \* of the main thread
  stage,              \* the stage it is in
  todo,               \* tasks schedule_next() did not return yet
  completed,          \* tasks whose end was handled
  m_pending_tasks,    \* Priority_queue
  m_current_weight,
  m_workers,          \* workers which were not removed
  idle_workers,
  m_worker_events,
  m_task,             \* Worker::m_task
  m_weight,           \* Task::m_weight of that task, 0 once it is done
  m_work_ready,       \* Worker::m_work_ready
  pc,                 \* of the workers
  m_worker_interrupt,
  m_abort,
  m_thread_exceptions,\* workers that have one
  thrown,             \* whether execute_tasks() ended with an exception
  outcome,            \* how run() ended
  ctrl_c              \* history: whether the user interrupted the load

mainVars == <<phase, stage, todo, completed, m_pending_tasks, m_current_weight,
              m_workers, idle_workers, m_abort, thrown, outcome>>
workerVars == <<pc, m_thread_exceptions>>
taskVars == <<m_task, m_weight, m_work_ready>>
vars == <<mainVars, m_worker_events, taskVars, workerVars, m_worker_interrupt,
          ctrl_c>>

Event(type, w) == [type |-> type, worker |-> w]

Init ==
  /\ phase = "setup"
  /\ stage = 0
  /\ todo = Tasks
  /\ completed = {}
  /\ m_pending_tasks = [tasks |-> [p \in 1 .. ThreadsCount |-> <<>>], top |-> 1]
  /\ m_current_weight = 0
  /\ m_workers = Workers
  /\ idle_workers = <<>>
  /\ m_worker_events = <<>>
  /\ m_task = [w \in Workers |-> None]
  /\ m_weight = [w \in Workers |-> 0]
  /\ m_work_ready = [w \in Workers |-> <<>>]
  /\ pc = [w \in Workers |-> "connect"]
  /\ m_worker_interrupt = FALSE
  /\ m_abort = FALSE
  /\ m_thread_exceptions = {}
  /\ thrown = FALSE
  /\ outcome = "none"
  /\ ctrl_c = FALSE
-----------------------------------------------------------------------------
(* Priority_queue: a list for every weight, and the position of the        *)
(* heaviest one that is not empty.                                         *)

IsEmpty(q) == \A p \in DOMAIN q.tasks : q.tasks[p] = <<>>

\* push_pending_task()
CappedWeight(t) == IF Weight[t] <= ThreadsCount THEN Weight[t] ELSE ThreadsCount

Emplace(q, t) ==
  LET pos == CappedWeight(t) IN
  [tasks |-> [q.tasks EXCEPT ![pos] = Append(@, t)],
   top |-> IF pos > q.top THEN pos ELSE q.top]

Top(q) == Head(q.tasks[q.top])

PopTop(q) ==
  LET tasks == [q.tasks EXCEPT ![q.top] = Tail(@)]
      below == {p \in 1 .. q.top : tasks[p] # <<>>} IN
  [tasks |-> tasks,
   top |-> IF below = {} THEN 1
           ELSE CHOOSE p \in below : \A r \in below : r <= p]
-----------------------------------------------------------------------------
(* The main thread: run() and execute_tasks().                             *)

\* The next stage begins, unless the load was interrupted.
StartStage ==
  /\ phase \in {"setup", "returned"}
  /\ ~m_worker_interrupt
  /\ stage < Stages
  /\ stage' = stage + 1
  /\ phase' = "loop"
  /\ UNCHANGED <<todo, completed, m_pending_tasks, m_current_weight, m_workers,
                 idle_workers, m_abort, thrown, outcome, m_worker_events,
                 taskVars, workerVars, m_worker_interrupt, ctrl_c>>

\* What precedes the first stage, comes between two of them or follows the
\* last one throws: DDL of schemas, users, a scan of the dump, on_dump_end().
SetupThrows ==
  /\ phase \in {"setup", "returned"}
  /\ thrown' = TRUE
  /\ phase' = "stop"
  /\ UNCHANGED <<stage, todo, completed, m_pending_tasks, m_current_weight,
                 m_workers, idle_workers, m_abort, outcome, m_worker_events,
                 taskVars, workerVars, m_worker_interrupt, ctrl_c>>

\* execute_tasks() returns: the load was interrupted, or on_dump_end() was
\* called after the last stage.
ExecuteTasksReturns ==
  /\ phase \in {"setup", "returned"}
  /\ m_worker_interrupt \/ (phase = "returned" /\ stage = Stages)
  /\ phase' = "stop"
  /\ UNCHANGED <<stage, todo, completed, m_pending_tasks, m_current_weight,
                 m_workers, idle_workers, m_abort, thrown, outcome,
                 m_worker_events, taskVars, workerVars, m_worker_interrupt,
                 ctrl_c>>

\* join_workers(): all the workers are told to stop ...
StopWorkers ==
  /\ phase = "stop"
  /\ phase' = "join"
  /\ m_work_ready' = [w \in Workers |->
                        IF w \in m_workers THEN Append(m_work_ready[w], FALSE)
                                           ELSE m_work_ready[w]]
  /\ UNCHANGED <<stage, todo, completed, m_pending_tasks, m_current_weight,
                 m_workers, idle_workers, m_abort, thrown, outcome,
                 m_worker_events, m_task, m_weight, workerVars,
                 m_worker_interrupt, ctrl_c>>

\* ... and waited for.  What run() throws depends on why the load ended.
JoinWorkers ==
  /\ phase = "join"
  /\ \A w \in m_workers : pc[w] = "gone"
  /\ phase' = "done"
  /\ outcome' = IF thrown THEN "error"
                ELSE IF m_worker_interrupt /\ ~m_abort THEN "cancelled"
                ELSE IF m_thread_exceptions # {} THEN "error"
                ELSE "ok"
  /\ UNCHANGED <<stage, todo, completed, m_pending_tasks, m_current_weight,
                 m_workers, idle_workers, m_abort, thrown, m_worker_events,
                 taskVars, workerVars, m_worker_interrupt, ctrl_c>>

\* interrupt(): ^C, in another thread.
Interrupt ==
  /\ phase # "done"
  /\ ~ctrl_c
  /\ ctrl_c' = TRUE
  /\ m_worker_interrupt' = TRUE
  /\ UNCHANGED <<mainVars, m_worker_events, taskVars, workerVars>>
-----------------------------------------------------------------------------
(* The main thread: handle_worker_events().                                *)

InLoop == phase = "loop" /\ Len(idle_workers) < Cardinality(m_workers)

Received(types) ==
  /\ InLoop
  /\ m_worker_events # <<>>
  /\ Head(m_worker_events).type \in types

HandleConnected ==
  /\ Received({"CONNECTED"})
  /\ m_worker_events' = Tail(m_worker_events)
  /\ UNCHANGED <<mainVars, taskVars, workerVars, m_worker_interrupt, ctrl_c>>

\* on_table_ddl_end(), on_chunk_load_end(), on_index_end(), ...
HandleEnd ==
  /\ Received({"END"})
  /\ completed' = completed \cup {m_task[Head(m_worker_events).worker]}
  /\ m_worker_events' = Tail(m_worker_events)
  /\ UNCHANGED <<phase, stage, todo, m_pending_tasks, m_current_weight,
                 m_workers, idle_workers, m_abort, thrown, outcome, taskVars,
                 workerVars, m_worker_interrupt, ctrl_c>>

\* clear_worker() waits for the thread, which has nothing left to do.
HandleExit ==
  /\ Received({"EXIT"})
  /\ m_workers' = m_workers \ {Head(m_worker_events).worker}
  /\ m_worker_events' = Tail(m_worker_events)
  /\ UNCHANGED <<phase, stage, todo, completed, m_pending_tasks,
                 m_current_weight, idle_workers, m_abort, thrown, outcome,
                 taskVars, workerVars, m_worker_interrupt, ctrl_c>>

HandleFatalError ==
  /\ Received({"FATAL_ERROR"})
  /\ m_worker_interrupt' = TRUE
  /\ m_abort' = TRUE
  /\ m_workers' = m_workers \ {Head(m_worker_events).worker}
  /\ m_worker_events' = Tail(m_worker_events)
  /\ UNCHANGED <<phase, stage, todo, completed, m_pending_tasks,
                 m_current_weight, idle_workers, thrown, outcome, taskVars,
                 workerVars, ctrl_c>>

\* The tasks schedule_next() may choose from.
Available ==
  {t \in todo : Stage[t] = stage /\ Requires[t] \subseteq completed}

\* The weight of the task that worker w has executed is given back.
WeightWithout(w) == m_current_weight - m_weight[w]

\* Task::done()
Released(w) == [m_weight EXCEPT ![w] = 0]

\* The worker has nothing to do: because of an interrupt; because there are no
\* tasks, once schedule_next() was called; or because the heaviest task is too
\* heavy, whether schedule_next() found a task or not.
GoIdle(w, q) ==
  /\ m_pending_tasks' = q
  /\ idle_workers' = Append(idle_workers, w)
  /\ m_current_weight' = WeightWithout(w)
  /\ m_weight' = Released(w)
  /\ m_worker_events' = Tail(m_worker_events)
  /\ UNCHANGED <<phase, stage, completed, m_workers, m_abort, thrown, outcome,
                 m_task, m_work_ready, workerVars, m_worker_interrupt, ctrl_c>>

\* A plausible bug: no worker is called back.
MutantCallBack(available) ==
  /\ m_worker_events' = Tail(m_worker_events)
  /\ idle_workers' = idle_workers

\* "free any idle threads which were waiting for a heavy task"
CallBack(available) ==
  LET n == IF available < Len(idle_workers) THEN available
                                            ELSE Len(idle_workers) IN
  /\ m_worker_events' = Tail(m_worker_events)
       \o [i \in 1 .. n |-> Event("READY", idle_workers[i])]
  /\ idle_workers' = SubSeq(idle_workers, n + 1, Len(idle_workers))

\* Worker::schedule()
Assign(w, q) ==
  LET weight == WeightWithout(w) + CappedWeight(Top(q)) IN
  /\ m_pending_tasks' = PopTop(q)
  /\ m_task' = [m_task EXCEPT ![w] = Top(q)]
  /\ m_weight' = [m_weight EXCEPT ![w] = CappedWeight(Top(q))]
  /\ m_work_ready' = [m_work_ready EXCEPT ![w] = Append(@, TRUE)]
  /\ m_current_weight' = weight
  /\ CallBack(ThreadsCount - weight)
  /\ UNCHANGED <<phase, stage, completed, m_workers, m_abort, thrown, outcome,
                 workerVars, m_worker_interrupt, ctrl_c>>

Fits(w, q) == WeightWithout(w) + CappedWeight(Top(q)) <= ThreadsCount

HandleReadyInterrupted ==
  /\ Received({"READY"})
  /\ m_worker_interrupt
  /\ GoIdle(Head(m_worker_events).worker, m_pending_tasks)
  /\ UNCHANGED todo

\* schedule_next() returned a task.
HandleReadyMoreWork ==
  /\ Received({"READY"})
  /\ ~m_worker_interrupt
  /\ \E t \in Available :
       LET w == Head(m_worker_events).worker
           q == Emplace(m_pending_tasks, t) IN
       /\ todo' = todo \ {t}
       /\ IF Fits(w, q) THEN Assign(w, q) ELSE GoIdle(w, q)

\* A plausible bug: tasks that are still pending are not looked at.
MutantHandleReadyNoMoreWork ==
  /\ Received({"READY"})
  /\ ~m_worker_interrupt
  /\ Available = {}
  /\ UNCHANGED todo
  /\ GoIdle(Head(m_worker_events).worker, m_pending_tasks)

\* schedule_next() did not return a task, there may still be pending ones.
HandleReadyNoMoreWork ==
  /\ Received({"READY"})
  /\ ~m_worker_interrupt
  /\ Available = {}
  /\ UNCHANGED todo
  /\ LET w == Head(m_worker_events).worker
         q == m_pending_tasks IN
     IF ~IsEmpty(q) /\ Fits(w, q) THEN Assign(w, q) ELSE GoIdle(w, q)

\* schedule_next() throws: execute_tasks() is left.
HandleReadyThrows ==
  LET w == Head(m_worker_events).worker IN
  /\ Received({"READY"})
  /\ ~m_worker_interrupt
  /\ thrown' = TRUE
  /\ phase' = "stop"
  /\ m_current_weight' = WeightWithout(w)
  /\ m_weight' = Released(w)
  /\ m_worker_events' = Tail(m_worker_events)
  /\ UNCHANGED <<stage, todo, completed, m_pending_tasks, m_workers,
                 idle_workers, m_abort, outcome, m_task, m_work_ready,
                 workerVars, m_worker_interrupt, ctrl_c>>

\* A plausible bug: the loop goes on with the workers that were put back.
MutantAllIdle ==
  /\ phase = "loop"
  /\ ~InLoop
  /\ m_worker_events' = m_worker_events
       \o [i \in 1 .. Len(idle_workers) |-> Event("READY", idle_workers[i])]
  /\ idle_workers' = <<>>
  /\ UNCHANGED <<phase, stage, todo, completed, m_pending_tasks,
                 m_current_weight, m_workers, m_abort, thrown, outcome,
                 taskVars, workerVars, m_worker_interrupt, ctrl_c>>

\* All the workers are idle; they are put back into the queue.
AllIdle ==
  /\ phase = "loop"
  /\ ~InLoop
  /\ m_worker_events' = m_worker_events
       \o [i \in 1 .. Len(idle_workers) |-> Event("READY", idle_workers[i])]
  /\ idle_workers' = <<>>
  /\ phase' = "returned"
  /\ UNCHANGED <<stage, todo, completed, m_pending_tasks, m_current_weight,
                 m_workers, m_abort, thrown, outcome, taskVars, workerVars,
                 m_worker_interrupt, ctrl_c>>
-----------------------------------------------------------------------------
(* The workers: do_run().                                                  *)

Post(type, w) == m_worker_events' = Append(m_worker_events, Event(type, w))

Connect(w) ==
  /\ pc[w] = "connect"
  /\ Post("CONNECTED", w)
  /\ pc' = [pc EXCEPT ![w] = "ready"]
  /\ UNCHANGED <<mainVars, taskVars, m_thread_exceptions, m_worker_interrupt,
                 ctrl_c>>

Ready(w) ==
  /\ pc[w] = "ready"
  /\ Post("READY", w)
  /\ pc' = [pc EXCEPT ![w] = "wait"]
  /\ UNCHANGED <<mainVars, taskVars, m_thread_exceptions, m_worker_interrupt,
                 ctrl_c>>

\* The interrupt is looked at only after the worker was woken up.
PopWork(w) ==
  /\ pc[w] = "wait"
  /\ m_work_ready[w] # <<>>
  /\ m_work_ready' = [m_work_ready EXCEPT ![w] = Tail(@)]
  /\ IF Head(m_work_ready[w]) /\ ~m_worker_interrupt
     THEN /\ pc' = [pc EXCEPT ![w] = "execute"]
          /\ UNCHANGED m_worker_events
     ELSE /\ pc' = [pc EXCEPT ![w] = "gone"]
          /\ Post("EXIT", w)
  /\ UNCHANGED <<mainVars, m_task, m_weight, m_thread_exceptions,
                 m_worker_interrupt, ctrl_c>>

\* A plausible bug: the worker which is done posts READY first.
MutantTaskEnds(w) ==
  /\ pc[w] = "execute"
  /\ m_worker_events' = m_worker_events
                          \o <<Event("READY", w), Event("END", w)>>
  /\ pc' = [pc EXCEPT ![w] = "wait"]
  /\ UNCHANGED <<mainVars, taskVars, m_thread_exceptions, m_worker_interrupt,
                 ctrl_c>>

TaskEnds(w) ==
  /\ pc[w] = "execute"
  /\ Post("END", w)
  /\ pc' = [pc EXCEPT ![w] = "ready"]
  /\ UNCHANGED <<mainVars, taskVars, m_thread_exceptions, m_worker_interrupt,
                 ctrl_c>>

\* handle_current_exception(): the connection or the task failed.
Fail(w) ==
  /\ pc[w] \in {"connect", "execute"}
  /\ m_thread_exceptions' = m_thread_exceptions \cup {w}
  /\ m_worker_interrupt' = TRUE
  /\ Post("FATAL_ERROR", w)
  /\ pc' = [pc EXCEPT ![w] = "gone"]
  /\ UNCHANGED <<mainVars, taskVars, ctrl_c>>
-----------------------------------------------------------------------------
Main ==
  \/ StartStage \/ SetupThrows \/ ExecuteTasksReturns \/ StopWorkers
  \/ JoinWorkers
  \/ HandleConnected \/ HandleEnd \/ HandleExit \/ HandleFatalError
  \/ HandleReadyInterrupted \/ HandleReadyMoreWork \/ HandleReadyNoMoreWork
  \/ HandleReadyThrows \/ AllIdle

Worker(w) == Connect(w) \/ Ready(w) \/ PopWork(w) \/ TaskEnds(w) \/ Fail(w)

Done == phase = "done" /\ UNCHANGED vars

Next == Main \/ Interrupt \/ (\E w \in Workers : Worker(w)) \/ Done

Spec == Init /\ [][Next]_vars

(* Every thread runs, and the server answers.  Nothing is assumed of ^C.    *)
FairSpec ==
  /\ Spec
  /\ WF_vars(Main)
  /\ \A w \in Workers : WF_vars(Worker(w))
-----------------------------------------------------------------------------
(* Properties.                                                             *)

EventTypes == {"CONNECTED", "READY", "END", "EXIT", "FATAL_ERROR"}

TypeOK ==
  /\ phase \in {"setup", "loop", "returned", "stop", "join", "done"}
  /\ stage \in 0 .. Stages
  /\ todo \subseteq Tasks
  /\ completed \subseteq Tasks
  /\ m_pending_tasks \in [tasks : [1 .. ThreadsCount -> Seq(Tasks)],
                          top : 1 .. ThreadsCount]
  /\ m_current_weight \in 0 .. ThreadsCount
  /\ m_workers \subseteq Workers
  /\ idle_workers \in Seq(Workers)
  /\ m_worker_events \in Seq([type : EventTypes, worker : Workers])
  /\ m_task \in [Workers -> Tasks \cup {None}]
  /\ m_weight \in [Workers -> 0 .. ThreadsCount]
  /\ m_work_ready \in [Workers -> Seq(BOOLEAN)]
  /\ pc \in [Workers -> {"connect", "ready", "wait", "execute", "gone"}]
  /\ m_worker_interrupt \in BOOLEAN
  /\ m_abort \in BOOLEAN
  /\ m_thread_exceptions \subseteq Workers
  /\ thrown \in BOOLEAN
  /\ outcome \in {"none", "ok", "cancelled", "error"}
  /\ ctrl_c \in BOOLEAN

ReadyEvents(w) ==
  {i \in DOMAIN m_worker_events : m_worker_events[i] = Event("READY", w)}

\* What the tasks given to workers weigh together, as a set with one element
\* for every unit of weight.
Occupied ==
  {u \in Workers \X (1 .. ThreadsCount) : u[2] <= m_weight[u[1]]}

(* m_current_weight, which is unsigned, is what the tasks given to workers  *)
(* weigh: it never wraps around, nor does it hide that threads are free.    *)
WeightExact == m_current_weight = Cardinality(Occupied)

(* The loop neither loses a worker nor counts it twice: one that waits for  *)
(* work is idle, or READY, or has been given work, and only one of these.   *)
OneOfIdleReadyBusy ==
  phase = "loop" =>
    \A w \in m_workers :
      pc[w] = "wait" =>
        Cardinality(ReadyEvents(w))
          + Cardinality({i \in DOMAIN idle_workers : idle_workers[i] = w})
          + Len(m_work_ready[w]) = 1

(* The assertion of execute_threaded(): "make sure that there's really no   *)
(* more work".  The loop returns only after all the tasks of the stage are  *)
(* completed, though workers become idle one by one while others execute    *)
(* tasks that make new ones available.                                      *)
NothingLeft ==
  phase = "returned" /\ ~m_worker_interrupt =>
    \A t \in Tasks : Stage[t] <= stage => t \in completed

(* No task is executed before all the tasks of earlier stages and the ones  *)
(* it requires are completed, nor twice.                                    *)
ExecutedInOrder ==
  \A w \in Workers :
    pc[w] = "execute" =>
      /\ m_task[w] \notin completed
      /\ Requires[m_task[w]] \subseteq completed
      /\ \A t \in Tasks : Stage[t] < Stage[m_task[w]] => t \in completed
      /\ \A v \in Workers \ {w} : pc[v] = "execute" => m_task[v] # m_task[w]

(* A worker does not stay idle if there is a task it could execute: some    *)
(* worker is going to ask for it.                                           *)
NoWorkerForgotten ==
  /\ phase = "loop"
  /\ ~m_worker_interrupt
  /\ idle_workers # <<>>
  /\ IF IsEmpty(m_pending_tasks)
     THEN Available # {} /\ m_current_weight < ThreadsCount
     ELSE m_current_weight + CappedWeight(Top(m_pending_tasks)) <= ThreadsCount
  => \E w \in m_workers : pc[w] = "ready" \/ ReadyEvents(w) # {}

(* The scheduler's accounts are right: of the threads that are free, of the *)
(* workers that wait, and of the ones it has to call back.                  *)
WorkersAccounted ==
  TypeOK /\ WeightExact /\ OneOfIdleReadyBusy /\ NoWorkerForgotten

(* A stage ends, and a load is reported as successful, only after all of    *)
(* the tasks were completed.                                                *)
OkMeansLoaded == NothingLeft /\ (outcome = "ok" => completed = Tasks)

(* Once every thread is given time, run() returns, however many workers     *)
(* fail and whenever the load is interrupted.                               *)
Terminates == <>(phase = "done")

(* run(): "If interrupted by the user and not by a fatal error".            *)
CancelledByUser == outcome = "cancelled" => ctrl_c
=============================================================================
