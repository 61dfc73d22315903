----------------------------- MODULE ThreadPool -----------------------------
(***************************************************************************)
(* Thread_pool: worker threads produce data, which one thread, the         *)
(* processor, processes.                                                   *)
(*                                                                         *)
(* The processor is the client itself, once it calls process() (Dump_info::*)
(* rescan_metadata, execute_view_ddl_tasks), or a thread of its own, which *)
(* process_async() starts before any task is added and whose progress the  *)
(* client polls (execute_table_ddl_tasks).  Processing a task may add more *)
(* tasks; whoever is the last one to add tasks calls tasks_done().         *)
(*                                                                         *)
(* Calls of the two queues are atomic, see SynchronizedQueue; the other    *)
(* shared variables are read and written one by one.                       *)
(***************************************************************************)
EXTENDS Naturals, Sequences, FiniteSets, Functions

CONSTANTS
  Workers,
  Client, Proc,   \* the client and the thread that runs process()
  Tasks,
  Children,       \* Children[t]: the tasks added when task t is processed
  High,           \* the tasks added with Priority::HIGH
  Guard, None

Priorities == {"HIGH", "MEDIUM"}
Threads == Workers \cup {Client, Proc}
Roots == Tasks \ UNION {Children[t] : t \in Tasks}

\* Tasks which are added while another one is processed (tables of a schema) add
\* no further ones, and each of them is added by one task.
ASSUME PoolAssumption ==
  /\ IsFiniteSet(Workers) /\ Workers # {} /\ IsFiniteSet(Tasks)
  /\ Client \notin Workers \cup Tasks /\ Proc \notin Workers /\ Client # Proc
  /\ Children \in [Tasks -> SUBSET Tasks]
  /\ \A t \in Tasks : Children[t] # {} => t \in Roots
  /\ \A t, u \in Tasks : t # u => Children[t] \cap Children[u] = {}
  /\ High \subseteq Roots
  /\ Guard \notin Tasks /\ None \notin Tasks

VARIABLES
  async,                \* whether process_async() is used
  pc,
  task,                 \* the task a worker or the processor has
  m_worker_tasks,       \* tasks to produce, by priority
  m_main_thread_tasks,  \* tasks to process
  worker_guards,        \* guards behind the tasks in m_worker_tasks
  main_guards,          \* guards behind the tasks in m_main_thread_tasks
  m_active_threads,
  m_worker_interrupt,
  m_async_state,
  m_worker_exceptions,  \* workers which have one
  to_add,               \* tasks the client has not added yet
  task_producers,       \* those who may still add tasks
  processed,            \* history: tasks in the order they were processed
  failed,               \* process_data() has thrown
  interrupted,          \* the operation of the client was interrupted
  result                \* of process()

workerQueue == <<m_worker_tasks, worker_guards>>
mainQueue == <<m_main_thread_tasks, main_guards>>
queueVars == <<workerQueue, mainQueue>>
stateVars == <<m_active_threads, m_worker_interrupt, m_async_state>>
clientVars == <<async, to_add, task_producers, interrupted>>
procVars == <<processed, failed, result>>
vars == <<pc, task, queueVars, stateVars, m_worker_exceptions, clientVars,
          procVars>>

Init ==
  /\ async \in BOOLEAN
  /\ pc = [th \in Threads |-> IF th = Client THEN "add" ELSE "pop"]
  /\ task = [th \in Threads |-> None]
  /\ m_worker_tasks = [p \in Priorities |-> <<>>]
  /\ m_main_thread_tasks = <<>>
  /\ worker_guards = 0 /\ main_guards = 0
  /\ m_active_threads = Cardinality(Workers)
  /\ m_worker_interrupt = FALSE
  /\ m_async_state = IF async THEN "PRODUCING" ELSE "IDLE"
  /\ m_worker_exceptions = {}
  /\ to_add = Roots
  /\ task_producers = {Client} \cup {t \in Roots : Children[t] # {}}
  /\ processed = <<>>
  /\ failed = FALSE
  /\ interrupted = FALSE
  /\ result = "none"
-----------------------------------------------------------------------------
(* The queues: tasks of higher priority first, guards last.                *)

Goto(th, l) == pc' = [pc EXCEPT ![th] = l]

Priority(t) == IF t \in High THEN "HIGH" ELSE "MEDIUM"

\* A set of tasks of the same priority, in some order.
Orders(S) == {f \in [1 .. Cardinality(S) -> S] : Range(f) = S}

Push(q, p, s) == [q EXCEPT ![p] = @ \o s]

\* The priority of the next task, unless there are only guards.
Top == IF m_worker_tasks["HIGH"] # <<>> THEN "HIGH" ELSE "MEDIUM"
-----------------------------------------------------------------------------
(* emergency_shutdown(), by a worker that failed, by the processor or by   *)
(* the client.                                                             *)

\* What a thread does next.
AfterShutdown(th) ==
  IF th \in Workers THEN "gone"
  ELSE IF th = Client THEN "wait"
  ELSE IF failed THEN "join" ELSE "check"

TestInterrupt(th) ==
  /\ pc[th] = "es_test"
  /\ Goto(th, IF m_worker_interrupt THEN AfterShutdown(th) ELSE "es_interrupt")
  /\ UNCHANGED <<task, queueVars, stateVars, m_worker_exceptions, clientVars,
                 procVars>>

SetInterrupt(th) ==
  /\ pc[th] = "es_interrupt"
  /\ Goto(th, "es_state")
  /\ m_worker_interrupt' = TRUE
  /\ UNCHANGED <<task, queueVars, m_active_threads, m_async_state,
                 m_worker_exceptions, clientVars, procVars>>

SetTerminated(th) ==
  /\ pc[th] = "es_state"
  /\ Goto(th, "es_workers")
  /\ m_async_state' = "TERMINATED"
  /\ UNCHANGED <<task, queueVars, m_active_threads, m_worker_interrupt,
                 m_worker_exceptions, clientVars, procVars>>

ShutdownWorkers(th) ==
  /\ pc[th] = "es_workers"
  /\ Goto(th, "es_main")
  /\ worker_guards' = worker_guards + Cardinality(Workers)
  /\ UNCHANGED <<task, m_worker_tasks, mainQueue, stateVars, m_worker_exceptions,
                 clientVars, procVars>>

\* shutdown_main_thread()
ShutdownMain(th) ==
  /\ pc[th] = "es_main"
  /\ Goto(th, AfterShutdown(th))
  /\ main_guards' = main_guards + 1
  /\ UNCHANGED <<task, workerQueue, m_main_thread_tasks, stateVars, m_worker_exceptions,
                 clientVars, procVars>>

EmergencyShutdown(th) ==
  \/ TestInterrupt(th) \/ SetInterrupt(th) \/ SetTerminated(th)
  \/ ShutdownWorkers(th) \/ ShutdownMain(th)
-----------------------------------------------------------------------------
(* The worker threads: start_threads().                                    *)

PopTask(w) ==
  /\ pc[w] = "pop"
  /\ \/ /\ m_worker_tasks[Top] # <<>>
        /\ m_worker_tasks' = [m_worker_tasks EXCEPT ![Top] = Tail(@)]
        /\ task' = [task EXCEPT ![w] = Head(m_worker_tasks[Top])]
        /\ UNCHANGED worker_guards
     \/ /\ m_worker_tasks[Top] = <<>> /\ worker_guards > 0
        /\ worker_guards' = worker_guards - 1
        /\ task' = [task EXCEPT ![w] = Guard]
        /\ UNCHANGED m_worker_tasks
  /\ Goto(w, "popped")
  /\ UNCHANGED <<mainQueue, stateVars, m_worker_exceptions,
                 clientVars, procVars>>

TestPopped(w) ==
  /\ pc[w] = "popped"
  /\ Goto(w, IF m_worker_interrupt THEN "gone"
             ELSE IF task[w] = Guard THEN "shutdown"
             ELSE "produce")
  /\ UNCHANGED <<task, queueVars, stateVars, m_worker_exceptions, clientVars,
                 procVars>>

\* produce_data(), whose result is put into the queue of the processor
Produce(w) ==
  /\ pc[w] = "produce"
  /\ m_main_thread_tasks' = Append(m_main_thread_tasks, task[w])
  /\ Goto(w, "produced")
  /\ UNCHANGED <<task, workerQueue, main_guards, stateVars, m_worker_exceptions,
                 clientVars, procVars>>

\* A plausible bug: a worker which fails ends like the ones that are done.
MutantProduceFails(w) ==
  /\ pc[w] = "produce"
  /\ m_worker_exceptions' = m_worker_exceptions \cup {w}
  /\ Goto(w, "shutdown")
  /\ UNCHANGED <<task, queueVars, stateVars, clientVars, procVars>>

ProduceFails(w) ==
  /\ pc[w] = "produce"
  /\ m_worker_exceptions' = m_worker_exceptions \cup {w}
  /\ Goto(w, "es_test")
  /\ UNCHANGED <<task, queueVars, stateVars, clientVars, procVars>>

TestProduced(w) ==
  /\ pc[w] = "produced"
  /\ Goto(w, IF m_worker_interrupt THEN "gone" ELSE "pop")
  /\ UNCHANGED <<task, queueVars, stateVars, m_worker_exceptions, clientVars,
                 procVars>>

\* A plausible bug: the last but one worker takes itself for the last one.
MutantDecrementActive(w) ==
  /\ pc[w] = "shutdown"
  /\ m_active_threads' = m_active_threads - 1
  /\ Goto(w, IF m_active_threads <= 2 THEN "processing" ELSE "gone")
  /\ UNCHANGED <<task, queueVars, m_worker_interrupt, m_async_state,
                 m_worker_exceptions, clientVars, procVars>>

\* maybe_shutdown_main_thread(): the last worker tells the processor that
\* there are no more tasks.
DecrementActive(w) ==
  /\ pc[w] = "shutdown"
  /\ m_active_threads' = m_active_threads - 1
  /\ Goto(w, IF m_active_threads = 1 THEN "processing" ELSE "gone")
  /\ UNCHANGED <<task, queueVars, m_worker_interrupt, m_async_state,
                 m_worker_exceptions, clientVars, procVars>>

SetProcessing(w) ==
  /\ pc[w] = "processing"
  /\ m_async_state' = "PROCESSING"
  /\ Goto(w, "es_main")
  /\ UNCHANGED <<task, queueVars, m_active_threads, m_worker_interrupt,
                 m_worker_exceptions, clientVars, procVars>>

Worker(w) ==
  \/ PopTask(w) \/ TestPopped(w) \/ Produce(w) \/ ProduceFails(w)
  \/ TestProduced(w) \/ DecrementActive(w) \/ SetProcessing(w)
  \/ EmergencyShutdown(w)
-----------------------------------------------------------------------------
(* The processor: process().                                               *)

PopResult ==
  /\ pc[Proc] = "pop"
  /\ async \/ pc[Client] = "wait"
  /\ \/ /\ m_main_thread_tasks # <<>>
        /\ m_main_thread_tasks' = Tail(m_main_thread_tasks)
        /\ task' = [task EXCEPT ![Proc] = Head(m_main_thread_tasks)]
        /\ UNCHANGED main_guards
     \/ /\ m_main_thread_tasks = <<>> /\ main_guards > 0
        /\ main_guards' = main_guards - 1
        /\ task' = [task EXCEPT ![Proc] = Guard]
        /\ UNCHANGED m_main_thread_tasks
  /\ Goto(Proc, "popped")
  /\ UNCHANGED <<workerQueue, stateVars, m_worker_exceptions, clientVars,
                 procVars>>

TestResult ==
  /\ pc[Proc] = "popped"
  /\ Goto(Proc, IF m_worker_interrupt \/ task[Proc] = Guard THEN "done_test"
                                                            ELSE "process")
  /\ UNCHANGED <<task, queueVars, stateVars, m_worker_exceptions, clientVars,
                 procVars>>

\* A plausible bug: one guard is missing.
MutantTasksDone(producers) ==
  worker_guards' = worker_guards
                     + (IF producers = {} THEN Cardinality(Workers) - 1 ELSE 0)

\* The guards of tasks_done(), once nobody is left who could add tasks.
TasksDone(producers) ==
  worker_guards' = worker_guards
                     + (IF producers = {} THEN Cardinality(Workers) ELSE 0)

\* Tasks added when t is processed; the last producer of tasks is done.
AddChildren(t, added) ==
  /\ \E s \in Orders(added) :
       m_worker_tasks' = Push(m_worker_tasks, "MEDIUM", s)
  /\ task_producers' = task_producers \ {t}
  /\ IF t \in task_producers THEN TasksDone(task_producers')
                              ELSE UNCHANGED worker_guards

\* process_data(), which may add tasks, with the default priority.  If the
\* operation was interrupted, it may call terminate().
ProcessData ==
  LET t == task[Proc] IN
  /\ pc[Proc] = "process"
  /\ processed' = Append(processed, t)
  /\ AddChildren(t, Children[t])
  /\ \/ Goto(Proc, "check")
     \/ interrupted /\ ~async /\ Goto(Proc, "es_test")
  /\ UNCHANGED <<task, mainQueue, stateVars, m_worker_exceptions,
                 async, to_add, interrupted, failed, result>>

\* It may throw, where it is not only a push to another queue.
ProcessDataThrows ==
  LET t == task[Proc] IN
  /\ ~async
  /\ pc[Proc] = "process"
  /\ failed' = TRUE
  /\ \E added \in SUBSET Children[t] : AddChildren(t, added)
  /\ Goto(Proc, "es_test")
  /\ UNCHANGED <<task, mainQueue, stateVars, m_worker_exceptions,
                 async, to_add, interrupted, processed, result>>

TestProcessed ==
  /\ pc[Proc] = "check"
  /\ Goto(Proc, IF m_worker_interrupt THEN "done_test" ELSE "pop")
  /\ UNCHANGED <<task, queueVars, stateVars, m_worker_exceptions, clientVars,
                 procVars>>

TestDone ==
  /\ pc[Proc] = "done_test"
  /\ Goto(Proc, IF m_worker_interrupt THEN "join" ELSE "done_set")
  /\ UNCHANGED <<task, queueVars, stateVars, m_worker_exceptions, clientVars,
                 procVars>>

SetDone ==
  /\ pc[Proc] = "done_set"
  /\ m_async_state' = "DONE"
  /\ Goto(Proc, "join")
  /\ UNCHANGED <<task, queueVars, m_active_threads, m_worker_interrupt,
                 m_worker_exceptions, clientVars, procVars>>

\* wait_for_worker_threads(), rethrow()
Join ==
  /\ pc[Proc] = "join"
  /\ \A w \in Workers : pc[w] = "gone"
  /\ result' = IF failed \/ m_worker_exceptions # {} THEN "threw"
                                                     ELSE "returned"
  /\ Goto(Proc, "gone")
  /\ UNCHANGED <<task, queueVars, stateVars, m_worker_exceptions, clientVars,
                 processed, failed>>

Processor ==
  \/ PopResult \/ TestResult \/ ProcessData \/ ProcessDataThrows
  \/ TestProcessed \/ TestDone \/ SetDone \/ Join \/ EmergencyShutdown(Proc)
-----------------------------------------------------------------------------
(* The client.                                                             *)

AddTask(t) ==
  /\ pc[Client] = "add"
  /\ t \in to_add
  /\ to_add' = to_add \ {t}
  /\ m_worker_tasks' = Push(m_worker_tasks, Priority(t), <<t>>)
  /\ UNCHANGED <<pc, task, worker_guards, mainQueue, stateVars, m_worker_exceptions,
                 async, task_producers, interrupted, procVars>>

\* The client stops to add tasks: tasks_done(), unless tasks that were added
\* may add others.
AllAdded ==
  /\ pc[Client] = "add"
  /\ to_add = {} \/ interrupted
  /\ task_producers' = task_producers \ ({Client} \cup to_add)
  /\ TasksDone(task_producers')
  /\ Goto(Client, IF async THEN "poll" ELSE "wait")
  /\ UNCHANGED <<task, m_worker_tasks, mainQueue, stateVars, m_worker_exceptions,
                 async, to_add, interrupted, procVars>>

\* ^C, or a failure elsewhere
Interrupt ==
  /\ pc[Client] # "gone"
  /\ ~interrupted
  /\ interrupted' = TRUE
  /\ UNCHANGED <<pc, task, queueVars, stateVars, m_worker_exceptions, to_add,
                 async, task_producers, procVars>>

\* "if there was an exception in the thread pool, interrupt the process"
PollTerminated ==
  /\ pc[Client] = "poll"
  /\ m_async_state = "TERMINATED"
  /\ interrupted' = TRUE
  /\ Goto(Client, "es_test")
  /\ UNCHANGED <<task, queueVars, stateVars, m_worker_exceptions, to_add,
                 async, task_producers, procVars>>

\* terminate(), if the operation was interrupted
PollInterrupted ==
  /\ pc[Client] = "poll"
  /\ interrupted
  /\ Goto(Client, "es_test")
  /\ UNCHANGED <<task, queueVars, stateVars, m_worker_exceptions, clientVars,
                 procVars>>

\* pending_tasks is 0: what process_data() of all the tasks has delivered was
\* received
PollReceived ==
  /\ pc[Client] = "poll"
  /\ Len(processed) = Cardinality(Tasks)
  /\ Goto(Client, "wait")
  /\ UNCHANGED <<task, queueVars, stateVars, m_worker_exceptions, clientVars,
                 procVars>>

\* process() returns, or wait_for_process() does
Returns ==
  /\ pc[Client] = "wait"
  /\ pc[Proc] = "gone"
  /\ Goto(Client, "gone")
  /\ UNCHANGED <<task, queueVars, stateVars, m_worker_exceptions, clientVars,
                 procVars>>

ClientStep ==
  \/ \E t \in Tasks : AddTask(t)
  \/ AllAdded \/ PollTerminated \/ PollInterrupted \/ PollReceived \/ Returns
  \/ EmergencyShutdown(Client)

Done == pc[Client] = "gone" /\ UNCHANGED vars

Next ==
  \/ \E w \in Workers : Worker(w)
  \/ Processor \/ ClientStep \/ Interrupt \/ Done

Spec == Init /\ [][Next]_vars

(* Every thread runs, and what the tasks do ends.                           *)
FairSpec ==
  /\ Spec
  /\ \A w \in Workers : WF_vars(Worker(w))
  /\ WF_vars(Processor)
  /\ WF_vars(ClientStep)
-----------------------------------------------------------------------------
(* Properties.                                                             *)

Labels == {"add", "poll", "wait", "pop", "popped", "produce", "produced",
           "process", "check", "shutdown", "processing", "done_test",
           "done_set", "join", "gone", "es_test", "es_interrupt", "es_state",
           "es_workers", "es_main"}

TypeOK ==
  /\ async \in BOOLEAN
  /\ pc \in [Threads -> Labels]
  /\ task \in [Threads -> Tasks \cup {Guard, None}]
  /\ m_worker_tasks \in [Priorities -> Seq(Tasks)]
  /\ m_main_thread_tasks \in Seq(Tasks)
  /\ worker_guards \in Nat /\ main_guards \in Nat
  /\ m_active_threads \in 0 .. Cardinality(Workers)
  /\ m_worker_interrupt \in BOOLEAN
  /\ m_async_state \in {"IDLE", "PRODUCING", "PROCESSING", "DONE", "TERMINATED"}
  /\ m_worker_exceptions \subseteq Workers
  /\ to_add \subseteq Tasks
  /\ task_producers \subseteq Tasks \cup {Client}
  /\ processed \in Seq(Tasks)
  /\ failed \in BOOLEAN
  /\ interrupted \in BOOLEAN
  /\ result \in {"none", "returned", "threw"}

(* process() "Waits for all the tasks to finish": if it returns without an  *)
(* exception, all the tasks were processed, also the ones which were added  *)
(* meanwhile, unless the client was interrupted and told the pool to stop.  *)
NoTaskDropped ==
  result = "returned" => interrupted \/ Range(processed) = Tasks

(* No task is processed twice.                                              *)
ProcessedOnce == IsInjective(processed)

(* process() throws "any Exception which was reported by the produce_data   *)
(* or process_data calls".                                                  *)
ExceptionsRethrown == result = "returned" => m_worker_exceptions = {}

(* What a process() that returns promises: every task was processed, once,  *)
(* and nothing has failed.                                                  *)
ReturnedMeansProcessed ==
  TypeOK /\ NoTaskDropped /\ ProcessedOnce /\ ExceptionsRethrown

(* The client sees that the pool has failed: TERMINATED is not overwritten  *)
(* by a worker or by the processor that gets to its end at the same time.   *)
FailureVisible ==
  \A w \in m_worker_exceptions :
    pc[w] = "gone" /\ (\A th \in Threads : pc[th] # "es_state")
      => m_async_state = "TERMINATED"

(* The client does not wait forever, whichever threads fail and however the *)
(* shutdowns they start overlap.                                            *)
Ends == <>(pc[Client] = "gone")
=============================================================================
