------------------------- MODULE SynchronizedQueue -------------------------
(***************************************************************************)
(* shcore::Synchronized_queue: the multiple producer, multiple consumer    *)
(* queue through which every thread of the dump and load utilities talks   *)
(* to every other one.                                                     *)
(*                                                                         *)
(* A critical section under m_queue_mutex is one step.  What happens       *)
(* outside of it is a step of its own: push() and shutdown() notify the    *)
(* condition variable m_task_ready only after the mutex was released, and  *)
(* a consumer which was notified must take the mutex again before it looks *)
(* at the queue, so that other threads get in between.                     *)
(***************************************************************************)
EXTENDS Naturals, Sequences, FiniteSets

CONSTANTS
  Producers,      \* threads which call push() and shutdown()
  Consumers,      \* threads which call pop() and try_pop()
  Items,          \* what is pushed, every item at most once
  Guard,          \* T(), the guard object shutdown() pushes
  MaxShutdowns    \* bound on the number of calls to shutdown()

ASSUME QueueAssumption ==
  /\ IsFiniteSet(Producers)
  /\ IsFiniteSet(Consumers)
  /\ Guard \notin Items
  /\ MaxShutdowns \in Nat

\* Queue_priority: LOWEST = 1 .. HIGH = 4, and below all of them the priority
\* of the guard objects (the mutant: guards as urgent as the HIGH elements).
MutantShutdownPriority == 4
k_shutdown_priority == 0
k_max_priority == 4
Queue_priority == 1 .. k_max_priority
Priorities == {k_shutdown_priority} \cup Queue_priority

VARIABLES
  m_queues,       \* one FIFO queue per priority
  queue_size,     \* m_size, the number of elements in all of them
  notifying,      \* what a producer has yet to notify: "none", "one", "all"
  call,           \* the call a consumer is in: "none", "pop" or "try_pop"
  asleep,         \* consumers blocked in m_task_ready.wait()/wait_for()
  shutdowns,      \* history: number of calls to shutdown()
  pushed,         \* history: everything that was pushed, per priority
  taken,          \* history: everything that was popped, per priority
  owed            \* history: items pushed before the first shutdown()

queueVars == <<m_queues, queue_size, notifying, call, asleep, shutdowns, pushed,
               taken, owed>>

EmptyQueues == [p \in Priorities |-> <<>>]

Elements(queues) ==
  UNION {{queues[p][i] : i \in DOMAIN queues[p]} : p \in Priorities}

QueueInit ==
  /\ m_queues = EmptyQueues
  /\ queue_size = 0
  /\ notifying = [t \in Producers |-> "none"]
  /\ call = [c \in Consumers |-> "none"]
  /\ asleep = {}
  /\ shutdowns = 0
  /\ pushed = EmptyQueues
  /\ taken = EmptyQueues
  /\ owed = {}
-----------------------------------------------------------------------------
(* Operations on the queues, the mutex being held.                         *)

unsynchronized_push(u, p) ==
  /\ m_queues' = [m_queues EXCEPT ![p] = Append(@, u)]
  /\ queue_size' = queue_size + 1
  /\ pushed' = [pushed EXCEPT ![p] = Append(@, u)]

\* shutdown(n): n guard objects, one for each of the consumers.
Guards(n) == [i \in 1 .. n |-> Guard]

PushGuards(n) ==
  LET q == k_shutdown_priority IN
  /\ m_queues' = [m_queues EXCEPT ![q] = @ \o Guards(n)]
  /\ queue_size' = queue_size + n
  /\ pushed' = [pushed EXCEPT ![q] = @ \o Guards(n)]

unsynchronized_empty == queue_size = 0

\* A plausible bug: the element that was pushed last is popped.
MutantPopBack ==
  \E p \in Priorities :
    /\ m_queues[p] # <<>>
    /\ \A q \in Priorities : q > p => m_queues[q] = <<>>
    /\ m_queues' = [m_queues EXCEPT ![p] = SubSeq(@, 1, Len(@) - 1)]
    /\ queue_size' = queue_size - 1
    /\ taken' = [taken EXCEPT ![p] = Append(@, m_queues[p][Len(m_queues[p])])]

\* The queue of the highest priority that has an element is popped.
unsynchronized_pop ==
  \E p \in Priorities :
    /\ m_queues[p] # <<>>
    /\ \A q \in Priorities : q > p => m_queues[q] = <<>>
    /\ m_queues' = [m_queues EXCEPT ![p] = Tail(@)]
    /\ queue_size' = queue_size - 1
    /\ taken' = [taken EXCEPT ![p] = Append(@, Head(m_queues[p]))]
-----------------------------------------------------------------------------
(* Producers.                                                              *)

\* A plausible bug: notify_one() only when the queue was empty before the push.
MutantNotifyOnlyFirst(t, u, p) ==
  /\ notifying[t] = "none"
  /\ u \notin Elements(pushed)
  /\ unsynchronized_push(u, p)
  /\ notifying' = [notifying EXCEPT ![t] = IF queue_size = 0 THEN "one" ELSE @]
  /\ UNCHANGED <<call, asleep, shutdowns, taken, owed>>

Push(t, u, p) ==
  /\ notifying[t] = "none"
  /\ u \notin Elements(pushed)
  /\ unsynchronized_push(u, p)
  /\ notifying' = [notifying EXCEPT ![t] = "one"]
  /\ UNCHANGED <<call, asleep, shutdowns, taken, owed>>

\* push(): m_task_ready.notify_one(), after the mutex was released.
NotifyOne(t) ==
  /\ notifying[t] = "one"
  /\ notifying' = [notifying EXCEPT ![t] = "none"]
  /\ \/ asleep = {} /\ UNCHANGED asleep
     \/ \E c \in asleep : asleep' = asleep \ {c}
  /\ UNCHANGED <<m_queues, queue_size, call, shutdowns, pushed, taken, owed>>

Shutdown(t) ==
  /\ notifying[t] = "none"
  /\ shutdowns < MaxShutdowns
  /\ PushGuards(Cardinality(Consumers))
  /\ notifying' = [notifying EXCEPT ![t] = "all"]
  /\ shutdowns' = shutdowns + 1
  /\ owed' = IF shutdowns = 0 THEN Elements(pushed) ELSE owed
  /\ UNCHANGED <<call, asleep, taken>>

NotifyAll(t) ==
  /\ notifying[t] = "all"
  /\ notifying' = [notifying EXCEPT ![t] = "none"]
  /\ asleep' = {}
  /\ UNCHANGED <<m_queues, queue_size, call, shutdowns, pushed, taken, owed>>
-----------------------------------------------------------------------------
(* Consumers.                                                              *)

\* The mutex is held: return the next element, or sleep until notified.
PopOrSleep(c, kind) ==
  \/ /\ ~unsynchronized_empty
     /\ unsynchronized_pop
     /\ call' = [call EXCEPT ![c] = "none"]
     /\ UNCHANGED asleep
  \/ /\ unsynchronized_empty
     /\ call' = [call EXCEPT ![c] = kind]
     /\ asleep' = asleep \cup {c}
     /\ UNCHANGED <<m_queues, queue_size, taken>>

Pop(c) ==
  /\ call[c] = "none"
  /\ PopOrSleep(c, "pop")
  /\ UNCHANGED <<notifying, shutdowns, pushed, owed>>

TryPop(c) ==
  /\ call[c] = "none"
  /\ PopOrSleep(c, "try_pop")
  /\ UNCHANGED <<notifying, shutdowns, pushed, owed>>

\* A consumer that was woken up takes the mutex and checks the predicate.
Recheck(c) ==
  /\ call[c] # "none"
  /\ c \notin asleep
  /\ PopOrSleep(c, call[c])
  /\ UNCHANGED <<notifying, shutdowns, pushed, owed>>

\* The time given to wait_for() is up: the predicate decides what try_pop()
\* returns.
Timeout(c) ==
  /\ call[c] = "try_pop"
  /\ \/ ~unsynchronized_empty /\ unsynchronized_pop
     \/ unsynchronized_empty /\ UNCHANGED <<m_queues, queue_size, taken>>
  /\ call' = [call EXCEPT ![c] = "none"]
  /\ asleep' = asleep \ {c}
  /\ UNCHANGED <<notifying, shutdowns, pushed, owed>>

\* A condition variable may wake up a thread nobody notified.
SpuriousWakeup(c) ==
  /\ c \in asleep
  /\ asleep' = asleep \ {c}
  /\ UNCHANGED <<m_queues, queue_size, notifying, call, shutdowns, pushed, taken,
                 owed>>
-----------------------------------------------------------------------------
QueueNext ==
  \/ \E t \in Producers :
       \/ \E u \in Items, p \in Queue_priority : Push(t, u, p)
       \/ NotifyOne(t)
       \/ Shutdown(t)
       \/ NotifyAll(t)
  \/ \E c \in Consumers :
       Pop(c) \/ TryPop(c) \/ Recheck(c) \/ Timeout(c) \/ SpuriousWakeup(c)

QueueSpec == QueueInit /\ [][QueueNext]_queueVars

(* A thread that has to notify does so, and a consumer that was woken up   *)
(* gets the mutex.  Nothing is assumed of consumers which time out, of     *)
(* spurious wakeups, or of anybody calling anything.                       *)
Fairness ==
  /\ \A t \in Producers : WF_queueVars(NotifyOne(t) \/ NotifyAll(t))
  /\ \A c \in Consumers : WF_queueVars(Recheck(c))

FairQueueSpec == QueueSpec /\ Fairness
-----------------------------------------------------------------------------
(* Properties.                                                             *)

QueueTypeOK ==
  /\ m_queues \in [Priorities -> Seq(Items \cup {Guard})]
  /\ queue_size \in Nat
  /\ notifying \in [Producers -> {"none", "one", "all"}]
  /\ call \in [Consumers -> {"none", "pop", "try_pop"}]
  /\ asleep \in SUBSET Consumers
  /\ shutdowns \in 0 .. MaxShutdowns
  /\ pushed \in [Priorities -> Seq(Items \cup {Guard})]
  /\ taken \in [Priorities -> Seq(Items \cup {Guard})]
  /\ owed \in SUBSET (Items \cup {Guard})

(* Every element that is pushed is popped at most once and, among those of *)
(* its priority, in the order of the pushes, however many producers and    *)
(* consumers there are: what was popped followed by what is queued is what *)
(* was pushed.                                                             *)
Fifo == \A p \in Priorities : pushed[p] = taken[p] \o m_queues[p]

(* queue_size, which decides whether a consumer sleeps, is the number of the*)
(* elements: unsynchronized_pop() never throws "Trying to pop from an empty*)
(* queue" and no consumer sleeps because an element was miscounted.        *)
SizeExact ==
  queue_size = Len(m_queues[0]) + Len(m_queues[1]) + Len(m_queues[2])
           + Len(m_queues[3]) + Len(m_queues[4])

(* The two together, and the type: what callers of the queue rely on.      *)
QueueExact == QueueTypeOK /\ Fifo /\ SizeExact

Notifiers == {t \in Producers : notifying[t] = "one"}
Awake == {c \in Consumers : call[c] # "none" /\ c \notin asleep}

(* No wakeup is lost.  While some consumer sleeps, the elements of the     *)
(* queue are outnumbered by those who are going to look at it or to wake   *)
(* somebody up: push() notifies one consumer after it released the mutex,  *)
(* and the element may meanwhile be stolen by a consumer which never slept.*)
NoLostWakeup ==
  \/ asleep = {}
  \/ \E t \in Producers : notifying[t] = "all"
  \/ queue_size <= Cardinality(Notifiers) + Cardinality(Awake)

(* A consumer gets a guard object only when everything that was pushed     *)
(* before shutdown() was popped: a pool of threads that is shut down       *)
(* finishes the tasks it was given.                                        *)
DrainedBeforeGuards ==
  taken[k_shutdown_priority] # <<>> => owed \subseteq Elements(taken)

(* A consumer does not sleep forever beside an element nobody takes.       *)
SleeperServed ==
  \A c \in Consumers :
    (c \in asleep /\ queue_size > 0) ~> (c \notin asleep \/ queue_size = 0)
=============================================================================
