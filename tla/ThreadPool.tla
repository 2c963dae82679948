----------------------------- MODULE ThreadPool -----------------------------
(***************************************************************************)
(* Mantids30::Threads::Pool::ThreadPool.  Several FIFO task queues, a set  *)
(* of worker threads (popTask / taskProcessor) and the threads that call   *)
(* pushTask.  Every access to the queues is under m_queuesMutex, so one    *)
(* critical section is one step.  What happens outside the mutex (the      *)
(* notifications, running a task, setMaxTasksPerQueue) is a step of its    *)
(* own.  A condition variable is the set of threads whose pc is "wait";    *)
(* notify moves one or all of them to "woken", from where they compete for *)
(* the mutex again.                                                        *)
(***************************************************************************)
EXTENDS Naturals, Sequences, FiniteSets

CONSTANTS Workers,      \* threads running taskProcessor (m_threads)
          Pushers,      \* threads that call pushTask
          TimedPushers, \* the pushers that pass a finite timeoutMS
          Queues,       \* indices of m_queues
          Tasks,        \* the tasks handed to pushTask, each one once
          Limits,       \* values setMaxTasksPerQueue is called with
          NoTask,       \* the null Task of popTask
          NoQueue       \* value of a queue index before its first use

ASSUME PoolAssumption ==
    /\ TimedPushers \subseteq Pushers
    /\ Limits \subseteq Nat
    /\ NoTask \notin Tasks
    /\ NoQueue \notin Queues
    /\ IsFiniteSet(Workers) /\ IsFiniteSet(Pushers)

VARIABLES queues,    \* m_queues[i].tasks
          terminate, \* m_terminate
          maxTasks,  \* m_maxTasksPerQueue
          wpc,       \* program counter of a worker
          wtask,     \* task a worker has popped and not finished
          wqueue,    \* queue it was popped from
          ppc,       \* program counter of a pusher
          ptask,     \* argument of the pushTask call in progress
          pqueue,    \* queue chosen by getRandomQueueByKey
          owner,     \* the thread that owns the pool: start, stop, ~ThreadPool
          setter,    \* setMaxTasksPerQueue: "idle" or "notify"
          accepted,  \* tasks put in a queue
          rejected,  \* tasks for which pushTask returned false
          executed   \* tasks whose function has returned

wvars == <<wpc, wtask, wqueue>>
pvars == <<ppc, ptask, pqueue>>
hist  == <<accepted, rejected, executed>>
vars  == <<queues, terminate, maxTasks, wpc, wtask, wqueue, ppc, ptask, pqueue,
           owner, setter, accepted, rejected, executed>>

-----------------------------------------------------------------------------
(* Helpers.                                                                *)

\* A pusher that found its queue full and has not yet entered wait() still
\* holds m_queuesMutex; every other critical section is atomic.
MutexFree == \A p \in Pushers : ppc[p] # "blocking"

WaitingWorkers    == {w \in Workers : wpc[w] = "wait"}
WaitingPushers(q) == {p \in Pushers : ppc[p] = "wait" /\ pqueue[p] = q}

\* getRandomTaskQueueWithElements: some queue that is not empty.
QueuesWithElements == {q \in Queues : queues[q] # <<>>}

\* getRandomQueueByKey: the hash of the key shuffles the indices, the priority
\* keeps at least one of them and chance picks one.  Any queue can come out.
QueuesByKey == Queues

QueueFull(q) == Len(queues[q]) > maxTasks

\* Tasks in some queue, and tasks a worker holds.
Queued  == UNION {{queues[q][i] : i \in 1..Len(queues[q])} : q \in Queues}
Running == {wtask[w] : w \in Workers} \ {NoTask}

\* m_insertedElementCond.notify_one()
NotifyInsertedElement ==
    IF WaitingWorkers = {}
    THEN UNCHANGED wpc
    ELSE \E w \in WaitingWorkers : wpc' = [wpc EXCEPT ![w] = "woken"]

-----------------------------------------------------------------------------
(* The constructor: no thread is running yet, the limit is set.            *)

Init ==
    /\ queues = [q \in Queues |-> <<>>]
    /\ terminate = FALSE
    /\ maxTasks \in Limits
    /\ wpc = [w \in Workers |-> "unstarted"]
    /\ wtask = [w \in Workers |-> NoTask]
    /\ wqueue = [w \in Workers |-> NoQueue]
    /\ ppc = [p \in Pushers |-> "idle"]
    /\ ptask = [p \in Pushers |-> NoTask]
    /\ pqueue = [p \in Pushers |-> NoQueue]
    /\ owner = "constructed"
    /\ setter = "idle"
    /\ accepted = {}
    /\ rejected = {}
    /\ executed = {}

-----------------------------------------------------------------------------
(* The owner.                                                              *)

\* start(): create the worker threads.
Start ==
    /\ owner = "constructed"
    /\ owner' = "started"
    /\ wpc' = [w \in Workers |-> "pop"]
    /\ UNCHANGED <<queues, terminate, maxTasks, wtask, wqueue, pvars, setter, hist>>

\* stop(): set m_terminate under the mutex ...
Stop ==
    /\ owner = "started"
    /\ MutexFree
    /\ terminate' = TRUE
    /\ owner' = "notify"
    /\ UNCHANGED <<queues, maxTasks, wvars, pvars, setter, hist>>

\* ... and, after the unlock, m_insertedElementCond.notify_all().
StopNotify ==
    /\ owner = "notify"
    /\ owner' = "joining"
    /\ wpc' = [w \in Workers |-> IF wpc[w] = "wait" THEN "woken" ELSE wpc[w]]
    /\ UNCHANGED <<queues, terminate, maxTasks, wtask, wqueue, pvars, setter, hist>>

\* ~ThreadPool: after stop(), join every worker.
Join ==
    /\ owner = "joining"
    /\ \A w \in Workers : wpc[w] = "exited"
    /\ owner' = "joined"
    /\ UNCHANGED <<queues, terminate, maxTasks, wvars, pvars, setter, hist>>

-----------------------------------------------------------------------------
(* setMaxTasksPerQueue takes no mutex: an atomic store, then notify_all on *)
(* the cond_removedElement of every queue.                                 *)

SetMaxTasksPerQueue(limit) ==
    /\ setter = "idle"
    /\ limit # maxTasks
    /\ maxTasks' = limit
    /\ setter' = "notify"
    /\ UNCHANGED <<queues, terminate, wvars, pvars, owner, hist>>

SetMaxNotify ==
    /\ setter = "notify"
    /\ setter' = "idle"
    /\ ppc' = [p \in Pushers |-> IF ppc[p] = "wait" THEN "woken" ELSE ppc[p]]
    /\ UNCHANGED <<queues, terminate, maxTasks, wvars, ptask, pqueue, owner, hist>>

-----------------------------------------------------------------------------
(* pushTask.                                                               *)

\* Put the task in the queue and unlock; the notification comes after.
Insert(p, t, q) ==
    /\ queues' = [queues EXCEPT ![q] = Append(@, t)]
    /\ accepted' = accepted \cup {t}
    /\ ppc' = [ppc EXCEPT ![p] = "notify"]

\* pushTask returns false: at termination, or at the end of the timeout.
Reject(p, t) ==
    /\ rejected' = rejected \cup {t}
    /\ ppc' = [ppc EXCEPT ![p] = "idle"]
    /\ UNCHANGED <<queues, accepted>>

\* From the call to the first test of the loop: m_terminate is read here
\* and nowhere else.
PushTask(p, t, q) ==
    /\ owner # "joined"
    /\ ppc[p] = "idle"
    /\ t \notin accepted \cup rejected
    /\ \A o \in Pushers : ppc[o] = "idle" \/ ptask[o] # t
    /\ MutexFree
    /\ ptask' = [ptask EXCEPT ![p] = t]
    /\ pqueue' = [pqueue EXCEPT ![p] = q]
    /\ \/ /\ terminate
          /\ Reject(p, t)
       \/ /\ ~terminate /\ QueueFull(q)
          /\ ppc' = [ppc EXCEPT ![p] = "blocking"]
          /\ UNCHANGED <<queues, accepted, rejected>>
       \/ /\ ~terminate /\ ~QueueFull(q)
          /\ Insert(p, t, q)
          /\ UNCHANGED rejected
    /\ UNCHANGED <<terminate, maxTasks, wvars, owner, setter, executed>>

\* cond_removedElement.wait / wait_for: unlock and sleep, in one step.
PushBlock(p) ==
    /\ ppc[p] = "blocking"
    /\ ppc' = [ppc EXCEPT ![p] = "wait"]
    /\ UNCHANGED <<queues, terminate, maxTasks, wvars, ptask, pqueue, owner, setter, hist>>

\* wait_for reports a timeout, either because nobody notified or because
\* the notified thread got the mutex back after its deadline (the standard
\* library compares the clock, not the reason of the wake-up).
PushTimeout(p) ==
    /\ p \in TimedPushers
    /\ ppc[p] \in {"wait", "woken"}
    /\ MutexFree
    /\ Reject(p, ptask[p])
    /\ UNCHANGED <<terminate, maxTasks, wvars, ptask, pqueue, owner, setter, executed>>

\* Mutant: the loop is an if, the limit is not looked at again.
PushResumeWithoutRecheck(p) ==
    /\ ppc[p] = "woken"
    /\ MutexFree
    /\ Insert(p, ptask[p], pqueue[p])
    /\ UNCHANGED <<terminate, maxTasks, wvars, ptask, pqueue, owner, setter, rejected, executed>>

\* The loop condition again, after a wake-up: insert, or back to sleep.
PushResume(p) ==
    /\ ppc[p] = "woken"
    /\ MutexFree
    /\ \/ /\ QueueFull(pqueue[p])
          /\ ppc' = [ppc EXCEPT ![p] = "blocking"]
          /\ UNCHANGED <<queues, accepted>>
       \/ /\ ~QueueFull(pqueue[p])
          /\ Insert(p, ptask[p], pqueue[p])
    /\ UNCHANGED <<terminate, maxTasks, wvars, ptask, pqueue, owner, setter, rejected, executed>>

\* Mutant: no notification at all.
PushNotifyForgotten(p) ==
    /\ ppc[p] = "notify"
    /\ ppc' = [ppc EXCEPT ![p] = "idle"]
    /\ UNCHANGED <<queues, terminate, maxTasks, wvars, ptask, pqueue, owner, setter, hist>>

\* m_insertedElementCond.notify_one(), then pushTask returns true.
PushNotify(p) ==
    /\ ppc[p] = "notify"
    /\ NotifyInsertedElement
    /\ ppc' = [ppc EXCEPT ![p] = "idle"]
    /\ UNCHANGED <<queues, terminate, maxTasks, wtask, wqueue, ptask, pqueue, owner, setter, hist>>

\* A condition variable may wake a waiter that nobody notified.
PushSpurious(p) ==
    /\ ppc[p] = "wait"
    /\ ppc' = [ppc EXCEPT ![p] = "woken"]
    /\ UNCHANGED <<queues, terminate, maxTasks, wvars, ptask, pqueue, owner, setter, hist>>

-----------------------------------------------------------------------------
(* popTask and taskProcessor.                                              *)

\* Mutant: front() without pop().
TakeWithoutPop(w, q) ==
    /\ wtask' = [wtask EXCEPT ![w] = Head(queues[q])]
    /\ wqueue' = [wqueue EXCEPT ![w] = q]
    /\ wpc' = [wpc EXCEPT ![w] = "notify"]
    /\ UNCHANGED queues

\* Take the front of q; the notification of q comes after the unlock.
TakeFrom(w, q) ==
    /\ queues' = [queues EXCEPT ![q] = Tail(@)]
    /\ wtask' = [wtask EXCEPT ![w] = Head(queues[q])]
    /\ wqueue' = [wqueue EXCEPT ![w] = q]
    /\ wpc' = [wpc EXCEPT ![w] = "notify"]

\* Mutant: m_terminate is looked at before the queues.
PopTaskTerminateFirst(w) ==
    /\ wpc[w] = "pop"
    /\ MutexFree
    /\ \/ ~terminate /\ \E q \in QueuesWithElements : TakeFrom(w, q)
       \/ /\ terminate \/ QueuesWithElements = {}
          /\ wpc' = [wpc EXCEPT ![w] = IF terminate THEN "exited" ELSE "wait"]
          /\ UNCHANGED <<queues, wtask, wqueue>>
    /\ UNCHANGED <<terminate, maxTasks, pvars, owner, setter, hist>>

\* First look at the queues: with nothing there the worker waits, whatever
\* m_terminate says.
PopTask(w) ==
    /\ wpc[w] = "pop"
    /\ MutexFree
    /\ \/ \E q \in QueuesWithElements : TakeFrom(w, q)
       \/ /\ QueuesWithElements = {}
          /\ wpc' = [wpc EXCEPT ![w] = "wait"]
          /\ UNCHANGED <<queues, wtask, wqueue>>
    /\ UNCHANGED <<terminate, maxTasks, pvars, owner, setter, hist>>

\* Mutant: a woken worker exits on m_terminate alone.
PopResumeIgnoresQueues(w) ==
    /\ wpc[w] = "woken"
    /\ MutexFree
    /\ \/ ~terminate /\ \E q \in QueuesWithElements : TakeFrom(w, q)
       \/ /\ terminate \/ QueuesWithElements = {}
          /\ wpc' = [wpc EXCEPT ![w] = IF terminate THEN "exited" ELSE "wait"]
          /\ UNCHANGED <<queues, wtask, wqueue>>
    /\ UNCHANGED <<terminate, maxTasks, pvars, owner, setter, hist>>

\* After a wake-up: only here is m_terminate looked at.
PopResume(w) ==
    /\ wpc[w] = "woken"
    /\ MutexFree
    /\ \/ \E q \in QueuesWithElements : TakeFrom(w, q)
       \/ /\ QueuesWithElements = {}
          /\ wpc' = [wpc EXCEPT ![w] = IF terminate THEN "exited" ELSE "wait"]
          /\ UNCHANGED <<queues, wtask, wqueue>>
    /\ UNCHANGED <<terminate, maxTasks, pvars, owner, setter, hist>>

\* cond_removedElement.notify_one() of the queue the task came from.
PopNotify(w) ==
    /\ wpc[w] = "notify"
    /\ wpc' = [wpc EXCEPT ![w] = "run"]
    /\ IF WaitingPushers(wqueue[w]) = {}
       THEN UNCHANGED ppc
       ELSE \E p \in WaitingPushers(wqueue[w]) : ppc' = [ppc EXCEPT ![p] = "woken"]
    /\ UNCHANGED <<queues, terminate, maxTasks, wtask, wqueue, ptask, pqueue, owner, setter, hist>>

\* task.task(task.data) returns; the processor loops to popTask.
RunTask(w) ==
    /\ wpc[w] = "run"
    /\ executed' = executed \cup {wtask[w]}
    /\ wtask' = [wtask EXCEPT ![w] = NoTask]
    /\ wpc' = [wpc EXCEPT ![w] = "pop"]
    /\ UNCHANGED <<queues, terminate, maxTasks, wqueue, pvars, owner, setter, accepted, rejected>>

PopSpurious(w) ==
    /\ wpc[w] = "wait"
    /\ wpc' = [wpc EXCEPT ![w] = "woken"]
    /\ UNCHANGED <<queues, terminate, maxTasks, wtask, wqueue, pvars, owner, setter, hist>>

-----------------------------------------------------------------------------
PusherStep(p) == PushBlock(p) \/ PushResume(p) \/ PushNotify(p)

WorkerStep(w) == PopTask(w) \/ PopResume(w) \/ PopNotify(w) \/ RunTask(w)

Next ==
    \/ Start
    \/ Stop
    \/ StopNotify
    \/ Join
    \/ \E limit \in Limits : SetMaxTasksPerQueue(limit)
    \/ SetMaxNotify
    \/ \E p \in Pushers, t \in Tasks, q \in QueuesByKey : PushTask(p, t, q)
    \/ \E p \in Pushers : PushBlock(p)
    \/ \E p \in TimedPushers : PushTimeout(p)
    \/ \E p \in Pushers : PushResume(p)
    \/ \E p \in Pushers : PushNotify(p)
    \/ \E p \in Pushers : PushSpurious(p)
    \/ \E w \in Workers : PopTask(w)
    \/ \E w \in Workers : PopResume(w)
    \/ \E w \in Workers : PopNotify(w)
    \/ \E w \in Workers : RunTask(w)
    \/ \E w \in Workers : PopSpurious(w)

Spec == Init /\ [][Next]_vars

\* The operating system runs every runnable thread and a task function
\* returns.  Fairness is strong for the threads that take m_queuesMutex: one
\* that finds it free again and again gets it, however often the others wake.
\* Nothing makes stop(), setMaxTasksPerQueue, a timeout or a spurious wake-up
\* happen.
Fairness ==
    /\ WF_vars(Start) /\ WF_vars(StopNotify) /\ WF_vars(Join) /\ WF_vars(SetMaxNotify)
    /\ \A p \in Pushers : SF_vars(PusherStep(p))
    /\ \A w \in Workers : SF_vars(WorkerStep(w))

FairSpec == Spec /\ Fairness

-----------------------------------------------------------------------------
(* Properties.                                                             *)

\* Every variable keeps its type: a queue holds tasks, never the null task, and
\* a thread between two steps of a call has the task and queue of that call.
TypeOK ==
    /\ queues \in [Queues -> Seq(Tasks)]
    /\ terminate \in BOOLEAN
    /\ maxTasks \in Limits
    /\ wpc \in [Workers -> {"unstarted", "pop", "wait", "woken", "notify", "run", "exited"}]
    /\ wtask \in [Workers -> Tasks \cup {NoTask}]
    /\ wqueue \in [Workers -> Queues \cup {NoQueue}]
    /\ ppc \in [Pushers -> {"idle", "blocking", "wait", "woken", "notify"}]
    /\ ptask \in [Pushers -> Tasks \cup {NoTask}]
    /\ pqueue \in [Pushers -> Queues \cup {NoQueue}]
    /\ owner \in {"constructed", "started", "notify", "joining", "joined"}
    /\ setter \in {"idle", "notify"}
    /\ accepted \subseteq Tasks
    /\ rejected \subseteq Tasks
    /\ executed \subseteq Tasks

\* No task is lost, duplicated or run after a refusal: a task that entered a
\* queue is in one position of one queue, or popped by one worker, or already
\* executed, and no other task is in any of these places (pushTask, popTask,
\* taskProcessor).
TaskAccounting ==
    /\ accepted = Queued \cup Running \cup executed
    /\ Queued \cap Running = {}
    /\ (Queued \cup Running) \cap executed = {}
    /\ accepted \cap rejected = {}
    /\ \A v, w \in Workers : wtask[v] = wtask[w] /\ wtask[v] # NoTask => v = w
    /\ \A q, r \in Queues : \A i \in 1..Len(queues[q]), j \in 1..Len(queues[r]) :
           queues[q][i] = queues[r][j] => q = r /\ i = j

\* No lost wake-up of the workers: when a task is queued, a started worker is
\* awake or some thread is about to notify m_insertedElementCond, unless
\* every worker has already exited.
NoMissedWakeup ==
    (QueuesWithElements # {} /\ owner # "constructed" /\ \E w \in Workers : wpc[w] # "exited")
       => \/ \E w \in Workers : wpc[w] \notin {"wait", "exited"}
          \/ \E p \in Pushers : ppc[p] = "notify"
          \/ owner = "notify"

\* No sleeping worker is owed a wake-up: while a worker waits, the queued tasks
\* are no more than the workers on their way to popTask's test plus the
\* notifications not sent yet.  One notify_one per insertion is enough, and
\* one notify_one less is not (pushTask, popTask).
WorkConserving ==
    WaitingWorkers # {} =>
        Cardinality(Queued) <=
            Cardinality({w \in Workers : wpc[w] \in {"pop", "woken"}})
              + Cardinality({p \in Pushers : ppc[p] = "notify"})

\* The most a queue can hold is one more than the largest limit ever set:
\* pushTask inserts while size() > m_maxTasksPerQueue is false.
QueueBound == \E m \in Limits : \A q \in Queues : Len(queues[q]) <= m + 1

\* A worker leaves only when the queues are empty after stop(): it never
\* abandons a queued task (popTask returns the null Task).
ExitOnlyWhenDrained ==
    [][\A w \in Workers : wpc[w] # "exited" /\ wpc'[w] = "exited"
           => terminate /\ QueuesWithElements = {}]_vars

\* A task accepted before stop() is executed, with or without a stop():
\* stop() drains the queues.
AcceptedBeforeStopRuns ==
    \A t \in Tasks : (t \in accepted /\ ~terminate) ~> t \in executed

\* pushTask without a timeout returns, unless the pool is stopped: a pusher put
\* to sleep by a full queue is woken once there is room (popTask's notify_one,
\* setMaxTasksPerQueue's notify_all).  threadpool.h:61 lets pushTask wait only
\* "if insertion queue is full".
UntimedPushReturns ==
    \A p \in Pushers \ TimedPushers :
        (ppc[p] = "wait") ~> (ppc[p] = "idle" \/ terminate)

\* threadpool.h:55 "Terminate to process current tasks and stop task consumer
\* threads (also called from destructor)": after stop() every worker exits, so
\* that the destructor's join returns.
StopEndsWorkers == (owner = "joining") ~> (owner = "joined")

(* The tasks of the pool: each accepted one is queued, running or done, once,
   and no task waits while every worker that could take it sleeps unnotified. *)
PoolWork == TaskAccounting /\ WorkConserving

(* What the pool promises its users: an accepted task runs, an untimed push returns. *)
PoolProgress == AcceptedBeforeStopRuns /\ UntimedPushReturns
=============================================================================
