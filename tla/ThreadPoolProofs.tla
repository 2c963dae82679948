-------------------------- MODULE ThreadPoolProofs --------------------------
(***************************************************************************)
(* Proofs about ThreadPool, for any number of workers, pushers, queues,    *)
(* tasks and limits.                                                       *)
(***************************************************************************)
EXTENDS ThreadPool, FiniteSetTheorems, TLAPS

\* A pushTask call in progress has its task and its queue; a worker past
\* popTask has the task it took and the queue it took it from.
CallArguments ==
    /\ \A p \in Pushers : ppc[p] # "idle" => ptask[p] \in Tasks /\ pqueue[p] \in Queues
    /\ \A w \in Workers : wpc[w] \in {"notify", "run"} => wtask[w] \in Tasks /\ wqueue[w] \in Queues

TypeInv == TypeOK /\ CallArguments

LEMMA TypeInit == Init => TypeInv
<1> SUFFICES ASSUME Init PROVE TypeInv
  OBVIOUS
<1>1. queues \in [Queues -> Seq(Tasks)] BY DEF Init
<1> QED BY <1>1, PoolAssumption DEF Init, TypeInv, TypeOK, CallArguments

\* The actions of the pushers keep the types.
LEMMA TypePush ==
    ASSUME TypeInv, NEW p \in Pushers,
           \/ \E t \in Tasks, q \in Queues : PushTask(p, t, q)
           \/ PushBlock(p) \/ PushTimeout(p) \/ PushResume(p) \/ PushNotify(p) \/ PushSpurious(p)
    PROVE  TypeInv'
<1> USE PoolAssumption DEF TypeInv, TypeOK, CallArguments, wvars, pvars, hist
<1>1. ASSUME NEW t \in Tasks, NEW q \in Queues, PushTask(p, t, q) PROVE TypeInv'
  <2>1. CASE Reject(p, t) /\ UNCHANGED wvars
    BY <1>1, <2>1 DEF PushTask, Reject
  <2>2. CASE Insert(p, t, q) /\ UNCHANGED rejected
    BY <1>1, <2>2 DEF PushTask, Insert
  <2>3. CASE ppc' = [ppc EXCEPT ![p] = "blocking"] /\ UNCHANGED <<queues, accepted, rejected>>
    BY <1>1, <2>3 DEF PushTask
  <2> QED BY <1>1, <2>1, <2>2, <2>3 DEF PushTask
<1>2. CASE PushBlock(p)   BY <1>2 DEF PushBlock
<1>3. CASE PushTimeout(p) BY <1>3 DEF PushTimeout, Reject
<1>4. CASE PushResume(p)
  <2>1. CASE Insert(p, ptask[p], pqueue[p])
    <3>1. ptask[p] \in Tasks /\ pqueue[p] \in Queues
      BY <1>4 DEF PushResume
    <3>2. queues' \in [Queues -> Seq(Tasks)] /\ accepted' \subseteq Tasks
      BY <2>1, <3>1 DEF Insert
    <3> QED BY <1>4, <2>1, <3>1, <3>2 DEF PushResume, Insert
  <2>2. CASE ppc' = [ppc EXCEPT ![p] = "blocking"] /\ UNCHANGED <<queues, accepted>>
    BY <1>4, <2>2 DEF PushResume
  <2> QED BY <1>4, <2>1, <2>2 DEF PushResume
<1>5. CASE PushNotify(p)
  <2>1. wpc' \in [Workers -> {"unstarted", "pop", "wait", "woken", "notify", "run", "exited"}]
        /\ \A w \in Workers : wpc'[w] \in {"notify", "run"} => wpc[w] \in {"notify", "run"}
    BY <1>5 DEF PushNotify, NotifyInsertedElement, WaitingWorkers
  <2> QED BY <1>5, <2>1 DEF PushNotify
<1>6. CASE PushSpurious(p) BY <1>6 DEF PushSpurious
<1> QED BY <1>1, <1>2, <1>3, <1>4, <1>5, <1>6

\* The actions of the workers keep the types.
LEMMA TypeWork ==
    ASSUME TypeInv, NEW w \in Workers,
           PopTask(w) \/ PopResume(w) \/ PopNotify(w) \/ RunTask(w) \/ PopSpurious(w)
    PROVE  TypeInv'
<1> USE PoolAssumption DEF TypeInv, TypeOK, CallArguments, wvars, pvars, hist
<1>1. ASSUME NEW q \in QueuesWithElements, TakeFrom(w, q),
             UNCHANGED <<terminate, maxTasks, pvars, owner, setter, hist>>
      PROVE  TypeInv'
  <2>1. q \in Queues /\ queues[q] \in Seq(Tasks) /\ queues[q] # <<>>
    BY <1>1 DEF QueuesWithElements
  <2>2. Head(queues[q]) \in Tasks /\ Tail(queues[q]) \in Seq(Tasks)
    BY <2>1
  <2> QED BY <1>1, <2>1, <2>2 DEF TakeFrom
<1>2. CASE PopTask(w)     BY <1>1, <1>2 DEF PopTask
<1>3. CASE PopResume(w)   BY <1>1, <1>3 DEF PopResume
<1>4. CASE PopNotify(w)
  <2>1. ppc' \in [Pushers -> {"idle", "blocking", "wait", "woken", "notify"}]
        /\ \A p \in Pushers : ppc'[p] # "idle" => ppc[p] # "idle"
    BY <1>4 DEF PopNotify, WaitingPushers
  <2> QED BY <1>4, <2>1 DEF PopNotify
<1>5. CASE RunTask(w)     BY <1>5 DEF RunTask
<1>6. CASE PopSpurious(w) BY <1>6 DEF PopSpurious
<1> QED BY <1>2, <1>3, <1>4, <1>5, <1>6

LEMMA TypeStep == TypeInv /\ [Next]_vars => TypeInv'
<1> SUFFICES ASSUME TypeInv, [Next]_vars PROVE TypeInv'
  OBVIOUS
<1> USE PoolAssumption DEF TypeInv, TypeOK, CallArguments, wvars, pvars, hist
<1>1. CASE Start      BY <1>1 DEF Start
<1>2. CASE Stop       BY <1>2 DEF Stop
<1>3. CASE StopNotify BY <1>3 DEF StopNotify
<1>4. CASE Join       BY <1>4 DEF Join
<1>5. ASSUME NEW limit \in Limits, SetMaxTasksPerQueue(limit) PROVE TypeInv'
  BY <1>5 DEF SetMaxTasksPerQueue
<1>6. CASE SetMaxNotify BY <1>6 DEF SetMaxNotify
<1>7. CASE UNCHANGED vars BY <1>7 DEF vars
<1> QED
  BY <1>1, <1>2, <1>3, <1>4, <1>5, <1>6, <1>7, TypePush, TypeWork, PoolAssumption DEF Next, QueuesByKey

\* The type invariant holds in every behaviour of the pool.
THEOREM PoolTypes == Spec => []TypeOK
<1>1. TypeInv => TypeOK BY DEF TypeInv
<1> QED BY TypeInit, TypeStep, <1>1, PTL DEF Spec

-----------------------------------------------------------------------------
(* No lost wake-up of the workers.  NoMissedWakeup is inductive relative   *)
(* to the types: a worker goes to sleep or exits only while it holds the   *)
(* mutex and sees empty queues, and an insertion leaves a notification     *)
(* pending until some sleeping worker, if there is one, is awake.          *)

LEMMA WakeupPush ==
    ASSUME TypeInv, NoMissedWakeup, NEW p \in Pushers,
           \/ \E t \in Tasks, q \in Queues : PushTask(p, t, q)
           \/ PushBlock(p) \/ PushTimeout(p) \/ PushResume(p) \/ PushNotify(p) \/ PushSpurious(p)
    PROVE  NoMissedWakeup'
<1> USE DEF TypeInv, TypeOK, NoMissedWakeup, QueuesWithElements, wvars, pvars, hist
<1>1. ASSUME NEW t, NEW q, Insert(p, t, q) PROVE NoMissedWakeup'
  BY <1>1 DEF Insert
<1>2. ASSUME NEW t \in Tasks, NEW q \in Queues, PushTask(p, t, q) PROVE NoMissedWakeup'
  BY <1>1, <1>2 DEF PushTask, Reject
<1>3. CASE PushBlock(p)   BY <1>3 DEF PushBlock
<1>4. CASE PushTimeout(p) BY <1>4 DEF PushTimeout, Reject
<1>5. CASE PushResume(p)  BY <1>1, <1>5 DEF PushResume
<1>6. CASE PushNotify(p)
  <2>1. CASE WaitingWorkers = {}
    BY <1>6, <2>1 DEF PushNotify, NotifyInsertedElement, WaitingWorkers
  <2>2. ASSUME NEW w \in WaitingWorkers, wpc' = [wpc EXCEPT ![w] = "woken"]
        PROVE  NoMissedWakeup'
    <3>1. w \in Workers /\ wpc'[w] = "woken"
      BY <2>2 DEF WaitingWorkers
    <3> QED BY <3>1
  <2> QED BY <1>6, <2>1, <2>2 DEF PushNotify, NotifyInsertedElement
<1>7. CASE PushSpurious(p) BY <1>7 DEF PushSpurious
<1> QED BY <1>2, <1>3, <1>4, <1>5, <1>6, <1>7

LEMMA WakeupWork ==
    ASSUME TypeInv, NoMissedWakeup, NEW w \in Workers,
           PopTask(w) \/ PopResume(w) \/ PopNotify(w) \/ RunTask(w) \/ PopSpurious(w)
    PROVE  NoMissedWakeup'
<1> USE DEF TypeInv, TypeOK, wvars, pvars, hist
<1>1. ASSUME NEW s \in {"notify", "run", "pop", "woken"}, wpc' = [wpc EXCEPT ![w] = s]
      PROVE  NoMissedWakeup'
  <2>1. wpc'[w] \notin {"wait", "exited"}
    BY <1>1
  <2> QED BY <2>1 DEF NoMissedWakeup
<1>2. CASE UNCHANGED queues /\ QueuesWithElements = {}
  BY <1>2 DEF NoMissedWakeup, QueuesWithElements
<1>3. CASE PopTask(w)     BY <1>1, <1>2, <1>3 DEF PopTask, TakeFrom
<1>4. CASE PopResume(w)   BY <1>1, <1>2, <1>4 DEF PopResume, TakeFrom
<1>5. CASE PopNotify(w)   BY <1>1, <1>5 DEF PopNotify
<1>6. CASE RunTask(w)     BY <1>1, <1>6 DEF RunTask
<1>7. CASE PopSpurious(w) BY <1>1, <1>7 DEF PopSpurious
<1> QED BY <1>3, <1>4, <1>5, <1>6, <1>7

LEMMA WakeupStep == TypeInv /\ NoMissedWakeup /\ [Next]_vars => NoMissedWakeup'
<1> SUFFICES ASSUME TypeInv, NoMissedWakeup, [Next]_vars PROVE NoMissedWakeup'
  OBVIOUS
<1> USE DEF TypeInv, TypeOK, NoMissedWakeup, QueuesWithElements, wvars, pvars, hist
<1>1. CASE Start      BY <1>1 DEF Start
<1>2. CASE Stop       BY <1>2 DEF Stop
<1>3. CASE StopNotify BY <1>3 DEF StopNotify
<1>4. CASE Join       BY <1>4 DEF Join
<1>5. ASSUME NEW limit \in Limits, SetMaxTasksPerQueue(limit) PROVE NoMissedWakeup'
  BY <1>5 DEF SetMaxTasksPerQueue
<1>6. CASE SetMaxNotify BY <1>6 DEF SetMaxNotify
<1>7. CASE UNCHANGED vars BY <1>7 DEF vars
<1> QED
  BY <1>1, <1>2, <1>3, <1>4, <1>5, <1>6, <1>7, WakeupPush, WakeupWork, PoolAssumption DEF Next, QueuesByKey

\* In every behaviour of the pool a queued task has an awake worker or a
\* notification on its way.
THEOREM PoolNoMissedWakeup == Spec => []NoMissedWakeup
<1>1. Init => NoMissedWakeup
  BY DEF Init, NoMissedWakeup, QueuesWithElements
<1> QED BY TypeInit, TypeStep, <1>1, WakeupStep, PTL DEF Spec
-----------------------------------------------------------------------------
(* The bound of the queues.                                                *)

\* One insertion: the queue had at most maxTasks tasks, the others keep the
\* bound m they had, and the larger of m and maxTasks serves for all.
LEMMA InsertBound ==
    ASSUME TypeOK, QueueBound, NEW p \in Pushers, NEW t \in Tasks, NEW q \in Queues,
           ~QueueFull(q), Insert(p, t, q)
    PROVE  QueueBound'
<1>1. PICK m \in Limits : \A r \in Queues : Len(queues[r]) <= m + 1
  BY DEF QueueBound
<1>2. m \in Nat /\ maxTasks \in Nat /\ maxTasks \in Limits
  BY PoolAssumption DEF TypeOK
<1>3. queues[q] \in Seq(Tasks) /\ Len(queues[q]) \in Nat /\ Len(queues[q]) <= maxTasks
  BY <1>2 DEF TypeOK, QueueFull
<1>4. Len(queues'[q]) <= maxTasks + 1
  BY <1>2, <1>3 DEF Insert, TypeOK
<1>5. \A r \in Queues : r # q => queues'[r] = queues[r]
  BY DEF Insert, TypeOK
<1>6. \A r \in Queues : Len(queues[r]) \in Nat
  BY DEF TypeOK
<1>7. CASE m <= maxTasks
  <2>1. \A r \in Queues : Len(queues'[r]) <= maxTasks + 1
    BY <1>1, <1>2, <1>4, <1>5, <1>6, <1>7
  <2> QED BY <1>2, <2>1 DEF QueueBound
<1>8. CASE maxTasks <= m
  <2>1. \A r \in Queues : Len(queues'[r]) <= m + 1
    <3> SUFFICES ASSUME NEW r \in Queues PROVE Len(queues'[r]) <= m + 1
      OBVIOUS
    <3>1. CASE r = q
      <4>1. Len(queues'[q]) \in Nat
        BY <1>3 DEF Insert, TypeOK
      <4> QED BY <1>2, <1>4, <1>8, <3>1, <4>1
    <3>2. CASE r # q BY <1>1, <1>5, <3>2
    <3> QED BY <3>1, <3>2
  <2> QED BY <2>1 DEF QueueBound
<1> QED BY <1>2, <1>7, <1>8

LEMMA TakeBound ==
    ASSUME TypeOK, QueueBound, NEW w \in Workers, NEW q \in QueuesWithElements, TakeFrom(w, q)
    PROVE  QueueBound'
<1>1. PICK m \in Limits : \A r \in Queues : Len(queues[r]) <= m + 1
  BY DEF QueueBound
<1>2. m \in Nat
  BY PoolAssumption
<1>3. q \in Queues /\ queues[q] \in Seq(Tasks) /\ queues[q] # <<>>
  BY DEF QueuesWithElements, TypeOK
<1>4. queues' = [queues EXCEPT ![q] = Tail(queues[q])]
  BY DEF TakeFrom
<1>5. Len(Tail(queues[q])) = Len(queues[q]) - 1 /\ Len(queues[q]) \in Nat
  BY <1>3
<1>6. \A r \in Queues : Len(queues'[r]) <= m + 1
  BY <1>1, <1>2, <1>3, <1>4, <1>5 DEF TypeOK
<1> QED BY <1>6 DEF QueueBound

LEMMA BoundStep == TypeInv /\ QueueBound /\ [Next]_vars => QueueBound'
<1> SUFFICES ASSUME TypeInv, QueueBound, [Next]_vars PROVE QueueBound'
  OBVIOUS
<1>0. TypeOK
  BY DEF TypeInv
<1>1. CASE UNCHANGED queues BY <1>1 DEF QueueBound
<1>2. ASSUME NEW p \in Pushers, NEW t \in Tasks, NEW q \in Queues, PushTask(p, t, q)
      PROVE  QueueBound'
  BY <1>0, <1>1, <1>2, InsertBound DEF PushTask, Reject
<1>3. ASSUME NEW p \in Pushers, PushResume(p) PROVE QueueBound'
  <2>1. ptask[p] \in Tasks /\ pqueue[p] \in Queues
    BY <1>3 DEF PushResume, TypeInv, CallArguments
  <2> QED BY <1>0, <1>1, <1>3, <2>1, InsertBound DEF PushResume
<1>4. ASSUME NEW w \in Workers, PopTask(w) \/ PopResume(w) PROVE QueueBound'
  BY <1>0, <1>1, <1>4, TakeBound DEF PopTask, PopResume
<1> QED
  BY <1>1, <1>2, <1>3, <1>4
  DEF Next, QueuesByKey, vars, Start, Stop, StopNotify, Join, SetMaxTasksPerQueue, SetMaxNotify, PushBlock,
      PushTimeout, Reject, PushNotify, PushSpurious, PopNotify, RunTask, PopSpurious

\* No queue ever holds more than one task above the largest limit set.
THEOREM PoolQueueBound == Spec => []QueueBound
<1>1. Init => QueueBound
  BY PoolAssumption DEF Init, QueueBound
<1> QED BY TypeInit, TypeStep, <1>1, BoundStep, PTL DEF Spec

\* In every behaviour a worker exits only after stop() and with every queue
\* empty.
THEOREM PoolExitOnlyWhenDrained == Spec => ExitOnlyWhenDrained
<1>1. ASSUME TypeInv, [Next]_vars
      PROVE  [\A w \in Workers : wpc[w] # "exited" /\ wpc'[w] = "exited"
                 => terminate /\ QueuesWithElements = {}]_vars
  <2> SUFFICES ASSUME NEW w \in Workers, wpc[w] # "exited", wpc'[w] = "exited", Next
               PROVE  terminate /\ QueuesWithElements = {}
    BY <1>1 DEF vars
  <2> USE <1>1 DEF TypeInv, TypeOK, wvars
  <2>1. PICK v \in Workers : PopResume(v)
    BY DEF Next, QueuesByKey, Start, Stop, StopNotify, Join, SetMaxTasksPerQueue, SetMaxNotify, PushTask,
           PushBlock, PushTimeout, PushResume, PushNotify, NotifyInsertedElement, PushSpurious,
           PopTask, TakeFrom, PopNotify, RunTask, PopSpurious
  <2> QED BY <2>1 DEF PopResume, TakeFrom
<1> QED BY TypeInit, TypeStep, <1>1, PTL DEF Spec, ExitOnlyWhenDrained
-----------------------------------------------------------------------------
(* The accounting of the tasks.  TaskAccounting is inductive together with *)
(* three facts about the threads: there are none before start(), a worker  *)
(* holds a task exactly between popTask and the end of the task, and a     *)
(* pusher that sleeps on a full queue still has its task to itself.        *)

NotStarted == owner = "constructed" => \A w \in Workers : wpc[w] = "unstarted"

HoldsTask == \A w \in Workers : wtask[w] # NoTask <=> wpc[w] \in {"notify", "run"}

Undecided(p) == ppc[p] \in {"blocking", "wait", "woken"}

PendingTasks ==
    /\ \A p \in Pushers : Undecided(p) => ptask[p] \notin accepted \cup rejected
    /\ \A p, o \in Pushers : Undecided(p) /\ Undecided(o) /\ ptask[p] = ptask[o] => p = o

AccountInv == NotStarted /\ HoldsTask /\ PendingTasks /\ TaskAccounting

LEMMA QueuedMember ==
    \A t : t \in Queued <=> \E q \in Queues : \E i \in 1..Len(queues[q]) : t = queues[q][i]
BY DEF Queued

\* One insertion puts a task that was nowhere in one place.
LEMMA InsertAccount ==
    ASSUME TypeInv, TaskAccounting, NEW p \in Pushers, NEW t \in Tasks, NEW q \in Queues,
           t \notin accepted \cup rejected, Insert(p, t, q), UNCHANGED <<wtask, rejected, executed>>
    PROVE  /\ TaskAccounting'
           /\ Queued' = Queued \cup {t} /\ t \notin Queued
<1> DEFINE n == Len(queues[q])
<1>1. queues \in [Queues -> Seq(Tasks)] /\ n \in Nat /\ queues[q] \in Seq(Tasks)
  BY DEF TypeInv, TypeOK
<1>2. queues' = [queues EXCEPT ![q] = Append(queues[q], t)] /\ accepted' = accepted \cup {t}
  BY DEF Insert
<1>3. /\ Len(queues'[q]) = n + 1 /\ queues'[q][n + 1] = t
      /\ \A i \in 1..n : queues'[q][i] = queues[q][i]
  BY <1>1, <1>2
<1>4. \A r \in Queues : r # q => queues'[r] = queues[r]
  BY <1>1, <1>2
<1>5. t \notin Queued /\ t \notin Running /\ t \notin executed
  BY DEF TaskAccounting
<1>6. Queued' = Queued \cup {t}
  <2>1. ASSUME NEW u \in Queued' PROVE u \in Queued \cup {t}
    <3>1. PICK r \in Queues, i \in Nat : i \in 1..Len(queues'[r]) /\ u = queues'[r][i]
      BY <2>1 DEF Queued
    <3>2. CASE r # q
      BY <1>4, <3>1, <3>2, QueuedMember
    <3>3. CASE r = q
      <4>1. i \in 1..n \/ i = n + 1
        BY <1>1, <1>3, <3>1, <3>3
      <4> QED BY <1>3, <3>1, <3>3, <4>1, QueuedMember
    <3> QED BY <3>2, <3>3
  <2>2. ASSUME NEW u \in Queued PROVE u \in Queued'
    <3>1. PICK r \in Queues, i \in Nat : i \in 1..Len(queues[r]) /\ u = queues[r][i]
      BY <2>2, QueuedMember
    <3>2. i \in 1..Len(queues'[r]) /\ queues'[r][i] = u
      BY <1>1, <1>3, <1>4, <3>1
    <3> QED BY <3>2 DEF Queued
  <2>3. t \in Queued'
    <3>1. n + 1 \in 1..Len(queues'[q])
      BY <1>1, <1>3
    <3> QED BY <1>3, <3>1 DEF Queued
  <2> QED BY <2>1, <2>2, <2>3
<1>7. Running' = Running /\ executed' = executed /\ rejected' = rejected
  BY DEF Running
<1>8. /\ accepted' = Queued' \cup Running' \cup executed'
      /\ Queued' \cap Running' = {}
      /\ (Queued' \cup Running') \cap executed' = {}
      /\ accepted' \cap rejected' = {}
  BY <1>2, <1>5, <1>6, <1>7 DEF TaskAccounting
<1>9. ASSUME NEW r \in Queues, NEW s \in Queues, NEW i \in 1..Len(queues'[r]),
             NEW j \in 1..Len(queues'[s]), queues'[r][i] = queues'[s][j]
      PROVE  r = s /\ i = j
  <2>1. ASSUME NEW k \in Queues, NEW l \in 1..Len(queues'[k])
        PROVE  \/ k = q /\ l = n + 1 /\ queues'[k][l] = t
               \/ l \in 1..Len(queues[k]) /\ queues'[k][l] = queues[k][l] /\ queues[k][l] # t
    <3>1. CASE l \in 1..Len(queues[k]) /\ queues'[k][l] = queues[k][l]
      BY <1>5, <3>1, QueuedMember
    <3>2. CASE k = q /\ l = n + 1
      BY <1>3, <3>2
    <3>3. CASE k # q
      BY <1>4, <3>1, <3>3
    <3>4. CASE k = q
      <4>1. l \in 1..n \/ l = n + 1
        BY <1>1, <1>3, <2>1, <3>4
      <4> QED BY <1>3, <3>1, <3>2, <3>4, <4>1
    <3> QED BY <3>3, <3>4
  <2> QED BY <1>9, <2>1 DEF TaskAccounting
<1> QED BY <1>5, <1>6, <1>8, <1>9 DEF TaskAccounting

\* popTask moves a task from the front of a queue to a worker that had none.
LEMMA TakeAccount ==
    ASSUME TypeInv, TaskAccounting, HoldsTask, NEW w \in Workers, NEW q \in QueuesWithElements,
           TakeFrom(w, q), wpc[w] \in {"pop", "woken"}, UNCHANGED <<accepted, rejected, executed>>
    PROVE  /\ TaskAccounting'
           /\ Queued = Queued' \cup {Head(queues[q])} /\ Head(queues[q]) \notin Queued'
<1> DEFINE t == Head(queues[q])
           n == Len(queues[q])
<1>1. q \in Queues /\ queues \in [Queues -> Seq(Tasks)] /\ queues[q] \in Seq(Tasks) /\ queues[q] # <<>>
  BY DEF TypeInv, TypeOK, QueuesWithElements
<1>2. n \in Nat /\ n > 0 /\ t = queues[q][1] /\ t \in Tasks
  BY <1>1
<1>3. queues' = [queues EXCEPT ![q] = Tail(queues[q])] /\ wtask' = [wtask EXCEPT ![w] = t]
  BY DEF TakeFrom
<1>4. Len(queues'[q]) = n - 1 /\ \A i \in 1..(n - 1) : queues'[q][i] = queues[q][i + 1]
  BY <1>1, <1>2, <1>3
<1>5. \A r \in Queues : r # q => queues'[r] = queues[r]
  BY <1>1, <1>3
<1>6. t \in Queued
  BY <1>1, <1>2, QueuedMember
<1> HIDE DEF t, n
<1>7. ASSUME NEW r \in Queues, NEW i \in 1..Len(queues'[r])
      PROVE  \/ r # q /\ i \in 1..Len(queues[r]) /\ queues'[r][i] = queues[r][i]
             \/ r = q /\ i + 1 \in 1..Len(queues[r]) /\ queues'[r][i] = queues[r][i + 1]
  <2>1. CASE r # q BY <1>5, <1>7, <2>1
  <2>2. CASE r = q
    <3>1. i \in 1..(n - 1) /\ i + 1 \in 1..n /\ Len(queues[q]) = n
      BY <1>2, <1>4, <1>7, <2>2 DEF n
    <3> QED BY <1>4, <2>2, <3>1
  <2> QED BY <2>1, <2>2
<1>8. t \notin Queued'
  <2> SUFFICES ASSUME t \in Queued' PROVE FALSE
    OBVIOUS
  <2>1. PICK r \in Queues, i \in Nat : i \in 1..Len(queues'[r]) /\ t = queues'[r][i]
    BY DEF Queued
  <2>2. 1 \in 1..Len(queues[q])
    BY <1>2 DEF n
  <2>3. CASE r # q
    <3>1. i \in 1..Len(queues[r]) /\ queues[r][i] = queues[q][1]
      BY <1>2, <1>7, <2>1, <2>3
    <3> QED BY <1>1, <2>2, <2>3, <3>1 DEF TaskAccounting
  <2>4. CASE r = q
    <3>1. i + 1 \in 1..Len(queues[q]) /\ queues[q][i + 1] = queues[q][1]
      BY <1>2, <1>7, <2>1, <2>4
    <3>2. i + 1 = 1
      BY <1>1, <2>2, <3>1 DEF TaskAccounting
    <3> QED BY <2>1, <3>2
  <2> QED BY <2>3, <2>4
<1>9. Queued = Queued' \cup {t}
  <2>1. ASSUME NEW u \in Queued' PROVE u \in Queued
    <3>1. PICK r \in Queues, i \in Nat : i \in 1..Len(queues'[r]) /\ u = queues'[r][i]
      BY <2>1 DEF Queued
    <3> QED BY <1>7, <3>1, QueuedMember
  <2>2. ASSUME NEW u \in Queued PROVE u \in Queued' \cup {t}
    <3>1. PICK r \in Queues, i \in Nat : i \in 1..Len(queues[r]) /\ u = queues[r][i]
      BY <2>2, QueuedMember
    <3>2. CASE r # q
      BY <1>5, <3>1, <3>2 DEF Queued
    <3>3. CASE r = q /\ i = 1
      BY <1>2, <3>1, <3>3
    <3>4. CASE r = q /\ i # 1
      <4>1. i - 1 \in 1..(n - 1) /\ (i - 1) + 1 = i
        BY <1>2, <3>1, <3>4 DEF n
      <4>2. queues'[q][i - 1] = u /\ i - 1 \in 1..Len(queues'[q])
        BY <1>4, <3>1, <3>4, <4>1
      <4> QED BY <1>1, <4>2 DEF Queued
    <3> QED BY <3>2, <3>3, <3>4
  <2> QED BY <1>6, <2>1, <2>2
<1>10. wtask[w] = NoTask /\ wtask \in [Workers -> Tasks \cup {NoTask}]
  BY DEF HoldsTask, TypeInv, TypeOK
<1>11. Running' = Running \cup {t}
  BY <1>2, <1>3, <1>10, PoolAssumption DEF Running
<1>12. /\ accepted' = Queued' \cup Running' \cup executed'
       /\ Queued' \cap Running' = {}
       /\ (Queued' \cup Running') \cap executed' = {}
       /\ accepted' \cap rejected' = {}
  BY <1>6, <1>8, <1>9, <1>11 DEF TaskAccounting
<1>13. t \notin Running
  BY <1>6 DEF TaskAccounting
<1>14. ASSUME NEW v \in Workers, NEW u \in Workers, wtask'[v] = wtask'[u], wtask'[v] # NoTask
       PROVE  v = u
  <2>1. \A x \in Workers : x # w => wtask'[x] = wtask[x] /\ wtask[x] # t
    BY <1>2, <1>3, <1>10, <1>13, PoolAssumption DEF Running
  <2>2. wtask'[w] = t
    BY <1>3, <1>10
  <2> QED BY <1>14, <2>1, <2>2 DEF TaskAccounting
<1>15. ASSUME NEW r \in Queues, NEW s \in Queues, NEW i \in 1..Len(queues'[r]),
              NEW j \in 1..Len(queues'[s]), queues'[r][i] = queues'[s][j]
       PROVE  r = s /\ i = j
  <2>1. CASE r = q /\ s = q
    <3>1. i + 1 = j + 1
      BY <1>7, <1>15, <2>1 DEF TaskAccounting
    <3> QED BY <2>1, <3>1
  <2>2. CASE r # q /\ s # q
    BY <1>7, <1>15, <2>2 DEF TaskAccounting
  <2>3. CASE r = q /\ s # q
    BY <1>7, <1>15, <2>3 DEF TaskAccounting
  <2>4. CASE r # q /\ s = q
    BY <1>7, <1>15, <2>4 DEF TaskAccounting
  <2> QED BY <2>1, <2>2, <2>3, <2>4
<1> QED BY <1>8, <1>9, <1>12, <1>14, <1>15 DEF TaskAccounting, t
LEMMA AccountFrame ==
    ASSUME TaskAccounting, UNCHANGED <<queues, wtask, accepted, rejected, executed>>
    PROVE  TaskAccounting'
<1>1. Queued' = Queued /\ Running' = Running
  BY DEF Queued, Running
<1>2. queues' = queues /\ wtask' = wtask
  OBVIOUS
<1> QED BY <1>1, <1>2 DEF TaskAccounting

\* pushTask refuses a task that no queue has.
LEMMA RejectAccount ==
    ASSUME TaskAccounting, NEW t, t \notin accepted, rejected' = rejected \cup {t},
           UNCHANGED <<queues, wtask, accepted, executed>>
    PROVE  TaskAccounting'
<1>1. Queued' = Queued /\ Running' = Running
  BY DEF Queued, Running
<1>2. queues' = queues /\ wtask' = wtask
  OBVIOUS
<1> QED BY <1>1, <1>2 DEF TaskAccounting

LEMMA AccountPush ==
    ASSUME TypeInv, AccountInv, NEW p \in Pushers,
           \/ \E t \in Tasks, q \in Queues : PushTask(p, t, q)
           \/ PushBlock(p) \/ PushTimeout(p) \/ PushResume(p) \/ PushNotify(p) \/ PushSpurious(p)
    PROVE  AccountInv'
<1> USE DEF TypeInv, TypeOK, AccountInv, NotStarted, HoldsTask, PendingTasks, Undecided, wvars, pvars, hist
<1>1. ASSUME UNCHANGED <<queues, wtask, accepted, rejected, executed>> PROVE TaskAccounting'
  BY <1>1, AccountFrame
<1>2. ASSUME NEW t, t \notin accepted, rejected' = rejected \cup {t},
             UNCHANGED <<queues, wtask, accepted, executed>>
      PROVE  TaskAccounting'
  BY <1>2, RejectAccount
<1>3. ASSUME NEW t \in Tasks, NEW q \in Queues, PushTask(p, t, q) PROVE AccountInv'
  <2>1. CASE Reject(p, t)
    <3>1. TaskAccounting'
      BY <1>2, <1>3, <2>1 DEF PushTask, Reject
    <3> QED BY <1>3, <2>1, <3>1 DEF PushTask, Reject
  <2>2. CASE ppc' = [ppc EXCEPT ![p] = "blocking"] /\ UNCHANGED <<queues, accepted, rejected>>
    <3>1. TaskAccounting'
      BY <1>1, <1>3, <2>2 DEF PushTask
    <3> QED BY <1>3, <2>2, <3>1 DEF PushTask
  <2>3. CASE Insert(p, t, q) /\ UNCHANGED rejected
    <3>1. TaskAccounting'
      BY <1>3, <2>3, InsertAccount DEF PushTask
    <3> QED BY <1>3, <2>3, <3>1 DEF PushTask, Insert
  <2> QED BY <1>3, <2>1, <2>2, <2>3 DEF PushTask
<1>4. CASE PushBlock(p) BY <1>1, <1>4 DEF PushBlock
<1>5. CASE PushTimeout(p)
  <2>1. ptask[p] \notin accepted
    BY <1>5 DEF PushTimeout
  <2>2. TaskAccounting'
    BY <1>2, <1>5, <2>1 DEF PushTimeout, Reject
  <2> QED BY <1>5, <2>2 DEF PushTimeout, Reject
<1>6. CASE PushResume(p)
  <2>1. ptask[p] \in Tasks /\ pqueue[p] \in Queues /\ ptask[p] \notin accepted \cup rejected
    BY <1>6 DEF PushResume, CallArguments
  <2>2. CASE Insert(p, ptask[p], pqueue[p])
    <3>1. TaskAccounting'
      BY <1>6, <2>1, <2>2, InsertAccount DEF PushResume
    <3> QED BY <1>6, <2>1, <2>2, <3>1 DEF PushResume, Insert
  <2>3. CASE UNCHANGED <<queues, accepted>> /\ ppc' = [ppc EXCEPT ![p] = "blocking"]
    BY <1>1, <1>6, <2>3 DEF PushResume
  <2> QED BY <1>6, <2>2, <2>3 DEF PushResume
<1>7. CASE PushNotify(p)
  <2>1. \A w \in Workers : /\ wpc'[w] \in {"notify", "run"} <=> wpc[w] \in {"notify", "run"}
                           /\ wpc'[w] = "unstarted" <=> wpc[w] = "unstarted"
    BY <1>7 DEF PushNotify, NotifyInsertedElement, WaitingWorkers
  <2> QED BY <1>1, <1>7, <2>1 DEF PushNotify
<1>8. CASE PushSpurious(p) BY <1>1, <1>8 DEF PushSpurious
<1> QED BY <1>3, <1>4, <1>5, <1>6, <1>7, <1>8

LEMMA AccountWork ==
    ASSUME TypeInv, AccountInv, NEW w \in Workers,
           PopTask(w) \/ PopResume(w) \/ PopNotify(w) \/ RunTask(w) \/ PopSpurious(w)
    PROVE  AccountInv'
<1> USE DEF TypeInv, TypeOK, AccountInv, NotStarted, HoldsTask, PendingTasks, Undecided, wvars, pvars, hist
<1>1. ASSUME UNCHANGED <<queues, wtask, accepted, rejected, executed>> PROVE TaskAccounting'
  BY <1>1, AccountFrame
<1>2. ASSUME NEW q \in QueuesWithElements, TakeFrom(w, q), wpc[w] \in {"pop", "woken"},
             UNCHANGED <<terminate, maxTasks, pvars, owner, setter, hist>>
      PROVE  AccountInv'
  <2>1. Head(queues[q]) # NoTask
    BY PoolAssumption DEF QueuesWithElements
  <2>2. TaskAccounting'
    BY <1>2, TakeAccount
  <2> QED BY <1>2, <2>1, <2>2 DEF TakeFrom
<1>3. CASE PopTask(w)     BY <1>1, <1>2, <1>3 DEF PopTask
<1>4. CASE PopResume(w)   BY <1>1, <1>2, <1>4 DEF PopResume
<1>5. CASE PopNotify(w)
  <2>1. \A p \in Pushers : ppc'[p] \in {"blocking", "wait", "woken"} <=> ppc[p] \in {"blocking", "wait", "woken"}
    BY <1>5 DEF PopNotify, WaitingPushers
  <2> QED BY <1>1, <1>5, <2>1 DEF PopNotify
<1>6. CASE RunTask(w)
  <2>1. wtask[w] # NoTask /\ wtask' = [wtask EXCEPT ![w] = NoTask] /\ executed' = executed \cup {wtask[w]}
    BY <1>6 DEF RunTask
  <2>2. Running' = Running \ {wtask[w]} /\ wtask[w] \in Running
    BY <2>1 DEF TaskAccounting, Running
  <2>3. Queued' = Queued /\ accepted' = accepted /\ rejected' = rejected /\ queues' = queues
    BY <1>6 DEF RunTask, Queued
  <2>4. TaskAccounting'
    BY <2>1, <2>2, <2>3 DEF TaskAccounting
  <2> QED BY <1>6, <2>4 DEF RunTask
<1>7. CASE PopSpurious(w) BY <1>1, <1>7 DEF PopSpurious
<1> QED BY <1>3, <1>4, <1>5, <1>6, <1>7

LEMMA AccountStep == TypeInv /\ AccountInv /\ [Next]_vars => AccountInv'
<1> SUFFICES ASSUME TypeInv, AccountInv, [Next]_vars PROVE AccountInv'
  OBVIOUS
<1> USE DEF TypeInv, TypeOK, AccountInv, NotStarted, HoldsTask, PendingTasks, Undecided, wvars, pvars, hist
<1>0. ASSUME UNCHANGED <<queues, wtask, accepted, rejected, executed>> PROVE TaskAccounting'
  BY <1>0, AccountFrame
<1>1. CASE Start
  <2>1. \A w \in Workers : wpc[w] \notin {"notify", "run"}
    BY <1>1 DEF Start
  <2> QED BY <1>0, <1>1, <2>1 DEF Start
<1>2. CASE Stop       BY <1>0, <1>2 DEF Stop
<1>3. CASE StopNotify BY <1>0, <1>3 DEF StopNotify
<1>4. CASE Join       BY <1>0, <1>4 DEF Join
<1>5. ASSUME NEW limit \in Limits, SetMaxTasksPerQueue(limit) PROVE AccountInv'
  BY <1>0, <1>5 DEF SetMaxTasksPerQueue
<1>6. CASE SetMaxNotify BY <1>0, <1>6 DEF SetMaxNotify
<1>7. CASE UNCHANGED vars BY <1>0, <1>7 DEF vars
<1> QED
  BY <1>1, <1>2, <1>3, <1>4, <1>5, <1>6, <1>7, AccountPush, AccountWork, PoolAssumption DEF Next, QueuesByKey
-----------------------------------------------------------------------------
(* No queued task is left to sleeping workers.  WorkConserving counts      *)
(* three sets; each step that disturbs it moves one element from a set on  *)
(* its right to another, or adds or removes one on both sides.  A worker   *)
(* goes to sleep only with nothing queued.                                 *)

OnTheWay  == {w \in Workers : wpc[w] \in {"pop", "woken"}}
Notifying == {p \in Pushers : ppc[p] = "notify"}

WorkInv == TypeInv /\ AccountInv /\ WorkConserving /\ IsFiniteSet(accepted)

\* The three counts are natural numbers.
LEMMA FiniteCounts ==
    ASSUME WorkInv
    PROVE  /\ IsFiniteSet(Queued) /\ Cardinality(Queued) \in Nat
           /\ IsFiniteSet(OnTheWay) /\ Cardinality(OnTheWay) \in Nat
           /\ IsFiniteSet(Notifying) /\ Cardinality(Notifying) \in Nat
<1>1. IsFiniteSet(accepted) /\ Queued \subseteq accepted
  BY DEF WorkInv, AccountInv, TaskAccounting
<1>2. IsFiniteSet(Queued)
  BY <1>1, FS_Subset
<1>3. IsFiniteSet(Workers) /\ OnTheWay \subseteq Workers /\ IsFiniteSet(Pushers) /\ Notifying \subseteq Pushers
  BY PoolAssumption DEF OnTheWay, Notifying
<1>4. IsFiniteSet(OnTheWay) /\ IsFiniteSet(Notifying)
  BY <1>3, FS_Subset
<1> QED BY <1>2, <1>4, FS_CardinalityType

\* What WorkConserving says, with the names of the sets.
LEMMA WorkCounts ==
    WorkConserving <=>
        (WaitingWorkers # {} => Cardinality(Queued) <= Cardinality(OnTheWay) + Cardinality(Notifying))
BY DEF WorkConserving, OnTheWay, Notifying

\* A step that wakes no more than sleeping workers, and neither queues nor
\* notifies, keeps the balance.
LEMMA WorkFrame ==
    ASSUME WorkInv, UNCHANGED queues, Notifying' = Notifying,
           WaitingWorkers' \subseteq WaitingWorkers, OnTheWay \subseteq OnTheWay'
    PROVE  WorkConserving'
<1>1. Queued' = Queued
  BY DEF Queued
<1>2. IsFiniteSet(OnTheWay')
  <2>1. IsFiniteSet(Workers) /\ OnTheWay' \subseteq Workers
    BY PoolAssumption DEF OnTheWay
  <2> QED BY <2>1, FS_Subset
<1>3. Cardinality(OnTheWay) <= Cardinality(OnTheWay') /\ Cardinality(OnTheWay') \in Nat
  BY <1>2, FS_Subset, FS_CardinalityType
<1>4. WaitingWorkers # {} => Cardinality(Queued) <= Cardinality(OnTheWay) + Cardinality(Notifying)
  BY WorkCounts DEF WorkInv
<1>5. WaitingWorkers' # {} => Cardinality(Queued') <= Cardinality(OnTheWay') + Cardinality(Notifying')
  BY <1>1, <1>3, <1>4, FiniteCounts
<1> QED BY <1>5 DEF WorkConserving, OnTheWay, Notifying

\* With nothing queued there is nothing to owe.
LEMMA WorkEmpty ==
    ASSUME WorkInv, Queued' = {}
    PROVE  WorkConserving'
<1>1. Cardinality(Queued') = 0
  BY FS_EmptySet
<1>2. IsFiniteSet(OnTheWay') /\ IsFiniteSet(Notifying')
  <2>1. /\ IsFiniteSet(Workers) /\ OnTheWay' \subseteq Workers
        /\ IsFiniteSet(Pushers) /\ Notifying' \subseteq Pushers
    BY PoolAssumption DEF OnTheWay, Notifying
  <2> QED BY <2>1, FS_Subset
<1>3. Cardinality(OnTheWay') \in Nat /\ Cardinality(Notifying') \in Nat
  BY <1>2, FS_CardinalityType
<1>4. Cardinality(Queued') <= Cardinality(OnTheWay') + Cardinality(Notifying')
  BY <1>1, <1>3
<1> QED BY <1>4 DEF WorkConserving, OnTheWay, Notifying

\* An insertion adds one task and one notification.
LEMMA InsertWork ==
    ASSUME WorkInv, NEW p \in Pushers, NEW t \in Tasks, NEW q \in Queues,
           t \notin accepted \cup rejected, ppc[p] # "notify", Insert(p, t, q),
           UNCHANGED <<wpc, wtask, rejected, executed>>
    PROVE  WorkConserving' /\ IsFiniteSet(accepted')
<1>1. Queued' = Queued \cup {t} /\ t \notin Queued
  BY InsertAccount DEF WorkInv, AccountInv
<1>2. Notifying' = Notifying \cup {p} /\ p \notin Notifying /\ OnTheWay' = OnTheWay
      /\ WaitingWorkers' = WaitingWorkers
  BY DEF Insert, Notifying, OnTheWay, WaitingWorkers, WorkInv, TypeInv, TypeOK
<1>3. Cardinality(Queued') = Cardinality(Queued) + 1
  BY <1>1, FiniteCounts, FS_AddElement
<1>4. Cardinality(Notifying') = Cardinality(Notifying) + 1
  BY <1>2, FiniteCounts, FS_AddElement
<1>5. WaitingWorkers # {} => Cardinality(Queued) <= Cardinality(OnTheWay) + Cardinality(Notifying)
  BY WorkCounts DEF WorkInv
<1>6. WaitingWorkers' # {} => Cardinality(Queued') <= Cardinality(OnTheWay') + Cardinality(Notifying')
  BY <1>2, <1>3, <1>4, <1>5, FiniteCounts
<1>7. IsFiniteSet(accepted')
  BY FS_AddElement DEF Insert, WorkInv
<1> QED BY <1>6, <1>7 DEF WorkConserving, OnTheWay, Notifying

\* popTask removes one task and one worker on its way.
LEMMA TakeWork ==
    ASSUME WorkInv, NEW w \in Workers, NEW q \in QueuesWithElements, TakeFrom(w, q),
           wpc[w] \in {"pop", "woken"}, UNCHANGED <<ppc, accepted, rejected, executed>>
    PROVE  WorkConserving'
<1> DEFINE t == Head(queues[q])
<1>1. Queued = Queued' \cup {t} /\ t \notin Queued'
  BY TakeAccount DEF WorkInv, AccountInv
<1>2. Queued' = Queued \ {t} /\ t \in Queued
  BY <1>1
<1>3. OnTheWay' = OnTheWay \ {w} /\ w \in OnTheWay /\ Notifying' = Notifying
      /\ WaitingWorkers' = WaitingWorkers
  BY DEF TakeFrom, Notifying, OnTheWay, WaitingWorkers, WorkInv, TypeInv, TypeOK
<1> HIDE DEF t
<1>4. Cardinality(Queued') = Cardinality(Queued) - 1
  BY <1>2, FiniteCounts, FS_RemoveElement
<1>5. Cardinality(OnTheWay') = Cardinality(OnTheWay) - 1
  BY <1>3, FiniteCounts, FS_RemoveElement
<1>6. WaitingWorkers # {} => Cardinality(Queued) <= Cardinality(OnTheWay) + Cardinality(Notifying)
  BY WorkCounts DEF WorkInv
<1>7. WaitingWorkers' # {} => Cardinality(Queued') <= Cardinality(OnTheWay') + Cardinality(Notifying')
  BY <1>3, <1>4, <1>5, <1>6, FiniteCounts
<1> QED BY <1>7 DEF WorkConserving, OnTheWay, Notifying

\* notify_one turns a notification into a worker on its way, or finds that
\* nobody sleeps.
LEMMA NotifyWork ==
    ASSUME WorkInv, NEW p \in Pushers, PushNotify(p)
    PROVE  WorkConserving'
<1> USE DEF WorkInv, TypeInv, TypeOK
<1>1. CASE WaitingWorkers = {}
  <2>1. WaitingWorkers' = {}
    BY <1>1 DEF PushNotify, NotifyInsertedElement, WaitingWorkers
  <2> QED BY <2>1 DEF WorkConserving
<1>2. ASSUME NEW w \in WaitingWorkers, wpc' = [wpc EXCEPT ![w] = "woken"]
      PROVE  WorkConserving'
  <2>1. OnTheWay' = OnTheWay \cup {w} /\ w \notin OnTheWay /\ WaitingWorkers # {}
    BY <1>2 DEF OnTheWay, WaitingWorkers
  <2>2. Notifying' = Notifying \ {p} /\ p \in Notifying
    BY DEF PushNotify, Notifying
  <2>3. Queued' = Queued
    BY DEF PushNotify, Queued
  <2>4. Cardinality(OnTheWay') = Cardinality(OnTheWay) + 1
    BY <2>1, FiniteCounts, FS_AddElement
  <2>5. Cardinality(Notifying') = Cardinality(Notifying) - 1
    BY <2>2, FiniteCounts, FS_RemoveElement
  <2>6. Cardinality(Queued) <= Cardinality(OnTheWay) + Cardinality(Notifying)
    BY <2>1, WorkCounts
  <2>7. Cardinality(Queued') <= Cardinality(OnTheWay') + Cardinality(Notifying')
    BY <2>3, <2>4, <2>5, <2>6, FiniteCounts
  <2> QED BY <2>7 DEF WorkConserving, OnTheWay, Notifying
<1> QED BY <1>1, <1>2 DEF PushNotify, NotifyInsertedElement

LEMMA WorkStep == WorkInv /\ [Next]_vars => WorkInv'
<1> SUFFICES ASSUME WorkInv, [Next]_vars PROVE WorkConserving' /\ IsFiniteSet(accepted')
  BY TypeStep, AccountStep DEF WorkInv
<1> DEFINE Goal == WorkConserving' /\ IsFiniteSet(accepted')
<1> SUFFICES Goal
  OBVIOUS
<1>0. ASSUME UNCHANGED <<queues, accepted>>, Notifying' = Notifying,
             WaitingWorkers' \subseteq WaitingWorkers, OnTheWay \subseteq OnTheWay'
      PROVE  Goal
  BY <1>0, WorkFrame DEF WorkInv
<1>00. ASSUME UNCHANGED <<queues, accepted>>, QueuesWithElements = {} PROVE Goal
  <2>1. Queued' = {}
    BY <1>00 DEF Queued, QueuesWithElements
  <2> QED BY <1>00, <2>1, WorkEmpty DEF WorkInv
<1> HIDE DEF Goal
<1>t. TypeOK /\ CallArguments /\ PendingTasks /\ HoldsTask /\ NotStarted
  BY DEF WorkInv, TypeInv, AccountInv
<1> USE DEF TypeOK, Notifying, WaitingWorkers, OnTheWay, wvars, pvars, hist
<1>1. CASE Start
  BY <1>0, <1>1, <1>t DEF Start, NotStarted
<1>2. CASE Stop       BY <1>0, <1>2, <1>t DEF Stop
<1>3. CASE StopNotify BY <1>0, <1>3, <1>t DEF StopNotify
<1>4. CASE Join       BY <1>0, <1>4, <1>t DEF Join
<1>5. ASSUME NEW limit \in Limits, SetMaxTasksPerQueue(limit) PROVE Goal
  BY <1>0, <1>5, <1>t DEF SetMaxTasksPerQueue
<1>6. CASE SetMaxNotify BY <1>0, <1>6, <1>t DEF SetMaxNotify
<1>7. CASE UNCHANGED vars BY <1>0, <1>7 DEF vars
<1>8. ASSUME NEW p \in Pushers, NEW t \in Tasks, NEW q \in Queues, PushTask(p, t, q) PROVE Goal
  <2>1. CASE Insert(p, t, q) /\ UNCHANGED rejected
    BY <1>8, <2>1, InsertWork DEF PushTask, Goal
  <2>2. CASE UNCHANGED <<queues, accepted>> /\ ppc' = [ppc EXCEPT ![p] = "blocking"]
    BY <1>0, <1>8, <1>t, <2>2 DEF PushTask
  <2>3. CASE Reject(p, t)
    BY <1>0, <1>8, <1>t, <2>3 DEF PushTask, Reject
  <2> QED BY <1>8, <2>1, <2>2, <2>3 DEF PushTask
<1>9. ASSUME NEW p \in Pushers, PushBlock(p) PROVE Goal
  BY <1>0, <1>9, <1>t DEF PushBlock
<1>10. ASSUME NEW p \in Pushers, PushTimeout(p) PROVE Goal
  BY <1>0, <1>10, <1>t DEF PushTimeout, Reject
<1>11. ASSUME NEW p \in Pushers, PushResume(p) PROVE Goal
  <2>1. ptask[p] \in Tasks /\ pqueue[p] \in Queues /\ ptask[p] \notin accepted \cup rejected
    BY <1>11, <1>t DEF PushResume, CallArguments, PendingTasks, Undecided
  <2>2. CASE Insert(p, ptask[p], pqueue[p])
    BY <1>11, <2>1, <2>2, InsertWork DEF PushResume, Goal
  <2>3. CASE UNCHANGED <<queues, accepted>> /\ ppc' = [ppc EXCEPT ![p] = "blocking"]
    BY <1>0, <1>11, <1>t, <2>3 DEF PushResume
  <2> QED BY <1>11, <2>2, <2>3 DEF PushResume
<1>12. ASSUME NEW p \in Pushers, PushNotify(p) PROVE Goal
  BY <1>12, NotifyWork DEF PushNotify, Goal, WorkInv
<1>13. ASSUME NEW p \in Pushers, PushSpurious(p) PROVE Goal
  BY <1>0, <1>13, <1>t DEF PushSpurious
<1>14. ASSUME NEW w \in Workers, PopTask(w) \/ PopResume(w) PROVE Goal
  <2>1. CASE \E q \in QueuesWithElements : TakeFrom(w, q)
    BY <1>14, <2>1, TakeWork DEF PopTask, PopResume, Goal, WorkInv
  <2>2. CASE QueuesWithElements = {}
    BY <1>00, <1>14, <2>2 DEF PopTask, PopResume, QueuesWithElements, TakeFrom
  <2> QED BY <1>14, <2>1, <2>2 DEF PopTask, PopResume
<1>15. ASSUME NEW w \in Workers, PopNotify(w) PROVE Goal
  <2>1. Notifying' = Notifying
    BY <1>15, <1>t DEF PopNotify, WaitingPushers
  <2> QED BY <1>0, <1>15, <1>t, <2>1 DEF PopNotify
<1>16. ASSUME NEW w \in Workers, RunTask(w) PROVE Goal
  BY <1>0, <1>16, <1>t DEF RunTask
<1>17. ASSUME NEW w \in Workers, PopSpurious(w) PROVE Goal
  BY <1>0, <1>17, <1>t DEF PopSpurious
<1> QED
  BY <1>1, <1>2, <1>3, <1>4, <1>5, <1>6, <1>7, <1>8, <1>9, <1>10, <1>11, <1>12, <1>13, <1>14, <1>15, <1>16,
     <1>17, PoolAssumption DEF Next, QueuesByKey

LEMMA WorkInit == Init => WorkInv
<1> SUFFICES ASSUME Init PROVE WorkInv
  OBVIOUS
<1>1. Queued = {} /\ Running = {} /\ WaitingWorkers = {}
  BY DEF Init, Queued, Running, WaitingWorkers
<1>2. AccountInv
  BY <1>1 DEF Init, AccountInv, NotStarted, HoldsTask, PendingTasks, Undecided, TaskAccounting
<1>3. WorkConserving /\ IsFiniteSet(accepted)
  BY <1>1, FS_EmptySet DEF Init, WorkConserving
<1> QED BY <1>2, <1>3, TypeInit DEF WorkInv

\* In every behaviour of the pool an accepted task is queued, running or done,
\* and once; and while a worker sleeps, every queued task has a worker on its
\* way or a notification that is still to be sent.
THEOREM PoolWorkHolds == Spec => []PoolWork
<1>1. WorkInv => PoolWork
  BY DEF WorkInv, AccountInv, PoolWork
<1> QED BY WorkInit, WorkStep, <1>1, PTL DEF Spec
=============================================================================
