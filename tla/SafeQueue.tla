----------------------------- MODULE SafeQueue -----------------------------
(***************************************************************************)
(* Threads::Safe::Queue and Threads::Safe::SharedQueue: a bounded FIFO     *)
(* queue under one mutex with a condition for "not empty" and one for "not *)
(* full".  Every wait is timed.  setMaxItems stores into an atomic without *)
(* the mutex and without a notification.  Queue owns plain pointers: what  *)
(* is left is deleted by the destructor.  SharedQueue refuses a null item. *)
(* A critical section is one step; the notification after the unlock is    *)
(* a step of its own.                                                      *)
(***************************************************************************)
EXTENDS Naturals, FiniteSets, Sequences, SequencesExt

CONSTANTS
  QPushers,     \* threads that push one item each: the item is the thread
  QPoppers,     \* threads that pop once
  QLimits       \* the values setMaxItems is called with

ASSUME QueueAssumption == "null" \notin QPushers /\ QPushers \cap QPoppers = {}

VARIABLES
  queue,        \* m_queue
  maxItems,     \* *m_maxItems
  qpc,          \* program counter of each thread
  qgot,         \* what pop returned: an item, or "null"
  accepted,     \* history: the items in the order in which push stored them
  taken,        \* history: the items in the order in which pop removed them
  qdeleted      \* items the destructor deleted

queueVars == <<queue, maxItems, qpc, qgot, accepted, taken, qdeleted>>

QThreads == QPushers \cup QPoppers
Unlimited == Cardinality(QPushers) + 1

\* A queue starts without a limit (the largest size_t).
QueueInit ==
  /\ queue = <<>>
  /\ maxItems = Unlimited
  /\ qpc = [t \in QThreads |-> "start"]
  /\ qgot = [t \in QPoppers |-> "null"]
  /\ accepted = <<>>
  /\ taken = <<>>
  /\ qdeleted = {}

QAlive == \E t \in QThreads : qpc[t] \notin {"stored", "refused", "done"}

\* setMaxItems: no mutex, nobody is notified.
SetMaxItems(n) ==
  /\ QAlive
  /\ n # maxItems
  /\ maxItems' = n
  /\ UNCHANGED <<queue, qpc, qgot, accepted, taken, qdeleted>>

\* SharedQueue::push returns before it takes the mutex when the item is null.
PushNull(t) ==
  /\ qpc[t] = "start"
  /\ qpc' = [qpc EXCEPT ![t] = "refused"]
  /\ UNCHANGED <<queue, maxItems, qgot, accepted, taken, qdeleted>>

\* The test of push, repeated after every wake-up.
QueueFull == Len(queue) >= maxItems

\* One turn of the loop of push: full (return at once without a timeout, or
\* wait) or store and unlock.
Push(t) ==
  /\ qpc[t] \in {"start", "woken"}
  /\ \/ /\ QueueFull
        /\ qpc' \in {[qpc EXCEPT ![t] = x] : x \in {"wait", "refused"}}
        /\ UNCHANGED <<queue, accepted>>
     \/ /\ ~QueueFull
        /\ queue' = Append(queue, t)
        /\ accepted' = Append(accepted, t)
        /\ qpc' = [qpc EXCEPT ![t] = "notify"]
  /\ UNCHANGED <<maxItems, qgot, taken, qdeleted>>

\* The wait reports a timeout, also when the thread was just notified; the item
\* stays with the caller.
PushTimeout(t) ==
  /\ qpc[t] \in {"wait", "woken"}
  /\ qpc' = [qpc EXCEPT ![t] = "refused"]
  /\ UNCHANGED <<queue, maxItems, qgot, accepted, taken, qdeleted>>

\* notify_one wakes one thread of the other kind, if one waits.
Notify(t, others, after) ==
  /\ qpc[t] = "notify"
  /\ LET waiting == {u \in others : qpc[u] = "wait"}
         me == [qpc EXCEPT ![t] = after]
     IN IF waiting = {} THEN qpc' = me
                        ELSE \E u \in waiting : qpc' = [me EXCEPT ![u] = "woken"]
  /\ UNCHANGED <<queue, maxItems, qgot, accepted, taken, qdeleted>>

PushNotify(t) == Notify(t, QPoppers, "stored")

\* Mutant: pop takes the newest item.
PopNewest == [item |-> Last(queue), rest |-> Front(queue)]

\* front() and pop() of std::queue.
PopFront == [item |-> Head(queue), rest |-> Tail(queue)]

\* One turn of the loop of pop.
Pop(t) ==
  /\ qpc[t] \in {"start", "woken"}
  /\ \/ /\ queue = <<>>
        /\ qpc' \in {[qpc EXCEPT ![t] = x] : x \in {"wait", "done"}}
        /\ UNCHANGED <<queue, taken, qgot>>
     \/ /\ queue # <<>>
        /\ qgot' = [qgot EXCEPT ![t] = PopFront.item]
        /\ taken' = Append(taken, PopFront.item)
        /\ queue' = PopFront.rest
        /\ qpc' = [qpc EXCEPT ![t] = "notify"]
  /\ UNCHANGED <<maxItems, accepted, qdeleted>>

\* Mutant: a popper in its wait does not see the timeout.
PopTimeoutMissed(t) == qpc[t] = "woken" /\ qpc' = [qpc EXCEPT ![t] = "done"]
  /\ UNCHANGED <<queue, maxItems, qgot, accepted, taken, qdeleted>>

PopTimeout(t) ==
  /\ qpc[t] \in {"wait", "woken"}
  /\ qpc' = [qpc EXCEPT ![t] = "done"]
  /\ UNCHANGED <<queue, maxItems, qgot, accepted, taken, qdeleted>>

PopNotify(t) == Notify(t, QPushers, "done")

\* ~Queue deletes what is left; ~SharedQueue drops its references.
DestroyQueue ==
  /\ ~QAlive
  /\ queue # <<>>
  /\ qdeleted' = qdeleted \cup Range(queue)
  /\ queue' = <<>>
  /\ UNCHANGED <<maxItems, qpc, qgot, accepted, taken>>

PushStep(t) == Push(t) \/ PushTimeout(t) \/ PushNotify(t)
PopStep(t) == Pop(t) \/ PopTimeout(t) \/ PopNotify(t)

QueueNext ==
  \/ \E n \in QLimits : SetMaxItems(n)
  \/ \E t \in QPushers : PushStep(t) \/ PushNull(t)
  \/ \E t \in QPoppers : PopStep(t)
  \/ DestroyQueue

QueueSpec == QueueInit /\ [][QueueNext]_queueVars

-----------------------------------------------------------------------------
(* Items come out in the order in which they went in, each exactly once: what
   push stored is what pop returned, followed by what is still queued or was
   deleted by the destructor (push and pop release the mutex before they
   notify, so an order between two threads is only what the mutex gives). *)
QueueFIFO ==
  /\ IsPrefix(taken, accepted)
  /\ IsPrefix(taken \o queue, accepted)
  /\ Range(taken) \cup Range(queue) \cup qdeleted = Range(accepted)
  /\ \A t \in QPoppers : qgot[t] # "null" => qgot[t] \in Range(taken)

(* An item has one owner: a pusher that was told false keeps its item, one that
   was told true gave it to the queue, and no popper, no other popper and no
   destructor has an item twice (Queue holds plain pointers). *)
QueueOwnership ==
  /\ \A t \in QPushers : (qpc[t] \in {"notify", "stored"}) <=> t \in Range(accepted)
  /\ Range(taken) \cap (Range(queue) \cup qdeleted) = {}
  /\ \A s, t \in QPoppers : s # t /\ qgot[s] # "null" => qgot[s] # qgot[t]

(* Every call of push and pop returns: all waits have a timeout, so a lost or a
   misdirected notification delays a caller and never keeps it. *)
QueueCallsReturn ==
  \A t \in QThreads : (qpc[t] # "start") ~> (qpc[t] \in {"stored", "refused", "done"})

(* The items of the queue: in the order of the pushes, each with one owner. *)
QueueItems == QueueFIFO /\ QueueOwnership
=============================================================================
