--------------------------- MODULE PooledAcceptor ---------------------------
(***************************************************************************)
(* Acceptors::PoolThreaded on Threads::Threaded: one thread per listening  *)
(* socket accepts clients and pushes a task for each into a ThreadPool of  *)
(* its own.  The task data is shared by the accepting thread and the task; *)
(* whoever drops it last shuts the client's socket.  The pool is external  *)
(* here (ThreadPool models it): pushTask stores while there is room and    *)
(* times out otherwise.  _stop() is called by nobody: the stopper that     *)
(* Threaded::stop() calls is PoolThreaded::stopper, which calls stop().    *)
(***************************************************************************)
EXTENDS Naturals, FiniteSets, Sequences

CONSTANTS
  PSockets,      \* listening sockets a program may add
  PClients,      \* clients that connect
  PWorkers,      \* parameters.threadsCount
  PQueueSize     \* room in the queues of the pool

NoClient == "none"

ASSUME PooledAssumption == NoClient \notin PClients /\ "task" \notin PSockets

VARIABLES
  psockets,      \* m_acceptorSocketList
  pthread,       \* Threaded::m_threadObj: "none", "joinable", "gone"
  prun,          \* the runner: "idle", "started", "joining", "ended"
  powner,        \* the program holds its shared_ptr
  pstopping,     \* a thread is inside stop()
  pterminated,   \* std::terminate was called, and where
  pacc, pheld,   \* per listening socket: where its thread is, the client it handles
  pclient,       \* per client: "backlog", "held", "queued", "task", "over"
  prefs,         \* per client: who holds its ConnectionTaskData
  pshut,         \* clients whose socket was shut
  pcalls         \* history: the callbacks made for a client

runVars == <<psockets, pthread, prun, powner, pstopping, pterminated>>
taskVars == <<pclient, prefs, pshut, pcalls>>
pooledVars == <<runVars, pacc, pheld, taskVars>>

PooledInit ==
  /\ psockets = {} /\ pthread = "none" /\ prun = "idle"
  /\ powner = TRUE /\ pstopping = FALSE /\ pterminated = "no"
  /\ pacc = [s \in PSockets |-> "none"]
  /\ pheld = [s \in PSockets |-> NoClient]
  /\ pclient = [c \in PClients |-> "backlog"]
  /\ prefs = [c \in PClients |-> {}]
  /\ pshut = {}
  /\ pcalls = [c \in PClients |-> <<>>]

PAlive == pterminated = "no"

AddAcceptorSocket(s) ==
  /\ PAlive /\ powner /\ prun = "idle" /\ s \notin psockets
  /\ psockets' = psockets \cup {s}
  /\ UNCHANGED <<pthread, prun, powner, pstopping, pterminated, pacc, pheld, taskVars>>

StartInBackground ==
  /\ PAlive /\ powner /\ pthread = "none"
  /\ pthread' = "joinable" /\ prun' = "started"
  /\ UNCHANGED <<psockets, powner, pstopping, pterminated, pacc, pheld, taskVars>>

\* run() up to the joins: the pool is started, m_running is set, one thread per socket.
RunThreads ==
  /\ PAlive /\ prun = "started"
  /\ prun' = "joining"
  /\ pacc' = [s \in PSockets |-> IF s \in psockets THEN "accept" ELSE "none"]
  /\ UNCHANGED <<psockets, pthread, powner, pstopping, pterminated, pheld, taskVars>>

\* acceptConnection returned a client; a null result only repeats the loop.
AcceptPooled(s, c) ==
  /\ PAlive /\ pacc[s] = "accept" /\ pclient[c] = "backlog"
  /\ pacc' = [pacc EXCEPT ![s] = "push"]
  /\ pheld' = [pheld EXCEPT ![s] = c]
  /\ pclient' = [pclient EXCEPT ![c] = "held"]
  /\ prefs' = [prefs EXCEPT ![c] = {s}]
  /\ UNCHANGED <<runVars, pshut, pcalls>>

PQueued == {c \in PClients : pclient[c] = "queued"}

\* pushTask returns true: the task holds the data, and may be over before the
\* accepting thread goes on.
PushClientTask(s) ==
  /\ PAlive /\ pacc[s] = "push" /\ Cardinality(PQueued) < PQueueSize
  /\ LET c == pheld[s]
     IN /\ pclient' = [pclient EXCEPT ![c] = "queued"]
        /\ prefs' = [prefs EXCEPT ![c] = @ \cup {"task"}]
  /\ pacc' = [pacc EXCEPT ![s] = "release"]
  /\ UNCHANGED <<runVars, pheld, pshut, pcalls>>

\* Mutant: the task that could not be stored in time is stored later.
PushTimedOutStores(s) ==
  /\ PAlive /\ pacc[s] = "push" /\ Cardinality(PQueued) >= PQueueSize
  /\ pcalls' = [pcalls EXCEPT ![pheld[s]] = Append(@, "onClientAcceptTimeoutOccurred")]
  /\ pclient' = [pclient EXCEPT ![pheld[s]] = "queued"]
  /\ prefs' = [prefs EXCEPT ![pheld[s]] = @ \cup {"task"}]
  /\ pacc' = [pacc EXCEPT ![s] = "release"]
  /\ UNCHANGED <<runVars, pheld, pshut>>

\* pushTask timed out: onClientAcceptTimeoutOccurred.
PushTimedOut(s) ==
  /\ PAlive /\ pacc[s] = "push" /\ Cardinality(PQueued) >= PQueueSize
  /\ pcalls' = [pcalls EXCEPT ![pheld[s]] = Append(@, "onClientAcceptTimeoutOccurred")]
  /\ pacc' = [pacc EXCEPT ![s] = "release"]
  /\ UNCHANGED <<runVars, pheld, pclient, prefs, pshut>>

\* ~ConnectionTaskData, when the last holder lets go.
DropData(c, h) ==
  /\ prefs' = [prefs EXCEPT ![c] = @ \ {h}]
  /\ pshut' = IF prefs[c] = {h} THEN pshut \cup {c} ELSE pshut

\* The end of an iteration of the accepting thread.
ReleaseClient(s) ==
  /\ PAlive /\ pacc[s] = "release"
  /\ DropData(pheld[s], s)
  /\ pacc' = [pacc EXCEPT ![s] = "accept"]
  /\ pheld' = [pheld EXCEPT ![s] = NoClient]
  /\ UNCHANGED <<runVars, pclient, pcalls>>

\* acceptorTask on a worker: the initialization decides which callback runs.
AcceptorTask(c) ==
  /\ PAlive /\ pclient[c] = "queued"
  /\ Cardinality({d \in PClients : pclient[d] = "task"}) < PWorkers
  /\ pclient' = [pclient EXCEPT ![c] = "task"]
  /\ \E call \in {"onClientConnected", "onProtocolInitializationFailure"} :
       pcalls' = [pcalls EXCEPT ![c] = Append(@, call)]
  /\ UNCHANGED <<runVars, pacc, pheld, prefs, pshut>>

\* The callback has returned and the pool drops the task.
TaskEnds(c) ==
  /\ PAlive /\ pclient[c] = "task"
  /\ pclient' = [pclient EXCEPT ![c] = "over"]
  /\ DropData(c, "task")
  /\ UNCHANGED <<runVars, pacc, pheld, pcalls>>

\* stop(): Threaded::stop calls the stopper, which calls stop(): the caller
\* never returns, and nothing else changes.
StopPooled ==
  /\ PAlive /\ powner /\ pthread = "joinable" /\ ~pstopping
  /\ pstopping' = TRUE
  /\ UNCHANGED <<psockets, pthread, prun, powner, pterminated, pacc, pheld, taskVars>>

\* The runner ends when it has joined its accepting threads, which never end: it
\* ends when there was no socket.  It lets its reference go, and runs the
\* destructor, whose join is a join of itself, when it was the last.
RunEnds ==
  /\ PAlive /\ prun = "joining" /\ \A s \in PSockets : pacc[s] \in {"none", "ended"}
  /\ prun' = "ended"
  /\ pterminated' = IF powner THEN "no" ELSE "self-join"
  /\ UNCHANGED <<psockets, pthread, powner, pstopping, pacc, pheld, taskVars>>

\* The program joins (or detaches) itself.
JoinOrDetach ==
  /\ PAlive /\ powner /\ pthread = "joinable" /\ ~pstopping
  /\ \/ prun = "ended"                        \* join
     \/ TRUE                                  \* detach
  /\ pthread' = "gone"
  /\ UNCHANGED <<psockets, prun, powner, pstopping, pterminated, pacc, pheld, taskVars>>

\* ~Threaded on the program's thread joins without asking whether there is a
\* thread to join.
DestructorJoin == IF pthread = "joinable" THEN "no" ELSE "not-joinable"

DropPooled ==
  /\ PAlive /\ powner /\ ~pstopping
  /\ powner' = FALSE
  /\ pterminated' = IF prun \in {"idle", "ended"} THEN DestructorJoin ELSE "no"
  /\ UNCHANGED <<psockets, pthread, prun, pstopping, pacc, pheld, taskVars>>

PooledStep(s) == PushClientTask(s) \/ PushTimedOut(s) \/ ReleaseClient(s)
TaskStep(c) == AcceptorTask(c) \/ TaskEnds(c)

PooledNext ==
  \/ \E s \in PSockets : AddAcceptorSocket(s) \/ PooledStep(s) \/ \E c \in PClients : AcceptPooled(s, c)
  \/ StartInBackground \/ RunThreads \/ RunEnds
  \/ \E c \in PClients : TaskStep(c)
  \/ StopPooled \/ JoinOrDetach \/ DropPooled

PooledSpec == PooledInit /\ [][PooledNext]_pooledVars

-----------------------------------------------------------------------------
(* Every accepted client gets exactly one of the three callbacks before its
   socket is shut, and never a second one: the accepting thread and the worker
   do not both report it. *)
OneCallbackPerClient ==
  \A c \in PClients : /\ Len(pcalls[c]) <= 1
                      /\ c \in pshut => Len(pcalls[c]) = 1

(* The socket of a client is not shut under the callback that serves it or while
   its task is queued, whichever of the accepting thread and the worker is
   faster. *)
ServedSocketOpen ==
  \A c \in PClients : /\ pclient[c] \in {"queued", "task"} => c \notin pshut
                      /\ c \in pshut => prefs[c] = {}

(* Every client that was accepted has its socket shut in the end, also when the
   pool is full, the program stops or drops the acceptor: the tasks of the pool
   run on, until std::terminate. *)
AcceptedIsShut ==
  \A c \in PClients : (pclient[c] # "backlog") ~> (c \in pshut \/ ~PAlive)

(* Each accepted client gets one callback, on a socket that is still open. *)
PooledClientServed == OneCallbackPerClient /\ ServedSocketOpen
=============================================================================
