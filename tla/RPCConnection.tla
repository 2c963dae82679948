---------------------------- MODULE RPCConnection ---------------------------
(***************************************************************************)
(* One end of a FastRPC connection: the state and the steps that FastRPC1  *)
(* and FastRPC3 have in common.  Threads:                                  *)
(*   - the handler (processConnection / handleConnection): registers the   *)
(*     connection, reads answers and queries from the socket, and tears    *)
(*     the connection down;                                                *)
(*   - callers: threads inside runRemoteRPCMethod / executeTask or inside  *)
(*     runRemoteClose / close;                                             *)
(*   - pool tasks: one per query of the peer that entered the ThreadPool.  *)
(* The peer is the environment: it answers an outstanding request at any   *)
(* time and in any order, or never, and may vanish.  The Connection object *)
(* lives in a Safe::Map (module SafeMap); its reader counter is kept here. *)
(* The mutexes of the socket and of the running tasks are local variables  *)
(* of the handler.  A critical section of answersMutex is one step.        *)
(***************************************************************************)
EXTENDS Naturals, FiniteSets

CONSTANTS Callers,        \* threads that execute remote methods
          Retrying,       \* callers that pass retryIfDisconnected
          Queries,        \* queries the peer may send
          MaxTries,       \* remoteExecutionDisconnectedTries
          MaxConnections, \* bound: connections handled one after another
          MaxRequestId,   \* bound: the id counter wraps here (2^64 in the code)
          WritesMayFail,  \* the write timeout of the socket may expire
          Nobody          \* a mutex that nobody holds

ASSUME RPCAssumption ==
    /\ Retrying \subseteq Callers
    /\ MaxTries \in Nat \ {0} /\ MaxConnections \in Nat \ {0} /\ MaxRequestId \in Nat \ {0}
    /\ WritesMayFail \in BOOLEAN
    /\ Nobody \notin Callers
    /\ IsFiniteSet(Callers)

VARIABLES hpc,         \* program counter of the handler
          connections, \* connections registered so far
          element,     \* the map element: "absent", "open", "hidden"
          numReaders,  \* its reader counter
          terminated,  \* connection->terminated
          peerUp,      \* the socket is connected
          socketMutex, \* the holder of the mutex of the socket
          counter,     \* requestIdCounter
          pending,     \* pendingRequests
          answers,     \* ids and execution status of the stored answers
          outstanding, \* requests on the wire the peer has not answered
          replied,     \* history: what the peer answered to a pending request
          dropped,     \* the query whose overflow answer the handler owes
          qpc,         \* a query: "unsent", "queued", "answering", "overflow", "done"
          cpc,         \* program counter of a caller
          creq,        \* its request id
          ctries,      \* its _tries
          cres         \* its result: the error id, or the answer's status

connVars   == <<element, numReaders, terminated, peerUp>>
answerVars == <<pending, answers, outstanding, replied>>
callVars   == <<cpc, creq, ctries, cres>>
vars == <<hpc, connections, element, numReaders, terminated, peerUp, socketMutex, counter,
          pending, answers, outstanding, replied, dropped, qpc, cpc, creq, ctries, cres>>

RequestIds == 1..MaxRequestId

\* An answer of the peer: the execution status, and whether its payload is
\* JSON.  sendRPCAnswer sends "" for a dropped task (queue overflow) and for a
\* response above maxMessageSize, and "" does not parse.
Replies == {[status |-> "success", parses |-> TRUE],
            [status |-> "notfound", parses |-> TRUE],
            [status |-> "overflow", parses |-> FALSE],
            [status |-> "success", parses |-> FALSE]}

\* Tasks between doneSharedMutex->lock_shared() and unlock_shared().
TasksInside == {q \in Queries : qpc[q] \in {"queued", "answering", "overflow"}}

\* Callers between openElement and releaseElement, as the code has it: a
\* caller that left without releasing still counts as a reader.
Inside(c) == cpc[c] \in {"opened", "registered", "writing", "await", "wait", "woken", "cleanup",
                         "release", "closing"}

Init ==
    /\ hpc = "start"
    /\ connections = 0
    /\ element = "absent" /\ numReaders = 0 /\ terminated = FALSE /\ peerUp = FALSE
    /\ socketMutex = Nobody
    /\ counter = 1
    /\ pending = {} /\ answers = <<>> /\ outstanding = {} /\ replied = <<>>
    /\ dropped = Nobody
    /\ qpc = [q \in Queries |-> "unsent"]
    /\ cpc = [c \in Callers |-> "idle"]
    /\ creq = [c \in Callers |-> 0]
    /\ ctries = [c \in Callers |-> 0]
    /\ cres = [c \in Callers |-> "none"]

-----------------------------------------------------------------------------
(* A remote call.                                                          *)

\* openElement: the connection, or one more try, or the end of the call.  (A
\* payload above maxMessageSize is refused before, and changes nothing.)
OpenConnection(c) ==
    /\ cpc[c] = "idle"
    /\ \/ /\ element = "open"
          /\ numReaders' = numReaders + 1
          /\ cpc' = [cpc EXCEPT ![c] = "opened"]
          /\ ctries' = [ctries EXCEPT ![c] = 0]
          /\ UNCHANGED cres
       \/ /\ element # "open"
          /\ c \in Retrying /\ ctries[c] + 1 < MaxTries
          /\ ctries' = [ctries EXCEPT ![c] = @ + 1]
          /\ UNCHANGED <<numReaders, cpc, cres>>
       \/ /\ element # "open"
          /\ c \notin Retrying \/ ctries[c] + 1 >= MaxTries
          /\ cpc' = [cpc EXCEPT ![c] = "done"]
          /\ cres' = [cres EXCEPT ![c] = "peer_not_found"]
          /\ ctries' = [ctries EXCEPT ![c] = 0]
          /\ UNCHANGED numReaders
    /\ UNCHANGED <<hpc, connections, element, terminated, peerUp, socketMutex, counter,
                   answerVars, dropped, qpc, creq>>

\* The next request id, then the authorization to store its answer.  An id
\* comes back only after 2^64 calls: the small counter skips those in use.
RegisterRequest(c) ==
    /\ cpc[c] = "opened"
    /\ \E id \in RequestIds \ (pending \cup {creq[o] : o \in Callers}) :
          /\ counter \notin pending \cup {creq[o] : o \in Callers} => id = counter
          /\ creq' = [creq EXCEPT ![c] = id]
          /\ counter' = (id % MaxRequestId) + 1
          /\ pending' = pending \cup {id}
          /\ outstanding' = outstanding \ {id}
    /\ cpc' = [cpc EXCEPT ![c] = "registered"]
    /\ UNCHANGED <<hpc, connections, connVars, socketMutex, answers, replied, dropped, qpc, ctries, cres>>

LockSocket(c) ==
    /\ cpc[c] = "registered"
    /\ socketMutex = Nobody
    /\ socketMutex' = c
    /\ cpc' = [cpc EXCEPT ![c] = "writing"]
    /\ UNCHANGED <<hpc, connections, connVars, counter, answerVars, dropped, qpc,
                   creq, ctries, cres>>

\* The whole request is written and the mutex of the socket released.
WriteRequest(c) ==
    /\ cpc[c] = "writing"
    /\ peerUp
    /\ outstanding' = outstanding \cup {creq[c]}
    /\ socketMutex' = Nobody
    /\ cpc' = [cpc EXCEPT ![c] = "await"]
    /\ UNCHANGED <<hpc, connections, connVars, counter, pending, answers, replied, dropped, qpc,
                   creq, ctries, cres>>

\* A write fails on a closed socket, or at the write timeout.
WriteFails(c) ==
    /\ cpc[c] = "writing"
    /\ ~peerUp \/ WritesMayFail

\* answersCondition.wait_for: sleep, whatever has been stored in the meantime.
\* (A spurious wake-up is no different from the signal of another call's
\* answer.)
WaitAnswer(c) ==
    /\ cpc[c] = "await"
    /\ cpc' = [cpc EXCEPT ![c] = "wait"]
    /\ UNCHANGED <<hpc, connections, connVars, socketMutex, counter, answerVars, dropped, qpc,
                   creq, ctries, cres>>

\* wait_for reports the timeout: the answers are not looked at.
AnswerTimeout(c) ==
    /\ cpc[c] \in {"wait", "woken"}
    /\ cpc' = [cpc EXCEPT ![c] = "cleanup"]
    /\ cres' = [cres EXCEPT ![c] = "timeout"]
    /\ UNCHANGED <<hpc, connections, connVars, socketMutex, counter, answerVars, dropped, qpc,
                   creq, ctries>>

\* After a signal: the own answer, or the end of the connection, or another
\* round of the loop (which unlocks answersMutex before it waits again).
CheckAnswer(c) ==
    /\ cpc[c] = "woken"
    /\ \/ /\ creq[c] \in DOMAIN answers
          /\ cres' = [cres EXCEPT ![c] = answers[creq[c]]]
          /\ cpc' = [cpc EXCEPT ![c] = "cleanup"]
       \/ /\ creq[c] \notin DOMAIN answers
          /\ terminated
          /\ cres' = [cres EXCEPT ![c] = "connection_lost"]
          /\ cpc' = [cpc EXCEPT ![c] = "cleanup"]
       \/ /\ creq[c] \notin DOMAIN answers
          /\ ~terminated
          /\ cpc' = [cpc EXCEPT ![c] = "await"]
          /\ UNCHANGED cres
    /\ UNCHANGED <<hpc, connections, connVars, socketMutex, counter, answerVars, dropped, qpc,
                   creq, ctries>>

Without(f, i) == [j \in DOMAIN f \ {i} |-> f[j]]

\* Revoke the authorization and drop what was stored for the request.
Cleanup(c) ==
    /\ cpc[c] = "cleanup"
    /\ answers' = Without(answers, creq[c])
    /\ pending' = pending \ {creq[c]}
    /\ replied' = Without(replied, creq[c])
    /\ cpc' = [cpc EXCEPT ![c] = "release"]
    /\ UNCHANGED <<hpc, connections, connVars, socketMutex, counter, outstanding,
                   dropped, qpc, creq, ctries, cres>>

\* releaseElement, and the return of the call.
ReleaseConnection(c) ==
    /\ cpc[c] = "release"
    /\ numReaders' = numReaders - 1
    /\ hpc' = IF numReaders = 1 /\ hpc = "destroyWait" THEN "destroyWoken" ELSE hpc
    /\ cpc' = [cpc EXCEPT ![c] = "done"]
    /\ creq' = [creq EXCEPT ![c] = 0]
    /\ UNCHANGED <<connections, element, terminated, peerUp, socketMutex, counter, answerVars,
                   dropped, qpc, ctries, cres>>

\* runRemoteClose / close: open the element, write a zero byte with the socket
\* locked (whether it arrives or not), release the element.
CloseOpen(c) ==
    /\ cpc[c] = "idle" /\ ctries[c] = 0
    /\ element = "open"
    /\ numReaders' = numReaders + 1
    /\ cpc' = [cpc EXCEPT ![c] = "closing"]
    /\ cres' = [cres EXCEPT ![c] = "closed"]
    /\ UNCHANGED <<hpc, connections, element, terminated, peerUp, socketMutex, counter,
                   answerVars, dropped, qpc, creq, ctries>>

CloseWrite(c) ==
    /\ cpc[c] = "closing"
    /\ socketMutex = Nobody
    /\ cpc' = [cpc EXCEPT ![c] = "release"]
    /\ UNCHANGED <<hpc, connections, connVars, socketMutex, counter, answerVars, dropped, qpc,
                   creq, ctries, cres>>

-----------------------------------------------------------------------------
(* The handler.                                                            *)

\* A new Connection object, in the map under its key.  (A second connection
\* under a key in use is refused by addElement and changes nothing; the id 0
\* that pendingRequests starts with is refused before it is looked up.)
AddConnection ==
    /\ hpc \in {"start", "returned"}
    /\ connections < MaxConnections
    /\ element = "absent"
    /\ hpc' = "loop"
    /\ connections' = connections + 1
    /\ element' = "open" /\ numReaders' = 0 /\ terminated' = FALSE /\ peerUp' = TRUE
    /\ socketMutex' = Nobody
    /\ counter' = 1
    /\ pending' = {} /\ answers' = <<>> /\ outstanding' = {} /\ replied' = <<>>
    /\ UNCHANGED <<dropped, qpc, callVars>>

\* answersCondition.notify_all(), the caller's program counters after it.
NotifyAnswers == [c \in Callers |-> IF cpc[c] = "wait" THEN "woken" ELSE cpc[c]]

\* Mutant: an answer is stored whether or not a call waits for it.
ReadAnswerUnchecked(i, r) ==
    /\ hpc = "loop" /\ peerUp
    /\ i \in outstanding
    /\ outstanding' = outstanding \ {i}
    /\ replied' = [j \in DOMAIN replied \cup {i} |-> IF j = i THEN r ELSE replied[j]]
    /\ answers' = [j \in DOMAIN answers \cup {i} |-> IF j = i THEN r.status ELSE answers[j]]
    /\ cpc' = NotifyAnswers
    /\ UNCHANGED <<hpc, connections, connVars, socketMutex, counter, pending, dropped, qpc,
                   creq, ctries, cres>>

\* processAnswer: store the answer of a pending request and wake every caller;
\* an answer that does not parse takes the request with it and wakes nobody;
\* an answer nobody waits for is only reported.
ReadAnswer(i, r) ==
    /\ hpc = "loop" /\ peerUp
    /\ i \in outstanding
    /\ outstanding' = outstanding \ {i}
    /\ replied' = IF i \in pending
                    THEN [j \in DOMAIN replied \cup {i} |-> IF j = i THEN r ELSE replied[j]]
                    ELSE replied
    /\ \/ /\ i \in pending /\ r.parses
          /\ answers' = [j \in DOMAIN answers \cup {i} |-> IF j = i THEN r.status ELSE answers[j]]
          /\ cpc' = NotifyAnswers
          /\ UNCHANGED pending
       \/ /\ i \in pending /\ ~r.parses
          /\ answers' = Without(answers, i)
          /\ pending' = pending \ {i}
          /\ UNCHANGED cpc
       \/ /\ i \notin pending
          /\ UNCHANGED <<pending, answers, cpc>>
    /\ UNCHANGED <<hpc, connections, connVars, socketMutex, counter, dropped, qpc,
                   creq, ctries, cres>>

\* processQuery: the task mutex is taken shared for the task, which enters the
\* pool, or is refused and owed an overflow answer.
ReadQuery(q) ==
    /\ hpc = "loop" /\ peerUp
    /\ qpc[q] = "unsent"
    /\ \/ /\ qpc' = [qpc EXCEPT ![q] = "queued"]
          /\ UNCHANGED <<hpc, dropped>>
       \/ /\ qpc' = [qpc EXCEPT ![q] = "overflow"]
          /\ hpc' = "overflow"
          /\ dropped' = q
    /\ UNCHANGED <<connections, connVars, socketMutex, counter, answerVars, callVars>>

\* The handler itself sends the overflow answer.
SendOverflowAnswer ==
    /\ hpc = "overflow"
    /\ socketMutex = Nobody
    /\ qpc' = [qpc EXCEPT ![dropped] = "done"]
    /\ dropped' = Nobody
    /\ hpc' = "loop"
    /\ UNCHANGED <<connections, connVars, socketMutex, counter, answerVars, callVars>>

\* The peer closes, stays silent past the read timeout, or sends bytes that
\* are no message: the loop ends.
LoopEnds ==
    /\ hpc = "loop"
    /\ hpc' = "drain"
    /\ UNCHANGED <<connections, connVars, socketMutex, counter, answerVars, dropped, qpc, callVars>>

\* The connection breaks under the handler's feet.
PeerVanishes ==
    /\ peerUp
    /\ peerUp' = FALSE
    /\ UNCHANGED <<hpc, connections, element, numReaders, terminated, socketMutex, counter,
                   answerVars, dropped, qpc, callVars>>

\* Mutant: the handler does not wait for the tasks.
ShutdownAtOnce ==
    /\ hpc = "drain"
    /\ peerUp' = FALSE
    /\ hpc' = "terminate"
    /\ UNCHANGED <<connections, element, numReaders, terminated, socketMutex, counter, answerVars,
                   dropped, qpc, callVars>>

\* mtDone.lock(): every task has answered; then shutdownSocket().
WaitTasksAndShutdown ==
    /\ hpc = "drain"
    /\ TasksInside = {}
    /\ peerUp' = FALSE
    /\ hpc' = "terminate"
    /\ UNCHANGED <<connections, element, numReaders, terminated, socketMutex, counter, answerVars,
                   dropped, qpc, callVars>>

\* terminated = true, without answersMutex ...
Terminate ==
    /\ hpc = "terminate"
    /\ terminated' = TRUE
    /\ hpc' = "notify"
    /\ UNCHANGED <<connections, element, numReaders, peerUp, socketMutex, counter, answerVars,
                   dropped, qpc, callVars>>

\* ... and notify_all, which misses the callers not yet asleep.
NotifyTerminated ==
    /\ hpc = "notify"
    /\ cpc' = NotifyAnswers
    /\ hpc' = "destroy"
    /\ UNCHANGED <<connections, connVars, socketMutex, counter, answerVars, dropped, qpc,
                   creq, ctries, cres>>

\* Mutant: the object goes although callers hold it.
DestroyConnectionAtOnce ==
    /\ hpc \in {"destroy", "destroyWoken"}
    /\ element' = "absent"
    /\ hpc' = "returned"
    /\ UNCHANGED <<connections, numReaders, terminated, peerUp, socketMutex, counter, answerVars,
                   dropped, qpc, callVars>>

\* destroyElement, and the return of the handler.
DestroyConnection ==
    /\ hpc \in {"destroy", "destroyWoken"}
    /\ \/ /\ numReaders = 0
          /\ element' = "absent"
          /\ hpc' = "returned"
       \/ /\ numReaders # 0
          /\ element' = "hidden"
          /\ hpc' = "destroyWait"
    /\ UNCHANGED <<connections, numReaders, terminated, peerUp, socketMutex, counter, answerVars,
                   dropped, qpc, callVars>>

-----------------------------------------------------------------------------
(* The tasks of the pool.                                                  *)

\* The local method runs.
RunLocalMethod(q) ==
    /\ qpc[q] = "queued"
    /\ qpc' = [qpc EXCEPT ![q] = "answering"]
    /\ UNCHANGED <<hpc, connections, connVars, socketMutex, counter, answerVars, dropped, callVars>>

\* sendRPCAnswer, with the socket locked and the write's outcome ignored, then
\* unlock_shared().
SendAnswer(q) ==
    /\ qpc[q] = "answering"
    /\ socketMutex = Nobody
    /\ qpc' = [qpc EXCEPT ![q] = "done"]
    /\ UNCHANGED <<hpc, connections, connVars, socketMutex, counter, answerVars, dropped, callVars>>

-----------------------------------------------------------------------------
(* The scheduling both protocols rest on: a thread that can go on goes on, *)
(* a mutex that keeps being released is acquired, a timed wait that nobody *)
(* interrupts ends.  Nothing is assumed of the peer or of new calls.       *)

CallerFairness(c) ==
    /\ WF_vars(\/ ctries[c] > 0 /\ OpenConnection(c)
               \/ RegisterRequest(c) \/ WaitAnswer(c) \/ AnswerTimeout(c) \/ CheckAnswer(c)
               \/ Cleanup(c) \/ ReleaseConnection(c))
    /\ SF_vars(LockSocket(c) \/ CloseWrite(c))

HandlerFairness ==
    /\ WF_vars(WaitTasksAndShutdown \/ Terminate \/ NotifyTerminated \/ DestroyConnection)
    /\ SF_vars(SendOverflowAnswer)

TaskFairness(q) == WF_vars(RunLocalMethod(q)) /\ SF_vars(SendAnswer(q))

-----------------------------------------------------------------------------
(* Properties.                                                             *)

\* Every variable of a connection, a call and a task keeps its type.
TypeOK ==
    /\ hpc \in {"start", "loop", "overflow", "drain", "terminate", "notify", "destroy",
               "destroyWait", "destroyWoken", "returned"}
    /\ connections \in 0..MaxConnections
    /\ element \in {"absent", "open", "hidden"}
    /\ numReaders \in 0..Cardinality(Callers)
    /\ terminated \in BOOLEAN /\ peerUp \in BOOLEAN
    /\ socketMutex \in Callers \cup {Nobody}
    /\ counter \in RequestIds
    /\ pending \subseteq RequestIds
    /\ DOMAIN answers \subseteq RequestIds
    /\ outstanding \subseteq RequestIds
    /\ DOMAIN replied \subseteq RequestIds
    /\ dropped \in Queries \cup {Nobody}
    /\ qpc \in [Queries -> {"unsent", "queued", "answering", "overflow", "done"}]
    /\ cpc \in [Callers -> {"idle", "opened", "registered", "writing", "await", "wait", "woken",
                           "cleanup", "release", "closing", "done"}]
    /\ creq \in [Callers -> RequestIds \cup {0}]
    /\ ctries \in [Callers -> 0..(MaxTries - 1)]
    /\ cres \in [Callers -> {"none", "success", "notfound", "overflow", "timeout", "closed",
                            "connection_lost", "peer_not_found", "transmission_failure"}]

\* The mutexes a caller or a task locks are local variables of the handler
\* and the Connection is an element of the map: while a caller or a task is
\* inside, the handler has not returned and the element is not deleted.  The
\* order mtDone.lock(), destroyElement(), return is what guarantees it.
HandlerFrameAlive ==
    /\ (\E c \in Callers : Inside(c)) => hpc \notin {"start", "returned"} /\ element # "absent"
    /\ TasksInside # {} => hpc \in {"loop", "overflow", "drain"}

\* What is stored for a request belongs to a call in progress: an answer that
\* comes late, twice or after the call gave up leaves nothing behind in
\* pendingRequests, answers and executionStatus.
NoOrphans ==
    \A i \in pending \cup DOMAIN answers :
        element # "absent" =>
            \E c \in Callers : creq[c] = i /\ cpc[c] \in {"registered", "writing", "await", "wait",
                                                        "woken", "cleanup"}

\* A call that returns an execution status returns the one the peer sent for
\* this request and not for another one.
AnswerMatchesReply ==
    \A c \in Callers :
        cpc[c] = "cleanup" /\ cres[c] \notin {"timeout", "connection_lost"} =>
            creq[c] \in DOMAIN replied /\ cres[c] = replied[creq[c]].status

\* A call that began to try, or holds the connection, returns: every wait in
\* it is bounded.
CallReturns ==
    \A c \in Callers : (ctries[c] > 0 \/ Inside(c)) ~> cpc[c] = "done"

\* The handler that left its loop returns: the tasks answer, the callers are
\* woken or time out, and destroyElement finds no reader.
HandlerReturns == hpc = "drain" ~> hpc = "returned"

\* The table of pending requests: types, no entry without its call, and every
\* call gets the answer of its own request.
AnswersKept == TypeOK /\ NoOrphans /\ AnswerMatchesReply

\* The two sides of a connection that ends: the callers and the handler return.
BothSidesReturn == CallReturns /\ HandlerReturns
=============================================================================
