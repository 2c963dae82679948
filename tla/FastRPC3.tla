------------------------------ MODULE FastRPC3 ------------------------------
(***************************************************************************)
(* FastRPC3: the steps of a connection (module RPCConnection), grouped by  *)
(* the methods of FastRPC3 and RemoteMethods.  executeTask returns at once *)
(* when the request cannot be written.                                     *)
(***************************************************************************)
EXTENDS RPCConnection

\* The early return of a failed write: the mutex of the socket stays locked,
\* the request pending and the element open.
TransmissionFailure(c) ==
    /\ WriteFails(c)
    /\ cpc' = [cpc EXCEPT ![c] = "done"]
    /\ cres' = [cres EXCEPT ![c] = "transmission_failure"]
    /\ creq' = [creq EXCEPT ![c] = 0]
    /\ UNCHANGED <<hpc, connections, connVars, socketMutex, counter, answerVars, dropped, qpc,
                   ctries>>

executeTask(c) ==
    \/ OpenConnection(c) \/ RegisterRequest(c)
    \/ LockSocket(c) \/ WriteRequest(c) \/ TransmissionFailure(c)
    \/ WaitAnswer(c) \/ AnswerTimeout(c) \/ CheckAnswer(c)
    \/ Cleanup(c) \/ ReleaseConnection(c)

close(c) == CloseOpen(c) \/ CloseWrite(c) \/ ReleaseConnection(c)

processIncomingAnswer == \E i \in outstanding, r \in Replies : ReadAnswer(i, r)

processIncomingExecutionRequest == (\E q \in Queries : ReadQuery(q)) \/ SendOverflowAnswer

handleConnection ==
    \/ AddConnection
    \/ processIncomingAnswer \/ processIncomingExecutionRequest \/ LoopEnds
    \/ WaitTasksAndShutdown \/ Terminate \/ NotifyTerminated \/ DestroyConnection

executeLocalTask(q) == RunLocalMethod(q) \/ SendAnswer(q)

RPC3Next ==
    \/ handleConnection
    \/ PeerVanishes
    \/ \E c \in Callers : executeTask(c) \/ close(c)
    \/ \E q \in Queries : executeLocalTask(q)

RPC3Spec == Init /\ [][RPC3Next]_vars

RPC3FairSpec ==
    /\ RPC3Spec
    /\ HandlerFairness
    /\ \A c \in Callers : CallerFairness(c) /\ WF_vars(WriteRequest(c) \/ TransmissionFailure(c))
    /\ \A q \in Queries : TaskFairness(q)
-----------------------------------------------------------------------------
(* FastRPC3: the frame of the handler is alive for all who use it, and every call
   gets the answer of its own request.                                          *)
RPC3Sound == TypeOK /\ HandlerFrameAlive /\ AnswerMatchesReply
=============================================================================
