------------------------------ MODULE FastRPC1 ------------------------------
(***************************************************************************)
(* FastRPC1: the steps of a connection (module RPCConnection), grouped by  *)
(* the methods of FastRPC1.  A request that cannot be written is waited    *)
(* for like one that was.                                                  *)
(***************************************************************************)
EXTENDS RPCConnection

\* Mutant: the failure returns at once, with the socket still locked.
RequestNotWrittenReturns(c) ==
    /\ WriteFails(c)
    /\ cpc' = [cpc EXCEPT ![c] = "done"]
    /\ UNCHANGED <<hpc, connections, connVars, socketMutex, counter, answerVars, dropped, qpc,
                   creq, ctries, cres>>

\* The outcome of the write is ignored: unlock, and wait for the answer.
RequestNotWritten(c) ==
    /\ WriteFails(c)
    /\ socketMutex' = Nobody
    /\ cpc' = [cpc EXCEPT ![c] = "await"]
    /\ UNCHANGED <<hpc, connections, connVars, counter, answerVars, dropped, qpc,
                   creq, ctries, cres>>

runRemoteRPCMethod(c) ==
    \/ OpenConnection(c) \/ RegisterRequest(c)
    \/ LockSocket(c) \/ WriteRequest(c) \/ RequestNotWritten(c)
    \/ WaitAnswer(c) \/ AnswerTimeout(c) \/ CheckAnswer(c)
    \/ Cleanup(c) \/ ReleaseConnection(c)

runRemoteClose(c) == CloseOpen(c) \/ CloseWrite(c) \/ ReleaseConnection(c)

processAnswer == \E i \in outstanding, r \in Replies : ReadAnswer(i, r)

processQuery == (\E q \in Queries : ReadQuery(q)) \/ SendOverflowAnswer

processConnection ==
    \/ AddConnection
    \/ processAnswer \/ processQuery \/ LoopEnds
    \/ WaitTasksAndShutdown \/ Terminate \/ NotifyTerminated \/ DestroyConnection

sendRPCAnswer(q) == SendAnswer(q)

executeRPCTask(q) == RunLocalMethod(q) \/ sendRPCAnswer(q)

RPC1Next ==
    \/ processConnection
    \/ PeerVanishes
    \/ \E c \in Callers : runRemoteRPCMethod(c) \/ runRemoteClose(c)
    \/ \E q \in Queries : executeRPCTask(q)

RPC1Spec == Init /\ [][RPC1Next]_vars

RPC1FairSpec ==
    /\ RPC1Spec
    /\ HandlerFairness
    /\ \A c \in Callers : CallerFairness(c) /\ WF_vars(WriteRequest(c) \/ RequestNotWritten(c))
    /\ \A q \in Queries : TaskFairness(q)
=============================================================================
