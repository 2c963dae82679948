----------------------------- MODULE RPCProofs -----------------------------
(***************************************************************************)
(* Proofs about the two FastRPC protocols, for any number of callers,      *)
(* queries, tries, connections and request ids.  One inductive invariant   *)
(* serves both: they differ in what a failed write does, and a call that   *)
(* FastRPC3 ends there stays a reader of the connection.                   *)
(***************************************************************************)
EXTENDS FastRPC1, FastRPC3, FiniteSetTheorems, TLAPS

\* A step of either protocol.
CallerStep(c) ==
    \/ OpenConnection(c) \/ RegisterRequest(c) \/ LockSocket(c) \/ WriteRequest(c)
    \/ RequestNotWritten(c) \/ TransmissionFailure(c)
    \/ WaitAnswer(c) \/ AnswerTimeout(c) \/ CheckAnswer(c)
    \/ Cleanup(c) \/ ReleaseConnection(c) \/ CloseOpen(c) \/ CloseWrite(c)

AnyStep ==
    \/ \E c \in Callers : CallerStep(c)
    \/ AddConnection \/ (\E i \in outstanding, r \in Replies : ReadAnswer(i, r))
    \/ (\E q \in Queries : ReadQuery(q) \/ RunLocalMethod(q) \/ SendAnswer(q))
    \/ SendOverflowAnswer \/ LoopEnds \/ PeerVanishes
    \/ WaitTasksAndShutdown \/ Terminate \/ NotifyTerminated \/ DestroyConnection

LEMMA RPC1Steps == [RPC1Next]_vars => [AnyStep]_vars
BY DEF RPC1Next, processConnection, processAnswer, processQuery, runRemoteRPCMethod, runRemoteClose,
       executeRPCTask, sendRPCAnswer, AnyStep, CallerStep

LEMMA RPC3Steps == [RPC3Next]_vars => [AnyStep]_vars
BY DEF RPC3Next, handleConnection, processIncomingAnswer, processIncomingExecutionRequest, executeTask,
       close, executeLocalTask, AnyStep, CallerStep

-----------------------------------------------------------------------------
(* The inductive invariant.                                                *)

\* The element is in the map while the handler is between addElement and the
\* end of destroyElement; a task is inside only before the shutdown.
HandlerPhase ==
    /\ element = "absent" <=> hpc \in {"start", "returned"}
    /\ TasksInside # {} => hpc \in {"loop", "overflow", "drain"}

\* The counter of the element counts the callers inside and the calls that
\* returned without releaseElement.
Readers == {c \in Callers : Inside(c) \/ cres[c] = "transmission_failure"}

ReadersCounted ==
    /\ numReaders = Cardinality(Readers)
    /\ element = "absent" => Readers = {}
    /\ \A c \in Callers : cres[c] = "transmission_failure" => cpc[c] = "done"

\* A request id belongs to one call.
Requesting(c) == cpc[c] \in {"registered", "writing", "await", "wait", "woken", "cleanup"}

RequestsOwned ==
    /\ \A c \in Callers : Requesting(c) => creq[c] # 0
    /\ \A c \in Callers : creq[c] # 0 => Requesting(c) \/ cpc[c] = "release"
    /\ \A c, d \in Callers : creq[c] = creq[d] /\ creq[c] # 0 => c = d

\* The peer answers a request once, while its call is past the write; what is
\* stored is what the peer answered.
RepliesOwned ==
    /\ \A i \in DOMAIN replied \cup (outstanding \cap pending) :
          \E c \in Callers : creq[c] = i /\ cpc[c] \in {"await", "wait", "woken", "cleanup"}
    /\ DOMAIN replied \cap outstanding = {}
    /\ \A i \in DOMAIN answers : /\ i \in DOMAIN replied
                                 /\ answers[i] = replied[i].status
                                 /\ answers[i] \in {"success", "notfound"}

RPCInv == TypeOK /\ HandlerPhase /\ ReadersCounted /\ RequestsOwned /\ RepliesOwned /\ AnswerMatchesReply

LEMMA RPCInit == Init => RPCInv
<1> SUFFICES ASSUME Init PROVE RPCInv
  OBVIOUS
<1>1. Readers = {} /\ Cardinality({}) = 0 /\ Cardinality(Callers) \in Nat
  BY RPCAssumption, FS_EmptySet, FS_CardinalityType DEF Init, Readers, Inside
<1>2. TypeOK
  <2>1. DOMAIN answers = {} /\ DOMAIN replied = {}
    BY DEF Init
  <2>2. counter \in RequestIds /\ ctries \in [Callers -> 0..(MaxTries - 1)] /\ connections \in 0..MaxConnections
        /\ numReaders \in 0..Cardinality(Callers)
    BY <1>1, RPCAssumption DEF Init, RequestIds
  <2>3. cpc \in [Callers -> {"idle"}] /\ creq \in [Callers -> {0}] /\ cres \in [Callers -> {"none"}]
        /\ qpc \in [Queries -> {"unsent"}]
    BY DEF Init
  <2> QED BY <2>1, <2>2, <2>3 DEF Init, TypeOK
<1>3. HandlerPhase /\ ReadersCounted
  BY <1>1 DEF Init, HandlerPhase, ReadersCounted, TasksInside
<1>4. RequestsOwned /\ RepliesOwned /\ AnswerMatchesReply
  BY DEF Init, RequestsOwned, Requesting, RepliesOwned, AnswerMatchesReply
<1> QED BY <1>2, <1>3, <1>4 DEF RPCInv

-----------------------------------------------------------------------------
(* The readers.                                                            *)

\* The counter is a count of callers, whatever the step.
LEMMA ReadersBound ==
    ASSUME ReadersCounted
    PROVE  numReaders \in 0..Cardinality(Callers) /\ Cardinality(Callers) \in Nat
<1>1. IsFiniteSet(Callers) /\ Readers \in SUBSET Callers
  BY RPCAssumption DEF Readers
<1>2. Cardinality(Readers) <= Cardinality(Callers) /\ IsFiniteSet(Readers)
  BY <1>1, FS_Subset
<1>3. Cardinality(Readers) \in Nat /\ Cardinality(Callers) \in Nat
  BY <1>1, <1>2, FS_CardinalityType
<1> QED BY <1>2, <1>3 DEF ReadersCounted

\* openElement: one more reader.
LEMMA ReaderEnters ==
    ASSUME RPCInv, NEW c \in Callers, cpc[c] = "idle", element = "open", numReaders' = numReaders + 1,
           NEW s \in {"opened", "closing"}, cpc' = [cpc EXCEPT ![c] = s], UNCHANGED element,
           cres' = cres \/ cres' = [cres EXCEPT ![c] = "closed"]
    PROVE  ReadersCounted'
<1> USE DEF RPCInv, TypeOK, ReadersCounted
<1>1. Readers' = Readers \cup {c} /\ c \notin Readers
  BY DEF Readers, Inside
<1>2. IsFiniteSet(Readers)
  BY RPCAssumption, FS_Subset DEF Readers
<1>3. Cardinality(Readers') = Cardinality(Readers) + 1
  BY <1>1, <1>2, FS_AddElement
<1> QED BY <1>3

\* releaseElement: one reader less.
LEMMA ReaderLeaves ==
    ASSUME RPCInv, NEW c \in Callers, ReleaseConnection(c)
    PROVE  ReadersCounted'
<1> USE DEF RPCInv, TypeOK, ReadersCounted, ReleaseConnection
<1>1. Readers' = Readers \ {c} /\ c \in Readers
  BY DEF Readers, Inside
<1>2. IsFiniteSet(Readers)
  BY RPCAssumption, FS_Subset DEF Readers
<1>3. Cardinality(Readers') = Cardinality(Readers) - 1
  BY <1>1, <1>2, FS_RemoveElement
<1> QED BY <1>1, <1>3

\* Any other step of a caller.
LEMMA ReaderStays ==
    ASSUME RPCInv, UNCHANGED <<numReaders, element>>, Readers' = Readers,
           \A c \in Callers : cres'[c] = "transmission_failure" => cpc'[c] = "done"
    PROVE  ReadersCounted'
BY DEF RPCInv, ReadersCounted

LEMMA ReadersCallers ==
    ASSUME RPCInv, NEW c \in Callers, CallerStep(c)
    PROVE  ReadersCounted'
<1> USE DEF connVars, answerVars, callVars
<1>t. TypeOK /\ \A d \in Callers : cres[d] = "transmission_failure" => cpc[d] = "done"
  BY DEF RPCInv, ReadersCounted
<1>0. ASSUME NEW s, NEW v, v # "transmission_failure", cpc' = [cpc EXCEPT ![c] = s],
             cres' = [cres EXCEPT ![c] = v] \/ cres' = cres, cpc[c] # "done",
             \/ Inside(c) /\ s \in {"registered", "writing", "await", "wait", "cleanup", "release"}
             \/ cpc[c] = "idle" /\ s = "done",
             UNCHANGED <<numReaders, element>>
      PROVE  ReadersCounted'
  BY <1>0, <1>t, ReaderStays DEF TypeOK, Readers, Inside
<1>1. CASE OpenConnection(c)
  <2>1. CASE element = "open"
    BY <1>1, <2>1, ReaderEnters DEF OpenConnection
  <2>2. CASE UNCHANGED <<numReaders, cpc, cres>>
    BY <1>1, <1>t, <2>2, ReaderStays DEF OpenConnection, Readers, Inside
  <2>3. CASE cpc' = [cpc EXCEPT ![c] = "done"] /\ cres' = [cres EXCEPT ![c] = "peer_not_found"]
             /\ UNCHANGED numReaders
    BY <1>0, <1>1, <2>3 DEF OpenConnection
  <2> QED BY <1>1, <2>1, <2>2, <2>3 DEF OpenConnection
<1>2. CASE RegisterRequest(c)   BY <1>0, <1>2 DEF RegisterRequest, Inside
<1>3. CASE LockSocket(c)        BY <1>0, <1>3 DEF LockSocket, Inside
<1>4. CASE WriteRequest(c)      BY <1>0, <1>4 DEF WriteRequest, Inside
<1>5. CASE RequestNotWritten(c) BY <1>0, <1>5 DEF RequestNotWritten, WriteFails, Inside
<1>6. CASE TransmissionFailure(c)
  BY <1>6, <1>t, ReaderStays DEF TransmissionFailure, WriteFails, TypeOK, Readers, Inside
<1>7. CASE WaitAnswer(c)        BY <1>0, <1>7 DEF WaitAnswer, Inside
<1>8. CASE AnswerTimeout(c)     BY <1>0, <1>8 DEF AnswerTimeout, Inside
<1>9. CASE CheckAnswer(c)
  <2>1. creq[c] \in DOMAIN answers => answers[creq[c]] # "transmission_failure"
    BY DEF RPCInv, RepliesOwned
  <2> QED BY <1>0, <1>9, <2>1 DEF CheckAnswer, Inside
<1>10. CASE Cleanup(c)          BY <1>0, <1>10 DEF Cleanup, Inside
<1>11. CASE ReleaseConnection(c) BY <1>11, ReaderLeaves
<1>12. CASE CloseOpen(c)        BY <1>12, ReaderEnters DEF CloseOpen
<1>13. CASE CloseWrite(c)       BY <1>0, <1>13 DEF CloseWrite, Inside
<1> QED
  BY <1>1, <1>2, <1>3, <1>4, <1>5, <1>6, <1>7, <1>8, <1>9, <1>10, <1>11, <1>12, <1>13 DEF CallerStep

LEMMA ReadersStep == RPCInv /\ [AnyStep]_vars => ReadersCounted'
<1> SUFFICES ASSUME RPCInv, [AnyStep]_vars PROVE ReadersCounted'
  OBVIOUS
<1> USE DEF connVars, answerVars, callVars
<1>t. TypeOK /\ \A d \in Callers : cres[d] = "transmission_failure" => cpc[d] = "done"
  BY DEF RPCInv, ReadersCounted
<1>0. CASE UNCHANGED <<numReaders, element, cpc, cres>>
  BY <1>0, <1>t, ReaderStays DEF Readers, Inside
<1>1. CASE AddConnection
  <2>1. Readers = {}
    BY <1>1 DEF AddConnection, RPCInv, ReadersCounted
  <2>2. Readers' = Readers
    BY <1>1 DEF AddConnection, Readers, Inside
  <2> QED BY <1>1, <1>t, <2>1, <2>2, FS_EmptySet DEF AddConnection, ReadersCounted
<1>2. CASE cpc' = NotifyAnswers /\ UNCHANGED <<numReaders, element, cres>>
  <2>1. \A d \in Callers : (cpc[d] = "done" <=> cpc'[d] = "done") /\ (Inside(d) <=> Inside(d)')
    BY <1>2, <1>t DEF NotifyAnswers, TypeOK, Inside
  <2>2. Readers' = Readers
    BY <1>2, <2>1 DEF Readers
  <2> QED BY <1>2, <1>t, <2>1, <2>2, ReaderStays
<1>3. CASE DestroyConnection
  <2>1. Readers' = Readers /\ numReaders' = numReaders /\ cpc' = cpc /\ cres' = cres
    BY <1>3 DEF DestroyConnection, Readers, Inside
  <2>2. IsFiniteSet(Readers)
    BY RPCAssumption, FS_Subset DEF Readers
  <2>3. numReaders = 0 => Readers = {}
    BY <2>2, FS_EmptySet DEF RPCInv, ReadersCounted
  <2>4. element' = "absent" => numReaders = 0
    BY <1>3 DEF DestroyConnection
  <2> QED BY <1>t, <2>1, <2>3, <2>4 DEF RPCInv, ReadersCounted
<1>4. ASSUME NEW i \in outstanding, NEW r \in Replies, ReadAnswer(i, r) PROVE ReadersCounted'
  BY <1>0, <1>2, <1>4 DEF ReadAnswer
<1>5. CASE NotifyTerminated BY <1>2, <1>5 DEF NotifyTerminated
<1> QED
  BY <1>0, <1>1, <1>3, <1>4, <1>5, ReadersCallers
  DEF AnyStep, vars, ReadQuery, RunLocalMethod, SendAnswer, SendOverflowAnswer, LoopEnds, PeerVanishes,
      WaitTasksAndShutdown, Terminate
-----------------------------------------------------------------------------
(* Types, the phases of the handler and the owners of the request ids.     *)

\* The counter wraps within the request ids.
LEMMA NextId == \A id \in RequestIds : (id % MaxRequestId) + 1 \in RequestIds
<1> SUFFICES ASSUME NEW id \in RequestIds PROVE (id % MaxRequestId) + 1 \in RequestIds
  OBVIOUS
<1>1. MaxRequestId \in Nat /\ MaxRequestId > 0 /\ id \in Nat
  BY RPCAssumption DEF RequestIds
<1>2. id % MaxRequestId \in 0..(MaxRequestId - 1)
  BY <1>1
<1> QED BY <1>1, <1>2 DEF RequestIds

OwnerInv == TypeOK /\ HandlerPhase /\ RequestsOwned

LEMMA OwnersCallers ==
    ASSUME RPCInv, ReadersCounted', NEW c \in Callers, CallerStep(c)
    PROVE  OwnerInv'
<1> USE DEF OwnerInv, RPCInv, connVars, answerVars, callVars
<1>r. numReaders' \in 0..Cardinality(Callers)'
  BY ReadersBound, RPCAssumption, FS_Subset, FS_CardinalityType DEF ReadersCounted, Readers
<1>t. TypeOK /\ HandlerPhase /\ RequestsOwned
  OBVIOUS
<1> USE DEF TypeOK, HandlerPhase, TasksInside, RequestsOwned, Requesting
<1>1. CASE OpenConnection(c)
  BY <1>r, <1>t, <1>1, RPCAssumption DEF OpenConnection
<1>2. CASE RegisterRequest(c)
  <2>1. PICK id \in RequestIds \ (pending \cup {creq[o] : o \in Callers}) :
              /\ creq' = [creq EXCEPT ![c] = id]
              /\ counter' = (id % MaxRequestId) + 1
              /\ pending' = pending \cup {id}
              /\ outstanding' = outstanding \ {id}
    BY <1>2 DEF RegisterRequest
  <2>2. counter' \in RequestIds /\ id # 0 /\ \A o \in Callers : creq[o] # id
    BY <2>1, NextId, RPCAssumption DEF RequestIds
  <2>3. TypeOK' /\ HandlerPhase'
    BY <1>2, <1>r, <1>t, <2>1, <2>2 DEF RegisterRequest
  <2>4. RequestsOwned'
    BY <1>2, <1>t, <2>1, <2>2 DEF RegisterRequest
  <2> QED BY <2>3, <2>4
<1>3. CASE LockSocket(c)        BY <1>r, <1>t, <1>3 DEF LockSocket
<1>4. CASE WriteRequest(c)
  <2>1. creq[c] \in RequestIds
    BY <1>t, <1>4 DEF WriteRequest
  <2> QED BY <1>r, <1>t, <1>4, <2>1 DEF WriteRequest
<1>5. CASE RequestNotWritten(c) BY <1>r, <1>t, <1>5 DEF RequestNotWritten, WriteFails
<1>6. CASE TransmissionFailure(c) BY <1>r, <1>t, <1>6 DEF TransmissionFailure, WriteFails
<1>7. CASE WaitAnswer(c)        BY <1>r, <1>t, <1>7 DEF WaitAnswer
<1>8. CASE AnswerTimeout(c)     BY <1>r, <1>t, <1>8 DEF AnswerTimeout
<1>9. CASE CheckAnswer(c)
  <2>1. creq[c] \in DOMAIN answers => answers[creq[c]] \in {"success", "notfound"}
    BY DEF RepliesOwned
  <2> QED BY <1>r, <1>t, <1>9, <2>1 DEF CheckAnswer
<1>10. CASE Cleanup(c)          BY <1>r, <1>t, <1>10 DEF Cleanup, Without
<1>11. CASE ReleaseConnection(c) BY <1>r, <1>t, <1>11 DEF ReleaseConnection
<1>12. CASE CloseOpen(c)        BY <1>r, <1>t, <1>12 DEF CloseOpen
<1>13. CASE CloseWrite(c)       BY <1>r, <1>t, <1>13 DEF CloseWrite
<1> QED
  BY <1>1, <1>2, <1>3, <1>4, <1>5, <1>6, <1>7, <1>8, <1>9, <1>10, <1>11, <1>12, <1>13 DEF CallerStep

LEMMA OwnersStep == RPCInv /\ ReadersCounted' /\ [AnyStep]_vars => OwnerInv'
<1> SUFFICES ASSUME RPCInv, ReadersCounted', [AnyStep]_vars PROVE OwnerInv'
  OBVIOUS
<1> USE DEF OwnerInv, RPCInv, connVars, answerVars, callVars
<1>r. numReaders' \in 0..Cardinality(Callers)
  BY ReadersBound, RPCAssumption, FS_Subset, FS_CardinalityType DEF ReadersCounted, Readers
<1>t. TypeOK /\ HandlerPhase /\ RequestsOwned
  OBVIOUS
<1>n. NotifyAnswers \in [Callers -> {"idle", "opened", "registered", "writing", "await", "wait", "woken",
                           "cleanup", "release", "closing", "done"}]
      /\ \A c \in Callers : /\ NotifyAnswers[c] = "release" <=> cpc[c] = "release"
                            /\ NotifyAnswers[c] \in {"registered", "writing", "await", "wait", "woken", "cleanup"}
                                  <=> cpc[c] \in {"registered", "writing", "await", "wait", "woken", "cleanup"}
  BY <1>t DEF NotifyAnswers, TypeOK
<1> USE DEF TypeOK, HandlerPhase, TasksInside, RequestsOwned, Requesting
<1>1. CASE AddConnection
  <2>1. DOMAIN answers' = {} /\ DOMAIN replied' = {} /\ counter' \in RequestIds
        /\ connections' \in 0..MaxConnections
    BY <1>1, <1>t, RPCAssumption DEF AddConnection, RequestIds
  <2> QED BY <1>r, <1>t, <1>1, <2>1 DEF AddConnection
<1>2. ASSUME NEW i \in outstanding, NEW r \in Replies, ReadAnswer(i, r) PROVE OwnerInv'
  <2>1. DOMAIN answers' \subseteq RequestIds /\ DOMAIN replied' \subseteq RequestIds
        /\ pending' \subseteq RequestIds /\ outstanding' \subseteq RequestIds
    BY <1>2, <1>t DEF ReadAnswer, Without
  <2>2. CASE cpc' = NotifyAnswers BY <1>2, <1>n, <1>r, <1>t, <2>1, <2>2 DEF ReadAnswer
  <2>3. CASE cpc' = cpc BY <1>2, <1>r, <1>t, <2>1, <2>3 DEF ReadAnswer
  <2> QED BY <1>2, <2>2, <2>3 DEF ReadAnswer
<1>3. ASSUME NEW q \in Queries, ReadQuery(q) PROVE OwnerInv'
  BY <1>r, <1>t, <1>3 DEF ReadQuery
<1>4. ASSUME NEW q \in Queries, RunLocalMethod(q) PROVE OwnerInv'
  BY <1>r, <1>t, <1>4 DEF RunLocalMethod
<1>5. ASSUME NEW q \in Queries, SendAnswer(q) PROVE OwnerInv'
  BY <1>r, <1>t, <1>5 DEF SendAnswer
<1>6. CASE SendOverflowAnswer   BY <1>r, <1>t, <1>6 DEF SendOverflowAnswer
<1>7. CASE LoopEnds             BY <1>r, <1>t, <1>7 DEF LoopEnds
<1>8. CASE PeerVanishes         BY <1>r, <1>t, <1>8 DEF PeerVanishes
<1>9. CASE WaitTasksAndShutdown BY <1>r, <1>t, <1>9 DEF WaitTasksAndShutdown
<1>10. CASE Terminate           BY <1>r, <1>t, <1>10 DEF Terminate
<1>11. CASE NotifyTerminated    BY <1>n, <1>r, <1>t, <1>11 DEF NotifyTerminated
<1>12. CASE DestroyConnection   BY <1>r, <1>t, <1>12 DEF DestroyConnection
<1>13. CASE UNCHANGED vars      BY <1>r, <1>t, <1>13 DEF vars
<1> QED
  BY <1>1, <1>2, <1>3, <1>4, <1>5, <1>6, <1>7, <1>8, <1>9, <1>10, <1>11, <1>12, <1>13, OwnersCallers DEF AnyStep
-----------------------------------------------------------------------------
(* The answers.                                                            *)

ReplyInv == RepliesOwned /\ AnswerMatchesReply

\* A step that leaves the tables alone and keeps a call past its write there.
LEMMA RepliesFrame ==
    ASSUME RPCInv, UNCHANGED <<pending, answers, outstanding, replied, creq>>,
           \A d \in Callers : cpc[d] \in {"await", "wait", "woken", "cleanup"}
                                 => cpc'[d] \in {"await", "wait", "woken", "cleanup"},
           \A d \in Callers : cpc'[d] = "cleanup" => cpc[d] = "cleanup" /\ cres'[d] = cres[d]
    PROVE  ReplyInv'
<1>1. RepliesOwned'
  BY DEF RPCInv, RepliesOwned
<1>2. AnswerMatchesReply'
  BY DEF RPCInv, AnswerMatchesReply
<1> QED BY <1>1, <1>2 DEF ReplyInv

LEMMA RepliesCallers ==
    ASSUME RPCInv, NEW c \in Callers, CallerStep(c)
    PROVE  ReplyInv'
<1> USE DEF RPCInv, connVars, answerVars, callVars
<1>t. TypeOK
  OBVIOUS
<1> USE DEF TypeOK
<1>0. ASSUME NEW s \in {"idle", "opened", "writing", "await", "wait", "release", "closing", "done"},
             cpc' = [cpc EXCEPT ![c] = s], cpc[c] \in {"await", "wait", "woken", "cleanup"} => s \in {"await", "wait"},
             \A d \in Callers : d # c => cres'[d] = cres[d],
             UNCHANGED <<pending, answers, outstanding, replied, creq>>
      PROVE  ReplyInv'
  BY <1>0, <1>t, RepliesFrame
<1>1. CASE OpenConnection(c)
  BY <1>0, <1>t, <1>1, RepliesFrame DEF OpenConnection
<1>2. CASE RegisterRequest(c)
  <2>1. PICK id \in RequestIds \ (pending \cup {creq[o] : o \in Callers}) :
              /\ creq' = [creq EXCEPT ![c] = id]
              /\ pending' = pending \cup {id}
              /\ outstanding' = outstanding \ {id}
    BY <1>2 DEF RegisterRequest
  <2>2. creq[c] = 0 /\ cpc[c] = "opened"
    BY <1>2 DEF RegisterRequest, RequestsOwned, Requesting
  <2>3. cpc' = [cpc EXCEPT ![c] = "registered"] /\ UNCHANGED <<answers, replied, cres>>
    BY <1>2 DEF RegisterRequest
  <2>4. RepliesOwned'
    <3>1. ASSUME NEW i \in DOMAIN replied \cup (outstanding \cap pending)
          PROVE  \E d \in Callers : creq'[d] = i /\ cpc'[d] \in {"await", "wait", "woken", "cleanup"}
      <4>1. PICK d \in Callers : creq[d] = i /\ cpc[d] \in {"await", "wait", "woken", "cleanup"}
        BY <3>1 DEF RepliesOwned
      <4> QED BY <2>1, <2>2, <2>3, <4>1
    <3> QED BY <2>1, <2>3, <3>1 DEF RepliesOwned
  <2>5. AnswerMatchesReply'
    BY <2>1, <2>2, <2>3 DEF AnswerMatchesReply
  <2> QED BY <2>4, <2>5 DEF ReplyInv
<1>3. CASE LockSocket(c)        BY <1>0, <1>3 DEF LockSocket
<1>4. CASE WriteRequest(c)
  <2>1. cpc[c] = "writing" /\ cpc' = [cpc EXCEPT ![c] = "await"] /\ outstanding' = outstanding \cup {creq[c]}
        /\ UNCHANGED <<pending, answers, replied, creq, cres>>
    BY <1>4 DEF WriteRequest
  <2>2. creq[c] # 0 /\ creq[c] \notin DOMAIN replied
    BY <2>1 DEF RequestsOwned, Requesting, RepliesOwned
  <2>3. RepliesOwned'
    <3>1. ASSUME NEW i \in DOMAIN replied \cup (outstanding \cap pending)
          PROVE  \E d \in Callers : creq'[d] = i /\ cpc'[d] \in {"await", "wait", "woken", "cleanup"}
      <4>1. PICK d \in Callers : creq[d] = i /\ cpc[d] \in {"await", "wait", "woken", "cleanup"}
        BY <3>1 DEF RepliesOwned
      <4> QED BY <2>1, <4>1
    <3>2. creq'[c] = creq[c] /\ cpc'[c] = "await"
      BY <2>1
    <3> QED BY <2>1, <2>2, <3>1, <3>2 DEF RepliesOwned
  <2>4. AnswerMatchesReply'
    BY <2>1 DEF AnswerMatchesReply
  <2> QED BY <2>3, <2>4 DEF ReplyInv
<1>5. CASE RequestNotWritten(c) BY <1>0, <1>5 DEF RequestNotWritten, WriteFails
<1>6. CASE TransmissionFailure(c)
  <2>1. cpc[c] = "writing" /\ cpc' = [cpc EXCEPT ![c] = "done"] /\ creq' = [creq EXCEPT ![c] = 0]
        /\ UNCHANGED <<pending, answers, outstanding, replied>> /\ \A d \in Callers : d # c => cres'[d] = cres[d]
    BY <1>6 DEF TransmissionFailure, WriteFails
  <2>2. RepliesOwned'
    <3>1. ASSUME NEW i \in DOMAIN replied \cup (outstanding \cap pending)
          PROVE  \E d \in Callers : creq'[d] = i /\ cpc'[d] \in {"await", "wait", "woken", "cleanup"}
      <4>1. PICK d \in Callers : creq[d] = i /\ cpc[d] \in {"await", "wait", "woken", "cleanup"}
        BY <3>1 DEF RepliesOwned
      <4> QED BY <2>1, <4>1
    <3> QED BY <2>1, <3>1 DEF RepliesOwned
  <2>3. AnswerMatchesReply'
    BY <2>1 DEF AnswerMatchesReply
  <2> QED BY <2>2, <2>3 DEF ReplyInv
<1>7. CASE WaitAnswer(c)        BY <1>0, <1>7 DEF WaitAnswer
<1>8. CASE AnswerTimeout(c)
  <2>1. RepliesOwned'
    BY <1>8 DEF AnswerTimeout, RepliesOwned
  <2>2. AnswerMatchesReply'
    BY <1>8 DEF AnswerTimeout, AnswerMatchesReply
  <2> QED BY <2>1, <2>2 DEF ReplyInv
<1>9. CASE CheckAnswer(c)
  <2>1. RepliesOwned'
    BY <1>9 DEF CheckAnswer, RepliesOwned
  <2>2. AnswerMatchesReply'
    BY <1>9 DEF CheckAnswer, AnswerMatchesReply, RepliesOwned
  <2> QED BY <2>1, <2>2 DEF ReplyInv
<1>10. CASE Cleanup(c)
  <2>1. cpc[c] = "cleanup" /\ cpc' = [cpc EXCEPT ![c] = "release"] /\ UNCHANGED <<outstanding, creq, cres>>
        /\ answers' = Without(answers, creq[c]) /\ pending' = pending \ {creq[c]}
        /\ replied' = Without(replied, creq[c])
    BY <1>10 DEF Cleanup
  <2>2. creq[c] # 0 /\ \A d \in Callers : d # c => creq[d] # creq[c]
    BY <2>1 DEF RequestsOwned, Requesting
  <2>3. RepliesOwned'
    <3>1. ASSUME NEW i \in DOMAIN replied \cup (outstanding \cap pending), i # creq[c]
          PROVE  \E d \in Callers : creq'[d] = i /\ cpc'[d] \in {"await", "wait", "woken", "cleanup"}
      <4>1. PICK d \in Callers : creq[d] = i /\ cpc[d] \in {"await", "wait", "woken", "cleanup"}
        BY <3>1 DEF RepliesOwned
      <4> QED BY <2>1, <3>1, <4>1
    <3> QED BY <2>1, <3>1 DEF RepliesOwned, Without
  <2>4. AnswerMatchesReply'
    BY <2>1, <2>2 DEF AnswerMatchesReply, Without
  <2> QED BY <2>3, <2>4 DEF ReplyInv
<1>11. CASE ReleaseConnection(c)
  <2>1. cpc[c] = "release" /\ cpc' = [cpc EXCEPT ![c] = "done"] /\ creq' = [creq EXCEPT ![c] = 0]
        /\ UNCHANGED <<pending, answers, outstanding, replied, cres>>
    BY <1>11 DEF ReleaseConnection
  <2>2. RepliesOwned'
    <3>1. ASSUME NEW i \in DOMAIN replied \cup (outstanding \cap pending)
          PROVE  \E d \in Callers : creq'[d] = i /\ cpc'[d] \in {"await", "wait", "woken", "cleanup"}
      <4>1. PICK d \in Callers : creq[d] = i /\ cpc[d] \in {"await", "wait", "woken", "cleanup"}
        BY <3>1 DEF RepliesOwned
      <4> QED BY <2>1, <4>1
    <3> QED BY <2>1, <3>1 DEF RepliesOwned
  <2>3. AnswerMatchesReply'
    BY <2>1 DEF AnswerMatchesReply
  <2> QED BY <2>2, <2>3 DEF ReplyInv
<1>12. CASE CloseOpen(c)        BY <1>0, <1>12 DEF CloseOpen
<1>13. CASE CloseWrite(c)       BY <1>0, <1>13 DEF CloseWrite
<1> QED
  BY <1>1, <1>2, <1>3, <1>4, <1>5, <1>6, <1>7, <1>8, <1>9, <1>10, <1>11, <1>12, <1>13 DEF CallerStep

\* processAnswer: a pending request is answered once.
LEMMA RepliesRead ==
    ASSUME RPCInv, NEW i \in outstanding, NEW r \in Replies, ReadAnswer(i, r)
    PROVE  ReplyInv'
<1> USE DEF RPCInv, connVars, answerVars, callVars, TypeOK
<1>1. UNCHANGED <<creq, cres>> /\ outstanding' = outstanding \ {i} /\ i \notin DOMAIN replied
      /\ i \notin DOMAIN answers
  BY DEF ReadAnswer, RepliesOwned
<1>2. \A d \in Callers : /\ cpc[d] \in {"await", "wait", "woken", "cleanup"}
                               => cpc'[d] \in {"await", "wait", "woken", "cleanup"}
                         /\ cpc'[d] = "cleanup" => cpc[d] = "cleanup"
  BY DEF ReadAnswer, NotifyAnswers
<1>3. CASE i \notin pending
  <2>1. UNCHANGED <<pending, answers, replied>>
    BY <1>3 DEF ReadAnswer
  <2> QED BY <1>1, <1>2, <2>1 DEF ReplyInv, RepliesOwned, AnswerMatchesReply
<1>4. CASE i \in pending
  <2>1. /\ replied' = [j \in DOMAIN replied \cup {i} |-> IF j = i THEN r ELSE replied[j]]
        /\ pending' \subseteq pending
        /\ \/ r.status \in {"success", "notfound"}
              /\ answers' = [j \in DOMAIN answers \cup {i} |-> IF j = i THEN r.status ELSE answers[j]]
           \/ answers' = Without(answers, i)
    BY <1>4 DEF ReadAnswer, Replies
  <2>2. DOMAIN replied' = DOMAIN replied \cup {i} /\ replied'[i] = r
        /\ \A j \in DOMAIN replied : replied'[j] = replied[j]
    BY <1>1, <2>1
  <2>3. DOMAIN answers' \subseteq DOMAIN answers \cup {i}
        /\ \A j \in DOMAIN answers' : IF j = i THEN answers'[j] = r.status /\ r.status \in {"success", "notfound"}
                                               ELSE answers'[j] = answers[j]
    BY <1>1, <2>1 DEF Without
  <2>4. RepliesOwned'
    <3>1. ASSUME NEW j \in DOMAIN replied' \cup (outstanding' \cap pending')
          PROVE  \E d \in Callers : creq'[d] = j /\ cpc'[d] \in {"await", "wait", "woken", "cleanup"}
      <4>1. j \in DOMAIN replied \cup (outstanding \cap pending)
        BY <1>1, <1>4, <2>1, <2>2, <3>1
      <4>2. PICK d \in Callers : creq[d] = j /\ cpc[d] \in {"await", "wait", "woken", "cleanup"}
        BY <4>1 DEF RepliesOwned
      <4> QED BY <1>1, <1>2, <4>2
    <3>2. DOMAIN replied' \cap outstanding' = {}
      BY <1>1, <2>2 DEF RepliesOwned
    <3>3. ASSUME NEW j \in DOMAIN answers'
          PROVE  /\ j \in DOMAIN replied' /\ answers'[j] = replied'[j].status
                 /\ answers'[j] \in {"success", "notfound"}
      BY <2>2, <2>3, <3>3 DEF RepliesOwned
    <3> QED BY <3>1, <3>2, <3>3 DEF RepliesOwned
  <2>5. AnswerMatchesReply'
    BY <1>1, <1>2, <2>2 DEF AnswerMatchesReply
  <2> QED BY <2>4, <2>5 DEF ReplyInv
<1> QED BY <1>3, <1>4

LEMMA RepliesStep == RPCInv /\ [AnyStep]_vars => ReplyInv'
<1> SUFFICES ASSUME RPCInv, [AnyStep]_vars PROVE ReplyInv'
  OBVIOUS
<1> USE DEF connVars, answerVars, callVars
<1>0. CASE UNCHANGED <<pending, answers, outstanding, replied, creq, cpc, cres>>
  BY <1>0, RepliesFrame
<1>1. CASE AddConnection
  <2>1. \A c \in Callers : ~Inside(c)
    BY <1>1 DEF AddConnection, RPCInv, ReadersCounted, Readers
  <2>2. DOMAIN replied' = {} /\ DOMAIN answers' = {} /\ outstanding' = {} /\ cpc' = cpc
    BY <1>1 DEF AddConnection
  <2> QED BY <2>1, <2>2 DEF ReplyInv, RepliesOwned, AnswerMatchesReply, Inside
<1>2. CASE NotifyTerminated
  BY <1>2, RepliesFrame DEF NotifyTerminated, NotifyAnswers
<1> QED
  BY <1>0, <1>1, <1>2, RepliesCallers, RepliesRead
  DEF AnyStep, vars, ReadQuery, RunLocalMethod, SendAnswer, SendOverflowAnswer, LoopEnds, PeerVanishes,
      WaitTasksAndShutdown, Terminate, DestroyConnection

LEMMA RPCStep == RPCInv /\ [AnyStep]_vars => RPCInv'
BY ReadersStep, OwnersStep, RepliesStep DEF RPCInv, OwnerInv, ReplyInv

\* The invariant says that the handler's frame is alive for all inside.
LEMMA RPCFrame == RPCInv => HandlerFrameAlive
BY DEF RPCInv, HandlerPhase, ReadersCounted, Readers, HandlerFrameAlive

\* Nobody uses the mutexes of a handler that returned or a deleted Connection,
\* in any behaviour of FastRPC1.
THEOREM RPC1FrameAlive == RPC1Spec => []HandlerFrameAlive
BY RPCInit, RPC1Steps, RPCStep, RPCFrame, PTL DEF RPC1Spec

\* FastRPC3: its variables keep their types, nobody uses a dead frame, every
\* call gets the answer of its own request, with the early return of a failed
\* write and whatever the peer does.
THEOREM RPC3IsSound == RPC3Spec => []RPC3Sound
<1>1. RPCInv => RPC3Sound
  BY RPCFrame DEF RPCInv, RPC3Sound
<1> QED BY RPCInit, RPC3Steps, RPCStep, <1>1, PTL DEF RPC3Spec
-----------------------------------------------------------------------------
(* FastRPC1 leaves nothing behind: its failed write is waited for, so that *)
(* every call that registered a request also revokes it.                   *)

PendingOwned == \A i \in pending : \E c \in Callers : creq[c] = i /\ Requesting(c)

LEMMA PendingFrame ==
    ASSUME PendingOwned, pending' \subseteq pending, UNCHANGED creq,
           \A c \in Callers : Requesting(c) => Requesting(c)'
    PROVE  PendingOwned'
BY DEF PendingOwned

LEMMA PendingCallers ==
    ASSUME RPCInv, PendingOwned, NEW c \in Callers, runRemoteRPCMethod(c) \/ runRemoteClose(c)
    PROVE  PendingOwned'
<1> USE DEF RPCInv, TypeOK, connVars, answerVars, callVars
<1>0. ASSUME NEW s \in {"opened", "writing", "await", "wait", "cleanup", "release", "closing", "done"},
             cpc' = [cpc EXCEPT ![c] = s], Requesting(c) => s \in {"writing", "await", "wait", "cleanup"},
             UNCHANGED <<pending, creq>>
      PROVE  PendingOwned'
  BY <1>0, PendingFrame DEF Requesting
<1>1. CASE OpenConnection(c)    BY <1>0, <1>1, PendingFrame DEF OpenConnection, Requesting
<1>2. CASE RegisterRequest(c)
  <2>1. PICK id \in RequestIds : creq' = [creq EXCEPT ![c] = id] /\ pending' = pending \cup {id}
    BY <1>2 DEF RegisterRequest
  <2>2. ~Requesting(c) /\ cpc' = [cpc EXCEPT ![c] = "registered"]
    BY <1>2 DEF RegisterRequest, Requesting
  <2> QED BY <2>1, <2>2 DEF PendingOwned, Requesting
<1>3. CASE LockSocket(c)        BY <1>0, <1>3 DEF LockSocket
<1>4. CASE WriteRequest(c)      BY <1>0, <1>4 DEF WriteRequest
<1>5. CASE RequestNotWritten(c) BY <1>0, <1>5 DEF RequestNotWritten
<1>6. CASE WaitAnswer(c)        BY <1>0, <1>6 DEF WaitAnswer
<1>7. CASE AnswerTimeout(c)     BY <1>0, <1>7 DEF AnswerTimeout
<1>8. CASE CheckAnswer(c)       BY <1>0, <1>8 DEF CheckAnswer
<1>9. CASE Cleanup(c)
  <2>1. pending' = pending \ {creq[c]} /\ cpc' = [cpc EXCEPT ![c] = "release"] /\ creq' = creq
    BY <1>9 DEF Cleanup
  <2> QED BY <2>1 DEF PendingOwned, Requesting
<1>10. CASE ReleaseConnection(c)
  <2>1. pending' = pending /\ cpc' = [cpc EXCEPT ![c] = "done"] /\ creq' = [creq EXCEPT ![c] = 0]
        /\ cpc[c] = "release"
    BY <1>10 DEF ReleaseConnection
  <2> QED BY <2>1 DEF PendingOwned, Requesting
<1>11. CASE CloseOpen(c)        BY <1>0, <1>11 DEF CloseOpen, Requesting
<1>12. CASE CloseWrite(c)       BY <1>0, <1>12 DEF CloseWrite, Requesting
<1> QED
  BY <1>1, <1>2, <1>3, <1>4, <1>5, <1>6, <1>7, <1>8, <1>9, <1>10, <1>11, <1>12
  DEF runRemoteRPCMethod, runRemoteClose

LEMMA PendingStep == RPCInv /\ PendingOwned /\ [RPC1Next]_vars => PendingOwned'
<1> SUFFICES ASSUME RPCInv, PendingOwned, [RPC1Next]_vars PROVE PendingOwned'
  OBVIOUS
<1> USE DEF connVars, answerVars, callVars
<1>0. CASE UNCHANGED <<pending, creq, cpc>>
  BY <1>0, PendingFrame DEF Requesting
<1>1. CASE AddConnection        BY <1>1 DEF AddConnection, PendingOwned
<1>2. ASSUME NEW i \in outstanding, NEW r \in Replies, ReadAnswer(i, r) PROVE PendingOwned'
  <2>1. pending' \subseteq pending /\ UNCHANGED creq /\ \A c \in Callers : Requesting(c) => Requesting(c)'
    BY <1>2 DEF ReadAnswer, NotifyAnswers, Requesting
  <2> QED BY <2>1, PendingFrame
<1>3. CASE NotifyTerminated
  BY <1>3, PendingFrame DEF NotifyTerminated, NotifyAnswers, Requesting
<1> QED
  BY <1>0, <1>1, <1>2, <1>3, PendingCallers
  DEF RPC1Next, processConnection, processAnswer, processQuery, executeRPCTask, sendRPCAnswer,
      vars, ReadQuery, RunLocalMethod, SendAnswer, SendOverflowAnswer, LoopEnds, PeerVanishes,
      WaitTasksAndShutdown, Terminate, DestroyConnection

\* FastRPC1's tables: they keep their types, every entry belongs to a call in
\* progress, and every call gets the answer of its own request.
THEOREM RPC1AnswersKept == RPC1Spec => []AnswersKept
<1>1. Init => PendingOwned
  BY DEF Init, PendingOwned
<1>2. RPCInv /\ PendingOwned => AnswersKept
  BY DEF RPCInv, PendingOwned, RepliesOwned, Requesting, AnswersKept, NoOrphans
<1> QED BY RPCInit, RPC1Steps, RPCStep, PendingStep, <1>1, <1>2, PTL DEF RPC1Spec
=============================================================================
