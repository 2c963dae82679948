---------------------------- MODULE NetworkProofs ----------------------------
(***************************************************************************)
(* Proofs about the network's connections: the reconnection loop and the   *)
(* listener, the bridge between two streams, the acceptor with a thread    *)
(* per client, the socket and its descriptor, the TLS sockets, what two    *)
(* streams exchange.                                                       *)
(***************************************************************************)
EXTENDS Connector, StreamsBridge, MultiThreadedAcceptor, Socket, TLSSocket, SocketStream, SequenceLemmas

-----------------------------------------------------------------------------
(* Counting in a history of calls. *)

LEMMA CountFinite ==
  ASSUME NEW S, NEW s \in Seq(S), NEW c
  PROVE  IsFiniteSet({i \in DOMAIN s : s[i] = c}) /\ CountIn(s, c) \in Nat
<1>1. DOMAIN s = 1..Len(s) /\ Len(s) \in Nat
  BY LenProperties
<1>2. IsFiniteSet(1..Len(s))
  BY <1>1, FS_Interval
<1>3. IsFiniteSet({i \in DOMAIN s : s[i] = c})
  BY <1>1, <1>2, FS_Subset
<1> QED BY <1>3, FS_CardinalityType DEF CountIn

LEMMA CountAppend ==
  ASSUME NEW S, NEW s \in Seq(S), NEW x \in S, NEW c
  PROVE  CountIn(Append(s, x), c) = CountIn(s, c) + (IF x = c THEN 1 ELSE 0)
<1> DEFINE A == {i \in DOMAIN s : s[i] = c}
           B == {i \in DOMAIN Append(s, x) : Append(s, x)[i] = c}
<1>1. /\ Len(s) \in Nat /\ DOMAIN s = 1..Len(s) /\ DOMAIN Append(s, x) = 1..(Len(s) + 1)
      /\ \A i \in 1..Len(s) : Append(s, x)[i] = s[i]
      /\ Append(s, x)[Len(s) + 1] = x
  BY AppendProperties, LenProperties
<1>2. IsFiniteSet(A) /\ Cardinality(A) \in Nat
  BY CountFinite, FS_CardinalityType
<1>3. CASE x = c
  <2>1. B = A \cup {Len(s) + 1} /\ Len(s) + 1 \notin A
    BY <1>1, <1>3
  <2>2. Cardinality(A \cup {Len(s) + 1}) = Cardinality(A) + 1
    BY <1>2, <2>1, FS_AddElement
  <2> QED BY <1>3, <2>1, <2>2 DEF CountIn
<1>4. CASE x # c
  <2>1. B = A
    BY <1>1, <1>4
  <2>2. CountIn(Append(s, x), c) = CountIn(s, c) /\ CountIn(s, c) \in Nat
    BY <1>2, <2>1 DEF CountIn
  <2> QED BY <1>4, <2>2
<1> QED BY <1>3, <1>4

LEMMA CountConcatOther ==
  ASSUME NEW S, NEW s \in Seq(S), NEW u \in Seq(S), NEW c, \A j \in DOMAIN u : u[j] # c
  PROVE  CountIn(s \o u, c) = CountIn(s, c)
<1>1. /\ Len(s) \in Nat /\ Len(u) \in Nat /\ DOMAIN s = 1..Len(s) /\ DOMAIN u = 1..Len(u)
      /\ DOMAIN (s \o u) = 1..(Len(s) + Len(u))
  BY ConcatProperties, LenProperties
<1>2. \A i \in 1..(Len(s) + Len(u)) : (s \o u)[i] = IF i <= Len(s) THEN s[i] ELSE u[i - Len(s)]
  BY ConcatProperties
<1>3. {i \in DOMAIN (s \o u) : (s \o u)[i] = c} = {i \in DOMAIN s : s[i] = c}
  <2>1. ASSUME NEW i \in DOMAIN (s \o u), (s \o u)[i] = c
        PROVE  i \in DOMAIN s /\ s[i] = c
    <3>1. CASE i <= Len(s)
      BY <1>1, <1>2, <2>1, <3>1
    <3>2. CASE ~(i <= Len(s))
      <4>1. i - Len(s) \in DOMAIN u
        BY <1>1, <3>2
      <4> QED BY <1>1, <1>2, <2>1, <3>2, <4>1
    <3> QED BY <3>1, <3>2
  <2>2. ASSUME NEW i \in DOMAIN s, s[i] = c
        PROVE  i \in DOMAIN (s \o u) /\ (s \o u)[i] = c
    BY <1>1, <1>2, <2>2
  <2> QED BY <2>1, <2>2
<1> QED BY <1>3 DEF CountIn

-----------------------------------------------------------------------------
(* The connection loop and the listener. *)

LoopPCs == {"new", "test", "announce", "attempt", "connected", "ended"}
AttemptCallbacks == {"onMaxRetryLimitReached", "onPreConnectionAttempt", "onConnectionFailure",
                     "onConnectionEstablished", "onConnectionTerminated"}
LoopCallbacks == KeyCallbacks \cup AttemptCallbacks
ListenCallbacks == KeyCallbacks \cup {"onListeningFailed", "onListeningSuccess",
                                      "onClientConnected", "onClientDisconnected"}

ConnectorTypes ==
  /\ looppc \in LoopPCs
  /\ retries \in Nat
  /\ m_stopReconnecting \in BOOLEAN
  /\ stopSeen \in Nat
  /\ loopCalls \in Seq(LoopCallbacks)
  /\ listenCalls \in Seq(ListenCallbacks)
  /\ listenpc = "listening" => listenCalls # <<>>

(* An attempt that was decided on is within the limit. *)
AttemptWithinLimit == looppc \in {"announce", "attempt"} => retries # MaxRetries

(* A key that could not be loaded, or a limit that was reported, is the end. *)
LoopGoesOn ==
  looppc # "ended" => /\ \A i \in DOMAIN loopCalls : loopCalls[i] \notin KeyCallbacks
                      /\ Count("onMaxRetryLimitReached") = 0

(* The attempt that a stop request did not prevent is not followed by another. *)
LateAttemptIsLast ==
  stopSeen > 0 => m_stopReconnecting /\ looppc \in {"test", "attempt", "connected", "ended"}

ConnectorInv ==
  ConnectorTypes /\ AttemptWithinLimit /\ LoopGoesOn /\ LateAttemptIsLast /\ ConnectorObeys

LEMMA KeyFailuresAreCallbacks == KeyFailures \subseteq Seq(KeyCallbacks)
<1> SUFFICES ASSUME NEW f \in KeyFailures PROVE f \in Seq(KeyCallbacks)
  OBVIOUS
<1>0. PICK loaded \in [KeyCallbacks -> BOOLEAN] :
        f = KeyResult(loaded, "onInvalidCACertificate") \o KeyResult(loaded, "onInvalidPrivateKey")
              \o KeyResult(loaded, "onInvalidClientCertificate")
  BY DEF KeyFailures
<1>1. \A c \in KeyCallbacks : KeyResult(loaded, c) \in Seq(KeyCallbacks)
  BY EmptySeq DEF KeyResult
<1>2. /\ KeyResult(loaded, "onInvalidCACertificate") \in Seq(KeyCallbacks)
      /\ KeyResult(loaded, "onInvalidPrivateKey") \in Seq(KeyCallbacks)
      /\ KeyResult(loaded, "onInvalidClientCertificate") \in Seq(KeyCallbacks)
  BY <1>1 DEF KeyCallbacks
<1> QED BY <1>0, <1>2, ConcatProperties

LEMMA ConnectorInvInit == ConnectorInit => ConnectorInv
<1> SUFFICES ASSUME ConnectorInit PROVE ConnectorInv
  OBVIOUS
<1>1. \A c : CountIn(<<>>, c) = 0
  <2>1. DOMAIN <<>> = {}
    OBVIOUS
  <2>2. \A c : {i \in DOMAIN <<>> : <<>>[i] = c} = {}
    BY <2>1
  <2> QED BY <2>2, FS_EmptySet DEF CountIn
<1>2. \A c : Count(c) = 0
  BY <1>1 DEF Count, ConnectorInit
<1>3. DOMAIN loopCalls = {}
  BY DEF ConnectorInit
<1>4. ConnectorTypes
  BY EmptySeq DEF ConnectorInit, ConnectorTypes, LoopPCs
<1>5. AttemptWithinLimit /\ LateAttemptIsLast /\ StopIsObeyed /\ ListensWithKeys
  BY DEF ConnectorInit, AttemptWithinLimit, LateAttemptIsLast, StopIsObeyed, ListensWithKeys
<1>6. LoopGoesOn
  BY <1>2, <1>3 DEF LoopGoesOn
<1>7. AttemptsAccounted
  BY <1>2, <1>3, ConnectorAssumption DEF AttemptsAccounted, ConnectorInit
<1> QED BY <1>4, <1>5, <1>6, <1>7 DEF ConnectorInv, ConnectorObeys

(* What one more callback does to the counts. *)
LEMMA OneMoreCall ==
  ASSUME ConnectorTypes, NEW x \in AttemptCallbacks, loopCalls' = Append(loopCalls, x)
  PROVE  /\ loopCalls' \in Seq(LoopCallbacks)
         /\ \A c : Count(c) \in Nat /\ Count(c)' = Count(c) + (IF x = c THEN 1 ELSE 0)
         /\ (\E i \in DOMAIN loopCalls' : loopCalls'[i] \in KeyCallbacks)
              <=> (\E i \in DOMAIN loopCalls : loopCalls[i] \in KeyCallbacks)
<1>1. x \in LoopCallbacks /\ x \notin KeyCallbacks
  BY DEF LoopCallbacks, KeyCallbacks, AttemptCallbacks
<1>2. loopCalls' \in Seq(LoopCallbacks)
  BY <1>1, AppendProperties DEF ConnectorTypes
<1>3. \A c : CountIn(loopCalls, c) \in Nat
  BY CountFinite DEF ConnectorTypes
<1>4. \A c : CountIn(Append(loopCalls, x), c) = CountIn(loopCalls, c) + (IF x = c THEN 1 ELSE 0)
  BY <1>1, CountAppend DEF ConnectorTypes
<1>5. /\ Len(loopCalls) \in Nat /\ DOMAIN loopCalls = 1..Len(loopCalls)
      /\ DOMAIN loopCalls' = 1..(Len(loopCalls) + 1)
      /\ \A i \in 1..Len(loopCalls) : loopCalls'[i] = loopCalls[i]
      /\ loopCalls'[Len(loopCalls) + 1] = x
  BY <1>1, AppendProperties, LenProperties DEF ConnectorTypes
<1>6. (\E i \in DOMAIN loopCalls' : loopCalls'[i] \in KeyCallbacks)
        <=> (\E i \in DOMAIN loopCalls : loopCalls[i] \in KeyCallbacks)
  BY <1>1, <1>5
<1> QED BY <1>2, <1>3, <1>4, <1>6 DEF Count

LEMMA LoopStepKeeps ==
  ASSUME ConnectorInv, LoopStep
  PROVE  ConnectorInv'
<1> USE ConnectorAssumption DEF ConnectorInv, ConnectorObeys
<1>0. UNCHANGED listenerVars
  BY DEF LoopStep, LoopStart, LoopTest, LoopAnnounce, LoopAttempt, LoopConnectionEnds
<1>1. ListensWithKeys' /\ listenCalls' \in Seq(ListenCallbacks)
      /\ (listenpc' = "listening" => listenCalls' # <<>>)
  BY <1>0 DEF listenerVars, ListensWithKeys, ConnectorTypes
<1>2. \A c : Count(c) \in Nat
  BY CountFinite DEF Count, ConnectorTypes
<1>3. CASE LoopStart
  <2>1. UNCHANGED loopCalls
    BY <1>3 DEF LoopStart
  <2>2. \A c : Count(c)' = Count(c)
    BY <2>1 DEF Count
  <2> QED BY <1>1, <1>3, <2>1, <2>2 DEF LoopStart, ConnectorTypes, LoopPCs, AttemptWithinLimit,
         LoopGoesOn, LateAttemptIsLast, AttemptsAccounted, StopIsObeyed
<1>4. CASE LoopTest /\ ~GiveUp
  <2>1. UNCHANGED loopCalls
    BY <1>4 DEF LoopTest
  <2>2. \A c : Count(c)' = Count(c)
    BY <2>1 DEF Count
  <2> QED BY <1>1, <1>4, <2>1, <2>2 DEF LoopTest, GiveUp, ConnectorTypes, LoopPCs,
         AttemptWithinLimit, LoopGoesOn, LateAttemptIsLast, AttemptsAccounted, StopIsObeyed
<1>5. CASE LoopTest /\ GiveUp
  <2>1. /\ looppc = "test" /\ looppc' = "ended"
        /\ loopCalls' = Append(loopCalls, "onMaxRetryLimitReached")
        /\ UNCHANGED <<retries, m_stopReconnecting, stopsLost, stopSeen>>
    BY <1>5 DEF LoopTest
  <2>2. /\ loopCalls' \in Seq(LoopCallbacks)
        /\ \A c : Count(c)' = Count(c) + (IF "onMaxRetryLimitReached" = c THEN 1 ELSE 0)
        /\ (\E i \in DOMAIN loopCalls' : loopCalls'[i] \in KeyCallbacks)
              <=> (\E i \in DOMAIN loopCalls : loopCalls[i] \in KeyCallbacks)
    BY <2>1, OneMoreCall DEF AttemptCallbacks
  <2>3. AttemptsAccounted'
    BY <1>2, <1>5, <2>1, <2>2 DEF AttemptsAccounted, LoopGoesOn, GiveUp
  <2> QED BY <1>1, <2>1, <2>2, <2>3 DEF ConnectorTypes, LoopPCs, AttemptWithinLimit, LoopGoesOn,
         LateAttemptIsLast, StopIsObeyed
<1>6. CASE LoopAnnounce
  <2>1. /\ looppc = "announce" /\ looppc' = "attempt"
        /\ loopCalls' = Append(loopCalls, "onPreConnectionAttempt")
        /\ stopSeen' = IF m_stopReconnecting THEN stopSeen + 1 ELSE stopSeen
        /\ UNCHANGED <<retries, m_stopReconnecting, stopsLost>>
    BY <1>6 DEF LoopAnnounce
  <2>2. /\ loopCalls' \in Seq(LoopCallbacks)
        /\ \A c : Count(c)' = Count(c) + (IF "onPreConnectionAttempt" = c THEN 1 ELSE 0)
        /\ (\E i \in DOMAIN loopCalls' : loopCalls'[i] \in KeyCallbacks)
              <=> (\E i \in DOMAIN loopCalls : loopCalls[i] \in KeyCallbacks)
    BY <2>1, OneMoreCall DEF AttemptCallbacks
  <2>3. AttemptsAccounted' /\ LoopGoesOn'
    BY <1>2, <2>1, <2>2 DEF AttemptsAccounted, LoopGoesOn
  <2>4. stopSeen = 0
    BY <2>1 DEF LateAttemptIsLast, ConnectorTypes
  <2> QED BY <1>1, <2>1, <2>2, <2>3, <2>4 DEF ConnectorTypes, LoopPCs, AttemptWithinLimit,
         LateAttemptIsLast, StopIsObeyed
<1>7. CASE LoopAttempt
  <2>0. looppc = "attempt" /\ UNCHANGED <<m_stopReconnecting, stopsLost, stopSeen>>
    BY <1>7 DEF LoopAttempt
  <2>1. PICK failures \in KeyFailures :
          IF failures # <<>>
          THEN /\ loopCalls' = loopCalls \o failures
               /\ looppc' = "ended" /\ UNCHANGED retries
          ELSE \/ /\ retries' = FailedAttempts
                  /\ loopCalls' = Append(loopCalls, "onConnectionFailure")
                  /\ looppc' \in {"test", "ended"}
               \/ /\ loopCalls' = Append(loopCalls, "onConnectionEstablished")
                  /\ looppc' = "connected" /\ UNCHANGED retries
    BY <1>7 DEF LoopAttempt
  <2>2. CASE failures # <<>>
    <3>1. failures \in Seq(KeyCallbacks) /\ failures \in Seq(LoopCallbacks)
      BY KeyFailuresAreCallbacks, SeqMonotonic DEF LoopCallbacks
    <3>2. \A c \in AttemptCallbacks : \A j \in DOMAIN failures : failures[j] # c
      BY <3>1, LenProperties DEF KeyCallbacks, AttemptCallbacks
    <3>3. \A c \in AttemptCallbacks : CountIn(loopCalls \o failures, c) = CountIn(loopCalls, c)
      BY <3>1, <3>2, CountConcatOther DEF ConnectorTypes
    <3>4. \A c \in AttemptCallbacks : Count(c)' = Count(c)
      BY <2>1, <2>2, <3>3 DEF Count
    <3>5. loopCalls' \in Seq(LoopCallbacks)
      BY <2>1, <2>2, <3>1, ConcatProperties DEF ConnectorTypes
    <3>6. \E i \in DOMAIN loopCalls' : loopCalls'[i] \in KeyCallbacks
      <4>1. /\ Len(loopCalls) \in Nat /\ Len(failures) \in Nat /\ Len(failures) > 0
            /\ failures[1] \in KeyCallbacks
        <5>1. Len(loopCalls) \in Nat /\ Len(failures) \in Nat
          BY <3>1, LenProperties DEF ConnectorTypes
        <5>2. Len(failures) # 0
          BY <2>2, <3>1, EmptySeq
        <5>3. failures[1] \in KeyCallbacks
          BY <3>1, <5>1, <5>2, ElementOfSeq
        <5> QED BY <5>1, <5>2, <5>3
      <4>2. /\ DOMAIN loopCalls' = 1..(Len(loopCalls) + Len(failures))
            /\ loopCalls'[Len(loopCalls) + 1] = failures[1]
        BY <2>1, <2>2, <3>1, <4>1, ConcatProperties, LenProperties DEF ConnectorTypes
      <4> QED BY <4>1, <4>2
    <3>7. AttemptsAccounted'
      BY <1>2, <2>0, <2>1, <2>2, <3>4, <3>6 DEF AttemptsAccounted, LoopGoesOn, AttemptCallbacks
    <3> QED BY <1>1, <2>0, <2>1, <2>2, <3>5, <3>7 DEF ConnectorTypes, LoopPCs, AttemptWithinLimit,
           LoopGoesOn, LateAttemptIsLast, StopIsObeyed
  <2>3. CASE loopCalls' = Append(loopCalls, "onConnectionFailure")
             /\ retries' = FailedAttempts /\ looppc' \in {"test", "ended"}
    <3>1. /\ loopCalls' \in Seq(LoopCallbacks)
          /\ \A c : Count(c)' = Count(c) + (IF "onConnectionFailure" = c THEN 1 ELSE 0)
          /\ (\E i \in DOMAIN loopCalls' : loopCalls'[i] \in KeyCallbacks)
              <=> (\E i \in DOMAIN loopCalls : loopCalls[i] \in KeyCallbacks)
      BY <2>3, OneMoreCall DEF AttemptCallbacks
    <3>2. retries' = retries + 1 /\ retries' <= MaxRetries
      BY <2>0, <2>3 DEF FailedAttempts, AttemptWithinLimit, AttemptsAccounted, ConnectorTypes
    <3>3. AttemptsAccounted' /\ LoopGoesOn'
      <4>1. LoopGoesOn'
        BY <2>0, <2>3, <3>1 DEF LoopGoesOn
      <4>2. /\ Count("onConnectionFailure")' = Count("onConnectionFailure") + 1
            /\ Count("onPreConnectionAttempt")' = Count("onPreConnectionAttempt")
            /\ Count("onConnectionEstablished")' = Count("onConnectionEstablished")
            /\ Count("onMaxRetryLimitReached")' = 0
        BY <1>2, <2>0, <3>1 DEF LoopGoesOn
      <4>3. ~\E i \in DOMAIN loopCalls' : loopCalls'[i] \in KeyCallbacks
        BY <2>0, <3>1 DEF LoopGoesOn
      <4>4. AttemptsAccounted'
        BY <1>2, <2>0, <2>3, <3>2, <4>2, <4>3 DEF AttemptsAccounted
      <4> QED BY <4>1, <4>4
    <3> QED BY <1>1, <2>0, <2>3, <3>1, <3>2, <3>3 DEF ConnectorTypes, LoopPCs,
           AttemptWithinLimit, LateAttemptIsLast, StopIsObeyed
  <2>4. CASE loopCalls' = Append(loopCalls, "onConnectionEstablished")
             /\ looppc' = "connected" /\ UNCHANGED retries
    <3>1. /\ loopCalls' \in Seq(LoopCallbacks)
          /\ \A c : Count(c)' = Count(c) + (IF "onConnectionEstablished" = c THEN 1 ELSE 0)
          /\ (\E i \in DOMAIN loopCalls' : loopCalls'[i] \in KeyCallbacks)
              <=> (\E i \in DOMAIN loopCalls : loopCalls[i] \in KeyCallbacks)
      BY <2>4, OneMoreCall DEF AttemptCallbacks
    <3>2. AttemptsAccounted' /\ LoopGoesOn'
      BY <1>2, <2>0, <2>4, <3>1 DEF AttemptsAccounted, LoopGoesOn
    <3> QED BY <1>1, <2>0, <2>4, <3>1, <3>2 DEF ConnectorTypes, LoopPCs,
           AttemptWithinLimit, LateAttemptIsLast, StopIsObeyed
  <2> QED BY <2>1, <2>2, <2>3, <2>4
<1>8. CASE LoopConnectionEnds
  <2>1. /\ looppc = "connected" /\ looppc' = "ended"
        /\ loopCalls' = Append(loopCalls, "onConnectionTerminated")
        /\ UNCHANGED <<retries, m_stopReconnecting, stopsLost, stopSeen>>
    BY <1>8 DEF LoopConnectionEnds
  <2>2. /\ loopCalls' \in Seq(LoopCallbacks)
        /\ \A c : Count(c)' = Count(c) + (IF "onConnectionTerminated" = c THEN 1 ELSE 0)
        /\ (\E i \in DOMAIN loopCalls' : loopCalls'[i] \in KeyCallbacks)
              <=> (\E i \in DOMAIN loopCalls : loopCalls[i] \in KeyCallbacks)
    BY <2>1, OneMoreCall DEF AttemptCallbacks
  <2>3. AttemptsAccounted'
    BY <1>2, <2>1, <2>2 DEF AttemptsAccounted, LoopGoesOn
  <2> QED BY <1>1, <2>1, <2>2, <2>3 DEF ConnectorTypes, LoopPCs, AttemptWithinLimit, LoopGoesOn,
         LateAttemptIsLast, StopIsObeyed
<1> QED BY <1>3, <1>4, <1>5, <1>6, <1>7, <1>8 DEF LoopStep

LEMMA ConnectorInvStep ==
  ConnectorInv /\ [ConnectorNext]_<<connectorVars, listenerVars>> => ConnectorInv'
<1> SUFFICES ASSUME ConnectorInv, [ConnectorNext]_<<connectorVars, listenerVars>>
             PROVE  ConnectorInv'
  OBVIOUS
<1> USE DEF ConnectorInv, ConnectorObeys
<1>1. CASE LoopStep
  BY <1>1, LoopStepKeeps
<1>2. CASE StopReconnecting
  <2>1. /\ looppc # "ended" /\ m_stopReconnecting' = TRUE
        /\ UNCHANGED <<looppc, retries, stopSeen, loopCalls, listenpc, listenCalls>>
    BY <1>2 DEF StopReconnecting, listenerVars
  <2>2. \A c : Count(c)' = Count(c)
    BY <2>1 DEF Count
  <2>3. Count("onMaxRetryLimitReached") = 0
    BY <2>1 DEF LoopGoesOn
  <2> QED BY <2>1, <2>2, <2>3 DEF ConnectorTypes, AttemptWithinLimit, LoopGoesOn,
         LateAttemptIsLast, AttemptsAccounted, StopIsObeyed, ListensWithKeys
<1>3. CASE StartListening \/ IncomingConnection \/ ClientConnectionEnds
           \/ UNCHANGED <<connectorVars, listenerVars>>
  <2>1. UNCHANGED connectorVars
    BY <1>3 DEF StartListening, IncomingConnection, ClientConnectionEnds
  <2>2. \A c : Count(c)' = Count(c)
    BY <2>1 DEF Count, connectorVars
  <2>3. /\ listenCalls' \in Seq(ListenCallbacks)
        /\ listenpc' = "listening" => listenCalls' # <<>> /\ listenCalls'[1] = "onListeningSuccess"
    <3>1. CASE StartListening
      <4>1. PICK failures \in KeyFailures, listening \in BOOLEAN :
              IF ListenRefused(failures, listening)
              THEN listenpc' = "failed" /\ listenCalls' = Append(failures, "onListeningFailed")
              ELSE listenpc' = "listening" /\ listenCalls' = Append(failures, "onListeningSuccess")
        BY <3>1 DEF StartListening
      <4>2. failures \in Seq(ListenCallbacks)
        BY KeyFailuresAreCallbacks, SeqMonotonic DEF ListenCallbacks
      <4>3. CASE ListenRefused(failures, listening)
        BY <4>1, <4>2, <4>3, AppendProperties DEF ListenCallbacks
      <4>4. CASE ~ListenRefused(failures, listening)
        <5>1. failures = <<>>
          BY <4>4 DEF ListenRefused
        <5>2. listenCalls' = <<"onListeningSuccess">> /\ "onListeningSuccess" \in ListenCallbacks
          BY <4>1, <4>4, <5>1 DEF ListenCallbacks
        <5> QED BY <5>2
      <4> QED BY <4>3, <4>4
    <3>2. ASSUME NEW x \in ListenCallbacks, listenCalls' = Append(listenCalls, x), UNCHANGED listenpc
          PROVE  /\ listenCalls' \in Seq(ListenCallbacks)
                 /\ listenpc' = "listening" =>
                      listenCalls' # <<>> /\ listenCalls'[1] = "onListeningSuccess"
      <4>1. /\ listenCalls' \in Seq(ListenCallbacks) /\ listenCalls' # <<>>
            /\ \A i \in 1..Len(listenCalls) : listenCalls'[i] = listenCalls[i]
        BY <3>2, AppendProperties DEF ConnectorTypes
      <4>2. listenpc = "listening" => 1 \in 1..Len(listenCalls)
        BY LenProperties, EmptySeq DEF ConnectorTypes
      <4> QED BY <3>2, <4>1, <4>2 DEF ListensWithKeys
    <3>3. CASE IncomingConnection \/ ClientConnectionEnds
      BY <3>2, <3>3 DEF IncomingConnection, ClientConnectionEnds, ListenCallbacks
    <3>4. CASE UNCHANGED <<connectorVars, listenerVars>>
      BY <3>4 DEF listenerVars, ConnectorTypes, ListensWithKeys
    <3> QED BY <1>3, <3>1, <3>3, <3>4
  <2> QED BY <2>1, <2>2, <2>3 DEF connectorVars, ConnectorTypes, AttemptWithinLimit, LoopGoesOn,
         LateAttemptIsLast, AttemptsAccounted, GiveUp, StopIsObeyed, ListensWithKeys
<1> QED BY <1>1, <1>2, <1>3 DEF ConnectorNext

(* ConnectorObeys, for any retry limit, with or without TLS: the callbacks
   account for the attempts, a stop request lets at most one more attempt begin,
   and clients are served only after a successful listen. *)
THEOREM ConnectorLoopObeys == ConnectorSpec => []ConnectorObeys
<1>1. ConnectorInv => ConnectorObeys
  BY DEF ConnectorInv
<1> QED BY <1>1, ConnectorInvInit, ConnectorInvStep, PTL DEF ConnectorSpec
-----------------------------------------------------------------------------
(* The bridge. *)

BlockNames == (UNION {Range(BIncoming[d]) : d \in BSides}) \cup {NoBlock}
Entries == {"size", "data", "ping"} \X BlockNames

LEMMA UpToFinite ==
  ASSUME NEW x, NEW n \in Nat
  PROVE  /\ IsFiniteSet(BlocksUpTo(x, n)) /\ Cardinality(BlocksUpTo(x, n)) \in Nat
         /\ IsFiniteSet(DataUpTo(x, n)) /\ Cardinality(DataUpTo(x, n)) \in Nat
<1>1. IsFiniteSet(1..n)
  BY FS_Interval
<1>2. IsFiniteSet(BlocksUpTo(x, n)) /\ IsFiniteSet(DataUpTo(x, n))
  BY <1>1, FS_Subset DEF BlocksUpTo, DataUpTo
<1> QED BY <1>2, FS_CardinalityType

(* One position further in what was sent. *)
LEMMA NextBlock ==
  ASSUME NEW in, NEW n \in Nat
  PROVE  Cardinality(BlocksUpTo(in, n + 1)) =
           IF in[n + 1] = "ping" THEN Cardinality(BlocksUpTo(in, n))
                                 ELSE Cardinality(BlocksUpTo(in, n)) + 1
<1>1. CASE in[n + 1] = "ping"
  <2>1. BlocksUpTo(in, n + 1) = BlocksUpTo(in, n)
    BY <1>1 DEF BlocksUpTo
  <2> QED BY <1>1, <2>1
<1>2. CASE in[n + 1] # "ping"
  <2>1. BlocksUpTo(in, n + 1) = BlocksUpTo(in, n) \cup {n + 1} /\ n + 1 \notin BlocksUpTo(in, n)
    BY <1>2 DEF BlocksUpTo
  <2>2. Cardinality(BlocksUpTo(in, n) \cup {n + 1}) = Cardinality(BlocksUpTo(in, n)) + 1
    BY <2>1, UpToFinite, FS_AddElement
  <2> QED BY <1>2, <2>1, <2>2
<1> QED BY <1>1, <1>2

(* What an Append leaves of the positions before it. *)
LEMMA AppendKeepsOrder ==
  ASSUME NEW out \in Seq(Entries), NEW e \in Entries, NEW in
  PROVE  LET new == Append(out, e)
         IN /\ new \in Seq(Entries) /\ Len(out) \in Nat /\ Len(new) = Len(out) + 1
            /\ \A i \in 1..Len(out) : new[i] = out[i] /\ DataUpTo(new, i) = DataUpTo(out, i)
            /\ DataUpTo(new, Len(out)) = DataUpTo(out, Len(out))
            /\ new[Len(out) + 1] = e
<1>1. /\ Append(out, e) \in Seq(Entries) /\ Len(out) \in Nat /\ Len(Append(out, e)) = Len(out) + 1
      /\ \A i \in 1..Len(out) : Append(out, e)[i] = out[i]
      /\ Append(out, e)[Len(out) + 1] = e
  BY AppendProperties, LenProperties
<1>2. \A i \in 0..Len(out) : DataUpTo(Append(out, e), i) = DataUpTo(out, i)
  BY <1>1 DEF DataUpTo
<1> QED BY <1>1, <1>2

LEMMA AppendOther ==
  ASSUME NEW out \in Seq(Entries), NEW e \in Entries, NEW in, e[1] # "data"
  PROVE  LET new == Append(out, e)
         IN /\ Cardinality(DataUpTo(new, Len(new))) = Cardinality(DataUpTo(out, Len(out)))
            /\ InOrder(out, in) => InOrder(new, in)
<1>1. PICK new : new = Append(out, e)
  OBVIOUS
<1>2. /\ Len(out) \in Nat /\ Len(new) = Len(out) + 1 /\ new[Len(out) + 1] = e
      /\ \A i \in 1..Len(out) : new[i] = out[i] /\ DataUpTo(new, i) = DataUpTo(out, i)
      /\ DataUpTo(new, Len(out)) = DataUpTo(out, Len(out))
  BY <1>1, AppendKeepsOrder
<1>3. DataUpTo(new, Len(out) + 1) = DataUpTo(new, Len(out))
  BY <1>2 DEF DataUpTo
<1>4. ASSUME InOrder(out, in) PROVE InOrder(new, in)
  BY <1>2, <1>4 DEF InOrder
<1> QED BY <1>1, <1>2, <1>3, <1>4

(* The block that is written next is the next one that was sent. *)
LEMMA AppendData ==
  ASSUME NEW out \in Seq(Entries), NEW e \in Entries, NEW in, NEW j \in 1..Len(in), e[1] = "data",
         in[j] # "ping", in[j] = e[2],
         Cardinality(BlocksUpTo(in, j)) = Cardinality(DataUpTo(out, Len(out))) + 1
  PROVE  LET new == Append(out, e)
         IN /\ Cardinality(DataUpTo(new, Len(new))) = Cardinality(DataUpTo(out, Len(out))) + 1
            /\ InOrder(out, in) => InOrder(new, in)
<1>1. PICK new : new = Append(out, e)
  OBVIOUS
<1>2. /\ Len(out) \in Nat /\ Len(new) = Len(out) + 1 /\ new[Len(out) + 1] = e
      /\ \A i \in 1..Len(out) : new[i] = out[i] /\ DataUpTo(new, i) = DataUpTo(out, i)
      /\ DataUpTo(new, Len(out)) = DataUpTo(out, Len(out))
  BY <1>1, AppendKeepsOrder
<1>3. /\ DataUpTo(new, Len(out) + 1) = DataUpTo(out, Len(out)) \cup {Len(out) + 1}
      /\ Len(out) + 1 \notin DataUpTo(out, Len(out))
  <2>1. DataUpTo(new, Len(out) + 1) = DataUpTo(new, Len(out)) \cup {Len(out) + 1}
    BY <1>2 DEF DataUpTo
  <2>2. Len(out) + 1 \notin DataUpTo(out, Len(out))
    BY <1>2 DEF DataUpTo
  <2> QED BY <1>2, <2>1, <2>2
<1>4. Cardinality(DataUpTo(out, Len(out)) \cup {Len(out) + 1})
        = Cardinality(DataUpTo(out, Len(out))) + 1
  BY <1>2, <1>3, UpToFinite, FS_AddElement
<1>5. Cardinality(DataUpTo(new, Len(new))) = Cardinality(DataUpTo(out, Len(out))) + 1
  BY <1>2, <1>3, <1>4
<1>6. ASSUME InOrder(out, in) PROVE InOrder(new, in)
  <2> SUFFICES ASSUME NEW i \in 1..Len(new), new[i][1] = "data"
               PROVE  \E k \in 1..Len(in) :
                        /\ in[k] # "ping" /\ in[k] = new[i][2]
                        /\ Cardinality(BlocksUpTo(in, k)) = Cardinality(DataUpTo(new, i))
    BY DEF InOrder
  <2>1. CASE i \in 1..Len(out)
    BY <1>2, <1>6, <2>1 DEF InOrder
  <2>2. CASE i = Len(out) + 1
    BY <1>2, <1>5, <2>2
  <2> QED BY <1>2, <2>1, <2>2
<1> QED BY <1>1, <1>5, <1>6

\* How many of the peer's messages the bridge has read, how many blocks it wrote.
Consumed(s) == Len(BIncoming[s]) - Len(bin[s])
Delivered(d) == Cardinality(DataUpTo(bout[d], Len(bout[d])))
LastOut == bout["FORWARD"][Len(bout["FORWARD"])]

BridgeTypes ==
  /\ bsock \in [BSides -> {"open", "broken", "shut"}]
  /\ bpump \in [BSides -> {"read", "write", "data", "ended"}]
  /\ bblock \in [BSides -> BlockNames]
  /\ bin \in [BSides -> Seq(BlockNames)]
  /\ bout \in [BSides -> Seq(Entries)]

(* What is still to be read is the end of what was sent. *)
UnreadIsRest ==
  \A s \in BSides : /\ Len(bin[s]) <= Len(BIncoming[s])
                    /\ \A i \in 1..Len(bin[s]) : bin[s][i] = BIncoming[s][Consumed(s) + i]

(* A thread that reads has written every block it read; one that writes has the
   last block it read in hand, and no other. *)
BlockInHand ==
  \A d \in BSides : \A s \in BSides : s = Opposite(d) =>
    /\ bpump[d] = "read" => Cardinality(BlocksUpTo(BIncoming[s], Consumed(s))) = Delivered(d)
    /\ bpump[d] \in {"write", "data"} =>
         /\ Consumed(s) >= 1
         /\ BIncoming[s][Consumed(s)] = bblock[d] /\ BIncoming[s][Consumed(s)] # "ping"
         /\ Cardinality(BlocksUpTo(BIncoming[s], Consumed(s))) = Delivered(d) + 1

(* Between the size and the data of a chunk the forward thread has the lock; a
   size with no data behind it is the last thing a broken socket took. *)
SizeBeforeData ==
  /\ bpump["BACKWARD"] # "data"
  /\ bpump["FORWARD"] = "data" =>
       /\ BChunked /\ fwdLock = "pump"
       /\ bout["FORWARD"] # <<>> /\ LastOut = <<"size", bblock["FORWARD"]>>
  /\ BChunked /\ bout["FORWARD"] # <<>> /\ LastOut[1] = "size" =>
       bpump["FORWARD"] = "data" \/ bsock["FORWARD"] # "open"

BridgeInv == BridgeTypes /\ UnreadIsRest /\ BlockInHand /\ SizeBeforeData /\ BridgeDelivers

LEMMA IncomingIsSeq ==
  /\ \A d \in BSides : BIncoming[d] \in Seq(BlockNames) /\ Opposite(d) \in BSides
  /\ BIncoming \in [BSides -> Seq(BlockNames)]
<1>1. ASSUME NEW d \in BSides PROVE BIncoming[d] \in Seq(BlockNames)
  <2>1. BIncoming[d] \in Seq(Range(BIncoming[d])) /\ Range(BIncoming[d]) \subseteq BlockNames
    BY BridgeAssumption DEF BlockNames
  <2> QED BY <2>1
<1> QED BY <1>1, BridgeAssumption DEF Opposite, BSides

LEMMA BridgeInvInit == BridgeInit => BridgeInv
<1> SUFFICES ASSUME BridgeInit PROVE BridgeInv
  OBVIOUS
<1>1. \A s \in BSides : bin[s] = BIncoming[s] /\ Len(BIncoming[s]) \in Nat /\ Consumed(s) = 0
  BY IncomingIsSeq, LenProperties DEF BridgeInit, Consumed
<1>2. \A d \in BSides : bout[d] = <<>> /\ Len(bout[d]) = 0
  BY DEF BridgeInit
<1>3. BridgeTypes
  <2>1. NoBlock \in BlockNames
    BY DEF BlockNames
  <2> QED BY <2>1, IncomingIsSeq DEF BridgeInit, BridgeTypes
<1>4. UnreadIsRest
  BY <1>1 DEF UnreadIsRest
<1>5. BlockInHand
  <2>1. \A x : BlocksUpTo(x, 0) = {} /\ DataUpTo(x, 0) = {}
    BY DEF BlocksUpTo, DataUpTo
  <2>2. \A d \in BSides : bpump[d] = "read" /\ Delivered(d) = Cardinality({})
    BY <1>2, <2>1 DEF BridgeInit, Delivered
  <2> QED BY <1>1, <2>1, <2>2 DEF BlockInHand
<1>6. SizeBeforeData
  BY <1>2 DEF SizeBeforeData, BridgeInit, BSides
<1>7. BridgeDelivers
  BY <1>2 DEF BridgeDelivers, BridgeInOrder, InOrder, ChunksWellFormed, BSides
<1> QED BY <1>3, <1>4, <1>5, <1>6, <1>7 DEF BridgeInv

(* A step that moves no data: threads end, sockets break or are shut. *)
LEMMA BridgeIdleKeeps ==
  ASSUME BridgeInv, UNCHANGED <<bin, bout, bblock>>,
         bsock' \in [BSides -> {"open", "broken", "shut"}],
         bpump' \in [BSides -> {"read", "write", "data", "ended"}],
         \A d \in BSides : bpump'[d] \in {bpump[d], "ended"},
         \A d \in BSides : bsock[d] # "open" => bsock'[d] # "open",
         bpump'["FORWARD"] = "data" => UNCHANGED fwdLock,
         bpump["FORWARD"] = "data" /\ bpump'["FORWARD"] = "ended" => bsock["FORWARD"] # "open"
  PROVE  BridgeInv'
<1>1. BridgeTypes' /\ UnreadIsRest' /\ BridgeDelivers'
  BY DEF BridgeInv, BridgeTypes, UnreadIsRest, BridgeDelivers, BridgeInOrder, ChunksWellFormed, Consumed
<1>2. \A d \in BSides : Consumed(d)' = Consumed(d) /\ Delivered(d)' = Delivered(d)
  BY DEF Consumed, Delivered
<1>3. BlockInHand'
  BY <1>2 DEF BridgeInv, BlockInHand
<1>4. SizeBeforeData'
  BY DEF BridgeInv, BridgeTypes, SizeBeforeData, LastOut, BSides
<1> QED BY <1>1, <1>3, <1>4 DEF BridgeInv

(* Reading takes the next message of what was sent. *)
LEMMA ReadTakesNext ==
  ASSUME BridgeInv, NEW s \in BSides, bin[s] # <<>>, bin' = [bin EXCEPT ![s] = Tail(@)]
  PROVE  /\ bin' \in [BSides -> Seq(BlockNames)] /\ UnreadIsRest'
         /\ Consumed(s) \in Nat /\ Consumed(s)' = Consumed(s) + 1
         /\ Head(bin[s]) = BIncoming[s][Consumed(s) + 1] /\ Head(bin[s]) \in BlockNames
         /\ \A t \in BSides : t # s => Consumed(t)' = Consumed(t)
<1>1. /\ bin[s] \in Seq(BlockNames) /\ Len(BIncoming[s]) \in Nat /\ Len(bin[s]) \in Nat
      /\ bin \in [BSides -> Seq(BlockNames)]
  BY IncomingIsSeq, LenProperties DEF BridgeInv, BridgeTypes
<1>2. /\ Tail(bin[s]) \in Seq(BlockNames) /\ Len(Tail(bin[s])) = Len(bin[s]) - 1 /\ Len(bin[s]) >= 1
      /\ \A i \in 1..Len(Tail(bin[s])) : Tail(bin[s])[i] = bin[s][i + 1]
      /\ Head(bin[s]) = bin[s][1] /\ Head(bin[s]) \in BlockNames
  BY <1>1, HeadTailProperties, EmptySeq
<1>3. bin'[s] = Tail(bin[s]) /\ \A t \in BSides : t # s => bin'[t] = bin[t]
  BY <1>1
<1>4. /\ Consumed(s) \in Nat /\ Consumed(s)' = Consumed(s) + 1
      /\ \A t \in BSides : t # s => Consumed(t)' = Consumed(t)
  BY <1>1, <1>2, <1>3 DEF Consumed, BridgeInv, UnreadIsRest
<1>5. Head(bin[s]) = BIncoming[s][Consumed(s) + 1]
  BY <1>1, <1>2 DEF BridgeInv, UnreadIsRest
<1>6. UnreadIsRest'
  <2> SUFFICES ASSUME NEW t \in BSides
               PROVE  /\ Len(bin'[t]) <= Len(BIncoming[t])
                      /\ \A i \in 1..Len(bin'[t]) : bin'[t][i] = BIncoming[t][Consumed(t)' + i]
    BY DEF UnreadIsRest
  <2>1. CASE t # s
    BY <1>3, <1>4, <2>1 DEF BridgeInv, UnreadIsRest
  <2>2. CASE t = s
    <3>1. Len(bin'[s]) <= Len(BIncoming[s])
      BY <1>1, <1>2, <1>3 DEF BridgeInv, UnreadIsRest
    <3>2. ASSUME NEW i \in 1..Len(bin'[s]) PROVE bin'[s][i] = BIncoming[s][Consumed(s)' + i]
      <4>1. i + 1 \in 1..Len(bin[s]) /\ bin'[s][i] = bin[s][i + 1]
        BY <1>1, <1>2, <1>3
      <4>2. bin[s][i + 1] = BIncoming[s][Consumed(s) + (i + 1)]
        BY <4>1 DEF BridgeInv, UnreadIsRest
      <4>3. Consumed(s) + (i + 1) = Consumed(s)' + i
        BY <1>4, <1>1, <1>2, <1>3
      <4> QED BY <4>1, <4>2, <4>3
    <3> QED BY <2>2, <3>1, <3>2
  <2> QED BY <2>1, <2>2
<1> QED BY <1>1, <1>2, <1>3, <1>4, <1>5, <1>6

LEMMA ReadPingKeeps ==
  ASSUME BridgeInv, NEW d \in BSides, ReadPing(d)
  PROVE  BridgeInv'
<1>1. /\ bin["FORWARD"] # <<>> /\ bin' = [bin EXCEPT !["FORWARD"] = Tail(@)] /\ "FORWARD" \in BSides
      /\ bpump' \in [BSides -> {"read", "write", "data", "ended"}]
      /\ bpump["BACKWARD"] = "read" /\ bpump'["BACKWARD"] \in {"read", "ended"}
      /\ bpump'["FORWARD"] = bpump["FORWARD"] /\ Head(bin["FORWARD"]) = "ping"
      /\ UNCHANGED <<bsock, bout, bblock, fwdLock>>
  BY DEF ReadPing, BSides, BridgeInv, BridgeTypes
<1>2. /\ bin' \in [BSides -> Seq(BlockNames)] /\ UnreadIsRest'
      /\ Consumed("FORWARD") \in Nat /\ Consumed("FORWARD")' = Consumed("FORWARD") + 1
      /\ Head(bin["FORWARD"]) = BIncoming["FORWARD"][Consumed("FORWARD") + 1]
      /\ Consumed("BACKWARD")' = Consumed("BACKWARD")
  BY <1>1, ReadTakesNext DEF BSides
<1>3. BridgeTypes'
  BY <1>1, <1>2 DEF BridgeInv, BridgeTypes
<1>4. \A e \in BSides : Delivered(e)' = Delivered(e)
  BY <1>1 DEF Delivered
<1>5. Cardinality(BlocksUpTo(BIncoming["FORWARD"], Consumed("FORWARD") + 1))
        = Cardinality(BlocksUpTo(BIncoming["FORWARD"], Consumed("FORWARD")))
  BY <1>1, <1>2, NextBlock
<1>6. BlockInHand'
  BY <1>1, <1>2, <1>4, <1>5 DEF BridgeInv, BlockInHand, BSides, Opposite
<1>7. SizeBeforeData' /\ BridgeDelivers'
  BY <1>1 DEF BridgeInv, SizeBeforeData, LastOut, BridgeDelivers, BridgeInOrder, ChunksWellFormed
<1> QED BY <1>2, <1>3, <1>6, <1>7 DEF BridgeInv

LEMMA ReadBlockKeeps ==
  ASSUME BridgeInv, NEW d \in BSides, ReadBlock(d)
  PROVE  BridgeInv'
<1>1. PICK s \in BSides : s = Opposite(d) /\ s # d
  BY DEF Opposite, BSides
<1>2. /\ bin[s] # <<>> /\ bin' = [bin EXCEPT ![s] = Tail(@)] /\ Head(bin[s]) # "ping"
      /\ bpump' \in [BSides -> {"read", "write", "data", "ended"}]
      /\ bpump[d] = "read" /\ bpump'[d] = "write" /\ bpump'[s] = bpump[s]
      /\ bblock' = [bblock EXCEPT ![d] = Head(bin[s])]
      /\ UNCHANGED <<bsock, bout, fwdLock>>
  BY <1>1 DEF ReadBlock, BridgeInv, BridgeTypes
<1>3. /\ bin' \in [BSides -> Seq(BlockNames)] /\ UnreadIsRest'
      /\ Consumed(s) \in Nat /\ Consumed(s)' = Consumed(s) + 1
      /\ Head(bin[s]) = BIncoming[s][Consumed(s) + 1] /\ Head(bin[s]) \in BlockNames
      /\ Consumed(d)' = Consumed(d)
  BY <1>1, <1>2, ReadTakesNext
<1>4. bblock' \in [BSides -> BlockNames] /\ bblock'[d] = Head(bin[s]) /\ bblock'[s] = bblock[s]
  BY <1>1, <1>2, <1>3 DEF BridgeInv, BridgeTypes
<1>5. BridgeTypes'
  BY <1>2, <1>3, <1>4 DEF BridgeInv, BridgeTypes
<1>6. \A e \in BSides : Delivered(e)' = Delivered(e)
  BY <1>2 DEF Delivered
<1>7. Cardinality(BlocksUpTo(BIncoming[s], Consumed(s) + 1))
        = Cardinality(BlocksUpTo(BIncoming[s], Consumed(s))) + 1
  BY <1>2, <1>3, NextBlock
<1>8. BlockInHand'
  <2>1. \A e \in BSides : e = d \/ e = s
    BY <1>1 DEF BSides
  <2>2. Opposite(d) = s /\ Opposite(s) = d
    BY <1>1 DEF BSides, Opposite
  <2>3. Cardinality(BlocksUpTo(BIncoming[s], Consumed(s))) = Delivered(d)
    BY <1>1, <1>2 DEF BridgeInv, BlockInHand
  <2>4. /\ Consumed(s)' >= 1 /\ BIncoming[s][Consumed(s)'] = bblock'[d]
        /\ BIncoming[s][Consumed(s)'] # "ping"
        /\ Cardinality(BlocksUpTo(BIncoming[s], Consumed(s)')) = Delivered(d)' + 1
    BY <1>2, <1>3, <1>4, <1>6, <1>7, <2>3
  <2>5. /\ bpump'[s] = "read" => Cardinality(BlocksUpTo(BIncoming[d], Consumed(d)')) = Delivered(s)'
        /\ bpump'[s] \in {"write", "data"} =>
             /\ Consumed(d)' >= 1
             /\ BIncoming[d][Consumed(d)'] = bblock'[s] /\ BIncoming[d][Consumed(d)'] # "ping"
             /\ Cardinality(BlocksUpTo(BIncoming[d], Consumed(d)')) = Delivered(s)' + 1
    BY <1>2, <1>3, <1>4, <1>6, <2>2 DEF BridgeInv, BlockInHand
  <2> QED BY <1>2, <2>1, <2>2, <2>4, <2>5 DEF BlockInHand
<1>9. SizeBeforeData' /\ BridgeDelivers'
  BY <1>1, <1>2, <1>4 DEF BridgeInv, SizeBeforeData, LastOut, BridgeDelivers, BridgeInOrder,
     ChunksWellFormed, BSides
<1> QED BY <1>3, <1>5, <1>8, <1>9 DEF BridgeInv

(* A write to the encapsulated side by whoever has the lock. *)
LEMMA ChunkAppended ==
  ASSUME BridgeInv, NEW e \in Entries, bout'["FORWARD"] = Append(bout["FORWARD"], e), BChunked,
         bout["FORWARD"] # <<>> /\ LastOut[1] = "size" => e = <<"data", LastOut[2]>>
  PROVE  ChunksWellFormed' /\ bout'["FORWARD"] # <<>> /\ LastOut' = e
<1>1. PICK out \in Seq(Entries) : out = bout["FORWARD"]
  BY DEF BridgeInv, BridgeTypes, BSides
<1>2. PICK new : new = bout'["FORWARD"]
  OBVIOUS
<1>3. /\ Len(out) \in Nat /\ Len(new) = Len(out) + 1 /\ new[Len(out) + 1] = e
      /\ new \in Seq(Entries) /\ \A i \in 1..Len(out) : new[i] = out[i]
  BY <1>1, <1>2, AppendKeepsOrder
<1>4. ChunksWellFormed'
  <2> SUFFICES ASSUME NEW i \in 1..Len(new), new[i][1] = "size", i < Len(new)
               PROVE  new[i + 1] = <<"data", new[i][2]>>
    BY <1>2 DEF ChunksWellFormed
  <2>1. i \in 1..Len(out) /\ new[i] = out[i]
    BY <1>3
  <2>2. CASE i < Len(out)
    <3>1. out[i + 1] = <<"data", out[i][2]>>
      BY <1>1, <1>3, <2>1, <2>2 DEF BridgeInv, BridgeDelivers, ChunksWellFormed
    <3> QED BY <1>3, <2>1, <2>2, <3>1
  <2>3. CASE i = Len(out)
    BY <1>1, <1>3, <2>1, <2>3 DEF LastOut
  <2> QED BY <1>3, <2>1, <2>2, <2>3
<1>5. new # <<>>
  BY <1>3
<1>6. LastOut' = e
  BY <1>2, <1>3 DEF LastOut
<1> QED BY <1>2, <1>4, <1>5, <1>6

(* The blocks of the thread that wrote nothing stay in order. *)
LEMMA OtherStaysInOrder ==
  ASSUME BridgeInv, NEW d \in BSides, NEW s \in BSides, s = Opposite(d), UNCHANGED <<bin, bblock>>,
         bout'[s] = bout[s], bpump'[s] = bpump[s]
  PROVE  /\ InOrder(bout[s], BIncoming[d])' /\ Delivered(s)' = Delivered(s)
         /\ Consumed(s)' = Consumed(s) /\ Consumed(d)' = Consumed(d)
         /\ bpump'[s] = "read" => Cardinality(BlocksUpTo(BIncoming[d], Consumed(d)')) = Delivered(s)'
         /\ bpump'[s] \in {"write", "data"} =>
             /\ Consumed(d)' >= 1
             /\ BIncoming[d][Consumed(d)'] = bblock'[s] /\ BIncoming[d][Consumed(d)'] # "ping"
             /\ Cardinality(BlocksUpTo(BIncoming[d], Consumed(d)')) = Delivered(s)' + 1
<1>1. d = Opposite(s)
  BY DEF Opposite, BSides
<1>2. /\ Delivered(s)' = Delivered(s) /\ Consumed(s)' = Consumed(s) /\ Consumed(d)' = Consumed(d)
  BY DEF Delivered, Consumed
<1> QED BY <1>1, <1>2 DEF BridgeInv, BlockInHand, BridgeDelivers, BridgeInOrder

(* An entry that is no block: the size of a chunk, or a ping. *)
LEMMA NoDataKeeps ==
  ASSUME BridgeInv, UNCHANGED <<bin, bblock, bsock>>, NEW e \in Entries, e[1] # "data", BChunked,
         bout' = [bout EXCEPT !["FORWARD"] = Append(@, e)],
         bout["FORWARD"] # <<>> => LastOut[1] # "size",
         \/ UNCHANGED bpump /\ e[1] # "size" /\ bpump["FORWARD"] # "data"
         \/ /\ bpump["FORWARD"] = "write" /\ bpump' = [bpump EXCEPT !["FORWARD"] = "data"]
            /\ fwdLock' = "pump" /\ e = <<"size", bblock["FORWARD"]>>
  PROVE  BridgeInv'
<1>1. /\ "FORWARD" \in BSides /\ "BACKWARD" \in BSides /\ Opposite("FORWARD") = "BACKWARD"
      /\ Opposite("BACKWARD") = "FORWARD" /\ BSides = {"FORWARD", "BACKWARD"}
  BY DEF BSides, Opposite
<1>2. PICK out \in Seq(Entries) : out = bout["FORWARD"]
  BY <1>1 DEF BridgeInv, BridgeTypes
<1>3. bout'["FORWARD"] = Append(out, e) /\ bout'["BACKWARD"] = bout["BACKWARD"]
      /\ bpump'["BACKWARD"] = bpump["BACKWARD"]
      /\ bpump' \in [BSides -> {"read", "write", "data", "ended"}]
  BY <1>1, <1>2 DEF BridgeInv, BridgeTypes
<1>4. BridgeTypes'
  <2>1. Append(out, e) \in Seq(Entries)
    BY AppendKeepsOrder
  <2>2. bout' \in [BSides -> Seq(Entries)]
    BY <1>2, <2>1 DEF BridgeInv, BridgeTypes
  <2> QED BY <1>3, <2>2 DEF BridgeInv, BridgeTypes
<1>5. UnreadIsRest'
  BY DEF BridgeInv, UnreadIsRest, Consumed
<1>6. /\ Delivered("FORWARD")' = Delivered("FORWARD")
      /\ InOrder(bout["FORWARD"], BIncoming["BACKWARD"])'
  <2>1. /\ Cardinality(DataUpTo(Append(out, e), Len(Append(out, e)))) = Cardinality(DataUpTo(out, Len(out)))
        /\ InOrder(out, BIncoming["BACKWARD"]) => InOrder(Append(out, e), BIncoming["BACKWARD"])
    BY AppendOther
  <2>2. InOrder(out, BIncoming["BACKWARD"])
    BY <1>1, <1>2 DEF BridgeInv, BridgeDelivers, BridgeInOrder
  <2> QED BY <1>2, <1>3, <2>1, <2>2 DEF Delivered
<1>7. BlockInHand' /\ BridgeInOrder'
  BY <1>1, <1>3, <1>6, OtherStaysInOrder DEF BridgeInv, BlockInHand, BridgeInOrder
<1>8. ChunksWellFormed' /\ bout'["FORWARD"] # <<>> /\ LastOut' = e
  BY <1>2, <1>3, ChunkAppended
<1>9. SizeBeforeData'
  BY <1>1, <1>3, <1>8 DEF BridgeInv, BridgeTypes, SizeBeforeData
<1> QED BY <1>4, <1>5, <1>7, <1>8, <1>9 DEF BridgeInv, BridgeDelivers

(* The block in hand is written: it is the next one the other peer sent. *)
LEMMA WriteDataKeeps ==
  ASSUME BridgeInv, NEW d \in BSides, WriteData(d)
  PROVE  BridgeInv'
<1>1. PICK s \in BSides : s = Opposite(d) /\ s # d /\ d = Opposite(s) /\ BSides = {d, s}
  BY DEF Opposite, BSides
<1>2. PICK out \in Seq(Entries), e \in Entries : out = bout[d] /\ e = <<"data", bblock[d]>>
  BY DEF BridgeInv, BridgeTypes, Entries
<1>3. /\ bpump[d] \in {"write", "data"} /\ bsock[d] = "open"
      /\ bout'[d] = Append(out, e) /\ bout'[s] = bout[s]
      /\ bpump'[d] = "read" /\ bpump'[s] = bpump[s]
      /\ bpump' \in [BSides -> {"read", "write", "data", "ended"}]
      /\ bblock'[d] = NoBlock /\ bblock'[s] = bblock[s]
      /\ UNCHANGED <<bsock, bin>>
  BY <1>1, <1>2 DEF WriteData, BridgeInv, BridgeTypes
<1>4. BridgeTypes'
  <2>1. Append(out, e) \in Seq(Entries) /\ NoBlock \in BlockNames
    BY AppendKeepsOrder DEF BlockNames
  <2>2. bout' \in [BSides -> Seq(Entries)] /\ bblock' \in [BSides -> BlockNames]
    BY <1>2, <2>1 DEF WriteData, BridgeInv, BridgeTypes
  <2> QED BY <1>3, <2>2 DEF BridgeInv, BridgeTypes
<1>5. UnreadIsRest' /\ Consumed(s)' = Consumed(s) /\ Consumed(d)' = Consumed(d)
  BY <1>3 DEF BridgeInv, UnreadIsRest, Consumed
<1>6. PICK j \in 1..Len(BIncoming[s]) : j = Consumed(s)
  <2>1. Len(BIncoming[s]) \in Nat /\ Len(bin[s]) \in Nat
    BY IncomingIsSeq, LenProperties DEF BridgeInv, BridgeTypes
  <2>2. Consumed(s) >= 1
    BY <1>1, <1>3 DEF BridgeInv, BlockInHand
  <2>3. Consumed(s) \in 1..Len(BIncoming[s])
    <3>1. PICK l \in Nat, b \in Nat : l = Len(BIncoming[s]) /\ b = Len(bin[s])
      BY <2>1
    <3>2. Consumed(s) = l - b
      BY <3>1 DEF Consumed
    <3>3. l - b >= 1
      BY <2>2, <3>2
    <3>4. l - b \in 1..l
      BY <3>3
    <3> QED BY <3>1, <3>2, <3>4
  <2> QED BY <2>3
<1>7. /\ BIncoming[s][j] = e[2] /\ BIncoming[s][j] # "ping" /\ e[1] = "data"
      /\ Cardinality(BlocksUpTo(BIncoming[s], j)) = Cardinality(DataUpTo(out, Len(out))) + 1
  BY <1>1, <1>2, <1>3, <1>6 DEF BridgeInv, BlockInHand, Delivered
<1>8. /\ Cardinality(DataUpTo(Append(out, e), Len(Append(out, e))))
           = Cardinality(DataUpTo(out, Len(out))) + 1
      /\ InOrder(out, BIncoming[s]) => InOrder(Append(out, e), BIncoming[s])
  BY <1>7, AppendData
<1>9. InOrder(bout[d], BIncoming[s])' /\ Delivered(d)' = Cardinality(BlocksUpTo(BIncoming[s], Consumed(s)))
  <2>1. InOrder(out, BIncoming[s])
    BY <1>1, <1>2 DEF BridgeInv, BridgeDelivers, BridgeInOrder
  <2> QED BY <1>3, <1>6, <1>7, <1>8, <2>1 DEF Delivered
<1>10. InOrder(bout[s], BIncoming[d])' /\ Delivered(s)' = Delivered(s)
  BY <1>1, <1>3 DEF BridgeInv, BridgeDelivers, BridgeInOrder, Delivered
<1>11. BridgeInOrder'
  BY <1>1, <1>9, <1>10 DEF BridgeInOrder
<1>12. BlockInHand'
  <2>1. /\ bpump[s] = "read" => Cardinality(BlocksUpTo(BIncoming[d], Consumed(d))) = Delivered(s)
        /\ bpump[s] \in {"write", "data"} =>
             /\ Consumed(d) >= 1
             /\ BIncoming[d][Consumed(d)] = bblock[s] /\ BIncoming[d][Consumed(d)] # "ping"
             /\ Cardinality(BlocksUpTo(BIncoming[d], Consumed(d))) = Delivered(s) + 1
    BY <1>1 DEF BridgeInv, BlockInHand
  <2> QED BY <1>1, <1>3, <1>5, <1>9, <1>10, <2>1 DEF BlockInHand
<1>13. ChunksWellFormed' /\ SizeBeforeData'
  <2>1. CASE d = "BACKWARD"
    <3>1. s = "FORWARD" /\ UNCHANGED fwdLock /\ LastOut' = LastOut
      BY <1>1, <1>3, <2>1 DEF WriteData, Encapsulates, Opposite, LastOut
    <3> QED BY <1>3, <2>1, <3>1 DEF BridgeInv, SizeBeforeData, BridgeDelivers, ChunksWellFormed
  <2>2. CASE d = "FORWARD" /\ ~BChunked
    <3>1. bpump'["FORWARD"] = "read" /\ bpump'["BACKWARD"] # "data"
      BY <1>1, <1>3, <2>2 DEF Opposite, BridgeInv, SizeBeforeData
    <3> QED BY <2>2, <3>1 DEF SizeBeforeData, ChunksWellFormed
  <2>3. CASE d = "FORWARD" /\ BChunked
    <3>1. bpump["FORWARD"] = "data" /\ LastOut = <<"size", bblock["FORWARD"]>>
      BY <2>3 DEF WriteData, Encapsulates, BridgeInv, SizeBeforeData
    <3>2. e = <<"data", LastOut[2]>> /\ bout'["FORWARD"] = Append(bout["FORWARD"], e)
      BY <1>2, <1>3, <2>3, <3>1
    <3>3. ChunksWellFormed' /\ LastOut' = e
      BY <2>3, <3>2, ChunkAppended
    <3>4. bpump'["FORWARD"] = "read" /\ bpump'["BACKWARD"] # "data"
      BY <1>1, <1>3, <2>3 DEF Opposite, BridgeInv, SizeBeforeData
    <3> QED BY <1>2, <3>3, <3>4 DEF SizeBeforeData
  <2> QED BY <2>1, <2>2, <2>3, BridgeAssumption DEF BSides
<1> QED BY <1>4, <1>5, <1>11, <1>12, <1>13 DEF BridgeInv, BridgeDelivers

(* Without chunks there is no pinger. *)
PingerOfChunks == ~BChunked => bping = "ended"

LEMMA PingerOfChunksKept ==
  ASSUME PingerOfChunks, [BridgeNext]_bridgeVars
  PROVE  PingerOfChunks'
BY DEF PingerOfChunks, BridgeNext, PeerBreaks, Pump, ReadEnds, ReadPing, ReadBlock, WriteFails,
   WriteSize, WriteData, Pinger, PingTest, PingTimeout, SendPing, ProcessEnds, FinishPing,
   CloseBridge, bridgeVars

LEMMA BridgeInvStep == BridgeInv /\ PingerOfChunks /\ [BridgeNext]_bridgeVars => BridgeInv'
<1> SUFFICES ASSUME BridgeInv, PingerOfChunks, [BridgeNext]_bridgeVars PROVE BridgeInv'
  OBVIOUS
<1>0. "FORWARD" \in BSides /\ "BACKWARD" \in BSides
  BY DEF BSides
<1>1. ASSUME NEW d \in BSides, PeerBreaks(d) \/ ReadEnds(d) PROVE BridgeInv'
  BY <1>1, BridgeIdleKeeps DEF PeerBreaks, ReadEnds, ShutdownOnReadEnd, BridgeInv, BridgeTypes,
     SizeBeforeData, BSides
<1>2. ASSUME NEW d \in BSides, WriteFails(d) PROVE BridgeInv'
  BY <1>2, BridgeIdleKeeps DEF WriteFails, BridgeInv, BridgeTypes, SizeBeforeData, BSides
<1>3. ASSUME NEW d \in BSides, WriteSize(d) PROVE BridgeInv'
  <2>1. d = "FORWARD" /\ BChunked
    BY <1>3 DEF WriteSize, Encapsulates
  <2>2. bout["FORWARD"] # <<>> => LastOut[1] # "size"
    BY <1>3, <2>1 DEF WriteSize, BridgeInv, SizeBeforeData
  <2>3. PICK e \in Entries : e = <<"size", bblock["FORWARD"]>> /\ e[1] # "data"
    <3>1. bblock["FORWARD"] \in BlockNames
      BY <1>0 DEF BridgeInv, BridgeTypes
    <3>2. <<"size", bblock["FORWARD"]>> \in Entries
      BY <3>1 DEF Entries
    <3> QED BY <3>2
  <2> QED BY <1>3, <2>1, <2>2, <2>3, NoDataKeeps DEF WriteSize
<1>4. ASSUME NEW d \in BSides, Pump(d) PROVE BridgeInv'
  BY <1>1, <1>2, <1>3, <1>4, ReadPingKeeps, ReadBlockKeeps, WriteDataKeeps DEF Pump
<1>5. CASE SendPing
  <2>1. CASE bsock["FORWARD"] # "open"
    BY <1>5, <2>1, BridgeIdleKeeps DEF SendPing, BridgeInv, BridgeTypes, BSides
  <2>2. CASE bsock["FORWARD"] = "open" /\ BChunked
    <3>1. bpump["FORWARD"] # "data"
      BY <1>5 DEF SendPing, PingMayWrite, BridgeInv, SizeBeforeData
    <3>2. bout["FORWARD"] # <<>> => LastOut[1] # "size"
      BY <2>2, <3>1 DEF BridgeInv, SizeBeforeData
    <3>3. PICK e \in Entries : e = <<"ping", NoBlock>> /\ e[1] # "data" /\ e[1] # "size"
      <4>1. NoBlock \in BlockNames
        BY DEF BlockNames
      <4>2. <<"ping", NoBlock>> \in Entries
        BY <4>1 DEF Entries
      <4> QED BY <4>2
    <3> QED BY <1>5, <2>2, <3>1, <3>2, <3>3, NoDataKeeps DEF SendPing
  <2>3. BChunked
    BY <1>5, BridgeAssumption DEF SendPing, PingerOfChunks
  <2> QED BY <2>1, <2>2, <2>3
<1>6. CASE PingTest \/ PingTimeout \/ FinishPing
  BY <1>6, BridgeIdleKeeps DEF PingTest, PingTimeout, FinishPing, BridgeInv, BridgeTypes, BSides
<1>7. CASE CloseBridge
  BY <1>7, BridgeIdleKeeps DEF CloseBridge, BridgeInv, BridgeTypes, BSides
<1>8. CASE UNCHANGED bridgeVars
  BY <1>8, BridgeIdleKeeps DEF bridgeVars, BridgeInv, BridgeTypes, BSides
<1> QED BY <1>1, <1>4, <1>5, <1>6, <1>7, <1>8 DEF BridgeNext, Pinger, ProcessEnds

(* BridgeDelivers, for any messages of the two peers and any number of pings:
   whatever breaks and whichever thread writes, the n-th block a peer receives is
   the n-th one the other sent, and a size is followed by its block. *)
THEOREM BridgeKeepsOrder == BridgeSpec => []BridgeDelivers
<1>1. BridgeInv => BridgeDelivers
  BY DEF BridgeInv
<1>2. BridgeInit => PingerOfChunks
  BY DEF BridgeInit, PingerOfChunks
<1> QED BY <1>1, <1>2, BridgeInvInit, BridgeInvStep, PingerOfChunksKept, PTL DEF BridgeSpec

-----------------------------------------------------------------------------
(* MultiThreadedAcceptor.  The inductive invariant adds to the properties that the list
   holds exactly the live client threads, that two acceptor threads never work on one
   connection, and that the destructor runs only when every acceptor thread is gone. *)

Processing == {"process", "wait", "woken"}

\* The list holds the clients whose thread has not reported its end.
ListExact == \A c \in Conns : c \in threadList <=> conn[c] \in {"running", "finalizing"}

\* An acceptor thread works on an accepted connection that is its own.
OwnConnection ==
    /\ \A a \in Acceptors : apc[a] \in Processing => /\ acur[a] \in Conns
                                                     /\ conn[acur[a]] = "accepted"
    /\ \A a, b \in Acceptors : apc[a] \in Processing /\ apc[b] \in Processing /\ acur[a] = acur[b]
                               => a = b

\* The destructor runs when no shared_ptr is left.
DestroyedAlone ==
    /\ dpc # "none" => ~owned /\ \A a \in Acceptors : apc[a] = "gone"
    /\ dpc = "done" => threadList = {}

AcceptorInv ==
    /\ AcceptorTypeOK
    /\ ListExact
    /\ OwnConnection
    /\ DestroyedAlone
    /\ ClientsWithinLimit
    /\ AddressCountExact

ClientsOf(p, T) == {c \in T : Addr[c] = p}

-----------------------------------------------------------------------------
(* Counting.                                                               *)

LEMMA ClientsFinite ==
    ASSUME NEW T \in SUBSET Conns, NEW p
    PROVE  /\ IsFiniteSet(T) /\ Cardinality(T) \in Nat
           /\ IsFiniteSet(ClientsOf(p, T)) /\ Cardinality(ClientsOf(p, T)) \in Nat
<1>1. IsFiniteSet(T)
  BY FS_Subset, AcceptorAssumption
<1>2. ClientsOf(p, T) \in SUBSET T
  BY DEF ClientsOf
<1>3. IsFiniteSet(ClientsOf(p, T))
  BY <1>1, <1>2, FS_Subset
<1> QED BY <1>1, <1>3, FS_CardinalityType

\* A client that enters the list counts once, for its own address.
LEMMA CountsAdd ==
    ASSUME NEW T \in SUBSET Conns, NEW k \in Conns \ T
    PROVE  /\ Cardinality(T \cup {k}) = Cardinality(T) + 1
           /\ \A p : Cardinality(ClientsOf(p, T \cup {k}))
                     = IF p = Addr[k] THEN Cardinality(ClientsOf(p, T)) + 1
                       ELSE Cardinality(ClientsOf(p, T))
<1>1. Cardinality(T \cup {k}) = Cardinality(T) + 1
  BY ClientsFinite, FS_AddElement
<1>2. ASSUME NEW p
      PROVE  Cardinality(ClientsOf(p, T \cup {k}))
             = IF p = Addr[k] THEN Cardinality(ClientsOf(p, T)) + 1
               ELSE Cardinality(ClientsOf(p, T))
  <2>1. CASE p = Addr[k]
    <3>1. ClientsOf(p, T \cup {k}) = ClientsOf(p, T) \cup {k} /\ k \notin ClientsOf(p, T)
      BY <2>1 DEF ClientsOf
    <3> QED BY <2>1, <3>1, ClientsFinite, FS_AddElement
  <2>2. CASE p # Addr[k]
    <3>1. ClientsOf(p, T \cup {k}) = ClientsOf(p, T)
      BY <2>2 DEF ClientsOf
    <3> QED BY <2>2, <3>1
  <2> QED BY <2>1, <2>2
<1> QED BY <1>1, <1>2

\* A client that leaves it is taken off once.
LEMMA CountsRemove ==
    ASSUME NEW T \in SUBSET Conns, NEW k \in T
    PROVE  /\ Cardinality(T \ {k}) = Cardinality(T) - 1
           /\ \A p : Cardinality(ClientsOf(p, T \ {k}))
                     = IF p = Addr[k] THEN Cardinality(ClientsOf(p, T)) - 1
                       ELSE Cardinality(ClientsOf(p, T))
<1>1. Cardinality(T \ {k}) = Cardinality(T) - 1
  BY ClientsFinite, FS_RemoveElement
<1>2. ASSUME NEW p
      PROVE  Cardinality(ClientsOf(p, T \ {k}))
             = IF p = Addr[k] THEN Cardinality(ClientsOf(p, T)) - 1
               ELSE Cardinality(ClientsOf(p, T))
  <2>1. CASE p = Addr[k]
    <3>1. ClientsOf(p, T \ {k}) = ClientsOf(p, T) \ {k} /\ k \in ClientsOf(p, T)
      BY <2>1 DEF ClientsOf
    <3>2. Cardinality(ClientsOf(p, T) \ {k}) = Cardinality(ClientsOf(p, T)) - 1
      BY <3>1, ClientsFinite, FS_RemoveElement
    <3> QED BY <2>1, <3>1, <3>2
  <2>2. CASE p # Addr[k]
    <3>1. ClientsOf(p, T \ {k}) = ClientsOf(p, T)
      BY <2>2 DEF ClientsOf
    <3> QED BY <2>2, <3>1
  <2> QED BY <2>1, <2>2
<1> QED BY <1>1, <1>2

-----------------------------------------------------------------------------
(* The initial states.                                                     *)

LEMMA AcceptorInvInit == AcceptorInit => AcceptorInv
<1> SUFFICES ASSUME AcceptorInit PROVE AcceptorInv
  OBVIOUS
<1>1. AcceptorTypeOK
  BY AcceptorAssumption DEF AcceptorInit, AcceptorTypeOK
<1>2. ListExact /\ OwnConnection /\ DestroyedAlone
  BY DEF AcceptorInit, ListExact, OwnConnection, DestroyedAlone, Processing
<1>3. ClientsWithinLimit
  BY FS_EmptySet, AcceptorAssumption DEF AcceptorInit, ClientsWithinLimit
<1>4. AddressCountExact
  <2> SUFFICES ASSUME NEW p \in Addrs
               PROVE  /\ perIP[p] = Cardinality({c \in threadList : Addr[c] = p})
                      /\ perIP[p] <= MaxConnectionsPerIP
    BY DEF AddressCountExact
  <2>1. {c \in threadList : Addr[c] = p} = {} /\ perIP[p] = 0
    BY DEF AcceptorInit
  <2> QED BY <2>1, FS_EmptySet, AcceptorAssumption
<1> QED BY <1>1, <1>2, <1>3, <1>4 DEF AcceptorInv

-----------------------------------------------------------------------------
(* One lemma per kind of step.  Most leave the list and the counters alone. *)

LEMMA SameCounts ==
    ASSUME AcceptorInv, UNCHANGED <<threadList, perIP>>
    PROVE  ClientsWithinLimit' /\ AddressCountExact'
BY DEF AcceptorInv, ClientsWithinLimit, AddressCountExact

LEMMA AcceptClientInv ==
    ASSUME AcceptorInv, NEW a \in Acceptors, NEW c \in Conns, AcceptClient(a, c)
    PROVE  AcceptorInv'
<1> USE DEF AcceptorInv, AcceptClient, lifeVars
<1>1. AcceptorTypeOK'
  BY DEF AcceptorTypeOK
<1>2. ListExact'
  BY DEF ListExact, AcceptorTypeOK
<1>3. OwnConnection'
  BY DEF OwnConnection, AcceptorTypeOK, Processing
<1>4. DestroyedAlone'
  BY DEF DestroyedAlone, AcceptorTypeOK
<1> QED BY <1>1, <1>2, <1>3, <1>4, SameCounts

LEMMA RejectInv ==
    ASSUME AcceptorInv, NEW a \in Acceptors, apc[a] \in Processing, NEW pc \in {"accept", "exit"},
           Reject(a, pc)
    PROVE  AcceptorInv'
<1> USE DEF AcceptorInv, Reject, lifeVars
<1>0. acur[a] \in Conns /\ conn[acur[a]] = "accepted"
  BY DEF OwnConnection
<1>1. AcceptorTypeOK'
  BY <1>0 DEF AcceptorTypeOK
<1>2. ListExact'
  BY <1>0 DEF ListExact, AcceptorTypeOK
<1>3. OwnConnection'
  BY <1>0 DEF OwnConnection, AcceptorTypeOK, Processing
<1>4. DestroyedAlone'
  BY DEF DestroyedAlone, AcceptorTypeOK, Processing
<1> QED BY <1>1, <1>2, <1>3, <1>4, SameCounts

LEMMA StartClientInv ==
    ASSUME AcceptorInv, NEW a \in Acceptors, apc[a] \in Processing, ~Full,
           perIP[Addr[acur[a]]] + 1 <= MaxConnectionsPerIP, StartClient(a)
    PROVE  AcceptorInv'
<1> USE DEF AcceptorInv, StartClient, lifeVars
<1> DEFINE k == acur[a]
<1>0. k \in Conns /\ conn[k] = "accepted" /\ k \notin threadList /\ Addr[k] \in Addrs
  BY AcceptorAssumption DEF OwnConnection, ListExact
<1>1. AcceptorTypeOK'
  BY <1>0 DEF AcceptorTypeOK
<1>2. ListExact'
  BY <1>0 DEF ListExact, AcceptorTypeOK
<1>3. OwnConnection'
  BY <1>0 DEF OwnConnection, AcceptorTypeOK, Processing
<1>4. DestroyedAlone'
  BY DEF DestroyedAlone, AcceptorTypeOK, Processing
<1>5. threadList \in SUBSET Conns /\ threadList' = threadList \cup {k}
  BY DEF AcceptorTypeOK
<1>6. ClientsWithinLimit'
  <2>1. Cardinality(threadList') = Cardinality(threadList) + 1
    BY <1>0, <1>5, CountsAdd
  <2>2. Cardinality(threadList) \in Nat
    BY <1>5, ClientsFinite
  <2> QED BY <2>1, <2>2, AcceptorAssumption DEF ClientsWithinLimit, Full
<1>7. AddressCountExact'
  <2> SUFFICES ASSUME NEW p \in Addrs
               PROVE  /\ perIP'[p] = Cardinality(ClientsOf(p, threadList'))
                      /\ perIP'[p] <= MaxConnectionsPerIP
    BY DEF AddressCountExact, ClientsOf
  <2>1. /\ perIP[p] = Cardinality(ClientsOf(p, threadList))
        /\ perIP[p] <= MaxConnectionsPerIP
    BY DEF AddressCountExact, ClientsOf
  <2>2. perIP'[p] = IF p = Addr[k] THEN perIP[p] + 1 ELSE perIP[p]
    BY <1>0 DEF AcceptorTypeOK
  <2>3. Cardinality(ClientsOf(p, threadList'))
        = IF p = Addr[k] THEN Cardinality(ClientsOf(p, threadList)) + 1
          ELSE Cardinality(ClientsOf(p, threadList))
    <3> HIDE DEF AcceptorInv, StartClient, lifeVars, k
    <3>1. k \in Conns \ threadList
      BY <1>0
    <3>2. Cardinality(ClientsOf(p, threadList \cup {k}))
          = IF p = Addr[k] THEN Cardinality(ClientsOf(p, threadList)) + 1
            ELSE Cardinality(ClientsOf(p, threadList))
      BY <3>1, <1>5, CountsAdd
    <3> QED BY <3>2, <1>5
  <2>4. CASE p = Addr[k]
    <3>1. perIP[p] + 1 <= MaxConnectionsPerIP
      BY <2>4
    <3> QED BY <2>1, <2>2, <2>3, <2>4, <3>1
  <2>5. CASE p # Addr[k]
    BY <2>1, <2>2, <2>3, <2>5
  <2> QED BY <2>4, <2>5
<1> QED BY <1>1, <1>2, <1>3, <1>4, <1>6, <1>7

LEMMA ProcessClientInv ==
    ASSUME AcceptorInv, NEW a \in Acceptors, ProcessClient(a)
    PROVE  AcceptorInv'
<1>0. apc[a] \in Processing
  BY DEF ProcessClient, Processing
<1>1. CASE Full /\ ~finalized
  <2> USE DEF AcceptorInv, ProcessClient, acceptedVars, lifeVars
  <2>1. AcceptorTypeOK'
    BY <1>1 DEF AcceptorTypeOK
  <2>2. ListExact' /\ OwnConnection'
    BY <1>1 DEF ListExact, OwnConnection, AcceptorTypeOK, Processing
  <2>3. DestroyedAlone'
    BY <1>0, <1>1 DEF DestroyedAlone, AcceptorTypeOK, Processing
  <2>4. UNCHANGED <<threadList, perIP>>
    BY <1>1
  <2> QED BY <2>1, <2>2, <2>3, <2>4, SameCounts
<1>2. CASE finalized
  <2>1. Reject(a, "exit")
    BY <1>2 DEF ProcessClient
  <2> QED BY <1>0, <2>1, RejectInv
<1>3. CASE ~Full /\ ~finalized /\ perIP[Addr[acur[a]]] + 1 > MaxConnectionsPerIP
  <2>1. Reject(a, "accept")
    BY <1>3 DEF ProcessClient
  <2> QED BY <1>0, <2>1, RejectInv
<1>4. CASE ~Full /\ ~finalized /\ ~(perIP[Addr[acur[a]]] + 1 > MaxConnectionsPerIP)
  <2>1. StartClient(a)
    BY <1>4 DEF ProcessClient
  <2>2. acur[a] \in Conns
    BY <1>0 DEF AcceptorInv, OwnConnection
  <2>3. perIP[Addr[acur[a]]] \in Nat
    BY <2>2, AcceptorAssumption DEF AcceptorInv, AcceptorTypeOK
  <2>4. perIP[Addr[acur[a]]] + 1 <= MaxConnectionsPerIP
    BY <1>4, <2>3, AcceptorAssumption
  <2> QED BY <1>0, <1>4, <2>1, <2>4, StartClientInv
<1> QED BY <1>1, <1>2, <1>3, <1>4

LEMMA AcceptTimeoutInv ==
    ASSUME AcceptorInv, NEW a \in Acceptors, AcceptTimeout(a)
    PROVE  AcceptorInv'
BY RejectInv DEF AcceptTimeout, Processing

\* The steps of an acceptor thread that touch no connection.
LEMMA AcceptorMovesInv ==
    ASSUME AcceptorInv, NEW a \in Acceptors, AcceptFails(a) \/ AcceptSpurious(a) \/ ThreadEnds(a)
    PROVE  AcceptorInv'
<1> USE DEF AcceptorInv, AcceptFails, AcceptSpurious, ThreadEnds, acceptedVars, lifeVars
<1>1. AcceptorTypeOK'
  BY DEF AcceptorTypeOK
<1>2. ListExact' /\ OwnConnection'
  BY DEF ListExact, OwnConnection, AcceptorTypeOK, Processing
<1>3. DestroyedAlone'
  <2>1. CASE AcceptFails(a) \/ AcceptSpurious(a)
    BY <2>1 DEF DestroyedAlone, AcceptorTypeOK
  <2>2. CASE ThreadEnds(a)
    <3>1. dpc = "none"
      BY <2>2 DEF DestroyedAlone
    <3>2. dpc' \in {"none", "start"}
      BY <2>2, <3>1
    <3>3. dpc' = "start" => ~owned' /\ \A b \in Acceptors : apc'[b] = "gone"
      BY <2>2, <3>1 DEF AcceptorTypeOK
    <3> QED BY <3>2, <3>3 DEF DestroyedAlone
  <2> QED BY <2>1, <2>2
<1> QED BY <1>1, <1>2, <1>3, SameCounts

LEMMA ClientEndsInv ==
    ASSUME AcceptorInv, NEW c \in Conns, ClientEnds(c)
    PROVE  AcceptorInv'
<1> USE DEF AcceptorInv, ClientEnds, acceptVars, lifeVars
<1>1. AcceptorTypeOK'
  BY DEF AcceptorTypeOK
<1>2. ListExact' /\ OwnConnection'
  BY DEF ListExact, OwnConnection, AcceptorTypeOK
<1>3. DestroyedAlone'
  BY DEF DestroyedAlone
<1> QED BY <1>1, <1>2, <1>3, SameCounts

LEMMA FinalizeThreadElementInv ==
    ASSUME AcceptorInv, NEW c \in Conns, FinalizeThreadElement(c)
    PROVE  AcceptorInv'
<1> USE DEF AcceptorInv, FinalizeThreadElement
<1>0. c \in threadList /\ conn[c] = "finalizing" /\ Addr[c] \in Addrs
  BY AcceptorAssumption
<1>1. threadList \in SUBSET Conns /\ threadList' = threadList \ {c}
  BY DEF AcceptorTypeOK
<1>2. apc' \in [Acceptors -> {"accept", "process", "wait", "woken", "exit", "gone"}]
  BY DEF NotifyNotFull, AcceptorTypeOK
<1>3. \A a \in Acceptors : /\ apc'[a] \in Processing <=> apc[a] \in Processing
                           /\ apc'[a] = "gone" <=> apc[a] = "gone"
  BY DEF NotifyNotFull, AcceptorTypeOK, Processing
<1>4. AddressCountExact' /\ perIP' \in [Addrs -> Nat]
  <2>1. ASSUME NEW p \in Addrs
        PROVE  /\ perIP'[p] = Cardinality(ClientsOf(p, threadList'))
               /\ perIP'[p] <= MaxConnectionsPerIP
               /\ perIP'[p] \in Nat
    <3>1. /\ perIP[p] = Cardinality(ClientsOf(p, threadList))
          /\ perIP[p] <= MaxConnectionsPerIP
          /\ perIP[p] \in Nat
      BY DEF AddressCountExact, ClientsOf, AcceptorTypeOK
    <3>2. perIP'[p] = IF p = Addr[c] THEN perIP[p] - 1 ELSE perIP[p]
      BY <1>0 DEF AcceptorTypeOK
    <3>3. Cardinality(ClientsOf(p, threadList'))
          = IF p = Addr[c] THEN Cardinality(ClientsOf(p, threadList)) - 1
            ELSE Cardinality(ClientsOf(p, threadList))
      <4>1. Cardinality(ClientsOf(p, threadList \ {c}))
            = IF p = Addr[c] THEN Cardinality(ClientsOf(p, threadList)) - 1
              ELSE Cardinality(ClientsOf(p, threadList))
        <5> HIDE DEF AcceptorInv, FinalizeThreadElement
        <5> QED BY <1>0, <1>1, CountsRemove
      <4> QED BY <1>1, <4>1
    <3>4. Cardinality(ClientsOf(p, threadList')) \in Nat
      BY <1>1, ClientsFinite
    <3> QED BY <3>1, <3>2, <3>3, <3>4, AcceptorAssumption
  <2>2. perIP' \in [Addrs -> Nat]
    <3>1. perIP' = [p \in Addrs |-> perIP'[p]]
      BY DEF AcceptorTypeOK
    <3> QED BY <2>1, <3>1
  <2> QED BY <2>1, <2>2 DEF AddressCountExact, ClientsOf
<1>5. AcceptorTypeOK'
  BY <1>1, <1>2, <1>4 DEF AcceptorTypeOK
<1>6. ListExact'
  BY <1>0, <1>1 DEF ListExact, AcceptorTypeOK
<1>7. OwnConnection'
  BY <1>0, <1>3 DEF OwnConnection, AcceptorTypeOK
<1>8. DestroyedAlone'
  BY <1>1, <1>3 DEF DestroyedAlone
<1>9. ClientsWithinLimit'
  <2>1. Cardinality(threadList') = Cardinality(threadList) - 1 /\ Cardinality(threadList) \in Nat
    BY <1>0, <1>1, CountsRemove, ClientsFinite
  <2> QED BY <2>1, AcceptorAssumption DEF ClientsWithinLimit
<1> QED BY <1>4, <1>5, <1>6, <1>7, <1>8, <1>9

\* The steps of the program and of the destructor.
LEMMA LifeInv ==
    ASSUME AcceptorInv, Stop \/ DropOwnership \/ DestructorStart \/ DestructorJoin \/ DestructorClose
                \/ DestructorSpurious
    PROVE  AcceptorInv'
<1> USE DEF AcceptorInv, Stop, DropOwnership, DestructorStart, DestructorJoin, DestructorClose,
            DestructorSpurious, acceptVars, acceptedVars
<1>1. AcceptorTypeOK'
  BY DEF AcceptorTypeOK
<1>2. \A a \in Acceptors : /\ apc'[a] \in Processing <=> apc[a] \in Processing
                           /\ apc'[a] = "gone" <=> apc[a] = "gone"
  BY DEF AcceptorTypeOK, Processing
<1>3. ListExact' /\ OwnConnection'
  BY <1>2 DEF ListExact, OwnConnection
<1>4. DestroyedAlone'
  BY <1>2 DEF DestroyedAlone
<1>5. UNCHANGED <<threadList, perIP>>
  OBVIOUS
<1> QED BY <1>1, <1>3, <1>4, <1>5, SameCounts

LEMMA AcceptorInvStep == AcceptorInv /\ [AcceptorNext]_acceptorVars => AcceptorInv'
<1> SUFFICES ASSUME AcceptorInv, [AcceptorNext]_acceptorVars PROVE AcceptorInv'
  OBVIOUS
<1>1. CASE UNCHANGED acceptorVars
  BY <1>1 DEF acceptorVars, AcceptorInv, AcceptorTypeOK, ListExact, OwnConnection, DestroyedAlone, ClientsWithinLimit,
              AddressCountExact
<1>2. CASE AcceptorNext
  BY <1>2, AcceptClientInv, ProcessClientInv, AcceptTimeoutInv, AcceptorMovesInv, ClientEndsInv,
     FinalizeThreadElementInv, LifeInv DEF AcceptorNext
<1> QED BY <1>1, <1>2

-----------------------------------------------------------------------------
(* The theorems.                                                           *)

\* The inductive invariant holds in every state of the acceptor.
THEOREM AcceptorInvariant == AcceptorSpec => []AcceptorInv
BY AcceptorInvInit, AcceptorInvStep, PTL DEF AcceptorSpec

\* processClient never lists more than maxConcurrentClients clients, whatever
\* the number of acceptor threads.
THEOREM AcceptorClientsWithinLimit == AcceptorSpec => []ClientsWithinLimit
<1>1. AcceptorInv => ClientsWithinLimit
  BY DEF AcceptorInv
<1> QED BY <1>1, AcceptorInvariant, PTL

\* m_connectionsPerIP counts the listed clients of every address exactly, so
\* decrementIPUsage never throws and no address is refused below its limit.
THEOREM AcceptorAddressCountExact == AcceptorSpec => []AddressCountExact
<1>1. AcceptorInv => AddressCountExact
  BY DEF AcceptorInv
<1> QED BY <1>1, AcceptorInvariant, PTL

\* The destructor ends after every client thread has reported its end through
\* its bare pointer and every acceptor thread has let go of the acceptor.
THEOREM AcceptorOutlivesThreads == AcceptorSpec => []OutlivesThreads
<1>1. AcceptorInv => OutlivesThreads
  BY DEF AcceptorInv, OutlivesThreads, ListExact, DestroyedAlone
<1> QED BY <1>1, AcceptorInvariant, PTL

-----------------------------------------------------------------------------
(* A socket and its descriptor. *)

FdRecords == [owner : {"free", "socket", "other", "accepted"},
              st : {"fresh", "connecting", "connected", "listening"},
              fam : {0, 4, 6}, nb : BOOLEAN, shut : SUBSET {"rd", "wr"}, rt : Nat]
SockSteps == [fd : SFds \cup {-1}, tab : [SFds -> FdRecords], down : SUBSET {"rd", "wr"},
              failed : BOOLEAN, wrong : BOOLEAN]
SopTypes == [pc : {"idle", "next", "connect", "select", "returned"}, addrs : Seq({4, 6}),
             fam : {0, 4, 6}, ok : BOOLEAN]
SockTypes ==
  /\ Now \in SockSteps
  /\ skind \in {"none", "TCP", "UDP", "UNIX"} /\ slisten \in BOOLEAN /\ srtime \in Nat
  /\ sop \in SopTypes
  /\ sctl \in [pc : {"idle", "close", "shutdown", "done"}, mode : SUBSET {"rd", "wr"}, on : Int]
  /\ sopens \in Nat /\ scalls \in Nat

(* The number in the object is that of its only descriptor, until a bind fails. *)
HoldsItsOwn(s) ==
  /\ ~s.failed => s.fd = -1 \/ OwnFd(s.tab, s.fd)
  /\ \A f \in SFds : OwnFd(s.tab, f) => f = s.fd
  /\ s.wrong => s.failed

(* While an address is tried there is one, and the timeout is off. *)
TriedWithoutTimeout ==
  /\ skind = "none" => sop.pc = "idle"
  /\ sop.pc \in {"connect", "select"} => /\ sop.addrs # <<>> /\ srtime = 0
                                         /\ OwnFd(stab, sfd) => stab[sfd].rt = 0

(* Until the first call of the other thread nothing is shut down that is still open. *)
ShutByCallsOnly ==
  /\ scalls = 0 => sctl.pc = "idle"
  /\ sopens = 0 => sfd = -1 /\ sdown = {} /\ scalls = 0 /\ sctl.pc = "idle"
  /\ sopens = 1 /\ (scalls = 0 \/ (scalls = 1 /\ sctl.pc = "shutdown")) /\ OwnFd(stab, sfd) => sdown = {}

SockInv == /\ SockTypes /\ HoldsItsOwn(Now) /\ TriedWithoutTimeout /\ ShutByCallsOnly
           /\ ConnectedIsUsable /\ FirstShutdownEnds

\* The descriptor of the socket in a step, when it has one.
Own(s) == OwnFd(s.tab, s.fd)
Fd(s) == s.tab[s.fd]

(* The lowest number that is free is one of the free ones. *)
LEMMA LowestIsFree ==
  ASSUME NEW tab, FreeFds(tab) # {} PROVE LowestFree(tab) \in FreeFds(tab)
<1>1. FreeFds(tab) \subseteq Nat
  BY SockAssumption DEF FreeFds
<1>2. \E x \in FreeFds(tab) : \A y \in FreeFds(tab) : x <= y
  BY <1>1, LeastNumber
<1> QED BY <1>2 DEF LowestFree

LEMMA NumbersOfFds == \A f \in SFds : f # -1 /\ f \in Nat
BY SockAssumption

LEMMA FreeFdRecord == FreeFd \in FdRecords /\ FreeFd.owner = "free" /\ FreeFd.rt = 0
BY DEF FreeFd, FdRecords

(* closeSocket leaves the object without a descriptor, and none is lost. *)
LEMMA CloseSocketIs ==
  ASSUME NEW s \in SockSteps, HoldsItsOwn(s)
  PROVE  LET t == CloseSocket(s)
         IN /\ t \in SockSteps /\ HoldsItsOwn(t) /\ t.fd = -1 /\ t.down = s.down
            /\ ~Own(t)
<1>1. CASE s.fd = -1
  BY <1>1, NumbersOfFds DEF CloseSocket, Own, OwnFd
<1>2. CASE s.fd # -1
  <2>1. s.fd \in SFds /\ s.tab \in [SFds -> FdRecords]
    BY <1>2 DEF SockSteps
  <2>2. PICK tab : tab = [s.tab EXCEPT ![s.fd] = FreeFd]
    OBVIOUS
  <2>3. tab \in [SFds -> FdRecords]
    BY <2>1, <2>2, FreeFdRecord
  <2>4. PICK t : t = CloseSocket(s)
    OBVIOUS
  <2>5. t = [s EXCEPT !.fd = -1, !.tab = tab, !.wrong = @ \/ Misses(s.tab, s.fd)]
    BY <1>2, <2>1, <2>2, <2>4 DEF CloseSocket, CloseFd
  <2>6. /\ t \in SockSteps /\ t.fd = -1 /\ t.tab = tab /\ t.down = s.down /\ t.failed = s.failed
        /\ t.wrong = (s.wrong \/ Misses(s.tab, s.fd))
    BY <2>3, <2>5 DEF SockSteps
  <2>7. \A f \in SFds : ~OwnFd(tab, f)
    BY <2>1, <2>2, FreeFdRecord DEF HoldsItsOwn, OwnFd
  <2>8. HoldsItsOwn(t)
    <3>1. s.wrong \/ Misses(s.tab, s.fd) => s.failed
      BY <1>2 DEF HoldsItsOwn, Misses
    <3> QED BY <2>6, <2>7, <3>1 DEF HoldsItsOwn
  <2> QED BY <2>4, <2>6, <2>8, NumbersOfFds DEF Own, OwnFd
<1> QED BY <1>1, <1>2

LEMMA OpenFdIs ==
  ASSUME NEW s \in SockSteps, HoldsItsOwn(s), s.fd = -1, NEW fam \in {0, 4, 6}
  PROVE  LET t == OpenFd(s, fam)
         IN /\ t \in SockSteps /\ HoldsItsOwn(t) /\ t.down = s.down
            /\ t.fd # -1 => t.fd \in SFds /\ Own(t) /\ Fd(t).rt = 0
<1>1. CASE FreeFds(s.tab) = {}
  <2>1. PICK t : t = [s EXCEPT !.fd = -1]
    OBVIOUS
  <2>2. /\ t \in SockSteps /\ t.fd = -1 /\ t.tab = s.tab /\ t.down = s.down /\ t.failed = s.failed
        /\ t.wrong = s.wrong
    BY <2>1 DEF SockSteps
  <2> QED BY <1>1, <2>1, <2>2 DEF OpenFd, HoldsItsOwn
<1>2. CASE FreeFds(s.tab) # {}
  <2>1. PICK f : f = LowestFree(s.tab)
    OBVIOUS
  <2>2. f \in SFds /\ s.tab \in [SFds -> FdRecords]
    BY <1>2, <2>1, LowestIsFree DEF FreeFds, SockSteps
  <2>3. PICK r : r = [FreeFd EXCEPT !.owner = "socket", !.fam = fam]
    OBVIOUS
  <2>4. r \in FdRecords /\ r.owner = "socket" /\ r.rt = 0
    BY <2>3 DEF FreeFd, FdRecords
  <2>5. PICK tab : tab = [s.tab EXCEPT ![f] = r]
    OBVIOUS
  <2>6. tab \in [SFds -> FdRecords] /\ tab[f] = r /\ \A g \in SFds \ {f} : tab[g] = s.tab[g]
    BY <2>2, <2>4, <2>5
  <2>7. PICK t : t = OpenFd(s, fam)
    OBVIOUS
  <2>8. t = [s EXCEPT !.fd = f, !.tab = tab]
    BY <1>2, <2>1, <2>3, <2>5, <2>7 DEF OpenFd, SockSteps
  <2>9. /\ t \in SockSteps /\ t.fd = f /\ t.tab = tab /\ t.down = s.down /\ t.failed = s.failed
        /\ t.wrong = s.wrong
    BY <2>2, <2>6, <2>8 DEF SockSteps
  <2>10. \A g \in SFds : OwnFd(tab, g) => g = f
    BY <2>6, NumbersOfFds DEF HoldsItsOwn, OwnFd
  <2>11. OwnFd(tab, f)
    BY <2>2, <2>4, <2>6 DEF OwnFd
  <2>12. HoldsItsOwn(t)
    BY <2>9, <2>10, <2>11 DEF HoldsItsOwn
  <2> QED BY <2>2, <2>4, <2>6, <2>7, <2>9, <2>11, <2>12 DEF Own, Fd
<1> QED BY <1>1, <1>2

(* A refused bind closes the descriptor whose number stays. *)
LEMMA BindToIs ==
  ASSUME NEW s \in SockSteps, HoldsItsOwn(s), NEW bind
  PROVE  LET t == BindTo(s, bind)
         IN /\ t \in SockSteps /\ HoldsItsOwn(t) /\ t.fd = s.fd /\ t.down = s.down
            /\ bind # "refused" => t = s
<1>1. CASE bind = "refused"
  <2>1. PICK tab : tab = CloseFd(s.tab, s.fd)
    OBVIOUS
  <2>2. tab \in [SFds -> FdRecords] /\ \A f \in SFds : OwnFd(tab, f) => OwnFd(s.tab, f)
    BY <2>1, FreeFdRecord DEF CloseFd, SockSteps, OwnFd
  <2>3. PICK t : t = [s EXCEPT !.tab = tab, !.failed = TRUE]
    OBVIOUS
  <2>4. /\ t \in SockSteps /\ t.fd = s.fd /\ t.tab = tab /\ t.down = s.down /\ t.failed
    BY <2>2, <2>3 DEF SockSteps
  <2>5. HoldsItsOwn(t)
    BY <2>2, <2>4 DEF HoldsItsOwn
  <2> QED BY <1>1, <2>1, <2>3, <2>4, <2>5 DEF BindTo
<1>2. CASE bind # "refused"
  BY <1>2 DEF BindTo
<1> QED BY <1>1, <1>2

(* Another record for the descriptor of the socket. *)
LEMMA FdChanged ==
  ASSUME NEW s \in SockSteps, HoldsItsOwn(s), Own(s), NEW r \in FdRecords, r.owner = "socket",
         NEW t, t = [s EXCEPT !.tab = [s.tab EXCEPT ![s.fd] = r]]
  PROVE  /\ t \in SockSteps /\ HoldsItsOwn(t) /\ t.fd = s.fd /\ t.down = s.down /\ Own(t) /\ Fd(t) = r
<1>1. s.fd \in SFds /\ s.tab \in [SFds -> FdRecords]
  BY DEF Own, OwnFd, SockSteps
<1>2. PICK tab : tab = [s.tab EXCEPT ![s.fd] = r]
  OBVIOUS
<1>3. tab \in [SFds -> FdRecords] /\ tab[s.fd] = r /\ \A g \in SFds \ {s.fd} : tab[g] = s.tab[g]
  BY <1>1, <1>2
<1>4. /\ t \in SockSteps /\ t.fd = s.fd /\ t.tab = tab /\ t.down = s.down /\ t.failed = s.failed
      /\ t.wrong = s.wrong
  BY <1>2, <1>3 DEF SockSteps
<1>5. HoldsItsOwn(t)
  BY <1>1, <1>3, <1>4 DEF HoldsItsOwn, OwnFd
<1>6. Own(t) /\ Fd(t) = r
  BY <1>1, <1>3, <1>4 DEF Own, OwnFd, Fd
<1> QED BY <1>4, <1>5, <1>6

(* What an option leaves of the descriptor. *)
SameFd(s, t) == Fd(t).st = Fd(s).st /\ Fd(t).shut = Fd(s).shut /\ Fd(t).fam = Fd(s).fam

LEMMA OptionRtIs ==
  ASSUME NEW s \in SockSteps, HoldsItsOwn(s), NEW val \in Nat
  PROVE  LET t == Option(s, "rt", val)
         IN /\ t \in SockSteps /\ HoldsItsOwn(t) /\ t.fd = s.fd /\ t.down = s.down /\ Own(t) = Own(s)
            /\ ~Own(s) => t = s
            /\ Own(s) => SameFd(s, t) /\ Fd(t).rt = val /\ Fd(t).nb = Fd(s).nb
<1>1. CASE ~Own(s)
  BY <1>1 DEF Option, Own
<1>2. CASE Own(s)
  <2>1. Fd(s) \in FdRecords /\ Fd(s).owner = "socket"
    BY <1>2 DEF Own, OwnFd, Fd, SockSteps
  <2>2. PICK r : r = [Fd(s) EXCEPT !.rt = val]
    OBVIOUS
  <2>3. /\ r \in FdRecords /\ r.owner = "socket" /\ r.rt = val /\ r.nb = Fd(s).nb /\ r.st = Fd(s).st
        /\ r.shut = Fd(s).shut /\ r.fam = Fd(s).fam
    BY <2>1, <2>2 DEF FdRecords
  <2>4. PICK t : t = Option(s, "rt", val)
    OBVIOUS
  <2>5. t = [s EXCEPT !.tab = [s.tab EXCEPT ![s.fd] = r]]
    BY <1>2, <2>2, <2>4 DEF Option, Own, OwnFd, Fd, SockSteps
  <2>6. /\ t \in SockSteps /\ HoldsItsOwn(t) /\ t.fd = s.fd /\ t.down = s.down /\ Own(t) /\ Fd(t) = r
    BY <1>2, <2>3, <2>5, FdChanged
  <2> QED BY <1>2, <2>3, <2>4, <2>6 DEF SameFd
<1> QED BY <1>1, <1>2

LEMMA OptionNbIs ==
  ASSUME NEW s \in SockSteps, HoldsItsOwn(s), NEW val \in BOOLEAN
  PROVE  LET t == Option(s, "nb", val)
         IN /\ t \in SockSteps /\ HoldsItsOwn(t) /\ t.fd = s.fd /\ t.down = s.down /\ Own(t) = Own(s)
            /\ ~Own(s) => t = s
            /\ Own(s) => SameFd(s, t) /\ Fd(t).nb = val /\ Fd(t).rt = Fd(s).rt
<1>1. CASE ~Own(s)
  BY <1>1 DEF Option, Own
<1>2. CASE Own(s)
  <2>1. Fd(s) \in FdRecords /\ Fd(s).owner = "socket"
    BY <1>2 DEF Own, OwnFd, Fd, SockSteps
  <2>2. PICK r : r = [Fd(s) EXCEPT !.nb = val]
    OBVIOUS
  <2>3. /\ r \in FdRecords /\ r.owner = "socket" /\ r.nb = val /\ r.rt = Fd(s).rt /\ r.st = Fd(s).st
        /\ r.shut = Fd(s).shut /\ r.fam = Fd(s).fam
    BY <2>1, <2>2 DEF FdRecords
  <2>4. PICK t : t = Option(s, "nb", val)
    OBVIOUS
  <2>5. t = [s EXCEPT !.tab = [s.tab EXCEPT ![s.fd] = r]]
    BY <1>2, <2>2, <2>4 DEF Option, Own, OwnFd, Fd, SockSteps
  <2>6. /\ t \in SockSteps /\ HoldsItsOwn(t) /\ t.fd = s.fd /\ t.down = s.down /\ Own(t) /\ Fd(t) = r
    BY <1>2, <2>3, <2>5, FdChanged
  <2> QED BY <1>2, <2>3, <2>4, <2>6 DEF SameFd
<1> QED BY <1>1, <1>2

(* connect and listen change the state of the descriptor. *)
LEMMA StateIs ==
  ASSUME NEW s \in SockSteps, HoldsItsOwn(s), Own(s),
         NEW x \in {"fresh", "connecting", "connected", "listening"}
  PROVE  LET t == [s EXCEPT !.tab[s.fd].st = x]
         IN /\ t \in SockSteps /\ HoldsItsOwn(t) /\ t.fd = s.fd /\ t.down = s.down /\ Own(t)
            /\ Fd(t).st = x /\ Fd(t).shut = Fd(s).shut /\ Fd(t).rt = Fd(s).rt /\ Fd(t).nb = Fd(s).nb
<1>1. Fd(s) \in FdRecords /\ Fd(s).owner = "socket"
  BY DEF Own, OwnFd, Fd, SockSteps
<1>2. PICK r : r = [Fd(s) EXCEPT !.st = x]
  OBVIOUS
<1>3. /\ r \in FdRecords /\ r.owner = "socket" /\ r.st = x /\ r.rt = Fd(s).rt /\ r.nb = Fd(s).nb
      /\ r.shut = Fd(s).shut
  BY <1>1, <1>2 DEF FdRecords
<1>4. PICK t : t = [s EXCEPT !.tab[s.fd].st = x]
  OBVIOUS
<1>5. t = [s EXCEPT !.tab = [s.tab EXCEPT ![s.fd] = r]]
  BY <1>2, <1>4 DEF Own, OwnFd, Fd, SockSteps
<1>6. /\ t \in SockSteps /\ HoldsItsOwn(t) /\ t.fd = s.fd /\ t.down = s.down /\ Own(t) /\ Fd(t) = r
  BY <1>3, <1>5, FdChanged
<1> QED BY <1>3, <1>4, <1>6

(* iShutdown: only st and shut of the descriptor change, and a first one of a connection
   ends both directions. *)
LEMMA ShutSocketIs ==
  ASSUME NEW s \in SockSteps, HoldsItsOwn(s), NEW mode \in SUBSET {"rd", "wr"}
  PROVE  LET t == ShutSocket(s, mode)
         IN /\ t \in SockSteps /\ HoldsItsOwn(t) /\ t.fd = s.fd /\ Own(t) = Own(s)
            /\ s.fd = -1 => t = s
            /\ Own(s) => /\ Fd(t).rt = Fd(s).rt /\ Fd(t).nb = Fd(s).nb
                         /\ Fd(s).st = "connected" => Fd(t).st = "connected"
                         /\ Fd(s).st = "connected" /\ s.down = {} /\ mode = {"rd", "wr"}
                              => Fd(t).shut = {"rd", "wr"}
<1>1. CASE Fresh(s, mode) = {}
  <2>1. ShutSocket(s, mode) = s
    BY <1>1 DEF ShutSocket
  <2>2. s.fd # -1 => mode \subseteq s.down
    BY <1>1 DEF Fresh
  <2>3. Own(s) => s.fd # -1
    BY NumbersOfFds DEF Own, OwnFd
  <2> QED BY <2>1, <2>2, <2>3
<1>2. CASE Fresh(s, mode) # {}
  <2>1. /\ s.fd # -1 /\ s.fd \in SFds /\ Fresh(s, mode) \subseteq {"rd", "wr"}
        /\ s.tab \in [SFds -> FdRecords] /\ s.down \in SUBSET {"rd", "wr"}
        /\ s.down = {} => Fresh(s, mode) = mode
    BY <1>2 DEF Fresh, SockSteps
  <2>2. PICK dirs \in SUBSET {"rd", "wr"} : dirs = Fresh(s, mode)
    BY <2>1
  <2>3. PICK old \in FdRecords : old = s.tab[s.fd]
    BY <2>1
  <2>4. PICK r : r = IF old.st = "fresh" THEN old
                     ELSE IF old.st = "connecting" THEN [old EXCEPT !.st = "fresh"]
                     ELSE [old EXCEPT !.shut = @ \cup dirs]
    OBVIOUS
  <2>5. /\ r \in FdRecords /\ r.owner = old.owner /\ r.rt = old.rt /\ r.nb = old.nb
        /\ old.st = "connected" => r.st = "connected" /\ r.shut = old.shut \cup dirs
    <3>1. CASE old.st = "fresh"
      BY <2>4, <3>1
    <3>2. CASE old.st = "connecting"
      BY <2>4, <3>2 DEF FdRecords
    <3>3. CASE old.st # "fresh" /\ old.st # "connecting"
      <4>1. old.shut \cup dirs \in SUBSET {"rd", "wr"}
        BY DEF FdRecords
      <4> QED BY <2>4, <3>3, <4>1 DEF FdRecords
    <3> QED BY <3>1, <3>2, <3>3
  <2>6. PICK tab : tab = [s.tab EXCEPT ![s.fd] = r]
    OBVIOUS
  <2>7. tab \in [SFds -> FdRecords] /\ tab[s.fd] = r /\ \A g \in SFds \ {s.fd} : tab[g] = s.tab[g]
    BY <2>1, <2>5, <2>6
  <2>8. PICK t : t = ShutSocket(s, mode)
    OBVIOUS
  <2>9. t = [s EXCEPT !.down = @ \cup dirs, !.wrong = @ \/ Misses(s.tab, s.fd), !.tab = tab]
    <3>1. (IF s.fd \notin SFds \/ s.tab[s.fd].st = "fresh" THEN s.tab
           ELSE IF s.tab[s.fd].st = "connecting" THEN [s.tab EXCEPT ![s.fd].st = "fresh"]
           ELSE [s.tab EXCEPT ![s.fd].shut = @ \cup dirs]) = tab
      <4>1. CASE old.st = "fresh"
        BY <2>1, <2>3, <2>4, <2>6, <4>1
      <4>2. CASE old.st # "fresh"
        BY <2>1, <2>3, <2>4, <2>6, <4>2
      <4> QED BY <4>1, <4>2
    <3> QED BY <1>2, <2>2, <2>8, <3>1 DEF ShutSocket
  <2>10. s.down \cup dirs \in SUBSET {"rd", "wr"} /\ (s.wrong \/ Misses(s.tab, s.fd)) \in BOOLEAN
    BY <2>1
  <2>11. /\ t \in SockSteps /\ t.fd = s.fd /\ t.tab = tab /\ t.failed = s.failed
         /\ t.wrong = (s.wrong \/ Misses(s.tab, s.fd))
    BY <2>7, <2>9, <2>10 DEF SockSteps
  <2>12. \A f \in SFds : OwnFd(tab, f) = OwnFd(s.tab, f)
    BY <2>3, <2>5, <2>7 DEF OwnFd
  <2>13. HoldsItsOwn(t)
    <3>1. s.wrong \/ Misses(s.tab, s.fd) => s.failed
      BY <2>1 DEF HoldsItsOwn, Misses
    <3> QED BY <2>1, <2>11, <2>12, <3>1 DEF HoldsItsOwn
  <2>14. Own(t) = Own(s) /\ Fd(s) = old /\ Fd(t) = r
    BY <2>1, <2>3, <2>7, <2>11, <2>12 DEF Own, Fd
  <2>15. old.st = "connected" /\ s.down = {} /\ mode = {"rd", "wr"} => r.shut = {"rd", "wr"}
    BY <2>1, <2>2, <2>5 DEF FdRecords
  <2> QED BY <2>1, <2>5, <2>8, <2>11, <2>13, <2>14, <2>15
<1> QED BY <1>1, <1>2

(* The end of a connection that is given up. *)
LEMMA GivenUpIs ==
  ASSUME NEW s \in SockSteps, HoldsItsOwn(s)
  PROVE  LET t == CloseSocket(ShutSocket(s, {"rd", "wr"}))
         IN t \in SockSteps /\ HoldsItsOwn(t) /\ t.fd = -1 /\ ~Own(t) /\ (s.fd = -1 => t = s)
<1>1. PICK u : u = ShutSocket(s, {"rd", "wr"})
  OBVIOUS
<1>2. u \in SockSteps /\ HoldsItsOwn(u) /\ (s.fd = -1 => u = s)
  BY <1>1, ShutSocketIs
<1>3. PICK t : t = CloseSocket(u)
  OBVIOUS
<1>4. t \in SockSteps /\ HoldsItsOwn(t) /\ t.fd = -1 /\ ~Own(t)
  BY <1>2, <1>3, CloseSocketIs
<1>5. s.fd = -1 => t = s
  BY <1>2, <1>3 DEF CloseSocket
<1> QED BY <1>1, <1>3, <1>4, <1>5

LEMMA BecomeIs ==
  ASSUME NEW t \in SockSteps, Become(t)
  PROVE  Now' = t /\ sfd' = t.fd /\ stab' = t.tab /\ sdown' = t.down
BY DEF Become, Now, SockSteps

LEMMA NowIs ==
  /\ Now.fd = sfd /\ Now.tab = stab /\ Now.down = sdown
  /\ OwnFd(stab, sfd) = Own(Now) /\ (Own(Now) => stab[sfd] = Fd(Now))
BY DEF Now, Own, Fd

LEMMA FinishIs ==
  ASSUME NEW ok \in BOOLEAN, Finish(ok)
  PROVE  /\ sop' \in [pc : {"idle", "next", "connect", "select", "returned"}, addrs : Seq({4, 6}),
                      fam : {0, 4, 6}, ok : BOOLEAN]
         /\ sop'.pc = "returned" /\ sop'.ok = ok
<1>1. <<>> \in Seq({4, 6})
  OBVIOUS
<1>2. sop' = [pc |-> "returned", addrs |-> <<>>, fam |-> 0, ok |-> ok]
  BY DEF Finish, IdleOp
<1> QED BY <1>1, <1>2

(* A step that opens: the counter of the descriptors goes up. *)
LEMMA OpeningStep ==
  ASSUME SockInv, NEW t \in SockSteps, HoldsItsOwn(t), Become(t), sopens' = sopens + 1,
         t.fd # -1 => t.down = sdown,
         UNCHANGED <<skind, sctl, scalls>>, skind # "none", slisten' \in BOOLEAN, srtime' \in Nat,
         sop' \in SopTypes,
         sop'.pc \in {"connect", "select"} =>
           sop'.addrs # <<>> /\ srtime' = 0 /\ (Own(t) => Fd(t).rt = 0),
         ~(sop'.pc = "returned" /\ sop'.ok /\ skind = "TCP" /\ ~slisten')
  PROVE  SockInv'
<1>1. Now' = t /\ sfd' = t.fd /\ stab' = t.tab /\ sdown' = t.down
  BY BecomeIs
<1>2. OwnFd(stab', sfd') = Own(t) /\ (Own(t) => stab'[sfd'] = Fd(t)) /\ (Own(t) => t.fd # -1)
  BY <1>1, NumbersOfFds DEF Own, Fd, OwnFd
<1>3. sopens \in Nat
  BY DEF SockInv, SockTypes, SopTypes
<1>4. SockTypes'
  BY <1>1, <1>3 DEF SockInv, SockTypes, SopTypes
<1>5. HoldsItsOwn(Now)'
  BY <1>1 DEF HoldsItsOwn
<1>6. TriedWithoutTimeout'
  BY <1>2 DEF TriedWithoutTimeout
<1>7. sopens' # 0 /\ (sopens' = 1 => sdown = {} /\ sctl.pc = "idle")
  BY <1>3 DEF SockInv, ShutByCallsOnly
<1>8. ShutByCallsOnly'
  BY <1>1, <1>2, <1>7 DEF SockInv, ShutByCallsOnly
<1>9. ConnectedIsUsable'
  BY DEF ConnectedIsUsable
<1>10. FirstShutdownEnds'
  BY <1>7 DEF FirstShutdownEnds
<1> QED BY <1>4, <1>5, <1>6, <1>8, <1>9, <1>10 DEF SockInv

(* A step of the first thread that opens nothing: what was shut down stays so. *)
LEMMA UsingStep ==
  ASSUME SockInv, NEW t \in SockSteps, HoldsItsOwn(t), Become(t),
         Own(t) => t.fd = sfd /\ Own(Now) /\ Fd(Now).shut = Fd(t).shut,
         t.fd # -1 => t.down = sdown, sfd = -1 => t.fd = -1 /\ t.down = sdown,
         UNCHANGED <<skind, slisten, sctl, sopens, scalls>>, srtime' \in Nat, sop' \in SopTypes,
         skind # "none",
         sop'.pc \in {"connect", "select"} =>
           sop'.addrs # <<>> /\ srtime' = 0 /\ (Own(t) => Fd(t).rt = 0),
         sop'.pc = "returned" /\ sop'.ok /\ skind = "TCP" /\ ~slisten /\ Own(t) =>
           Fd(t).st = "connected" /\ ~Fd(t).nb /\ Fd(t).rt = srtime' /\ srtime' \in {0, 7, 9}
  PROVE  SockInv'
<1>1. Now' = t /\ sfd' = t.fd /\ stab' = t.tab /\ sdown' = t.down
  BY BecomeIs
<1>2. OwnFd(stab', sfd') = Own(t) /\ (Own(t) => stab'[sfd'] = Fd(t)) /\ (Own(t) => t.fd # -1)
  BY <1>1, NumbersOfFds DEF Own, Fd, OwnFd
<1>3. Own(t) => OwnFd(stab, sfd) /\ stab'[sfd'].shut = stab[sfd].shut
  BY <1>2, NowIs
<1>4. SockTypes'
  BY <1>1 DEF SockInv, SockTypes, SopTypes
<1>5. HoldsItsOwn(Now)'
  BY <1>1 DEF HoldsItsOwn
<1>6. TriedWithoutTimeout'
  BY <1>2 DEF TriedWithoutTimeout
<1>7. ShutByCallsOnly'
  BY <1>1, <1>2, <1>3 DEF SockInv, ShutByCallsOnly
<1>8. ConnectedIsUsable'
  BY <1>2 DEF ConnectedIsUsable
<1>9. FirstShutdownEnds'
  BY <1>2, <1>3 DEF SockInv, FirstShutdownEnds
<1> QED BY <1>4, <1>5, <1>6, <1>7, <1>8, <1>9 DEF SockInv

LEMMA NowBecomes ==
  ASSUME UNCHANGED <<sdown, sfd, stab, sbindFailed, swrong>> PROVE Become(Now)
BY DEF Become, Now

LEMMA SockNow == SockInv => Now \in SockSteps /\ HoldsItsOwn(Now) /\ sop \in SopTypes
BY DEF SockInv, SockTypes, SopTypes

(* The rest of the process opens and closes descriptors of its own only. *)
LEMMA OthersStep ==
  ASSUME SockInv, stab' \in [SFds -> FdRecords],
         \A f \in SFds : OwnFd(stab', f) = OwnFd(stab, f) /\ (OwnFd(stab, f) => stab'[f] = stab[f]),
         UNCHANGED <<sObject, sfd, sop, sctl, sopens, scalls, sbindFailed, swrong>>
  PROVE  SockInv'
<1>1. /\ UNCHANGED <<skind, sdown, slisten, srtime, sfd, sop, sctl, sopens, scalls, sbindFailed, swrong>>
  BY DEF sObject
<1>2. Now \in SockSteps /\ HoldsItsOwn(Now)
  BY SockNow
<1>3. OwnFd(stab', sfd) = OwnFd(stab, sfd) /\ (OwnFd(stab, sfd) => stab'[sfd] = stab[sfd])
  <2>1. CASE sfd \in SFds
    BY <2>1
  <2>2. CASE sfd \notin SFds
    BY <2>2 DEF OwnFd
  <2> QED BY <2>1, <2>2
<1>4. Now' \in SockSteps
  BY <1>1, <1>2 DEF Now, SockSteps
<1>5. SockTypes'
  BY <1>1, <1>4 DEF SockInv, SockTypes, SopTypes
<1>6. HoldsItsOwn(Now)'
  BY <1>1, <1>2, <1>3 DEF HoldsItsOwn, Now
<1>7. TriedWithoutTimeout' /\ ShutByCallsOnly' /\ ConnectedIsUsable' /\ FirstShutdownEnds'
  BY <1>1, <1>3 DEF SockInv, TriedWithoutTimeout, ShutByCallsOnly, ConnectedIsUsable, FirstShutdownEnds
<1> QED BY <1>5, <1>6, <1>7 DEF SockInv

LEMMA ForeignStep ==
  ASSUME SockInv,
         OthersOpen \/ AcceptTCP \/ AcceptUNIX \/ AcceptedCloses
  PROVE  SockInv'
<1>1. stab \in [SFds -> FdRecords] /\ srtime \in Nat
  BY SockNow DEF SockInv, SockTypes, SopTypes, SockSteps, Now
<1>2. ASSUME NEW r \in FdRecords, r.owner # "socket", NEW f \in SFds, stab[f].owner # "socket",
             stab' = [stab EXCEPT ![f] = r],
             UNCHANGED <<sObject, sfd, sop, sctl, sopens, scalls, sbindFailed, swrong>>
      PROVE  SockInv'
  <2>1. stab' \in [SFds -> FdRecords]
    BY <1>1, <1>2
  <2>2. \A g \in SFds : OwnFd(stab', g) = OwnFd(stab, g) /\ (OwnFd(stab, g) => stab'[g] = stab[g])
    BY <1>1, <1>2 DEF OwnFd
  <2> QED BY <1>2, <2>1, <2>2, OthersStep
<1>3. CASE OthersOpen
  <2>1. LowestFree(stab) \in SFds /\ stab[LowestFree(stab)].owner # "socket"
    BY <1>3, LowestIsFree DEF OthersOpen, FreeFds
  <2>2. [FreeFd EXCEPT !.owner = "other"] \in FdRecords /\ [FreeFd EXCEPT !.owner = "other"].owner # "socket"
    BY DEF FreeFd, FdRecords
  <2> QED BY <1>2, <1>3, <2>1, <2>2 DEF OthersOpen
<1>4. ASSUME NEW k, NEW rt \in Nat, Accepts(k, rt) PROVE SockInv'
  <2>1. LowestFree(stab) \in SFds /\ stab[LowestFree(stab)].owner # "socket"
    BY <1>4, LowestIsFree DEF Accepts, FreeFds
  <2>2. PICK r : r = [FreeFd EXCEPT !.owner = "accepted", !.st = "connected", !.rt = rt]
    OBVIOUS
  <2>3. r \in FdRecords /\ r.owner # "socket"
    BY <2>2 DEF FreeFd, FdRecords
  <2> QED BY <1>2, <1>4, <2>1, <2>2, <2>3 DEF Accepts
<1>5. CASE AcceptedCloses
  <2>1. PICK f \in SFds : /\ stab[f].owner = "accepted" /\ stab' = [stab EXCEPT ![f] = FreeFd]
                          /\ UNCHANGED <<sObject, sfd, sop, sctl, sopens, scalls, sbindFailed, swrong>>
    BY <1>5 DEF AcceptedCloses, CloseFd
  <2> QED BY <1>2, <2>1, FreeFdRecord
<1> QED BY <1>1, <1>3, <1>4, <1>5 DEF AcceptTCP, AcceptUNIX

LEMMA StartConnectStep ==
  ASSUME SockInv, StartConnect \/ NoMoreAddresses PROVE SockInv'
<1>1. /\ Become(Now) /\ UNCHANGED <<skind, slisten, srtime, sctl, sopens, scalls>>
      /\ srtime \in Nat /\ skind # "none"
  BY NowBecomes DEF StartConnect, NoMoreAddresses, sObject, SockInv, SockTypes, SopTypes, TriedWithoutTimeout
<1>2. sop' \in SopTypes /\ (sop'.pc = "next" \/ (sop'.pc = "returned" /\ ~sop'.ok))
  <2>1. CASE Finish(FALSE)
    BY <2>1, FinishIs DEF SopTypes
  <2>2. ASSUME NEW a \in SNames, sop' = [IdleOp EXCEPT !.pc = "next", !.addrs = a, !.fam = Head(a)]
        PROVE  sop' \in SopTypes /\ sop'.pc = "next"
    <3>1. a \in Seq({4, 6}) /\ a # <<>>
      BY SockAssumption
    <3>2. Head(a) \in {4, 6}
      BY <3>1
    <3>3. sop' = [pc |-> "next", addrs |-> a, fam |-> Head(a), ok |-> FALSE]
      BY <2>2 DEF IdleOp
    <3> QED BY <3>1, <3>2, <3>3 DEF SopTypes
  <2> QED BY <2>1, <2>2 DEF StartConnect, NoMoreAddresses
<1>3. Now \in SockSteps /\ HoldsItsOwn(Now) /\ Now.fd = sfd /\ Now.down = sdown
  BY SockNow, NowIs
<1> QED BY <1>1, <1>2, <1>3, UsingStep

LEMMA TailTypes ==
  ASSUME SockInv, sop.addrs # <<>>, sop' = [sop EXCEPT !.pc = "next", !.addrs = Tail(@)]
  PROVE  sop' \in SopTypes /\ sop'.pc = "next"
<1>1. sop.addrs \in Seq({4, 6})
  BY DEF SockInv, SockTypes, SopTypes
<1>2. Tail(sop.addrs) \in Seq({4, 6})
  BY <1>1
<1> QED BY <1>2 DEF SockInv, SockTypes, SopTypes

LEMMA NextAddressStep ==
  ASSUME SockInv, NEW bind \in {"none", "unparsed", "refused"}, NEW ipv6 \in BOOLEAN, NextAddress(bind, ipv6)
  PROVE  SockInv'
<1>1. PICK s0, s1, s2, s3 : /\ s0 = CloseSocket(Now) /\ s1 = OpenFd(s0, sop.fam)
                            /\ s2 = BindTo(s1, bind) /\ s3 = Option(s2, "rt", 0)
  OBVIOUS
<1>2. Now \in SockSteps /\ HoldsItsOwn(Now) /\ sop \in SopTypes /\ sop.fam \in {0, 4, 6}
  BY SockNow DEF SopTypes
<1>3. s0 \in SockSteps /\ HoldsItsOwn(s0) /\ s0.fd = -1 /\ s0.down = sdown
  BY <1>1, <1>2, CloseSocketIs, NowIs
<1>4. s1 \in SockSteps /\ HoldsItsOwn(s1) /\ s1.down = sdown
  BY <1>1, <1>2, <1>3, OpenFdIs
<1>5. s2 \in SockSteps /\ HoldsItsOwn(s2) /\ s2.down = sdown
  BY <1>1, <1>4, BindToIs
<1>6. s3 \in SockSteps /\ HoldsItsOwn(s3) /\ s3.down = sdown /\ (Own(s3) => Fd(s3).rt = 0)
  BY <1>1, <1>5, OptionRtIs
<1>7. /\ sop.pc = "next" /\ sop.addrs # <<>> /\ sopens' = sopens + 1 /\ skind # "none"
      /\ UNCHANGED <<skind, slisten, sctl, scalls>>
      /\ srtime \in Nat /\ slisten \in BOOLEAN
  BY DEF NextAddress, SockInv, SockTypes, SopTypes, TriedWithoutTimeout
<1>8. CASE Finish(FALSE) /\ UNCHANGED srtime /\ (Become(s1) \/ Become(s2))
  <2>1. sop' \in SopTypes /\ sop'.pc = "returned" /\ ~sop'.ok
    BY <1>8, FinishIs DEF SopTypes
  <2> QED BY <1>4, <1>5, <1>7, <1>8, <2>1, OpeningStep
<1>9. CASE /\ Become(CloseSocket(ShutSocket(s3, {"rd", "wr"}))) /\ srtime' = 0
           /\ sop' = [sop EXCEPT !.addrs = Tail(@)]
  <2>1. PICK t : t = CloseSocket(ShutSocket(s3, {"rd", "wr"}))
    OBVIOUS
  <2>2. t \in SockSteps /\ HoldsItsOwn(t) /\ t.fd = -1
    BY <1>6, <2>1, GivenUpIs
  <2>3. sop' = [sop EXCEPT !.pc = "next", !.addrs = Tail(@)]
    BY <1>2, <1>7, <1>9 DEF SopTypes
  <2>4. sop' \in SopTypes /\ sop'.pc = "next"
    BY <1>7, <2>3, TailTypes
  <2> QED BY <1>7, <1>9, <2>1, <2>2, <2>4, OpeningStep
<1>10. CASE Become(s3) /\ srtime' = 0 /\ sop' = [sop EXCEPT !.pc = "connect"]
  <2>1. sop' \in SopTypes /\ sop'.pc = "connect" /\ sop'.addrs = sop.addrs
    BY <1>2, <1>10 DEF SopTypes
  <2> QED BY <1>6, <1>7, <1>10, <2>1, OpeningStep
<1> QED BY <1>1, <1>8, <1>9, <1>10 DEF NextAddress

LEMMA TcpConnectStep ==
  ASSUME SockInv, NEW outcome \in {"error", "immediate", "progress"}, TcpConnect(outcome) PROVE SockInv'
<1>1. /\ sop.pc = "connect" /\ sop.addrs # <<>> /\ skind # "none" /\ srtime = 0
      /\ UNCHANGED <<skind, slisten, srtime, sctl, sopens, scalls>>
  BY DEF TcpConnect, SockInv, TriedWithoutTimeout
<1>2. /\ Now \in SockSteps /\ HoldsItsOwn(Now) /\ sop \in SopTypes /\ Now.fd = sfd /\ Now.down = sdown
      /\ Own(Now) => Fd(Now).rt = 0
  BY <1>1, SockNow, NowIs DEF SockInv, TriedWithoutTimeout
<1>3. PICK s1 : s1 = Option(Now, "nb", TRUE)
  OBVIOUS
<1>4. /\ s1 \in SockSteps /\ HoldsItsOwn(s1) /\ s1.fd = sfd /\ s1.down = sdown /\ Own(s1) = Own(Now)
      /\ Own(s1) => Fd(s1).shut = Fd(Now).shut /\ Fd(s1).rt = 0
  BY <1>2, <1>3, OptionNbIs DEF SameFd
<1>5. CASE Become(s1) /\ sop' = [sop EXCEPT !.pc = "next", !.addrs = Tail(@)]
  <2>1. sop' \in SopTypes /\ sop'.pc = "next"
    BY <1>1, <1>5, TailTypes
  <2> QED BY <1>1, <1>4, <1>5, <2>1, UsingStep
<1>6. CASE /\ OwnFd(stab, sfd)
           /\ Become([Option(s1, "nb", FALSE) EXCEPT !.tab[sfd].st = "connected"])
           /\ sop' = [sop EXCEPT !.pc = "next", !.addrs = Tail(@)]
  <2>1. sop' \in SopTypes /\ sop'.pc = "next"
    BY <1>1, <1>6, TailTypes
  <2>2. PICK s2 : s2 = Option(s1, "nb", FALSE)
    OBVIOUS
  <2>3. /\ s2 \in SockSteps /\ HoldsItsOwn(s2) /\ s2.fd = sfd /\ s2.down = sdown /\ Own(s2)
        /\ Fd(s2).shut = Fd(Now).shut
    BY <1>4, <1>6, <2>2, OptionNbIs, NowIs DEF SameFd
  <2>4. PICK t : t = [s2 EXCEPT !.tab[s2.fd].st = "connected"]
    OBVIOUS
  <2>5. /\ t \in SockSteps /\ HoldsItsOwn(t) /\ t.fd = sfd /\ t.down = sdown /\ Own(t)
        /\ Fd(t).shut = Fd(Now).shut
    BY <2>3, <2>4, StateIs
  <2>6. Become(t)
    BY <1>6, <2>2, <2>3, <2>4
  <2>7. Own(Now)
    BY <1>6, NowIs
  <2> QED BY <1>1, <1>4, <2>1, <2>3, <2>5, <2>6, <2>7, UsingStep
<1>7. CASE /\ OwnFd(stab, sfd) /\ Become([s1 EXCEPT !.tab[sfd].st = "connecting"])
           /\ sop' = [sop EXCEPT !.pc = "select"]
  <2>1. sop' \in SopTypes /\ sop'.pc = "select" /\ sop'.addrs = sop.addrs
    BY <1>2, <1>7 DEF SopTypes
  <2>2. PICK t : t = [s1 EXCEPT !.tab[s1.fd].st = "connecting"]
    OBVIOUS
  <2>3. Own(s1)
    BY <1>4, <1>7, NowIs
  <2>4. /\ t \in SockSteps /\ HoldsItsOwn(t) /\ t.fd = sfd /\ t.down = sdown /\ Own(t)
        /\ Fd(t).shut = Fd(Now).shut /\ Fd(t).rt = 0
    BY <1>4, <2>2, <2>3, StateIs
  <2>5. Become(t)
    BY <1>4, <1>7, <2>2
  <2> QED BY <1>1, <1>4, <2>1, <2>3, <2>4, <2>5, UsingStep
<1> QED BY <1>3, <1>5, <1>6, <1>7 DEF TcpConnect

LEMMA SelectedStep ==
  ASSUME SockInv, NEW outcome, NEW override \in {-1, 7}, NEW protocol \in BOOLEAN,
         Selected(outcome, override, protocol)
  PROVE  SockInv'
<1>1. /\ sop.pc = "select" /\ sop.addrs # <<>> /\ skind # "none" /\ srtime = 0
      /\ UNCHANGED <<skind, slisten, sctl, sopens, scalls>>
  BY DEF Selected, SockInv, TriedWithoutTimeout
<1>2. /\ Now \in SockSteps /\ HoldsItsOwn(Now) /\ Now.fd = sfd /\ Now.down = sdown
      /\ Own(Now) => Fd(Now).rt = 0
  BY <1>1, SockNow, NowIs DEF SockInv, TriedWithoutTimeout
<1>3. CASE Become(Now) /\ sop' = [sop EXCEPT !.pc = "next", !.addrs = Tail(@)] /\ UNCHANGED srtime
  <2>1. sop' \in SopTypes /\ sop'.pc = "next"
    BY <1>1, <1>3, TailTypes
  <2> QED BY <1>1, <1>2, <1>3, <2>1, UsingStep
<1>4. PICK s0, s1, s2 : /\ s0 = Option(Now, "nb", FALSE) /\ s1 = [s0 EXCEPT !.tab[sfd].st = "connected"]
                        /\ s2 = IF override # -1 THEN Option(s1, "rt", override) ELSE s1
  OBVIOUS
<1>5. CASE /\ OwnFd(stab, sfd) /\ srtime' = (IF override # -1 THEN override ELSE srtime) /\ Finish(protocol)
           /\ Become(IF protocol THEN s2 ELSE CloseSocket(ShutSocket(s2, {"rd", "wr"})))
  <2>1. sop' \in SopTypes /\ sop'.pc = "returned" /\ sop'.ok = protocol
    BY <1>5, FinishIs DEF SopTypes
  <2>2. srtime' \in {0, 7} /\ srtime' \in Nat
    BY <1>1, <1>5
  <2>3. Own(Now)
    BY <1>5, NowIs
  <2>4. /\ s0 \in SockSteps /\ HoldsItsOwn(s0) /\ s0.fd = sfd /\ s0.down = sdown /\ Own(s0)
        /\ Fd(s0).shut = Fd(Now).shut /\ ~Fd(s0).nb /\ Fd(s0).rt = 0
    BY <1>2, <1>4, <2>3, OptionNbIs DEF SameFd
  <2>5. /\ s1 \in SockSteps /\ HoldsItsOwn(s1) /\ s1.fd = sfd /\ s1.down = sdown /\ Own(s1)
        /\ Fd(s1).shut = Fd(Now).shut /\ ~Fd(s1).nb /\ Fd(s1).rt = 0 /\ Fd(s1).st = "connected"
    <3>1. s1 = [s0 EXCEPT !.tab[s0.fd].st = "connected"]
      BY <1>4, <2>4
    <3> QED BY <2>4, <3>1, StateIs
  <2>6. /\ s2 \in SockSteps /\ HoldsItsOwn(s2) /\ s2.fd = sfd /\ s2.down = sdown /\ Own(s2)
        /\ Fd(s2).shut = Fd(Now).shut /\ ~Fd(s2).nb /\ Fd(s2).rt = srtime' /\ Fd(s2).st = "connected"
    <3>1. CASE override = -1
      BY <1>1, <1>4, <1>5, <2>5, <3>1
    <3>2. CASE override # -1
      <4>1. override \in Nat /\ s2 = Option(s1, "rt", override) /\ srtime' = override
        BY <1>4, <1>5, <3>2
      <4> QED BY <2>5, <4>1, OptionRtIs DEF SameFd
    <3> QED BY <3>1, <3>2
  <2>7. CASE protocol
    <3>1. Become(s2)
      BY <1>5, <2>7
    <3> QED BY <1>1, <2>1, <2>2, <2>3, <2>6, <3>1, NumbersOfFds, UsingStep DEF Own, OwnFd
  <2>8. CASE ~protocol
    <3>1. PICK t : t = CloseSocket(ShutSocket(s2, {"rd", "wr"}))
      OBVIOUS
    <3>2. t \in SockSteps /\ HoldsItsOwn(t) /\ t.fd = -1 /\ ~Own(t) /\ Become(t) /\ sfd # -1
      BY <1>5, <2>6, <2>8, <3>1, GivenUpIs, NumbersOfFds DEF OwnFd
    <3> QED BY <1>1, <2>1, <2>2, <2>8, <3>2, UsingStep
  <2> QED BY <2>7, <2>8
<1> QED BY <1>3, <1>4, <1>5 DEF Selected

(* UNIX and UDP: what was open is closed, then one descriptor is opened; only TCP
   connections that are reported have to be usable. *)
LEMMA OpenAgain ==
  ASSUME SockInv, NEW s1, s1 = OpenFd(CloseSocket(Now), 4)
  PROVE  /\ s1 \in SockSteps /\ HoldsItsOwn(s1) /\ s1.down = sdown
         /\ s1.fd # -1 => Own(s1)
<1>1. PICK s0 : s0 = CloseSocket(Now)
  OBVIOUS
<1>2. s0 \in SockSteps /\ HoldsItsOwn(s0) /\ s0.fd = -1 /\ s0.down = sdown
  BY <1>1, SockNow, NowIs, CloseSocketIs
<1> QED BY <1>1, <1>2, OpenFdIs

LEMMA ConnectUNIXStep ==
  ASSUME SockInv, NEW outcome \in {"error", "ready"}, ConnectUNIX(outcome) PROVE SockInv'
<1>1. PICK s1, s2 : s1 = OpenFd(CloseSocket(Now), 4) /\ s2 = Option(s1, "rt", 30)
  OBVIOUS
<1>2. s1 \in SockSteps /\ HoldsItsOwn(s1) /\ s1.down = sdown /\ (s1.fd # -1 => Own(s1))
  BY <1>1, OpenAgain
<1>3. s2 \in SockSteps /\ HoldsItsOwn(s2) /\ s2.down = sdown /\ s2.fd = s1.fd /\ Own(s2) = Own(s1)
  BY <1>1, <1>2, OptionRtIs
<1>4. PICK ok \in BOOLEAN : ok = (s1.fd # -1 /\ outcome = "ready")
  OBVIOUS
<1>5. /\ skind = "UNIX" /\ sopens' = sopens + 1 /\ UNCHANGED <<skind, slisten, sctl, scalls>>
      /\ srtime' \in Nat /\ slisten \in BOOLEAN /\ Finish(ok)
      /\ Become(IF s1.fd = -1 \/ outcome = "error" THEN s2 ELSE [s2 EXCEPT !.tab[s2.fd].st = "connected"])
  BY <1>1, <1>4 DEF ConnectUNIX, MayOpen, SockInv, SockTypes, SopTypes
<1>6. sop' \in SopTypes /\ sop'.pc = "returned"
  BY <1>5, FinishIs DEF SopTypes
<1>7. CASE s1.fd = -1 \/ outcome = "error"
  BY <1>3, <1>5, <1>6, <1>7, OpeningStep
<1>8. CASE ~(s1.fd = -1 \/ outcome = "error")
  <2>1. PICK t : t = [s2 EXCEPT !.tab[s2.fd].st = "connected"]
    OBVIOUS
  <2>2. t \in SockSteps /\ HoldsItsOwn(t) /\ t.down = sdown
    BY <1>2, <1>3, <1>8, <2>1, StateIs
  <2>3. Become(t)
    BY <1>5, <1>8, <2>1
  <2> QED BY <1>5, <1>6, <2>2, <2>3, OpeningStep
<1> QED BY <1>7, <1>8

LEMMA ConnectUDPStep ==
  ASSUME SockInv, NEW bind, NEW outcome \in {"error", "ready"}, ConnectUDP(bind, outcome) PROVE SockInv'
<1>1. PICK s0, s1, s2, s3 : /\ s0 = CloseSocket(Now) /\ s1 = OpenFd(s0, 4) /\ s2 = BindTo(s1, bind)
                            /\ s3 = Option(s2, "rt", 30)
  OBVIOUS
<1>2. s0 \in SockSteps /\ HoldsItsOwn(s0) /\ s0.fd = -1
  BY <1>1, SockNow, CloseSocketIs
<1>3. s1 \in SockSteps /\ HoldsItsOwn(s1) /\ s1.down = sdown /\ (s1.fd # -1 => Own(s1))
  BY <1>1, OpenAgain
<1>4. s2 \in SockSteps /\ HoldsItsOwn(s2) /\ s2.down = sdown /\ (bind # "refused" => s2 = s1)
  BY <1>1, <1>3, BindToIs
<1>5. s3 \in SockSteps /\ HoldsItsOwn(s3) /\ s3.down = sdown /\ Own(s3) = Own(s2)
  BY <1>1, <1>4, OptionRtIs
<1>6. PICK ok \in BOOLEAN : ok = (outcome = "ready" /\ s1.fd # -1 /\ BindOK(bind))
  OBVIOUS
<1>7. /\ skind = "UDP" /\ sopens' = sopens + 1 /\ UNCHANGED <<skind, slisten, sctl, scalls>>
      /\ srtime' \in Nat /\ slisten \in BOOLEAN /\ Finish(ok)
      /\ Become(IF outcome = "error" THEN s0
                ELSE IF s1.fd = -1 THEN s1
                ELSE IF ~BindOK(bind) THEN s2
                ELSE [s3 EXCEPT !.tab[s3.fd].st = "connected"])
  BY <1>1, <1>6 DEF ConnectUDP, MayOpen, SockInv, SockTypes, SopTypes
<1>8. sop' \in SopTypes /\ sop'.pc = "returned"
  BY <1>7, FinishIs DEF SopTypes
<1>9. ASSUME NEW t \in SockSteps, HoldsItsOwn(t), t.down = sdown \/ t.fd = -1, Become(t) PROVE SockInv'
  BY <1>7, <1>8, <1>9, OpeningStep
<1>10. CASE outcome = "error" \/ s1.fd = -1 \/ ~BindOK(bind)
  BY <1>2, <1>3, <1>4, <1>7, <1>9, <1>10
<1>11. CASE ~(outcome = "error" \/ s1.fd = -1 \/ ~BindOK(bind))
  <2>1. PICK t : t = [s3 EXCEPT !.tab[s3.fd].st = "connected"]
    OBVIOUS
  <2>2. Own(s3)
    BY <1>3, <1>4, <1>5, <1>11 DEF BindOK
  <2>3. t \in SockSteps /\ HoldsItsOwn(t) /\ t.down = sdown
    BY <1>5, <2>1, <2>2, StateIs
  <2>4. Become(t)
    BY <1>7, <1>11, <2>1
  <2> QED BY <1>9, <2>3, <2>4
<1> QED BY <1>10, <1>11

(* listenOn of the three kinds. *)
LEMMA ListeningIs ==
  ASSUME NEW s \in SockSteps, HoldsItsOwn(s), Own(s)
  PROVE  Listening(s) \in SockSteps /\ HoldsItsOwn(Listening(s)) /\ Listening(s).down = s.down
BY StateIs DEF Listening

LEMMA ListenTCPStep ==
  ASSUME SockInv, NEW bind, NEW listens \in BOOLEAN, ListenTCP(bind, listens) PROVE SockInv'
<1>1. PICK s1, s2 : s1 = OpenFd(Now, 4) /\ s2 = BindTo(s1, bind)
  OBVIOUS
<1>2. PICK done \in BOOLEAN : done = (s1.fd # -1 /\ BindOK(bind) /\ listens)
  OBVIOUS
<1>3. /\ skind = "TCP" /\ sfd = -1 /\ sopens' = sopens + 1 /\ UNCHANGED <<skind, srtime, sctl, scalls>>
      /\ srtime \in Nat /\ slisten \in BOOLEAN /\ slisten' = (slisten \/ done) /\ Finish(done)
      /\ Become(IF s1.fd = -1 THEN s1
                ELSE IF ~BindOK(bind) THEN s2
                ELSE IF ~listens THEN CloseSocket(s2) ELSE Listening(s2))
  BY <1>1, <1>2 DEF ListenTCP, MayOpen, SockInv, SockTypes, SopTypes
<1>4. s1 \in SockSteps /\ HoldsItsOwn(s1) /\ s1.down = sdown /\ (s1.fd # -1 => Own(s1))
  BY <1>1, <1>3, SockNow, NowIs, OpenFdIs
<1>5. s2 \in SockSteps /\ HoldsItsOwn(s2) /\ s2.down = sdown /\ (bind # "refused" => s2 = s1)
  BY <1>1, <1>4, BindToIs
<1>6. sop' \in SopTypes /\ sop'.pc = "returned" /\ sop'.ok = done
  BY <1>3, FinishIs DEF SopTypes
<1>7. ASSUME NEW t \in SockSteps, HoldsItsOwn(t), t.down = sdown, Become(t) PROVE SockInv'
  BY <1>3, <1>6, <1>7, OpeningStep
<1>8. CASE s1.fd = -1 \/ ~BindOK(bind)
  BY <1>3, <1>4, <1>5, <1>7, <1>8
<1>9. CASE s1.fd # -1 /\ BindOK(bind) /\ ~listens
  <2>1. PICK t : t = CloseSocket(s2)
    OBVIOUS
  <2>2. t \in SockSteps /\ HoldsItsOwn(t) /\ t.down = sdown
    BY <1>5, <2>1, CloseSocketIs
  <2> QED BY <1>3, <1>7, <1>9, <2>1, <2>2
<1>10. CASE s1.fd # -1 /\ BindOK(bind) /\ listens
  <2>1. Own(s2)
    BY <1>4, <1>5, <1>10 DEF BindOK
  <2>2. Listening(s2) \in SockSteps /\ HoldsItsOwn(Listening(s2)) /\ Listening(s2).down = sdown
    BY <1>5, <2>1, ListeningIs
  <2> QED BY <1>3, <1>7, <1>10, <2>2
<1> QED BY <1>8, <1>9, <1>10

LEMMA ListenUDPStep ==
  ASSUME SockInv, NEW bind, ListenUDP(bind) PROVE SockInv'
<1>1. PICK s1, s2 : s1 = OpenFd(CloseSocket(Now), 4) /\ s2 = BindTo(s1, bind)
  OBVIOUS
<1>2. PICK done \in BOOLEAN : done = (s1.fd # -1 /\ BindOK(bind))
  OBVIOUS
<1>3. /\ skind = "UDP" /\ sopens' = sopens + 1 /\ UNCHANGED <<skind, srtime, sctl, scalls>>
      /\ srtime \in Nat /\ slisten \in BOOLEAN /\ slisten' = (slisten \/ done) /\ Finish(done)
      /\ Become(IF s1.fd = -1 THEN s1 ELSE IF done THEN Listening(s2) ELSE s2)
  BY <1>1, <1>2 DEF ListenUDP, MayOpen, SockInv, SockTypes, SopTypes
<1>4. s1 \in SockSteps /\ HoldsItsOwn(s1) /\ s1.down = sdown /\ (s1.fd # -1 => Own(s1))
  BY <1>1, OpenAgain
<1>5. s2 \in SockSteps /\ HoldsItsOwn(s2) /\ s2.down = sdown /\ (bind # "refused" => s2 = s1)
  BY <1>1, <1>4, BindToIs
<1>6. sop' \in SopTypes /\ sop'.pc = "returned"
  BY <1>3, FinishIs DEF SopTypes
<1>7. ASSUME NEW t \in SockSteps, HoldsItsOwn(t), t.down = sdown, Become(t) PROVE SockInv'
  BY <1>3, <1>6, <1>7, OpeningStep
<1>8. CASE ~done
  BY <1>3, <1>4, <1>5, <1>7, <1>8
<1>9. CASE done
  <2>1. Own(s2) /\ s1.fd # -1
    BY <1>2, <1>4, <1>5, <1>9 DEF BindOK
  <2>2. Listening(s2) \in SockSteps /\ HoldsItsOwn(Listening(s2)) /\ Listening(s2).down = sdown
    BY <1>5, <2>1, ListeningIs
  <2> QED BY <1>3, <1>7, <1>9, <2>1, <2>2
<1> QED BY <1>8, <1>9

LEMMA ListenUNIXStep ==
  ASSUME SockInv, NEW listens \in BOOLEAN, ListenUNIX(listens) PROVE SockInv'
<1>1. PICK s1 : s1 = OpenFd(CloseSocket(Now), 4)
  OBVIOUS
<1>2. PICK done \in BOOLEAN : done = (s1.fd # -1 /\ listens)
  OBVIOUS
<1>3. /\ skind = "UNIX" /\ sopens' = sopens + 1 /\ UNCHANGED <<skind, srtime, sctl, scalls>>
      /\ srtime \in Nat /\ slisten \in BOOLEAN /\ slisten' = (slisten \/ done) /\ Finish(done)
      /\ Become(IF done THEN Listening(s1) ELSE CloseSocket(s1))
  BY <1>1, <1>2 DEF ListenUNIX, MayOpen, SockInv, SockTypes, SopTypes
<1>4. s1 \in SockSteps /\ HoldsItsOwn(s1) /\ s1.down = sdown /\ (s1.fd # -1 => Own(s1))
  BY <1>1, OpenAgain
<1>5. sop' \in SopTypes /\ sop'.pc = "returned"
  BY <1>3, FinishIs DEF SopTypes
<1>6. ASSUME NEW t \in SockSteps, HoldsItsOwn(t), t.down = sdown, Become(t) PROVE SockInv'
  BY <1>3, <1>5, <1>6, OpeningStep
<1>7. CASE ~done
  <2>1. PICK t : t = CloseSocket(s1)
    OBVIOUS
  <2>2. t \in SockSteps /\ HoldsItsOwn(t) /\ t.down = sdown
    BY <1>4, <2>1, CloseSocketIs
  <2> QED BY <1>3, <1>6, <1>7, <2>1, <2>2
<1>8. CASE done
  <2>1. Listening(s1) \in SockSteps /\ HoldsItsOwn(Listening(s1)) /\ Listening(s1).down = sdown
    BY <1>2, <1>4, <1>8, ListeningIs
  <2> QED BY <1>3, <1>6, <1>8, <2>1
<1> QED BY <1>7, <1>8

LEMMA UseStep ==
  ASSUME SockInv, WriteDatagram \/ SetReadTimeout(9) \/ IsConnected PROVE SockInv'
<1>1. /\ Now \in SockSteps /\ HoldsItsOwn(Now) /\ sop \in SopTypes /\ Now.fd = sfd /\ Now.down = sdown
      /\ srtime \in Nat /\ sop.pc = "returned" /\ skind # "none" /\ sfd # -1
  BY SockNow, NowIs DEF SockInv, SockTypes, SopTypes, TriedWithoutTimeout, WriteDatagram, SetReadTimeout, IsConnected
<1>2. CASE WriteDatagram
  <2>1. PICK t : t = [Now EXCEPT !.wrong = @ \/ Misses(stab, sfd)]
    OBVIOUS
  <2>2. /\ t \in SockSteps /\ t.fd = sfd /\ t.tab = stab /\ t.down = sdown
        /\ t.failed = Now.failed /\ t.wrong = (Now.wrong \/ Misses(stab, sfd))
    BY <1>1, <2>1, NowIs DEF SockSteps
  <2>3. HoldsItsOwn(t)
    <3>1. Misses(stab, sfd) => Now.failed
      BY <1>1, NowIs DEF HoldsItsOwn, Misses
    <3> QED BY <1>1, <2>2, <3>1, NowIs DEF HoldsItsOwn
  <2>4. Become(t) /\ skind = "UDP" /\ UNCHANGED <<skind, slisten, srtime, sop, sctl, sopens, scalls>>
    BY <1>2, <2>1 DEF WriteDatagram, Become, Now, sObject
  <2>5. Own(t) => Own(Now) /\ Fd(t) = Fd(Now)
    BY <2>2, NowIs DEF Own, Fd
  <2> QED BY <1>1, <2>2, <2>3, <2>4, <2>5, UsingStep
<1>3. CASE SetReadTimeout(9)
  <2>1. PICK t : t = IF slisten THEN Now ELSE Option(Now, "rt", 9)
    OBVIOUS
  <2>2. /\ t \in SockSteps /\ HoldsItsOwn(t) /\ t.fd = sfd /\ t.down = sdown /\ Own(t) = Own(Now)
        /\ Own(t) => Fd(t).shut = Fd(Now).shut /\ Fd(t).st = Fd(Now).st /\ Fd(t).nb = Fd(Now).nb
        /\ Own(t) /\ ~slisten => Fd(t).rt = 9
    BY <1>1, <2>1, OptionRtIs DEF SameFd
  <2>3. Become(t) /\ srtime' = 9 /\ UNCHANGED <<skind, slisten, sop, sctl, sopens, scalls>>
    BY <1>3, <2>1 DEF SetReadTimeout
  <2>4. sop.ok /\ skind = "TCP" /\ ~slisten /\ Own(Now) => Fd(Now).st = "connected" /\ ~Fd(Now).nb
    BY <1>1, NowIs DEF SockInv, ConnectedIsUsable
  <2> QED BY <1>1, <2>2, <2>3, <2>4, UsingStep
<1>4. CASE IsConnected
  <2>1. PICK t : t = CloseSocket(Now)
    OBVIOUS
  <2>2. t \in SockSteps /\ HoldsItsOwn(t) /\ t.fd = -1 /\ ~Own(t)
    BY <1>1, <2>1, CloseSocketIs
  <2>3. Become(t) /\ sop' = IdleOp /\ UNCHANGED <<skind, slisten, srtime, sctl, sopens, scalls>>
    BY <1>4, <2>1 DEF IsConnected
  <2>4. sop' \in SopTypes /\ sop'.pc = "idle"
    BY <2>3 DEF SopTypes, IdleOp
  <2> QED BY <1>1, <2>2, <2>3, <2>4, UsingStep
<1> QED BY <1>2, <1>3, <1>4

LEMMA NewSocketStep ==
  ASSUME SockInv, NEW k \in {"TCP", "UDP", "UNIX"}, NewSocket(k) PROVE SockInv'
<1>1. /\ UNCHANGED <<sdown, slisten, srtime, sfd, stab, sop, sctl, sopens, scalls, sbindFailed, swrong>>
      /\ skind' = k /\ sop.pc = "idle" /\ Now' = Now
  BY DEF NewSocket, SockInv, TriedWithoutTimeout, Now
<1> QED BY <1>1 DEF SockInv, SockTypes, SopTypes, HoldsItsOwn, TriedWithoutTimeout, ShutByCallsOnly, ConnectedIsUsable,
                    FirstShutdownEnds

(* The calls of the other thread. *)
LEMMA CallStep ==
  ASSUME SockInv, \/ \E mode \in SUBSET {"rd", "wr"} : StartCall("close", mode) \/ StartCall("shutdown", mode)
                  \/ ReturnToCaller
  PROVE  SockInv'
<1>1. /\ UNCHANGED <<skind, sdown, slisten, srtime, sfd, stab, sop, sopens, sbindFailed, swrong>>
      /\ Now' = Now
  BY DEF StartCall, ReturnToCaller, sObject, Now
<1>2. sctl \in [pc : {"idle", "close", "shutdown", "done"}, mode : SUBSET {"rd", "wr"}, on : Int]
      /\ scalls \in Nat
  BY DEF SockInv, SockTypes, SopTypes
<1>3. ASSUME NEW mode \in SUBSET {"rd", "wr"}, StartCall("close", mode) \/ StartCall("shutdown", mode)
      PROVE  SockInv'
  <2>1. /\ sctl' \in [pc : {"idle", "close", "shutdown", "done"}, mode : SUBSET {"rd", "wr"}, on : Int]
        /\ sctl'.pc \in {"close", "shutdown"} /\ scalls' = scalls + 1 /\ scalls' \in Nat /\ sfd # -1
    <3>1. PICK pc \in {"close", "shutdown"} : sctl' = [pc |-> pc, mode |-> mode, on |-> -1]
      BY <1>3 DEF StartCall
    <3>2. -1 \in Int
      OBVIOUS
    <3>3. scalls' = scalls + 1 /\ sfd # -1
      BY <1>3 DEF StartCall
    <3> QED BY <1>2, <3>1, <3>2, <3>3
  <2>2. SockTypes'
    BY <1>1, <2>1 DEF SockInv, SockTypes, SopTypes
  <2>3. HoldsItsOwn(Now)' /\ TriedWithoutTimeout' /\ ConnectedIsUsable'
    BY <1>1 DEF SockInv, HoldsItsOwn, TriedWithoutTimeout, ConnectedIsUsable
  <2>4. scalls' # 0 /\ (scalls' = 1 => scalls = 0)
    BY <1>2, <2>1
  <2>5. ShutByCallsOnly'
    BY <1>1, <2>1, <2>4 DEF SockInv, ShutByCallsOnly
  <2>6. FirstShutdownEnds'
    BY <2>1 DEF FirstShutdownEnds
  <2> QED BY <2>2, <2>3, <2>5, <2>6 DEF SockInv
<1>4. CASE ReturnToCaller
  <2>1. /\ sctl' \in [pc : {"idle", "close", "shutdown", "done"}, mode : SUBSET {"rd", "wr"}, on : Int]
        /\ sctl'.pc = "idle" /\ sctl.pc = "done" /\ scalls' = scalls
    BY <1>2, <1>4 DEF ReturnToCaller
  <2>2. SockTypes'
    BY <1>1, <1>2, <2>1 DEF SockInv, SockTypes, SopTypes
  <2>3. HoldsItsOwn(Now)' /\ TriedWithoutTimeout' /\ ConnectedIsUsable'
    BY <1>1 DEF SockInv, HoldsItsOwn, TriedWithoutTimeout, ConnectedIsUsable
  <2>4. ShutByCallsOnly' /\ FirstShutdownEnds'
    BY <1>1, <2>1 DEF SockInv, ShutByCallsOnly, FirstShutdownEnds
  <2> QED BY <2>2, <2>3, <2>4 DEF SockInv
<1> QED BY <1>3, <1>4

LEMMA TwoThreadsStep ==
  ASSUME SockInv, CloseTwoThreads \/ ShutdownTwoThreads PROVE SockInv'
<1>1. /\ UNCHANGED <<skind, slisten, srtime, sop, sopens, scalls>>
      /\ Now \in SockSteps /\ HoldsItsOwn(Now)
      /\ sctl \in [pc : {"idle", "close", "shutdown", "done"}, mode : SUBSET {"rd", "wr"}, on : Int]
      /\ sopens \in Nat /\ sctl.pc # "idle" /\ scalls # 0 /\ sopens # 0
  BY SockNow DEF CloseTwoThreads, ShutdownTwoThreads, SockInv, SockTypes, SopTypes, ShutByCallsOnly
<1>2. CASE CloseTwoThreads
  <2>1. PICK t : t = CloseSocket(Now)
    OBVIOUS
  <2>2. t \in SockSteps /\ HoldsItsOwn(t) /\ t.fd = -1 /\ ~Own(t) /\ Become(t)
    BY <1>1, <1>2, <2>1, CloseSocketIs DEF CloseTwoThreads
  <2>3. Now' = t /\ ~OwnFd(stab', sfd')
    BY <2>2, BecomeIs DEF Own
  <2>4. /\ sctl' \in [pc : {"idle", "close", "shutdown", "done"}, mode : SUBSET {"rd", "wr"}, on : Int]
    BY <1>1, <1>2 DEF CloseTwoThreads
  <2>5. SockTypes'
    BY <1>1, <2>2, <2>3, <2>4 DEF SockInv, SockTypes, SopTypes
  <2>6. HoldsItsOwn(Now)' /\ TriedWithoutTimeout' /\ ConnectedIsUsable' /\ ShutByCallsOnly'
        /\ FirstShutdownEnds'
    BY <1>1, <2>2, <2>3 DEF SockInv, HoldsItsOwn, TriedWithoutTimeout, ConnectedIsUsable, ShutByCallsOnly,
                            FirstShutdownEnds
  <2> QED BY <2>5, <2>6 DEF SockInv
<1>3. CASE ShutdownTwoThreads
  <2>1. PICK mode \in SUBSET {"rd", "wr"} : mode = sctl.mode
    BY <1>1
  <2>2. PICK t : t = ShutSocket(Now, mode)
    OBVIOUS
  <2>3. /\ t \in SockSteps /\ HoldsItsOwn(t) /\ t.fd = sfd /\ Own(t) = Own(Now)
        /\ Own(Now) => /\ Fd(t).rt = Fd(Now).rt /\ Fd(t).nb = Fd(Now).nb
                       /\ Fd(Now).st = "connected" => Fd(t).st = "connected"
                       /\ Fd(Now).st = "connected" /\ sdown = {} /\ mode = {"rd", "wr"}
                            => Fd(t).shut = {"rd", "wr"}
    BY <1>1, <2>2, ShutSocketIs, NowIs
  <2>4. Become(t) /\ sctl.pc = "shutdown"
    BY <1>3, <2>1, <2>2 DEF ShutdownTwoThreads
  <2>5. Now' = t /\ sfd' = t.fd /\ stab' = t.tab
    BY <2>3, <2>4, BecomeIs
  <2>6. OwnFd(stab', sfd') = OwnFd(stab, sfd)
        /\ (OwnFd(stab, sfd) => stab[sfd] = Fd(Now) /\ stab'[sfd'] = Fd(t) /\ Own(Now))
    BY <2>3, <2>5, NowIs DEF Own, Fd
  <2>7. /\ sctl' \in [pc : {"idle", "close", "shutdown", "done"}, mode : SUBSET {"rd", "wr"}, on : Int]
        /\ sctl'.pc = "done" /\ sctl'.mode = mode
        /\ sctl'.on = IF OwnFd(stab, sfd) /\ stab[sfd].st = "connected" THEN sopens ELSE -1
    <3>1. PICK on \in Int : on = IF OwnFd(stab, sfd) /\ stab[sfd].st = "connected" THEN sopens ELSE -1
      BY <1>1
    <3>2. sctl' = [sctl EXCEPT !.pc = "done", !.on = on]
      BY <1>3, <3>1 DEF ShutdownTwoThreads
    <3> QED BY <1>1, <2>1, <3>1, <3>2
  <2>8. SockTypes'
    BY <1>1, <2>3, <2>5, <2>7 DEF SockInv, SockTypes, SopTypes
  <2>9. HoldsItsOwn(Now)'
    BY <2>3, <2>5 DEF HoldsItsOwn
  <2>10. TriedWithoutTimeout' /\ ConnectedIsUsable'
    BY <1>1, <2>3, <2>6 DEF SockInv, TriedWithoutTimeout, ConnectedIsUsable
  <2>11. ShutByCallsOnly'
    BY <1>1, <2>7 DEF ShutByCallsOnly
  <2>12. FirstShutdownEnds'
    <3> SUFFICES ASSUME mode = {"rd", "wr"}, sctl'.on = sopens, OwnFd(stab, sfd), sopens = 1, scalls = 1
                 PROVE  Fd(t).shut = {"rd", "wr"}
      BY <1>1, <2>6, <2>7 DEF FirstShutdownEnds
    <3>1. Own(Now) /\ Fd(Now).st = "connected"
      BY <2>6, <2>7
    <3>2. sdown = {}
      BY <2>4 DEF SockInv, ShutByCallsOnly
    <3> QED BY <2>3, <3>1, <3>2
  <2> QED BY <2>8, <2>9, <2>10, <2>11, <2>12 DEF SockInv
<1> QED BY <1>2, <1>3

LEMMA SockInvInit == SockInit => SockInv
<1> SUFFICES ASSUME SockInit PROVE SockInv
  OBVIOUS
<1>1. Now \in SockSteps
  <2>1. stab \in [SFds -> FdRecords]
    BY FreeFdRecord DEF SockInit
  <2> QED BY <2>1 DEF SockInit, SockSteps, Now
<1>2. sop \in [pc : {"idle", "next", "connect", "select", "returned"}, addrs : Seq({4, 6}),
               fam : {0, 4, 6}, ok : BOOLEAN] /\ sop.pc = "idle"
  <2>1. <<>> \in Seq({4, 6})
    OBVIOUS
  <2> QED BY <2>1 DEF SockInit, IdleOp
<1>3. SockTypes
  <2>1. -1 \in Int
    OBVIOUS
  <2>2. sctl \in [pc : {"idle", "close", "shutdown", "done"}, mode : SUBSET {"rd", "wr"}, on : Int]
    BY <2>1 DEF SockInit
  <2>3. 300 \in Nat /\ 0 \in Nat
    OBVIOUS
  <2>4. /\ skind \in {"none", "TCP", "UDP", "UNIX"} /\ slisten \in BOOLEAN /\ srtime \in Nat
        /\ sopens \in Nat /\ scalls \in Nat
    BY <2>3, Zenon DEF SockInit
  <2> QED BY <1>1, <1>2, <2>2, <2>4 DEF SockTypes, SopTypes
<1>4. \A f : ~OwnFd(stab, f)
  BY FreeFdRecord DEF SockInit, OwnFd
<1>5. HoldsItsOwn(Now)
  BY <1>4, NowIs DEF SockInit, HoldsItsOwn, Now
<1>6. TriedWithoutTimeout /\ ShutByCallsOnly /\ ConnectedIsUsable /\ FirstShutdownEnds
  BY <1>2 DEF SockInit, TriedWithoutTimeout, ShutByCallsOnly, ConnectedIsUsable, FirstShutdownEnds
<1> QED BY <1>3, <1>5, <1>6 DEF SockInv

LEMMA SockInvStep == SockInv /\ [SockNext]_sockVars => SockInv'
<1> SUFFICES ASSUME SockInv, [SockNext]_sockVars PROVE SockInv'
  OBVIOUS
<1>1. CASE UNCHANGED sockVars
  <2>1. /\ UNCHANGED <<skind, sdown, slisten, srtime, sfd, stab, sop, sctl, sopens, scalls, sbindFailed, swrong>>
        /\ Now' = Now
    BY <1>1 DEF sockVars, sObject, Now
  <2> QED BY <2>1 DEF SockInv, SockTypes, SopTypes, HoldsItsOwn, TriedWithoutTimeout, ShutByCallsOnly, ConnectedIsUsable,
                      FirstShutdownEnds
<1>2. CASE \E k \in {"TCP", "UDP", "UNIX"} : NewSocket(k)
  BY <1>2, NewSocketStep
<1>3. CASE OthersOpen \/ AcceptTCP \/ AcceptUNIX \/ AcceptedCloses
  BY <1>3, ForeignStep
<1>4. CASE StartConnect \/ NoMoreAddresses
  BY <1>4, StartConnectStep
<1>5. CASE \E b \in {"none", "unparsed", "refused"}, v6 \in BOOLEAN : NextAddress(b, v6)
  BY <1>5, NextAddressStep
<1>6. CASE \E o \in {"error", "immediate", "progress"} : TcpConnect(o)
  BY <1>6, TcpConnectStep
<1>7. CASE \E o \in {"ready", "not ready"}, ov \in {-1, 7}, p \in BOOLEAN : Selected(o, ov, p)
  BY <1>7, SelectedStep
<1>8. CASE \E o \in {"error", "ready"} : ConnectUNIX(o) \/ \E b \in {"none", "refused"} : ConnectUDP(b, o)
  BY <1>8, ConnectUNIXStep, ConnectUDPStep
<1>9. CASE \E b \in {"good", "unparsed", "refused"} : ListenUDP(b) \/ \E l \in BOOLEAN : ListenTCP(b, l)
  BY <1>9, ListenUDPStep, ListenTCPStep
<1>10. CASE \E l \in BOOLEAN : ListenUNIX(l)
  BY <1>10, ListenUNIXStep
<1>11. CASE WriteDatagram \/ IsConnected \/ SetReadTimeout(9)
  BY <1>11, UseStep
<1>12. CASE \/ StartCall("close", {}) \/ StartCall("shutdown", {"rd", "wr"}) \/ StartCall("shutdown", {"wr"})
            \/ ReturnToCaller
  BY <1>12, CallStep
<1>13. CASE CloseTwoThreads \/ ShutdownTwoThreads
  BY <1>13, TwoThreadsStep
<1> QED BY <1>1, <1>2, <1>3, <1>4, <1>5, <1>6, <1>7, <1>8, <1>9, <1>10, <1>11, <1>12, <1>13 DEF SockNext

(* SocketSound, for any descriptors, names and number of opens and calls: whatever the
   other thread closes or shuts down meanwhile, a socket whose binds did not fail touches
   its own descriptor only and loses none, what connectFrom reports is a connection in
   blocking mode with the caller's timeout, and the first shutdownSocket ends it. *)
THEOREM SocketIsSound == SockSpec => []SocketSound
<1>1. SockInv => SocketSound
  <2> SUFFICES ASSUME SockInv PROVE TouchesItsOwn /\ NoneLost
    BY DEF SockInv, SocketSound
  <2> QED BY DEF SockInv, HoldsItsOwn, Now, TouchesItsOwn, NoneLost
<1> QED BY <1>1, SockInvInit, SockInvStep, PTL DEF SockSpec

-----------------------------------------------------------------------------
(* TLS sockets. *)

TFields == {"at", "setup", "option", "handle", "linked", "asked", "client", "sent", "wdown", "tcp", "ttl"}
Outside == {"none", "gone"}
Holding == {"link", "keys", "ask", "psk", "shake", "shaken", "open", "failed"}
Unasked == {"none", "tcp", "link", "keys", "ask", "shake", "gone"}
TRoles == {"server", "client"}

(* One socket at each stage: what it has of a handle, and what it was told. *)
StageKept(t) ==
  LET s == tsock[t]
  IN /\ DOMAIN s = TFields
     /\ s.at \in Outside \cup Holding \cup {"tcp", "unlink"}
     /\ s.handle \in THandles \cup {0} /\ s.linked \in {0, s.handle} /\ s.asked \in TSockets \cup {"none"}
     /\ s.at \in Outside \cup {"tcp"} => s.handle = 0
     /\ s.at = "link" => s.linked = 0
     /\ s.at \in Holding => s.handle \in tlive
     /\ s.at \in Unasked => s.asked = "none"
     /\ s.at \notin Outside => /\ s.setup \in TSetups
                               /\ s.option = s.setup.option \/ (s.option = "NOVALIDATE" /\ ~Authorities(t))
     /\ s.at \in {"ask", "psk"} => UsesPSK(t)
     /\ s.at = "shake" => ~UsesPSK(t)

TLSTypes ==
  /\ DOMAIN tsock = TSockets /\ \A t \in TSockets : StageKept(t)
  /\ tmap \in [TRoles -> [THandles -> TSockets \cup {"none"}]]
  /\ tlive \subseteq THandles /\ treused \subseteq TSockets

(* A handle in use is one socket's. *)
HandlesApart ==
  \A t, u \in TSockets :
    tsock[t].at \in Holding /\ tsock[u].at \in Holding /\ tsock[t].handle = tsock[u].handle => t = u

(* An entry of the map is of a socket that will take it out. *)
EntriesLinked ==
  \A r \in TRoles, h \in THandles : tmap[r][h] # "none" =>
    tsock[tmap[r][h]].linked = h /\ tsock[tmap[r][h]].at # "gone"

(* Who got another socket's wallet got it from one that is being destroyed. *)
AskedOfDying ==
  \A t, u \in TSockets : tsock[t].asked = u /\ t # u => tsock[u].at \in {"unlink", "gone"}

(* A handle that was not given out again while an entry was left is linked by its socket
   only, which therefore finds its own wallet. *)
LinkedAlone ==
  \A t \in TSockets \ treused, u \in TSockets :
    tsock[t].at \in Holding /\ tsock[u].linked = tsock[t].handle => t = u
OwnWallet ==
  \A t \in TSockets \ treused :
    /\ tsock[t].asked \in {"none", t}
    /\ tsock[t].at = "psk" => tsock[t].asked = t
    /\ tsock[t].at \in Holding \ {"link"} /\ UsesPSK(t) => tmap[Role(t)][tsock[t].handle] = t

(* What the handshake established stays until the connection is open. *)
PeerVerified(t) ==
  IF ~UsesPSK(t)
  THEN tsock[t].option # "NOVALIDATE" => tsock[t].setup.peer.cert = "trusted"
  ELSE Server(t) => /\ tsock[t].setup.peer.id \in DOMAIN TParent
                    /\ TParent[tsock[t].setup.peer.id] = tsock[t].setup.peer.psk
                    /\ tsock[t].client = tsock[t].setup.peer.id
ShakenVerified == \A t \in TSockets \ treused : tsock[t].at \in {"shaken", "open"} => PeerVerified(t)

TLSInv == TLSTypes /\ HandlesApart /\ EntriesLinked /\ AskedOfDying /\ LinkedAlone /\ OwnWallet /\ ShakenVerified

(* What a socket is told does not change with its stage. *)
LEMMA ToldBySetup ==
  ASSUME NEW t, tsock'[t].setup = tsock[t].setup
  PROVE  Role(t)' = Role(t) /\ Server(t)' = Server(t) /\ UsesPSK(t)' = UsesPSK(t) /\ Authorities(t)' = Authorities(t)
BY DEF Role, Server, UsesPSK, Authorities

(* The sockets that a step leaves alone. *)
LEMMA OtherStages ==
  ASSUME NEW u, tsock'[u] = tsock[u], StageKept(u), tsock[u].at \in Holding => tsock[u].handle \in tlive'
  PROVE  StageKept(u)'
<1>1. tsock'[u].setup = tsock[u].setup
  OBVIOUS
<1> QED BY <1>1, ToldBySetup DEF StageKept

(* A step of one socket that keeps its handle and its wallet. *)
LEMMA StageStep ==
  ASSUME TLSInv, NEW t \in TSockets, NEW r, tsock' = [tsock EXCEPT ![t] = r],
         UNCHANGED <<tmap, tlive, treused>>, DOMAIN r = TFields,
         r.handle = tsock[t].handle, r.linked = tsock[t].linked, r.asked = tsock[t].asked,
         r.setup = tsock[t].setup, r.client = tsock[t].client,
         tsock[t].at \in Holding \cup {"tcp"}, r.at \in Holding \cup {"tcp"},
         tsock[t].at = "tcp" <=> r.at = "tcp", tsock[t].at = "link" <=> r.at = "link",
         r.at \in Unasked => tsock[t].asked = "none",
         r.at = "psk" => tsock[t].at = "psk",
         r.option = tsock[t].option \/ (r.option = "NOVALIDATE" /\ ~Authorities(t)),
         r.at \in {"ask", "psk"} => UsesPSK(t),
         r.at = "shake" => ~UsesPSK(t),
         ShakenVerified'
  PROVE  TLSInv'
<1>1. DOMAIN tsock = TSockets /\ \A u \in TSockets : StageKept(u)
  BY DEF TLSInv, TLSTypes
<1>2. tsock'[t] = r /\ DOMAIN tsock' = TSockets /\ \A u \in TSockets : u # t => tsock'[u] = tsock[u]
  BY <1>1
<1>3. Role(t)' = Role(t) /\ UsesPSK(t)' = UsesPSK(t) /\ Authorities(t)' = Authorities(t)
  BY <1>2, ToldBySetup
<1>4. StageKept(t)'
  BY <1>1, <1>2, <1>3 DEF StageKept, Outside, Holding
<1>5. \A u \in TSockets : StageKept(u)'
  <2> SUFFICES ASSUME NEW u \in TSockets, u # t PROVE StageKept(u)'
    BY <1>4
  <2>1. tsock[u].at \in Holding => tsock[u].handle \in tlive'
    BY <1>1 DEF StageKept
  <2> QED BY <1>1, <1>2, <2>1, OtherStages
<1>6. TLSTypes'
  BY <1>2, <1>5 DEF TLSInv, TLSTypes
<1>7. \A u \in TSockets : /\ tsock'[u].handle = tsock[u].handle /\ tsock'[u].linked = tsock[u].linked
                          /\ tsock'[u].asked = tsock[u].asked /\ tsock'[u].setup = tsock[u].setup
                          /\ tsock'[u].at \in Holding <=> tsock[u].at \in Holding
                          /\ tsock'[u].at = "link" <=> tsock[u].at = "link"
                          /\ tsock[u].at \in {"unlink", "gone"} => tsock'[u].at = tsock[u].at
                          /\ tsock'[u].at = "gone" => tsock[u].at = "gone"
                          /\ tsock'[u].at = "psk" => tsock[u].at = "psk"
  BY <1>2 DEF Holding
<1>8. HandlesApart'
  BY <1>7 DEF TLSInv, HandlesApart
<1>9. EntriesLinked'
  <2>1. \A ro \in TRoles, h \in THandles : tmap[ro][h] # "none" => tmap[ro][h] \in TSockets
    BY DEF TLSInv, TLSTypes
  <2> QED BY <1>7, <2>1 DEF TLSInv, EntriesLinked
<1>10. AskedOfDying'
  BY <1>7 DEF TLSInv, AskedOfDying
<1>11. LinkedAlone'
  BY <1>7 DEF TLSInv, LinkedAlone
<1>12. OwnWallet'
  <2>1. \A u \in TSockets : Role(u)' = Role(u) /\ UsesPSK(u)' = UsesPSK(u)
    BY <1>7, ToldBySetup
  <2> QED BY <1>7, <2>1 DEF TLSInv, OwnWallet
<1> QED BY <1>6, <1>8, <1>9, <1>10, <1>11, <1>12 DEF TLSInv

(* Only the socket of the step can lose what its handshake established. *)
LEMMA VerifiedStep ==
  ASSUME TLSInv, NEW t \in TSockets, treused \subseteq treused',
         \A u \in TSockets : u # t => /\ tsock'[u].at = tsock[u].at /\ tsock'[u].option = tsock[u].option
                                      /\ tsock'[u].setup = tsock[u].setup
                                      /\ tsock[u].at \in {"shaken", "open"} => tsock'[u].client = tsock[u].client,
         t \notin treused' /\ tsock'[t].at \in {"shaken", "open"} => PeerVerified(t)'
  PROVE  ShakenVerified'
<1> SUFFICES ASSUME NEW u \in TSockets \ treused', tsock'[u].at \in {"shaken", "open"}, u # t
             PROVE  PeerVerified(u)'
  BY DEF ShakenVerified
<1>1. PeerVerified(u) /\ tsock'[u].client = tsock[u].client /\ tsock'[u].setup = tsock[u].setup
      /\ tsock'[u].option = tsock[u].option
  BY DEF TLSInv, ShakenVerified
<1>2. Server(u)' = Server(u) /\ UsesPSK(u)' = UsesPSK(u)
  BY <1>1, ToldBySetup
<1> QED BY <1>1, <1>2 DEF PeerVerified

(* The steps of a handshake that ask for no wallet, and those of the connection. *)
LEMMA HandshakeStep ==
  ASSUME TLSInv, NEW t \in TSockets,
         \/ StartTLSAgain(t) \/ InitTLSKeys(t) \/ Handshake(t) \/ HandshakeBreaks(t) \/ ValidateTLS(t)
         \/ WantAgain(t) \/ TLSCallReturns(t) \/ LayerError(t)
         \/ \E both \in BOOLEAN : ShutdownTLS(t, both)
  PROVE  TLSInv'
<1>1. DOMAIN tsock = TSockets /\ StageKept(t) /\ DOMAIN tsock[t] = TFields
  BY DEF TLSInv, TLSTypes, StageKept
<1>2. UNCHANGED <<tmap, tlive, treused>>
  BY DEF StartTLSAgain, InitTLSKeys, Handshake, HandshakeBreaks, ValidateTLS, WantAgain, TLSCallReturns,
         LayerError, ShutdownTLS
<1>3. ASSUME NEW r, tsock' = [tsock EXCEPT ![t] = r], DOMAIN r = TFields,
             r.handle = tsock[t].handle, r.linked = tsock[t].linked, r.asked = tsock[t].asked,
             r.setup = tsock[t].setup, r.client = tsock[t].client,
             tsock[t].at \in Holding \cup {"tcp"}, r.at \in Holding \cup {"tcp"},
             tsock[t].at = "tcp" <=> r.at = "tcp", tsock[t].at # "link", r.at # "link",
             r.at \in Unasked => tsock[t].asked = "none",
             r.at = "psk" => tsock[t].at = "psk",
             r.option = tsock[t].option \/ (r.option = "NOVALIDATE" /\ ~Authorities(t)),
             r.at \in {"ask", "psk"} => UsesPSK(t),
             r.at = "shake" => ~UsesPSK(t),
             r.at \in {"shaken", "open"} =>
               \/ tsock[t].at \in {"shaken", "open"} /\ r.option = tsock[t].option
               \/ ~UsesPSK(t) /\ (r.option # "NOVALIDATE" => tsock[t].setup.peer.cert = "trusted")
      PROVE  TLSInv'
  <2>1. tsock'[t] = r /\ \A u \in TSockets : u # t => tsock'[u] = tsock[u]
    BY <1>1, <1>3
  <2>2. Server(t)' = Server(t) /\ UsesPSK(t)' = UsesPSK(t)
    BY <1>3, <2>1, ToldBySetup
  <2>3. t \notin treused' /\ tsock'[t].at \in {"shaken", "open"} => PeerVerified(t)'
    <3> SUFFICES ASSUME t \notin treused, r.at \in {"shaken", "open"} PROVE PeerVerified(t)'
      BY <1>2, <2>1
    <3>1. CASE tsock[t].at \in {"shaken", "open"} /\ r.option = tsock[t].option
      BY <1>3, <2>1, <2>2, <3>1 DEF TLSInv, ShakenVerified, PeerVerified
    <3>2. CASE ~UsesPSK(t) /\ (r.option # "NOVALIDATE" => tsock[t].setup.peer.cert = "trusted")
      BY <1>3, <2>1, <2>2, <3>2 DEF PeerVerified
    <3> QED BY <1>3, <3>1, <3>2
  <2>4. treused \subseteq treused'
    BY <1>2
  <2>5. ShakenVerified'
    BY <2>1, <2>3, <2>4, VerifiedStep
  <2>6. tsock[t].at = "link" <=> r.at = "link"
    BY <1>3
  <2> QED BY <1>2, <1>3, <2>5, <2>6, StageStep
<1>4. CASE \E at : tsock' = [tsock EXCEPT ![t].at = at] /\ tsock[t].at \in Holding \ {"link"} /\ at \in {"failed", "shaken", "open"}
                   /\ (at \in {"shaken", "open"} => \/ tsock[t].at = "shaken"
                                                    \/ ~UsesPSK(t) /\ (tsock[t].option # "NOVALIDATE" => tsock[t].setup.peer.cert = "trusted"))
  <2>1. PICK at : tsock' = [tsock EXCEPT ![t].at = at] /\ tsock[t].at \in Holding \ {"link"} /\ at \in {"failed", "shaken", "open"}
                   /\ (at \in {"shaken", "open"} => \/ tsock[t].at = "shaken"
                                                    \/ ~UsesPSK(t) /\ (tsock[t].option # "NOVALIDATE" => tsock[t].setup.peer.cert = "trusted"))
    BY <1>4
  <2>2. PICK r : r = [tsock[t] EXCEPT !.at = at]
    OBVIOUS
  <2>3. tsock' = [tsock EXCEPT ![t] = r]
    BY <1>1, <2>1, <2>2
  <2>4. /\ DOMAIN r = TFields /\ r.at = at /\ r.handle = tsock[t].handle /\ r.linked = tsock[t].linked
        /\ r.asked = tsock[t].asked /\ r.setup = tsock[t].setup /\ r.client = tsock[t].client
        /\ r.option = tsock[t].option
    BY <1>1, <2>2 DEF TFields
  <2>5. /\ r.at \in Holding \cup {"tcp"} /\ tsock[t].at \in Holding \cup {"tcp"} /\ r.at # "tcp" /\ tsock[t].at # "tcp"
        /\ tsock[t].at # "link" /\ r.at # "link" /\ r.at \notin Unasked /\ r.at \notin {"ask", "psk", "shake"}
    BY <2>1, <2>4 DEF Holding, Unasked
  <2>6. r.at \in {"shaken", "open"} =>
               \/ tsock[t].at \in {"shaken", "open"} /\ r.option = tsock[t].option
               \/ ~UsesPSK(t) /\ (r.option # "NOVALIDATE" => tsock[t].setup.peer.cert = "trusted")
    BY <2>1, <2>4
  <2> QED BY <1>3, <2>3, <2>4, <2>5, <2>6
<1>5. CASE StartTLSAgain(t) \/ HandshakeBreaks(t)
  BY <1>4, <1>5 DEF StartTLSAgain, HandshakeBreaks, Goes, Holding
<1>6. CASE Handshake(t)
  <2>1. tsock[t].at = "shake" /\ ~UsesPSK(t)
    BY <1>1, <1>6 DEF Handshake, StageKept
  <2>2. PICK at : /\ tsock' = [tsock EXCEPT ![t].at = at]
                  /\ at = IF tsock[t].option = "NOVALIDATE" \/ tsock[t].setup.peer.cert = "trusted" THEN "shaken" ELSE "failed"
    BY <1>6 DEF Handshake, Goes
  <2>3. at \in {"failed", "shaken", "open"}
        /\ (at \in {"shaken", "open"} => (tsock[t].option # "NOVALIDATE" => tsock[t].setup.peer.cert = "trusted"))
    BY <2>2
  <2> QED BY <1>4, <2>1, <2>2, <2>3 DEF Holding
<1>7. CASE ValidateTLS(t)
  BY <1>4, <1>7 DEF ValidateTLS, Goes, Holding
<1>8. CASE InitTLSKeys(t)
  <2>1. CASE ~KeysComplete(t)
    <3>1. PICK at : tsock' = [tsock EXCEPT ![t].at = at] /\ at = "failed"
      BY <1>8, <2>1 DEF InitTLSKeys
    <3>2. tsock[t].at \in Holding \ {"link"}
      BY <1>8 DEF InitTLSKeys, Holding
    <3>3. at \in {"failed", "shaken", "open"} /\ at \notin {"shaken", "open"}
      BY <3>1
    <3> QED BY <1>4, <3>1, <3>2, <3>3
  <2>2. CASE KeysComplete(t)
    <3>1. PICK o, at : /\ tsock' = [tsock EXCEPT ![t].option = o, ![t].at = at]
                       /\ at = IF UsesPSK(t) THEN "ask" ELSE "shake"
                       /\ o = IF Authorities(t) THEN tsock[t].option ELSE "NOVALIDATE"
      BY <1>8, <2>2 DEF InitTLSKeys
    <3>2. PICK r : r = [tsock[t] EXCEPT !.option = o, !.at = at]
      OBVIOUS
    <3>3. tsock' = [tsock EXCEPT ![t] = r]
      BY <1>1, <3>1, <3>2 DEF TFields
    <3>4. /\ DOMAIN r = TFields /\ r.at = at /\ r.handle = tsock[t].handle /\ r.linked = tsock[t].linked
          /\ r.asked = tsock[t].asked /\ r.setup = tsock[t].setup /\ r.client = tsock[t].client
          /\ r.option = o
      BY <1>1, <3>2 DEF TFields
    <3>5. /\ tsock[t].at = "keys" /\ tsock[t].asked = "none"
      BY <1>1, <1>8 DEF InitTLSKeys, StageKept, Unasked
    <3> QED BY <1>3, <3>1, <3>3, <3>4, <3>5 DEF Holding
  <2> QED BY <2>1, <2>2
<1>9. CASE WantAgain(t) \/ TLSCallReturns(t) \/ LayerError(t) \/ \E both \in BOOLEAN : ShutdownTLS(t, both)
  <2>1. tsock[t].at \in {"open", "tcp", "failed"}
    BY <1>9 DEF WantAgain, TLSCallReturns, LayerError, ShutdownTLS
  <2>2. PICK r : /\ tsock' = [tsock EXCEPT ![t] = r] /\ DOMAIN r = TFields
                 /\ \A f \in TFields \ {"sent", "wdown", "tcp", "ttl"} : r[f] = tsock[t][f]
    <3>1. CASE WantAgain(t)
      <4>1. PICK n : tsock' = [tsock EXCEPT ![t].ttl = n]
        BY <3>1 DEF WantAgain
      <4>2. PICK r : r = [tsock[t] EXCEPT !.ttl = n]
        OBVIOUS
      <4> QED BY <1>1, <4>1, <4>2 DEF TFields
    <3>2. CASE TLSCallReturns(t)
      <4>1. PICK n : tsock' = [tsock EXCEPT ![t].ttl = n]
        BY <3>2 DEF TLSCallReturns
      <4>2. PICK r : r = [tsock[t] EXCEPT !.ttl = n]
        OBVIOUS
      <4> QED BY <1>1, <4>1, <4>2 DEF TFields
    <3>3. CASE LayerError(t)
      <4>1. PICK r : r = [TCPShutdown(tsock[t]) EXCEPT !.ttl = TRetries]
        OBVIOUS
      <4>2. tsock' = [tsock EXCEPT ![t] = r]
        BY <3>3, <4>1 DEF LayerError
      <4> QED BY <1>1, <4>1, <4>2 DEF TFields, TCPShutdown
    <3>4. CASE \E both \in BOOLEAN : ShutdownTLS(t, both)
      <4>1. CASE tsock' = [tsock EXCEPT ![t] = TCPShutdown(@)]
        <5>1. PICK r : r = TCPShutdown(tsock[t])
          OBVIOUS
        <5>2. tsock' = [tsock EXCEPT ![t] = r]
          BY <4>1, <5>1
        <5> QED BY <1>1, <5>1, <5>2 DEF TFields, TCPShutdown
      <4>2. CASE \E both \in BOOLEAN : tsock' = [tsock EXCEPT ![t].sent = TRUE, ![t].wdown = both]
        <5>1. PICK both \in BOOLEAN : tsock' = [tsock EXCEPT ![t].sent = TRUE, ![t].wdown = both]
          BY <4>2
        <5>2. PICK r : r = [tsock[t] EXCEPT !.sent = TRUE, !.wdown = both]
          OBVIOUS
        <5>3. tsock' = [tsock EXCEPT ![t] = r]
          BY <1>1, <5>1, <5>2 DEF TFields
        <5>4. DOMAIN r = TFields /\ \A f \in TFields \ {"sent", "wdown", "tcp", "ttl"} : r[f] = tsock[t][f]
          BY <1>1, <5>2 DEF TFields
        <5> QED BY <5>3, <5>4
      <4> QED BY <3>4, <4>1, <4>2 DEF ShutdownTLS
    <3> QED BY <1>9, <3>1, <3>2, <3>3, <3>4
  <2>3. /\ r.at = tsock[t].at /\ r.handle = tsock[t].handle /\ r.linked = tsock[t].linked
        /\ r.asked = tsock[t].asked /\ r.setup = tsock[t].setup /\ r.client = tsock[t].client
        /\ r.option = tsock[t].option
    BY <2>2 DEF TFields
  <2>4. r.at \in Unasked => tsock[t].asked = "none"
    BY <1>1, <2>3 DEF StageKept
  <2> QED BY <1>3, <2>1, <2>2, <2>3, <2>4 DEF Holding, Unasked
<1> QED BY <1>5, <1>6, <1>7, <1>8, <1>9


(* A step of one socket leaves what is said of the others. *)
LEMMA OneSocket ==
  ASSUME TLSInv, NEW t \in TSockets, NEW r, tsock' = [tsock EXCEPT ![t] = r], StageKept(t)',
         tmap' \in [TRoles -> [THandles -> TSockets \cup {"none"}]], tlive' \subseteq THandles,
         treused' \subseteq TSockets,
         \A u \in TSockets : u # t /\ tsock[u].at \in Holding => tsock[u].handle \in tlive'
  PROVE  /\ TLSTypes' /\ tsock'[t] = r
         /\ \A u \in TSockets : u # t => /\ tsock'[u] = tsock[u] /\ Role(u)' = Role(u) /\ UsesPSK(u)' = UsesPSK(u)
<1>1. DOMAIN tsock = TSockets /\ \A u \in TSockets : StageKept(u)
  BY DEF TLSInv, TLSTypes
<1>2. tsock'[t] = r /\ DOMAIN tsock' = TSockets /\ \A u \in TSockets : u # t => tsock'[u] = tsock[u]
  BY <1>1
<1>3. \A u \in TSockets : StageKept(u)'
  <2> SUFFICES ASSUME NEW u \in TSockets, u # t PROVE StageKept(u)'
    OBVIOUS
  <2> QED BY <1>1, <1>2, OtherStages
<1>4. TLSTypes'
  BY <1>2, <1>3 DEF TLSTypes
<1>5. \A u \in TSockets : u # t => Role(u)' = Role(u) /\ UsesPSK(u)' = UsesPSK(u)
  BY <1>2, ToldBySetup
<1> QED BY <1>2, <1>4, <1>5

LEMMA NewConnectionStep ==
  ASSUME TLSInv, NEW t \in TSockets, NEW s \in TSetups, NewConnection(t, s)
  PROVE  TLSInv'
<1>1. DOMAIN tsock = TSockets /\ \A u \in TSockets : StageKept(u)
  BY DEF TLSInv, TLSTypes
<1>2. PICK r : r = [NewTLS EXCEPT !.at = "tcp", !.setup = s, !.option = s.option]
  OBVIOUS
<1>3. tsock' = [tsock EXCEPT ![t] = r] /\ UNCHANGED <<tmap, tlive, treused>> /\ tsock[t].at = "none"
  BY <1>2 DEF NewConnection
<1>4. /\ DOMAIN r = TFields /\ r.at = "tcp" /\ r.setup = s /\ r.option = s.option /\ r.handle = 0 /\ r.linked = 0
      /\ r.asked = "none"
  BY <1>2 DEF NewTLS, TFields
<1>5. tsock'[t] = r
  BY <1>1, <1>3
<1>6. StageKept(t)'
  BY <1>4, <1>5 DEF StageKept, Outside, Holding, Unasked
<1>7. \A u \in TSockets : u # t /\ tsock[u].at \in Holding => tsock[u].handle \in tlive'
  BY <1>1, <1>3 DEF StageKept
<1>8. tmap' \in [TRoles -> [THandles -> TSockets \cup {"none"}]] /\ tlive' \subseteq THandles /\ treused' \subseteq TSockets
  BY <1>3 DEF TLSInv, TLSTypes
<1>9. /\ TLSTypes'
      /\ \A u \in TSockets : u # t => /\ tsock'[u] = tsock[u] /\ Role(u)' = Role(u) /\ UsesPSK(u)' = UsesPSK(u)
  BY <1>3, <1>6, <1>7, <1>8, OneSocket
<1>10. tsock[t].handle = 0 /\ tsock[t].linked = 0 /\ 0 \notin THandles
  BY <1>1, <1>3, TLSAssumption DEF StageKept, Outside
<1>11. HandlesApart'
  BY <1>4, <1>5, <1>9 DEF TLSInv, HandlesApart, Holding
<1>12. EntriesLinked'
  <2>1. \A ro \in TRoles, h \in THandles : tmap[ro][h] # "none" => tmap[ro][h] \in TSockets /\ tmap[ro][h] # t
    BY <1>10 DEF TLSInv, TLSTypes, EntriesLinked
  <2> QED BY <1>3, <1>9, <2>1 DEF TLSInv, EntriesLinked
<1>13. AskedOfDying'
  <2>1. \A u \in TSockets : u # t => tsock[u].asked # t
    BY <1>3 DEF TLSInv, AskedOfDying
  <2>2. "none" \notin TSockets
    BY TLSAssumption
  <2> QED BY <1>4, <1>5, <1>9, <2>1, <2>2 DEF TLSInv, AskedOfDying
<1>14. LinkedAlone'
  <2>1. \A u \in TSockets : tsock[u].at \in Holding => tsock[u].handle # 0
    BY <1>1, <1>10 DEF StageKept, TLSInv, TLSTypes
  <2> QED BY <1>3, <1>4, <1>5, <1>9, <2>1 DEF TLSInv, LinkedAlone, Holding
<1>15. OwnWallet'
  BY <1>3, <1>4, <1>5, <1>9 DEF TLSInv, OwnWallet, Holding
<1>16. ShakenVerified'
  <2>1. tsock'[t].at \notin {"shaken", "open"} /\ treused \subseteq treused'
    BY <1>3, <1>4, <1>5
  <2> QED BY <1>9, <2>1, VerifiedStep
<1> QED BY <1>9, <1>11, <1>12, <1>13, <1>14, <1>15, <1>16 DEF TLSInv

(* SSL_new gives a free handle. *)
LEMMA NewHandleFree ==
  ASSUME FreeHandles # {}
  PROVE  NewHandle \in FreeHandles
<1>1. FreeHandles \subseteq Nat
  BY TLSAssumption DEF FreeHandles
<1>2. \E h \in FreeHandles : \A g \in FreeHandles : h <= g
  BY <1>1, LeastNumber
<1> QED BY <1>2 DEF NewHandle

LEMMA StartTLSStep ==
  ASSUME TLSInv, NEW t \in TSockets, StartTLS(t)
  PROVE  TLSInv'
<1>1. DOMAIN tsock = TSockets /\ (\A u \in TSockets : StageKept(u)) /\ 0 \notin THandles
  BY TLSAssumption DEF TLSInv, TLSTypes
<1>2. PICK n : n = NewHandle /\ n \in THandles \ tlive
  BY NewHandleFree DEF StartTLS, FreeHandles
<1>3. PICK r : r = [tsock[t] EXCEPT !.handle = n, !.at = "link"]
  OBVIOUS
<1>4. /\ DOMAIN tsock[t] = TFields /\ tsock[t].at = "tcp" /\ tsock[t].handle = 0 /\ tsock[t].linked = 0
      /\ tsock[t].asked = "none" /\ tsock[t].setup \in TSetups
      /\ tsock[t].option = tsock[t].setup.option \/ (tsock[t].option = "NOVALIDATE" /\ ~Authorities(t))
  BY <1>1 DEF StageKept, StartTLS, Outside, Unasked
<1>5. tsock' = [tsock EXCEPT ![t] = r]
  <2>1. tsock' = [tsock EXCEPT ![t].handle = n, ![t].at = "link"]
    BY <1>2 DEF StartTLS
  <2> QED BY <1>1, <1>3, <1>4, <2>1 DEF TFields
<1>6. /\ DOMAIN r = TFields /\ r.at = "link" /\ r.setup = tsock[t].setup /\ r.option = tsock[t].option /\ r.handle = n
      /\ r.linked = 0 /\ r.asked = "none"
  BY <1>3, <1>4 DEF TFields
<1>7. tlive' = tlive \cup {n} /\ tmap' = tmap /\ treused \subseteq treused'
  BY <1>2 DEF StartTLS
<1>8. tsock'[t] = r
  BY <1>1, <1>5
<1>9. Authorities(t)' = Authorities(t)
  BY <1>6, <1>8, ToldBySetup
<1>10. StageKept(t)'
  BY <1>2, <1>4, <1>6, <1>7, <1>8, <1>9 DEF StageKept, Outside, Holding, Unasked
<1>11. \A u \in TSockets : u # t /\ tsock[u].at \in Holding => tsock[u].handle \in tlive'
  BY <1>1, <1>7 DEF StageKept
<1>12. tmap' \in [TRoles -> [THandles -> TSockets \cup {"none"}]] /\ tlive' \subseteq THandles
  BY <1>2, <1>7 DEF TLSInv, TLSTypes
<1>13. treused' \subseteq TSockets
  BY DEF StartTLS, Left, TLSInv, TLSTypes
<1>14. /\ TLSTypes'
       /\ \A u \in TSockets : u # t => /\ tsock'[u] = tsock[u] /\ Role(u)' = Role(u) /\ UsesPSK(u)' = UsesPSK(u)
  BY <1>5, <1>10, <1>11, <1>12, <1>13, OneSocket
<1>15. \A u \in TSockets : tsock[u].at \in Holding => tsock[u].handle \in tlive /\ tsock[u].handle # n /\ tsock[u].handle # 0
  BY <1>1, <1>2 DEF StageKept, TLSInv, TLSTypes
<1>16. HandlesApart'
  BY <1>6, <1>8, <1>14, <1>15 DEF TLSInv, HandlesApart, Holding
<1>17. EntriesLinked'
  <2>1. \A ro \in TRoles, h \in THandles : tmap[ro][h] # "none" => tmap[ro][h] \in TSockets /\ tmap[ro][h] # t
    BY <1>1, <1>4 DEF TLSInv, TLSTypes, EntriesLinked
  <2> QED BY <1>7, <1>14, <2>1 DEF TLSInv, EntriesLinked
<1>18. AskedOfDying'
  <2>1. \A u \in TSockets : u # t => tsock[u].asked # t
    BY <1>4 DEF TLSInv, AskedOfDying
  <2>2. "none" \notin TSockets
    BY TLSAssumption
  <2> QED BY <1>6, <1>8, <1>14, <2>1, <2>2 DEF TLSInv, AskedOfDying
<1>19. t \notin treused' => \A u \in TSockets : tsock[u].linked # n
  BY <1>2 DEF StartTLS, Left
<1>20. LinkedAlone'
  <2> SUFFICES ASSUME NEW u \in TSockets \ treused', NEW v \in TSockets, tsock'[u].at \in Holding,
                      tsock'[v].linked = tsock'[u].handle
               PROVE  u = v
    BY DEF LinkedAlone
  <2>1. CASE u = t
    BY <1>1, <1>2, <1>6, <1>8, <1>14, <1>19, <2>1
  <2>2. CASE u # t /\ v = t
    BY <1>6, <1>8, <1>14, <1>15, <2>2
  <2>3. CASE u # t /\ v # t
    BY <1>7, <1>14, <2>3 DEF TLSInv, LinkedAlone
  <2> QED BY <2>1, <2>2, <2>3
<1>21. OwnWallet'
  BY <1>6, <1>7, <1>8, <1>14 DEF TLSInv, OwnWallet, Holding
<1>22. ShakenVerified'
  <2>1. tsock'[t].at \notin {"shaken", "open"}
    BY <1>6, <1>8
  <2> QED BY <1>7, <1>14, <2>1, VerifiedStep
<1> QED BY <1>14, <1>16, <1>17, <1>18, <1>20, <1>21, <1>22 DEF TLSInv

LEMMA LinkPSKStep ==
  ASSUME TLSInv, NEW t \in TSockets, LinkPSK(t)
  PROVE  TLSInv'
<1>1. DOMAIN tsock = TSockets /\ (\A u \in TSockets : StageKept(u)) /\ 0 \notin THandles /\ "none" \notin TSockets
  BY TLSAssumption DEF TLSInv, TLSTypes
<1>2. PICK h : h = tsock[t].handle
  OBVIOUS
<1>3. PICK l : l = IF UsesPSK(t) \/ ~Server(t) THEN h ELSE 0
  OBVIOUS
<1>4. PICK r : r = [tsock[t] EXCEPT !.linked = l, !.at = "keys"]
  OBVIOUS
<1>5. /\ DOMAIN tsock[t] = TFields /\ tsock[t].at = "link" /\ h \in THandles /\ tsock[t].linked = 0 /\ h \in tlive
      /\ tsock[t].asked = "none" /\ tsock[t].setup \in TSetups
      /\ tsock[t].option = tsock[t].setup.option \/ (tsock[t].option = "NOVALIDATE" /\ ~Authorities(t))
  BY <1>1, <1>2 DEF StageKept, LinkPSK, Outside, Unasked, Holding, TLSInv, TLSTypes
<1>6. tsock' = [tsock EXCEPT ![t] = r]
  <2>1. tsock' = [tsock EXCEPT ![t].linked = l, ![t].at = "keys"]
    BY <1>2, <1>3 DEF LinkPSK
  <2> QED BY <1>1, <1>4, <1>5, <2>1 DEF TFields
<1>7. /\ DOMAIN r = TFields /\ r.at = "keys" /\ r.setup = tsock[t].setup /\ r.option = tsock[t].option /\ r.handle = h
      /\ r.linked = l /\ r.asked = "none"
  BY <1>2, <1>4, <1>5 DEF TFields
<1>8. tlive' = tlive /\ treused' = treused
  BY DEF LinkPSK
<1>9. tsock'[t] = r
  BY <1>1, <1>6
<1>10. Authorities(t)' = Authorities(t) /\ Role(t)' = Role(t) /\ UsesPSK(t)' = UsesPSK(t) /\ Role(t) \in TRoles
  <2>1. Role(t) \in TRoles
    BY <1>5, TLSAssumption DEF Role, TRoles
  <2> QED BY <1>7, <1>9, <2>1, ToldBySetup
<1>11. StageKept(t)'
  BY <1>3, <1>5, <1>7, <1>8, <1>9, <1>10 DEF StageKept, Outside, Holding, Unasked
<1>12. \A u \in TSockets : u # t /\ tsock[u].at \in Holding => tsock[u].handle \in tlive'
  BY <1>1, <1>8 DEF StageKept
<1>13. PICK ro : ro = Role(t) /\ ro \in TRoles
  BY <1>10
<1>14. tmap' = IF UsesPSK(t) /\ tmap[ro][h] = "none" THEN [tmap EXCEPT ![ro][h] = t] ELSE tmap
  BY <1>2, <1>13 DEF LinkPSK
<1>15. tmap \in [TRoles -> [THandles -> TSockets \cup {"none"}]]
  BY DEF TLSInv, TLSTypes
<1>16. tmap' \in [TRoles -> [THandles -> TSockets \cup {"none"}]]
  BY <1>5, <1>13, <1>14, <1>15
<1>17. \A q \in TRoles, g \in THandles : /\ <<q, g>> # <<ro, h>> => tmap'[q][g] = tmap[q][g]
                                         /\ tmap'[q][g] = tmap[q][g] \/ (tmap'[q][g] = t /\ q = ro /\ g = h /\ UsesPSK(t))
  BY <1>5, <1>13, <1>14, <1>15
<1>18. /\ TLSTypes'
       /\ \A u \in TSockets : u # t => /\ tsock'[u] = tsock[u] /\ Role(u)' = Role(u) /\ UsesPSK(u)' = UsesPSK(u)
  <2>1. tlive' \subseteq THandles /\ treused' \subseteq TSockets
    BY <1>8 DEF TLSInv, TLSTypes
  <2> QED BY <1>6, <1>11, <1>12, <1>16, <2>1, OneSocket
<1>19. HandlesApart'
  <2>1. \A u \in TSockets : tsock'[u].handle = tsock[u].handle /\ (tsock'[u].at \in Holding <=> tsock[u].at \in Holding)
    BY <1>2, <1>5, <1>7, <1>9, <1>18 DEF Holding
  <2> QED BY <2>1 DEF TLSInv, HandlesApart
<1>20. EntriesLinked'
  <2> SUFFICES ASSUME NEW q \in TRoles, NEW g \in THandles, tmap'[q][g] # "none"
               PROVE  tsock'[tmap'[q][g]].linked = g /\ tsock'[tmap'[q][g]].at # "gone"
    BY DEF EntriesLinked
  <2>1. CASE tmap'[q][g] = t /\ g = h /\ UsesPSK(t)
    BY <1>3, <1>7, <1>9, <2>1
  <2>2. CASE tmap'[q][g] = tmap[q][g]
    <3>1. tmap[q][g] \in TSockets /\ tsock[tmap[q][g]].linked = g /\ tsock[tmap[q][g]].at # "gone"
      BY <1>15, <2>2 DEF TLSInv, EntriesLinked
    <3>2. tmap[q][g] # t
      BY <1>1, <1>5, <3>1
    <3> QED BY <1>18, <2>2, <3>1, <3>2
  <2> QED BY <1>17, <2>1, <2>2
<1>21. AskedOfDying'
  <2>1. \A u \in TSockets : u # t => tsock[u].asked # t
    BY <1>5 DEF TLSInv, AskedOfDying
  <2> QED BY <1>1, <1>7, <1>9, <1>18, <2>1 DEF TLSInv, AskedOfDying
<1>22. LinkedAlone'
  <2> SUFFICES ASSUME NEW u \in TSockets \ treused', NEW v \in TSockets, tsock'[u].at \in Holding,
                      tsock'[v].linked = tsock'[u].handle
               PROVE  u = v
    BY DEF LinkedAlone
  <2>1. CASE u = t /\ v # t
    BY <1>2, <1>5, <1>7, <1>8, <1>9, <1>18, <2>1 DEF TLSInv, LinkedAlone, Holding
  <2>2. CASE u # t /\ v = t
    <3>1. tsock[u].at \in Holding /\ tsock[u].handle = l
      BY <1>7, <1>9, <1>18, <2>2
    <3>2. tsock[u].handle # 0
      BY <1>1, <3>1 DEF StageKept, TLSInv, TLSTypes
    <3>3. tsock[u].handle = tsock[t].handle /\ tsock[t].at \in Holding
      BY <1>2, <1>3, <1>5, <3>1, <3>2 DEF Holding
    <3> QED BY <2>2, <3>1, <3>3 DEF TLSInv, HandlesApart
  <2>3. CASE u # t /\ v # t
    BY <1>8, <1>18, <2>3 DEF TLSInv, LinkedAlone
  <2> QED BY <2>1, <2>2, <2>3
<1>23. OwnWallet'
  <2> SUFFICES ASSUME NEW u \in TSockets \ treused'
               PROVE  /\ tsock'[u].asked \in {"none", u}
                      /\ tsock'[u].at = "psk" => tsock'[u].asked = u
                      /\ tsock'[u].at \in Holding \ {"link"} /\ UsesPSK(u)' => tmap'[Role(u)'][tsock'[u].handle] = u
    BY DEF OwnWallet
  <2>1. CASE u = t
    <3>1. ASSUME UsesPSK(t) PROVE tmap'[ro][h] = t
      <4>1. CASE tmap[ro][h] = "none"
        BY <1>5, <1>13, <1>14, <1>15, <3>1, <4>1
      <4>2. CASE tmap[ro][h] # "none"
        <5>1. PICK w \in TSockets : w = tmap[ro][h] /\ tsock[w].linked = h
          BY <1>5, <1>13, <1>15, <4>2 DEF TLSInv, EntriesLinked
        <5>2. t = w
          BY <1>2, <1>5, <1>8, <2>1, <5>1 DEF TLSInv, LinkedAlone, Holding
        <5> QED BY <1>1, <1>5, <5>1, <5>2
      <4> QED BY <4>1, <4>2
    <3> QED BY <1>7, <1>9, <1>10, <1>13, <2>1, <3>1
  <2>2. CASE u # t
    <3>1. /\ tsock'[u] = tsock[u] /\ Role(u)' = Role(u) /\ UsesPSK(u)' = UsesPSK(u) /\ u \notin treused
      BY <1>8, <1>18, <2>2
    <3>2. tsock[u].asked \in {"none", u} /\ (tsock[u].at = "psk" => tsock[u].asked = u)
      BY <3>1 DEF TLSInv, OwnWallet
    <3>3. ASSUME tsock[u].at \in Holding \ {"link"}, UsesPSK(u) PROVE tmap'[Role(u)][tsock[u].handle] = u
      <4>1. tmap[Role(u)][tsock[u].handle] = u
        BY <3>1, <3>3 DEF TLSInv, OwnWallet
      <4>2. tsock[u].handle # h
        BY <1>2, <1>5, <2>2, <3>3 DEF TLSInv, HandlesApart, Holding
      <4>3. tsock[u].handle \in THandles /\ tsock[u].setup \in TSetups
        BY <1>1, <3>3 DEF StageKept, TLSInv, TLSTypes, Holding, Outside
      <4>4. Role(u) \in TRoles
        BY <4>3, TLSAssumption DEF Role, TRoles
      <4> QED BY <1>17, <4>1, <4>2, <4>3, <4>4
    <3> QED BY <3>1, <3>2, <3>3
  <2> QED BY <2>1, <2>2
<1>24. ShakenVerified'
  <2>1. tsock'[t].at \notin {"shaken", "open"} /\ treused \subseteq treused'
    BY <1>7, <1>8, <1>9
  <2> QED BY <1>18, <2>1, VerifiedStep
<1> QED BY <1>18, <1>19, <1>20, <1>21, <1>22, <1>23, <1>24 DEF TLSInv

LEMMA AskWalletStep ==
  ASSUME TLSInv, NEW t \in TSockets, AskWallet(t)
  PROVE  TLSInv'
<1>1. DOMAIN tsock = TSockets /\ (\A u \in TSockets : StageKept(u)) /\ 0 \notin THandles /\ "none" \notin TSockets
  BY TLSAssumption DEF TLSInv, TLSTypes
<1>2. PICK w : w = tmap[Role(t)][tsock[t].handle]
  OBVIOUS
<1>3. PICK r : r = [tsock[t] EXCEPT !.asked = w, !.at = "psk"]
  OBVIOUS
<1>4. /\ DOMAIN tsock[t] = TFields /\ tsock[t].at = "ask" /\ tsock[t].handle \in THandles /\ tsock[t].handle \in tlive
      /\ tsock[t].linked \in {0, tsock[t].handle} /\ UsesPSK(t) /\ tsock[t].setup \in TSetups
      /\ tsock[t].option = tsock[t].setup.option \/ (tsock[t].option = "NOVALIDATE" /\ ~Authorities(t))
  BY <1>1 DEF StageKept, AskWallet, Outside, Unasked, Holding, TLSInv, TLSTypes
<1>5. tsock' = [tsock EXCEPT ![t] = r]
  <2>1. tsock' = [tsock EXCEPT ![t].asked = w, ![t].at = "psk"]
    BY <1>2 DEF AskWallet
  <2> QED BY <1>1, <1>3, <1>4, <2>1 DEF TFields
<1>6. /\ DOMAIN r = TFields /\ r.at = "psk" /\ r.setup = tsock[t].setup /\ r.option = tsock[t].option
      /\ r.handle = tsock[t].handle /\ r.linked = tsock[t].linked /\ r.asked = w
  BY <1>3, <1>4 DEF TFields
<1>7. tlive' = tlive /\ treused' = treused /\ tmap' = tmap
  BY DEF AskWallet
<1>8. tsock'[t] = r
  BY <1>1, <1>5
<1>9. Authorities(t)' = Authorities(t) /\ Role(t)' = Role(t) /\ UsesPSK(t)' = UsesPSK(t) /\ Role(t) \in TRoles
  <2>1. Role(t) \in TRoles
    BY <1>4, TLSAssumption DEF Role, TRoles
  <2> QED BY <1>6, <1>8, <2>1, ToldBySetup
<1>10. w \in TSockets \cup {"none"}
  BY <1>2, <1>4, <1>9 DEF TLSInv, TLSTypes
<1>11. StageKept(t)'
  BY <1>4, <1>6, <1>7, <1>8, <1>9, <1>10 DEF StageKept, Outside, Holding, Unasked
<1>12. \A u \in TSockets : u # t /\ tsock[u].at \in Holding => tsock[u].handle \in tlive'
  BY <1>1, <1>7 DEF StageKept
<1>13. /\ TLSTypes'
       /\ \A u \in TSockets : u # t => /\ tsock'[u] = tsock[u] /\ Role(u)' = Role(u) /\ UsesPSK(u)' = UsesPSK(u)
  <2>1. tmap' \in [TRoles -> [THandles -> TSockets \cup {"none"}]] /\ tlive' \subseteq THandles /\ treused' \subseteq TSockets
    BY <1>7 DEF TLSInv, TLSTypes
  <2> QED BY <1>5, <1>11, <1>12, <2>1, OneSocket
<1>14. \A u \in TSockets : /\ tsock'[u].handle = tsock[u].handle /\ tsock'[u].linked = tsock[u].linked
                           /\ (tsock'[u].at \in Holding <=> tsock[u].at \in Holding)
                           /\ (tsock'[u].at = "gone" <=> tsock[u].at = "gone")
  BY <1>4, <1>6, <1>8, <1>13 DEF Holding
<1>15. HandlesApart'
  BY <1>14 DEF TLSInv, HandlesApart
<1>16. EntriesLinked'
  <2>1. \A ro \in TRoles, h \in THandles : tmap[ro][h] # "none" => tmap[ro][h] \in TSockets
    BY DEF TLSInv, TLSTypes
  <2> QED BY <1>7, <1>14, <2>1 DEF TLSInv, EntriesLinked
<1>17. w # "none" /\ w # t => tsock[w].at = "unlink"
  <2> SUFFICES ASSUME w # "none", w # t PROVE tsock[w].at = "unlink"
    OBVIOUS
  <2>1. w \in TSockets /\ tsock[w].linked = tsock[t].handle /\ tsock[w].at # "gone"
    BY <1>2, <1>4, <1>9, <1>10 DEF TLSInv, EntriesLinked
  <2>2. tsock[w].handle = tsock[t].handle /\ tsock[w].handle # 0
    BY <1>1, <1>4, <2>1 DEF StageKept
  <2>3. tsock[w].at \notin Outside \cup {"tcp"}
    BY <1>1, <2>1, <2>2 DEF StageKept
  <2>4. tsock[w].at \notin Holding
    BY <1>4, <2>1, <2>2 DEF TLSInv, HandlesApart, Holding
  <2> QED BY <1>1, <2>1, <2>3, <2>4 DEF StageKept
<1>18. AskedOfDying'
  <2> SUFFICES ASSUME NEW u \in TSockets, NEW v \in TSockets, tsock'[u].asked = v, u # v
               PROVE  tsock'[v].at \in {"unlink", "gone"}
    BY DEF AskedOfDying
  <2>1. CASE u = t
    BY <1>1, <1>6, <1>8, <1>13, <1>17, <2>1
  <2>2. CASE u # t
    <3>1. tsock[v].at \in {"unlink", "gone"}
      BY <1>13, <2>2 DEF TLSInv, AskedOfDying
    <3> QED BY <1>4, <1>13, <3>1
  <2> QED BY <2>1, <2>2
<1>19. LinkedAlone'
  BY <1>7, <1>14 DEF TLSInv, LinkedAlone
<1>20. OwnWallet'
  <2> SUFFICES ASSUME NEW u \in TSockets \ treused'
               PROVE  /\ tsock'[u].asked \in {"none", u}
                      /\ tsock'[u].at = "psk" => tsock'[u].asked = u
                      /\ tsock'[u].at \in Holding \ {"link"} /\ UsesPSK(u)' => tmap'[Role(u)'][tsock'[u].handle] = u
    BY DEF OwnWallet
  <2>1. CASE u = t
    <3>1. tmap[Role(t)][tsock[t].handle] = t
      BY <1>4, <1>7, <2>1 DEF TLSInv, OwnWallet, Holding
    <3> QED BY <1>2, <1>6, <1>7, <1>8, <1>9, <2>1, <3>1
  <2>2. CASE u # t
    BY <1>7, <1>13, <2>2 DEF TLSInv, OwnWallet
  <2> QED BY <2>1, <2>2
<1>21. ShakenVerified'
  <2>1. tsock'[t].at \notin {"shaken", "open"} /\ treused \subseteq treused'
    BY <1>6, <1>7, <1>8
  <2> QED BY <1>13, <2>1, VerifiedStep
<1> QED BY <1>13, <1>15, <1>16, <1>18, <1>19, <1>20, <1>21 DEF TLSInv

LEMMA PSKCallbackStep ==
  ASSUME TLSInv, NEW t \in TSockets, NEW ok \in BOOLEAN, PSKCallback(t, ok)
  PROVE  TLSInv'
<1>1. DOMAIN tsock = TSockets /\ (\A u \in TSockets : StageKept(u)) /\ "none" \notin TSockets
  BY TLSAssumption DEF TLSInv, TLSTypes
<1>2. PICK w : w = tsock[t].asked
  OBVIOUS
<1>3. PICK s : s = IF Identified(t, w) THEN [tsock EXCEPT ![w].client = tsock[t].setup.peer.id] ELSE tsock
  OBVIOUS
<1>4. PICK at : at = IF ok THEN "shaken" ELSE "failed"
  OBVIOUS
<1>5. tsock' = [s EXCEPT ![t].at = at] /\ UNCHANGED <<tmap, tlive, treused>> /\ tsock[t].at = "psk" /\ ok \in Matches(t, w)
  BY <1>2, <1>3, <1>4 DEF PSKCallback
<1>6. \A u \in TSockets : DOMAIN tsock[u] = TFields
  BY <1>1 DEF StageKept
<1>7. w \in TSockets \cup {"none"} /\ (Identified(t, w) => w \in TSockets)
  BY <1>1, <1>2 DEF StageKept, Identified
<1>8. /\ DOMAIN s = TSockets
      /\ \A u \in TSockets : /\ DOMAIN s[u] = TFields /\ \A f \in TFields \ {"client"} : s[u][f] = tsock[u][f]
                             /\ u # w => s[u].client = tsock[u].client
      /\ Identified(t, w) => s[w].client = tsock[t].setup.peer.id
  <2>1. CASE Identified(t, w)
    <3>1. s = [tsock EXCEPT ![w].client = tsock[t].setup.peer.id]
      BY <1>3, <2>1
    <3>2. DOMAIN s = TSockets /\ \A u \in TSockets : u # w => s[u] = tsock[u]
      BY <1>1, <3>1
    <3>3. s[w] = [tsock[w] EXCEPT !.client = tsock[t].setup.peer.id]
      BY <1>1, <1>7, <2>1, <3>1
    <3>4. DOMAIN s[w] = TFields /\ (\A f \in TFields \ {"client"} : s[w][f] = tsock[w][f]) /\ s[w].client = tsock[t].setup.peer.id
      BY <1>6, <1>7, <2>1, <3>3 DEF TFields
    <3> QED BY <1>6, <3>2, <3>4
  <2>2. CASE ~Identified(t, w)
    BY <1>1, <1>3, <1>6, <2>2
  <2> QED BY <2>1, <2>2
<1>9. /\ DOMAIN tsock' = TSockets /\ tsock'[t].at = at
      /\ \A u \in TSockets : /\ DOMAIN tsock'[u] = TFields /\ \A f \in TFields \ {"client", "at"} : tsock'[u][f] = tsock[u][f]
                             /\ u # w => tsock'[u].client = tsock[u].client
                             /\ u # t => tsock'[u].at = tsock[u].at
      /\ Identified(t, w) => tsock'[w].client = tsock[t].setup.peer.id
  <2>1. DOMAIN tsock' = TSockets /\ (\A u \in TSockets : u # t => tsock'[u] = s[u]) /\ tsock'[t] = [s[t] EXCEPT !.at = at]
    BY <1>5, <1>8
  <2>2. tsock'[t].at = at /\ DOMAIN tsock'[t] = TFields /\ \A f \in TFields \ {"at"} : tsock'[t][f] = s[t][f]
    BY <1>8, <2>1 DEF TFields
  <2>3. \A u \in TSockets : u # t => /\ DOMAIN tsock'[u] = TFields /\ \A f \in TFields \ {"client", "at"} : tsock'[u][f] = tsock[u][f]
                                     /\ u # w => tsock'[u].client = tsock[u].client
                                     /\ tsock'[u].at = tsock[u].at
    BY <1>8, <2>1 DEF TFields
  <2>4. /\ DOMAIN tsock'[t] = TFields /\ \A f \in TFields \ {"client", "at"} : tsock'[t][f] = tsock[t][f]
    BY <1>8, <2>2 DEF TFields
  <2>5. \A u \in TSockets : tsock'[u].client = s[u].client
    BY <1>8, <2>1, <2>2 DEF TFields
  <2>6. t # w => tsock'[t].client = tsock[t].client
    BY <1>8, <2>5
  <2> QED BY <1>7, <1>8, <2>1, <2>2, <2>3, <2>4, <2>5, <2>6
<1>10. \A u \in TSockets : /\ tsock'[u].handle = tsock[u].handle /\ tsock'[u].linked = tsock[u].linked
                           /\ tsock'[u].asked = tsock[u].asked /\ tsock'[u].setup = tsock[u].setup
                           /\ tsock'[u].option = tsock[u].option
  BY <1>9 DEF TFields
<1>11. \A u \in TSockets : Role(u)' = Role(u) /\ UsesPSK(u)' = UsesPSK(u) /\ Server(u)' = Server(u) /\ Authorities(u)' = Authorities(u)
  BY <1>10, ToldBySetup
<1>12. at \in {"shaken", "failed"}
  BY <1>4
<1>13. \A u \in TSockets : StageKept(u)'
  <2> SUFFICES ASSUME NEW u \in TSockets PROVE StageKept(u)'
    OBVIOUS
  <2>1. DOMAIN tsock'[u] = TFields /\ StageKept(u)
    BY <1>1, <1>9
  <2>2. CASE u # t
    <3>1. tsock'[u].at = tsock[u].at
      BY <1>9, <2>2
    <3> QED BY <1>5, <1>10, <1>11, <2>1, <3>1 DEF StageKept
  <2>3. CASE u = t
    BY <1>5, <1>9, <1>10, <1>11, <1>12, <2>1, <2>3 DEF StageKept, Outside, Holding, Unasked
  <2> QED BY <2>2, <2>3
<1>14. TLSTypes'
  BY <1>5, <1>9, <1>13 DEF TLSInv, TLSTypes
<1>15. \A u \in TSockets : /\ tsock'[u].at \in Holding <=> tsock[u].at \in Holding
                           /\ tsock'[u].at \in Holding \ {"link"} <=> tsock[u].at \in Holding \ {"link"}
                           /\ tsock'[u].at = "gone" <=> tsock[u].at = "gone"
                           /\ tsock'[u].at = "unlink" <=> tsock[u].at = "unlink"
                           /\ tsock'[u].at = "psk" => tsock[u].at = "psk"
  BY <1>5, <1>9, <1>12 DEF Holding
<1>16. HandlesApart'
  BY <1>10, <1>15 DEF TLSInv, HandlesApart
<1>17. EntriesLinked'
  <2>1. \A ro \in TRoles, h \in THandles : tmap[ro][h] # "none" => tmap[ro][h] \in TSockets
    BY DEF TLSInv, TLSTypes
  <2> QED BY <1>5, <1>10, <1>15, <2>1 DEF TLSInv, EntriesLinked
<1>18. AskedOfDying'
  BY <1>10, <1>15 DEF TLSInv, AskedOfDying
<1>19. LinkedAlone'
  BY <1>5, <1>10, <1>15 DEF TLSInv, LinkedAlone
<1>20. OwnWallet'
  BY <1>5, <1>10, <1>11, <1>15 DEF TLSInv, OwnWallet
<1>21. ShakenVerified'
  <2>1. \A u \in TSockets : u # t /\ tsock[u].at \in {"shaken", "open"} => tsock'[u].client = tsock[u].client
    <3> SUFFICES ASSUME NEW u \in TSockets, u # t, tsock[u].at \in {"shaken", "open"} PROVE u # w
      BY <1>9
    <3> QED BY <1>2 DEF TLSInv, AskedOfDying
  <2>2. ASSUME t \notin treused', tsock'[t].at \in {"shaken", "open"} PROVE PeerVerified(t)'
    <3>1. w = t /\ ok
      BY <1>2, <1>4, <1>5, <1>9, <2>2 DEF TLSInv, OwnWallet
    <3>2. UsesPSK(t)
      BY <1>1, <1>5 DEF StageKept
    <3>3. ASSUME Server(t)
          PROVE  /\ tsock[t].setup.peer.id \in DOMAIN TParent
                 /\ TParent[tsock[t].setup.peer.id] = tsock[t].setup.peer.psk
      BY <1>1, <1>5, <3>1, <3>3 DEF Matches
    <3>4. ASSUME Server(t) PROVE tsock'[t].client = tsock[t].setup.peer.id
      <4>1. Identified(t, w)
        BY <1>1, <1>5, <3>1, <3>3, <3>4 DEF Identified
      <4> QED BY <1>9, <3>1, <4>1
    <3> QED BY <1>10, <1>11, <3>2, <3>3, <3>4 DEF PeerVerified
  <2>3. treused \subseteq treused'
    BY <1>5
  <2>4. \A u \in TSockets : u # t => /\ tsock'[u].at = tsock[u].at /\ tsock'[u].option = tsock[u].option
                                     /\ tsock'[u].setup = tsock[u].setup
                                     /\ tsock[u].at \in {"shaken", "open"} => tsock'[u].client = tsock[u].client
    BY <1>9, <1>10, <2>1
  <2>5. t \notin treused' /\ tsock'[t].at \in {"shaken", "open"} => PeerVerified(t)'
    BY <2>2
  <2> QED BY <2>3, <2>4, <2>5, VerifiedStep
<1> QED BY <1>14, <1>16, <1>17, <1>18, <1>19, <1>20, <1>21 DEF TLSInv

LEMMA FreeHandleStep ==
  ASSUME TLSInv, NEW t \in TSockets, FreeHandle(t)
  PROVE  TLSInv'
<1>1. DOMAIN tsock = TSockets /\ (\A u \in TSockets : StageKept(u)) /\ 0 \notin THandles
  BY TLSAssumption DEF TLSInv, TLSTypes
<1>2. PICK r : r = [tsock[t] EXCEPT !.at = "unlink"]
  OBVIOUS
<1>3. /\ tsock' = [tsock EXCEPT ![t] = r] /\ UNCHANGED <<tmap, treused>> /\ tlive' = tlive \ {tsock[t].handle}
      /\ tsock[t].at \in {"tcp", "failed", "open"} /\ DOMAIN tsock[t] = TFields
  BY <1>1, <1>2 DEF FreeHandle, Goes, StageKept
<1>4. /\ DOMAIN r = TFields /\ r.at = "unlink" /\ r.setup = tsock[t].setup /\ r.option = tsock[t].option
      /\ r.handle = tsock[t].handle /\ r.linked = tsock[t].linked /\ r.asked = tsock[t].asked
  BY <1>2, <1>3 DEF TFields
<1>5. tsock'[t] = r
  BY <1>1, <1>3
<1>6. Authorities(t)' = Authorities(t)
  BY <1>4, <1>5, ToldBySetup
<1>7. StageKept(t)'
  <2>1. StageKept(t)
    BY <1>1
  <2> QED BY <1>3, <1>4, <1>5, <1>6, <2>1 DEF StageKept, Outside, Holding, Unasked
<1>8. \A u \in TSockets : u # t /\ tsock[u].at \in Holding => tsock[u].handle \in tlive'
  <2> SUFFICES ASSUME NEW u \in TSockets, u # t, tsock[u].at \in Holding PROVE tsock[u].handle \in tlive'
    OBVIOUS
  <2>1. tsock[u].handle \in tlive /\ tsock[u].handle # 0
    BY <1>1 DEF StageKept, TLSInv, TLSTypes
  <2>2. tsock[t].at = "tcp" => tsock[t].handle = 0
    BY <1>1 DEF StageKept
  <2>3. tsock[u].handle # tsock[t].handle
    BY <1>3, <2>1, <2>2 DEF TLSInv, HandlesApart, Holding
  <2> QED BY <1>3, <2>1, <2>3
<1>9. /\ TLSTypes'
      /\ \A u \in TSockets : u # t => /\ tsock'[u] = tsock[u] /\ Role(u)' = Role(u) /\ UsesPSK(u)' = UsesPSK(u)
  <2>1. tmap' \in [TRoles -> [THandles -> TSockets \cup {"none"}]] /\ tlive' \subseteq THandles /\ treused' \subseteq TSockets
    BY <1>3 DEF TLSInv, TLSTypes
  <2> QED BY <1>3, <1>7, <1>8, <2>1, OneSocket
<1>10. \A u \in TSockets : /\ tsock'[u].handle = tsock[u].handle /\ tsock'[u].linked = tsock[u].linked
                           /\ tsock'[u].asked = tsock[u].asked
                           /\ (tsock'[u].at \in Holding => tsock[u].at \in Holding /\ u # t)
                           /\ tsock'[u].at # "gone" \/ tsock'[u].at = tsock[u].at
                           /\ tsock[u].at \in {"unlink", "gone"} => tsock'[u].at = tsock[u].at
  BY <1>3, <1>4, <1>5, <1>9 DEF Holding
<1>11. HandlesApart'
  BY <1>10 DEF TLSInv, HandlesApart
<1>12. EntriesLinked'
  <2>1. \A ro \in TRoles, h \in THandles : tmap[ro][h] # "none" => tmap[ro][h] \in TSockets
    BY DEF TLSInv, TLSTypes
  <2> QED BY <1>3, <1>10, <2>1 DEF TLSInv, EntriesLinked
<1>13. AskedOfDying'
  BY <1>10 DEF TLSInv, AskedOfDying
<1>14. LinkedAlone'
  BY <1>3, <1>10 DEF TLSInv, LinkedAlone
<1>15. OwnWallet'
  <2>1. \A u \in TSockets : tsock'[u].at = "psk" => tsock[u].at = "psk"
    BY <1>4, <1>5, <1>9
  <2> QED BY <1>3, <1>4, <1>5, <1>9, <1>10, <2>1 DEF TLSInv, OwnWallet
<1>16. ShakenVerified'
  <2>1. tsock'[t].at \notin {"shaken", "open"} /\ treused \subseteq treused'
    BY <1>3, <1>4, <1>5
  <2> QED BY <1>9, <2>1, VerifiedStep
<1> QED BY <1>9, <1>11, <1>12, <1>13, <1>14, <1>15, <1>16 DEF TLSInv

LEMMA UnlinkPSKStep ==
  ASSUME TLSInv, NEW t \in TSockets, UnlinkPSK(t)
  PROVE  TLSInv'
<1>1. DOMAIN tsock = TSockets /\ (\A u \in TSockets : StageKept(u)) /\ 0 \notin THandles /\ "none" \notin TSockets
  BY TLSAssumption DEF TLSInv, TLSTypes
<1>2. PICK h : h = tsock[t].linked /\ h \in THandles \cup {0}
  BY <1>1 DEF StageKept
<1>3. PICK r : r = [NewTLS EXCEPT !.at = "gone"]
  OBVIOUS
<1>4. /\ tsock' = [tsock EXCEPT ![t] = r] /\ UNCHANGED <<tlive, treused>> /\ tsock[t].at = "unlink"
      /\ tmap' = IF h = 0 THEN tmap ELSE [q \in DOMAIN tmap |-> [tmap[q] EXCEPT ![h] = "none"]]
  BY <1>2, <1>3 DEF UnlinkPSK
<1>5. /\ DOMAIN r = TFields /\ r.at = "gone" /\ r.handle = 0 /\ r.linked = 0 /\ r.asked = "none"
  BY <1>3 DEF TFields, NewTLS
<1>6. tsock'[t] = r
  BY <1>1, <1>4
<1>7. StageKept(t)'
  BY <1>5, <1>6 DEF StageKept, Outside, Holding, Unasked
<1>8. \A u \in TSockets : u # t /\ tsock[u].at \in Holding => tsock[u].handle \in tlive'
  BY <1>1, <1>4 DEF StageKept
<1>9. tmap \in [TRoles -> [THandles -> TSockets \cup {"none"}]]
  BY DEF TLSInv, TLSTypes
<1>10. /\ tmap' \in [TRoles -> [THandles -> TSockets \cup {"none"}]]
       /\ \A q \in TRoles, g \in THandles : tmap'[q][g] = IF g = h THEN "none" ELSE tmap[q][g]
  <2>1. CASE h = 0
    BY <1>1, <1>4, <1>9, <2>1
  <2>2. CASE h # 0
    BY <1>2, <1>4, <1>9, <2>2
  <2> QED BY <2>1, <2>2
<1>11. /\ TLSTypes'
       /\ \A u \in TSockets : u # t => /\ tsock'[u] = tsock[u] /\ Role(u)' = Role(u) /\ UsesPSK(u)' = UsesPSK(u)
  <2>1. tlive' \subseteq THandles /\ treused' \subseteq TSockets
    BY <1>4 DEF TLSInv, TLSTypes
  <2> QED BY <1>4, <1>7, <1>8, <1>10, <2>1, OneSocket
<1>12. \A u \in TSockets : tsock'[u].at \in Holding => u # t /\ tsock'[u] = tsock[u]
  BY <1>5, <1>6, <1>11 DEF Holding
<1>13. HandlesApart'
  BY <1>12 DEF TLSInv, HandlesApart
<1>14. EntriesLinked'
  <2> SUFFICES ASSUME NEW q \in TRoles, NEW g \in THandles, tmap'[q][g] # "none"
               PROVE  tsock'[tmap'[q][g]].linked = g /\ tsock'[tmap'[q][g]].at # "gone"
    BY DEF EntriesLinked
  <2>1. g # h /\ tmap'[q][g] = tmap[q][g]
    BY <1>10
  <2>2. tmap[q][g] \in TSockets /\ tsock[tmap[q][g]].linked = g /\ tsock[tmap[q][g]].at # "gone"
    BY <1>9, <2>1 DEF TLSInv, EntriesLinked
  <2>3. tmap[q][g] # t
    BY <1>2, <2>1, <2>2
  <2> QED BY <1>11, <2>1, <2>2, <2>3
<1>15. AskedOfDying'
  BY <1>1, <1>5, <1>6, <1>11 DEF TLSInv, AskedOfDying
<1>16. LinkedAlone'
  <2> SUFFICES ASSUME NEW u \in TSockets \ treused', NEW v \in TSockets, tsock'[u].at \in Holding,
                      tsock'[v].linked = tsock'[u].handle
               PROVE  u = v
    BY DEF LinkedAlone
  <2>1. u # t /\ tsock'[u] = tsock[u] /\ tsock[u].handle # 0
    BY <1>1, <1>12 DEF StageKept, TLSInv, TLSTypes
  <2>2. v # t /\ tsock'[v] = tsock[v]
    BY <1>5, <1>6, <1>11, <2>1
  <2> QED BY <1>4, <2>1, <2>2 DEF TLSInv, LinkedAlone
<1>17. OwnWallet'
  <2> SUFFICES ASSUME NEW u \in TSockets \ treused'
               PROVE  /\ tsock'[u].asked \in {"none", u}
                      /\ tsock'[u].at = "psk" => tsock'[u].asked = u
                      /\ tsock'[u].at \in Holding \ {"link"} /\ UsesPSK(u)' => tmap'[Role(u)'][tsock'[u].handle] = u
    BY DEF OwnWallet
  <2>1. CASE u = t
    BY <1>5, <1>6, <2>1 DEF Holding
  <2>2. CASE u # t
    <3>1. tsock'[u] = tsock[u] /\ Role(u)' = Role(u) /\ UsesPSK(u)' = UsesPSK(u) /\ u \notin treused
      BY <1>4, <1>11, <2>2
    <3>2. tsock[u].asked \in {"none", u} /\ (tsock[u].at = "psk" => tsock[u].asked = u)
      BY <3>1 DEF TLSInv, OwnWallet
    <3>3. ASSUME tsock[u].at \in Holding \ {"link"}, UsesPSK(u) PROVE tmap'[Role(u)][tsock[u].handle] = u
      <4>1. tmap[Role(u)][tsock[u].handle] = u
        BY <3>1, <3>3 DEF TLSInv, OwnWallet
      <4>2. tsock[u].handle # h
        BY <1>2, <2>2, <3>1, <3>3 DEF TLSInv, LinkedAlone
      <4>3. tsock[u].handle \in THandles /\ tsock[u].setup \in TSetups
        BY <1>1, <3>3 DEF StageKept, TLSInv, TLSTypes, Holding, Outside
      <4>4. Role(u) \in TRoles
        BY <4>3, TLSAssumption DEF Role, TRoles
      <4> QED BY <1>10, <4>1, <4>2, <4>3, <4>4
    <3> QED BY <3>1, <3>2, <3>3
  <2> QED BY <2>1, <2>2
<1>18. ShakenVerified'
  <2>1. tsock'[t].at \notin {"shaken", "open"} /\ treused \subseteq treused'
    BY <1>4, <1>5, <1>6
  <2> QED BY <1>11, <2>1, VerifiedStep
<1> QED BY <1>11, <1>13, <1>14, <1>15, <1>16, <1>17, <1>18 DEF TLSInv

LEMMA TLSInvStep ==
  ASSUME TLSInv, [TLSNext]_tlsVars
  PROVE  TLSInv'
<1>1. CASE TLSNext
  <2>1. PICK t \in TSockets :
          \/ \E s \in TSetups : NewConnection(t, s)
          \/ StartTLS(t) \/ StartTLSAgain(t) \/ LinkPSK(t) \/ InitTLSKeys(t) \/ AskWallet(t)
          \/ (\E ok \in BOOLEAN : PSKCallback(t, ok)) \/ Handshake(t) \/ HandshakeBreaks(t) \/ ValidateTLS(t)
          \/ WantAgain(t) \/ TLSCallReturns(t) \/ LayerError(t) \/ (\E both \in BOOLEAN : ShutdownTLS(t, both))
          \/ FreeHandle(t) \/ UnlinkPSK(t)
    BY <1>1 DEF TLSNext
  <2> QED BY <2>1, NewConnectionStep, StartTLSStep, LinkPSKStep, AskWalletStep, PSKCallbackStep, HandshakeStep,
             FreeHandleStep, UnlinkPSKStep
<1>2. CASE UNCHANGED tlsVars
  BY <1>2 DEF tlsVars, TLSInv, TLSTypes, StageKept, HandlesApart, EntriesLinked, AskedOfDying, LinkedAlone, OwnWallet,
              ShakenVerified, PeerVerified, Role, Server, UsesPSK, Authorities
<1> QED BY <1>1, <1>2

LEMMA TLSInvInit == TLSInit => TLSInv
<1> SUFFICES ASSUME TLSInit PROVE TLSInv
  OBVIOUS
<1>1. DOMAIN tsock = TSockets /\ "none" \notin TSockets /\ \A t \in TSockets : tsock[t] = NewTLS
  BY TLSAssumption DEF TLSInit
<1>2. /\ DOMAIN NewTLS = TFields /\ NewTLS.at = "none" /\ NewTLS.handle = 0 /\ NewTLS.linked = 0 /\ NewTLS.asked = "none"
  BY DEF NewTLS, TFields
<1>3. TLSTypes
  <2>1. \A t \in TSockets : StageKept(t)
    BY <1>1, <1>2 DEF StageKept, Outside, Holding, Unasked
  <2>2. tmap \in [TRoles -> [THandles -> TSockets \cup {"none"}]] /\ tlive \subseteq THandles /\ treused \subseteq TSockets
    BY DEF TLSInit, TRoles
  <2> QED BY <1>1, <2>1, <2>2 DEF TLSTypes
<1>4. EntriesLinked
  BY DEF EntriesLinked, TLSInit, TRoles
<1>5. HandlesApart /\ AskedOfDying /\ LinkedAlone /\ OwnWallet /\ ShakenVerified
  BY <1>1, <1>2 DEF HandlesApart, AskedOfDying, LinkedAlone, OwnWallet, ShakenVerified, Holding
<1> QED BY <1>3, <1>4, <1>5 DEF TLSInv

LEMMA TLSInvSound == TLSInv => TLSSound
<1> SUFFICES ASSUME TLSInv PROVE TLSSound
  OBVIOUS
<1>1. OpenIsVerified
  <2> SUFFICES ASSUME NEW t \in TSockets \ treused, tsock[t].at = "open", Authorities(t) \/ UsesPSK(t),
                      tsock[t].setup.option # "NOVALIDATE"
               PROVE  \/ ~UsesPSK(t) /\ tsock[t].setup.peer.cert = "trusted"
                      \/ UsesPSK(t) /\ Server(t) /\ tsock[t].setup.peer.id \in DOMAIN TParent
                         /\ TParent[tsock[t].setup.peer.id] = tsock[t].setup.peer.psk
                      \/ UsesPSK(t) /\ ~Server(t)
    BY DEF OpenIsVerified
  <2>1. PeerVerified(t) /\ StageKept(t)
    BY DEF TLSInv, ShakenVerified, TLSTypes
  <2>2. CASE UsesPSK(t)
    BY <2>1, <2>2 DEF PeerVerified
  <2>3. CASE ~UsesPSK(t)
    <3>1. tsock[t].option # "NOVALIDATE"
      BY <2>1, <2>3 DEF StageKept, Outside
    <3> QED BY <2>1, <2>3, <3>1 DEF PeerVerified
  <2> QED BY <2>2, <2>3
<1>2. OwnPeerName
  BY DEF TLSInv, OwnWallet, ShakenVerified, PeerVerified, OwnPeerName
<1>3. EntriesAlive
  BY DEF TLSInv, TLSTypes, EntriesLinked, EntriesAlive
<1> QED BY <1>1, <1>2, <1>3 DEF TLSSound

(* Whatever the number of sockets and handles and the order of their handshakes and
   destructors, a TLS socket that validates is open only with a peer it verified, names
   the peer it talked to, and finds in the static map no wallet of a freed socket; for
   the first two, unless SSL_new reused a handle before ~PSKStaticHdlr ran. *)
THEOREM TLSIsSound == TLSSpec => []TLSSound
<1>1. TLSInit => TLSInv
  BY TLSInvInit
<1>2. TLSInv /\ [TLSNext]_tlsVars => TLSInv'
  BY TLSInvStep
<1>3. TLSInv => TLSSound
  BY TLSInvSound
<1> QED BY <1>1, <1>2, <1>3, PTL DEF TLSSpec
-----------------------------------------------------------------------------
(* What two streams exchange. *)

WByte == 0..(SBase - 1)
Sized == {"block", "exact", "string"}

(* The bytes of a plan, one item after the other: where each one ends, and all of them. *)
Layout(n, p, e, w) ==
  /\ e \in [0..n -> Nat] /\ w \in Seq(WByte) /\ e[0] = 0 /\ Len(w) = e[n]
  /\ \A i \in 1..n : /\ e[i] = e[i - 1] + Len(BytesOf(p[i]))
                     /\ \A j \in 1..Len(BytesOf(p[i])) : w[e[i - 1] + j] = BytesOf(p[i])[j]
  /\ \A i, j \in 0..n : i < j => e[i] < e[j]

CallResults == {[ok |-> FALSE, data |-> <<>>]} \cup {[ok |-> TRUE, data |-> Handed(i)] : i \in 1..Len(cplan)}

WireTypes ==
  /\ cplan \in CPlans \cup {<<>>}
  /\ cout \in Seq(WByte) /\ cwire \in Seq(WByte) /\ cbuf \in Seq(WByte)
  /\ cwrote \in 0..Len(cplan) /\ cwshut \in BOOLEAN /\ crshut \in BOOLEAN
  /\ cread \in [at : {"idle", "value", "length", "data", "delim", "line"}, have : Seq(WByte), need : Nat]
  /\ cgot \in Seq(CallResults) /\ Len(cgot) <= Len(cplan)
  /\ cout # <<>> => cwrote < Len(cplan) /\ ~cwshut

(* A call is under way only while no other has failed, and it is the one of the plan. *)
CallOfPlan ==
  /\ ReaderStopped => cread.at = "idle"
  /\ cread.at # "idle" => Len(cgot) < Len(cplan)
  /\ cread.at = "value" => Wanted.op = "u" /\ cread.need >= 1 /\ cread.need + Len(cread.have) = Wanted.width
  /\ cread.at = "length" => Wanted.op \in Sized /\ cread.need >= 1 /\ cread.need + Len(cread.have) = Wanted.width
  /\ cread.at = "data" => /\ Wanted.op \in Sized /\ cread.need >= 1 /\ LengthAllowed(Len(Wanted.data))
                          /\ cread.need + Len(cread.have) = Len(Wanted.data)
  /\ cread.at = "delim" => Wanted.op = "delim" /\ Len(cread.have) < Len(Wanted.data) + Len(SDelim)
  /\ cread.at = "line" => Wanted.op = "line"
  /\ cread.at \in {"idle", "line"} => cread.have = <<>>
  /\ cbuf # <<>> => \/ cread.at = "line"
                    \/ cread.at = "idle" /\ Len(cgot) >= 1 /\ cplan[Len(cgot)].op = "line"

(* How many bytes of the plan the reader has taken off the connection, and how many the writer put on it. *)
BytesBefore == IF cread.at = "data" THEN Wanted.width ELSE 0
BytesRead(e) == e[Len(cgot)] + BytesBefore + Len(cread.have) + Len(cbuf)
BytesSent(e) == BytesRead(e) + Len(cwire)

ReaderInPlace(e, w) ==
  /\ \A k \in 1..Len(cread.have) : cread.have[k] = w[e[Len(cgot)] + BytesBefore + k]
  /\ \A k \in 1..Len(cbuf) : cbuf[k] = w[e[Len(cgot)] + k]
  /\ \A k \in 1..Len(cwire) : cwire[k] = w[BytesRead(e) + k]
WriterInPlace(e, w) ==
  /\ e[cwrote] <= BytesSent(e)
  /\ cwrote < Len(cplan) => BytesSent(e) < e[cwrote + 1]
  /\ cwrote = Len(cplan) => BytesSent(e) = e[cwrote]
  /\ cout = <<>> /\ ~cwshut => BytesSent(e) = e[cwrote]
  /\ cout # <<>> => /\ BytesSent(e) + Len(cout) = e[cwrote + 1] /\ ~StringTooLong(cplan[cwrote + 1])
                    /\ \A k \in 1..Len(cout) : cout[k] = w[BytesSent(e) + k]
  /\ \A i \in 1..Len(cplan) : BytesSent(e) > e[i - 1] => ~StringTooLong(cplan[i])
BothInPlace(e, w) == Layout(Len(cplan), cplan, e, w) /\ (~ReaderStopped => ReaderInPlace(e, w) /\ WriterInPlace(e, w))

WireInv == WireTypes /\ CallOfPlan /\ (\E e, w : BothInPlace(e, w)) /\ StreamSound

(* A number below the square of the base is its two digits. *)
LEMMA TwoDigits ==
  ASSUME NEW n \in Nat, NEW b \in Nat \ {0}
  PROVE  /\ n \div b \in Nat /\ n % b \in 0..(b - 1) /\ n = (n \div b) * b + (n % b)
         /\ n < b => n % b = n
         /\ n < b * b => (n \div b) % b = n \div b
<1>2. \A m \in Nat : m % b \in 0..(b - 1)
  OBVIOUS
<1>3. \A m \in Nat : m = b * (m \div b) + (m % b)
  OBVIOUS
<1>4. \A m \in Nat : m \div b \in Nat
  OBVIOUS
<1>5. \A q, r \in Nat : q >= r => b * q >= b * r
  <2> SUFFICES ASSUME NEW q \in Nat, NEW r \in Nat, q >= r PROVE b * q >= b * r
    OBVIOUS
  <2>1. PICK d \in Nat : q = r + d
    <3>1. q - r \in Nat /\ q = r + (q - r)
      OBVIOUS
    <3> QED BY <3>1
  <2>2. b * q = b * r + b * d /\ b * d \in Nat /\ b * r \in Nat
    BY <2>1
  <2> QED BY <2>2
<1>6. ASSUME NEW m \in Nat, m < b PROVE m % b = m
  <2>1. PICK q, r : q = m \div b /\ r = m % b /\ q \in Nat /\ r \in Nat /\ m = b * q + r
    <3>1. m % b \in 0..(b - 1)
      BY <1>2
    <3>2. m \div b \in Nat
      BY <1>4
    <3>3. m = b * (m \div b) + (m % b)
      BY <1>3
    <3>4. m % b \in Nat
      BY <3>1
    <3> QED BY <3>2, <3>3, <3>4, Zenon
  <2>2. ~(q >= 1)
    <3> SUFFICES ASSUME q >= 1 PROVE FALSE
      OBVIOUS
    <3>1. b * q >= b * 1 /\ b * 1 = b /\ b * q \in Nat
      BY <1>5, <2>1
    <3> QED BY <1>6, <2>1, <3>1
  <2>3. q = 0 /\ b * q = 0
    BY <2>1, <2>2
  <2> QED BY <2>1, <2>3
<1>7. ASSUME n < b * b PROVE n \div b < b
  <2>1. PICK q, r : q = n \div b /\ r = n % b /\ q \in Nat /\ r \in Nat /\ n = b * q + r
    <3>1. n % b \in 0..(b - 1)
      BY <1>2
    <3>2. n \div b \in Nat
      BY <1>4
    <3>3. n = b * (n \div b) + (n % b)
      BY <1>3
    <3>4. n % b \in Nat
      BY <3>1
    <3> QED BY <3>2, <3>3, <3>4, Zenon
  <2>2. ~(q >= b)
    <3> SUFFICES ASSUME q >= b PROVE FALSE
      OBVIOUS
    <3>1. b * q >= b * b /\ b * q \in Nat /\ b * b \in Nat
      BY <1>5, <2>1
    <3> QED BY <1>7, <2>1, <3>1
  <2> QED BY <2>1, <2>2
<1>8. b * (n \div b) = (n \div b) * b
  BY <1>4
<1> QED BY <1>2, <1>3, <1>4, <1>6, <1>7, <1>8

(* What is written of a number is read as the number. *)
LEMMA EncodedIsDecoded ==
  ASSUME NEW n \in Nat, NEW width \in {1, 2}
  PROVE  /\ Encoded(n, width) \in Seq(WByte) /\ Len(Encoded(n, width)) = width
         /\ n <= MaxOf(width) => \A s : /\ s \in Seq(WByte) /\ Len(s) = width
                                        /\ \A k \in 1..width : s[k] = Encoded(n, width)[k]
                                        => DecodedU(s) = n
<1>1. SBase \in Nat \ {0}
  BY WireAssumption
<1>2. n \div SBase \in Nat /\ n % SBase \in WByte /\ n = (n \div SBase) * SBase + (n % SBase)
      /\ (n < SBase => n % SBase = n) /\ (n < SBase * SBase => (n \div SBase) % SBase = n \div SBase)
  BY <1>1, TwoDigits DEF WByte
<1>3. (n \div SBase) % SBase \in WByte
  BY <1>1, <1>2, TwoDigits DEF WByte
<1>4. CASE width = 1
  <2>1. Encoded(n, width) = <<n % SBase>> /\ MaxOf(width) = SBase - 1
    BY <1>4 DEF Encoded, MaxOf
  <2>2. <<n % SBase>> \in Seq(WByte) /\ Len(<<n % SBase>>) = 1 /\ <<n % SBase>>[1] = n % SBase
    BY <1>2
  <2>3. n <= SBase - 1 => n < SBase
    BY <1>1
  <2>4. ASSUME NEW s, s \in Seq(WByte), Len(s) = width, \A k \in 1..width : s[k] = Encoded(n, width)[k]
        PROVE  DecodedU(s) = n % SBase
    <3>1. 1 \in 1..width /\ Len(s) = 1
      BY <1>4, <2>4
    <3>2. s[1] = n % SBase
      BY <2>1, <2>2, <2>4, <3>1
    <3> QED BY <3>1, <3>2 DEF DecodedU
  <2> QED BY <1>2, <1>4, <2>1, <2>2, <2>3, <2>4
<1>5. CASE width = 2
  <2>1. PICK h, l : h = (n \div SBase) % SBase /\ l = n % SBase /\ h \in WByte /\ l \in WByte
    BY <1>2, <1>3
  <2>2. Encoded(n, width) = <<h, l>> /\ MaxOf(width) = SBase * SBase - 1
    BY <1>5, <2>1 DEF Encoded, MaxOf
  <2>3. <<h, l>> \in Seq(WByte) /\ Len(<<h, l>>) = 2 /\ <<h, l>>[1] = h /\ <<h, l>>[2] = l
    BY <2>1
  <2>4. n <= SBase * SBase - 1 => n = h * SBase + l
    <3>1. SBase * SBase \in Nat
      BY <1>1
    <3>2. n <= SBase * SBase - 1 => n < SBase * SBase
      BY <3>1
    <3> QED BY <1>2, <2>1, <3>2
  <2>5. ASSUME NEW s, s \in Seq(WByte), Len(s) = width, \A k \in 1..width : s[k] = Encoded(n, width)[k]
        PROVE  DecodedU(s) = h * SBase + l
    <3>1. 1 \in 1..width /\ 2 \in 1..width /\ Len(s) # 1
      BY <1>5, <2>5
    <3>2. s[1] = h /\ s[2] = l
      BY <2>2, <2>3, <2>5, <3>1
    <3> QED BY <3>1, <3>2 DEF DecodedU
  <2> QED BY <1>5, <2>2, <2>3, <2>4, <2>5
<1> QED BY <1>4, <1>5

(* The bytes of an item, by its kind. *)
LEMMA ItemBytes ==
  ASSUME NEW x, WireItem(x)
  PROVE  /\ BytesOf(x) \in Seq(WByte) /\ Len(BytesOf(x)) \in Nat \ {0}
         /\ x.op = "u" => /\ Len(BytesOf(x)) = x.width /\ x.width \in {1, 2} /\ BytesOf(x) = Encoded(x.data, x.width)
                          /\ x.data \in Nat /\ x.data <= MaxOf(x.width)
         /\ x.op \in Sized =>
              /\ Len(BytesOf(x)) = x.width + Len(x.data) /\ x.width \in {1, 2} /\ Len(x.data) \in Nat
              /\ x.data \in Seq(WByte)
              /\ \A k \in 1..x.width : BytesOf(x)[k] = Encoded(Len(x.data), x.width)[k]
              /\ \A k \in 1..Len(x.data) : BytesOf(x)[x.width + k] = x.data[k]
              /\ ~StringTooLong(x) => Len(x.data) <= MaxOf(x.width)
         /\ x.op = "delim" => /\ BytesOf(x) = x.data \o SDelim /\ Len(BytesOf(x)) = Len(x.data) + Len(SDelim)
                              /\ Len(x.data) \in Nat /\ x.data \in Seq(WByte)
         /\ x.op = "line" => /\ Len(BytesOf(x)) = Len(x.data) + 1 /\ Len(x.data) \in Nat /\ x.data \in Seq(WByte)
                             /\ \A k \in 1..Len(x.data) : BytesOf(x)[k] = x.data[k]
                             /\ BytesOf(x)[Len(x.data) + 1] = SDelim[Len(SDelim)]
<1>1. SBase \in Nat \ {0} /\ SDelim \in Seq(WByte) /\ SDelim # <<>> /\ Len(SDelim) \in Nat \ {0}
  BY WireAssumption, LenProperties, EmptySeq DEF WByte
<1>2. x.op \in {"u", "block", "exact", "string", "delim", "line"}
  BY DEF WireItem
<1>3. CASE x.op = "u"
  <2>1. x.width \in {1, 2} /\ x.data \in 0..(IF x.width = 1 THEN SBase - 1 ELSE SBase * SBase - 1)
    BY <1>3 DEF WireItem
  <2>2. x.data \in Nat /\ x.data <= MaxOf(x.width)
    <3>1. SBase * SBase \in Nat
      BY <1>1
    <3>2. CASE x.width = 1
      BY <1>1, <2>1, <3>2 DEF MaxOf
    <3>3. CASE x.width = 2
      BY <1>1, <2>1, <3>1, <3>3 DEF MaxOf
    <3> QED BY <2>1, <3>2, <3>3
  <2>3. BytesOf(x) = Encoded(x.data, x.width)
    BY <1>3 DEF BytesOf, WriteU
  <2>4. Encoded(x.data, x.width) \in Seq(WByte) /\ Len(Encoded(x.data, x.width)) = x.width
    BY <2>1, <2>2, EncodedIsDecoded
  <2> QED BY <1>3, <2>1, <2>2, <2>3, <2>4 DEF Sized
<1>4. CASE x.op \in Sized
  <2>1. x.width \in {1, 2} /\ x.data \in Seq(WByte) /\ Len(x.data) \in Nat
    BY <1>4, LenProperties DEF WireItem, Sized, WByte
  <2>2. PICK h : h = Encoded(Len(x.data), x.width) /\ h \in Seq(WByte) /\ Len(h) = x.width
    BY <2>1, EncodedIsDecoded
  <2>3. BytesOf(x) = h \o x.data
    BY <1>4, <2>2 DEF BytesOf, WriteBlockEx, Sized
  <2>4. /\ h \o x.data \in Seq(WByte) /\ Len(h \o x.data) = x.width + Len(x.data)
        /\ \A k \in 1..(x.width + Len(x.data)) : (h \o x.data)[k] = IF k <= x.width THEN h[k] ELSE (x.data)[k - x.width]
    <3>1. PICK d, m : d = x.data /\ d \in Seq(WByte) /\ m = x.width
      BY <2>1
    <3>2. h \in Seq(WByte) /\ Len(h) = m
      BY <2>2, <3>1
    <3>3. /\ h \o d \in Seq(WByte) /\ Len(h \o d) = Len(h) + Len(d)
          /\ \A k \in 1..(Len(h) + Len(d)) : (h \o d)[k] = IF k <= Len(h) THEN h[k] ELSE d[k - Len(h)]
      BY <3>1, <3>2, ConcatProperties
    <3> QED BY <3>1, <3>2, <3>3
  <2>5. \A k \in 1..x.width : (h \o x.data)[k] = h[k]
    BY <2>1, <2>4
  <2>6. \A k \in 1..Len(x.data) : (h \o x.data)[x.width + k] = (x.data)[k]
    <3> SUFFICES ASSUME NEW k \in 1..Len(x.data) PROVE (h \o x.data)[x.width + k] = (x.data)[k]
      OBVIOUS
    <3>1. x.width + k \in 1..(x.width + Len(x.data)) /\ ~(x.width + k <= x.width) /\ (x.width + k) - x.width = k
      BY <2>1
    <3> QED BY <2>4, <3>1
  <2>7. ~StringTooLong(x) => Len(x.data) <= MaxOf(x.width)
    <3>1. SBase * SBase \in Nat
      BY <1>1
    <3>2. MaxOf(x.width) \in Int /\ (MaxOf(x.width) + 1 = IF x.width = 1 THEN SBase ELSE SBase * SBase)
      BY <1>1, <2>1, <3>1 DEF MaxOf
    <3>3. CASE x.op = "string"
      BY <2>1, <3>2, <3>3 DEF StringTooLong
    <3>4. CASE x.op # "string"
      <4>1. Len(x.data) < IF x.width = 1 THEN SBase ELSE SBase * SBase
        BY <1>4, <3>4 DEF WireItem, Sized
      <4> QED BY <1>1, <2>1, <3>1, <3>2, <4>1
    <3> QED BY <3>3, <3>4
  <2>8. Len(BytesOf(x)) \in Nat \ {0}
    BY <2>1, <2>3, <2>4
  <2>9. x.op \notin {"u", "delim", "line"}
    BY <1>4 DEF Sized
  <2>10. \A k \in 1..x.width : BytesOf(x)[k] = Encoded(Len(x.data), x.width)[k]
    BY <2>2, <2>3, <2>5
  <2>11. \A k \in 1..Len(x.data) : BytesOf(x)[x.width + k] = (x.data)[k]
    BY <2>3, <2>6
  <2> QED BY <2>1, <2>3, <2>4, <2>7, <2>8, <2>9, <2>10, <2>11
<1>5. CASE x.op = "delim"
  <2>1. x.data \in Seq(WByte) /\ Len(x.data) \in Nat
    BY <1>5, LenProperties DEF WireItem, WByte
  <2>2. BytesOf(x) = x.data \o SDelim
    BY <1>5 DEF BytesOf
  <2>3. x.data \o SDelim \in Seq(WByte) /\ Len(x.data \o SDelim) = Len(x.data) + Len(SDelim)
    BY <1>1, <2>1, ConcatProperties
  <2> QED BY <1>1, <1>5, <2>1, <2>2, <2>3 DEF Sized
<1>6. CASE x.op = "line"
  <2>1. x.data \in Seq(WByte) /\ Len(x.data) \in Nat
    BY <1>6, LenProperties DEF WireItem, WByte
  <2>2. PICK d : d = SDelim[Len(SDelim)] /\ d \in WByte
    BY <1>1, ElementOfSeq
  <2>3. BytesOf(x) = Append(x.data, d)
    BY <1>6, <2>2 DEF BytesOf
  <2>4. /\ Append(x.data, d) \in Seq(WByte) /\ Len(Append(x.data, d)) = Len(x.data) + 1
        /\ Append(x.data, d)[Len(x.data) + 1] = d
        /\ \A k \in 1..Len(x.data) : Append(x.data, d)[k] = (x.data)[k]
    BY <2>1, <2>2, AppendProperties
  <2> QED BY <1>6, <2>1, <2>2, <2>3, <2>4 DEF Sized
<1> QED BY <1>2, <1>3, <1>4, <1>5, <1>6 DEF Sized

LEMMA PlanItems ==
  ASSUME NEW p \in CPlans \cup {<<>>}
  PROVE  Len(p) \in Nat /\ \A i \in 1..Len(p) : WireItem(p[i])
<1>1. CASE p \in CPlans
  BY <1>1, WireAssumption, LenProperties
<1>2. CASE p = <<>>
  BY <1>2
<1> QED BY <1>1, <1>2

(* The layout of a plan, item by item. *)
LEMMA LayoutGrows ==
  ASSUME NEW p \in CPlans \cup {<<>>}, NEW n \in 0..(Len(p) - 1), NEW e, NEW w, Layout(n, p, e, w)
  PROVE  \E f, v : Layout(n + 1, p, f, v)
<1>1. Len(p) \in Nat /\ n \in Nat /\ n + 1 \in 1..Len(p) /\ WireItem(p[n + 1])
  BY PlanItems
<1>2. PICK b : b = BytesOf(p[n + 1]) /\ b \in Seq(WByte) /\ Len(b) \in Nat \ {0}
  BY <1>1, ItemBytes
<1>3. PICK m : m = Len(b) /\ m \in Nat \ {0}
  BY <1>2
<1>4. PICK a : a = e[n] /\ a \in Nat /\ Len(w) = a /\ w \in Seq(WByte) /\ (\A i \in 0..n : e[i] \in Nat)
  <2>1. e \in [0..n -> Nat] /\ w \in Seq(WByte) /\ Len(w) = e[n]
    BY DEF Layout
  <2>2. n \in 0..n
    BY <1>1
  <2>3. \A i \in 0..n : e[i] \in Nat
    BY <2>1
  <2> QED BY <2>1, <2>2, <2>3
<1>5. PICK v : v = w \o b
  OBVIOUS
<1>6. v \in Seq(WByte) /\ Len(v) = a + m /\ \A k \in 1..(a + m) : v[k] = IF k <= a THEN w[k] ELSE b[k - a]
  <2>1. /\ w \o b \in Seq(WByte) /\ Len(w \o b) = Len(w) + Len(b)
        /\ \A k \in 1..(Len(w) + Len(b)) : (w \o b)[k] = IF k <= Len(w) THEN w[k] ELSE b[k - Len(w)]
    BY <1>2, <1>4, ConcatProperties
  <2> QED BY <1>3, <1>4, <1>5, <2>1
<1>7. PICK f : f = [i \in 0..(n + 1) |-> IF i = n + 1 THEN a + m ELSE e[i]]
  OBVIOUS
<1>8. f \in [0..(n + 1) -> Nat] /\ f[0] = 0 /\ f[n + 1] = a + m /\ \A i \in 0..n : f[i] = e[i]
  BY <1>1, <1>3, <1>4, <1>7 DEF Layout
<1>9. \A i, j \in 0..n : i < j => e[i] < e[j]
  BY DEF Layout
<1>10. \A i \in 0..n : e[i] <= a
  BY <1>1, <1>4, <1>9
<1>11. \A i, j \in 0..(n + 1) : i < j => f[i] < f[j]
  <2> SUFFICES ASSUME NEW i \in 0..(n + 1), NEW j \in 0..(n + 1), i < j PROVE f[i] < f[j]
    OBVIOUS
  <2>1. i \in 0..n /\ f[i] = e[i]
    BY <1>1, <1>8
  <2>2. CASE j = n + 1
    BY <1>3, <1>4, <1>8, <1>10, <2>1, <2>2
  <2>3. CASE j # n + 1
    BY <1>1, <1>8, <1>9, <2>1, <2>3
  <2> QED BY <2>2, <2>3
<1>12. ASSUME NEW i \in 1..(n + 1)
       PROVE  /\ f[i] = f[i - 1] + Len(BytesOf(p[i]))
              /\ \A j \in 1..Len(BytesOf(p[i])) : v[f[i - 1] + j] = BytesOf(p[i])[j]
  <2>1. CASE i = n + 1
    <3>1. i - 1 = n /\ f[i - 1] = a /\ BytesOf(p[i]) = b
      BY <1>1, <1>2, <1>4, <1>8, <2>1
    <3>2. ASSUME NEW j \in 1..m PROVE v[a + j] = b[j]
      <4>1. a + j \in 1..(a + m) /\ ~(a + j <= a) /\ (a + j) - a = j
        BY <1>3, <1>4
      <4> QED BY <1>6, <4>1
    <3> QED BY <1>3, <1>8, <2>1, <3>1, <3>2
  <2>2. CASE i # n + 1
    <3>1. i \in 1..n /\ i - 1 \in 0..n /\ i \in 0..n
      BY <1>1, <2>2
    <3>2. PICK c : c = BytesOf(p[i]) /\ Len(c) \in Nat
      BY <1>1, <3>1, PlanItems, ItemBytes
    <3>3. e[i] = e[i - 1] + Len(c) /\ \A j \in 1..Len(c) : w[e[i - 1] + j] = c[j]
      BY <3>1, <3>2 DEF Layout
    <3>4. ASSUME NEW j \in 1..Len(c) PROVE v[e[i - 1] + j] = c[j]
      <4>1. PICK x, y : x = e[i - 1] /\ y = e[i] /\ x \in Nat /\ y \in Nat /\ y <= a /\ y = x + Len(c)
        BY <1>4, <1>10, <3>1, <3>3
      <4>2. PICK l \in Nat : l = Len(c)
        BY <3>2
      <4>3. j \in 1..l /\ y = x + l
        BY <4>1, <4>2
      <4>4. x + j \in 1..(a + m) /\ x + j <= a
        <5>1. x \in Nat /\ y \in Nat /\ y <= a
          BY <4>1
        <5>2. a \in Nat /\ m \in Nat
          BY <1>3, <1>4
        <5>3. j \in Nat /\ 1 <= j /\ j <= l
          BY <4>2, <4>3
        <5>4. x + j <= y /\ x + j \in Nat /\ 1 <= x + j
          BY <4>3, <5>1, <5>3
        <5>5. x + j <= a /\ x + j <= a + m
          BY <5>1, <5>2, <5>4
        <5> QED BY <5>2, <5>4, <5>5
      <4> QED BY <1>6, <3>3, <4>1, <4>4
    <3> QED BY <1>8, <3>1, <3>2, <3>3, <3>4
  <2> QED BY <2>1, <2>2
<1>13. Layout(n + 1, p, f, v)
  BY <1>6, <1>8, <1>11, <1>12 DEF Layout
<1> QED BY <1>13

LEMMA PlanHasLayout ==
  ASSUME NEW p \in CPlans \cup {<<>>}
  PROVE  \E e, w : Layout(Len(p), p, e, w)
<1>1. Len(p) \in Nat
  BY PlanItems
<1>2. PICK T : T = {n \in 0..Len(p) : ~\E e, w : Layout(n, p, e, w)}
  OBVIOUS
<1>3. T \subseteq Nat
  BY <1>1, <1>2
<1>4. ASSUME T # {} PROVE FALSE
  <2>1. PICK n \in T : \A m \in T : n <= m
    BY <1>3, <1>4, LeastNumber
  <2>2. n # 0
    <3>1. PICK e : e = [i \in 0..0 |-> 0]
      OBVIOUS
    <3>2. e \in [0..0 -> Nat] /\ e[0] = 0 /\ (\A i, j \in 0..0 : ~(i < j)) /\ 1..0 = {}
      BY <3>1
    <3>3. <<>> \in Seq(WByte) /\ Len(<<>>) = 0
      OBVIOUS
    <3>4. Layout(0, p, e, <<>>)
      BY <3>2, <3>3 DEF Layout
    <3> QED BY <1>2, <3>4
  <2>3. n - 1 \in 0..(Len(p) - 1) /\ n - 1 \in 0..Len(p) /\ n - 1 \notin T /\ (n - 1) + 1 = n
    BY <1>1, <1>2, <2>1, <2>2
  <2>4. PICK e, w : Layout(n - 1, p, e, w)
    BY <1>2, <2>3
  <2>5. \E f, v : Layout((n - 1) + 1, p, f, v)
    BY <2>3, <2>4, LayoutGrows
  <2> QED BY <1>2, <2>1, <2>3, <2>5
<1> QED BY <1>1, <1>2, <1>4

(* The two parts of a cut sequence. *)
LEMMA CutInTwo ==
  ASSUME NEW S, NEW s \in Seq(S), NEW n \in 0..Len(s)
  PROVE  /\ SubSeq(s, 1, n) \in Seq(S) /\ Len(SubSeq(s, 1, n)) = n
         /\ \A k \in 1..n : SubSeq(s, 1, n)[k] = s[k]
         /\ SubSeq(s, n + 1, Len(s)) \in Seq(S) /\ Len(SubSeq(s, n + 1, Len(s))) = Len(s) - n
         /\ \A k \in 1..(Len(s) - n) : SubSeq(s, n + 1, Len(s))[k] = s[n + k]
<1>1. PICK l \in Nat : l = Len(s)
  BY LenProperties
<1>2. n \in Nat /\ n <= l /\ 1 \in 1..(l + 1) /\ n + 1 \in 1..(l + 1) /\ l \in (n + 1 - 1)..l /\ n \in (1 - 1)..l
  BY <1>1
<1>3. SubSeq(s, 1, n) \in Seq(S) /\ Len(SubSeq(s, 1, n)) = n /\ \A k \in 1..n : SubSeq(s, 1, n)[k] = s[k]
  BY <1>1, <1>2
<1>4. SubSeq(s, n + 1, l) \in Seq(S) /\ Len(SubSeq(s, n + 1, l)) = l - n
      /\ \A k \in 1..(l - n) : SubSeq(s, n + 1, l)[k] = s[n + k]
  BY <1>1, <1>2
<1> QED BY <1>1, <1>3, <1>4

(* What the invariant says of the sizes. *)
LEMMA WireSizes ==
  ASSUME WireInv
  PROVE  /\ Len(cplan) \in Nat /\ Len(cgot) \in Nat /\ Len(cgot) \in 0..Len(cplan) /\ cwrote \in Nat /\ cwrote \in 0..Len(cplan)
         /\ Len(cout) \in Nat /\ Len(cwire) \in Nat /\ Len(cbuf) \in Nat /\ Len(cread.have) \in Nat /\ BytesBefore \in Nat
         /\ cread.have \in Seq(WByte) /\ cread.need \in Nat
         /\ cread.at # "idle" => ~ReaderStopped /\ Len(cgot) + 1 \in 1..Len(cplan) /\ WireItem(Wanted)
<1>1. WireTypes /\ CallOfPlan
  BY DEF WireInv
<1>2. Len(cplan) \in Nat /\ \A i \in 1..Len(cplan) : WireItem(cplan[i])
  BY <1>1, PlanItems DEF WireTypes
<1>3. Len(cgot) \in Nat /\ Len(cgot) <= Len(cplan)
  BY <1>1, LenProperties DEF WireTypes
<1>4. cwrote \in Nat /\ cwrote \in 0..Len(cplan)
  BY <1>1, <1>2 DEF WireTypes
<1>5. cread.have \in Seq(WByte) /\ cread.need \in Nat /\ cout \in Seq(WByte) /\ cwire \in Seq(WByte) /\ cbuf \in Seq(WByte)
  BY <1>1 DEF WireTypes
<1>6. Len(cout) \in Nat /\ Len(cwire) \in Nat /\ Len(cbuf) \in Nat /\ Len(cread.have) \in Nat
  BY <1>5, LenProperties
<1>7. ASSUME cread.at # "idle" PROVE ~ReaderStopped /\ Len(cgot) + 1 \in 1..Len(cplan) /\ WireItem(Wanted)
  <2>1. ~ReaderStopped /\ Len(cgot) < Len(cplan)
    BY <1>1, <1>7 DEF CallOfPlan
  <2>2. Len(cgot) + 1 \in 1..Len(cplan)
    BY <1>2, <1>3, <2>1
  <2> QED BY <1>2, <2>1, <2>2 DEF Wanted
<1>8. BytesBefore \in Nat
  <2>1. CASE cread.at = "data"
    <3>1. Wanted.op \in Sized /\ WireItem(Wanted)
      BY <1>1, <1>7, <2>1 DEF CallOfPlan
    <3>2. Wanted.width \in {1, 2}
      BY <3>1, ItemBytes
    <3> QED BY <2>1, <3>2 DEF BytesBefore
  <2>2. CASE cread.at # "data"
    BY <2>2 DEF BytesBefore
  <2> QED BY <2>1, <2>2
<1>9. Len(cgot) \in 0..Len(cplan)
  BY <1>2, <1>3
<1> QED BY <1>2, <1>3, <1>4, <1>5, <1>6, <1>7, <1>8, <1>9

LEMMA WireInvInit == WireInit => WireInv
<1> SUFFICES ASSUME WireInit PROVE WireInv
  OBVIOUS
<1>1. cplan = <<>> /\ cout = <<>> /\ cwrote = 0 /\ cwshut = FALSE /\ crshut = FALSE /\ cwire = <<>>
      /\ cread = NoRead /\ cbuf = <<>> /\ cgot = <<>>
  BY DEF WireInit
<1>2. Len(cplan) = 0 /\ Len(cgot) = 0 /\ 1..Len(cgot) = {} /\ 1..Len(cplan) = {}
  BY <1>1
<1>3. cread.at = "idle" /\ cread.have = <<>> /\ cread \in [at : {"idle", "value", "length", "data", "delim", "line"}, have : Seq(WByte), need : Nat]
  BY <1>1 DEF NoRead
<1>4. WireTypes
  <2>1. <<>> \in Seq(WByte) /\ <<>> \in Seq(CallResults) /\ 0 \in 0..0
    OBVIOUS
  <2>2. cwrote \in 0..Len(cplan) /\ Len(cgot) <= Len(cplan)
    <3>1. 0 \in 0..0 /\ 0 <= 0
      OBVIOUS
    <3>2. cwrote = 0 /\ Len(cplan) = 0 /\ Len(cgot) = 0
      BY <1>1, <1>2
    <3> QED BY <3>1, <3>2
  <2>4. cwshut \in BOOLEAN /\ crshut \in BOOLEAN
    BY <1>1
  <2>3. cout \in Seq(WByte) /\ cwire \in Seq(WByte) /\ cbuf \in Seq(WByte) /\ cgot \in Seq(CallResults) /\ cplan \in CPlans \cup {<<>>}
    BY <1>1, <2>1
  <2> QED BY <1>1, <1>3, <2>2, <2>3, <2>4 DEF WireTypes
<1>5. ~ReaderStopped /\ CallOfPlan
  BY <1>1, <1>2, <1>3 DEF CallOfPlan, ReaderStopped
<1>6. PICK e, w : Layout(Len(cplan), cplan, e, w)
  BY <1>1, PlanHasLayout
<1>7. e[0] = 0
  BY <1>6 DEF Layout
<1>8. BytesBefore = 0 /\ BytesRead(e) = 0 /\ BytesSent(e) = 0
  BY <1>1, <1>2, <1>3, <1>7 DEF BytesBefore, BytesRead, BytesSent
<1>9. ReaderInPlace(e, w) /\ WriterInPlace(e, w)
  BY <1>1, <1>2, <1>3, <1>7, <1>8 DEF ReaderInPlace, WriterInPlace
<1>10. StreamSound
  BY <1>2 DEF StreamSound, DeliveredInOrder, DeliveredWasWritten, FailsOnlyAtLimits
<1> QED BY <1>4, <1>5, <1>6, <1>9, <1>10 DEF WireInv, BothInPlace

LEMMA GetSocketPairStep ==
  ASSUME WireInv, NEW p \in CPlans, GetSocketPair(p) PROVE WireInv'
<1>1. cplan = <<>> /\ cplan' = p /\ UNCHANGED <<cout, cwrote, cwshut, crshut, cwire, cread, cbuf, cgot>>
  BY DEF GetSocketPair
<1>2. WireTypes /\ CallOfPlan
  BY DEF WireInv
<1>3. Len(cplan) = 0 /\ Len(cgot) = 0 /\ cgot = <<>> /\ cwrote = 0 /\ 1..Len(cgot) = {}
  <2>1. Len(cplan) = 0
    BY <1>1
  <2>2. Len(cgot) = 0 /\ cwrote = 0
    BY <2>1, WireSizes
  <2>3. cgot = <<>>
    BY <1>2, <2>2, EmptySeq DEF WireTypes
  <2> QED BY <2>1, <2>2, <2>3
<1>4. cout = <<>> /\ cread.at = "idle" /\ cread.have = <<>> /\ cbuf = <<>>
  BY <1>2, <1>3 DEF WireTypes, CallOfPlan
<1>5. Len(p) \in Nat
  BY PlanItems
<1>6. WireTypes'
  <2>1. cgot' \in Seq(CallResults')
    BY <1>1, <1>3
  <2> QED BY <1>1, <1>2, <1>3, <1>4, <1>5, <2>1 DEF WireTypes
<1>7. ~ReaderStopped' /\ ~ReaderStopped
  BY <1>1, <1>3 DEF ReaderStopped
<1>8. CallOfPlan'
  BY <1>1, <1>4, <1>7 DEF CallOfPlan
<1>9. cwire = <<>>
  <2>1. PICK e, w : BothInPlace(e, w)
    BY DEF WireInv
  <2>2. e[0] = 0 /\ BytesBefore = 0 /\ BytesSent(e) = e[cwrote]
    BY <1>3, <1>4, <1>7, <2>1 DEF BothInPlace, Layout, BytesBefore, WriterInPlace
  <2>3. Len(cwire) = 0
    BY <1>3, <1>4, <2>2, WireSizes DEF BytesSent, BytesRead
  <2> QED BY <1>2, <2>3, EmptySeq DEF WireTypes
<1>10. PICK e, w : Layout(Len(cplan'), cplan', e, w)
  BY <1>1, PlanHasLayout
<1>11. e[0] = 0 /\ (\A i \in 0..Len(p) : e[i] \in Nat) /\ (\A i, j \in 0..Len(p) : i < j => e[i] < e[j])
  BY <1>1, <1>10 DEF Layout
<1>12. BytesBefore' = 0 /\ (BytesRead(e))' = 0 /\ (BytesSent(e))' = 0
  BY <1>1, <1>3, <1>4, <1>9, <1>11 DEF BytesBefore, BytesRead, BytesSent
<1>13. (ReaderInPlace(e, w))'
  BY <1>1, <1>3, <1>4, <1>9 DEF ReaderInPlace
<1>14. (WriterInPlace(e, w))'
  <2>1. 0 < Len(p) => 0 < e[1]
    BY <1>5, <1>11
  <2>2. \A i \in 1..Len(p) : ~(0 > e[i - 1])
    BY <1>5, <1>11
  <2>3. e[cwrote'] = 0 /\ cwrote' + 1 = 1 /\ cwrote' = 0
    BY <1>1, <1>3, <1>11
  <2> QED BY <1>1, <1>4, <1>12, <2>1, <2>2, <2>3 DEF WriterInPlace
<1>15. StreamSound'
  BY <1>1, <1>3 DEF StreamSound, DeliveredInOrder, DeliveredWasWritten, FailsOnlyAtLimits
<1> QED BY <1>6, <1>8, <1>10, <1>13, <1>14, <1>15 DEF WireInv, BothInPlace

(* The writer's steps leave the reader alone. *)
LEMMA WriterKeeps ==
  ASSUME WireInv, UNCHANGED <<cplan, crshut, cread, cbuf, cgot>>,
         cout' \in Seq(WByte), cwire' \in Seq(WByte), cwshut' \in BOOLEAN, cwshut => cwshut',
         cwrote' \in 0..Len(cplan), cwrote' >= cwrote, cout' # <<>> => cwrote' < Len(cplan) /\ ~cwshut',
         NEW e, NEW w, BothInPlace(e, w),
         ~ReaderStopped => /\ \A k \in 1..Len(cwire') : cwire'[k] = w[BytesRead(e) + k]
                           /\ (WriterInPlace(e, w))'
  PROVE  WireInv'
<1>1. WireTypes /\ CallOfPlan /\ StreamSound
  BY DEF WireInv
<1>2. CallResults' = CallResults
  BY DEF CallResults, Handed
<1>3. WireTypes'
  BY <1>1, <1>2 DEF WireTypes
<1>4. ReaderStopped' = ReaderStopped /\ Wanted' = Wanted
  BY DEF ReaderStopped, Wanted
<1>5. CallOfPlan'
  BY <1>1, <1>4 DEF CallOfPlan, LengthAllowed
<1>6. BytesBefore' = BytesBefore /\ (BytesRead(e))' = BytesRead(e)
  BY <1>4 DEF BytesBefore, BytesRead
<1>7. (BothInPlace(e, w))'
  <2>1. (Layout(Len(cplan), cplan, e, w))'
    BY DEF BothInPlace
  <2>2. ASSUME ~ReaderStopped' PROVE (ReaderInPlace(e, w) /\ WriterInPlace(e, w))'
    <3>1. ~ReaderStopped /\ ReaderInPlace(e, w)
      BY <1>4, <2>2 DEF BothInPlace
    <3> QED BY <1>6, <3>1 DEF ReaderInPlace
  <2> QED BY <2>1, <2>2 DEF BothInPlace
<1>8. StreamSound'
  <2>1. DeliveredInOrder'
    BY <1>1 DEF StreamSound, DeliveredInOrder, Handed
  <2>2. DeliveredWasWritten'
    <3>1. \A i \in 1..Len(cgot) : i <= cwrote => i <= cwrote'
      BY WireSizes
    <3> QED BY <1>1, <3>1 DEF StreamSound, DeliveredWasWritten
  <2>3. FailsOnlyAtLimits'
    BY <1>1 DEF StreamSound, FailsOnlyAtLimits
  <2> QED BY <2>1, <2>2, <2>3 DEF StreamSound
<1> QED BY <1>3, <1>5, <1>7, <1>8 DEF WireInv

LEMMA StartWriteStep ==
  ASSUME WireInv, StartWrite PROVE WireInv'
<1>1. cwrote < Len(cplan) /\ cout = <<>> /\ ~cwshut /\ UNCHANGED <<cplan, cwrote, crshut, cwire, cread, cbuf, cgot>>
  BY DEF StartWrite
<1>2. WireTypes
  BY DEF WireInv
<1>3. PICK e, w : BothInPlace(e, w)
  BY DEF WireInv
<1>4. Len(cplan) \in Nat /\ cwrote \in Nat /\ cwrote \in 0..Len(cplan) /\ cwrote + 1 \in 1..Len(cplan)
  BY <1>1, WireSizes
<1>5. ToWrite = cplan[cwrote + 1] /\ WireItem(ToWrite)
  BY <1>2, <1>4, PlanItems DEF ToWrite, WireTypes
<1>6. (BytesRead(e))' = BytesRead(e) /\ (BytesSent(e))' = BytesSent(e)
  BY <1>1 DEF BytesRead, BytesSent, BytesBefore, Wanted
<1>7. CASE StringTooLong(ToWrite)
  <2>1. cwshut' = TRUE /\ cout' = <<>>
    BY <1>1, <1>7 DEF StartWrite
  <2>2. ASSUME ~ReaderStopped
        PROVE  (\A k \in 1..Len(cwire') : cwire'[k] = w[BytesRead(e) + k]) /\ (WriterInPlace(e, w))'
    <3>1. ReaderInPlace(e, w) /\ WriterInPlace(e, w)
      BY <1>3, <2>2 DEF BothInPlace
    <3> QED BY <1>1, <1>6, <2>1, <3>1 DEF ReaderInPlace, WriterInPlace
  <2> QED BY <1>1, <1>2, <1>3, <1>4, <2>1, <2>2, WriterKeeps DEF WireTypes
<1>8. CASE ~StringTooLong(ToWrite)
  <2>1. cwshut' = cwshut /\ cout' = BytesOf(ToWrite)
    BY <1>8 DEF StartWrite
  <2>2. cout' \in Seq(WByte) /\ Len(cout') \in Nat \ {0} /\ cout' # <<>>
    <3>1. cout' \in Seq(WByte) /\ Len(cout') \in Nat \ {0}
      BY <1>5, <2>1, ItemBytes
    <3> QED BY <3>1
  <2>3. ASSUME ~ReaderStopped
        PROVE  (\A k \in 1..Len(cwire') : cwire'[k] = w[BytesRead(e) + k]) /\ (WriterInPlace(e, w))'
    <3>1. ReaderInPlace(e, w) /\ WriterInPlace(e, w) /\ Layout(Len(cplan), cplan, e, w)
      BY <1>3, <2>3 DEF BothInPlace
    <3>2. BytesSent(e) = e[cwrote]
      BY <1>1, <3>1 DEF WriterInPlace
    <3>3. /\ e[cwrote + 1] = e[cwrote] + Len(cout')
          /\ \A k \in 1..Len(cout') : w[e[cwrote] + k] = cout'[k]
      <4>1. (cwrote + 1) - 1 = cwrote
        BY <1>4
      <4>2. /\ e[cwrote + 1] = e[(cwrote + 1) - 1] + Len(BytesOf(cplan[cwrote + 1]))
            /\ \A k \in 1..Len(BytesOf(cplan[cwrote + 1])) : w[e[(cwrote + 1) - 1] + k] = BytesOf(cplan[cwrote + 1])[k]
        BY <1>4, <3>1 DEF Layout
      <4> QED BY <1>5, <2>1, <4>1, <4>2
    <3>4. (WriterInPlace(e, w))'
      BY <1>1, <1>5, <1>6, <1>8, <2>2, <3>1, <3>2, <3>3 DEF WriterInPlace
    <3> QED BY <1>1, <3>1, <3>4 DEF ReaderInPlace
  <2> QED BY <1>1, <1>2, <1>3, <1>4, <2>1, <2>2, <2>3, WriterKeeps DEF WireTypes
<1> QED BY <1>7, <1>8

LEMMA WriterEndsStep ==
  ASSUME WireInv, WireWriteFails \/ WriterCloses PROVE WireInv'
<1>1. ~cwshut /\ cwshut' = TRUE /\ cout' = <<>> /\ UNCHANGED <<cplan, cwrote, crshut, cwire, cread, cbuf, cgot>>
  BY DEF WireWriteFails, WriterCloses
<1>2. WireTypes
  BY DEF WireInv
<1>3. PICK e, w : BothInPlace(e, w)
  BY DEF WireInv
<1>4. (BytesRead(e))' = BytesRead(e) /\ (BytesSent(e))' = BytesSent(e)
  BY <1>1 DEF BytesRead, BytesSent, BytesBefore, Wanted
<1>5. ASSUME ~ReaderStopped
      PROVE  (\A k \in 1..Len(cwire') : cwire'[k] = w[BytesRead(e) + k]) /\ (WriterInPlace(e, w))'
  <2>1. ReaderInPlace(e, w) /\ WriterInPlace(e, w)
    BY <1>3, <1>5 DEF BothInPlace
  <2> QED BY <1>1, <1>4, <2>1 DEF ReaderInPlace, WriterInPlace
<1>6. cwrote' >= cwrote /\ cwrote' \in 0..Len(cplan)
  BY <1>1, WireSizes
<1> QED BY <1>1, <1>2, <1>3, <1>5, <1>6, WriterKeeps DEF WireTypes

LEMMA PartialWriteStep ==
  ASSUME WireInv, NEW n \in 1..SChunk, PartialWrite(n) PROVE WireInv'
<1>1. /\ cout # <<>> /\ ~cwshut /\ n <= Len(cout) /\ UNCHANGED <<cplan, cwshut, crshut, cread, cbuf, cgot>>
      /\ cwire' = cwire \o SubSeq(cout, 1, n) /\ cout' = SubSeq(cout, n + 1, Len(cout))
      /\ cwrote' = IF n = Len(cout) THEN cwrote + 1 ELSE cwrote
  BY DEF PartialWrite
<1>2. WireTypes
  BY DEF WireInv
<1>3. PICK e, w : BothInPlace(e, w)
  BY DEF WireInv
<1>4. /\ Len(cplan) \in Nat /\ cwrote \in Nat /\ cwrote + 1 \in 1..Len(cplan) /\ Len(cout) \in Nat /\ Len(cwire) \in Nat
      /\ cwrote < Len(cplan) /\ cout \in Seq(WByte) /\ cwire \in Seq(WByte) /\ n \in Nat /\ n >= 1 /\ SChunk \in Nat
  BY <1>1, <1>2, WireSizes, WireAssumption DEF WireTypes
<1>5. PICK a : a = SubSeq(cout, 1, n) /\ a \in Seq(WByte) /\ Len(a) = n /\ \A k \in 1..n : a[k] = cout[k]
  <2>1. n \in 0..Len(cout)
    BY <1>1, <1>4
  <2>2. SubSeq(cout, 1, n) \in Seq(WByte) /\ Len(SubSeq(cout, 1, n)) = n /\ \A k \in 1..n : SubSeq(cout, 1, n)[k] = cout[k]
    BY <1>4, <2>1, CutInTwo
  <2> QED BY <2>2
<1>6. /\ cout' \in Seq(WByte) /\ Len(cout') = Len(cout) - n /\ \A k \in 1..(Len(cout) - n) : cout'[k] = cout[n + k]
  <2>1. n \in 0..Len(cout)
    BY <1>1, <1>4
  <2>2. PICK b : b = SubSeq(cout, n + 1, Len(cout))
    OBVIOUS
  <2>3. b \in Seq(WByte) /\ Len(b) = Len(cout) - n /\ \A k \in 1..(Len(cout) - n) : b[k] = cout[n + k]
    BY <1>4, <2>1, <2>2, CutInTwo
  <2> QED BY <1>1, <2>2, <2>3
<1>7. /\ cwire' \in Seq(WByte) /\ Len(cwire') = Len(cwire) + n
      /\ \A k \in 1..(Len(cwire) + n) : cwire'[k] = IF k <= Len(cwire) THEN cwire[k] ELSE a[k - Len(cwire)]
  <2>1. /\ cwire \o a \in Seq(WByte) /\ Len(cwire \o a) = Len(cwire) + Len(a)
        /\ \A k \in 1..(Len(cwire) + Len(a)) : (cwire \o a)[k] = IF k <= Len(cwire) THEN cwire[k] ELSE a[k - Len(cwire)]
    BY <1>4, <1>5, ConcatProperties
  <2> QED BY <1>1, <1>5, <2>1
<1>8. cwrote' \in 0..Len(cplan) /\ cwrote' >= cwrote
  <2>1. CASE n = Len(cout)
    BY <1>1, <1>4, <2>1
  <2>2. CASE n # Len(cout)
    BY <1>1, <1>4, <2>2
  <2> QED BY <2>1, <2>2
<1>9. cout' # <<>> => n # Len(cout) /\ cwrote' = cwrote
  <2>1. n = Len(cout) => Len(cout') = 0
    BY <1>4, <1>6
  <2> QED BY <1>1, <1>6, <2>1, EmptySeq
<1>10. ASSUME ~ReaderStopped
       PROVE  (\A k \in 1..Len(cwire') : cwire'[k] = w[BytesRead(e) + k]) /\ (WriterInPlace(e, w))'
  <2>1. ReaderInPlace(e, w) /\ WriterInPlace(e, w) /\ Layout(Len(cplan), cplan, e, w)
    BY <1>3, <1>10 DEF BothInPlace
  <2>2. PICK r, t : r = BytesRead(e) /\ t = BytesSent(e) /\ r \in Nat /\ t = r + Len(cwire) /\ t \in Nat
    <3>1. e[Len(cgot)] \in Nat
      BY <2>1, WireSizes DEF Layout
    <3>2. BytesBefore \in Nat /\ Len(cread.have) \in Nat /\ Len(cbuf) \in Nat
      BY WireSizes
    <3>3. BytesRead(e) \in Nat
      BY <3>1, <3>2 DEF BytesRead
    <3>4. BytesSent(e) = BytesRead(e) + Len(cwire)
      BY DEF BytesSent
    <3>5. BytesRead(e) + Len(cwire) \in Nat
      BY <1>4, <3>3
    <3> QED BY <3>3, <3>4, <3>5, Zenon
  <2>3. (BytesRead(e))' = r /\ (BytesSent(e))' = t + n
    <3>1. (BytesRead(e))' = r
      BY <1>1, <2>2 DEF BytesRead, BytesBefore, Wanted
    <3>2. (BytesSent(e))' = (BytesRead(e))' + Len(cwire')
      BY DEF BytesSent
    <3> QED BY <1>4, <1>7, <2>2, <3>1, <3>2
  <2>4. /\ t + Len(cout) = e[cwrote + 1] /\ ~StringTooLong(cplan[cwrote + 1])
        /\ \A k \in 1..Len(cout) : cout[k] = w[t + k]
        /\ e[cwrote] <= t
        /\ \A i \in 1..Len(cplan) : t > e[i - 1] => ~StringTooLong(cplan[i])
    BY <1>1, <2>1, <2>2 DEF WriterInPlace
  <2>5. ASSUME NEW k \in 1..Len(cwire') PROVE cwire'[k] = w[r + k]
    <3>1. k \in 1..(Len(cwire) + n)
      BY <1>7
    <3>2. CASE k <= Len(cwire)
      <4>1. k \in 1..Len(cwire) /\ cwire'[k] = cwire[k]
        BY <1>4, <1>7, <3>1, <3>2
      <4> QED BY <2>1, <2>2, <4>1 DEF ReaderInPlace
    <3>3. CASE ~(k <= Len(cwire))
      <4>1. PICK j : j = k - Len(cwire) /\ j \in 1..n /\ j \in 1..Len(cout) /\ t + j = r + k
        <5>1. PICK x, y : x = Len(cwire) /\ y = Len(cout) /\ x \in Nat /\ y \in Nat /\ n <= y
          BY <1>1, <1>4
        <5>2. k \in 1..(x + n) /\ ~(k <= x) /\ t = r + x /\ r \in Nat
          BY <2>2, <3>1, <3>3, <5>1
        <5>3. k - x \in 1..n /\ k - x \in 1..y /\ t + (k - x) = r + k
          BY <1>4, <5>1, <5>2
        <5> QED BY <5>1, <5>3
      <4>2. cwire'[k] = a[j]
        BY <1>7, <3>1, <3>3, <4>1
      <4> QED BY <1>5, <2>4, <4>1, <4>2
    <3> QED BY <3>2, <3>3
  <2>6. \A i \in 0..Len(cplan) : e[i] \in Nat
    BY <2>1 DEF Layout
  <2>7. \A i, j \in 0..Len(cplan) : i < j => e[i] < e[j]
    BY <2>1 DEF Layout
  <2>8. ASSUME NEW i \in 1..Len(cplan), t + n > e[i - 1] PROVE ~StringTooLong(cplan[i])
    <3>1. CASE i > cwrote + 1
      <4>1. i - 1 \in 0..Len(cplan) /\ cwrote + 1 \in 0..Len(cplan) /\ (cwrote + 1 = i - 1 \/ cwrote + 1 < i - 1)
        BY <1>4, <3>1
      <4>2. e[cwrote + 1] <= e[i - 1] /\ e[i - 1] \in Nat /\ e[cwrote + 1] \in Nat
        BY <2>6, <2>7, <4>1
      <4>3. PICK y : y = Len(cout) /\ y \in Nat /\ n <= y /\ t + y = e[cwrote + 1]
        BY <1>1, <1>4, <2>4
      <4>4. t + n > e[i - 1]
        BY <2>8
      <4>5. PICK x, z : x = e[i - 1] /\ z = e[cwrote + 1] /\ x \in Nat /\ z \in Nat /\ z <= x
        BY <4>2
      <4>6. t \in Nat /\ n \in Nat
        BY <1>4, <2>2
      <4>7. t + n > x /\ t + y = z
        BY <4>3, <4>4, <4>5
      <4>8. FALSE
        BY <4>3, <4>5, <4>6, <4>7
      <4> QED BY <4>8
    <3>2. CASE i = cwrote + 1
      BY <2>4, <3>2
    <3>3. CASE i < cwrote + 1
      <4>1. i - 1 \in 0..Len(cplan) /\ cwrote \in 0..Len(cplan) /\ i - 1 < cwrote
        BY <1>4, <3>3
      <4>2. e[i - 1] < e[cwrote] /\ e[i - 1] \in Nat /\ e[cwrote] \in Nat
        BY <2>6, <2>7, <4>1
      <4>3. t > e[i - 1]
        BY <2>2, <2>4, <4>2
      <4> QED BY <2>4, <4>3
    <3> QED BY <1>4, <3>1, <3>2, <3>3
  <2>9. CASE n = Len(cout)
    <3>1. cwrote' = cwrote + 1 /\ cout' = <<>> /\ t + n = e[cwrote + 1]
      BY <1>1, <1>9, <2>4, <2>9
    <3>2. cwrote' < Len(cplan) => e[cwrote'] < e[cwrote' + 1]
      <4> SUFFICES ASSUME cwrote + 1 < Len(cplan) PROVE e[cwrote + 1] < e[(cwrote + 1) + 1]
        BY <3>1
      <4>1. cwrote + 1 \in 0..Len(cplan) /\ (cwrote + 1) + 1 \in 0..Len(cplan) /\ cwrote + 1 < (cwrote + 1) + 1
        BY <1>4
      <4> QED BY <2>7, <4>1
    <3>3. e[cwrote'] = t + n /\ t + n \in Nat
      BY <1>4, <2>2, <3>1
    <3>4. (WriterInPlace(e, w))'
      BY <1>1, <2>3, <2>8, <3>1, <3>2, <3>3 DEF WriterInPlace
    <3> QED BY <2>2, <2>5, <3>4
  <2>10. CASE n # Len(cout)
    <3>1. cwrote' = cwrote /\ n < Len(cout)
      BY <1>1, <1>4, <2>10
    <3>2. e[cwrote] \in Nat /\ e[cwrote + 1] \in Nat
      BY <1>4, <2>6
    <3>3. /\ e[cwrote] <= t + n /\ t + n < e[cwrote + 1] /\ (t + n) + Len(cout') = e[cwrote + 1]
      <4>1. PICK y : y = Len(cout) /\ y \in Nat /\ n < y /\ t + y = e[cwrote + 1] /\ Len(cout') = y - n /\ e[cwrote] <= t
        BY <1>4, <1>6, <2>4, <3>1
      <4>2. t \in Nat /\ n \in Nat /\ y \in Nat /\ n < y
        BY <1>4, <2>2, <4>1
      <4>3. (t + n) + (y - n) = t + y /\ t + n < t + y /\ t <= t + n
        BY <4>2
      <4>4. PICK x, z : x = e[cwrote] /\ z = e[cwrote + 1] /\ x \in Nat /\ z \in Nat /\ x <= t /\ z = t + y
        BY <3>2, <4>1
      <4>5. x <= t + n /\ t + n < z /\ (t + n) + (y - n) = z
        BY <4>2, <4>3, <4>4
      <4> QED BY <4>1, <4>4, <4>5
    <3>4. ASSUME NEW k \in 1..Len(cout') PROVE cout'[k] = w[(t + n) + k]
      <4>1. k \in 1..(Len(cout) - n) /\ n + k \in 1..Len(cout) /\ t + (n + k) = (t + n) + k
        <5>1. PICK y : y = Len(cout) /\ y \in Nat /\ Len(cout') = y - n
          BY <1>4, <1>6
        <5>2. t \in Nat /\ n \in Nat /\ k \in 1..(y - n)
          BY <1>4, <2>2, <5>1
        <5>3. n + k \in 1..y /\ t + (n + k) = (t + n) + k
          BY <5>1, <5>2
        <5> QED BY <5>1, <5>2, <5>3
      <4> QED BY <1>6, <2>4, <4>1
    <3>5. cout' # <<>>
      BY <1>4, <1>6, <3>1
    <3>6. cwrote' # Len(cplan)
      BY <1>4, <3>1
    <3>7. (WriterInPlace(e, w))'
      BY <1>1, <2>3, <2>4, <2>8, <3>1, <3>3, <3>4, <3>5, <3>6 DEF WriterInPlace
    <3> QED BY <2>2, <2>5, <3>7
  <2> QED BY <2>9, <2>10
<1>11. cout' # <<>> => cwrote' < Len(cplan) /\ ~cwshut'
  BY <1>1, <1>4, <1>9
<1> QED BY <1>1, <1>2, <1>3, <1>6, <1>7, <1>8, <1>10, <1>11, WriterKeeps DEF WireTypes

(* The positions are numbers. *)
LEMMA WirePositions ==
  ASSUME WireInv, NEW e, NEW w, BothInPlace(e, w)
  PROVE  /\ \A i \in 0..Len(cplan) : e[i] \in Nat
         /\ \A i, j \in 0..Len(cplan) : i < j => e[i] < e[j]
         /\ e[Len(cgot)] \in Nat /\ BytesRead(e) \in Nat /\ BytesSent(e) = BytesRead(e) + Len(cwire) /\ BytesSent(e) \in Nat
<1>1. Layout(Len(cplan), cplan, e, w)
  BY DEF BothInPlace
<1>2. \A i \in 0..Len(cplan) : e[i] \in Nat
  BY <1>1 DEF Layout
<1>3. \A i, j \in 0..Len(cplan) : i < j => e[i] < e[j]
  BY <1>1 DEF Layout
<1>4. e[Len(cgot)] \in Nat
  BY <1>2, WireSizes
<1>5. BytesBefore \in Nat /\ Len(cread.have) \in Nat /\ Len(cbuf) \in Nat /\ Len(cwire) \in Nat
  BY WireSizes
<1>6. BytesRead(e) \in Nat
  BY <1>4, <1>5 DEF BytesRead
<1>7. BytesSent(e) = BytesRead(e) + Len(cwire)
  BY DEF BytesSent
<1>8. BytesRead(e) + Len(cwire) \in Nat
  BY <1>5, <1>6
<1> QED BY <1>2, <1>3, <1>4, <1>6, <1>7, <1>8

(* A read takes the bytes that come next. *)
LEMMA NextBytes ==
  ASSUME WireInv, NEW e, NEW w, BothInPlace(e, w), ~ReaderStopped, NEW n \in 0..Len(cwire), TakeBytes(n)
  PROVE  /\ cwire' \in Seq(WByte) /\ Len(cwire') = Len(cwire) - n
         /\ \A k \in 1..(Len(cwire) - n) : cwire'[k] = w[(BytesRead(e) + n) + k]
         /\ SubSeq(cwire, 1, n) \in Seq(WByte) /\ Len(SubSeq(cwire, 1, n)) = n
         /\ \A k \in 1..n : SubSeq(cwire, 1, n)[k] = w[BytesRead(e) + k]
<1>1. ReaderInPlace(e, w)
  BY DEF BothInPlace
<1>2. cwire \in Seq(WByte) /\ Len(cwire) \in Nat /\ n \in Nat /\ n <= Len(cwire)
  BY WireSizes DEF WireInv, WireTypes
<1>3. PICK r : r = BytesRead(e) /\ r \in Nat
  BY WirePositions
<1>4. \A k \in 1..Len(cwire) : cwire[k] = w[r + k]
  BY <1>1, <1>3 DEF ReaderInPlace
<1>5. cwire' = SubSeq(cwire, n + 1, Len(cwire))
  BY DEF TakeBytes
<1>6. PICK b : b = SubSeq(cwire, n + 1, Len(cwire))
  OBVIOUS
<1>7. b \in Seq(WByte) /\ Len(b) = Len(cwire) - n /\ \A k \in 1..(Len(cwire) - n) : b[k] = cwire[n + k]
  BY <1>2, <1>6, CutInTwo
<1>8. SubSeq(cwire, 1, n) \in Seq(WByte) /\ Len(SubSeq(cwire, 1, n)) = n /\ \A k \in 1..n : SubSeq(cwire, 1, n)[k] = cwire[k]
  BY <1>2, CutInTwo
<1>9. ASSUME NEW k \in 1..(Len(cwire) - n) PROVE b[k] = w[(r + n) + k]
  <2>1. PICK l : l = Len(cwire) /\ l \in Nat /\ n <= l
    BY <1>2
  <2>2. n + k \in 1..l /\ r + (n + k) = (r + n) + k
    BY <1>2, <1>3, <2>1
  <2> QED BY <1>4, <1>7, <2>1, <2>2
<1>10. ASSUME NEW k \in 1..n PROVE SubSeq(cwire, 1, n)[k] = w[r + k]
  <2>1. k \in 1..Len(cwire)
    BY <1>2
  <2> QED BY <1>4, <1>8, <2>1
<1> QED BY <1>3, <1>5, <1>6, <1>7, <1>8, <1>9, <1>10

LEMMA NextHave ==
  ASSUME WireInv, NEW e, NEW w, BothInPlace(e, w), ~ReaderStopped, NEW n \in 0..Len(cwire), TakeBytes(n), cbuf = <<>>
  PROVE  /\ HaveNow(n) \in Seq(WByte) /\ Len(HaveNow(n)) = Len(cread.have) + n
         /\ \A k \in 1..(Len(cread.have) + n) : HaveNow(n)[k] = w[(e[Len(cgot)] + BytesBefore) + k]
<1>1. PICK a : a = SubSeq(cwire, 1, n) /\ a \in Seq(WByte) /\ Len(a) = n /\ \A k \in 1..n : a[k] = w[BytesRead(e) + k]
  <2>1. /\ SubSeq(cwire, 1, n) \in Seq(WByte) /\ Len(SubSeq(cwire, 1, n)) = n
        /\ \A k \in 1..n : SubSeq(cwire, 1, n)[k] = w[BytesRead(e) + k]
    BY NextBytes
  <2> QED BY <2>1
<1>2. PICK h : h = cread.have /\ h \in Seq(WByte) /\ Len(h) \in Nat
  BY WireSizes
<1>3. PICK b : b = e[Len(cgot)] + BytesBefore /\ b \in Nat
  BY WireSizes, WirePositions
<1>4. BytesRead(e) = b + Len(h)
  <2>1. Len(cbuf) = 0
    OBVIOUS
  <2>2. BytesRead(e) = b + Len(h) + Len(cbuf)
    BY <1>2, <1>3 DEF BytesRead
  <2> QED BY <1>2, <1>3, <2>1, <2>2
<1>5. \A k \in 1..Len(h) : h[k] = w[b + k]
  BY <1>2, <1>3 DEF BothInPlace, ReaderInPlace
<1>6. /\ h \o a \in Seq(WByte) /\ Len(h \o a) = Len(h) + Len(a)
      /\ \A k \in 1..(Len(h) + Len(a)) : (h \o a)[k] = IF k <= Len(h) THEN h[k] ELSE a[k - Len(h)]
  <2>1. h \in Seq(WByte) /\ a \in Seq(WByte)
    BY <1>1, <1>2
  <2> QED BY <2>1, ConcatProperties
<1>7. n \in Nat
  BY WireSizes
<1>8. ASSUME NEW k \in 1..(Len(h) + n) PROVE (h \o a)[k] = w[b + k]
  <2>1. (h \o a)[k] = IF k <= Len(h) THEN h[k] ELSE a[k - Len(h)]
    BY <1>1, <1>6
  <2>2. CASE k <= Len(h)
    <3>1. k \in 1..Len(h)
      BY <1>2, <1>7, <2>2
    <3> QED BY <1>5, <2>1, <2>2, <3>1
  <2>3. CASE ~(k <= Len(h))
    <3>1. PICK l : l = Len(h) /\ l \in Nat
      BY <1>2
    <3>2. k - l \in 1..n /\ (b + l) + (k - l) = b + k
      BY <1>3, <1>7, <2>3, <3>1
    <3> QED BY <1>1, <1>4, <2>1, <2>3, <3>1, <3>2
  <2> QED BY <2>2, <2>3
<1>9. HaveNow(n) = h \o a
  BY <1>1, <1>2 DEF HaveNow
<1> QED BY <1>1, <1>2, <1>3, <1>6, <1>8, <1>9

(* A step of the reader that returns nothing yet. *)
LEMMA ReadsOn ==
  ASSUME WireInv, UNCHANGED <<cplan, cout, cwrote, cwshut, crshut, cgot>>, ~ReaderStopped,
         cread' \in [at : {"idle", "value", "length", "data", "delim", "line"}, have : Seq(WByte), need : Nat],
         cbuf' \in Seq(WByte), cwire' \in Seq(WByte), CallOfPlan',
         NEW e, NEW w, BothInPlace(e, w), (BytesSent(e))' = BytesSent(e), (ReaderInPlace(e, w))'
  PROVE  WireInv'
<1>1. WireTypes /\ StreamSound
  BY DEF WireInv
<1>2. CallResults' = CallResults
  BY DEF CallResults, Handed
<1>3. WireTypes'
  BY <1>1, <1>2 DEF WireTypes
<1>4. (WriterInPlace(e, w))'
  BY DEF BothInPlace, WriterInPlace
<1>5. (BothInPlace(e, w))'
  BY <1>4 DEF BothInPlace
<1>6. StreamSound'
  BY <1>1 DEF StreamSound, DeliveredInOrder, DeliveredWasWritten, FailsOnlyAtLimits, Handed
<1> QED BY <1>3, <1>5, <1>6 DEF WireInv

(* What a call that returns leaves of the results. *)
LEMMA ResultAdded ==
  ASSUME WireInv, NEW ok \in BOOLEAN, NEW data, ReturnRead(ok, data), [ok |-> ok, data |-> data] \in CallResults,
         cplan' = cplan
  PROVE  /\ cgot' \in Seq(CallResults') /\ Len(cgot') = Len(cgot) + 1
         /\ cgot'[Len(cgot) + 1] = [ok |-> ok, data |-> data] /\ \A i \in 1..Len(cgot) : cgot'[i] = cgot[i]
         /\ cread' = NoRead
<1>1. cgot \in Seq(CallResults)
  BY DEF WireInv, WireTypes
<1>2. PICK x : x = [ok |-> ok, data |-> data] /\ x \in CallResults
  OBVIOUS
<1>3. cgot' = Append(cgot, x) /\ cread' = NoRead
  BY <1>2 DEF ReturnRead
<1>4. /\ Append(cgot, x) \in Seq(CallResults) /\ Len(Append(cgot, x)) = Len(cgot) + 1
      /\ Append(cgot, x)[Len(cgot) + 1] = x /\ \A i \in 1..Len(cgot) : Append(cgot, x)[i] = cgot[i]
  BY <1>1, <1>2, AppendProperties
<1>5. CallResults' = CallResults
  BY DEF CallResults, Handed
<1> QED BY <1>2, <1>3, <1>4, <1>5

(* A call that fails: there is no other after it. *)
LEMMA ReturnsFailed ==
  ASSUME WireInv, UNCHANGED <<cplan, cout, cwrote, cwshut, cbuf>>, crshut' \in BOOLEAN, cwire' \in Seq(WByte),
         cread.at # "idle", ReturnRead(FALSE, <<>>),
         \/ cwshut
         \/ Wanted.op \in {"block", "string"} /\ Len(Wanted.data) > Wanted.max
         \/ Wanted.op = "exact" /\ Len(Wanted.data) # Wanted.max
         \/ Wanted.op = "delim" /\ Len(Wanted.data) + Len(SDelim) > Wanted.max - (Wanted.max % SBlock)
         \/ Wanted.op = "line" /\ Len(Wanted.data) + 1 > SLineBuffer
  PROVE  WireInv'
<1>1. WireTypes /\ CallOfPlan /\ StreamSound
  BY DEF WireInv
<1>2. /\ cgot' \in Seq(CallResults') /\ Len(cgot') = Len(cgot) + 1
      /\ cgot'[Len(cgot) + 1] = [ok |-> FALSE, data |-> <<>>] /\ \A i \in 1..Len(cgot) : cgot'[i] = cgot[i]
      /\ cread' = NoRead
  <2>1. [ok |-> FALSE, data |-> <<>>] \in CallResults /\ FALSE \in BOOLEAN
    BY DEF CallResults
  <2> QED BY <2>1, ResultAdded
<1>3. PICK m : m = Len(cgot) /\ m \in Nat /\ m + 1 \in 1..Len(cplan) /\ Wanted = cplan[m + 1] /\ Len(cplan) \in Nat
  BY WireSizes DEF Wanted
<1>4. Len(cgot') = m + 1 /\ m + 1 <= Len(cplan) /\ m + 1 \in 1..Len(cgot') /\ ~cgot'[m + 1].ok
  BY <1>2, <1>3
<1>5. cread'.at = "idle" /\ cread'.have = <<>>
      /\ cread' \in [at : {"idle", "value", "length", "data", "delim", "line"}, have : Seq(WByte), need : Nat]
  <2>1. <<>> \in Seq(WByte) /\ 0 \in Nat
    OBVIOUS
  <2> QED BY <1>2, <2>1 DEF NoRead
<1>6. WireTypes'
  BY <1>1, <1>2, <1>4, <1>5 DEF WireTypes
<1>7. ReaderStopped'
  BY <1>4 DEF ReaderStopped
<1>8. CallOfPlan'
  <2>1. cbuf # <<>> => Wanted.op = "line"
    BY <1>1 DEF CallOfPlan
  <2>2. cbuf' # <<>> => Len(cgot') >= 1 /\ cplan'[Len(cgot')].op = "line"
    BY <1>3, <1>4, <2>1
  <2> QED BY <1>5, <2>2 DEF CallOfPlan
<1>9. PICK e, w : BothInPlace(e, w)
  BY DEF WireInv
<1>10. (BothInPlace(e, w))'
  BY <1>7, <1>9 DEF BothInPlace
<1>11. \A i \in 1..Len(cgot') : i = m + 1 \/ (i \in 1..Len(cgot) /\ cgot'[i] = cgot[i])
  BY <1>2, <1>3
<1>12. StreamSound'
  <2>1. DeliveredInOrder'
    BY <1>1, <1>4, <1>11 DEF StreamSound, DeliveredInOrder, Handed
  <2>2. DeliveredWasWritten'
    BY <1>1, <1>4, <1>11 DEF StreamSound, DeliveredWasWritten
  <2>3. FailsOnlyAtLimits'
    BY <1>1, <1>3, <1>4, <1>11 DEF StreamSound, FailsOnlyAtLimits
  <2> QED BY <2>1, <2>2, <2>3 DEF StreamSound
<1> QED BY <1>6, <1>8, <1>10, <1>12 DEF WireInv

(* A call has taken its item, and nothing after it but what a BufferedReader keeps. *)
ItemTaken(e, w, n) ==
  /\ cread.at # "idle" /\ cbuf' \in Seq(WByte) /\ e[Len(cgot) + 1] + Len(cbuf') = BytesRead(e) + n
  /\ \A k \in 1..Len(cbuf') : cbuf'[k] = w[e[Len(cgot) + 1] + k]
  /\ cbuf' # <<>> => Wanted.op = "line"
  /\ Wanted.op \in Sized => LengthAllowed(Len(Wanted.data))

(* It returns what the writer was given at its place. *)
LEMMA ReturnsData ==
  ASSUME WireInv, UNCHANGED <<cplan, cout, cwrote, cwshut, crshut>>, NEW e, NEW w, BothInPlace(e, w),
         NEW n \in 0..Len(cwire), TakeBytes(n), ItemTaken(e, w, n),
         ReturnRead(TRUE, Handed(Len(cgot) + 1))
  PROVE  WireInv'
<1>1. ~ReaderStopped
  BY WireSizes DEF ItemTaken
<1>2. /\ cwire' \in Seq(WByte) /\ Len(cwire') = Len(cwire) - n
      /\ \A k \in 1..(Len(cwire) - n) : cwire'[k] = w[(BytesRead(e) + n) + k]
  BY <1>1, NextBytes
<1> SUFFICES ASSUME cread.at # "idle", cbuf' \in Seq(WByte),
                    e[Len(cgot) + 1] + Len(cbuf') = BytesRead(e) + n,
                    \A k \in 1..Len(cbuf') : cbuf'[k] = w[e[Len(cgot) + 1] + k],
                    cbuf' # <<>> => Wanted.op = "line",
                    Wanted.op \in Sized => LengthAllowed(Len(Wanted.data))
             PROVE  WireInv'
  BY DEF ItemTaken
<1>3. WireTypes /\ CallOfPlan /\ StreamSound
  BY DEF WireInv
<1>4. PICK m : m = Len(cgot) /\ m \in Nat /\ m + 1 \in 1..Len(cplan) /\ Wanted = cplan[m + 1] /\ Len(cplan) \in Nat
               /\ ~ReaderStopped /\ WireItem(Wanted)
  BY WireSizes DEF Wanted
<1>5. /\ cgot' \in Seq(CallResults') /\ Len(cgot') = m + 1
      /\ cgot'[m + 1] = [ok |-> TRUE, data |-> Handed(m + 1)] /\ \A i \in 1..m : cgot'[i] = cgot[i]
      /\ cread' = NoRead
  <2>1. [ok |-> TRUE, data |-> Handed(m + 1)] \in CallResults /\ TRUE \in BOOLEAN
    BY <1>4 DEF CallResults
  <2> QED BY <1>4, <2>1, ResultAdded
<1>6. cread'.at = "idle" /\ cread'.have = <<>>
      /\ cread' \in [at : {"idle", "value", "length", "data", "delim", "line"}, have : Seq(WByte), need : Nat]
  <2>1. <<>> \in Seq(WByte) /\ 0 \in Nat
    OBVIOUS
  <2> QED BY <1>5, <2>1 DEF NoRead
<1>7. WireTypes'
  <2>1. Len(cgot') <= Len(cplan)
    BY <1>4, <1>5
  <2> QED BY <1>3, <1>5, <1>6, <1>2, <2>1 DEF WireTypes
<1>8. \A i \in 1..(m + 1) : i = m + 1 \/ (i \in 1..m /\ cgot'[i] = cgot[i])
  BY <1>4, <1>5
<1>9. ~ReaderStopped'
  <2>1. \A i \in 1..m : cgot[i].ok
    BY <1>4 DEF ReaderStopped
  <2>2. \A i \in 1..(m + 1) : cgot'[i].ok
    BY <1>5, <1>8, <2>1
  <2> QED BY <1>5, <2>2 DEF ReaderStopped
<1>10. CallOfPlan'
  <2>1. cbuf' # <<>> => Len(cgot') >= 1 /\ cplan'[Len(cgot')].op = "line"
    BY <1>4, <1>5
  <2> QED BY <1>6, <1>9, <2>1 DEF CallOfPlan
<1>11. e[m] \in Nat /\ e[m + 1] \in Nat
  <2>1. m \in 0..Len(cplan) /\ m + 1 \in 0..Len(cplan)
    BY <1>4
  <2> QED BY <2>1, WirePositions
<1>12. Len(cwire) \in Nat /\ Len(cbuf') \in Nat
  BY WireSizes, LenProperties
<1>13. PICK r, t : r = BytesRead(e) /\ t = BytesSent(e)
  OBVIOUS
<1>14. PICK x, y : x = e[m] /\ y = e[m + 1]
  OBVIOUS
<1>15. PICK l, b : l = Len(cwire) /\ b = Len(cbuf')
  OBVIOUS
<1>16. /\ r = BytesRead(e) /\ t = BytesSent(e) /\ x = e[m] /\ y = e[m + 1] /\ l = Len(cwire) /\ b = Len(cbuf')
       /\ r \in Nat /\ t = r + l /\ t \in Nat /\ x \in Nat /\ y \in Nat /\ l \in Nat /\ b \in Nat
       /\ y + b = r + n /\ n \in Nat /\ n <= l
  <2>1. n \in Nat /\ n <= Len(cwire)
    BY <1>12
  <2>2. BytesRead(e) \in Nat /\ BytesSent(e) = BytesRead(e) + Len(cwire) /\ BytesSent(e) \in Nat
    BY WirePositions
  <2>3. e[m + 1] + Len(cbuf') = BytesRead(e) + n
    BY <1>4
  <2> QED BY <1>11, <1>12, <1>13, <1>14, <1>15, <2>1, <2>2, <2>3
<1>17. BytesBefore' = 0 /\ (BytesRead(e))' = r + n /\ (BytesSent(e))' = t
  <2>1. BytesBefore' = 0
    BY <1>6 DEF BytesBefore
  <2>2. (BytesRead(e))' = y + 0 + 0 + b
    BY <1>5, <1>6, <1>16, <2>1 DEF BytesRead
  <2>3. (BytesRead(e))' = r + n
    BY <1>16, <2>2
  <2>4. (BytesSent(e))' = (r + n) + (l - n)
    BY <1>2, <1>16, <2>3 DEF BytesSent
  <2>5. (r + n) + (l - n) = r + l
    BY <1>16
  <2> QED BY <1>16, <2>1, <2>3, <2>4, <2>5
<1>18. (ReaderInPlace(e, w))'
  <2>1. \A k \in 1..Len(cread'.have) : FALSE
    BY <1>6
  <2>2. \A k \in 1..Len(cbuf') : cbuf'[k] = w[e[Len(cgot')] + k]
    BY <1>4, <1>5
  <2>3. \A k \in 1..Len(cwire') : cwire'[k] = w[(r + n) + k]
    BY <1>2, <1>16
  <2> QED BY <1>17, <2>1, <2>2, <2>3 DEF ReaderInPlace
<1>19. WriterInPlace(e, w)
  BY <1>4 DEF BothInPlace
<1>20. (BothInPlace(e, w))'
  <2>1. (WriterInPlace(e, w))'
    BY <1>16, <1>17, <1>19 DEF WriterInPlace
  <2> QED BY <1>18, <2>1 DEF BothInPlace
<1>21. m + 1 <= cwrote
  <2> SUFFICES ASSUME ~(m + 1 <= cwrote) PROVE FALSE
    OBVIOUS
  <2>1. cwrote \in Nat /\ cwrote \in 0..Len(cplan)
    BY WireSizes
  <2>2. cwrote < Len(cplan) /\ cwrote + 1 \in 0..Len(cplan) /\ m + 1 \in 0..Len(cplan) /\ (cwrote + 1 = m + 1 \/ cwrote + 1 < m + 1)
    BY <1>4, <2>1
  <2>3. PICK z : z = e[cwrote + 1] /\ z \in Nat /\ t < z
    BY <1>16, <1>19, <2>2, WirePositions DEF WriterInPlace
  <2>4. z <= y
    <3>1. CASE cwrote + 1 = m + 1
      BY <1>16, <2>3, <3>1
    <3>2. CASE cwrote + 1 < m + 1
      <4>1. e[cwrote + 1] < e[m + 1]
        BY <2>2, <3>2, WirePositions
      <4> QED BY <1>16, <2>3, <4>1
    <3> QED BY <2>2, <3>1, <3>2
  <2> QED BY <1>16, <2>3, <2>4
<1>22. Wanted.op \in Sized => Len(Handed(m + 1)) <= Wanted.max
  <2> SUFFICES ASSUME Wanted.op \in Sized PROVE Len(Wanted.data) <= Wanted.max
    BY <1>4 DEF Handed, Sized
  <2>1. LengthAllowed(Len(Wanted.data)) /\ Len(Wanted.data) \in Nat
    BY <1>4, ItemBytes
  <2> QED BY <2>1 DEF LengthAllowed
<1>23. StreamSound'
  <2>1. DeliveredInOrder'
    <3>1. \A i : Handed(i)' = Handed(i)
      BY DEF Handed
    <3> QED BY <1>3, <1>4, <1>5, <1>8, <3>1 DEF StreamSound, DeliveredInOrder
  <2>2. DeliveredWasWritten'
    BY <1>3, <1>4, <1>5, <1>8, <1>21, <1>22 DEF StreamSound, DeliveredWasWritten, Sized
  <2>3. FailsOnlyAtLimits'
    BY <1>3, <1>4, <1>5, <1>8 DEF StreamSound, FailsOnlyAtLimits
  <2> QED BY <2>1, <2>2, <2>3 DEF StreamSound
<1> QED BY <1>7, <1>10, <1>20, <1>23 DEF WireInv

(* The bytes of the item that a call reads. *)
LEMMA ItemInPlace ==
  ASSUME WireInv, NEW e, NEW w, BothInPlace(e, w), cread.at # "idle"
  PROVE  /\ e[Len(cgot) + 1] = e[Len(cgot)] + Len(BytesOf(Wanted)) /\ e[Len(cgot)] \in Nat /\ Len(BytesOf(Wanted)) \in Nat
         /\ \A j \in 1..Len(BytesOf(Wanted)) : w[e[Len(cgot)] + j] = BytesOf(Wanted)[j]
         /\ ReaderInPlace(e, w) /\ WriterInPlace(e, w) /\ ~ReaderStopped /\ WireItem(Wanted)
         /\ cread.at # "line" => cbuf = <<>> /\ BytesRead(e) = (e[Len(cgot)] + BytesBefore) + Len(cread.have)
<1>1. Layout(Len(cplan), cplan, e, w) /\ CallOfPlan
  BY DEF BothInPlace, WireInv
<1>2. PICK m : m = Len(cgot) /\ m \in Nat /\ m + 1 \in 1..Len(cplan) /\ ~ReaderStopped /\ WireItem(Wanted)
  BY WireSizes
<1>3. Wanted = cplan[m + 1] /\ (m + 1) - 1 = m
  BY <1>2 DEF Wanted
<1>4. /\ e[m + 1] = e[(m + 1) - 1] + Len(BytesOf(cplan[m + 1]))
      /\ \A j \in 1..Len(BytesOf(cplan[m + 1])) : w[e[(m + 1) - 1] + j] = BytesOf(cplan[m + 1])[j]
  BY <1>1, <1>2 DEF Layout
<1>5. e[m] \in Nat
  BY <1>2, WirePositions
<1>6. Len(BytesOf(Wanted)) \in Nat
  BY <1>2, ItemBytes
<1>7. ReaderInPlace(e, w) /\ WriterInPlace(e, w)
  BY <1>2 DEF BothInPlace
<1>8. ASSUME cread.at # "line" PROVE cbuf = <<>> /\ BytesRead(e) = (e[m] + BytesBefore) + Len(cread.have)
  <2>1. cbuf = <<>> /\ Len(cbuf) = 0
    BY <1>1, <1>8 DEF CallOfPlan
  <2>2. BytesRead(e) = (e[m] + BytesBefore) + Len(cread.have) + Len(cbuf)
    BY <1>2 DEF BytesRead
  <2>3. BytesBefore \in Nat /\ Len(cread.have) \in Nat
    BY WireSizes
  <2>4. PICK x, y, z : x = e[m] /\ y = BytesBefore /\ z = Len(cread.have) /\ x \in Nat /\ y \in Nat /\ z \in Nat
    BY <1>5, <2>3
  <2>5. (x + y) + z + 0 = (x + y) + z
    BY <2>4
  <2> QED BY <2>1, <2>2, <2>4, <2>5
<1> QED BY <1>2, <1>3, <1>4, <1>5, <1>6, <1>7, <1>8

LEMMA StartReadStep ==
  ASSUME WireInv, StartRead PROVE WireInv'
<1>1. /\ Len(cgot) < Len(cplan) /\ ~ReaderStopped /\ cread.at = "idle"
      /\ UNCHANGED <<cplan, cout, cwrote, cwshut, crshut, cwire, cbuf, cgot>>
  BY DEF StartRead
<1>2. WireTypes /\ CallOfPlan
  BY DEF WireInv
<1>3. PICK m : m = Len(cgot) /\ m \in Nat /\ m + 1 \in 1..Len(cplan) /\ Wanted = cplan[m + 1] /\ Len(cplan) \in Nat
  <2>1. Len(cgot) \in Nat /\ Len(cplan) \in Nat
    BY WireSizes
  <2>2. Len(cgot) + 1 \in 1..Len(cplan)
    BY <1>1, <2>1
  <2> QED BY <2>1, <2>2 DEF Wanted
<1>4. cplan \in CPlans /\ WireItem(Wanted)
  <2>1. cplan # <<>>
    BY <1>3
  <2> QED BY <1>2, <1>3, <2>1, PlanItems DEF WireTypes
<1>5. Wanted.op \in {"u", "block", "exact", "string", "delim", "line"}
  BY <1>4 DEF WireItem
<1>6. cread.have = <<>>
  BY <1>1, <1>2 DEF CallOfPlan
<1>7. cbuf # <<>> => Wanted.op = "line"
  <2> SUFFICES ASSUME cbuf # <<>> PROVE Wanted.op = "line"
    OBVIOUS
  <2>1. m \in 1..Len(cplan) /\ cplan[m].op = "line" /\ m < m + 1
    BY <1>1, <1>2, <1>3 DEF CallOfPlan
  <2>2. \A i, j \in 1..Len(cplan) : i < j /\ cplan[i].op = "line" => cplan[j].op = "line"
    BY <1>4, WireAssumption
  <2> QED BY <1>3, <2>1, <2>2
<1>8. /\ cread'.have = <<>> /\ cread'.at \in {"value", "length", "delim", "line"}
      /\ cread' \in [at : {"idle", "value", "length", "data", "delim", "line"}, have : Seq(WByte), need : Nat]
      /\ cread'.at = "value" => Wanted.op = "u" /\ cread'.need = Wanted.width
      /\ cread'.at = "length" => Wanted.op \in Sized /\ cread'.need = Wanted.width
      /\ cread'.at = "delim" => Wanted.op = "delim"
      /\ cread'.at = "line" <=> Wanted.op = "line"
  <2>1. <<>> \in Seq(WByte) /\ 0 \in Nat /\ 1 \in Nat
    OBVIOUS
  <2>2. CASE Wanted.op = "u"
    <3>1. cread' = [at |-> "value", have |-> <<>>, need |-> Wanted.width]
      BY <2>2 DEF StartRead, NoRead
    <3>2. Wanted.width \in Nat
      BY <1>4, <2>2, ItemBytes
    <3> QED BY <2>1, <2>2, <3>1, <3>2
  <2>3. CASE Wanted.op \in Sized
    <3>1. cread' = [at |-> "length", have |-> <<>>, need |-> Wanted.width]
      BY <2>3 DEF StartRead, NoRead, Sized
    <3>2. Wanted.width \in Nat /\ Wanted.op # "line"
      BY <1>4, <2>3, ItemBytes DEF Sized
    <3> QED BY <2>1, <2>3, <3>1, <3>2
  <2>4. CASE Wanted.op = "delim"
    <3>1. cread' = [at |-> "delim", have |-> <<>>, need |-> 1]
      BY <2>4 DEF StartRead, NoRead
    <3> QED BY <2>1, <2>4, <3>1
  <2>5. CASE Wanted.op = "line"
    <3>1. cread' = [at |-> "line", have |-> <<>>, need |-> 0]
      BY <2>5 DEF StartRead, NoRead
    <3> QED BY <2>1, <2>5, <3>1
  <2> QED BY <1>5, <2>2, <2>3, <2>4, <2>5 DEF Sized
<1>9. Wanted' = Wanted /\ ReaderStopped' = ReaderStopped
  BY <1>1 DEF Wanted, ReaderStopped
<1>10. CallOfPlan'
  <2>1. Wanted.op \in {"u"} \cup Sized => Wanted.width \in {1, 2}
    BY <1>4, ItemBytes
  <2>2. Wanted.op = "delim" => Len(Wanted.data) \in Nat
    BY <1>4, ItemBytes
  <2>3. Len(SDelim) \in Nat /\ Len(SDelim) # 0
    BY WireAssumption, LenProperties, EmptySeq
  <2>4. Len(cread'.have) = 0
    BY <1>8
  <2>5. cread'.at = "value" => cread'.need >= 1 /\ cread'.need + Len(cread'.have) = Wanted'.width
    BY <1>8, <1>9, <2>1, <2>4
  <2>6. cread'.at = "length" => cread'.need >= 1 /\ cread'.need + Len(cread'.have) = Wanted'.width
    BY <1>8, <1>9, <2>1, <2>4
  <2>7. cread'.at = "delim" => Len(cread'.have) < Len(Wanted'.data) + Len(SDelim)
    BY <1>8, <1>9, <2>2, <2>3, <2>4
  <2> QED BY <1>1, <1>7, <1>8, <1>9, <2>5, <2>6, <2>7 DEF CallOfPlan
<1>11. PICK e, w : BothInPlace(e, w)
  BY DEF WireInv
<1>12. BytesBefore' = 0 /\ BytesBefore = 0
  BY <1>1, <1>8 DEF BytesBefore
<1>13. (BytesRead(e))' = BytesRead(e) /\ (BytesSent(e))' = BytesSent(e)
  BY <1>1, <1>6, <1>8, <1>12 DEF BytesRead, BytesSent
<1>14. (ReaderInPlace(e, w))'
  <2>1. ReaderInPlace(e, w)
    BY <1>1, <1>11 DEF BothInPlace
  <2> QED BY <1>1, <1>6, <1>8, <1>12, <1>13, <2>1 DEF ReaderInPlace
<1> QED BY <1>1, <1>2, <1>8, <1>10, <1>11, <1>13, <1>14, ReadsOn DEF WireTypes

LEMMA MoreToReadStep ==
  ASSUME WireInv, NEW n \in 1..SChunk, MoreToRead(n) PROVE WireInv'
<1>1. /\ cread.at \in {"value", "length", "data"} /\ n >= 1 /\ n <= Len(cwire) /\ n < cread.need /\ TakeBytes(n)
      /\ cread' = [cread EXCEPT !.have = HaveNow(n), !.need = cread.need - n]
      /\ UNCHANGED <<cplan, cout, cwrote, cwshut, crshut, cbuf, cgot>>
  BY DEF MoreToRead, FullRead
<1>2. WireTypes /\ CallOfPlan
  BY DEF WireInv
<1>3. PICK e, w : BothInPlace(e, w)
  BY DEF WireInv
<1>4. n \in 0..Len(cwire) /\ n \in Nat /\ cread.need \in Nat /\ Len(cwire) \in Nat
  BY <1>1, WireSizes, WireAssumption
<1>5. /\ ReaderInPlace(e, w) /\ ~ReaderStopped /\ cbuf = <<>>
      /\ BytesRead(e) = (e[Len(cgot)] + BytesBefore) + Len(cread.have) /\ e[Len(cgot)] \in Nat
  BY <1>1, <1>3, ItemInPlace
<1>6. /\ HaveNow(n) \in Seq(WByte) /\ Len(HaveNow(n)) = Len(cread.have) + n
      /\ \A k \in 1..(Len(cread.have) + n) : HaveNow(n)[k] = w[(e[Len(cgot)] + BytesBefore) + k]
  BY <1>1, <1>3, <1>4, <1>5, NextHave
<1>7. /\ cwire' \in Seq(WByte) /\ Len(cwire') = Len(cwire) - n
      /\ \A k \in 1..(Len(cwire) - n) : cwire'[k] = w[(BytesRead(e) + n) + k]
  BY <1>1, <1>3, <1>4, <1>5, NextBytes
<1>8. /\ cread'.at = cread.at /\ cread'.have = HaveNow(n) /\ cread'.need = cread.need - n /\ cread.need - n \in Nat /\ cread.need - n >= 1
      /\ cread' \in [at : {"idle", "value", "length", "data", "delim", "line"}, have : Seq(WByte), need : Nat]
  <2>1. cread.need - n \in Nat /\ cread.need - n >= 1
    BY <1>1, <1>4
  <2>2. cread \in [at : {"idle", "value", "length", "data", "delim", "line"}, have : Seq(WByte), need : Nat]
    BY <1>2 DEF WireTypes
  <2> QED BY <1>1, <1>6, <2>1, <2>2
<1>9. Wanted' = Wanted /\ ReaderStopped' = ReaderStopped /\ BytesBefore' = BytesBefore
  BY <1>1, <1>8 DEF Wanted, ReaderStopped, BytesBefore
<1>10. PICK h, c : h = Len(cread.have) /\ c = cread.need /\ h \in Nat /\ c \in Nat
  BY WireSizes
<1>11. cread'.need + Len(cread'.have) = cread.need + Len(cread.have)
  <2>1. (c - n) + (h + n) = c + h
    BY <1>4, <1>10
  <2> QED BY <1>6, <1>8, <1>10, <2>1
<1>12. CallOfPlan'
  BY <1>1, <1>2, <1>5, <1>8, <1>9, <1>11 DEF CallOfPlan, LengthAllowed
<1>13. PICK b : b = e[Len(cgot)] + BytesBefore /\ b \in Nat /\ BytesRead(e) = b + h
  BY <1>5, <1>10, WireSizes
<1>14. (BytesRead(e))' = (b + h) + n
  <2>1. (BytesRead(e))' = b + (h + n) + Len(cbuf')
    BY <1>1, <1>6, <1>8, <1>9, <1>10, <1>13 DEF BytesRead
  <2>2. Len(cbuf') = 0
    BY <1>1, <1>5
  <2> QED BY <1>4, <1>10, <1>13, <2>1, <2>2
<1>15. (BytesSent(e))' = BytesSent(e)
  <2>1. PICK l : l = Len(cwire) /\ l \in Nat
    BY <1>4
  <2>2. (BytesSent(e))' = ((b + h) + n) + (l - n) /\ BytesSent(e) = (b + h) + l
    BY <1>7, <1>13, <1>14, <2>1 DEF BytesSent
  <2>3. ((b + h) + n) + (l - n) = (b + h) + l
    <3>1. b \in Nat /\ h \in Nat /\ l \in Nat /\ n \in Nat
      BY <1>4, <1>10, <1>13, <2>1
    <3> QED BY <3>1
  <2> QED BY <2>2, <2>3
<1>16. (ReaderInPlace(e, w))'
  <2>1. \A k \in 1..Len(cread'.have) : cread'.have[k] = w[e[Len(cgot')] + BytesBefore' + k]
    BY <1>1, <1>6, <1>8, <1>9
  <2>2. \A k \in 1..Len(cbuf') : FALSE
    BY <1>1, <1>5
  <2>3. \A k \in 1..Len(cwire') : cwire'[k] = w[(BytesRead(e))' + k]
    BY <1>7, <1>13, <1>14
  <2> QED BY <2>1, <2>2, <2>3 DEF ReaderInPlace
<1> QED BY <1>1, <1>2, <1>3, <1>5, <1>7, <1>8, <1>12, <1>15, <1>16, ReadsOn DEF WireTypes

(* The last bytes of what a call waits for. *)
LEMMA LastBytesRead ==
  ASSUME WireInv, NEW e, NEW w, BothInPlace(e, w), NEW n \in 1..SChunk, FullRead(n), n >= cread.need, TakeBytes(n),
         cread.at \in {"value", "length", "data"}
  PROVE  /\ n \in 0..Len(cwire) /\ n \in Nat /\ n >= 1 /\ n = cread.need
         /\ HaveNow(n) \in Seq(WByte) /\ Len(HaveNow(n)) = cread.need + Len(cread.have)
         /\ \A k \in 1..(cread.need + Len(cread.have)) : HaveNow(n)[k] = w[(e[Len(cgot)] + BytesBefore) + k]
         /\ BytesRead(e) + n = (e[Len(cgot)] + BytesBefore) + (cread.need + Len(cread.have))
         /\ cbuf = <<>>
         /\ BytesSent(e) >= BytesRead(e) + n
<1>1. n >= 1 /\ n <= Len(cwire) /\ n <= cread.need
  BY DEF FullRead
<1>2. n \in 0..Len(cwire) /\ n \in Nat /\ cread.need \in Nat /\ Len(cwire) \in Nat
  BY <1>1, WireSizes, WireAssumption
<1>3. n = cread.need
  BY <1>1, <1>2
<1>4. /\ ~ReaderStopped /\ cbuf = <<>>
      /\ BytesRead(e) = (e[Len(cgot)] + BytesBefore) + Len(cread.have) /\ e[Len(cgot)] \in Nat
  BY ItemInPlace
<1>5. /\ HaveNow(n) \in Seq(WByte) /\ Len(HaveNow(n)) = Len(cread.have) + n
      /\ \A k \in 1..(Len(cread.have) + n) : HaveNow(n)[k] = w[(e[Len(cgot)] + BytesBefore) + k]
  BY <1>2, <1>4, NextHave
<1>6. PICK h : h = Len(cread.have) /\ h \in Nat
  BY WireSizes
<1>7. PICK b : b = e[Len(cgot)] + BytesBefore /\ b \in Nat
  BY <1>4, WireSizes
<1>8. h + n = n + h /\ (b + h) + n = b + (n + h)
  BY <1>2, <1>6, <1>7
<1>9. BytesSent(e) >= BytesRead(e) + n
  <2>1. PICK l : l = Len(cwire) /\ l \in Nat /\ n <= l
    BY <1>1, <1>2
  <2>2. PICK r : r = BytesRead(e) /\ r \in Nat
    BY WirePositions
  <2>3. BytesSent(e) = r + l
    BY <2>1, <2>2, WirePositions
  <2> QED BY <1>2, <2>1, <2>2, <2>3
<1> QED BY <1>1, <1>2, <1>3, <1>4, <1>5, <1>6, <1>7, <1>8, <1>9

(* The same when nothing is buffered: the call has taken its item to the last byte. *)
LEMMA ReturnsItem ==
  ASSUME WireInv, UNCHANGED <<cplan, cout, cwrote, cwshut, crshut>>, UNCHANGED cbuf, cread.at # "idle",
         NEW e, NEW w, BothInPlace(e, w), NEW n \in 0..Len(cwire), TakeBytes(n), cbuf = <<>>,
         ReturnRead(TRUE, Handed(Len(cgot) + 1)), e[Len(cgot) + 1] = BytesRead(e) + n,
         Wanted.op \in Sized => LengthAllowed(Len(Wanted.data))
  PROVE  WireInv'
<1>1. cbuf' = <<>> /\ Len(cbuf') = 0 /\ cbuf' \in Seq(WByte)
  OBVIOUS
<1>2. e[Len(cgot) + 1] + Len(cbuf') = BytesRead(e) + n
  <2>1. PICK r : r = BytesRead(e) /\ r \in Nat
    BY WirePositions
  <2>2. n \in Nat
    BY WireSizes
  <2>3. (r + n) + 0 = r + n
    BY <2>1, <2>2
  <2> QED BY <1>1, <2>1, <2>3
<1>3. \A k \in 1..Len(cbuf') : cbuf'[k] = w[e[Len(cgot) + 1] + k]
  BY <1>1
<1>4. cbuf' # <<>> => Wanted.op = "line"
  BY <1>1
<1>5. ItemTaken(e, w, n)
  BY <1>1, <1>2, <1>3, <1>4 DEF ItemTaken
<1> QED BY <1>5, ReturnsData

LEMMA ReadUDoneStep ==
  ASSUME WireInv, NEW n \in 1..SChunk, ReadUDone(n) PROVE WireInv'
<1>1. /\ cread.at = "value" /\ FullRead(n) /\ n >= cread.need /\ TakeBytes(n)
      /\ ReturnRead(TRUE, DecodedU(HaveNow(n))) /\ UNCHANGED <<cplan, cout, cwrote, cwshut, crshut, cbuf>>
  BY DEF ReadUDone
<1>2. CallOfPlan /\ WireTypes
  BY DEF WireInv
<1>3. PICK e, w : BothInPlace(e, w)
  BY DEF WireInv
<1>4. Wanted.op = "u" /\ cread.need + Len(cread.have) = Wanted.width /\ BytesBefore = 0
  BY <1>1, <1>2 DEF CallOfPlan, BytesBefore
<1>5. PICK b, g : b = e[Len(cgot)] /\ b \in Nat /\ g = HaveNow(n)
  BY <1>3, WirePositions
<1>6. /\ n \in 0..Len(cwire) /\ cbuf = <<>> /\ g \in Seq(WByte) /\ Len(g) = Wanted.width
      /\ \A k \in 1..Wanted.width : g[k] = w[b + k]
      /\ BytesRead(e) + n = b + Wanted.width
  <2>1. b + 0 = b
    BY <1>5
  <2> QED BY <1>1, <1>3, <1>4, <1>5, <2>1, LastBytesRead
<1>7. /\ e[Len(cgot) + 1] = b + Len(BytesOf(Wanted)) /\ WireItem(Wanted)
      /\ \A j \in 1..Len(BytesOf(Wanted)) : w[b + j] = BytesOf(Wanted)[j]
  BY <1>1, <1>3, <1>5, ItemInPlace
<1>8. /\ Len(BytesOf(Wanted)) = Wanted.width /\ Wanted.width \in {1, 2} /\ BytesOf(Wanted) = Encoded(Wanted.data, Wanted.width)
      /\ Wanted.data \in Nat /\ Wanted.data <= MaxOf(Wanted.width)
  BY <1>4, <1>7, ItemBytes
<1>9. \A k \in 1..Wanted.width : g[k] = Encoded(Wanted.data, Wanted.width)[k]
  BY <1>6, <1>7, <1>8
<1>10. DecodedU(g) = Wanted.data
  BY <1>6, <1>8, <1>9, EncodedIsDecoded
<1>11. Handed(Len(cgot) + 1) = Wanted.data
  BY <1>4 DEF Handed, Wanted
<1>12. ReturnRead(TRUE, Handed(Len(cgot) + 1))
  BY <1>1, <1>5, <1>10, <1>11
<1>13. e[Len(cgot) + 1] = BytesRead(e) + n
  BY <1>6, <1>7, <1>8
<1>14. Wanted.op \in Sized => LengthAllowed(Len(Wanted.data))
  BY <1>4 DEF Sized
<1>15. UNCHANGED <<cplan, cout, cwrote, cwshut, crshut>> /\ UNCHANGED cbuf /\ cread.at # "idle" /\ TakeBytes(n)
  BY <1>1
<1>16. cbuf = <<>> /\ n \in 0..Len(cwire)
  BY <1>6
<1> QED BY <1>3, <1>12, <1>13, <1>14, <1>15, <1>16, ReturnsItem

LEMMA ReadDataStep ==
  ASSUME WireInv, NEW n \in 1..SChunk, ReadData(n) PROVE WireInv'
<1>1. /\ cread.at = "data" /\ FullRead(n) /\ n >= cread.need /\ TakeBytes(n)
      /\ ReturnRead(TRUE, HaveNow(n)) /\ UNCHANGED <<cplan, cout, cwrote, cwshut, crshut, cbuf>>
  BY DEF ReadData
<1>2. CallOfPlan /\ WireTypes
  BY DEF WireInv
<1>3. PICK e, w : BothInPlace(e, w)
  BY DEF WireInv
<1>4. /\ Wanted.op \in Sized /\ cread.need + Len(cread.have) = Len(Wanted.data) /\ BytesBefore = Wanted.width
      /\ LengthAllowed(Len(Wanted.data))
  BY <1>1, <1>2 DEF CallOfPlan, BytesBefore
<1>5. PICK b, g : b = e[Len(cgot)] /\ b \in Nat /\ g = HaveNow(n)
  BY <1>3, WirePositions
<1>6. /\ n \in 0..Len(cwire) /\ cbuf = <<>> /\ g \in Seq(WByte) /\ Len(g) = Len(Wanted.data)
      /\ \A k \in 1..Len(Wanted.data) : g[k] = w[(b + Wanted.width) + k]
      /\ BytesRead(e) + n = (b + Wanted.width) + Len(Wanted.data)
  BY <1>1, <1>3, <1>4, <1>5, LastBytesRead
<1>7. /\ e[Len(cgot) + 1] = b + Len(BytesOf(Wanted)) /\ WireItem(Wanted)
      /\ \A j \in 1..Len(BytesOf(Wanted)) : w[b + j] = BytesOf(Wanted)[j]
  BY <1>1, <1>3, <1>5, ItemInPlace
<1>8. /\ Len(BytesOf(Wanted)) = Wanted.width + Len(Wanted.data) /\ Wanted.width \in {1, 2} /\ Len(Wanted.data) \in Nat
      /\ Wanted.data \in Seq(WByte)
      /\ \A k \in 1..Len(Wanted.data) : BytesOf(Wanted)[Wanted.width + k] = (Wanted.data)[k]
  BY <1>4, <1>7, ItemBytes
<1>9. PICK d, v, l : d = Wanted.data /\ v = Wanted.width /\ l = Len(d)
  OBVIOUS
<1>10. v \in Nat /\ l \in Nat /\ d \in Seq(WByte) /\ Len(g) = l /\ Len(BytesOf(Wanted)) = v + l
  BY <1>6, <1>8, <1>9
<1>11. ASSUME NEW k \in 1..l PROVE g[k] = d[k]
  <2>1. v + k \in 1..(v + l) /\ b + (v + k) = (b + v) + k
    BY <1>5, <1>10
  <2>2. g[k] = w[(b + v) + k]
    BY <1>6, <1>9
  <2>3. w[b + (v + k)] = BytesOf(Wanted)[v + k]
    BY <1>7, <1>10, <2>1
  <2>4. BytesOf(Wanted)[v + k] = d[k]
    BY <1>8, <1>9
  <2> QED BY <2>1, <2>2, <2>3, <2>4
<1>12. g = d
  <2>1. Len(g) = Len(d) /\ \A k \in 1..Len(g) : g[k] = d[k]
    BY <1>9, <1>10, <1>11
  <2> QED BY <1>6, <1>10, <2>1, SeqEqual
<1>13. Handed(Len(cgot) + 1) = d
  BY <1>4, <1>9 DEF Handed, Wanted, Sized
<1>14. ReturnRead(TRUE, Handed(Len(cgot) + 1))
  BY <1>1, <1>5, <1>12, <1>13
<1>15. e[Len(cgot) + 1] = BytesRead(e) + n
  <2>1. e[Len(cgot) + 1] = b + (v + l) /\ BytesRead(e) + n = (b + v) + l
    BY <1>6, <1>7, <1>9, <1>10
  <2>2. b + (v + l) = (b + v) + l
    BY <1>5, <1>10
  <2> QED BY <2>1, <2>2
<1>16. UNCHANGED <<cplan, cout, cwrote, cwshut, crshut>> /\ UNCHANGED cbuf /\ cread.at # "idle" /\ TakeBytes(n)
  BY <1>1
<1>17. cbuf = <<>> /\ n \in 0..Len(cwire)
  BY <1>6
<1> QED BY <1>3, <1>4, <1>14, <1>15, <1>16, <1>17, ReturnsItem

LEMMA ReadLengthStep ==
  ASSUME WireInv, NEW n \in 1..SChunk, ReadLength(n) PROVE WireInv'
<1>1. /\ cread.at = "length" /\ FullRead(n) /\ n >= cread.need /\ TakeBytes(n)
      /\ UNCHANGED <<cplan, cout, cwrote, cwshut, cbuf>>
  BY DEF ReadLength
<1>2. CallOfPlan /\ WireTypes
  BY DEF WireInv
<1>3. PICK e, w : BothInPlace(e, w)
  BY DEF WireInv
<1>4. Wanted.op \in Sized /\ cread.need + Len(cread.have) = Wanted.width /\ BytesBefore = 0
  BY <1>1, <1>2 DEF CallOfPlan, BytesBefore
<1>5. PICK b, g : b = e[Len(cgot)] /\ b \in Nat /\ g = HaveNow(n)
  BY <1>3, WirePositions
<1>6. /\ n \in 0..Len(cwire) /\ n \in Nat /\ n >= 1 /\ cbuf = <<>> /\ g \in Seq(WByte) /\ Len(g) = Wanted.width
      /\ \A k \in 1..Wanted.width : g[k] = w[b + k]
      /\ BytesRead(e) + n = b + Wanted.width /\ BytesSent(e) >= b + Wanted.width
  <2>1. b + 0 = b /\ e[Len(cgot)] + BytesBefore = b + 0
    BY <1>4, <1>5
  <2>2. /\ n \in 0..Len(cwire) /\ n \in Nat /\ n >= 1 /\ cbuf = <<>>
        /\ g \in Seq(WByte) /\ Len(g) = cread.need + Len(cread.have)
        /\ \A k \in 1..(cread.need + Len(cread.have)) : g[k] = w[(e[Len(cgot)] + BytesBefore) + k]
        /\ BytesRead(e) + n = (e[Len(cgot)] + BytesBefore) + (cread.need + Len(cread.have))
        /\ BytesSent(e) >= BytesRead(e) + n
    BY <1>1, <1>3, <1>5, LastBytesRead
  <2> QED BY <1>4, <2>1, <2>2
<1>7. /\ e[Len(cgot) + 1] = b + Len(BytesOf(Wanted)) /\ WireItem(Wanted) /\ ~ReaderStopped /\ WriterInPlace(e, w)
      /\ \A j \in 1..Len(BytesOf(Wanted)) : w[b + j] = BytesOf(Wanted)[j]
  BY <1>1, <1>3, <1>5, ItemInPlace
<1>8. /\ Len(BytesOf(Wanted)) = Wanted.width + Len(Wanted.data) /\ Wanted.width \in {1, 2} /\ Len(Wanted.data) \in Nat
      /\ \A k \in 1..Wanted.width : BytesOf(Wanted)[k] = Encoded(Len(Wanted.data), Wanted.width)[k]
      /\ (~StringTooLong(Wanted) => Len(Wanted.data) <= MaxOf(Wanted.width))
  BY <1>4, <1>7, ItemBytes
<1>9. ~StringTooLong(Wanted)
  <2>1. /\ Len(cgot) \in Nat /\ Len(cplan) \in Nat /\ Len(cgot) + 1 \in 1..Len(cplan)
        /\ Wanted = cplan[Len(cgot) + 1] /\ (Len(cgot) + 1) - 1 = Len(cgot)
    <3>1. Len(cgot) \in Nat /\ Len(cplan) \in Nat /\ Len(cgot) < Len(cplan)
      BY <1>1, <1>2, WireSizes DEF CallOfPlan
    <3> QED BY <3>1 DEF Wanted
  <2>2. BytesSent(e) > b
    <3>1. BytesSent(e) \in Nat
      BY <1>3, WirePositions
    <3> QED BY <1>5, <1>6, <1>8, <3>1
  <2> QED BY <1>5, <1>7, <2>1, <2>2 DEF WriterInPlace
<1>10. DecodedU(g) = Len(Wanted.data)
  <2>1. \A k \in 1..Wanted.width : g[k] = Encoded(Len(Wanted.data), Wanted.width)[k]
    <3> SUFFICES ASSUME NEW k \in 1..Wanted.width PROVE g[k] = Encoded(Len(Wanted.data), Wanted.width)[k]
      OBVIOUS
    <3>1. k \in 1..Len(BytesOf(Wanted))
      BY <1>8
    <3> QED BY <1>6, <1>7, <1>8, <3>1
  <2> QED BY <1>6, <1>8, <1>9, <2>1, EncodedIsDecoded
<1>11. PICK v, l : v = Wanted.width /\ l = Len(Wanted.data) /\ v \in Nat /\ l \in Nat
  BY <1>8
<1>12. cwire' \in Seq(WByte) /\ Len(cwire') = Len(cwire) - n
       /\ \A k \in 1..(Len(cwire) - n) : cwire'[k] = w[(BytesRead(e) + n) + k]
  BY <1>1, <1>3, <1>6, <1>7, NextBytes
<1>13. CASE ~LengthAllowed(l)
  <2>1. crshut' = TRUE /\ ReturnRead(FALSE, <<>>)
    BY <1>5, <1>10, <1>11, <1>13 DEF ReadLength
  <2>2. \/ Wanted.op \in {"block", "string"} /\ l > Wanted.max
        \/ Wanted.op = "exact" /\ l # Wanted.max
    <3>1. Wanted.op \in {"block", "exact", "string"} /\ Wanted.max \in Nat
      BY <1>4, <1>7 DEF Sized, WireItem
    <3> QED BY <1>11, <1>13, <3>1 DEF LengthAllowed
  <2>3. crshut' \in BOOLEAN
    BY <2>1
  <2> QED BY <1>1, <1>11, <1>12, <2>1, <2>2, <2>3, ReturnsFailed
<1>14. CASE LengthAllowed(l) /\ l = 0
  <2>1. ReturnRead(TRUE, <<>>) /\ crshut' = crshut
    BY <1>5, <1>10, <1>11, <1>14 DEF ReadLength
  <2>2. Handed(Len(cgot) + 1) = Wanted.data /\ Wanted.data = <<>>
    <3>1. Wanted.data \in Seq(WByte)
      BY <1>4, <1>7, ItemBytes
    <3>2. Wanted.data = <<>>
      BY <1>11, <1>14, <3>1, EmptySeq
    <3> QED BY <1>4, <3>2 DEF Handed, Wanted, Sized
  <2>3. e[Len(cgot) + 1] = BytesRead(e) + n
    <3>1. e[Len(cgot) + 1] = b + (v + l) /\ BytesRead(e) + n = b + v
      BY <1>6, <1>7, <1>8, <1>11
    <3>2. b + (v + l) = b + v
      BY <1>5, <1>11, <1>14
    <3> QED BY <3>1, <3>2
  <2>4. UNCHANGED <<cplan, cout, cwrote, cwshut, crshut>> /\ UNCHANGED cbuf /\ cread.at # "idle" /\ TakeBytes(n)
    BY <1>1, <2>1
  <2>5. cbuf = <<>> /\ n \in 0..Len(cwire)
    BY <1>6
  <2>6. ReturnRead(TRUE, Handed(Len(cgot) + 1)) /\ LengthAllowed(Len(Wanted.data))
    BY <1>11, <1>14, <2>1, <2>2
  <2> QED BY <1>3, <2>3, <2>4, <2>5, <2>6, ReturnsItem
<1>15. CASE LengthAllowed(l) /\ l # 0
  <2>1. cread' = [at |-> "data", have |-> <<>>, need |-> l] /\ UNCHANGED <<cgot, crshut>>
    BY <1>5, <1>10, <1>11, <1>15 DEF ReadLength
  <2>2. /\ cread'.at = "data" /\ cread'.have = <<>> /\ cread'.need = l /\ l >= 1 /\ Len(cread'.have) = 0
        /\ cread' \in [at : {"idle", "value", "length", "data", "delim", "line"}, have : Seq(WByte), need : Nat]
    <3>1. <<>> \in Seq(WByte) /\ l >= 1
      BY <1>11, <1>15
    <3> QED BY <1>11, <2>1, <3>1
  <2>3. Wanted' = Wanted /\ ReaderStopped' = ReaderStopped /\ BytesBefore' = v
    BY <1>1, <1>11, <2>1, <2>2 DEF Wanted, ReaderStopped, BytesBefore
  <2>4. (LengthAllowed(Len(Wanted.data)))' /\ Len(cgot') < Len(cplan')
    <3>1. Len(cgot) < Len(cplan)
      BY <1>1, <1>2 DEF CallOfPlan
    <3> QED BY <1>1, <1>11, <1>15, <2>1, <2>3, <3>1 DEF LengthAllowed
  <2>5. cread'.need + Len(cread'.have) = Len(Wanted'.data)
    BY <1>11, <2>2, <2>3
  <2>6. CallOfPlan'
    BY <1>1, <1>4, <1>6, <1>7, <2>2, <2>3, <2>4, <2>5 DEF CallOfPlan
  <2>7. (BytesRead(e))' = BytesRead(e) + n
    <3>1. (BytesRead(e))' = b + v + 0 + 0
      BY <1>1, <1>5, <1>6, <2>1, <2>2, <2>3 DEF BytesRead
    <3>2. b + v + 0 + 0 = b + v
      BY <1>5, <1>11
    <3> QED BY <1>6, <1>11, <3>1, <3>2
  <2>8. (BytesSent(e))' = BytesSent(e)
    <3>1. PICK x, r : x = Len(cwire) /\ r = BytesRead(e) /\ x \in Nat /\ r \in Nat
      BY <1>3, WireSizes, WirePositions
    <3>2. (BytesSent(e))' = (r + n) + (x - n) /\ BytesSent(e) = r + x
      BY <1>12, <2>7, <3>1 DEF BytesSent
    <3>3. (r + n) + (x - n) = r + x
      BY <1>6, <3>1
    <3> QED BY <3>2, <3>3
  <2>9. (ReaderInPlace(e, w))'
    <3>1. \A k \in 1..Len(cread'.have) : FALSE
      BY <2>2
    <3>2. \A k \in 1..Len(cbuf') : FALSE
      BY <1>1, <1>6
    <3>3. \A k \in 1..Len(cwire') : cwire'[k] = w[(BytesRead(e))' + k]
      BY <1>12, <2>7
    <3> QED BY <3>1, <3>2, <3>3 DEF ReaderInPlace
  <2> QED BY <1>1, <1>2, <1>3, <1>7, <1>12, <2>1, <2>2, <2>6, <2>8, <2>9, ReadsOn DEF WireTypes
<1> QED BY <1>13, <1>14, <1>15

(* Part of a sequence. *)
LEMMA PartOf ==
  ASSUME NEW S, NEW s \in Seq(S), NEW i \in Nat, NEW l \in Nat, i + l <= Len(s)
  PROVE  /\ SubSeq(s, i + 1, i + l) \in Seq(S) /\ Len(SubSeq(s, i + 1, i + l)) = l
         /\ \A k \in 1..l : SubSeq(s, i + 1, i + l)[k] = s[i + k]
<1>1. PICK n \in Nat : n = Len(s)
  BY LenProperties
<1>2. i + 1 \in 1..(n + 1) /\ i + l \in ((i + 1) - 1)..n
  BY <1>1
<1>3. SubSeq(s, i + 1, i + l) \in Seq(S) /\ Len(SubSeq(s, i + 1, i + l)) = (i + l) - (i + 1) + 1
  BY <1>1, <1>2
<1>4. (i + l) - (i + 1) + 1 = l
  OBVIOUS
<1>5. ASSUME NEW k \in 1..l PROVE SubSeq(s, i + 1, i + l)[k] = s[i + k]
  BY <1>1, <1>2
<1> QED BY <1>3, <1>4, <1>5

(* The delimiter is found with the last byte of the block and not before. *)
LEMMA DelimiterEndsBlock ==
  ASSUME NEW x, WireItem(x), x.op = "delim", NEW s \in Seq(WByte), Len(s) <= Len(x.data) + Len(SDelim),
         \A k \in 1..Len(s) : s[k] = BytesOf(x)[k]
  PROVE  IF EndsWith(s, SDelim) THEN s = BytesOf(x) ELSE Len(s) < Len(x.data) + Len(SDelim)
<1>1. PICK c : c = BytesOf(x) /\ c \in Seq(WByte) /\ c = x.data \o SDelim /\ Len(c) = Len(x.data) + Len(SDelim)
  BY ItemBytes
<1>2. x.data \in Seq(WByte) /\ SDelim \in Seq(WByte)
  BY ItemBytes, WireAssumption DEF WByte
<1>3. PICK a, d, n : a = Len(x.data) /\ d = Len(SDelim) /\ n = Len(s) /\ a \in Nat /\ d \in Nat /\ n \in Nat
  BY <1>2, LenProperties
<1>4. n <= a + d /\ Len(c) = a + d /\ \A k \in 1..n : s[k] = c[k]
  BY <1>1, <1>3
<1>5. ASSUME n = a + d PROVE s = c
  <2>1. Len(s) = Len(c) /\ \A k \in 1..Len(s) : s[k] = c[k]
    BY <1>3, <1>4, <1>5
  <2> QED BY <1>1, <2>1, SeqEqual
<1>6. SubSeq(c, a + 1, a + d) = SDelim
  <2>1. \A k \in 1..d : c[a + k] = SDelim[k]
    <3> SUFFICES ASSUME NEW k \in 1..d PROVE c[a + k] = SDelim[k]
      OBVIOUS
    <3>1. a + k \in 1..(a + d) /\ ~(a + k <= a) /\ (a + k) - a = k
      BY <1>3
    <3>2. \A j \in 1..(Len(x.data) + Len(SDelim)) :
            (x.data \o SDelim)[j] = IF j <= Len(x.data) THEN (x.data)[j] ELSE SDelim[j - Len(x.data)]
      BY <1>2, ConcatProperties
    <3> QED BY <1>1, <1>3, <3>1, <3>2
  <2>2. PICK t : t = SubSeq(c, a + 1, a + d)
    OBVIOUS
  <2>3. a + d <= Len(c)
    BY <1>3, <1>4
  <2>4. t \in Seq(WByte) /\ Len(t) = d /\ \A k \in 1..d : t[k] = c[a + k]
    BY <1>1, <1>3, <2>2, <2>3, PartOf
  <2>5. Len(t) = Len(SDelim) /\ \A k \in 1..Len(t) : t[k] = SDelim[k]
    BY <1>3, <2>1, <2>4
  <2>6. t = SDelim
    BY <1>2, <2>4, <2>5, SeqEqual
  <2> QED BY <2>2, <2>6
<1>7. CASE n = a + d
  <2>1. s = c
    BY <1>5, <1>7
  <2>2. n >= d /\ (n - d) + 1 = a + 1
    BY <1>3, <1>7
  <2>3. SubSeq(s, n - d + 1, n) = SDelim
    BY <1>6, <1>7, <2>1, <2>2
  <2>4. EndsWith(s, SDelim)
    BY <1>3, <2>2, <2>3 DEF EndsWith
  <2> QED BY <1>1, <2>1, <2>4
<1>8. CASE n < a + d
  <2>1. ~EndsWith(s, SDelim)
    <3> SUFFICES ASSUME EndsWith(s, SDelim) PROVE FALSE
      OBVIOUS
    <3>1. n >= d /\ SubSeq(s, n - d + 1, n) = SDelim
      BY <1>3 DEF EndsWith
    <3>2. PICK i : i \in Nat /\ i = n - d
      BY <1>3, <3>1
    <3>3. i + d = n /\ i + d <= Len(s) /\ i + d <= Len(c) /\ n \in d..(a + d - 1)
      BY <1>3, <1>4, <1>8, <3>1, <3>2
    <3>4. PICK t, u : t = SubSeq(s, i + 1, i + d) /\ u = SubSeq(c, i + 1, i + d)
      OBVIOUS
    <3>5. t \in Seq(WByte) /\ Len(t) = d /\ \A k \in 1..d : t[k] = s[i + k]
      BY <1>3, <3>2, <3>3, <3>4, PartOf
    <3>6. u \in Seq(WByte) /\ Len(u) = d /\ \A k \in 1..d : u[k] = c[i + k]
      <4>1. c \in Seq(WByte) /\ i \in Nat /\ d \in Nat /\ i + d <= Len(c)
        BY <1>1, <1>3, <3>2, <3>3
      <4>2. /\ SubSeq(c, i + 1, i + d) \in Seq(WByte) /\ Len(SubSeq(c, i + 1, i + d)) = d
            /\ \A k \in 1..d : SubSeq(c, i + 1, i + d)[k] = c[i + k]
        BY <4>1, PartOf
      <4> QED BY <3>4, <4>2, Zenon
    <3>7. \A k \in 1..d : i + k \in 1..n
      BY <1>3, <3>2, <3>3
    <3>8. Len(t) = Len(u) /\ \A k \in 1..Len(t) : t[k] = u[k]
      BY <1>4, <3>5, <3>6, <3>7
    <3>9. t = u
      BY <3>5, <3>6, <3>8, SeqEqual
    <3>10. t = SDelim
      BY <3>1, <3>2, <3>3, <3>4
    <3>11. SubSeq(c, n - d + 1, n) # SDelim
      <4>1. \A k \in Len(SDelim)..(Len(x.data) + Len(SDelim) - 1) :
              SubSeq(x.data \o SDelim, k - Len(SDelim) + 1, k) # SDelim
        BY DEF WireItem
      <4> QED BY <1>1, <1>3, <3>3, <4>1
    <3> QED BY <3>2, <3>3, <3>4, <3>9, <3>10, <3>11
  <2> QED BY <1>3, <1>8, <2>1
<1>9. n = a + d \/ n < a + d
  BY <1>3, <1>4
<1> QED BY <1>7, <1>8, <1>9

(* A full block that may not be followed by another one has used up the limit. *)
LEMMA BlocksUsedUp ==
  ASSUME NEW a \in Nat, NEW m \in Nat, NEW b \in Nat \ {0}, a % b = 0, a + b > m
  PROVE  a >= m - (m % b)
<1>1. PICK q, p : q = a \div b /\ p = m \div b /\ q \in Nat /\ p \in Nat
  BY TwoDigits
<1>2. PICK r : r = m % b /\ r \in Nat
  BY TwoDigits
<1>3. a = q * b + 0
  BY <1>1, TwoDigits
<1>4. m = p * b + r
  BY <1>1, <1>2, TwoDigits
<1>5. q * b \in Nat /\ p * b \in Nat
  BY <1>1
<1>6. ASSUME q < p PROVE FALSE
  <2>1. PICK z \in Nat : p = (q + 1) + z
    <3>1. p - (q + 1) \in Nat /\ p = (q + 1) + (p - (q + 1))
      BY <1>1, <1>6
    <3> QED BY <3>1
  <2>2. p * b = (q * b + b) + z * b /\ z * b \in Nat
    BY <1>1, <2>1
  <2>3. PICK x, y : x = q * b /\ y = z * b /\ x \in Nat /\ y \in Nat
    BY <1>5, <2>2
  <2>4. a = x /\ m = ((x + b) + y) + r
    BY <1>3, <1>4, <2>2, <2>3
  <2> QED BY <1>2, <2>3, <2>4
<1>7. PICK z \in Nat : q = p + z
  <2>1. q - p \in Nat /\ q = p + (q - p)
    BY <1>1, <1>6
  <2> QED BY <2>1
<1>8. q * b = p * b + z * b /\ z * b \in Nat
  BY <1>1, <1>7
<1>9. PICK x, y : x = p * b /\ y = z * b /\ x \in Nat /\ y \in Nat
  BY <1>5, <1>8
<1>10. a = x + y /\ m = x + r
  BY <1>3, <1>4, <1>8, <1>9
<1> QED BY <1>2, <1>9, <1>10

LEMMA ReadDelimStep ==
  ASSUME WireInv, ReadDelim PROVE WireInv'
<1>1. /\ cread.at = "delim" /\ cwire # <<>> /\ TakeBytes(1)
      /\ UNCHANGED <<cplan, cout, cwrote, cwshut, crshut, cbuf>>
  BY DEF ReadDelim
<1>2. CallOfPlan /\ WireTypes
  BY DEF WireInv
<1>3. PICK e, w : BothInPlace(e, w)
  BY DEF WireInv
<1>4. Wanted.op = "delim" /\ Len(cread.have) < Len(Wanted.data) + Len(SDelim) /\ BytesBefore = 0
  BY <1>1, <1>2 DEF CallOfPlan, BytesBefore
<1>5. PICK b : b = e[Len(cgot)] /\ b \in Nat
  BY <1>3, WirePositions
<1>6. 1 \in 0..Len(cwire)
  <2>1. Len(cwire) \in Nat /\ cwire \in Seq(WByte)
    BY <1>2, WireSizes DEF WireTypes
  <2>2. Len(cwire) # 0
    BY <1>1, <2>1, EmptySeq
  <2> QED BY <2>1, <2>2
<1>7. /\ e[Len(cgot) + 1] = b + Len(BytesOf(Wanted)) /\ WireItem(Wanted) /\ ~ReaderStopped /\ cbuf = <<>>
      /\ BytesRead(e) = (b + 0) + Len(cread.have)
      /\ \A j \in 1..Len(BytesOf(Wanted)) : w[b + j] = BytesOf(Wanted)[j]
  BY <1>1, <1>3, <1>4, <1>5, ItemInPlace
<1>8. PICK g : g = HaveNow(1)
  OBVIOUS
<1>9. /\ g \in Seq(WByte) /\ Len(g) = Len(cread.have) + 1
      /\ \A k \in 1..(Len(cread.have) + 1) : g[k] = w[(e[Len(cgot)] + BytesBefore) + k]
  BY <1>1, <1>3, <1>6, <1>7, <1>8, NextHave
<1>10. PICK h, l : h = Len(cread.have) /\ h \in Nat /\ l = Len(Wanted.data) + Len(SDelim) /\ l \in Nat
  <2>1. Len(Wanted.data) \in Nat
    BY <1>4, <1>7, ItemBytes
  <2>2. Len(SDelim) \in Nat
    BY WireAssumption, LenProperties
  <2>3. Len(Wanted.data) + Len(SDelim) \in Nat /\ Len(cread.have) \in Nat
    BY <2>1, <2>2, WireSizes
  <2> QED BY <2>3
<1>11. h < l /\ Len(g) = h + 1 /\ h + 1 <= l /\ Len(BytesOf(Wanted)) = l /\ b + 0 = b
  BY <1>4, <1>5, <1>7, <1>9, <1>10, ItemBytes
<1>12. \A k \in 1..Len(g) : g[k] = w[b + k] /\ g[k] = BytesOf(Wanted)[k]
  <2> SUFFICES ASSUME NEW k \in 1..(h + 1) PROVE g[k] = w[b + k] /\ g[k] = BytesOf(Wanted)[k]
    BY <1>11
  <2>1. k \in 1..l
    BY <1>10, <1>11
  <2> QED BY <1>4, <1>5, <1>7, <1>9, <1>10, <1>11, <2>1
<1>13. IF EndsWith(g, SDelim) THEN g = BytesOf(Wanted) ELSE Len(g) < l
  <2>1. g \in Seq(WByte) /\ Len(g) <= Len(Wanted.data) + Len(SDelim) /\ \A k \in 1..Len(g) : g[k] = BytesOf(Wanted)[k]
    BY <1>9, <1>10, <1>11, <1>12
  <2>2. IF EndsWith(g, SDelim) THEN g = BytesOf(Wanted) ELSE Len(g) < Len(Wanted.data) + Len(SDelim)
    BY <1>4, <1>7, <2>1, DelimiterEndsBlock
  <2> QED BY <1>10, <2>2
<1>14. /\ cwire' \in Seq(WByte) /\ Len(cwire') = Len(cwire) - 1
       /\ \A k \in 1..(Len(cwire) - 1) : cwire'[k] = w[(BytesRead(e) + 1) + k]
  BY <1>1, <1>3, <1>6, <1>7, NextBytes
<1>15. CASE EndsWith(g, SDelim)
  <2>1. g = BytesOf(Wanted) /\ h + 1 = l
    BY <1>11, <1>13, <1>15
  <2>2. ReturnRead(TRUE, g)
    BY <1>8, <1>15 DEF ReadDelim
  <2>3. Handed(Len(cgot) + 1) = g
    <3>1. BytesOf(Wanted) = Wanted.data \o SDelim
      BY <1>4, <1>7, ItemBytes
    <3> QED BY <1>4, <2>1, <3>1 DEF Handed, Wanted
  <2>4. e[Len(cgot) + 1] = BytesRead(e) + 1
    <3>1. e[Len(cgot) + 1] = b + l /\ BytesRead(e) = b + h
      BY <1>7, <1>10, <1>11
    <3>2. b \in Nat /\ h \in Nat /\ l = h + 1
      BY <1>5, <1>10, <2>1
    <3>3. b + (h + 1) = (b + h) + 1
      BY <3>2
    <3> QED BY <3>1, <3>2, <3>3
  <2>5. UNCHANGED <<cplan, cout, cwrote, cwshut, crshut>> /\ UNCHANGED cbuf /\ cread.at # "idle" /\ TakeBytes(1)
    BY <1>1
  <2>6. Wanted.op \in Sized => LengthAllowed(Len(Wanted.data))
    BY <1>4 DEF Sized
  <2>7. cbuf = <<>> /\ ReturnRead(TRUE, Handed(Len(cgot) + 1))
    BY <1>7, <2>2, <2>3
  <2> QED BY <1>3, <1>6, <2>4, <2>5, <2>6, <2>7, ReturnsItem
<1>16. CASE ~EndsWith(g, SDelim) /\ Len(g) % SBlock = 0 /\ Len(g) + SBlock > Wanted.max
  <2>1. ReturnRead(FALSE, <<>>)
    BY <1>8, <1>16 DEF ReadDelim
  <2>2. Wanted.max \in Nat
    BY <1>4, <1>7 DEF WireItem
  <2>3. PICK q : q = Len(g) /\ q \in Nat /\ q < l
    BY <1>9, <1>13, <1>16, LenProperties
  <2>4. q >= Wanted.max - (Wanted.max % SBlock)
    BY <1>16, <2>2, <2>3, WireAssumption, BlocksUsedUp
  <2>5. Wanted.max % SBlock \in Nat
    <3>1. SBlock \in Nat \ {0}
      BY WireAssumption
    <3>2. Wanted.max % SBlock \in 0..(SBlock - 1)
      BY <2>2, <3>1, TwoDigits
    <3> QED BY <3>1, <3>2
  <2>6. l > Wanted.max - (Wanted.max % SBlock)
    BY <1>10, <2>2, <2>3, <2>4, <2>5
  <2>7. crshut' \in BOOLEAN
    BY <1>1, <1>2 DEF WireTypes
  <2>8. cread.at # "idle"
    BY <1>1
  <2> QED BY <1>1, <1>4, <1>10, <1>14, <2>1, <2>6, <2>7, <2>8, ReturnsFailed
<1>17. CASE ~EndsWith(g, SDelim) /\ ~(Len(g) % SBlock = 0 /\ Len(g) + SBlock > Wanted.max)
  <2>1. cread' = [cread EXCEPT !.have = g] /\ UNCHANGED cgot
    BY <1>8, <1>17 DEF ReadDelim
  <2>2. /\ cread'.at = "delim" /\ cread'.have = g
        /\ cread' \in [at : {"idle", "value", "length", "data", "delim", "line"}, have : Seq(WByte), need : Nat]
    <3>1. cread \in [at : {"idle", "value", "length", "data", "delim", "line"}, have : Seq(WByte), need : Nat]
      BY <1>2 DEF WireTypes
    <3> QED BY <1>1, <1>9, <2>1, <3>1
  <2>3. Wanted' = Wanted /\ ReaderStopped' = ReaderStopped /\ BytesBefore' = 0
    BY <1>1, <2>1, <2>2 DEF Wanted, ReaderStopped, BytesBefore
  <2>4. Len(cgot') < Len(cplan')
    BY <1>1, <1>2, <2>1 DEF CallOfPlan
  <2>5. Len(cread'.have) < Len(Wanted'.data) + Len(SDelim)
    BY <1>10, <1>13, <1>17, <2>2, <2>3
  <2>6. CallOfPlan'
    BY <1>1, <1>4, <1>7, <2>2, <2>3, <2>4, <2>5 DEF CallOfPlan
  <2>7. (BytesRead(e))' = (b + h) + 1 /\ BytesRead(e) = b + h
    <3>1. (BytesRead(e))' = b + 0 + (h + 1) + 0
      BY <1>1, <1>5, <1>7, <1>11, <2>1, <2>2, <2>3 DEF BytesRead
    <3>2. b + 0 + (h + 1) + 0 = (b + h) + 1
      BY <1>5, <1>10
    <3> QED BY <1>7, <1>10, <1>11, <3>1, <3>2
  <2>8. (BytesSent(e))' = BytesSent(e)
    <3>1. PICK x : x = Len(cwire) /\ x \in Nat
      BY WireSizes
    <3>2. (BytesSent(e))' = ((b + h) + 1) + (x - 1) /\ BytesSent(e) = (b + h) + x
      BY <1>14, <2>7, <3>1 DEF BytesSent
    <3>3. ((b + h) + 1) + (x - 1) = (b + h) + x
      BY <1>5, <1>10, <3>1
    <3> QED BY <3>2, <3>3
  <2>9. (ReaderInPlace(e, w))'
    <3>1. \A k \in 1..Len(cread'.have) : cread'.have[k] = w[e[Len(cgot')] + BytesBefore' + k]
      BY <1>5, <1>11, <1>12, <2>1, <2>2, <2>3
    <3>2. \A k \in 1..Len(cbuf') : FALSE
      BY <1>1, <1>7
    <3>3. \A k \in 1..Len(cwire') : cwire'[k] = w[(BytesRead(e))' + k]
      BY <1>14, <2>7
    <3> QED BY <3>1, <3>2, <3>3 DEF ReaderInPlace
  <2> QED BY <1>1, <1>2, <1>3, <1>7, <1>14, <2>1, <2>2, <2>6, <2>8, <2>9, ReadsOn DEF WireTypes
<1> QED BY <1>15, <1>16, <1>17

(* What a BufferedReader holds while a line is read. *)
LEMMA LineInPlace ==
  ASSUME WireInv, NEW e, NEW w, BothInPlace(e, w), cread.at = "line"
  PROVE  /\ Wanted.op = "line" /\ BytesBefore = 0 /\ cread.have = <<>> /\ ~ReaderStopped /\ e[Len(cgot)] \in Nat
         /\ BytesRead(e) = e[Len(cgot)] + Len(cbuf) /\ cbuf \in Seq(WByte) /\ Len(cbuf) \in Nat
         /\ \A k \in 1..Len(cbuf) : cbuf[k] = w[e[Len(cgot)] + k]
         /\ Wanted.data \in Seq(WByte) /\ Len(Wanted.data) \in Nat
         /\ e[Len(cgot) + 1] = e[Len(cgot)] + (Len(Wanted.data) + 1)
         /\ \A k \in 1..Len(cbuf) : k <= Len(Wanted.data) => cbuf[k] = (Wanted.data)[k] /\ cbuf[k] # SDelim[Len(SDelim)]
         /\ Len(Wanted.data) + 1 <= Len(cbuf) => cbuf[Len(Wanted.data) + 1] = SDelim[Len(SDelim)]
<1>1. Wanted.op = "line" /\ BytesBefore = 0 /\ cread.have = <<>> /\ cbuf \in Seq(WByte)
  BY DEF WireInv, CallOfPlan, BytesBefore, WireTypes
<1>2. /\ e[Len(cgot) + 1] = e[Len(cgot)] + Len(BytesOf(Wanted)) /\ WireItem(Wanted) /\ ~ReaderStopped
      /\ \A j \in 1..Len(BytesOf(Wanted)) : w[e[Len(cgot)] + j] = BytesOf(Wanted)[j]
      /\ ReaderInPlace(e, w)
  BY ItemInPlace
<1>3. PICK b : b = e[Len(cgot)] /\ b \in Nat
  BY WirePositions
<1>4. PICK n : n = Len(cbuf) /\ n \in Nat
  BY WireSizes
<1>5. BytesRead(e) = b + n
  <2>1. BytesRead(e) = b + 0 + 0 + n
    BY <1>1, <1>3, <1>4 DEF BytesRead
  <2> QED BY <1>3, <1>4, <2>1
<1>6. \A k \in 1..n : cbuf[k] = w[b + k]
  BY <1>2, <1>3, <1>4 DEF ReaderInPlace
<1>7. PICK d, l : d = Wanted.data /\ l = Len(d)
  OBVIOUS
<1>8. /\ d \in Seq(WByte) /\ l \in Nat /\ Len(BytesOf(Wanted)) = l + 1
      /\ \A k \in 1..l : BytesOf(Wanted)[k] = d[k]
      /\ BytesOf(Wanted)[l + 1] = SDelim[Len(SDelim)]
  BY <1>1, <1>2, <1>7, ItemBytes
<1>9. \A k \in 1..l : d[k] # SDelim[Len(SDelim)]
  BY <1>1, <1>2, <1>7 DEF WireItem
<1>10. ASSUME NEW k \in 1..n, k <= l PROVE cbuf[k] = d[k] /\ cbuf[k] # SDelim[Len(SDelim)]
  <2>1. k \in 1..l /\ k \in 1..(l + 1)
    BY <1>4, <1>8, <1>10
  <2> QED BY <1>2, <1>3, <1>6, <1>8, <1>9, <2>1
<1>11. ASSUME l + 1 <= n PROVE cbuf[l + 1] = SDelim[Len(SDelim)]
  <2>1. l + 1 \in 1..n /\ l + 1 \in 1..(l + 1)
    BY <1>4, <1>8, <1>11
  <2> QED BY <1>2, <1>3, <1>6, <1>8, <2>1
<1> QED BY <1>1, <1>2, <1>3, <1>4, <1>5, <1>6, <1>7, <1>8, <1>10, <1>11

LEMMA BufferedReadUntilStep ==
  ASSUME WireInv, BufferedReadUntil PROVE WireInv'
<1>1. cread.at = "line" /\ LineEnds # {} /\ UNCHANGED <<cplan, cout, cwrote, cwshut, crshut, cwire>>
  BY DEF BufferedReadUntil
<1>2. PICK e, w : BothInPlace(e, w)
  BY DEF WireInv
<1>3. PICK b, d, l : b = e[Len(cgot)] /\ d = Wanted.data /\ l = Len(d)
  OBVIOUS
<1>4. PICK n : n = Len(cbuf)
  OBVIOUS
<1>5. /\ Wanted.op = "line" /\ b \in Nat /\ BytesRead(e) = b + n /\ cbuf \in Seq(WByte) /\ n \in Nat
      /\ \A k \in 1..n : cbuf[k] = w[b + k]
      /\ d \in Seq(WByte) /\ l \in Nat /\ e[Len(cgot) + 1] = b + (l + 1)
      /\ \A k \in 1..n : k <= l => cbuf[k] = d[k] /\ cbuf[k] # SDelim[Len(SDelim)]
      /\ (l + 1 <= n => cbuf[l + 1] = SDelim[Len(SDelim)])
  BY <1>1, <1>2, <1>3, <1>4, LineInPlace
<1>6. PICK i : i = CHOOSE k \in LineEnds : \A j \in LineEnds : k <= j
  OBVIOUS
<1>7. i \in LineEnds /\ \A j \in LineEnds : i <= j
  <2>1. LineEnds \subseteq Nat
    BY <1>4, <1>5 DEF LineEnds
  <2>2. \E k \in LineEnds : \A j \in LineEnds : k <= j
    BY <1>1, <2>1, LeastNumber
  <2> QED BY <1>6, <2>2
<1>8. i \in 1..n /\ cbuf[i] = SDelim[Len(SDelim)]
  BY <1>4, <1>7 DEF LineEnds
<1>9. i = l + 1
  <2>1. ~(i <= l)
    BY <1>5, <1>8
  <2>2. l + 1 <= n /\ l + 1 \in 1..n
    BY <1>5, <1>8, <2>1
  <2>3. l + 1 \in LineEnds
    BY <1>4, <1>5, <2>2 DEF LineEnds
  <2>4. i <= l + 1
    BY <1>7, <2>3
  <2> QED BY <1>5, <1>8, <2>1, <2>4
<1>10. ReturnRead(TRUE, SubSeq(cbuf, 1, i - 1)) /\ cbuf' = SubSeq(cbuf, i + 1, Len(cbuf))
  BY <1>6 DEF BufferedReadUntil
<1>11. l \in 0..Len(cbuf) /\ l + 1 \in 0..Len(cbuf) /\ i - 1 = l /\ l <= n /\ l + 1 <= n
  BY <1>4, <1>5, <1>8, <1>9
<1>12. SubSeq(cbuf, 1, l) = d
  <2>1. PICK t : t = SubSeq(cbuf, 1, l)
    OBVIOUS
  <2>2. t \in Seq(WByte) /\ Len(t) = l /\ \A k \in 1..l : t[k] = cbuf[k]
    BY <1>5, <1>11, <2>1, CutInTwo
  <2>3. \A k \in 1..l : k \in 1..n /\ k <= l
    BY <1>5, <1>11
  <2>4. Len(t) = Len(d) /\ \A k \in 1..Len(t) : t[k] = d[k]
    BY <1>3, <1>5, <2>2, <2>3
  <2>5. t = d
    BY <1>5, <2>2, <2>4, SeqEqual
  <2> QED BY <2>1, <2>5
<1>13. PICK u : u = SubSeq(cbuf, (l + 1) + 1, Len(cbuf))
  OBVIOUS
<1>14. /\ u \in Seq(WByte) /\ Len(u) = Len(cbuf) - (l + 1)
       /\ \A k \in 1..(Len(cbuf) - (l + 1)) : u[k] = cbuf[(l + 1) + k]
  BY <1>5, <1>11, <1>13, CutInTwo
<1>15. cbuf' = u /\ ReturnRead(TRUE, Handed(Len(cgot) + 1))
  <2>1. Handed(Len(cgot) + 1) = d
    BY <1>3, <1>5 DEF Handed, Wanted
  <2> QED BY <1>9, <1>10, <1>11, <1>12, <1>13, <2>1
<1>16. 0 \in 0..Len(cwire) /\ TakeBytes(0)
  <2>1. cwire \in Seq(WByte) /\ Len(cwire) \in Nat
    BY WireSizes DEF WireInv, WireTypes
  <2>2. 0 \in 0..Len(cwire) /\ 0 + 1 = 1
    BY <2>1
  <2>3. PICK v : v = SubSeq(cwire, 0 + 1, Len(cwire))
    OBVIOUS
  <2>4. v \in Seq(WByte) /\ Len(v) = Len(cwire) - 0 /\ \A k \in 1..(Len(cwire) - 0) : v[k] = cwire[0 + k]
    BY <2>1, <2>2, <2>3, CutInTwo
  <2>5. Len(v) = Len(cwire) /\ \A k \in 1..Len(v) : v[k] = cwire[k]
    BY <2>1, <2>4
  <2>6. v = cwire
    BY <2>1, <2>4, <2>5, SeqEqual
  <2> QED BY <1>1, <2>2, <2>3, <2>6 DEF TakeBytes
<1>17. ItemTaken(e, w, 0)
  <2>1. e[Len(cgot) + 1] + Len(cbuf') = BytesRead(e) + 0
    <3>1. e[Len(cgot) + 1] + Len(cbuf') = (b + (l + 1)) + (n - (l + 1)) /\ BytesRead(e) + 0 = (b + n) + 0
      BY <1>4, <1>5, <1>14, <1>15
    <3>2. (b + (l + 1)) + (n - (l + 1)) = (b + n) + 0
      BY <1>5
    <3> QED BY <3>1, <3>2
  <2>2. \A k \in 1..Len(cbuf') : cbuf'[k] = w[e[Len(cgot) + 1] + k]
    <3> SUFFICES ASSUME NEW k \in 1..(n - (l + 1)) PROVE u[k] = w[(b + (l + 1)) + k]
      BY <1>4, <1>5, <1>14, <1>15
    <3>1. (l + 1) + k \in 1..n /\ b + ((l + 1) + k) = (b + (l + 1)) + k
      BY <1>5, <1>11
    <3> QED BY <1>4, <1>5, <1>14, <3>1
  <2> QED BY <1>1, <1>5, <1>14, <1>15, <2>1, <2>2 DEF ItemTaken, Sized
<1> QED BY <1>1, <1>2, <1>15, <1>16, <1>17, ReturnsData

LEMMA RefillBufferStep ==
  ASSUME WireInv, NEW n \in 1..SLineBuffer, RefillBuffer(n) PROVE WireInv'
<1>1. /\ cread.at = "line" /\ n >= 1 /\ n <= Len(cwire) /\ TakeBytes(n) /\ cbuf' = cbuf \o SubSeq(cwire, 1, n)
      /\ UNCHANGED <<cplan, cout, cwrote, cwshut, crshut, cread, cgot>>
  BY DEF RefillBuffer
<1>2. PICK e, w : BothInPlace(e, w)
  BY DEF WireInv
<1>3. PICK b, m : b = e[Len(cgot)] /\ m = Len(cbuf)
  OBVIOUS
<1>4. /\ Wanted.op = "line" /\ BytesBefore = 0 /\ cread.have = <<>> /\ ~ReaderStopped /\ b \in Nat
      /\ BytesRead(e) = b + m /\ cbuf \in Seq(WByte) /\ m \in Nat /\ \A k \in 1..m : cbuf[k] = w[b + k]
  BY <1>1, <1>2, <1>3, LineInPlace
<1>5. n \in 0..Len(cwire) /\ n \in Nat /\ Len(cwire) \in Nat
  BY <1>1, WireSizes, WireAssumption
<1>6. /\ cwire' \in Seq(WByte) /\ Len(cwire') = Len(cwire) - n
      /\ \A k \in 1..(Len(cwire) - n) : cwire'[k] = w[(BytesRead(e) + n) + k]
      /\ SubSeq(cwire, 1, n) \in Seq(WByte) /\ Len(SubSeq(cwire, 1, n)) = n
      /\ \A k \in 1..n : SubSeq(cwire, 1, n)[k] = w[BytesRead(e) + k]
  BY <1>1, <1>2, <1>4, <1>5, NextBytes
<1>7. PICK a : a = SubSeq(cwire, 1, n)
  OBVIOUS
<1>8. a \in Seq(WByte) /\ Len(a) = n /\ \A k \in 1..n : a[k] = w[(b + m) + k]
  BY <1>4, <1>6, <1>7
<1>9. /\ cbuf' \in Seq(WByte) /\ Len(cbuf') = m + n
      /\ \A k \in 1..(m + n) : cbuf'[k] = IF k <= m THEN cbuf[k] ELSE a[k - m]
  <2>1. cbuf \in Seq(WByte) /\ a \in Seq(WByte)
    BY <1>4, <1>8
  <2>2. /\ cbuf \o a \in Seq(WByte) /\ Len(cbuf \o a) = Len(cbuf) + Len(a)
        /\ \A k \in 1..(Len(cbuf) + Len(a)) : (cbuf \o a)[k] = IF k <= Len(cbuf) THEN cbuf[k] ELSE a[k - Len(cbuf)]
    BY <2>1, ConcatProperties
  <2> QED BY <1>1, <1>3, <1>7, <1>8, <2>2
<1>10. \A k \in 1..Len(cbuf') : cbuf'[k] = w[b + k]
  <2> SUFFICES ASSUME NEW k \in 1..(m + n) PROVE cbuf'[k] = w[b + k]
    BY <1>9
  <2>1. CASE k <= m
    <3>1. k \in 1..m
      BY <1>4, <1>5, <2>1
    <3> QED BY <1>4, <1>9, <2>1, <3>1
  <2>2. CASE ~(k <= m)
    <3>1. k - m \in 1..n /\ (b + m) + (k - m) = b + k
      BY <1>4, <1>5, <2>2
    <3> QED BY <1>8, <1>9, <2>2, <3>1
  <2> QED BY <2>1, <2>2
<1>11. Wanted' = Wanted /\ ReaderStopped' = ReaderStopped /\ BytesBefore' = 0
  BY <1>1, <1>4 DEF Wanted, ReaderStopped, BytesBefore
<1>12. CallOfPlan'
  <2>1. Len(cgot') < Len(cplan')
    BY <1>1 DEF WireInv, CallOfPlan
  <2> QED BY <1>1, <1>4, <1>11, <2>1 DEF CallOfPlan
<1>13. (BytesRead(e))' = (b + m) + n
  <2>1. (BytesRead(e))' = b + 0 + 0 + (m + n)
    BY <1>1, <1>3, <1>4, <1>9, <1>11 DEF BytesRead
  <2>2. b + 0 + 0 + (m + n) = (b + m) + n
    BY <1>4, <1>5
  <2> QED BY <2>1, <2>2
<1>14. (BytesSent(e))' = BytesSent(e)
  <2>1. PICK l : l = Len(cwire) /\ l \in Nat
    BY <1>5
  <2>2. (BytesSent(e))' = ((b + m) + n) + (l - n) /\ BytesSent(e) = (b + m) + l
    BY <1>4, <1>6, <1>13, <2>1 DEF BytesSent
  <2>3. ((b + m) + n) + (l - n) = (b + m) + l
    BY <1>4, <1>5, <2>1
  <2> QED BY <2>2, <2>3
<1>15. (ReaderInPlace(e, w))'
  <2>1. \A k \in 1..Len(cread'.have) : FALSE
    BY <1>1, <1>4
  <2>2. \A k \in 1..Len(cbuf') : cbuf'[k] = w[e[Len(cgot')] + k]
    BY <1>1, <1>3, <1>10
  <2>3. \A k \in 1..Len(cwire') : cwire'[k] = w[(BytesRead(e))' + k]
    BY <1>4, <1>6, <1>13
  <2> QED BY <2>1, <2>2, <2>3 DEF ReaderInPlace
<1>16. cread' \in [at : {"idle", "value", "length", "data", "delim", "line"}, have : Seq(WByte), need : Nat]
  BY <1>1 DEF WireInv, WireTypes
<1> QED BY <1>1, <1>2, <1>4, <1>6, <1>9, <1>12, <1>14, <1>15, <1>16, ReadsOn

LEMMA BufferFullStep ==
  ASSUME WireInv, BufferFull PROVE WireInv'
<1>1. /\ cread.at = "line" /\ LineEnds = {} /\ Len(cbuf) >= SLineBuffer /\ ReturnRead(FALSE, <<>>)
      /\ UNCHANGED <<cplan, cout, cwrote, cwshut, crshut, cwire, cbuf>>
  BY DEF BufferFull
<1>2. PICK e, w : BothInPlace(e, w)
  BY DEF WireInv
<1>3. PICK l, m : l = Len(Wanted.data) /\ m = Len(cbuf)
  OBVIOUS
<1>4. /\ Wanted.op = "line" /\ l \in Nat /\ m \in Nat
      /\ (l + 1 <= m => cbuf[l + 1] = SDelim[Len(SDelim)])
  BY <1>1, <1>2, <1>3, LineInPlace
<1>5. ~(l + 1 <= m)
  <2> SUFFICES ASSUME l + 1 <= m PROVE FALSE
    OBVIOUS
  <2>1. l + 1 \in 1..Len(cbuf) /\ cbuf[l + 1] = SDelim[Len(SDelim)]
    BY <1>3, <1>4
  <2> QED BY <1>1, <2>1 DEF LineEnds
<1>6. SLineBuffer \in Nat
  BY WireAssumption
<1>7. l + 1 > SLineBuffer
  BY <1>1, <1>3, <1>4, <1>5, <1>6
<1>8. crshut' \in BOOLEAN /\ cwire' \in Seq(WByte) /\ cread.at # "idle"
  BY <1>1 DEF WireInv, WireTypes
<1> QED BY <1>1, <1>3, <1>4, <1>7, <1>8, ReturnsFailed

LEMMA EndOfStreamStep ==
  ASSUME WireInv, EndOfStream PROVE WireInv'
<1>1. /\ cread.at # "idle" /\ cwshut /\ ReturnRead(FALSE, <<>>) /\ UNCHANGED <<cplan, cout, cwrote, cwshut, cwire, cbuf>>
      /\ crshut' = (crshut \/ cread.at \in {"value", "length"} \/ (cread.at = "data" /\ Wanted.op = "string"))
  BY DEF EndOfStream
<1>2. crshut' \in BOOLEAN
  BY <1>1, Zenon
<1>3. cwire' \in Seq(WByte)
  BY <1>1 DEF WireInv, WireTypes
<1> QED BY <1>1, <1>2, <1>3, ReturnsFailed

LEMMA WireInvStep == WireInv /\ [WireNext]_wireVars => WireInv'
<1> SUFFICES ASSUME WireInv, [WireNext]_wireVars PROVE WireInv'
  OBVIOUS
<1>1. CASE UNCHANGED wireVars
  <2>1. UNCHANGED <<cplan, cout, cwrote, cwshut, crshut>> /\ UNCHANGED <<cwire, cread, cbuf, cgot>>
    BY <1>1 DEF wireVars
  <2>2. WireTypes' /\ CallOfPlan' /\ StreamSound'
    <3>1. WireTypes /\ CallOfPlan /\ StreamSound
      BY DEF WireInv
    <3>2. Wanted' = Wanted /\ ReaderStopped' = ReaderStopped /\ CallResults' = CallResults
      BY <2>1 DEF Wanted, ReaderStopped, CallResults, Handed
    <3>3. WireTypes'
      BY <2>1, <3>1, <3>2 DEF WireTypes
    <3>4. CallOfPlan'
      BY <2>1, <3>1, <3>2 DEF CallOfPlan, LengthAllowed
    <3>5. StreamSound'
      BY <2>1, <3>1 DEF StreamSound, DeliveredInOrder, DeliveredWasWritten, FailsOnlyAtLimits, Handed
    <3> QED BY <3>3, <3>4, <3>5
  <2>3. PICK e, w : BothInPlace(e, w)
    BY DEF WireInv
  <2>4. (BothInPlace(e, w))'
    BY <2>1, <2>3 DEF BothInPlace, ReaderStopped, ReaderInPlace, WriterInPlace, BytesBefore, BytesRead, BytesSent, Wanted
  <2> QED BY <2>2, <2>4 DEF WireInv
<1>2. CASE \E p \in CPlans : GetSocketPair(p)
  BY <1>2, GetSocketPairStep
<1>3. CASE StartWrite
  BY <1>3, StartWriteStep
<1>4. CASE WireWriteFails \/ WriterCloses
  BY <1>4, WriterEndsStep
<1>5. CASE StartRead
  BY <1>5, StartReadStep
<1>6. CASE \E n \in 1..SChunk : PartialWrite(n)
  BY <1>6, PartialWriteStep
<1>7. CASE \E n \in 1..SChunk : MoreToRead(n)
  BY <1>7, MoreToReadStep
<1>8. CASE \E n \in 1..SChunk : ReadUDone(n)
  BY <1>8, ReadUDoneStep
<1>9. CASE \E n \in 1..SChunk : ReadLength(n)
  BY <1>9, ReadLengthStep
<1>10. CASE \E n \in 1..SChunk : ReadData(n)
  BY <1>10, ReadDataStep
<1>11. CASE ReadDelim
  BY <1>11, ReadDelimStep
<1>12. CASE BufferedReadUntil
  BY <1>12, BufferedReadUntilStep
<1>13. CASE BufferFull
  BY <1>13, BufferFullStep
<1>14. CASE EndOfStream
  BY <1>14, EndOfStreamStep
<1>15. CASE \E n \in 1..SLineBuffer : RefillBuffer(n)
  BY <1>15, RefillBufferStep
<1> QED BY <1>1, <1>2, <1>3, <1>4, <1>5, <1>6, <1>7, <1>8, <1>9, <1>10, <1>11, <1>12, <1>13, <1>14, <1>15 DEF WireNext

(* However the bytes of a plan are cut on their way through writeFull, partialRead and the BufferedReader, and
   wherever the connection ends, a read call that succeeds returns exactly what the write call at its place was
   given and only after that call handed over all of it; a length never exceeds the caller's limit; and while the
   connection lasts a call fails only at a limit (DeliveredInOrder, DeliveredWasWritten, FailsOnlyAtLimits). *)
THEOREM StreamIsSound == WireSpec => []StreamSound
<1>1. WireInit => WireInv
  BY WireInvInit
<1>2. WireInv /\ [WireNext]_wireVars => WireInv'
  BY WireInvStep
<1>3. WireInv => StreamSound
  BY DEF WireInv
<1> QED BY <1>1, <1>2, <1>3, PTL DEF WireSpec

(* The connections as a whole, over the calls of two streams and over the TLS sockets of a process. *)
THEOREM NetworkIsSound == WireSpec /\ TLSSpec => []NetworkSound
<1>1. StreamSound /\ TLSSound => NetworkSound
  BY DEF NetworkSound
<1> QED BY <1>1, StreamIsSound, TLSIsSound, PTL
=============================================================================
