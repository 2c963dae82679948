------------------------------ MODULE Connector ------------------------------
(***************************************************************************)
(* Sockets::Connector, the reconnection loop of a client with the flag     *)
(* that another thread sets to stop it, and Sockets::Listener, which loads *)
(* its keys, listens and hands clients to the acceptor.  The sockets are   *)
(* external: loading a key file, connecting and listening succeed or fail. *)
(***************************************************************************)
EXTENDS Naturals, FiniteSets, Sequences

CONSTANTS
  MaxRetries,       \* config->maxRetries
  UseTLS            \* config->useTLS

ASSUME ConnectorAssumption == MaxRetries \in Nat /\ UseTLS \in BOOLEAN

VARIABLES
  looppc,           \* the loop thread: "new", "test", "announce", "attempt", "connected", "ended"
  retries, m_stopReconnecting,
  stopsLost,        \* history: stop requests erased by the start of the loop
  stopSeen,         \* history: attempts begun since a stop request that was not erased
  loopCalls,        \* history: the callbacks, in order
  listenpc,         \* the listener: "new", "failed", "listening"
  listenCalls, serving   \* history of its callbacks; a client connection in progress

connectorVars == <<looppc, retries, m_stopReconnecting, stopsLost, stopSeen, loopCalls>>
listenerVars == <<listenpc, listenCalls, serving>>

ConnectorInit ==
  /\ looppc = "new" /\ retries = 0 /\ m_stopReconnecting = FALSE
  /\ stopsLost = FALSE /\ stopSeen = 0 /\ loopCalls = <<>>
  /\ listenpc = "new" /\ listenCalls = <<>> /\ serving = FALSE

\* The program, or a callback, on any thread.
StopReconnecting ==
  /\ looppc # "ended" /\ ~m_stopReconnecting
  /\ m_stopReconnecting' = TRUE
  /\ UNCHANGED <<looppc, retries, stopsLost, stopSeen, loopCalls, listenerVars>>

\* The loop thread begins: it clears the flag.
LoopStart ==
  /\ looppc = "new"
  /\ looppc' = "test"
  /\ stopsLost' = m_stopReconnecting
  /\ m_stopReconnecting' = FALSE
  /\ UNCHANGED <<retries, stopSeen, loopCalls, listenerVars>>

GiveUp == retries = MaxRetries \/ m_stopReconnecting

\* The test of an iteration.
LoopTest ==
  /\ looppc = "test"
  /\ IF GiveUp THEN /\ loopCalls' = Append(loopCalls, "onMaxRetryLimitReached")
                    /\ looppc' = "ended"
               ELSE looppc' = "announce" /\ UNCHANGED loopCalls
  /\ UNCHANGED <<retries, m_stopReconnecting, stopsLost, stopSeen, listenerVars>>

\* The attempt is announced, also when a stop came after the test.
LoopAnnounce ==
  /\ looppc = "announce"
  /\ loopCalls' = Append(loopCalls, "onPreConnectionAttempt")
  /\ looppc' = "attempt"
  /\ stopSeen' = IF m_stopReconnecting THEN stopSeen + 1 ELSE stopSeen
  /\ UNCHANGED <<retries, m_stopReconnecting, stopsLost, listenerVars>>

KeyCallbacks == {"onInvalidCACertificate", "onInvalidPrivateKey", "onInvalidClientCertificate"}

KeyResult(loaded, callback) == IF UseTLS /\ ~loaded[callback] THEN <<callback>> ELSE <<>>

\* The callbacks about keys that could not be loaded, in their order: each one
\* ends the loop, and none keeps the next key from being loaded.
KeyFailures ==
  {KeyResult(loaded, "onInvalidCACertificate") \o KeyResult(loaded, "onInvalidPrivateKey")
     \o KeyResult(loaded, "onInvalidClientCertificate") : loaded \in [KeyCallbacks -> BOOLEAN]}

\* Mutant: a failed attempt is not counted.
FailedAttemptsKept == retries

FailedAttempts == retries + 1

\* Keys, then connectTo: the callback of a failure may end the loop (without one
\* it goes on).
LoopAttempt ==
  /\ looppc = "attempt"
  /\ \E failures \in KeyFailures :
       IF failures # <<>>
       THEN /\ loopCalls' = loopCalls \o failures
            /\ looppc' = "ended" /\ UNCHANGED retries
       ELSE \/ /\ retries' = FailedAttempts
               /\ loopCalls' = Append(loopCalls, "onConnectionFailure")
               /\ looppc' \in {"test", "ended"}
            \/ /\ loopCalls' = Append(loopCalls, "onConnectionEstablished")
               /\ looppc' = "connected" /\ UNCHANGED retries
  /\ UNCHANGED <<m_stopReconnecting, stopsLost, stopSeen, listenerVars>>

\* handleServerConnection returns; the connection is not repeated.
LoopConnectionEnds ==
  /\ looppc = "connected"
  /\ loopCalls' = Append(loopCalls, "onConnectionTerminated")
  /\ looppc' = "ended"
  /\ UNCHANGED <<retries, m_stopReconnecting, stopsLost, stopSeen, listenerVars>>

-----------------------------------------------------------------------------

\* cont || listenOn.
ListenRefused(failures, listening) == failures # <<>> \/ ~listening

\* startListeningInBackground.
StartListening ==
  /\ listenpc = "new"
  /\ \E failures \in KeyFailures, listening \in BOOLEAN :
       IF ListenRefused(failures, listening)
       THEN listenpc' = "failed" /\ listenCalls' = Append(failures, "onListeningFailed")
       ELSE listenpc' = "listening" /\ listenCalls' = Append(failures, "onListeningSuccess")
  /\ UNCHANGED <<serving, connectorVars>>

\* incomingConnection, on a thread of the acceptor: before and after the handler.
IncomingConnection ==
  /\ listenpc = "listening" /\ ~serving /\ Len(listenCalls) < 3
  /\ serving' = TRUE
  /\ listenCalls' = Append(listenCalls, "onClientConnected")
  /\ UNCHANGED <<listenpc, connectorVars>>

ClientConnectionEnds ==
  /\ serving
  /\ serving' = FALSE
  /\ listenCalls' = Append(listenCalls, "onClientDisconnected")
  /\ UNCHANGED <<listenpc, connectorVars>>

LoopStep == LoopStart \/ LoopTest \/ LoopAnnounce \/ LoopAttempt \/ LoopConnectionEnds

ConnectorNext ==
  \/ StopReconnecting \/ LoopStep
  \/ StartListening \/ IncomingConnection \/ ClientConnectionEnds

ConnectorSpec == ConnectorInit /\ [][ConnectorNext]_<<connectorVars, listenerVars>>

-----------------------------------------------------------------------------
CountIn(calls, c) == Cardinality({i \in DOMAIN calls : calls[i] = c})
Count(c) == CountIn(loopCalls, c)

(* The callbacks account for every attempt: an announced attempt is in progress
   or has exactly one outcome, the number of failures is the retry counter and
   never passes maxRetries, and a loop that ends on the limit or a stop says so
   once, last. *)
AttemptsAccounted ==
  /\ Count("onConnectionFailure") = retries /\ retries <= MaxRetries
  /\ Count("onPreConnectionAttempt")
       = Count("onConnectionFailure") + Count("onConnectionEstablished")
         + (IF looppc = "attempt" THEN 1 ELSE 0)
         + (IF looppc = "ended" /\ \E i \in DOMAIN loopCalls :
                 loopCalls[i] \in KeyCallbacks
            THEN 1 ELSE 0)
  /\ Count("onMaxRetryLimitReached") > 0 => looppc = "ended" /\ GiveUp

(* A stop request is obeyed: at most the one attempt whose test came before the
   request is still announced.  (A request that came before the loop thread began
   is erased, the thread clears the flag when it begins.) *)
StopIsObeyed == stopSeen <= 1

(* The loop ends: by the limit, a stop, a refused key or the end of the one
   connection it makes. *)
ConnectorLoopEnds == (looppc # "new") ~> (looppc = "ended")

(* startListeningInBackground listens only with all of its keys loaded, and a
   client is served only after onListeningSuccess. *)
ListensWithKeys ==
  listenpc = "listening" => listenCalls[1] = "onListeningSuccess"

(* The connection loop and the listener: the attempts are counted as announced, a
   stop is obeyed, clients come only after the listening succeeded. *)
ConnectorObeys == AttemptsAccounted /\ StopIsObeyed /\ ListensWithKeys
=============================================================================
