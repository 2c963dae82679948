----------------------------- MODULE MCServices -----------------------------
(***************************************************************************)
(* The services with threads of their own, one behaviour each: the variable *)
(* component is chosen once and says whose steps are taken.                *)
(***************************************************************************)
EXTENDS SafeQueue, JWTRevocation, SQLConnector, PooledAcceptor, Connector,
        StreamsBridge, FastRPC3Session, TLC

VARIABLE component     \* the component this behaviour is about

CONSTANTS t1, t2, t3, u1, u2, k1, k2, c1, c2, c3, s1, s2

MCIncoming == [FORWARD |-> <<"ping", "a", "b">>, BACKWARD |-> <<"x", "y">>]
MCToken(ok, who, by) == [valid |-> ok, user |-> who, impersonator |-> by]
MCTokens == {MCToken(TRUE, "u", ""), MCToken(TRUE, "w", "u"), MCToken(FALSE, "u", ""),
             MCToken(TRUE, "v", "")}

allVars == <<component, queueVars, revVars, sqlVars, pooledVars,
             connectorVars, listenerVars, bridgeVars, sessionVars,
             pingerVars>>

Components == {"queue", "revocation", "sql", "pooled", "connector",
               "bridge", "rpcsession", "pinger"}

MCInit ==
  /\ component \in Components
  /\ QueueInit /\ RevInit /\ SQLInit /\ PooledInit /\ ConnectorInit
  /\ BridgeInit /\ RPCSessionInit

\* The steps of one component leave the state of the others alone.
MCNext ==
  \/ component = "queue" /\ QueueNext
       /\ UNCHANGED <<component, revVars, sqlVars, pooledVars,
                      connectorVars, listenerVars, bridgeVars, sessionVars,
                      pingerVars>>
  \/ component = "revocation" /\ RevNext
       /\ UNCHANGED <<component, queueVars, sqlVars, pooledVars,
                      connectorVars, listenerVars, bridgeVars, sessionVars,
                      pingerVars>>
  \/ component = "sql" /\ SQLNext
       /\ UNCHANGED <<component, queueVars, revVars, pooledVars,
                      connectorVars, listenerVars, bridgeVars, sessionVars,
                      pingerVars>>
  \/ component = "pooled" /\ PooledNext
       /\ UNCHANGED <<component, queueVars, revVars, sqlVars,
                      connectorVars, listenerVars, bridgeVars, sessionVars,
                      pingerVars>>
  \/ component = "connector" /\ ConnectorNext
       /\ UNCHANGED <<component, queueVars, revVars, sqlVars, pooledVars,
                      bridgeVars, sessionVars, pingerVars>>
  \/ component = "bridge" /\ BridgeNext
       /\ UNCHANGED <<component, queueVars, revVars, sqlVars, pooledVars,
                      connectorVars, listenerVars, sessionVars, pingerVars>>
  \/ component = "rpcsession" /\ RPCSessionNext
       /\ UNCHANGED <<component, queueVars, revVars, sqlVars, pooledVars,
                      connectorVars, listenerVars, bridgeVars>>
  \/ component = "pinger" /\ PingerNext
       /\ UNCHANGED <<component, queueVars, revVars, sqlVars, pooledVars,
                      connectorVars, listenerVars, bridgeVars>>

On(c, A) == component = c /\ A

\* Every thread that can take a step takes one (the fairness of the scheduler).
MCSpec ==
  /\ MCInit /\ [][MCNext]_allVars
  /\ \A t \in QPushers : WF_queueVars(On("queue", PushStep(t)))
  /\ \A t \in QPoppers : WF_queueVars(On("queue", PopStep(t)))
  /\ WF_revVars(On("revocation", CollectorTest \/ CollectorWaits \/ CollectorWakes))
  /\ WF_revVars(On("revocation", NotifyCollector))
  /\ \A c \in DBClients : WF_sqlVars(On("sql", ClientStep(c)))
  /\ WF_sqlVars(On("sql", FinalizeWait))
  /\ \A s \in PSockets : WF_pooledVars(On("pooled", PooledStep(s)))
  /\ \A c \in PClients : WF_pooledVars(On("pooled", TaskStep(c)))
  /\ WF_connectorVars(On("connector", LoopStep))
  /\ \A d \in BSides : WF_bridgeVars(On("bridge", Pump(d)))
  /\ WF_bridgeVars(On("bridge", Pinger))
  /\ SF_bridgeVars(On("bridge", ProcessEnds))
  /\ \A t \in RPCTasks : WF_sessionVars(On("rpcsession", TaskRuns(t)))
  /\ WF_pingerVars(On("pinger", PingRound \/ PingOne \/ PingSent))

(* Every call that waits returns: the pushes and pops of the queues, the connector's
   destructor, the served clients of the pool, the tasks of a connection. *)
CallsReturn == QueueCallsReturn /\ ConnectorDestroyed /\ AcceptedIsShut /\ EveryTaskAnswered

(* Every loop that is told to stop ends: the collector of revoked tokens, the
   reconnection loop, the bridge. *)
LoopsEnd == CollectorEnds /\ ConnectorLoopEnds /\ BridgeEnds
=============================================================================
