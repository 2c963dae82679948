---------------------------- MODULE SQLConnector ----------------------------
(***************************************************************************)
(* Database::SQLConnector and the life of its Query objects.  A client     *)
(* thread creates a query (attached to the connector's set, then the       *)
(* database mutex, timed), runs it, steps through rows and destroys it.    *)
(* ~Query detaches the query and, later, releases the database mutex,      *)
(* which is a member of the connector.  ~SQLConnector refuses new queries  *)
(* and waits for an empty set.  Drivers (exec0, step0, connect0) are       *)
(* external: they succeed or fail.                                         *)
(***************************************************************************)
EXTENDS Naturals, FiniteSets

CONSTANTS
  DBClients,        \* threads that use the connector
  MaxReconnects,    \* m_maxReconnectionAttempts; 0 is without a limit
  MaxRows           \* bound: rows of a result

Nobody == "nobody"

ASSUME SQLAssumption == Nobody \notin DBClients /\ MaxReconnects \in Nat

VARIABLES
  querySet,         \* m_querySet
  finalized,        \* m_finalized
  dbOwner,          \* the client whose query holds m_databaseLockMutex
  connpc,           \* the owner of the connector: "alive", "waiting", "destroyed"
  cpc,              \* program counter of a client
  qerror,           \* Query::error of its query
  qrows,            \* rows left in its result
  dblink,           \* the connection to the database: "up" or "down"
  attempts          \* attempts of the reconnect in progress

sqlVars == <<querySet, finalized, dbOwner, connpc, cpc, qerror, qrows, dblink, attempts>>

SQLInit ==
  /\ querySet = {} /\ finalized = FALSE /\ dbOwner = Nobody
  /\ connpc = "alive"
  /\ cpc = [c \in DBClients |-> "idle"]
  /\ qerror = [c \in DBClients |-> "none"]
  /\ qrows = [c \in DBClients |-> 0]
  /\ dblink = "up" /\ attempts = 0

\* attachQuery: the set and the flag under m_querySetMutex.  A client calls only
\* while it may: before the owner began to destroy the connector.
CreateQuery(c) ==
  /\ cpc[c] = "idle" /\ connpc # "destroyed"
  /\ IF finalized
     THEN /\ qerror' = [qerror EXCEPT ![c] = "SQL_CONNECTOR_FINISHED"]
          /\ cpc' = [cpc EXCEPT ![c] = "unattached"]
          /\ UNCHANGED querySet
     ELSE /\ querySet' = querySet \cup {c}
          /\ cpc' = [cpc EXCEPT ![c] = "lock"]
          /\ UNCHANGED qerror
  /\ UNCHANGED <<finalized, dbOwner, connpc, qrows, dblink, attempts>>

\* setSqlConnector: the timed lock of the database.
LockDatabase(c) ==
  /\ cpc[c] = "lock" /\ dbOwner = Nobody
  /\ dbOwner' = c
  /\ qerror' = [qerror EXCEPT ![c] = "READY"]
  /\ cpc' = [cpc EXCEPT ![c] = "ready"]
  /\ UNCHANGED <<querySet, finalized, connpc, qrows, dblink, attempts>>

LockTimeout(c) ==
  /\ cpc[c] = "lock" /\ dbOwner # Nobody
  /\ qerror' = [qerror EXCEPT ![c] = "UNABLE_TO_ADQUIRE_LOCK"]
  /\ cpc' = [cpc EXCEPT ![c] = "failed"]
  /\ UNCHANGED <<querySet, finalized, dbOwner, connpc, qrows, dblink, attempts>>

\* qSelect and qExecute after createQuery: bind the variables, execute.
Execute(c) ==
  /\ cpc[c] = "ready" /\ attempts = 0
  /\ \/ /\ qerror' = [qerror EXCEPT ![c] = "ERROR_BINDING_INPUT_VARS"]
        /\ cpc' = [cpc EXCEPT ![c] = "failed"] /\ UNCHANGED qrows
     \/ /\ qerror' = [qerror EXCEPT ![c] = "ERROR_BINDING_RESULT_VARS"]
        /\ cpc' = [cpc EXCEPT ![c] = "failed"] /\ UNCHANGED qrows
     \/ /\ dblink = "up"
        /\ qerror' = [qerror EXCEPT ![c] = "SUCCESS"]
        /\ \E n \in 0..MaxRows : qrows' = [qrows EXCEPT ![c] = n]
        /\ cpc' = [cpc EXCEPT ![c] = "rows"]
     \/ /\ qerror' = [qerror EXCEPT ![c] = "RESULTS_FAILED"]
        /\ cpc' = [cpc EXCEPT ![c] = "failed"] /\ UNCHANGED qrows
  /\ UNCHANGED <<querySet, finalized, dbOwner, connpc, dblink, attempts>>

\* Query::step.
Step(c) ==
  /\ cpc[c] = "rows" /\ qrows[c] > 0
  /\ qrows' = [qrows EXCEPT ![c] = @ - 1]
  /\ UNCHANGED <<querySet, finalized, dbOwner, connpc, cpc, qerror, dblink, attempts>>

\* ~Query, first part: detachQuery, which wakes the destructor when the set
\* becomes empty.
DetachQuery(c) ==
  /\ cpc[c] \in {"rows", "failed", "unattached", "ready"}
  /\ cpc[c] = "ready" => attempts = 0
  /\ querySet' = querySet \ {c}
  /\ cpc' = [cpc EXCEPT ![c] = IF dbOwner = c THEN "unlock" ELSE "done"]
  /\ qrows' = [qrows EXCEPT ![c] = 0]
  /\ UNCHANGED <<finalized, dbOwner, connpc, qerror, dblink, attempts>>

\* ~Query, second part: the database mutex, after the query left the set.
UnlockDatabase(c) ==
  /\ cpc[c] = "unlock"
  /\ dbOwner' = Nobody
  /\ cpc' = [cpc EXCEPT ![c] = "done"]
  /\ UNCHANGED <<querySet, finalized, connpc, qerror, qrows, dblink, attempts>>

\* The next use of the connector by the same thread.
Again(c) ==
  /\ cpc[c] = "done" /\ connpc = "alive"
  /\ cpc' = [cpc EXCEPT ![c] = "idle"]
  /\ qerror' = [qerror EXCEPT ![c] = "none"]
  /\ UNCHANGED <<querySet, finalized, dbOwner, connpc, qrows, dblink, attempts>>

\* reconnect: a driver that lost the server calls it while its query runs, so
\* the caller owns the database mutex.
LinkLost == dblink = "up" /\ attempts = 0 /\ connpc = "alive"
  /\ dblink' = "down"
  /\ UNCHANGED <<querySet, finalized, dbOwner, connpc, cpc, qerror, qrows, attempts>>

\* The condition of the for loop.
MayAttempt(n) == MaxReconnects = 0 \/ n < MaxReconnects

Reconnect(c) ==
  /\ cpc[c] = "ready" /\ dbOwner = c /\ dblink = "down"
  /\ \/ /\ MayAttempt(attempts)
        /\ \/ dblink' = "up" /\ attempts' = 0 /\ UNCHANGED <<cpc, qerror>>
           \/ attempts' = attempts + 1 /\ UNCHANGED <<dblink, cpc, qerror>>
     \/ /\ ~MayAttempt(attempts)
        /\ attempts' = 0
        /\ cpc' = [cpc EXCEPT ![c] = "failed"]
        /\ qerror' = [qerror EXCEPT ![c] = "RESULTS_FAILED"]
        /\ UNCHANGED dblink
  /\ UNCHANGED <<querySet, finalized, dbOwner, connpc, qrows>>

\* ~SQLConnector: no new queries, then wait for an empty set.
Finalize ==
  /\ connpc = "alive"
  /\ finalized' = TRUE
  /\ connpc' = "waiting"
  /\ UNCHANGED <<querySet, dbOwner, cpc, qerror, qrows, dblink, attempts>>

\* Mutant: the wait is not repeated.
FinalizeWakesEarly ==
  /\ connpc = "waiting"
  /\ connpc' = "destroyed"
  /\ UNCHANGED <<querySet, finalized, dbOwner, cpc, qerror, qrows, dblink, attempts>>

FinalizeWait ==
  /\ connpc = "waiting" /\ querySet = {}
  /\ connpc' = "destroyed"
  /\ UNCHANGED <<querySet, finalized, dbOwner, cpc, qerror, qrows, dblink, attempts>>

ClientStep(c) ==
  LockDatabase(c) \/ LockTimeout(c) \/ Execute(c) \/ Step(c) \/ DetachQuery(c) \/ UnlockDatabase(c)
  \/ Reconnect(c)

SQLNext ==
  \/ \E c \in DBClients : CreateQuery(c) \/ ClientStep(c) \/ Again(c)
  \/ LinkLost
  \/ Finalize \/ FinalizeWait

SQLSpec == SQLInit /\ [][SQLNext]_sqlVars

-----------------------------------------------------------------------------
(* While a query exists - between createQuery and the end of the first part of
   ~Query, on every error path - the connector is not destroyed: the set holds
   exactly the queries that will call detachQuery. *)
QueryOutlivedByConnector ==
  /\ querySet = {c \in DBClients : cpc[c] \in {"lock", "ready", "rows", "failed"}}
  /\ connpc = "destroyed" => querySet = {}

(* The database mutex is held by the one query that acquired it and will
   release it; a query that timed out never releases somebody else's lock. *)
DatabaseLockOwned ==
  \A c \in DBClients :
    /\ cpc[c] \in {"ready", "rows", "unlock"} => dbOwner = c
    /\ dbOwner = c => cpc[c] \in {"ready", "rows", "failed", "unlock"}

(* reconnect makes at most m_maxReconnectionAttempts attempts, and the attempts
   of one query are not continued by the next. *)
ReconnectBounded ==
  /\ MaxReconnects > 0 => attempts <= MaxReconnects
  /\ attempts > 0 => \E c \in DBClients : dbOwner = c /\ cpc[c] = "ready"

(* The destructor of the connector returns, since clients eventually destroy
   their queries; the last detachQuery wakes it. *)
ConnectorDestroyed == (connpc = "waiting") ~> (connpc = "destroyed")

(* The connector and its queries: the connector outlives them, the database lock
   is with the query that took it, the reconnections are bounded. *)
ConnectorSafe == QueryOutlivedByConnector /\ DatabaseLockOwned /\ ReconnectBounded
=============================================================================
