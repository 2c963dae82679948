--------------------------- MODULE ServicesProofs ---------------------------
(***************************************************************************)
(* Proofs about the services that stand on their own: the queue, the       *)
(* revocation list, the database connector and its queries, the pooled     *)
(* acceptor, the tasks of an RPC session with their pinger, the map, and   *)
(* the start of a service.                                                 *)
(* Each has its specification, its inductive invariant and its theorem.    *)
(***************************************************************************)
EXTENDS SafeQueue, JWTRevocation, SQLConnector, SQLQuery, PooledAcceptor, FastRPC3Session, SafeMap,
        ServiceStart, SequenceTheorems, FiniteSetTheorems, TLAPS

-----------------------------------------------------------------------------
(* The revocation list. *)

(* Every pending entry was made by a call of addToRevocationList: what the
   collector removes is the expired entry of a known revocation. *)
EntriesRevoked ==
  /\ rclock \in Nat
  /\ revocations \subseteq (Nat \X RSignatures)
  /\ expirations \subseteq revocations

RevInv == EntriesRevoked /\ RevocationListed

(* The collector's removal, whenever it runs, keeps the list: an expired entry
   is one of the revocations of the signature it takes from the set. *)
LEMMA RemoveExpiredKeeps ==
  ASSUME RevInv, RemoveExpired, UNCHANGED <<rclock, revocations>>
  PROVE  RevInv'
<1>1. EntriesRevoked'
  BY DEF RevInv, EntriesRevoked, RemoveExpired, Expired
<1>2. RevokedUntilExpiry'
  <2> SUFFICES ASSUME NEW r \in revocations,
                      \A s \in revocations : s[2] = r[2] => s[1] > rclock
               PROVE  r[2] \in revokedTokens'
    BY DEF RevokedUntilExpiry
  <2>1. r[2] \in revokedTokens
    BY DEF RevInv, RevocationListed, RevokedUntilExpiry
  <2>2. \A e \in Expired : e \in revocations /\ e[1] \in Nat /\ e[1] <= rclock
    BY DEF RevInv, EntriesRevoked, Expired
  <2>3. r[2] \notin {e[2] : e \in Expired}
    <3> SUFFICES ASSUME NEW e \in Expired, e[2] = r[2] PROVE FALSE
      OBVIOUS
    <3> QED BY <2>2 DEF RevInv, EntriesRevoked
  <2> QED BY <2>1, <2>3 DEF RemoveExpired
<1>3. RevokedHasEntry'
  <2> SUFFICES ASSUME NEW s \in revokedTokens' PROVE s \in {e[2] : e \in expirations'}
    BY DEF RevokedHasEntry
  <2>1. s \in revokedTokens /\ s \notin {e[2] : e \in Expired}
    BY DEF RemoveExpired
  <2>2. PICK e \in expirations : e[2] = s
    BY <2>1 DEF RevInv, RevocationListed, RevokedHasEntry
  <2> QED BY <2>1, <2>2 DEF RemoveExpired
<1> QED BY <1>1, <1>2, <1>3 DEF RevInv, RevocationListed

LEMMA RevInvInit == RevInit => RevInv
BY DEF RevInit, RevInv, EntriesRevoked, RevocationListed, RevokedUntilExpiry, RevokedHasEntry

LEMMA RevInvStep == RevInv /\ [RevNext]_revVars => RevInv'
<1> SUFFICES ASSUME RevInv, [RevNext]_revVars PROVE RevInv'
  OBVIOUS
<1> USE DEF RevInv, EntriesRevoked, RevocationListed, RevokedUntilExpiry, RevokedHasEntry
<1>1. ASSUME NEW s \in RSignatures, NEW t \in 1..LastTime, AddToRevocationList(s, t)
      PROVE  RevInv'
  <2>1. EntriesRevoked'
    BY <1>1, RevAssumption DEF AddToRevocationList
  <2>2. RevokedUntilExpiry'
    BY <1>1 DEF AddToRevocationList
  <2>3. RevokedHasEntry'
    <3>1. s \in {e[2] : e \in expirations'}
      BY <1>1 DEF AddToRevocationList
    <3> QED BY <1>1, <3>1 DEF AddToRevocationList
  <2> QED BY <2>1, <2>2, <2>3
<1>2. CASE CollectorWakes
  <2>1. CASE stopGC = "no"
    BY <1>2, <2>1, RemoveExpiredKeeps DEF CollectorWakes
  <2>2. CASE stopGC # "no"
    BY <1>2, <2>2 DEF CollectorWakes
  <2> QED BY <2>1, <2>2
<1>3. CASE Tick
  <2>1. rclock' = rclock + 1 /\ UNCHANGED <<revocations, expirations, revokedTokens>>
    BY <1>3 DEF Tick
  <2>2. \A r \in revocations : r[1] \in Nat
    OBVIOUS
  <2> QED BY <2>1, <2>2
<1>4. CASE CollectorTest \/ CollectorWaits \/ DestroyRevocation \/ NotifyCollector
        \/ UNCHANGED revVars
  BY <1>4 DEF CollectorTest, CollectorWaits, DestroyRevocation, NotifyCollector, revVars
<1> QED BY <1>1, <1>2, <1>3, <1>4 DEF RevNext

(* RevocationListed, for any signatures and any length of the run: however the
   collector's rounds fall between the calls and the ticks, a signature is
   revoked until the first of its entries expires, and will be forgotten. *)
THEOREM RevocationHolds == RevSpec => []RevocationListed
<1>1. RevInv => RevocationListed
  BY DEF RevInv
<1> QED BY <1>1, RevInvInit, RevInvStep, PTL DEF RevSpec

-----------------------------------------------------------------------------
(* The database connector. *)

ClientPCs == {"idle", "unattached", "lock", "ready", "failed", "rows", "unlock", "done"}

SQLTypes ==
  /\ cpc \in [DBClients -> ClientPCs]
  /\ dbOwner \in DBClients \cup {Nobody}
  /\ attempts \in Nat

(* The connector refuses queries as soon as it may be destroyed. *)
RefusesWhenFinalized == finalized <=> connpc # "alive"

SQLInv == SQLTypes /\ RefusesWhenFinalized /\ ConnectorSafe

LEMMA SQLInvInit == SQLInit => SQLInv
<1> SUFFICES ASSUME SQLInit PROVE SQLInv
  OBVIOUS
<1>1. SQLTypes /\ RefusesWhenFinalized
  BY DEF SQLInit, SQLTypes, ClientPCs, RefusesWhenFinalized
<1>2. ConnectorSafe
  BY SQLAssumption DEF SQLInit, ConnectorSafe, QueryOutlivedByConnector, DatabaseLockOwned,
     ReconnectBounded, Nobody
<1> QED BY <1>1, <1>2 DEF SQLInv

(* A step of a client: what it does to the set of queries, to the database mutex
   and to the reconnections in progress. *)
LEMMA SQLClientStep ==
  ASSUME SQLInv, NEW c \in DBClients, CreateQuery(c) \/ ClientStep(c) \/ Again(c)
  PROVE  SQLInv'
<1> USE SQLAssumption
<1> USE DEF SQLInv, SQLTypes, ClientPCs, RefusesWhenFinalized, ConnectorSafe,
            QueryOutlivedByConnector, DatabaseLockOwned, ReconnectBounded
<1>1. CASE CreateQuery(c)
  <2>1. CASE finalized
    BY <1>1, <2>1 DEF CreateQuery
  <2>2. CASE ~finalized
    BY <1>1, <2>2 DEF CreateQuery
  <2> QED BY <2>1, <2>2
<1>2. CASE LockDatabase(c)
  BY <1>2 DEF LockDatabase
<1>3. CASE LockTimeout(c)
  BY <1>3 DEF LockTimeout
<1>4. CASE Execute(c)
  <2>1. /\ cpc[c] = "ready" /\ attempts = 0
        /\ cpc' = [cpc EXCEPT ![c] = "failed"] \/ cpc' = [cpc EXCEPT ![c] = "rows"]
        /\ UNCHANGED <<querySet, finalized, dbOwner, connpc, attempts>>
    BY <1>4 DEF Execute
  <2> QED BY <2>1
<1>5. CASE Step(c)
  BY <1>5 DEF Step
<1>6. CASE DetachQuery(c)
  BY <1>6 DEF DetachQuery
<1>7. CASE UnlockDatabase(c)
  BY <1>7 DEF UnlockDatabase
<1>8. CASE Reconnect(c)
  <2>1. /\ cpc[c] = "ready" /\ dbOwner = c
        /\ UNCHANGED <<querySet, finalized, dbOwner, connpc>>
    BY <1>8 DEF Reconnect
  <2>2. CASE MayAttempt(attempts)
    <3>1. UNCHANGED cpc /\ attempts' \in {0, attempts + 1}
      BY <1>8, <2>2 DEF Reconnect
    <3> QED BY <2>1, <2>2, <3>1 DEF MayAttempt
  <2>3. CASE ~MayAttempt(attempts)
    <3>1. attempts' = 0 /\ cpc' = [cpc EXCEPT ![c] = "failed"]
      BY <1>8, <2>3 DEF Reconnect
    <3> QED BY <2>1, <3>1
  <2> QED BY <2>2, <2>3
<1>9. CASE Again(c)
  BY <1>9 DEF Again
<1> QED BY <1>1, <1>2, <1>3, <1>4, <1>5, <1>6, <1>7, <1>8, <1>9 DEF ClientStep

LEMMA SQLInvStep == SQLInv /\ [SQLNext]_sqlVars => SQLInv'
<1> SUFFICES ASSUME SQLInv, [SQLNext]_sqlVars PROVE SQLInv'
  OBVIOUS
<1>1. CASE \E c \in DBClients : CreateQuery(c) \/ ClientStep(c) \/ Again(c)
  BY <1>1, SQLClientStep
<1>2. CASE LinkLost \/ Finalize \/ FinalizeWait \/ UNCHANGED sqlVars
  BY <1>2 DEF LinkLost, Finalize, FinalizeWait, sqlVars, SQLInv, SQLTypes, RefusesWhenFinalized,
     ConnectorSafe, QueryOutlivedByConnector, DatabaseLockOwned, ReconnectBounded
<1> QED BY <1>1, <1>2 DEF SQLNext

(* ConnectorSafe, for any number of clients and any limit of reconnections: the
   connector outlives every query, also on the error paths; the database mutex
   is with the query that took it; the attempts stay within the limit. *)
THEOREM SQLConnectorSafe == SQLSpec => []ConnectorSafe
<1>1. SQLInv => ConnectorSafe
  BY DEF SQLInv
<1> QED BY <1>1, SQLInvInit, SQLInvStep, PTL DEF SQLSpec

-----------------------------------------------------------------------------
(* One query on a driver. *)

QueryPhases == {"new", "exec", "reconnect", "ready", "failed", "thrown", "destroyed"}

(* No row was reported before the statement was executed: the rows that come with
   the success do not change under one that was. *)
NoRowBeforeSuccess == sphase \in {"new", "exec", "reconnect"} => stepResult = "none"

(* Before a success every execution by the server was one whose answer was lost. *)
AppliedByLosses == sphase \in {"new", "exec", "reconnect"} => applied <= losses

QueryInv ==
  /\ sphase \in QueryPhases /\ applied \in Nat /\ losses \in Nat /\ srow \in Nat /\ stmtLeaks = 0
  /\ NoRowBeforeSuccess /\ AppliedByLosses
  /\ RowIsFresh /\ SuccessWasApplied /\ NoStatementLeft

(* Of the keys found at a placeholder the longest is the whole placeholder, if
   that is a key: a prefix of the same length is the same. *)
LEMMA LongestKeyIsWhole ==
  ASSUME NEW ph \in SQLKeys
  PROVE  FirstKey(ph, SQLKeys) = ph
<1>1. ph \in Seq(Nat) /\ \A k \in SQLKeys : k \in Seq(Nat) /\ Len(k) \in Nat
  BY QueryAssumption, LenProperties
<1>2. \A k \in KeysAt(ph, SQLKeys) : k \in SQLKeys /\ Len(k) <= Len(ph)
                                     /\ SubSeq(k, 1, Len(k)) = SubSeq(ph, 1, Len(k))
  BY DEF KeysAt, IsPrefix
<1>3. ph \in KeysAt(ph, SQLKeys)
  BY <1>1 DEF KeysAt, IsPrefix
<1>4. \E k \in KeysAt(ph, SQLKeys) : \A j \in KeysAt(ph, SQLKeys) : Len(j) <= Len(k)
  BY <1>2, <1>3
<1>5. PICK k \in KeysAt(ph, SQLKeys) : /\ k = FirstKey(ph, SQLKeys)
                                       /\ \A j \in KeysAt(ph, SQLKeys) : Len(j) <= Len(k)
  BY <1>4 DEF FirstKey
<1>6. Len(k) = Len(ph)
  BY <1>1, <1>2, <1>3, <1>5
<1>7. SubSeq(k, 1, Len(k)) = k /\ SubSeq(ph, 1, Len(ph)) = ph
  BY <1>1, <1>2, <1>5, SubSeqFull
<1> QED BY <1>2, <1>5, <1>6, <1>7

(* Every placeholder gets the variable of its name, for any set of names. *)
LEMMA BoundByName == ParametersBoundByName
<1> SUFFICES ASSUME NEW n \in 0..MaxPlaceholders, NEW st \in [1..n -> SQLKeys]
             PROVE  KeysByPos(st, SQLKeys) = st
  BY DEF ParametersBoundByName
<1>1. \A i \in 1..n : FirstKey(st[i], SQLKeys) = st[i]
  BY LongestKeyIsWhole
<1> QED BY <1>1 DEF KeysByPos

LEMMA QueryInvInit == QueryInit => QueryInv
BY DEF QueryInit, QueryInv, QueryPhases, NoRowBeforeSuccess, AppliedByLosses, RowIsFresh,
   SuccessWasApplied, NoStatementLeft

(* Preparing, executing, reconnecting and destroying: no row is reported. *)
LEMMA QueryExecKeeps ==
  ASSUME QueryInv, UNCHANGED stepResult, UNCHANGED stmtLeaks, sphase' \in QueryPhases,
         \/ /\ sphase \in {"new", "exec", "reconnect"} /\ stepResult' = stepResult
            /\ UNCHANGED <<svar, snull, fieldIsNull>>
            /\ srow' \in Nat
            /\ sphase' # "destroyed"
            /\ \/ UNCHANGED <<applied, losses>> /\ sphase' # "ready"
               \/ applied' = applied + 1 /\ UNCHANGED losses /\ sphase' = "ready"
               \/ applied' \in {applied, applied + 1} /\ losses' = losses + 1 /\ sphase' # "ready"
         \/ /\ sphase \in {"ready", "failed", "thrown"} /\ sphase' = "destroyed"
            /\ stmt' = FALSE /\ inputs' = FALSE
            /\ UNCHANGED <<sdriver, stype, applied, losses, srows, srow, svar, snull, fieldIsNull>>
  PROVE  QueryInv'
BY DEF QueryInv, NoRowBeforeSuccess, AppliedByLosses, RowIsFresh, SuccessWasApplied,
   NoStatementLeft, QueryPhases

(* A step that reports a row stores that row: v is the column as the server has
   it, c what the driver makes of one that is not null. *)
LEMMA FetchIsFresh ==
  ASSUME QueryInv, NEW v, NEW c, NEW found, sphase = "ready", QStepFrame,
         v = srows[srow], srow' = srow + 1, stepResult' = found,
         v = "null" => snull' = TRUE /\ fieldIsNull' = <<TRUE>>,
         v # "null" => snull' = (c.null \/ StepReset) /\ svar' = c.value /\ fieldIsNull' = <<FALSE>>,
         found = "row" /\ stype # "void" =>
           c.null = FALSE /\ (c.value = v \/ (sdriver = "MariaDB" /\ v = "empty"
                                             /\ stype \in {"text", "binary"}))
  PROVE  QueryInv'
<1>1. /\ srow \in Nat
      /\ UNCHANGED <<sdriver, sphase, stype, inputs, stmt, stmtLeaks, applied, losses, srows>>
  BY DEF QStepFrame, QueryInv
<1>2. srows'[srow' - 1] = v
  BY <1>1
<1>3. RowIsFresh'
  <2> SUFFICES ASSUME found = "row", stype # "void"
               PROVE  /\ snull' = (v = "null") /\ fieldIsNull' = <<v = "null">>
                      /\ \/ v = "null" \/ svar' = v
                         \/ sdriver = "MariaDB" /\ v = "empty" /\ stype \in {"text", "binary"}
    BY <1>1, <1>2 DEF RowIsFresh
  <2>1. CASE v = "null"
    BY <2>1
  <2>2. CASE v # "null"
    BY <2>2 DEF StepReset
  <2> QED BY <2>1, <2>2
<1>4. NoRowBeforeSuccess' /\ AppliedByLosses' /\ SuccessWasApplied' /\ NoStatementLeft'
  BY <1>1 DEF QueryInv, NoRowBeforeSuccess, AppliedByLosses, SuccessWasApplied, NoStatementLeft
<1> QED BY <1>1, <1>3, <1>4 DEF QueryInv

LEMMA NoRowKeeps ==
  ASSUME QueryInv, sphase = "ready", QStepFrame, NoRow
  PROVE  QueryInv'
BY DEF QueryInv, QStepFrame, NoRow, NoRowBeforeSuccess, AppliedByLosses, RowIsFresh,
   SuccessWasApplied, NoStatementLeft

LEMMA QueryInvStep == QueryInv /\ [QueryNext]_queryVars => QueryInv'
<1> SUFFICES ASSUME QueryInv, [QueryNext]_queryVars PROVE QueryInv'
  OBVIOUS
<1>1. ASSUME NEW d, NEW k, NEW e, PrepareOn(d, k, e) PROVE QueryInv'
  BY <1>1, QueryExecKeeps DEF PrepareOn, QueryPhases, QueryInv
<1>2. CASE MariaDBExec
  BY <1>2, QueryExecKeeps DEF MariaDBExec, Executed, QueryPhases, QueryInv
<1>3. CASE MariaDBReconnect
  BY <1>3, QueryExecKeeps DEF MariaDBReconnect, QueryPhases, QueryInv
<1>4. CASE PostgreSQLExec
  BY <1>4, QueryExecKeeps DEF PostgreSQLExec, Executed, QueryPhases, QueryInv
<1>5. CASE SQLite3Exec
  BY <1>5, QueryExecKeeps DEF SQLite3Exec, Executed, QueryPhases, QueryInv
<1>6. CASE MariaDBStep
  <2>1. stype # "void" => \A v : MariaDBColumn(v).null = FALSE
          /\ (MariaDBColumn(v).value = v \/ (sdriver = "MariaDB" /\ v = "empty"
                                             /\ stype \in {"text", "binary"}))
    BY <1>6 DEF MariaDBStep, MariaDBColumn
  <2>2. CASE NoRow
    BY <1>6, <2>2, NoRowKeeps DEF MariaDBStep
  <2>3. CASE srow <= Len(srows) /\ Fetch(MariaDBColumn, "row")
    <3>1. PICK v, c : v = srows[srow] /\ c = MariaDBColumn(v)
      OBVIOUS
    <3>2. /\ srow' = srow + 1 /\ stepResult' = "row"
          /\ v = "null" => snull' = TRUE /\ fieldIsNull' = <<TRUE>>
          /\ v # "null" => snull' = (c.null \/ StepReset) /\ svar' = c.value
                           /\ fieldIsNull' = <<FALSE>>
      BY <2>3, <3>1 DEF Fetch
    <3> QED BY <1>6, <2>1, <3>1, <3>2, FetchIsFresh DEF MariaDBStep
  <2> QED BY <1>6, <2>2, <2>3 DEF MariaDBStep
<1>7. CASE SQLite3Step
  <2>1. stype # "void" => \A v : SQLite3Column(v).null = FALSE /\ SQLite3Column(v).value = v
    BY DEF SQLite3Column, PlainColumn
  <2>2. CASE NoRow
    BY <1>7, <2>2, NoRowKeeps DEF SQLite3Step
  <2>3. CASE srow <= Len(srows) /\ Fetch(SQLite3Column, "row")
    <3>1. PICK v, c : v = srows[srow] /\ c = SQLite3Column(v)
      OBVIOUS
    <3>2. /\ srow' = srow + 1 /\ stepResult' = "row"
          /\ v = "null" => snull' = TRUE /\ fieldIsNull' = <<TRUE>>
          /\ v # "null" => snull' = (c.null \/ StepReset) /\ svar' = c.value
                           /\ fieldIsNull' = <<FALSE>>
      BY <2>3, <3>1 DEF Fetch
    <3>3. stype # "void" => c.null = FALSE /\ c.value = v
      BY <2>1, <3>1
    <3>4. sphase = "ready" /\ QStepFrame /\ v = srows[srow]
      BY <1>7, <3>1 DEF SQLite3Step
    <3> QED BY <3>2, <3>3, <3>4, FetchIsFresh
  <2> QED BY <1>7, <2>2, <2>3 DEF SQLite3Step
<1>8. CASE PostgreSQLStep
  <2>1. CASE NoRow
    BY <1>8, <2>1, NoRowKeeps DEF PostgreSQLStep
  <2>2. CASE srow <= Len(srows) /\ Fetch(PostgreSQLColumn, "no")
    <3>1. PICK v, c : v = srows[srow] /\ c = PostgreSQLColumn(v)
      OBVIOUS
    <3>2. /\ srow' = srow + 1 /\ stepResult' = "no"
          /\ v = "null" => snull' = TRUE /\ fieldIsNull' = <<TRUE>>
          /\ v # "null" => snull' = (c.null \/ StepReset) /\ svar' = c.value
                           /\ fieldIsNull' = <<FALSE>>
      BY <2>2, <3>1 DEF Fetch
    <3>3. sphase = "ready" /\ QStepFrame /\ v = srows[srow]
      BY <1>8, <3>1 DEF PostgreSQLStep
    <3>4. PICK found : found = "no"
      OBVIOUS
    <3>5. found # "row" /\ stepResult' = found
      BY <3>2, <3>4
    <3> QED BY <3>2, <3>3, <3>5, FetchIsFresh
  <2> QED BY <1>8, <2>1, <2>2 DEF PostgreSQLStep
<1>9. ASSUME NEW d, DestroyOn(d) PROVE QueryInv'
  BY <1>9, QueryExecKeeps DEF DestroyOn, QueryPhases
<1>10. CASE UNCHANGED queryVars
  BY <1>10 DEF queryVars, QueryInv, NoRowBeforeSuccess, AppliedByLosses, RowIsFresh,
     SuccessWasApplied, NoStatementLeft
<1> QED BY <1>1, <1>2, <1>3, <1>4, <1>5, <1>6, <1>7, <1>8, <1>9, <1>10
       DEF QueryNext, MariaDBPrepare, PostgreSQLPrepare, SQLite3Prepare,
           MariaDBDestroy, PostgreSQLDestroy, SQLite3Destroy

(* QuerySound, for any results, any names of parameters and any number of lost
   connections: a reported row is the one in the variables, a success was
   executed and repeated only after a loss, nothing is left open, and parameters
   are bound by their names. *)
THEOREM QueryIsSound == QuerySpec => []QuerySound
<1>1. QueryInv => QuerySound
  BY BoundByName DEF QueryInv, QuerySound
<1> QED BY <1>1, QueryInvInit, QueryInvStep, PTL DEF QuerySpec

-----------------------------------------------------------------------------
(* The pooled acceptor. *)

AcceptorPCs == {"none", "accept", "push", "release"}
ClientStates == {"backlog", "held", "queued", "task", "over"}
CallbackNames == {"onClientConnected", "onProtocolInitializationFailure",
                  "onClientAcceptTimeoutOccurred"}

PooledTypes ==
  /\ pacc \in [PSockets -> AcceptorPCs]
  /\ pheld \in [PSockets -> PClients \cup {NoClient}]
  /\ pclient \in [PClients -> ClientStates]
  /\ prefs \in [PClients -> SUBSET (PSockets \cup {"task"})]
  /\ pshut \subseteq PClients
  /\ pcalls \in [PClients -> Seq(CallbackNames)]

(* No accepting thread exists before run() starts them. *)
NotYetAccepting ==
  /\ pthread = "none" => prun = "idle"
  /\ prun \in {"idle", "started"} => \A s \in PSockets : pacc[s] = "none"

(* The data of a client is held by the accepting thread that has it in its hands
   and by its task, and by nobody else. *)
HoldersExact ==
  /\ \A s \in PSockets : pacc[s] \in {"push", "release"} <=> pheld[s] \in PClients
  /\ \A s \in PSockets, c \in PClients : s \in prefs[c] <=> pheld[s] = c
  /\ \A s, u \in PSockets : pheld[s] = pheld[u] /\ pheld[s] # NoClient => s = u
  /\ \A c \in PClients : "task" \in prefs[c] <=> pclient[c] \in {"queued", "task"}

(* How far a client is decides how many callbacks it had; a client that was not
   pushed had its callback when its thread is about to let it go. *)
CallsByProgress ==
  /\ \A c \in PClients : pclient[c] \in {"backlog", "queued"} => pcalls[c] = <<>>
  /\ \A c \in PClients : pclient[c] \in {"task", "over"} => Len(pcalls[c]) = 1
  /\ \A s \in PSockets : pacc[s] = "push" => pclient[pheld[s]] = "held" /\ pcalls[pheld[s]] = <<>>
  /\ \A s \in PSockets : pacc[s] = "release" =>
       pclient[pheld[s]] # "backlog" /\ (pclient[pheld[s]] = "held" => Len(pcalls[pheld[s]]) = 1)

BacklogUntouched == \A c \in PClients : pclient[c] = "backlog" => prefs[c] = {} /\ c \notin pshut

PooledInv ==
  PooledTypes /\ NotYetAccepting /\ HoldersExact /\ CallsByProgress /\ BacklogUntouched
  /\ PooledClientServed

LEMMA PooledInvInit == PooledInit => PooledInv
BY PooledAssumption DEF PooledInit, PooledInv, PooledTypes, AcceptorPCs, ClientStates,
   NotYetAccepting, HoldersExact, CallsByProgress, BacklogUntouched, PooledClientServed,
   OneCallbackPerClient, ServedSocketOpen, NoClient

(* The history of a client whose callbacks grow by one. *)
LEMMA FirstCallback ==
  ASSUME PooledTypes, NEW c \in PClients, NEW call \in CallbackNames, pcalls[c] = <<>>,
         pcalls' = [pcalls EXCEPT ![c] = Append(@, call)]
  PROVE  /\ pcalls' \in [PClients -> Seq(CallbackNames)]
         /\ Len(pcalls'[c]) = 1
         /\ \A d \in PClients \ {c} : pcalls'[d] = pcalls[d]
BY DEF PooledTypes

LEMMA AcceptPooledKeeps ==
  ASSUME PooledInv, NEW s \in PSockets, NEW c \in PClients, AcceptPooled(s, c)
  PROVE  PooledInv'
<1> USE PooledAssumption DEF PooledInv
<1>1. PooledTypes' /\ NotYetAccepting'
  BY DEF AcceptPooled, PooledTypes, AcceptorPCs, ClientStates, NotYetAccepting, runVars
<1>3. \A u \in PSockets : pheld[u] # c
  BY DEF AcceptPooled, PooledTypes, HoldersExact, BacklogUntouched
<1>2. HoldersExact'
  <2>1. /\ prefs[c] = {} /\ pheld[s] \notin PClients
        /\ pacc' = [pacc EXCEPT ![s] = "push"]
        /\ pheld' = [pheld EXCEPT ![s] = c]
        /\ pclient' = [pclient EXCEPT ![c] = "held"]
        /\ prefs' = [prefs EXCEPT ![c] = {s}]
    BY DEF AcceptPooled, HoldersExact, BacklogUntouched
  <2>2. \A u \in PSockets, d \in PClients : u \in prefs'[d] <=> pheld'[u] = d
    BY <2>1, <1>3 DEF PooledTypes, HoldersExact
  <2> QED BY <2>1, <2>2, <1>3 DEF PooledTypes, HoldersExact
<1>4. CallsByProgress'
  BY <1>3 DEF AcceptPooled, PooledTypes, HoldersExact, CallsByProgress, AcceptorPCs
<1>5. BacklogUntouched' /\ PooledClientServed'
  BY DEF AcceptPooled, PooledTypes, BacklogUntouched, PooledClientServed, OneCallbackPerClient,
     ServedSocketOpen, AcceptorPCs
<1> QED BY <1>1, <1>2, <1>4, <1>5

LEMMA PushClientTaskKeeps ==
  ASSUME PooledInv, NEW s \in PSockets, PushClientTask(s)
  PROVE  PooledInv'
<1> USE PooledAssumption DEF PooledInv
<1>1. PICK c \in PClients : c = pheld[s]
  BY DEF PushClientTask, HoldersExact
<1>2. /\ pclient[c] = "held" /\ pcalls[c] = <<>> /\ pacc[s] = "push"
      /\ c \notin pshut
      /\ pclient' = [pclient EXCEPT ![c] = "queued"]
      /\ prefs' = [prefs EXCEPT ![c] = @ \cup {"task"}]
      /\ pacc' = [pacc EXCEPT ![s] = "release"]
      /\ UNCHANGED <<runVars, pheld, pshut, pcalls>>
  BY <1>1 DEF PushClientTask, CallsByProgress, HoldersExact, PooledClientServed, ServedSocketOpen
<1>3. PooledTypes' /\ NotYetAccepting'
  BY <1>2 DEF PooledTypes, AcceptorPCs, ClientStates, NotYetAccepting, runVars
<1>4. HoldersExact'
  BY <1>1, <1>2 DEF PooledTypes, HoldersExact
<1>5. CallsByProgress'
  BY <1>1, <1>2 DEF PooledTypes, HoldersExact, CallsByProgress
<1>6. BacklogUntouched' /\ PooledClientServed'
  BY <1>2 DEF PooledTypes, BacklogUntouched, PooledClientServed, OneCallbackPerClient,
     ServedSocketOpen
<1> QED BY <1>3, <1>4, <1>5, <1>6

LEMMA PushTimedOutKeeps ==
  ASSUME PooledInv, NEW s \in PSockets, PushTimedOut(s)
  PROVE  PooledInv'
<1> USE PooledAssumption DEF PooledInv
<1>1. PICK c \in PClients : c = pheld[s]
  BY DEF PushTimedOut, HoldersExact
<1>2. /\ pclient[c] = "held" /\ pcalls[c] = <<>> /\ pacc[s] = "push"
      /\ c \notin pshut
      /\ pcalls' = [pcalls EXCEPT ![c] = Append(@, "onClientAcceptTimeoutOccurred")]
      /\ pacc' = [pacc EXCEPT ![s] = "release"]
      /\ UNCHANGED <<runVars, pheld, pclient, prefs, pshut>>
  BY <1>1 DEF PushTimedOut, CallsByProgress, HoldersExact, PooledClientServed, ServedSocketOpen
<1>3. /\ pcalls' \in [PClients -> Seq(CallbackNames)]
      /\ Len(pcalls'[c]) = 1
      /\ \A d \in PClients \ {c} : pcalls'[d] = pcalls[d]
  BY <1>2, FirstCallback DEF CallbackNames
<1>4. PooledTypes' /\ NotYetAccepting'
  BY <1>2, <1>3 DEF PooledTypes, AcceptorPCs, NotYetAccepting, runVars
<1>5. HoldersExact'
  BY <1>1, <1>2 DEF PooledTypes, HoldersExact
<1>6. CallsByProgress'
  BY <1>1, <1>2, <1>3 DEF PooledTypes, HoldersExact, CallsByProgress, NoClient
<1>7. BacklogUntouched' /\ PooledClientServed'
  BY <1>2, <1>3 DEF PooledTypes, BacklogUntouched, PooledClientServed, OneCallbackPerClient,
     ServedSocketOpen
<1> QED BY <1>4, <1>5, <1>6, <1>7

LEMMA ReleaseClientKeeps ==
  ASSUME PooledInv, NEW s \in PSockets, ReleaseClient(s)
  PROVE  PooledInv'
<1> USE PooledAssumption DEF PooledInv
<1>1. PICK c \in PClients : c = pheld[s]
  BY DEF ReleaseClient, HoldersExact
<1>2. /\ s \in prefs[c] /\ pacc[s] = "release"
      /\ prefs' = [prefs EXCEPT ![c] = @ \ {s}]
      /\ pshut' = IF prefs[c] = {s} THEN pshut \cup {c} ELSE pshut
      /\ pacc' = [pacc EXCEPT ![s] = "accept"]
      /\ pheld' = [pheld EXCEPT ![s] = NoClient]
      /\ UNCHANGED <<runVars, pclient, pcalls>>
  BY <1>1 DEF ReleaseClient, DropData, HoldersExact
<1>3. PooledTypes' /\ NotYetAccepting'
  BY <1>2 DEF PooledTypes, AcceptorPCs, NotYetAccepting, runVars
<1>4. HoldersExact'
  BY <1>1, <1>2 DEF PooledTypes, HoldersExact
<1>5. CallsByProgress'
  BY <1>2 DEF PooledTypes, CallsByProgress
<1>6. prefs[c] = {s} => pclient[c] \notin {"queued", "task", "backlog"} /\ Len(pcalls[c]) = 1
  <2> SUFFICES ASSUME prefs[c] = {s}
               PROVE  pclient[c] \notin {"queued", "task", "backlog"} /\ Len(pcalls[c]) = 1
    OBVIOUS
  <2>1. pclient[c] \notin {"queued", "task", "backlog"}
    BY <1>1, <1>2 DEF HoldersExact, CallsByProgress
  <2> QED BY <1>1, <1>2, <2>1 DEF PooledTypes, ClientStates, CallsByProgress
<1>7. BacklogUntouched' /\ PooledClientServed'
  BY <1>2, <1>6 DEF PooledTypes, BacklogUntouched, PooledClientServed, OneCallbackPerClient,
     ServedSocketOpen
<1> QED BY <1>3, <1>4, <1>5, <1>7

LEMMA AcceptorTaskKeeps ==
  ASSUME PooledInv, NEW c \in PClients, AcceptorTask(c)
  PROVE  PooledInv'
<1> USE PooledAssumption DEF PooledInv
<1>1. PICK call \in CallbackNames : pcalls' = [pcalls EXCEPT ![c] = Append(@, call)]
  BY DEF AcceptorTask, CallbackNames
<1>2. /\ pclient[c] = "queued" /\ pcalls[c] = <<>> /\ c \notin pshut
      /\ pclient' = [pclient EXCEPT ![c] = "task"]
      /\ UNCHANGED <<runVars, pacc, pheld, prefs, pshut>>
  BY DEF AcceptorTask, CallsByProgress, PooledClientServed, ServedSocketOpen
<1>3. /\ pcalls' \in [PClients -> Seq(CallbackNames)]
      /\ Len(pcalls'[c]) = 1
      /\ \A d \in PClients \ {c} : pcalls'[d] = pcalls[d]
  BY <1>1, <1>2, FirstCallback
<1>4. PooledTypes' /\ NotYetAccepting'
  BY <1>2, <1>3 DEF PooledTypes, ClientStates, NotYetAccepting, runVars
<1>5. HoldersExact'
  BY <1>2 DEF PooledTypes, HoldersExact
<1>6. CallsByProgress'
  BY <1>2, <1>3 DEF PooledTypes, HoldersExact, CallsByProgress
<1>7. BacklogUntouched' /\ PooledClientServed'
  <2>1. BacklogUntouched' /\ ServedSocketOpen'
    BY <1>2 DEF PooledTypes, BacklogUntouched, PooledClientServed, ServedSocketOpen
  <2>2. OneCallbackPerClient'
    <3> SUFFICES ASSUME NEW d \in PClients
                 PROVE  Len(pcalls'[d]) <= 1 /\ (d \in pshut' => Len(pcalls'[d]) = 1)
      BY DEF OneCallbackPerClient
    <3>1. CASE d = c
      <4>1. Len(pcalls'[d]) = 1
        BY <1>3, <3>1
      <4> QED BY <4>1
    <3>2. CASE d # c
      BY <1>2, <1>3, <3>2 DEF PooledClientServed, OneCallbackPerClient
    <3> QED BY <3>1, <3>2
  <2> QED BY <2>1, <2>2 DEF PooledClientServed
<1> QED BY <1>4, <1>5, <1>6, <1>7

LEMMA TaskEndsKeeps ==
  ASSUME PooledInv, NEW c \in PClients, TaskEnds(c)
  PROVE  PooledInv'
<1> USE PooledAssumption DEF PooledInv
<1>1. /\ pclient[c] = "task" /\ Len(pcalls[c]) = 1 /\ "task" \in prefs[c]
      /\ pclient' = [pclient EXCEPT ![c] = "over"]
      /\ prefs' = [prefs EXCEPT ![c] = @ \ {"task"}]
      /\ pshut' = IF prefs[c] = {"task"} THEN pshut \cup {c} ELSE pshut
      /\ UNCHANGED <<runVars, pacc, pheld, pcalls>>
  BY DEF TaskEnds, DropData, HoldersExact, CallsByProgress
<1>2. PooledTypes' /\ NotYetAccepting'
  BY <1>1 DEF PooledTypes, ClientStates, NotYetAccepting, runVars
<1>3. HoldersExact'
  BY <1>1 DEF PooledTypes, HoldersExact
<1>4. CallsByProgress'
  BY <1>1 DEF PooledTypes, HoldersExact, CallsByProgress
<1>5. BacklogUntouched' /\ PooledClientServed'
  BY <1>1 DEF PooledTypes, BacklogUntouched, PooledClientServed, OneCallbackPerClient,
     ServedSocketOpen
<1> QED BY <1>2, <1>3, <1>4, <1>5

(* The steps of the program and of the runner: they move no client. *)
LEMMA PooledRunKeeps ==
  ASSUME PooledInv, UNCHANGED <<pheld, taskVars>>,
         \/ \E s \in PSockets : AddAcceptorSocket(s)
         \/ StartInBackground \/ RunThreads \/ RunEnds \/ StopPooled \/ JoinOrDetach \/ DropPooled
         \/ UNCHANGED <<runVars, pacc>>
  PROVE  PooledInv'
<1> USE DEF PooledInv, taskVars
<1>1. NotYetAccepting'
  BY DEF NotYetAccepting, AddAcceptorSocket, StartInBackground, RunThreads, RunEnds, StopPooled,
     JoinOrDetach, DropPooled, runVars
<1>2. BacklogUntouched' /\ PooledClientServed'
  BY DEF BacklogUntouched, PooledClientServed, OneCallbackPerClient, ServedSocketOpen
<1>3. CASE RunThreads
  <2>1. \A s \in PSockets : pacc[s] = "none" /\ pacc'[s] \in {"none", "accept"}
    BY <1>3 DEF RunThreads, NotYetAccepting
  <2>2. PooledTypes'
    BY <1>3 DEF RunThreads, PooledTypes, AcceptorPCs
  <2>3. HoldersExact' /\ CallsByProgress'
    BY <2>1 DEF HoldersExact, CallsByProgress
  <2> QED BY <1>1, <1>2, <2>2, <2>3
<1>4. CASE ~RunThreads
  <2>1. UNCHANGED pacc
    BY <1>4 DEF AddAcceptorSocket, StartInBackground, RunEnds, StopPooled, JoinOrDetach, DropPooled
  <2>2. PooledTypes' /\ HoldersExact' /\ CallsByProgress'
    BY <2>1 DEF PooledTypes, HoldersExact, CallsByProgress
  <2> QED BY <1>1, <1>2, <2>2
<1> QED BY <1>3, <1>4

LEMMA PooledInvStep == PooledInv /\ [PooledNext]_pooledVars => PooledInv'
<1> SUFFICES ASSUME PooledInv, [PooledNext]_pooledVars PROVE PooledInv'
  OBVIOUS
<1>1. CASE \E s \in PSockets : PooledStep(s)
  BY <1>1, PushClientTaskKeeps, PushTimedOutKeeps, ReleaseClientKeeps DEF PooledStep
<1>2. CASE \E s \in PSockets, c \in PClients : AcceptPooled(s, c)
  BY <1>2, AcceptPooledKeeps
<1>3. CASE \E c \in PClients : TaskStep(c)
  BY <1>3, AcceptorTaskKeeps, TaskEndsKeeps DEF TaskStep
<1>4. CASE \/ \E s \in PSockets : AddAcceptorSocket(s)
           \/ StartInBackground \/ RunThreads \/ RunEnds \/ StopPooled \/ JoinOrDetach
           \/ DropPooled \/ UNCHANGED pooledVars
  <2>1. UNCHANGED <<pheld, taskVars>>
    BY <1>4 DEF AddAcceptorSocket, StartInBackground, RunThreads, RunEnds, StopPooled,
       JoinOrDetach, DropPooled, pooledVars
  <2>2. UNCHANGED pooledVars => UNCHANGED <<runVars, pacc>>
    BY DEF pooledVars
  <2> QED BY <1>4, <2>1, <2>2, PooledRunKeeps
<1> QED BY <1>1, <1>2, <1>3, <1>4 DEF PooledNext

(* PooledClientServed, for any listening sockets, clients, workers and room in
   the queue: one callback per accepted client, on a socket that stays open for
   it, whichever of the accepting thread and the worker drops the data first. *)
THEOREM PooledServes == PooledSpec => []PooledClientServed
<1>1. PooledInv => PooledClientServed
  BY DEF PooledInv
<1> QED BY <1>1, PooledInvInit, PooledInvStep, PTL DEF PooledSpec

-----------------------------------------------------------------------------
(* The queue. *)

ThreadPCs == {"start", "wait", "woken", "notify", "stored", "refused", "done"}

QueueTypes ==
  /\ queue \in Seq(QPushers) /\ accepted \in Seq(QPushers) /\ taken \in Seq(QPushers)
  /\ qpc \in [QThreads -> ThreadPCs]
  /\ qgot \in [QPoppers -> QPushers \cup {"null"}]

(* Until it is destroyed, the queue is what was accepted and not yet taken. *)
QueueSplit == accepted = taken \o queue /\ qdeleted = {}

(* Every pusher stores its item once, and knows that it did. *)
StoredOnce ==
  /\ \A i, j \in DOMAIN accepted : accepted[i] = accepted[j] => i = j
  /\ \A t \in QPushers : qpc[t] \in {"notify", "stored"} <=> t \in Range(accepted)

(* A popper has an item that was taken, and no two have the same. *)
GotTaken ==
  /\ \A t \in QPoppers : qgot[t] # "null" => qgot[t] \in Range(taken)
  /\ \A s, t \in QPoppers : s # t /\ qgot[s] # "null" => qgot[s] # qgot[t]

LiveQueue == QueueSplit /\ StoredOnce /\ GotTaken

(* ~Queue runs when every call has returned, and nothing happens after it. *)
DestroyedQueue == ~QAlive /\ queue = <<>> /\ QueueItems

QueueInv == QueueTypes /\ (LiveQueue \/ DestroyedQueue)

LEMMA PrefixOfConcat ==
  ASSUME NEW S, NEW s \in Seq(S), NEW t \in Seq(S)
  PROVE  IsPrefix(s, s \o t)
<1>1. s \o t \in Seq(S) /\ Len(s \o t) = Len(s) + Len(t)
  BY ConcatProperties
<1>2. Len(s) \in Nat /\ Len(t) \in Nat
  BY LenProperties
<1>3. SubSeq(s \o t, 1, Len(s)) = SubSeq(s, 1, Len(s))
  <2>1. CASE Len(s) = 0
    BY <2>1, SubSeqEmpty
  <2>2. CASE Len(s) # 0
    BY <1>2, <2>2, SubSeqOfConcat1
  <2> QED BY <2>1, <2>2
<1> QED BY <1>1, <1>2, <1>3 DEF IsPrefix

LEMMA RangeAppend ==
  ASSUME NEW S, NEW s \in Seq(S), NEW x \in S
  PROVE  Range(Append(s, x)) = Range(s) \cup {x}
<1>1. /\ Len(s) \in Nat /\ DOMAIN s = 1..Len(s) /\ DOMAIN Append(s, x) = 1..(Len(s) + 1)
      /\ \A i \in 1..Len(s) : Append(s, x)[i] = s[i]
      /\ Append(s, x)[Len(s) + 1] = x
  BY AppendProperties, LenProperties
<1>2. 1..(Len(s) + 1) = (1..Len(s)) \cup {Len(s) + 1}
  BY <1>1
<1> QED BY <1>1, <1>2 DEF Range

(* Before it is destroyed the queue keeps QueueItems. *)
LEMMA LiveQueueItems == QueueTypes /\ LiveQueue => QueueItems
<1> SUFFICES ASSUME QueueTypes, LiveQueue PROVE QueueItems
  OBVIOUS
<1> USE DEF QueueTypes, LiveQueue, QueueSplit
<1>1. IsPrefix(taken, accepted)
  BY PrefixOfConcat
<1>2. IsPrefix(taken \o queue, accepted)
  <2>1. accepted \o <<>> = accepted /\ <<>> \in Seq(QPushers)
    BY ConcatEmptySeq
  <2> QED BY <2>1, PrefixOfConcat
<1>3. Range(accepted) = Range(taken) \cup Range(queue)
  BY RangeConcatenation
<1>4. Range(taken) \cap Range(queue) = {}
  <2> SUFFICES ASSUME NEW x \in Range(taken), x \in Range(queue) PROVE FALSE
    OBVIOUS
  <2>1. PICK i \in 1..Len(taken) : taken[i] = x
    BY RangeEquality
  <2>2. PICK j \in 1..Len(queue) : queue[j] = x
    BY RangeEquality
  <2>3. Len(taken) \in Nat /\ Len(queue) \in Nat /\ Len(accepted) = Len(taken) + Len(queue)
    BY LenProperties, ConcatProperties
  <2>4. accepted[i] = x
    BY <2>1, <2>3, ConcatProperties
  <2>5. accepted[Len(taken) + j] = x
    BY <2>2, <2>3, ConcatProperties
  <2>6. DOMAIN accepted = 1..Len(accepted)
    BY LenProperties
  <2>7. i \in DOMAIN accepted /\ Len(taken) + j \in DOMAIN accepted
    BY <2>3, <2>6
  <2>8. i = Len(taken) + j
    BY <2>4, <2>5, <2>7 DEF StoredOnce
  <2> QED BY <2>3, <2>8
<1>5. QueueFIFO
  BY <1>1, <1>2, <1>3 DEF QueueFIFO, GotTaken
<1>6. QueueOwnership
  BY <1>4 DEF QueueOwnership, StoredOnce, GotTaken
<1> QED BY <1>5, <1>6 DEF QueueItems

LEMMA QueueInvInit == QueueInit => QueueInv
<1> SUFFICES ASSUME QueueInit PROVE QueueInv
  OBVIOUS
<1>1. QueueTypes
  BY DEF QueueInit, QueueTypes, ThreadPCs, QThreads
<1>2. <<>> \o <<>> = <<>> /\ DOMAIN <<>> = {}
  BY ConcatEmptySeq, EmptySeq
<1>3. LiveQueue
  BY <1>2 DEF QueueInit, LiveQueue, QueueSplit, StoredOnce, GotTaken, Range, QThreads
<1> QED BY <1>1, <1>3 DEF QueueInv

(* push stores an item that the queue never had, behind all the others. *)
LEMMA PushKeeps ==
  ASSUME QueueTypes, LiveQueue, NEW t \in QPushers, qpc[t] \in {"start", "woken"},
         queue' = Append(queue, t), accepted' = Append(accepted, t),
         qpc' = [qpc EXCEPT ![t] = "notify"], UNCHANGED <<qgot, taken, qdeleted>>
  PROVE  QueueTypes' /\ LiveQueue'
<1>1. QueueTypes'
  <2>1. queue' \in Seq(QPushers) /\ accepted' \in Seq(QPushers)
    BY AppendProperties DEF QueueTypes
  <2>2. qpc' \in [QThreads -> ThreadPCs]
    BY DEF QueueTypes, ThreadPCs
  <2> QED BY <2>1, <2>2 DEF QueueTypes
<1>2. QueueSplit'
  <2>1. /\ Append(queue, t) = queue \o <<t>> /\ Append(accepted, t) = accepted \o <<t>>
        /\ <<t>> \in Seq(QPushers)
    BY AppendIsConcat DEF QueueTypes
  <2>2. (taken \o queue) \o <<t>> = taken \o (queue \o <<t>>)
    BY <2>1, ConcatAssociative DEF QueueTypes
  <2> QED BY <2>1, <2>2 DEF LiveQueue, QueueSplit
<1>3. Range(accepted') = Range(accepted) \cup {t} /\ t \notin Range(accepted)
  BY RangeAppend DEF QueueTypes, LiveQueue, StoredOnce
<1>4. \A i, j \in DOMAIN accepted' : accepted'[i] = accepted'[j] => i = j
  <2>1. /\ Len(accepted) \in Nat /\ DOMAIN accepted = 1..Len(accepted)
        /\ DOMAIN accepted' = 1..(Len(accepted) + 1)
        /\ accepted'[Len(accepted) + 1] = t
        /\ \A i \in 1..Len(accepted) : accepted'[i] = accepted[i] /\ accepted[i] \in Range(accepted)
    BY AppendProperties, LenProperties DEF QueueTypes, Range
  <2> QED BY <1>3, <2>1 DEF LiveQueue, StoredOnce
<1>5. StoredOnce' /\ GotTaken'
  BY <1>3, <1>4 DEF StoredOnce, GotTaken, LiveQueue, QueueTypes, QThreads
<1> QED BY <1>1, <1>2, <1>5 DEF LiveQueue

(* pop takes the oldest item, which no popper has. *)
LEMMA PopKeeps ==
  ASSUME QueueTypes, LiveQueue, NEW t \in QPoppers, qpc[t] \in {"start", "woken"}, queue # <<>>,
         qgot' = [qgot EXCEPT ![t] = PopFront.item], taken' = Append(taken, PopFront.item),
         queue' = PopFront.rest, qpc' = [qpc EXCEPT ![t] = "notify"],
         UNCHANGED <<accepted, qdeleted>>
  PROVE  QueueTypes' /\ LiveQueue'
<1> USE QueueAssumption
<1>1. /\ PopFront.item = Head(queue) /\ PopFront.rest = Tail(queue)
      /\ Head(queue) \in QPushers /\ Tail(queue) \in Seq(QPushers)
      /\ Head(queue) \in Range(queue)
  <2>1. Head(queue) = queue[1] /\ 1 \in DOMAIN queue
    BY LenProperties DEF QueueTypes
  <2> QED BY <2>1, HeadTailProperties DEF PopFront, QueueTypes, Range
<1>2. QueueTypes'
  <2>1. queue' \in Seq(QPushers) /\ taken' \in Seq(QPushers)
    BY <1>1, AppendProperties DEF QueueTypes
  <2>2. qpc' \in [QThreads -> ThreadPCs]
    BY DEF QueueTypes, ThreadPCs
  <2>3. qgot' \in [QPoppers -> QPushers \cup {"null"}]
    BY <1>1 DEF QueueTypes
  <2> QED BY <2>1, <2>2, <2>3 DEF QueueTypes
<1>3. QueueSplit'
  <2>1. Append(taken, Head(queue)) = taken \o <<Head(queue)>> /\ <<Head(queue)>> \in Seq(QPushers)
    BY <1>1, AppendIsConcat DEF QueueTypes
  <2>2. queue = <<Head(queue)>> \o Tail(queue)
    BY <1>1 DEF QueueTypes
  <2>3. (taken \o <<Head(queue)>>) \o Tail(queue) = taken \o (<<Head(queue)>> \o Tail(queue))
    BY <1>1, <2>1, ConcatAssociative DEF QueueTypes
  <2> QED BY <1>1, <2>1, <2>2, <2>3 DEF LiveQueue, QueueSplit
<1>4. Range(taken') = Range(taken) \cup {Head(queue)} /\ Head(queue) \notin Range(taken)
  <2>1. Range(taken) \cap Range(queue) = {}
    BY LiveQueueItems DEF QueueItems, QueueOwnership
  <2> QED BY <1>1, <2>1, RangeAppend DEF QueueTypes
<1>5. GotTaken'
  BY <1>1, <1>4 DEF LiveQueue, GotTaken, QueueTypes
<1>6. StoredOnce'
  BY DEF LiveQueue, StoredOnce, QueueTypes, QThreads
<1> QED BY <1>2, <1>3, <1>5, <1>6 DEF LiveQueue

(* A step that moves no item changes only where its threads are; it can make a
   pusher believe nothing about its item that was not so before. *)
LEMMA WaitKeeps ==
  ASSUME QueueTypes, LiveQueue, qpc' \in [QThreads -> ThreadPCs],
         UNCHANGED <<queue, accepted, taken, qgot, qdeleted>>,
         \A t \in QPushers : qpc'[t] \in {"notify", "stored"} <=> qpc[t] \in {"notify", "stored"}
  PROVE  QueueTypes' /\ LiveQueue'
BY DEF QueueTypes, LiveQueue, QueueSplit, StoredOnce, GotTaken

LEMMA NotifyKeeps ==
  ASSUME QueueTypes, LiveQueue, NEW t \in QThreads, NEW others \in SUBSET QThreads,
         NEW after \in ThreadPCs, Notify(t, others, after),
         t \in QPushers => after = "stored"
  PROVE  QueueTypes' /\ LiveQueue'
<1>1. /\ qpc[t] = "notify" /\ UNCHANGED <<queue, accepted, taken, qgot, qdeleted>>
      /\ \/ qpc' = [qpc EXCEPT ![t] = after]
         \/ \E u \in others : qpc[u] = "wait" /\ qpc' = [[qpc EXCEPT ![t] = after] EXCEPT ![u] = "woken"]
  BY DEF Notify
<1>2. qpc' \in [QThreads -> ThreadPCs]
  BY <1>1 DEF QueueTypes, ThreadPCs
<1>3. \A p \in QPushers : qpc'[p] \in {"notify", "stored"} <=> qpc[p] \in {"notify", "stored"}
  BY <1>1 DEF QueueTypes, ThreadPCs, QThreads
<1> QED BY <1>1, <1>2, <1>3, WaitKeeps

LEMMA LiveQueueStep ==
  ASSUME QueueTypes, LiveQueue, [QueueNext]_queueVars
  PROVE  QueueInv'
<1> USE QueueAssumption DEF QueueInv
<1>1. ASSUME NEW t \in QPushers, Push(t) PROVE QueueInv'
  <2>1. CASE QueueFull
    <3>1. /\ \E x \in {"wait", "refused"} : qpc' = [qpc EXCEPT ![t] = x]
          /\ qpc[t] \in {"start", "woken"}
          /\ UNCHANGED <<queue, accepted, taken, qgot, qdeleted>>
      BY <1>1, <2>1 DEF Push
    <3>2. /\ qpc' \in [QThreads -> ThreadPCs]
          /\ \A p \in QPushers : qpc'[p] \in {"notify", "stored"} <=> qpc[p] \in {"notify", "stored"}
      BY <3>1 DEF QueueTypes, ThreadPCs, QThreads
    <3> QED BY <3>1, <3>2, WaitKeeps
  <2>2. CASE ~QueueFull
    BY <1>1, <2>2, PushKeeps DEF Push
  <2> QED BY <2>1, <2>2
<1>2. ASSUME NEW t \in QPoppers, Pop(t) PROVE QueueInv'
  <2>1. CASE queue = <<>>
    <3>1. /\ \E x \in {"wait", "done"} : qpc' = [qpc EXCEPT ![t] = x]
          /\ UNCHANGED <<queue, accepted, taken, qgot, qdeleted>>
      BY <1>2, <2>1 DEF Pop
    <3>2. /\ qpc' \in [QThreads -> ThreadPCs]
          /\ \A p \in QPushers : qpc'[p] \in {"notify", "stored"} <=> qpc[p] \in {"notify", "stored"}
      BY <3>1 DEF QueueTypes, ThreadPCs, QThreads
    <3> QED BY <3>1, <3>2, WaitKeeps
  <2>2. CASE queue # <<>>
    BY <1>2, <2>2, PopKeeps DEF Pop
  <2> QED BY <2>1, <2>2
<1>3. ASSUME NEW t \in QThreads, PushTimeout(t) \/ PushNull(t) \/ PopTimeout(t) PROVE QueueInv'
  <2>1. /\ \E x \in {"refused", "done"} : qpc' = [qpc EXCEPT ![t] = x]
        /\ qpc[t] \in {"start", "wait", "woken"}
        /\ UNCHANGED <<queue, accepted, taken, qgot, qdeleted>>
    BY <1>3 DEF PushTimeout, PushNull, PopTimeout
  <2>2. /\ qpc' \in [QThreads -> ThreadPCs]
        /\ \A p \in QPushers : qpc'[p] \in {"notify", "stored"} <=> qpc[p] \in {"notify", "stored"}
    BY <2>1 DEF QueueTypes, ThreadPCs, QThreads
  <2> QED BY <2>1, <2>2, WaitKeeps
<1>4. ASSUME NEW t \in QPushers, PushNotify(t) PROVE QueueInv'
  BY <1>4, NotifyKeeps DEF PushNotify, QThreads, ThreadPCs
<1>5. ASSUME NEW t \in QPoppers, PopNotify(t) PROVE QueueInv'
  BY <1>5, NotifyKeeps DEF PopNotify, QThreads, ThreadPCs
<1>6. CASE DestroyQueue
  <2>1. /\ ~QAlive /\ qdeleted' = qdeleted \cup Range(queue) /\ queue' = <<>>
        /\ UNCHANGED <<qpc, qgot, accepted, taken>>
    BY <1>6 DEF DestroyQueue
  <2>2. QueueTypes' /\ ~QAlive'
    BY <2>1, EmptySeq DEF QueueTypes, QAlive
  <2>3. taken \o <<>> = taken /\ Range(<<>>) = {}
    <3>1. taken \o <<>> = taken
      BY ConcatEmptySeq DEF QueueTypes
    <3>2. DOMAIN <<>> = {}
      OBVIOUS
    <3> QED BY <3>1, <3>2 DEF Range
  <2>4. QueueItems'
    BY <2>1, <2>3, LiveQueueItems DEF QueueItems, QueueFIFO, QueueOwnership
  <2> QED BY <2>1, <2>2, <2>4 DEF DestroyedQueue
<1>7. CASE (\E n \in QLimits : SetMaxItems(n)) \/ UNCHANGED queueVars
  BY <1>7, WaitKeeps DEF SetMaxItems, queueVars, QueueTypes
<1> QED BY <1>1, <1>2, <1>3, <1>4, <1>5, <1>6, <1>7 DEF QueueNext, PushStep, PopStep, QThreads

LEMMA QueueInvStep == QueueInv /\ [QueueNext]_queueVars => QueueInv'
<1> SUFFICES ASSUME QueueInv, [QueueNext]_queueVars PROVE QueueInv'
  OBVIOUS
<1>1. CASE LiveQueue
  BY <1>1, LiveQueueStep DEF QueueInv
<1>2. CASE DestroyedQueue
  <2>1. \A t \in QThreads : qpc[t] \in {"stored", "refused", "done"}
    BY <1>2 DEF DestroyedQueue, QAlive
  <2>2. UNCHANGED queueVars
    BY <1>2, <2>1 DEF QueueNext, DestroyedQueue, SetMaxItems, PushStep, PopStep, PushNull, Push,
       PushTimeout, PushNotify, PopNotify, Notify, Pop, PopTimeout, DestroyQueue, QThreads
  <2> QED BY <1>2, <2>2 DEF queueVars, QueueInv, QueueTypes, DestroyedQueue, QAlive, QueueItems,
         QueueFIFO, QueueOwnership
<1> QED BY <1>1, <1>2 DEF QueueInv

(* QueueItems, for any pushers, poppers and limits: first in, first out, each
   item with one owner, through waits, timeouts, changes of the limit and the
   destructor. *)
THEOREM QueueKeepsItems == QueueSpec => []QueueItems
<1>1. QueueInv => QueueItems
  BY LiveQueueItems DEF QueueInv, DestroyedQueue
<1> QED BY <1>1, QueueInvInit, QueueInvStep, PTL DEF QueueSpec

-----------------------------------------------------------------------------
(* The tasks of an RPC connection and the pinger. *)

Sessions == RTokens \cup {NoSession}
TaskKinds == {"none", "login", "logout", "ssodata", "call"}
TaskPCs == {"new", "started", "loaded", "invoke", "answer", "done"}

CallTypes ==
  /\ holder \in Sessions
  /\ rtask \in [RPCTasks -> [kind : TaskKinds, token : Sessions, needs : BOOLEAN]]
  /\ rpc \in [RPCTasks -> TaskPCs]
  /\ rsession \in [RPCTasks -> Sessions]
  /\ rloaded \in [RPCTasks -> Sessions]
  /\ rhistory \in Seq({"login", "logout"})
  /\ rinvoked \subseteq (RPCTasks \X Sessions)
  /\ latePings \in Nat

(* There is a session exactly when the last success was a login. *)
HolderMatchesHistory ==
  holder # NoSession <=> rhistory # <<>> /\ rhistory[Len(rhistory)] = "login"

Verified(s) == s # NoSession => s.valid

(* What a task may run its method with: InvokedWithProof of one task. *)
Proof(t, s) ==
  IF s = NoSession THEN ~rtask[t].needs
  ELSE /\ s.valid
       /\ \/ s = rloaded[t]
          \/ s = rtask[t].token /\ rloaded[t] = NoSession /\ rtask[t].token.impersonator = ""
          \/ s = rtask[t].token /\ rloaded[t] # NoSession
             /\ rtask[t].token.impersonator = rloaded[t].user

(* The session of the connection was verified, a loaded task has it, a task about
   to run its method has its proof, and a task that ran does not start again. *)
TasksProved ==
  /\ Verified(holder)
  /\ \A t \in RPCTasks : Verified(rloaded[t])
  /\ \A t \in RPCTasks : rpc[t] = "loaded" => rsession[t] = rloaded[t]
  /\ \A t \in RPCTasks, s \in Sessions : rpc[t] = "invoke" /\ rsession[t] = s => Proof(t, s)
  /\ \A i \in rinvoked : rpc[i[1]] \in {"answer", "done"} /\ Proof(i[1], i[2])

(* After the flag only the ping that was being sent is sent. *)
LatePingOver ==
  /\ latePings <= 1
  /\ latePings > 0 => isFinished /\ ping # "pinging"

CallInv == CallTypes /\ HolderMatchesHistory /\ OneLoginAtATime /\ TasksProved /\ LatePingOver

LEMMA CallInvInit == RPCSessionInit => CallInv
<1> SUFFICES ASSUME RPCSessionInit PROVE CallInv
  OBVIOUS
<1>1. CallTypes
  BY DEF RPCSessionInit, CallTypes, Sessions, TaskKinds, TaskPCs, NoTask
<1>2. HolderMatchesHistory /\ OneLoginAtATime /\ LatePingOver
  BY DEF RPCSessionInit, HolderMatchesHistory, OneLoginAtATime, LatePingOver
<1>3. TasksProved
  BY DEF RPCSessionInit, TasksProved, Verified
<1> QED BY <1>1, <1>2, <1>3 DEF CallInv

(* An extra token that is not refused gives a session with a proof. *)
LEMMA ExtraTokenProves ==
  ASSUME NEW s \in Sessions, NEW tok \in Sessions, Verified(s),
         ExtraToken(s, tok).failed = "", ~ExtraToken(s, tok).null
  PROVE  LET x == ExtraToken(s, tok).session
         IN /\ x \in Sessions
            /\ x # NoSession =>
                 /\ x.valid
                 /\ \/ x = s
                    \/ x = tok /\ s = NoSession /\ tok.impersonator = ""
                    \/ x = tok /\ s # NoSession /\ tok.impersonator = s.user
<1> USE SessionAssumption
<1>1. CASE tok = NoSession
  <2>1. ExtraToken(s, tok).session = s
    BY <1>1 DEF ExtraToken
  <2> QED BY <2>1 DEF Verified
<1>2. CASE tok # NoSession /\ ~tok.valid
  BY <1>2 DEF ExtraToken
<1>3. CASE tok # NoSession /\ tok.valid /\ tok.impersonator = ""
  <2>1. CASE s = NoSession
    <3>1. ExtraToken(s, tok).session = tok
      BY <1>3, <2>1 DEF ExtraToken
    <3> QED BY <1>3, <2>1, <3>1
  <2>2. CASE s # NoSession
    <3>1. ExtraToken(s, tok).failed = "INVALID_TOKEN"
      BY <1>3, <2>2 DEF ExtraToken
    <3> QED BY <3>1
  <2> QED BY <2>1, <2>2
<1>4. CASE tok # NoSession /\ tok.valid /\ tok.impersonator # ""
  <2>1. CASE s = NoSession
    <3>1. ExtraToken(s, tok).null
      BY <1>4, <2>1 DEF ExtraToken
    <3> QED BY <3>1
  <2>2. CASE s # NoSession /\ Impersonates(s, tok)
    <3>1. ExtraToken(s, tok).session = tok
      BY <1>4, <2>2 DEF ExtraToken
    <3> QED BY <1>4, <2>2, <3>1 DEF Impersonates
  <2>3. CASE s # NoSession /\ ~Impersonates(s, tok)
    <3>1. ExtraToken(s, tok).failed = "INVALID_IMPERSONATOR_TOKEN"
      BY <1>4, <2>3 DEF ExtraToken
    <3> QED BY <3>1
  <2> QED BY <2>1, <2>2, <2>3
<1> QED BY <1>1, <1>2, <1>3, <1>4 DEF Sessions

(* What CheckCall leaves behind when it lets a call go on to its method. *)
LEMMA CheckCallProves ==
  ASSUME CallInv, NEW t \in RPCTasks, CheckCall(t), rpc'[t] = "invoke"
  PROVE  /\ rsession'[t] \in Sessions /\ Proof(t, rsession'[t])
         /\ rsession'[t] = NoSession \/ rsession'[t].user \notin revokedUsers
<1> DEFINE x == ExtraToken(rsession[t], rtask[t].token)
           revoked == x.failed = "" /\ RevokedSession(x.session)
           s == IF revoked THEN NoSession ELSE x.session
<1>1. rpc[t] = "loaded" /\ rsession[t] = rloaded[t] /\ rsession[t] \in Sessions
      /\ rtask[t].token \in Sessions /\ Verified(rsession[t])
  BY DEF CheckCall, CallInv, CallTypes, TasksProved
<1>2. ~x.null /\ rsession' = [rsession EXCEPT ![t] = s]
      /\ ~(rtask[t].needs /\ s = NoSession) /\ ~revoked /\ x.failed = ""
  <2>1. ~x.null
    BY <1>1 DEF CheckCall
  <2>2. /\ rsession' = [rsession EXCEPT ![t] = s]
        /\ IF rtask[t].needs /\ s = NoSession THEN Answer(t, "REQUIRED_SESSION_NOT_FOUND")
           ELSE IF revoked THEN Answer(t, "INVALID_TOKEN")
           ELSE IF x.failed # "" THEN Answer(t, x.failed)
           ELSE TRUE
    BY <2>1 DEF CheckCall
  <2>3. \A a : ~Answer(t, a)
    BY DEF Answer, CallInv, CallTypes
  <2> QED BY <2>1, <2>2, <2>3
<1>3. s = x.session /\ rsession'[t] = x.session
  BY <1>2 DEF CallInv, CallTypes
<1> HIDE DEF x
<1>4. /\ x.session \in Sessions
      /\ x.session # NoSession =>
           /\ x.session.valid
           /\ \/ x.session = rsession[t]
              \/ x.session = rtask[t].token /\ rsession[t] = NoSession
                 /\ rtask[t].token.impersonator = ""
              \/ x.session = rtask[t].token /\ rsession[t] # NoSession
                 /\ rtask[t].token.impersonator = rsession[t].user
  BY <1>1, <1>2, ExtraTokenProves DEF x
<1>5. Proof(t, x.session)
  BY <1>1, <1>2, <1>3, <1>4 DEF Proof, CallInv, CallTypes
<1> QED BY <1>2, <1>3, <1>4, <1>5 DEF RevokedSession

(* A step that leaves the proofs of the other tasks alone. *)
LEMMA TaskMoves ==
  ASSUME CallInv, NEW t \in RPCTasks, NEW pc \in TaskPCs, rpc' = [rpc EXCEPT ![t] = pc],
         rpc[t] \in {"answer", "done"} => pc \in {"answer", "done"},
         NEW q \in Sessions, rsession' = [rsession EXCEPT ![t] = q],
         pc # "loaded", pc = "invoke" => Proof(t, q),
         UNCHANGED <<rloaded, rtask, rinvoked>>, holder' \in Sessions, Verified(holder')
  PROVE  TasksProved'
<1>1. \A u \in RPCTasks, r \in Sessions : Proof(u, r)' <=> Proof(u, r)
  BY DEF Proof
<1>2. \A u \in RPCTasks \ {t} : rpc'[u] = rpc[u] /\ rsession'[u] = rsession[u]
  BY DEF CallInv, CallTypes
<1>3. rpc'[t] = pc /\ rsession'[t] = q
  BY DEF CallInv, CallTypes
<1>4. \A i \in rinvoked' : rpc'[i[1]] \in {"answer", "done"} /\ Proof(i[1], i[2])'
  BY <1>1, <1>2, <1>3 DEF CallInv, CallTypes, TasksProved
<1>5. \A u \in RPCTasks, r \in Sessions : rpc'[u] = "invoke" /\ rsession'[u] = r => Proof(u, r)'
  BY <1>1, <1>2, <1>3 DEF CallInv, CallTypes, TasksProved
<1>6. \A u \in RPCTasks : rpc'[u] = "loaded" => rsession'[u] = rloaded'[u]
  BY <1>2, <1>3 DEF CallInv, CallTypes, TasksProved
<1> QED BY <1>4, <1>5, <1>6 DEF CallInv, TasksProved, Verified

(* The part of the invariant about the tasks. *)
CallCore == CallTypes /\ HolderMatchesHistory /\ OneLoginAtATime /\ TasksProved

LEMMA RequestTaskKeeps ==
  ASSUME CallInv, NEW t \in RPCTasks, NEW kind \in TaskKinds, NEW tok \in Sessions,
         NEW needs \in BOOLEAN, RequestTask(t, kind, tok, needs)
  PROVE  CallCore'
<1>1. /\ rpc[t] = "new" /\ rpc' = [rpc EXCEPT ![t] = "started"]
      /\ rtask' = [rtask EXCEPT ![t] = [kind |-> kind, token |-> tok, needs |-> needs]]
      /\ UNCHANGED <<rloaded, holder, rsession, rhistory, rinvoked, latePings>>
  BY DEF RequestTask, pingerVars
<1>2. CallTypes'
  BY <1>1 DEF CallInv, CallTypes, TaskPCs
<1>3. HolderMatchesHistory' /\ OneLoginAtATime'
  BY <1>1 DEF CallInv, HolderMatchesHistory, OneLoginAtATime
<1>4. \A u \in RPCTasks \ {t}, r \in Sessions : Proof(u, r)' <=> Proof(u, r)
  BY <1>1 DEF Proof, CallInv, CallTypes
<1>5. \A i \in rinvoked : i[1] # t
  BY <1>1 DEF CallInv, TasksProved
<1>6. \A i \in rinvoked' : rpc'[i[1]] \in {"answer", "done"} /\ Proof(i[1], i[2])'
  BY <1>1, <1>4, <1>5 DEF CallInv, CallTypes, TasksProved
<1>7. \A u \in RPCTasks, r \in Sessions : rpc'[u] = "invoke" /\ rsession'[u] = r => Proof(u, r)'
  BY <1>1, <1>4 DEF CallInv, CallTypes, TasksProved
<1>8. \A u \in RPCTasks : rpc'[u] = "loaded" => rsession'[u] = rloaded'[u]
  BY <1>1 DEF CallInv, CallTypes, TasksProved
<1>9. TasksProved'
  BY <1>1, <1>6, <1>7, <1>8 DEF CallInv, TasksProved, Verified
<1> QED BY <1>2, <1>3, <1>9 DEF CallCore

LEMMA GetSessionKeeps ==
  ASSUME CallInv, NEW t \in RPCTasks, GetSession(t)
  PROVE  CallCore'
<1>1. /\ rpc[t] = "started" /\ rpc' = [rpc EXCEPT ![t] = "loaded"]
      /\ rsession' = [rsession EXCEPT ![t] = holder]
      /\ rloaded' = [rloaded EXCEPT ![t] = holder]
      /\ UNCHANGED <<holder, rtask, rhistory, rinvoked, latePings>>
  BY DEF GetSession, pingerVars
<1>2. CallTypes'
  BY <1>1 DEF CallInv, CallTypes, TaskPCs
<1>3. HolderMatchesHistory' /\ OneLoginAtATime'
  BY <1>1 DEF CallInv, HolderMatchesHistory, OneLoginAtATime
<1>4. \A u \in RPCTasks \ {t}, r \in Sessions : Proof(u, r)' <=> Proof(u, r)
  BY <1>1 DEF Proof, CallInv, CallTypes
<1>5. \A i \in rinvoked : i[1] # t
  BY <1>1 DEF CallInv, TasksProved
<1>6. \A i \in rinvoked' : rpc'[i[1]] \in {"answer", "done"} /\ Proof(i[1], i[2])'
  BY <1>1, <1>4, <1>5 DEF CallInv, CallTypes, TasksProved
<1>7. \A u \in RPCTasks, r \in Sessions : rpc'[u] = "invoke" /\ rsession'[u] = r => Proof(u, r)'
  BY <1>1, <1>4 DEF CallInv, CallTypes, TasksProved
<1>8. \A u \in RPCTasks : rpc'[u] = "loaded" => rsession'[u] = rloaded'[u]
  BY <1>1 DEF CallInv, CallTypes, TasksProved
<1>9. \A u \in RPCTasks : Verified(rloaded'[u])
  BY <1>1 DEF CallInv, CallTypes, TasksProved
<1>10. TasksProved'
  BY <1>1, <1>6, <1>7, <1>8, <1>9 DEF CallInv, TasksProved, Verified
<1> QED BY <1>2, <1>3, <1>10 DEF CallCore

(* The history grows by the success that changed the holder. *)
LEMMA HistoryGrows ==
  ASSUME CallInv, NEW e \in {"login", "logout"}, rhistory' = Append(rhistory, e),
         holder' \in Sessions, holder' # NoSession <=> e = "login",
         holder # NoSession <=> e = "logout"
  PROVE  rhistory' \in Seq({"login", "logout"}) /\ HolderMatchesHistory' /\ OneLoginAtATime'
<1>1. /\ rhistory' \in Seq({"login", "logout"}) /\ rhistory' # <<>>
      /\ Len(rhistory) \in Nat /\ Len(rhistory') = Len(rhistory) + 1
      /\ \A i \in 1..Len(rhistory) : rhistory'[i] = rhistory[i]
      /\ rhistory'[Len(rhistory) + 1] = e
  BY AppendProperties, LenProperties DEF CallInv, CallTypes
<1>2. HolderMatchesHistory'
  BY <1>1 DEF HolderMatchesHistory
<1>3. OneLoginAtATime'
  <2> SUFFICES ASSUME NEW i \in 1..(Len(rhistory') - 1) PROVE rhistory'[i] # rhistory'[i + 1]
    BY DEF OneLoginAtATime
  <2>1. CASE i < Len(rhistory)
    <3>1. i \in 1..(Len(rhistory) - 1) /\ i + 1 \in 1..Len(rhistory) /\ i \in 1..Len(rhistory)
      BY <1>1, <2>1
    <3> QED BY <1>1, <3>1 DEF CallInv, OneLoginAtATime
  <2>2. CASE i = Len(rhistory)
    <3>1. rhistory[i] \in {"login", "logout"} /\ rhistory # <<>>
      BY <1>1, <2>2, ElementOfSeq DEF CallInv, CallTypes
    <3>2. rhistory[i] # e
      BY <2>2, <3>1 DEF CallInv, HolderMatchesHistory
    <3> QED BY <1>1, <2>2, <3>2
  <2> QED BY <1>1, <2>1, <2>2
<1> QED BY <1>1, <1>2, <1>3

LEMMA RPCLoginKeeps ==
  ASSUME CallInv, NEW t \in RPCTasks, RPCLogin(t)
  PROVE  CallCore'
<1> USE SessionAssumption
<1>1. /\ rpc[t] = "loaded" /\ rpc' = [rpc EXCEPT ![t] = "answer"]
      /\ UNCHANGED <<rloaded, rtask, rinvoked, latePings>>
  BY DEF RPCLogin, Answer, pingerVars
<1>2. CASE UNCHANGED <<holder, rsession, rhistory>>
  <2>1. rsession' = [rsession EXCEPT ![t] = rsession[t]] /\ rsession[t] \in Sessions
    BY <1>2 DEF CallInv, CallTypes
  <2>2. TasksProved'
    BY <1>1, <1>2, <2>1, TaskMoves DEF TaskPCs, CallInv, CallTypes, TasksProved
  <2>3. CallTypes' /\ HolderMatchesHistory' /\ OneLoginAtATime'
    BY <1>1, <1>2 DEF CallInv, CallTypes, TaskPCs, HolderMatchesHistory, OneLoginAtATime
  <2> QED BY <2>2, <2>3 DEF CallCore
<1>3. CASE ~UNCHANGED <<holder, rsession, rhistory>>
  <2>1. /\ rtask[t].token.valid /\ holder = NoSession /\ holder' = rtask[t].token
        /\ rsession' = [rsession EXCEPT ![t] = rtask[t].token]
        /\ rhistory' = Append(rhistory, "login")
    BY <1>3 DEF RPCLogin, MayCreate
  <2>2. rtask[t].token \in RTokens
    <3>1. rtask[t].token \in Sessions
      BY DEF CallInv, CallTypes
    <3>2. ~NoSession.valid
      BY DEF NoSession
    <3> QED BY <2>1, <3>1, <3>2 DEF Sessions
  <2>3. TasksProved'
    BY <1>1, <2>1, <2>2, TaskMoves DEF TaskPCs, Sessions, Verified
  <2>4. rhistory' \in Seq({"login", "logout"}) /\ HolderMatchesHistory' /\ OneLoginAtATime'
    BY <2>1, <2>2, HistoryGrows DEF Sessions
  <2>5. CallTypes'
    BY <1>1, <2>1, <2>2, <2>4 DEF CallInv, CallTypes, TaskPCs, Sessions
  <2> QED BY <2>3, <2>4, <2>5 DEF CallCore
<1> QED BY <1>2, <1>3

LEMMA RPCLogoutKeeps ==
  ASSUME CallInv, NEW t \in RPCTasks, RPCLogout(t)
  PROVE  CallCore'
<1>1. /\ rpc[t] = "started" /\ rpc' = [rpc EXCEPT ![t] = "answer"] /\ holder' = NoSession
      /\ rhistory' = IF holder = NoSession THEN rhistory ELSE Append(rhistory, "logout")
      /\ UNCHANGED <<rloaded, rtask, rsession, rinvoked, latePings>>
  BY DEF RPCLogout, Answer, pingerVars
<1>2. rhistory' \in Seq({"login", "logout"}) /\ HolderMatchesHistory' /\ OneLoginAtATime'
  <2>1. CASE holder = NoSession
    BY <1>1, <2>1 DEF CallInv, CallTypes, HolderMatchesHistory, OneLoginAtATime
  <2>2. CASE holder # NoSession
    BY <1>1, <2>2, HistoryGrows DEF Sessions
  <2> QED BY <2>1, <2>2
<1>3. rsession' = [rsession EXCEPT ![t] = rsession[t]] /\ rsession[t] \in Sessions
  BY <1>1 DEF CallInv, CallTypes
<1>4. TasksProved'
  BY <1>1, <1>3, TaskMoves DEF TaskPCs, Sessions, Verified
<1>5. CallTypes'
  BY <1>1, <1>2 DEF CallInv, CallTypes, TaskPCs, Sessions
<1> QED BY <1>2, <1>4, <1>5 DEF CallCore

LEMMA CheckCallKeeps ==
  ASSUME CallInv, NEW t \in RPCTasks, CheckCall(t)
  PROVE  CallCore'
<1>1. rpc[t] = "loaded" /\ UNCHANGED <<rloaded, holder, rtask, rhistory, rinvoked, latePings>>
  BY DEF CheckCall, pingerVars
<1>2. HolderMatchesHistory' /\ OneLoginAtATime'
  BY <1>1 DEF CallInv, HolderMatchesHistory, OneLoginAtATime
<1>3. PICK q : q = LET x == ExtraToken(rsession[t], rtask[t].token)
                   IN IF x.failed = "" /\ RevokedSession(x.session) THEN NoSession ELSE x.session
  OBVIOUS
<1>4. CASE UNCHANGED <<rsession, rpc>>
  BY <1>1, <1>2, <1>4 DEF CallInv, CallCore, CallTypes, TasksProved, Verified, Proof
<1>5. CASE ~UNCHANGED <<rsession, rpc>>
  <2>1. /\ rsession' = [rsession EXCEPT ![t] = q]
        /\ rpc' = [rpc EXCEPT ![t] = "answer"] \/ rpc' = [rpc EXCEPT ![t] = "invoke"]
    BY <1>3, <1>5 DEF CheckCall, Answer
  <2>2. q \in Sessions
    <3>1. rsession[t] \in Sessions /\ rtask[t].token \in Sessions
      BY DEF CallInv, CallTypes
    <3>2. ExtraToken(rsession[t], rtask[t].token).session \in {rsession[t], rtask[t].token}
      BY DEF ExtraToken
    <3> QED BY <1>3, <3>1, <3>2 DEF Sessions
  <2>3. PICK pc \in {"answer", "invoke"} : rpc' = [rpc EXCEPT ![t] = pc]
    BY <2>1
  <2>4. pc = "invoke" => Proof(t, q)
    <3>1. rpc'[t] = pc /\ rsession'[t] = q
      BY <2>1, <2>3 DEF CallInv, CallTypes
    <3> QED BY <3>1, CheckCallProves
  <2>5. TasksProved'
    BY <1>1, <2>1, <2>2, <2>3, <2>4, TaskMoves DEF TaskPCs, CallInv, CallTypes, TasksProved
  <2>6. CallTypes'
    BY <1>1, <2>1, <2>2, <2>3 DEF CallInv, CallTypes, TaskPCs
  <2> QED BY <1>2, <2>5, <2>6 DEF CallCore
<1> QED BY <1>4, <1>5

LEMMA InvokeCallKeeps ==
  ASSUME CallInv, NEW t \in RPCTasks, InvokeCall(t)
  PROVE  CallCore'
<1>1. /\ rpc[t] = "invoke" /\ rpc' = [rpc EXCEPT ![t] = "answer"]
      /\ rinvoked' = rinvoked \cup {<<t, rsession[t]>>}
      /\ UNCHANGED <<rloaded, holder, rtask, rsession, rhistory, latePings>>
  BY DEF InvokeCall, Answer, pingerVars
<1>2. CallTypes'
  BY <1>1 DEF CallInv, CallTypes, TaskPCs
<1>3. HolderMatchesHistory' /\ OneLoginAtATime'
  BY <1>1 DEF CallInv, HolderMatchesHistory, OneLoginAtATime
<1>4. \A u \in RPCTasks, r \in Sessions : Proof(u, r)' <=> Proof(u, r)
  BY <1>1 DEF Proof
<1>5. Proof(t, rsession[t]) /\ rsession[t] \in Sessions
  BY <1>1 DEF CallInv, CallTypes, TasksProved
<1>6. \A i \in rinvoked' : rpc'[i[1]] \in {"answer", "done"} /\ Proof(i[1], i[2])'
  BY <1>1, <1>4, <1>5 DEF CallInv, CallTypes, TasksProved
<1>7. \A u \in RPCTasks, r \in Sessions : rpc'[u] = "invoke" /\ rsession'[u] = r => Proof(u, r)'
  BY <1>1, <1>4 DEF CallInv, CallTypes, TasksProved
<1>8. \A u \in RPCTasks : rpc'[u] = "loaded" => rsession'[u] = rloaded'[u]
  BY <1>1 DEF CallInv, CallTypes, TasksProved
<1>9. TasksProved'
  BY <1>1, <1>6, <1>7, <1>8 DEF CallInv, TasksProved, Verified
<1> QED BY <1>2, <1>3, <1>9 DEF CallCore

(* A step of somebody else. *)
LEMMA TasksUntouched ==
  ASSUME CallInv, UNCHANGED <<holder, rtask, rpc, rsession, rloaded, rhistory, rinvoked>>,
         latePings' \in Nat
  PROVE  CallCore'
<1>1. CallTypes' /\ HolderMatchesHistory' /\ OneLoginAtATime'
  BY DEF CallInv, CallTypes, HolderMatchesHistory, OneLoginAtATime
<1>2. \A u \in RPCTasks, r \in Sessions : Proof(u, r)' <=> Proof(u, r)
  BY DEF Proof
<1>3. \A i \in rinvoked' : rpc'[i[1]] \in {"answer", "done"} /\ Proof(i[1], i[2])'
  BY <1>2 DEF CallInv, CallTypes, TasksProved
<1>4. TasksProved'
  BY <1>2, <1>3 DEF CallInv, TasksProved, Verified
<1> QED BY <1>1, <1>4 DEF CallCore

LEMMA OtherTaskStepsKeep ==
  ASSUME CallInv, NEW t \in RPCTasks, GetSSOData(t) \/ SendAnswer(t)
  PROVE  CallCore'
<1>1. PICK pc \in {"answer", "done"} : rpc' = [rpc EXCEPT ![t] = pc]
  BY DEF GetSSOData, SendAnswer, Answer
<1>2. UNCHANGED <<rloaded, holder, rtask, rsession, rhistory, rinvoked, latePings>>
  BY DEF GetSSOData, SendAnswer, pingerVars
<1>3. rsession' = [rsession EXCEPT ![t] = rsession[t]] /\ rsession[t] \in Sessions
  BY <1>2 DEF CallInv, CallTypes
<1>4. TasksProved'
  BY <1>1, <1>2, <1>3, TaskMoves DEF TaskPCs, CallInv, CallTypes, TasksProved
<1>5. CallTypes' /\ HolderMatchesHistory' /\ OneLoginAtATime'
  BY <1>1, <1>2 DEF CallInv, CallTypes, TaskPCs, HolderMatchesHistory, OneLoginAtATime
<1> QED BY <1>4, <1>5 DEF CallCore

LEMMA CallInvStep ==
  CallInv /\ [RPCSessionNext \/ PingerNext]_<<sessionVars, pingerVars>> => CallInv'
<1> SUFFICES ASSUME CallInv, [RPCSessionNext \/ PingerNext]_<<sessionVars, pingerVars>>
             PROVE  CallInv'
  OBVIOUS
<1>1. CASE RPCSessionNext
  <2>1. LatePingOver'
    <3>1. UNCHANGED pingerVars
      BY <1>1 DEF RPCSessionNext, TaskRuns, RequestTask, GetSession, RPCLogin, RPCLogout,
         GetSSOData, CheckCall, InvokeCall, SendAnswer, RevokeUser
    <3> QED BY <3>1 DEF pingerVars, CallInv, LatePingOver
  <2>2. ASSUME NEW t \in RPCTasks, NEW tok \in RTokens, RequestTask(t, "login", tok, FALSE)
        PROVE  CallCore'
    BY <2>2, RequestTaskKeeps DEF Sessions, TaskKinds
  <2>3. ASSUME NEW t \in RPCTasks,
               RequestTask(t, "logout", NoSession, FALSE) \/ RequestTask(t, "ssodata", NoSession, FALSE)
        PROVE  CallCore'
    BY <2>3, RequestTaskKeeps DEF Sessions, TaskKinds
  <2>4. ASSUME NEW t \in RPCTasks, NEW tok \in RTokens \cup {NoSession}, NEW needs \in BOOLEAN,
               RequestTask(t, "call", tok, needs)
        PROVE  CallCore'
    BY <2>4, RequestTaskKeeps DEF Sessions, TaskKinds
  <2>5. ASSUME NEW t \in RPCTasks, TaskRuns(t) PROVE CallCore'
    BY <2>5, GetSessionKeeps, RPCLoginKeeps, RPCLogoutKeeps, CheckCallKeeps, InvokeCallKeeps,
       OtherTaskStepsKeep DEF TaskRuns
  <2>6. ASSUME NEW u \in Revocable, RevokeUser(u) PROVE CallCore'
    BY <2>6, TasksUntouched DEF RevokeUser, pingerVars, CallInv, CallTypes
  <2>7. CallCore'
    BY <1>1, <2>2, <2>3, <2>4, <2>5, <2>6 DEF RPCSessionNext
  <2> QED BY <2>1, <2>7 DEF CallInv, CallCore
<1>2. CASE PingerNext \/ UNCHANGED <<sessionVars, pingerVars>>
  <2>1. UNCHANGED sessionVars
    BY <1>2 DEF PingerNext, PingRound, PingOne, PingSent, PingSpurious, FinishPinger, NotifyPinger
  <2>2. latePings' \in Nat /\ LatePingOver'
    BY <1>2 DEF PingerNext, PingRound, PingOne, PingsOn, PingSent, PingSpurious, FinishPinger,
       NotifyPinger, pingerVars, CallInv, CallTypes, LatePingOver
  <2>3. CallCore'
    BY <2>1, <2>2, TasksUntouched DEF sessionVars
  <2> QED BY <2>2, <2>3 DEF CallInv, CallCore
<1> QED BY <1>1, <1>2

(* A task reaches its method through CheckCall only. *)
LEMMA CallStepRefuses ==
  CallInv /\ [RPCSessionNext \/ PingerNext]_<<sessionVars, pingerVars>>
    => [RefusesRevoked]_sessionVars
<1> SUFFICES ASSUME CallInv, [RPCSessionNext \/ PingerNext]_<<sessionVars, pingerVars>>,
                    NEW t \in RPCTasks, rpc'[t] = "invoke", rpc[t] # "invoke"
             PROVE  rsession'[t] = NoSession \/ rsession'[t].user \notin revokedUsers
  BY DEF RefusesRevoked
<1>1. rpc' # rpc
  OBVIOUS
<1>2. RPCSessionNext
  BY <1>1 DEF PingerNext, PingRound, PingOne, PingSent, PingSpurious, FinishPinger, NotifyPinger,
     sessionVars
<1>3. ASSUME NEW u \in RPCTasks, u # t \/ ~CheckCall(u),
             \/ \E kind, tok, needs : RequestTask(u, kind, tok, needs)
             \/ TaskRuns(u)
      PROVE  rpc'[t] # "invoke"
  <2>1. CASE CheckCall(u)
    <3>1. u # t
      BY <1>3, <2>1
    <3>2. rpc' = rpc \/ \E pc : rpc' = [rpc EXCEPT ![u] = pc]
      BY <2>1 DEF CheckCall, Answer
    <3> QED BY <3>1, <3>2 DEF CallInv, CallTypes
  <2>2. CASE ~CheckCall(u)
    <3>1. \E pc \in {"started", "loaded", "answer", "done"} : rpc' = [rpc EXCEPT ![u] = pc]
      BY <1>3, <2>2 DEF TaskRuns, RequestTask, GetSession, RPCLogin, RPCLogout, GetSSOData,
         InvokeCall, SendAnswer, Answer
    <3> QED BY <3>1 DEF CallInv, CallTypes
  <2> QED BY <2>1, <2>2
<1>4. CheckCall(t)
  <2>1. ~\E u \in Revocable : RevokeUser(u)
    BY <1>1 DEF RevokeUser
  <2> QED BY <1>2, <1>3, <2>1 DEF RPCSessionNext
<1> QED BY <1>4, CheckCallProves

(* CallsAuthenticated, for any tasks, tokens and revocations: one login at a time
   between logouts, no method without the proof its session needs, none for a
   session that was revoked before the check, and one late ping at most. *)
THEOREM RPCCallsAuthenticated == RPCSessionSpec => CallsAuthenticated
<1>1. CallInv => OneLoginAtATime /\ InvokedWithProof /\ PingsCease
  BY DEF CallInv, InvokedWithProof, TasksProved, Proof, PingsCease, LatePingOver
<1> QED BY <1>1, CallInvInit, CallInvStep, CallStepRefuses, PTL
       DEF RPCSessionSpec, CallsAuthenticated, RevokedIsRefused

-----------------------------------------------------------------------------
(* The map with shared and exclusive access, for any keys, items and waiters and any finite set of threads. *)

\* The map proper: an absent key has no element, and the items under two keys
\* differ and are allocated.
MapContents ==
    /\ deleted \subseteq added
    /\ \A k \in Keys : k \notin present => item[k] = NoItem /\ readers[k] = 0
    /\ \A k \in Keys : item[k] # NoItem => item[k] \in added \ deleted
    /\ \A k, l \in Keys : item[k] # NoItem /\ item[k] = item[l] => k = l

\* A destroyer sleeps on an element that is still in the map with its item
\* hidden, and nobody else destroys that element or that item.
DestroyerState ==
    \A t \in Threads : Destroying(t) =>
        /\ tkey[t] \in present
        /\ item[tkey[t]] = NoItem
        /\ titem[t] \in added \ deleted
        /\ \A k \in Keys : item[k] # titem[t]
        /\ \A u \in Threads \ {t} : Destroying(u) => titem[u] # titem[t] /\ tkey[u] # tkey[t]

\* A reader's key still leads to the item it opened: the item is under the key,
\* or a destroyer of that key waits with that very item.
ReaderState ==
    \A t \in Threads : Reading(t) =>
        /\ tkey[t] \in present
        /\ titem[t] \in added \ deleted
        /\ \/ item[tkey[t]] = titem[t]
           \/ \E d \in Threads : Destroying(d) /\ tkey[d] = tkey[t] /\ titem[d] = titem[t]

MapInv ==
    /\ TypeOK
    /\ MapContents
    /\ DestroyerState
    /\ ReaderState
    /\ ReaderCountExact
    /\ ReleaseNeverThrows

-----------------------------------------------------------------------------
LEMMA ReadersFinite ==
    ASSUME NEW k PROVE IsFiniteSet(ReadersOf(k))
<1>1. ReadersOf(k) \in SUBSET Threads
  BY DEF ReadersOf
<1> QED BY <1>1, FS_Subset, MapAssumption

\* A counter at zero means that nobody reads.
LEMMA NoReadersAtZero ==
    ASSUME MapInv, NEW k \in Keys, readers[k] = 0, NEW t \in Threads, tkey[t] = k
    PROVE  ~Reading(t)
<1>1. Cardinality(ReadersOf(k)) = 0
  BY DEF MapInv, ReaderCountExact
<1>2. ReadersOf(k) = {}
  BY <1>1, ReadersFinite, FS_EmptySet
<1> QED BY <1>2 DEF ReadersOf

\* And a reader means a counter above zero.
LEMMA ReaderCounted ==
    ASSUME MapInv, NEW t \in Threads, Reading(t)
    PROVE  tkey[t] \in Keys /\ readers[tkey[t]] # 0
<1>1. tkey[t] \in Keys
  BY DEF MapInv, ReaderState, TypeOK
<1> QED BY <1>1, NoReadersAtZero

LEMMA InvInit == Init => MapInv
<1> SUFFICES ASSUME Init PROVE MapInv
  OBVIOUS
<1>1. TypeOK
  BY DEF Init, TypeOK
<1>2. MapContents /\ DestroyerState /\ ReaderState /\ ReleaseNeverThrows
  BY DEF Init, MapContents, DestroyerState, ReaderState, ReleaseNeverThrows, Reading, Destroying
<1>3. ReaderCountExact
  <2> SUFFICES ASSUME NEW k \in Keys PROVE readers[k] = Cardinality(ReadersOf(k))
    BY DEF ReaderCountExact
  <2>1. ReadersOf(k) = {}
    BY DEF Init, ReadersOf, Reading
  <2> QED BY <2>1, FS_EmptySet DEF Init
<1> QED BY <1>1, <1>2, <1>3 DEF MapInv

\* An action that leaves the readers and their keys alone keeps their sets.
LEMMA CountKept ==
    ASSUME MapInv, readers' = readers,
           \A t \in Threads : Reading(t)' <=> Reading(t),
           \A t \in Threads : Reading(t) => tkey'[t] = tkey[t]
    PROVE  ReaderCountExact'
<1> SUFFICES ASSUME NEW k \in Keys PROVE (readers[k] = Cardinality(ReadersOf(k)))'
  BY DEF ReaderCountExact
<1>1. ReadersOf(k)' = ReadersOf(k)
  BY DEF ReadersOf, Reading
<1> QED BY <1>1 DEF MapInv, ReaderCountExact

LEMMA InvAdd ==
    ASSUME MapInv, NEW t \in Threads, NEW k \in Keys, NEW i \in Items, AddElement(t, k, i)
    PROVE  MapInv'
<1> USE MapAssumption DEF MapInv, AddElement, tvars
<1>1. TypeOK' BY DEF TypeOK
<1>2. MapContents' BY DEF TypeOK, MapContents
<1>3. DestroyerState' BY DEF TypeOK, MapContents, DestroyerState, Destroying
<1>4. ReaderState' BY DEF TypeOK, MapContents, ReaderState, Reading, Destroying
<1>5. ReaderCountExact' BY CountKept DEF Reading
<1>6. ReleaseNeverThrows' BY DEF ReleaseNeverThrows
<1> QED BY <1>1, <1>2, <1>3, <1>4, <1>5, <1>6

LEMMA InvOpen ==
    ASSUME MapInv, NEW t \in Threads, NEW k \in Keys, OpenElement(t, k)
    PROVE  MapInv'
<1> USE MapAssumption DEF MapInv, OpenElement
<1>1. TypeOK' BY DEF TypeOK
<1>2. MapContents' BY DEF TypeOK, MapContents
<1>3. DestroyerState' BY DEF TypeOK, DestroyerState, Destroying
<1>4. ReaderState' BY DEF TypeOK, MapContents, ReaderState, Reading, Destroying
<1>5. ReaderCountExact'
  <2> SUFFICES ASSUME NEW l \in Keys PROVE (readers[l] = Cardinality(ReadersOf(l)))'
    BY DEF ReaderCountExact
  <2>1. readers[l] = Cardinality(ReadersOf(l))
    BY DEF ReaderCountExact
  <2>2. CASE l = k
    <3>1. ReadersOf(k)' = ReadersOf(k) \cup {t} /\ t \notin ReadersOf(k)
      BY DEF TypeOK, ReadersOf, Reading
    <3>2. Cardinality(ReadersOf(k)') = Cardinality(ReadersOf(k)) + 1
      BY <3>1, ReadersFinite, FS_AddElement
    <3> QED BY <2>1, <2>2, <3>2 DEF TypeOK
  <2>3. CASE l # k
    <3>1. ReadersOf(l)' = ReadersOf(l)
      BY <2>3 DEF TypeOK, ReadersOf, Reading
    <3> QED BY <2>1, <2>3, <3>1 DEF TypeOK
  <2> QED BY <2>2, <2>3
<1>6. ReleaseNeverThrows' BY DEF TypeOK, ReleaseNeverThrows
<1> QED BY <1>1, <1>2, <1>3, <1>4, <1>5, <1>6

\* What releaseElement does to a thread that reads: the counter is above zero,
\* so the first two alternatives are out of reach.
LEMMA ReleaseCounts ==
    ASSUME MapInv, NEW t \in Threads, ReleaseElement(t)
    PROVE  /\ tkey[t] \in Keys
           /\ readers' = [readers EXCEPT ![tkey[t]] = @ - 1]
           /\ readers[tkey[t]] \in Nat \ {0}
           /\ tpc' \in [Threads -> {"idle", "reading", "wait", "woken"}]
           /\ tpc'[t] = "idle"
           /\ \A u \in Threads \ {t} :
                 /\ Reading(u)' <=> Reading(u)
                 /\ Destroying(u)' <=> Destroying(u)
<1>1. tkey[t] \in Keys /\ readers[tkey[t]] # 0 /\ tkey[t] \in present
  BY ReaderCounted DEF ReleaseElement, MapInv, ReaderState
<1>2. readers[tkey[t]] \in Nat \ {0}
  BY <1>1 DEF MapInv, TypeOK
<1>3. /\ readers' = [readers EXCEPT ![tkey[t]] = @ - 1]
      /\ tpc' = [(IF readers[tkey[t]] = 1 THEN NotifyNoReaders(tkey[t]) ELSE tpc)
                    EXCEPT ![t] = "idle"]
  BY <1>1, <1>2 DEF ReleaseElement
<1>4. tpc \in [Threads -> {"idle", "reading", "wait", "woken"}]
  BY DEF MapInv, TypeOK, ReleaseNeverThrows
<1>5. CASE readers[tkey[t]] = 1
  BY <1>1, <1>2, <1>3, <1>4, <1>5 DEF NotifyNoReaders, Reading, Destroying
<1>6. CASE readers[tkey[t]] # 1
  BY <1>1, <1>2, <1>3, <1>4, <1>6 DEF Reading, Destroying
<1> QED BY <1>5, <1>6

LEMMA InvRelease ==
    ASSUME MapInv, NEW t \in Threads, ReleaseElement(t)
    PROVE  MapInv'
<1>0. /\ tkey[t] \in Keys
      /\ readers' = [readers EXCEPT ![tkey[t]] = @ - 1]
      /\ readers[tkey[t]] \in Nat \ {0}
      /\ tpc' \in [Threads -> {"idle", "reading", "wait", "woken"}]
      /\ tpc'[t] = "idle"
      /\ \A u \in Threads \ {t} :
            /\ Reading(u)' <=> Reading(u)
            /\ Destroying(u)' <=> Destroying(u)
  BY ReleaseCounts
<1>a. UNCHANGED <<present, item, added, deleted, tkey, titem, wpc>> /\ Reading(t)
  BY DEF ReleaseElement
<1>b. ~Destroying(t) /\ ~Destroying(t)' /\ ~Reading(t)'
  BY <1>0, <1>a DEF Reading, Destroying
<1> USE DEF MapInv
<1>1. TypeOK' BY <1>0, <1>a DEF TypeOK
<1>2. MapContents'
  <2>1. tkey[t] \in present
    BY <1>a DEF ReaderState
  <2> QED BY <1>0, <1>a, <2>1 DEF TypeOK, MapContents
<1>3. DestroyerState' BY <1>0, <1>a, <1>b DEF DestroyerState
<1>4. ReaderState' BY <1>0, <1>a, <1>b DEF ReaderState
<1>5. ReaderCountExact'
  <2> SUFFICES ASSUME NEW l \in Keys PROVE (readers[l] = Cardinality(ReadersOf(l)))'
    BY DEF ReaderCountExact
  <2>1. readers[l] = Cardinality(ReadersOf(l))
    BY DEF ReaderCountExact
  <2>2. CASE l = tkey[t]
    <3>1. ReadersOf(l)' = ReadersOf(l) \ {t} /\ t \in ReadersOf(l)
      BY <1>0, <1>a, <1>b, <2>2 DEF ReadersOf
    <3>2. Cardinality(ReadersOf(l)') = Cardinality(ReadersOf(l)) - 1
      BY <3>1, ReadersFinite, FS_RemoveElement
    <3> QED BY <1>0, <2>1, <2>2, <3>2 DEF TypeOK
  <2>3. CASE l # tkey[t]
    <3>1. ReadersOf(l)' = ReadersOf(l)
      BY <1>0, <1>a, <1>b, <2>3 DEF ReadersOf
    <3> QED BY <1>0, <2>1, <2>3, <3>1 DEF TypeOK
  <2> QED BY <2>2, <2>3
<1>6. ReleaseNeverThrows' BY <1>0 DEF ReleaseNeverThrows
<1> QED BY <1>1, <1>2, <1>3, <1>4, <1>5, <1>6

\* Erasing k with its item i, by a thread that is idle afterwards: nobody reads
\* under k, nobody else destroys k or i, and i is under no other key.
LEMMA InvErase ==
    ASSUME MapInv, NEW t \in Threads, NEW k \in Keys, NEW i \in Items,
           k \in present, readers[k] = 0, ~Reading(t),
           i \in added \ deleted,
           \A l \in Keys \ {k} : item[l] # i,
           \A u \in Threads \ {t} : Destroying(u) => tkey[u] # k /\ titem[u] # i,
           Destroying(t) => tkey[t] = k,
           \A u \in Threads : Reading(u) /\ titem[u] = i => tkey[u] = k,
           Erase(k, i), tpc' = [tpc EXCEPT ![t] = "idle"], UNCHANGED <<tkey, titem>>
    PROVE  MapInv'
<1> USE DEF MapInv
<1>0. \A u \in Threads : Reading(u) => tkey[u] # k /\ titem[u] # i
  BY NoReadersAtZero
<1>a. /\ tpc \in [Threads -> {"idle", "reading", "wait", "woken"}]
      /\ tpc' \in [Threads -> {"idle", "reading", "wait", "woken"}]
  BY DEF TypeOK, ReleaseNeverThrows
<1>b. \A u \in Threads : /\ Reading(u)' <=> Reading(u)
                         /\ Destroying(u)' <=> (Destroying(u) /\ u # t)
  BY <1>a DEF Reading, Destroying
<1>c. wpc' \in [Waiters -> {"idle", "wait", "woken"}]
  BY DEF Erase, NotifyEmpty, TypeOK
<1>d. /\ deleted' = deleted \cup {i} /\ present' = present \ {k} /\ added' = added
      /\ item' = [item EXCEPT ![k] = NoItem] /\ readers' = [readers EXCEPT ![k] = 0]
  BY DEF Erase
<1>1. TypeOK' BY <1>a, <1>c, <1>d DEF TypeOK
<1>2. MapContents' BY <1>d DEF TypeOK, MapContents
<1>3. DestroyerState'
  BY <1>b, <1>d, MapAssumption DEF TypeOK, MapContents, DestroyerState
<1>4. ReaderState'
  <2> SUFFICES ASSUME NEW u \in Threads, Reading(u)
               PROVE  /\ tkey[u] \in present' /\ titem[u] \in added' \ deleted'
                      /\ \/ item'[tkey[u]] = titem[u]
                         \/ \E d \in Threads : Destroying(d)' /\ tkey[d] = tkey[u] /\ titem[d] = titem[u]
    BY <1>b DEF ReaderState
  <2>1. tkey[u] # k /\ titem[u] # i /\ tkey[u] \in present /\ tkey[u] \in Keys
    BY <1>0 DEF ReaderState, TypeOK
  <2>2. titem[u] \in added' \ deleted' /\ tkey[u] \in present'
    BY <1>d, <2>1 DEF ReaderState
  <2>3. CASE item[tkey[u]] = titem[u]
    BY <1>d, <2>1, <2>2, <2>3 DEF TypeOK
  <2>4. ASSUME NEW d \in Threads, Destroying(d), tkey[d] = tkey[u], titem[d] = titem[u]
        PROVE  \/ item'[tkey[u]] = titem[u]
               \/ \E e \in Threads : Destroying(e)' /\ tkey[e] = tkey[u] /\ titem[e] = titem[u]
    <3>1. CASE d # t
      BY <1>b, <2>4, <3>1
    <3>2. CASE d = t
      BY <2>1, <2>4, <3>2
    <3> QED BY <3>1, <3>2
  <2> QED BY <2>2, <2>3, <2>4 DEF ReaderState
<1>5. ReaderCountExact'
  <2> SUFFICES ASSUME NEW l \in Keys PROVE (readers[l] = Cardinality(ReadersOf(l)))'
    BY DEF ReaderCountExact
  <2>1. ReadersOf(l)' = ReadersOf(l)
    BY <1>b DEF ReadersOf
  <2> QED BY <1>d, <2>1 DEF ReaderCountExact, TypeOK
<1>6. ReleaseNeverThrows' BY <1>a DEF ReleaseNeverThrows
<1> QED BY <1>1, <1>2, <1>3, <1>4, <1>5, <1>6

LEMMA InvDestroy ==
    ASSUME MapInv, NEW t \in Threads, NEW k \in Keys, DestroyElement(t, k)
    PROVE  MapInv'
<1> USE DEF MapInv
<1>0. tpc[t] = "idle" /\ k \in present /\ item[k] # NoItem /\ ~Reading(t) /\ ~Destroying(t)
  BY DEF DestroyElement, Reading, Destroying
<1>i. item[k] \in Items /\ item[k] \in added \ deleted
  BY <1>0 DEF TypeOK, MapContents
<1>r. \A u \in Threads : Reading(u) /\ titem[u] = item[k] => tkey[u] = k
  BY <1>0 DEF ReaderState, DestroyerState, MapContents, TypeOK
<1>1. CASE readers[k] = 0
  <2>1. Erase(k, item[k]) /\ UNCHANGED tvars
    BY <1>1 DEF DestroyElement
  <2>2. tpc' = [tpc EXCEPT ![t] = "idle"] /\ UNCHANGED <<tkey, titem>>
    BY <1>0, <2>1 DEF tvars, TypeOK
  <2>3. \A u \in Threads \ {t} : Destroying(u) => tkey[u] # k /\ titem[u] # item[k]
    BY <1>0 DEF DestroyerState
  <2>4. \A l \in Keys \ {k} : item[l] # item[k]
    BY <1>0 DEF MapContents
  <2> QED BY <1>0, <1>i, <1>r, <1>1, <2>1, <2>2, <2>3, <2>4, InvErase
<1>2. CASE readers[k] # 0
  <2>0. /\ item' = [item EXCEPT ![k] = NoItem]
        /\ tpc' = [tpc EXCEPT ![t] = "wait"]
        /\ tkey' = [tkey EXCEPT ![t] = k]
        /\ titem' = [titem EXCEPT ![t] = item[k]]
        /\ UNCHANGED <<present, readers, added, deleted, wpc>>
    BY <1>2 DEF DestroyElement
  <2>a. /\ Destroying(t)' /\ ~Reading(t)' /\ tkey'[t] = k /\ titem'[t] = item[k]
        /\ \A u \in Threads \ {t} :
              /\ tkey'[u] = tkey[u] /\ titem'[u] = titem[u]
              /\ Reading(u)' <=> Reading(u)
              /\ Destroying(u)' <=> Destroying(u)
    BY <2>0 DEF Reading, Destroying, TypeOK
  <2>1. TypeOK' BY <1>i, <2>0 DEF TypeOK
  <2>2. MapContents' BY <2>0 DEF TypeOK, MapContents
  <2>3. DestroyerState'
    <3> SUFFICES ASSUME NEW u \in Threads, Destroying(u)'
                 PROVE  /\ tkey'[u] \in present'
                        /\ item'[tkey'[u]] = NoItem
                        /\ titem'[u] \in added' \ deleted'
                        /\ \A l \in Keys : item'[l] # titem'[u]
                        /\ \A v \in Threads \ {u} :
                              Destroying(v)' => titem'[v] # titem'[u] /\ tkey'[v] # tkey'[u]
      BY DEF DestroyerState
    <3>1. CASE u = t
      <4>1. \A l \in Keys : item'[l] # item[k]
        BY <1>0, <2>0 DEF TypeOK, MapContents
      <4>2. \A v \in Threads \ {t} : Destroying(v) => titem[v] # item[k] /\ tkey[v] # k
        BY <1>0 DEF DestroyerState
      <4> QED BY <1>0, <1>i, <2>0, <2>a, <3>1, <4>1, <4>2 DEF TypeOK
    <3>2. CASE u # t
      <4>1. Destroying(u) /\ tkey'[u] = tkey[u] /\ titem'[u] = titem[u]
        BY <2>a, <3>2
      <4>2. tkey[u] \in Keys /\ titem[u] \in Items
        BY <4>1 DEF DestroyerState, TypeOK
      <4>3. tkey[u] # k /\ titem[u] # item[k]
        BY <1>0, <4>1 DEF DestroyerState
      <4>4. \A l \in Keys : item'[l] # titem[u]
        BY <2>0, <4>1, <4>2, MapAssumption DEF DestroyerState, TypeOK
      <4> QED BY <2>0, <2>a, <4>1, <4>2, <4>3, <4>4 DEF DestroyerState, TypeOK
    <3> QED BY <3>1, <3>2
  <2>4. ReaderState'
    <3> SUFFICES ASSUME NEW u \in Threads, Reading(u)'
                 PROVE  /\ tkey'[u] \in present'
                        /\ titem'[u] \in added' \ deleted'
                        /\ \/ item'[tkey'[u]] = titem'[u]
                           \/ \E d \in Threads : Destroying(d)' /\ tkey'[d] = tkey'[u] /\ titem'[d] = titem'[u]
      BY DEF ReaderState
    <3>1. u # t /\ Reading(u) /\ tkey'[u] = tkey[u] /\ titem'[u] = titem[u]
      BY <2>a
    <3>2. tkey[u] \in present /\ titem[u] \in added \ deleted /\ tkey[u] \in Keys
      BY <3>1 DEF ReaderState, TypeOK
    <3>3. CASE tkey[u] = k /\ item[k] = titem[u]
      BY <2>0, <2>a, <3>1, <3>2, <3>3
    <3>4. CASE tkey[u] # k /\ item[tkey[u]] = titem[u]
      BY <2>0, <3>1, <3>2, <3>4 DEF TypeOK
    <3>5. ASSUME NEW d \in Threads, Destroying(d), tkey[d] = tkey[u], titem[d] = titem[u]
          PROVE  \E e \in Threads : Destroying(e)' /\ tkey'[e] = tkey'[u] /\ titem'[e] = titem'[u]
      BY <1>0, <2>a, <3>1, <3>5
    <3> QED BY <2>0, <3>1, <3>2, <3>3, <3>4, <3>5 DEF ReaderState
  <2>5. ReaderCountExact' BY <1>0, <2>0, <2>a, CountKept
  <2>6. ReleaseNeverThrows' BY <2>0 DEF ReleaseNeverThrows, TypeOK
  <2> QED BY <2>1, <2>2, <2>3, <2>4, <2>5, <2>6
<1> QED BY <1>1, <1>2

\* A change between "wait" and "woken" of one destroyer, and of the waiters.
LEMMA InvWake ==
    ASSUME MapInv, UNCHANGED <<mvars, tkey, titem>>,
           wpc' \in [Waiters -> {"idle", "wait", "woken"}],
           tpc' = tpc \/ \E t \in Threads : /\ Destroying(t)
                                            /\ \E s \in {"wait", "woken"} : tpc' = [tpc EXCEPT ![t] = s]
    PROVE  MapInv'
<1> USE DEF MapInv, mvars
<1>1. \A u \in Threads : (Reading(u)' <=> Reading(u)) /\ (Destroying(u)' <=> Destroying(u))
  BY DEF Reading, Destroying, TypeOK
<1>2. TypeOK' BY DEF TypeOK
<1>3. MapContents' BY DEF MapContents
<1>4. DestroyerState' BY <1>1 DEF DestroyerState
<1>5. ReaderState' BY <1>1 DEF ReaderState
<1>6. ReaderCountExact' BY <1>1, CountKept
<1>7. ReleaseNeverThrows' BY DEF ReleaseNeverThrows, TypeOK
<1> QED BY <1>2, <1>3, <1>4, <1>5, <1>6, <1>7

LEMMA InvResume ==
    ASSUME MapInv, NEW t \in Threads, DestroyResume(t)
    PROVE  MapInv'
<1> USE DEF MapInv
<1>0. Destroying(t) /\ ~Reading(t)
  BY DEF DestroyResume, Destroying, Reading
<1>1. CASE readers[tkey[t]] = 0
  <2>1. tkey[t] \in Keys /\ tkey[t] \in present /\ titem[t] \in Items /\ titem[t] \in added \ deleted
    BY <1>0 DEF DestroyerState, TypeOK
  <2>2. \A l \in Keys \ {tkey[t]} : item[l] # titem[t]
    BY <1>0 DEF DestroyerState
  <2>3. \A u \in Threads \ {t} : Destroying(u) => tkey[u] # tkey[t] /\ titem[u] # titem[t]
    BY <1>0 DEF DestroyerState
  <2>4. \A u \in Threads : Reading(u) /\ titem[u] = titem[t] => tkey[u] = tkey[t]
    <3> SUFFICES ASSUME NEW u \in Threads, Reading(u), titem[u] = titem[t]
                 PROVE  tkey[u] = tkey[t]
      OBVIOUS
    <3>1. tkey[u] \in Keys /\ item[tkey[u]] # titem[u]
      BY <1>0 DEF ReaderState, DestroyerState, TypeOK
    <3>2. PICK d \in Threads : Destroying(d) /\ tkey[d] = tkey[u] /\ titem[d] = titem[u]
      BY <3>1 DEF ReaderState
    <3> QED BY <2>3, <3>2
  <2>5. Erase(tkey[t], titem[t]) /\ tpc' = [tpc EXCEPT ![t] = "idle"] /\ UNCHANGED <<tkey, titem>>
    BY <1>1 DEF DestroyResume
  <2> QED BY <1>0, <1>1, <2>1, <2>2, <2>3, <2>4, <2>5, InvErase
<1>2. CASE readers[tkey[t]] # 0
  BY <1>0, <1>2, InvWake DEF DestroyResume, TypeOK
<1> QED BY <1>1, <1>2

LEMMA InvStep == MapInv /\ [Next]_vars => MapInv'
<1> SUFFICES ASSUME MapInv, [Next]_vars PROVE MapInv'
  OBVIOUS
<1>1. ASSUME NEW t \in Threads, DestroySpurious(t) PROVE MapInv'
  BY <1>1, InvWake DEF DestroySpurious, Destroying, MapInv, TypeOK
<1>2. ASSUME NEW w \in Waiters,
             WaitForEmptyMap(w) \/ WaitForEmptyResume(w) \/ WaitForEmptySpurious(w)
      PROVE  MapInv'
  BY <1>2, InvWake
  DEF WaitForEmptyMap, WaitForEmptyResume, WaitForEmptySpurious, MapInv, TypeOK, tvars
<1>3. CASE UNCHANGED vars
  BY <1>3, InvWake DEF vars, mvars, MapInv, TypeOK
<1> QED
  BY <1>1, <1>2, <1>3, InvAdd, InvOpen, InvRelease, InvDestroy, InvResume DEF Next

\* The inductive invariant holds in every behaviour of the map.
THEOREM MapInvariant == Spec => []MapInv
  BY InvInit, InvStep, PTL DEF Spec

\* No reader ever holds a freed object.
THEOREM MapNoUseAfterFree == Spec => []NoUseAfterFree
<1>1. MapInv => NoUseAfterFree
  BY DEF MapInv, ReaderState, NoUseAfterFree
<1> QED BY MapInvariant, <1>1, PTL

\* numReaders counts exactly the threads that hold the element.
THEOREM MapReaderCountExact == Spec => []ReaderCountExact
<1>1. MapInv => ReaderCountExact
  BY DEF MapInv
<1> QED BY MapInvariant, <1>1, PTL

\* A thread that releases what it opened never meets the exception.
THEOREM MapReleaseNeverThrows == Spec => []ReleaseNeverThrows
<1>1. MapInv => ReleaseNeverThrows
  BY DEF MapInv
<1> QED BY MapInvariant, <1>1, PTL

\* An object under destruction has one destroyer and is still allocated.
THEOREM MapSingleDestroyer == Spec => []SingleDestroyer
<1>1. MapInv => SingleDestroyer
  BY DEF MapInv, DestroyerState, SingleDestroyer
<1> QED BY MapInvariant, <1>1, PTL
-----------------------------------------------------------------------------
(* SafeMap implements ItemLifetime.                                        *)

\* A step that changes the status of one item and the users of none, or the
\* users of one item by one thread and no status, or nothing.
StatusStep(i, v) ==
    /\ StatusOf(i)' = v
    /\ \A j \in Items \ {i} : StatusOf(j)' = StatusOf(j)
    /\ \A j \in Items : UsersOf(j)' = UsersOf(j)

UsersStep(i, S) ==
    /\ UsersOf(i)' = S
    /\ \A j \in Items \ {i} : UsersOf(j)' = UsersOf(j)
    /\ \A j \in Items : StatusOf(j)' = StatusOf(j)

NoStep ==
    /\ \A j \in Items : StatusOf(j)' = StatusOf(j)
    /\ \A j \in Items : UsersOf(j)' = UsersOf(j)

LEMMA StatusValues ==
    ASSUME MapInv, NEW i \in Items
    PROVE  /\ i \in deleted <=> StatusOf(i) = "reclaimed"
           /\ i \notin added <=> StatusOf(i) = "new"
           /\ (\E k \in Keys : item[k] = i) <=> StatusOf(i) = "published"
  BY MapAssumption DEF StatusOf, MapInv, MapContents

LEMMA RefineAdd ==
    ASSUME MapInv, NEW t \in Threads, NEW k \in Keys, NEW i \in Items, AddElement(t, k, i)
    PROVE  StatusOf(i) = "new" /\ StatusStep(i, "published")
<1>1. i \notin added /\ i \notin deleted /\ item[k] = NoItem
  BY DEF AddElement, MapInv, MapContents
<1>2. StatusOf(i) = "new" /\ StatusOf(i)' = "published"
  BY <1>1 DEF AddElement, StatusOf, MapInv, TypeOK
<1>3. ASSUME NEW j \in Items \ {i} PROVE StatusOf(j)' = StatusOf(j)
  <2>1. (\E l \in Keys : item'[l] = j) <=> (\E l \in Keys : item[l] = j)
    BY <1>1, <1>3, MapAssumption DEF AddElement, MapInv, TypeOK
  <2> QED BY <1>3, <2>1 DEF AddElement, StatusOf
<1>4. \A j \in Items : UsersOf(j)' = UsersOf(j)
  BY DEF AddElement, tvars, UsersOf, Reading
<1> QED BY <1>2, <1>3, <1>4 DEF StatusStep

LEMMA RefineOpen ==
    ASSUME MapInv, NEW t \in Threads, NEW k \in Keys, OpenElement(t, k)
    PROVE  /\ item[k] \in Items /\ StatusOf(item[k]) = "published"
           /\ \A j \in Items : t \notin UsersOf(j)
           /\ UsersStep(item[k], UsersOf(item[k]) \cup {t})
<1>1. item[k] \in Items /\ tpc[t] = "idle"
  BY DEF OpenElement, MapInv, TypeOK
<1>2. StatusOf(item[k]) = "published"
  BY <1>1, StatusValues
<1>3. \A j \in Items : StatusOf(j)' = StatusOf(j)
  BY DEF OpenElement, StatusOf
<1>4. \A j \in Items : t \notin UsersOf(j)
  BY <1>1 DEF UsersOf, Reading
<1>5. \A u \in Threads : /\ u # t => (Reading(u)' <=> Reading(u)) /\ titem'[u] = titem[u]
                         /\ Reading(t)' /\ titem'[t] = item[k]
  BY DEF OpenElement, Reading, MapInv, TypeOK
<1>6. UsersOf(item[k])' = UsersOf(item[k]) \cup {t}
  BY <1>5 DEF UsersOf, OpenElement
<1>7. \A j \in Items \ {item[k]} : UsersOf(j)' = UsersOf(j)
  BY <1>4, <1>5 DEF UsersOf
<1> QED BY <1>1, <1>2, <1>3, <1>4, <1>6, <1>7 DEF UsersStep

LEMMA RefineRelease ==
    ASSUME MapInv, NEW t \in Threads, ReleaseElement(t)
    PROVE  /\ titem[t] \in Items /\ t \in UsersOf(titem[t])
           /\ UsersStep(titem[t], UsersOf(titem[t]) \ {t})
<1>1. titem[t] \in Items /\ Reading(t)
  BY DEF ReleaseElement, MapInv, ReaderState, TypeOK
<1>2. /\ ~Reading(t)'
      /\ \A u \in Threads \ {t} : Reading(u)' <=> Reading(u)
  BY ReleaseCounts DEF Reading
<1>3. UNCHANGED <<item, added, deleted, titem>>
  BY DEF ReleaseElement
<1>4. \A j \in Items : StatusOf(j)' = StatusOf(j)
  BY <1>3 DEF StatusOf
<1>5. t \in UsersOf(titem[t])
  BY <1>1 DEF UsersOf
<1>6. UsersOf(titem[t])' = UsersOf(titem[t]) \ {t}
  BY <1>2, <1>3 DEF UsersOf
<1>7. \A j \in Items \ {titem[t]} : UsersOf(j)' = UsersOf(j)
  BY <1>2, <1>3 DEF UsersOf
<1> QED BY <1>1, <1>4, <1>5, <1>6, <1>7 DEF UsersStep

\* Erasing a key whose item nobody reads reclaims the item.
LEMMA RefineErase ==
    ASSUME MapInv, NEW k \in Keys, NEW i \in Items, Erase(k, i),
           item[k] \in {i, NoItem}, i \in added \ deleted,
           \A j \in Items : UsersOf(j)' = UsersOf(j)
    PROVE  StatusOf(i) \in {"published", "retired"} /\ StatusStep(i, "reclaimed")
<1>1. StatusOf(i) \in {"published", "retired"}
  BY DEF StatusOf
<1>2. StatusOf(i)' = "reclaimed"
  BY DEF Erase, StatusOf
<1>3. ASSUME NEW j \in Items \ {i} PROVE StatusOf(j)' = StatusOf(j)
  <2>1. (\E l \in Keys : item'[l] = j) <=> (\E l \in Keys : item[l] = j)
    BY <1>3, MapAssumption DEF Erase, MapInv, TypeOK
  <2>2. (j \in deleted' <=> j \in deleted) /\ added' = added
    BY <1>3 DEF Erase
  <2> QED BY <2>1, <2>2 DEF StatusOf
<1> QED BY <1>1, <1>2, <1>3 DEF StatusStep

LEMMA RefineDestroy ==
    ASSUME MapInv, NEW t \in Threads, NEW k \in Keys, DestroyElement(t, k),
           NEW i \in Items, item[k] = i
    PROVE  \/ /\ StatusOf(i) = "published"
              /\ StatusStep(i, "retired")
           \/ /\ StatusOf(i) \in {"published", "retired"}
              /\ UsersOf(i) = {}
              /\ StatusStep(i, "reclaimed")
<1>0. tpc[t] = "idle" /\ item[k] # NoItem /\ item[k] \in Items /\ item[k] \in added \ deleted
  BY DEF DestroyElement, MapInv, MapContents, TypeOK
<1>1. CASE readers[k] = 0
  <2>1. Erase(k, i) /\ UNCHANGED tvars
    BY <1>1 DEF DestroyElement
  <2>2. \A j \in Items : UsersOf(j)' = UsersOf(j)
    BY <2>1 DEF tvars, UsersOf, Reading
  <2>3. \A u \in Threads : Reading(u) /\ titem[u] = i => tkey[u] = k
    BY <1>0 DEF MapInv, ReaderState, DestroyerState, MapContents, TypeOK
  <2>4. UsersOf(i) = {}
    BY <1>1, <2>3, NoReadersAtZero DEF UsersOf
  <2> QED BY <1>0, <2>1, <2>2, <2>4, RefineErase
<1>2. CASE readers[k] # 0
  <2>0. /\ item' = [item EXCEPT ![k] = NoItem]
        /\ tpc' = [tpc EXCEPT ![t] = "wait"]
        /\ titem' = [titem EXCEPT ![t] = item[k]]
        /\ UNCHANGED <<added, deleted>>
    BY <1>2 DEF DestroyElement
  <2>1. \A j \in Items : UsersOf(j)' = UsersOf(j)
    <3>1. \A u \in Threads : /\ Reading(u)' <=> Reading(u)
                             /\ Reading(u) => titem'[u] = titem[u]
      BY <1>0, <2>0 DEF Reading, MapInv, TypeOK
    <3> QED BY <3>1 DEF UsersOf
  <2>2. StatusOf(i) = "published"
    BY <1>0, StatusValues
  <2>3. \A l \in Keys : item'[l] # i
    BY <1>0, <2>0 DEF MapInv, MapContents, TypeOK
  <2>4. StatusOf(i)' = "retired"
    BY <1>0, <2>0, <2>3 DEF StatusOf
  <2>5. ASSUME NEW j \in Items \ {i} PROVE StatusOf(j)' = StatusOf(j)
    <3>1. (\E l \in Keys : item'[l] = j) <=> (\E l \in Keys : item[l] = j)
      BY <2>0, <2>5, MapAssumption DEF MapInv, TypeOK
    <3> QED BY <2>0, <3>1 DEF StatusOf
  <2> QED BY <1>0, <2>1, <2>2, <2>4, <2>5 DEF StatusStep
<1> QED BY <1>1, <1>2

LEMMA RefineResume ==
    ASSUME MapInv, NEW t \in Threads, DestroyResume(t)
    PROVE  \/ NoStep
           \/ /\ titem[t] \in Items
              /\ StatusOf(titem[t]) \in {"published", "retired"}
              /\ UsersOf(titem[t]) = {}
              /\ StatusStep(titem[t], "reclaimed")
<1>0. tpc[t] = "woken" /\ Destroying(t) /\ UNCHANGED <<tkey, titem>>
  BY DEF DestroyResume, Destroying
<1>1. CASE readers[tkey[t]] = 0
  <2>0. Erase(tkey[t], titem[t]) /\ tpc' = [tpc EXCEPT ![t] = "idle"]
    BY <1>1 DEF DestroyResume
  <2>1. /\ tkey[t] \in Keys /\ titem[t] \in Items /\ titem[t] \in added \ deleted
        /\ item[tkey[t]] = NoItem
    BY <1>0 DEF MapInv, DestroyerState, TypeOK
  <2>2. ASSUME NEW u \in Threads, Reading(u), titem[u] = titem[t] PROVE FALSE
    <3>1. tkey[u] \in Keys /\ item[tkey[u]] # titem[u]
      BY <1>0, <2>2 DEF MapInv, ReaderState, DestroyerState, TypeOK
    <3>2. PICK d \in Threads : Destroying(d) /\ tkey[d] = tkey[u] /\ titem[d] = titem[u]
      BY <2>2, <3>1 DEF MapInv, ReaderState
    <3>3. tkey[u] = tkey[t]
      BY <1>0, <2>2, <3>2 DEF MapInv, DestroyerState
    <3> QED BY <1>1, <2>1, <2>2, <3>3, NoReadersAtZero
  <2>3. UsersOf(titem[t]) = {}
    BY <2>2 DEF UsersOf
  <2>4. \A j \in Items : UsersOf(j)' = UsersOf(j)
    <3>1. \A u \in Threads : Reading(u)' <=> Reading(u)
      BY <1>0, <2>0 DEF Reading, MapInv, TypeOK
    <3> QED BY <1>0, <3>1 DEF UsersOf
  <2> QED BY <2>0, <2>1, <2>3, <2>4, RefineErase
<1>2. CASE readers[tkey[t]] # 0
  <2>1. UNCHANGED mvars /\ tpc' = [tpc EXCEPT ![t] = "wait"]
    BY <1>2 DEF DestroyResume
  <2>2. \A u \in Threads : Reading(u)' <=> Reading(u)
    BY <1>0, <2>1 DEF Reading, MapInv, TypeOK
  <2> QED BY <1>0, <2>1, <2>2 DEF NoStep, StatusOf, UsersOf, mvars
<1> QED BY <1>1, <1>2

\* Each of the three kinds of change is a step of ItemLifetime or a stutter.
LEMMA StepsOfLifetime ==
    /\ \A i \in Items : StatusOf(i) = "new" /\ StatusStep(i, "published") => Lifetime!Next
    /\ \A i \in Items : StatusOf(i) = "published" /\ StatusStep(i, "retired") => Lifetime!Next
    /\ \A i \in Items : /\ StatusOf(i) \in {"published", "retired"} /\ UsersOf(i) = {}
                        /\ StatusStep(i, "reclaimed")
                        => Lifetime!Next
    /\ \A i \in Items, t \in Threads :
           /\ StatusOf(i) = "published" /\ \A j \in Items : t \notin UsersOf(j)
           /\ UsersStep(i, UsersOf(i) \cup {t})
           => Lifetime!Next
    /\ \A i \in Items, t \in Threads :
           t \in UsersOf(i) /\ UsersStep(i, UsersOf(i) \ {t}) => Lifetime!Next
<1> DEFINE st == [i \in Items |-> StatusOf(i)]
           us == [i \in Items |-> UsersOf(i)]
<1>1. ASSUME NEW i \in Items, NEW v, StatusStep(i, v)
      PROVE  /\ [j \in Items |-> StatusOf(j)'] = [st EXCEPT ![i] = v]
             /\ [j \in Items |-> UsersOf(j)'] = us
  BY <1>1 DEF StatusStep
<1>2. ASSUME NEW i \in Items, NEW S, UsersStep(i, S)
      PROVE  /\ [j \in Items |-> UsersOf(j)'] = [us EXCEPT ![i] = S]
             /\ [j \in Items |-> StatusOf(j)'] = st
  BY <1>2 DEF UsersStep
<1>3. ASSUME NEW i \in Items, StatusOf(i) = "new", StatusStep(i, "published")
      PROVE  Lifetime!Publish(i)
  BY <1>1, <1>3 DEF Lifetime!Publish
<1>4. ASSUME NEW i \in Items, StatusOf(i) = "published", StatusStep(i, "retired")
      PROVE  Lifetime!Retire(i)
  BY <1>1, <1>4 DEF Lifetime!Retire
<1>5. ASSUME NEW i \in Items, StatusOf(i) \in {"published", "retired"}, UsersOf(i) = {},
             StatusStep(i, "reclaimed")
      PROVE  Lifetime!Reclaim(i)
  BY <1>1, <1>5 DEF Lifetime!Reclaim
<1>6. ASSUME NEW i \in Items, NEW t \in Threads, StatusOf(i) = "published",
             \A j \in Items : t \notin UsersOf(j), UsersStep(i, UsersOf(i) \cup {t})
      PROVE  Lifetime!Borrow(t, i)
  BY <1>2, <1>6 DEF Lifetime!Borrow
<1>7. ASSUME NEW i \in Items, NEW t \in Threads, t \in UsersOf(i), UsersStep(i, UsersOf(i) \ {t})
      PROVE  Lifetime!Return(t, i)
  BY <1>2, <1>7 DEF Lifetime!Return
<1> HIDE DEF st, us
<1> QED BY <1>3, <1>4, <1>5, <1>6, <1>7 DEF Lifetime!Next

LEMMA NoStepStutters ==
    ASSUME NoStep
    PROVE  UNCHANGED <<[i \in Items |-> StatusOf(i)], [i \in Items |-> UsersOf(i)]>>
  BY DEF NoStep

\* Every behaviour of the map is one of ItemLifetime.
THEOREM MapImplementsLifetime == Spec => ImplementsLifetime
<1>1. Init => Lifetime!Init
  BY DEF Init, Lifetime!Init, StatusOf, UsersOf, Reading
<1>2. ASSUME MapInv, [Next]_vars
      PROVE  [Lifetime!Next]_<<[i \in Items |-> StatusOf(i)], [i \in Items |-> UsersOf(i)]>>
  <2>1. ASSUME UNCHANGED <<mvars, titem>>, \A u \in Threads : Reading(u)' <=> Reading(u)
        PROVE  NoStep
    BY <2>1 DEF NoStep, StatusOf, UsersOf, mvars
  <2>2. ASSUME NEW t \in Threads, DestroySpurious(t) PROVE NoStep
    <3>1. \A u \in Threads : Reading(u)' <=> Reading(u)
      BY <1>2, <2>2 DEF DestroySpurious, Reading, MapInv, TypeOK
    <3> QED BY <2>1, <2>2, <3>1 DEF DestroySpurious
  <2>3. ASSUME NEW w \in Waiters,
               WaitForEmptyMap(w) \/ WaitForEmptyResume(w) \/ WaitForEmptySpurious(w)
        PROVE  NoStep
    <3>1. UNCHANGED <<mvars, tpc, titem>>
      BY <2>3 DEF WaitForEmptyMap, WaitForEmptyResume, WaitForEmptySpurious, tvars
    <3> QED BY <2>1, <3>1 DEF Reading
  <2>4. CASE UNCHANGED vars
    <3>1. NoStep
      BY <2>1, <2>4 DEF vars, mvars, Reading
    <3> QED BY <3>1, NoStepStutters
  <2>5. ASSUME NEW t \in Threads, NEW k \in Keys, NEW i \in Items, AddElement(t, k, i)
        PROVE  Lifetime!Next
    BY <1>2, <2>5, RefineAdd, StepsOfLifetime
  <2>6. ASSUME NEW t \in Threads, NEW k \in Keys, OpenElement(t, k) PROVE Lifetime!Next
    BY <1>2, <2>6, RefineOpen, StepsOfLifetime
  <2>7. ASSUME NEW t \in Threads, ReleaseElement(t) PROVE Lifetime!Next
    BY <1>2, <2>7, RefineRelease, StepsOfLifetime
  <2>8. ASSUME NEW t \in Threads, NEW k \in Keys, DestroyElement(t, k) PROVE Lifetime!Next
    <3>1. item[k] \in Items
      BY <1>2, <2>8 DEF DestroyElement, MapInv, TypeOK
    <3>2. PICK i \in Items : i = item[k]
      BY <3>1
    <3> QED BY <1>2, <2>8, <3>2, RefineDestroy, StepsOfLifetime
  <2>9. ASSUME NEW t \in Threads, DestroyResume(t) PROVE Lifetime!Next \/ NoStep
    BY <1>2, <2>9, RefineResume, StepsOfLifetime
  <2> QED
    BY <1>2, <2>2, <2>3, <2>4, <2>5, <2>6, <2>7, <2>8, <2>9, NoStepStutters DEF Next
<1> QED BY MapInvariant, <1>1, <1>2, PTL DEF Spec, ImplementsLifetime, Lifetime!Spec

-----------------------------------------------------------------------------
(* The start of a service, for any number of programs that share the key files and any configurations. The inductive        *)
(* invariant adds to the properties which sockets a program has at every stage, that only a program without the API server  *)
(* uses the files, and how far the files are while a program creates them. *)

(* The invariant. *)

SvFields == {"pc", "conf", "role", "socks", "signer", "validator", "answer", "newKey", "dirs", "routes"}
FileStages == HmacStages \cup RsaStages \cup {"hmacOpen", "hmacRead", "rsaOpen", "rsaCheck", "rsaRead"}
KeyStages == FileStages \cup {"key", "syncConfig", "syncKey"}
Down == {"off", "failed"}
SvPcs == KeyStages \cup Down \cup {"listen", "resources", "accept", "running"}
SvJWTs == [alg : {"none", "HS", "RS"}, key : Nat]

StartTypes ==
  /\ svFile \in [SvFiles -> [there : BOOLEAN, content : Nat, secure : BOOLEAN]]
  /\ svServer \in [alg : {"HS", "RS"}, key : Nat]
  /\ svKeys \in Nat /\ svOverlap \in BOOLEAN
  /\ svMade \subseteq {"signer", "validator"} \X SvJWTs
  /\ DOMAIN svProgram = SvPrograms
  /\ \A p \in SvPrograms :
       /\ DOMAIN svProgram[p] = SvFields
       /\ svProgram[p].pc \in SvPcs /\ svProgram[p].role \in {"signer", "validator"}
       /\ svProgram[p].validator \in SvJWTs
       /\ svProgram[p].answer \in {"none", "HS", "RS"} /\ svProgram[p].newKey \in Nat

(* The sockets of a program are the listeners of its configuration, the first ones
   while it opens them and all of them afterwards. *)
Listeners(conf, n) == {conf.listeners[i] : i \in 1..n}
SocketsConfigured ==
  \A p \in SvPrograms :
    LET s == svProgram[p]
    IN /\ svPlan = <<>> \/ svPlan \in SvPlans
       /\ s.pc \in Down => s.socks = {}
       /\ s.pc \notin Down => svPlan # <<>> /\ s.conf = svPlan[p]
       /\ s.pc = "listen" => /\ IsFiniteSet(s.socks) /\ Cardinality(s.socks) <= Len(s.conf.listeners)
                             /\ s.socks = Listeners(s.conf, Cardinality(s.socks))
       /\ s.pc \notin Down \cup {"listen"} => s.socks = Listeners(s.conf, Len(s.conf.listeners))
       /\ s.pc \notin Down => /\ s.conf.tls = "mandatory" => \A l \in s.socks : l.tls
                              /\ s.conf.tls = "no" => \A l \in s.socks : ~l.tls

PortsApart ==
  \A p, q \in SvPrograms : p # q =>
    \A l \in svProgram[p].socks, m \in svProgram[q].socks : l.port # m.port

(* The validator comes last, and only the API server's goes into a synchronized one. *)
ValidatorLast ==
  \A p \in SvPrograms :
    LET s == svProgram[p]
    IN /\ s.pc \notin {"accept", "running"} => s.validator = NoJWT
       /\ s.pc \in {"accept", "running"} /\ s.conf.jwt => s.validator # NoJWT
       /\ s.pc \in FileStages => ~s.conf.sync

(* The server's key is of the algorithm it names, and what a program was told is what
   the server says until the server changes it. *)
AnswerCurrent ==
  /\ (svServer.alg = "HS") = (svServer.key % 2 = 1)
  /\ \A p \in SvPrograms : SvAt(p, "syncKey") /\ p \notin svStale => svProgram[p].answer = svServer.alg

(* One program at a time creates a kind of key, in files that nobody could have used
   before; a key that was used is the content of its file. *)
OneCreates ==
  /\ \A p, q \in SvPrograms : svProgram[p].pc \in HmacStages /\ svProgram[q].pc \in HmacStages => p = q
  /\ \A p, q \in SvPrograms : svProgram[p].pc \in RsaStages /\ svProgram[q].pc \in RsaStages => p = q
Written(f) == svFile[f].content # 0
CreatedFresh ==
  /\ \A f \in SvFiles : Written(f) => svFile[f].there
  /\ \A p \in SvPrograms :
       /\ SvAt(p, "hmacCreate") => ~svFile["hmac"].there
       /\ SvAt(p, "hmacWrite") => svFile["hmac"].there /\ ~Written("hmac")
       /\ SvAt(p, "rsaPrivate") => ~svFile["private"].there /\ ~svFile["public"].there
       /\ SvAt(p, "rsaPublic") => ~Written("private") /\ svFile["private"].there /\ ~svFile["public"].there
       /\ SvAt(p, "rsaWrite") => /\ ~Written("private") /\ ~Written("public")
                                 /\ svFile["private"].there /\ svFile["public"].there
       /\ SvAt(p, "rsaClose") => /\ ~Written("private") /\ svFile["public"].content = svProgram[p].newKey
                                 /\ svFile["private"].there /\ svFile["public"].there
       /\ svProgram[p].pc \in {"rsaPublic", "rsaWrite", "rsaClose"} => svProgram[p].newKey # 0
  /\ Written("private") /\ Written("public") => svFile["private"].content = svFile["public"].content
UsedIsStored ==
  \A m \in svMade :
    /\ m[2].alg = "HS" => Written("hmac") /\ m[2].key = svFile["hmac"].content
    /\ m[2].alg # "HS" => \E f \in {"private", "public"} : Written(f) /\ m[2].key = svFile[f].content
FilesGuarded == svOverlap \/ (OneCreates /\ CreatedFresh /\ UsedIsStored)

\* The parts that the files do not matter for, and all of them.
ButFiles == StartTypes /\ SocketsConfigured /\ PortsApart /\ ValidatorLast /\ AnswerCurrent /\ KeyOfTheAlgorithm
StartInv == ButFiles /\ FilesGuarded

\* The other programs are not touched.
OthersKept(p) ==
  /\ DOMAIN svProgram' = SvPrograms
  /\ \A q \in SvPrograms \ {p} : svProgram'[q] = svProgram[q]

\* The ways a program goes on while its keys are made.
MovesOn(p) ==
  /\ OthersKept(p) /\ svProgram[p].pc \in KeyStages /\ svProgram'[p].pc \in KeyStages
  /\ DOMAIN svProgram'[p] = SvFields
  /\ svProgram'[p].conf = svProgram[p].conf /\ svProgram'[p].socks = svProgram[p].socks
  /\ svProgram'[p].validator = svProgram[p].validator
Validated(p, jwt) ==
  /\ OthersKept(p) /\ svProgram[p].pc \in KeyStages /\ svProgram'[p].pc = "accept"
  /\ DOMAIN svProgram'[p] = SvFields
  /\ svProgram'[p].conf = svProgram[p].conf /\ svProgram'[p].socks = svProgram[p].socks
  /\ svProgram'[p].role = svProgram[p].role /\ svProgram'[p].answer = svProgram[p].answer
  /\ svProgram'[p].validator = jwt /\ jwt # NoJWT /\ svProgram'[p].newKey = 0
Gone(p) ==
  /\ OthersKept(p) /\ svProgram'[p].pc \in Down
  /\ DOMAIN svProgram'[p] = SvFields
  /\ svProgram'[p].role = "signer" /\ svProgram'[p].socks = {} /\ svProgram'[p].validator = NoJWT
  /\ svProgram'[p].answer = "none" /\ svProgram'[p].newKey = 0

LEMMA BecomesEffect ==
  ASSUME StartTypes, NEW p \in SvPrograms, NEW program, SvBecomes(p, program)
  PROVE  OthersKept(p) /\ svProgram'[p] = program
BY DEF StartTypes, SvBecomes, OthersKept

LEMMA NoProgramFields == DOMAIN NoProgram = SvFields
BY DEF NoProgram, SvFields

LEMMA FailsEffect ==
  ASSUME StartTypes, NEW p \in SvPrograms, SvFails(p) PROVE Gone(p)
<1>1. OthersKept(p) /\ svProgram'[p] = [NoProgram EXCEPT !.pc = "failed"]
  BY BecomesEffect DEF SvFails
<1> QED BY <1>1 DEF Gone, Down, SvFields, NoProgram

LEMMA GoesEffect ==
  ASSUME StartTypes, NEW p \in SvPrograms, NEW where, SvGoes(p, where)
  PROVE  /\ OthersKept(p) /\ DOMAIN svProgram'[p] = SvFields /\ svProgram'[p].pc = where
         /\ \A x \in SvFields \ {"pc"} : svProgram'[p][x] = svProgram[p][x]
<1>1. OthersKept(p) /\ svProgram'[p] = [svProgram[p] EXCEPT !.pc = where]
  BY BecomesEffect DEF SvGoes
<1>2. DOMAIN svProgram[p] = SvFields /\ "pc" \in SvFields
  BY DEF StartTypes, SvFields
<1> QED BY <1>1, <1>2

LEMMA GoesMovesOn ==
  ASSUME StartTypes, NEW p \in SvPrograms, NEW where \in KeyStages, SvGoes(p, where),
         svProgram[p].pc \in KeyStages
  PROVE  /\ MovesOn(p) /\ svProgram'[p].pc = where /\ svProgram'[p].role = svProgram[p].role
         /\ svProgram'[p].answer = svProgram[p].answer /\ svProgram'[p].newKey = svProgram[p].newKey
BY GoesEffect DEF MovesOn, SvFields

(* SvResult: the validator's turn after the signer, the end, or the engine's turn. *)
LEMMA ResultEffect ==
  ASSUME StartTypes, NEW p \in SvPrograms, NEW jwt \in SvJWTs, NEW stored \in BOOLEAN,
         SvResult(p, jwt, stored), svProgram[p].pc \in KeyStages
  PROVE  /\ \/ /\ MovesOn(p) /\ svProgram'[p].pc = "key" /\ svProgram'[p].role = "validator"
               /\ svProgram'[p].answer = svProgram[p].answer /\ svProgram'[p].newKey = 0
            \/ Gone(p)
            \/ Validated(p, jwt) /\ svProgram[p].role = "validator"
         /\ ~stored => svMade' = svMade
         /\ svMade' = svMade \/ (jwt # NoJWT /\ svMade' = svMade \cup {<<svProgram[p].role, jwt>>})
<1>1. DOMAIN svProgram[p] = SvFields /\ svProgram[p].role \in {"signer", "validator"}
  BY DEF StartTypes
<1>2. CASE svProgram[p].role = "signer"
  <2>1. /\ OthersKept(p)
        /\ svProgram'[p] = [svProgram[p] EXCEPT !.signer = jwt, !.role = "validator", !.pc = "key",
                                                !.newKey = 0]
    BY <1>2, BecomesEffect DEF SvResult
  <2>2. MovesOn(p) /\ svProgram'[p].pc = "key" /\ svProgram'[p].role = "validator"
        /\ svProgram'[p].answer = svProgram[p].answer /\ svProgram'[p].newKey = 0
    BY <1>1, <2>1 DEF MovesOn, SvFields, KeyStages
  <2> QED BY <2>2 DEF SvResult
<1>3. CASE svProgram[p].role = "validator" /\ jwt = NoJWT
  BY <1>3, FailsEffect DEF SvResult
<1>4. CASE svProgram[p].role = "validator" /\ jwt # NoJWT
  <2>1. /\ OthersKept(p)
        /\ svProgram'[p] = [svProgram[p] EXCEPT !.validator = jwt, !.pc = "accept", !.newKey = 0]
    BY <1>4, BecomesEffect DEF SvResult
  <2>2. Validated(p, jwt)
    BY <1>1, <1>4, <2>1 DEF Validated, SvFields
  <2> QED BY <1>4, <2>2 DEF SvResult
<1> QED BY <1>1, <1>2, <1>3, <1>4

(* What a step of one program leaves of the types. *)
LEMMA TypesAside ==
  ASSUME StartTypes, NEW p \in SvPrograms, OthersKept(p),
         svFile' \in [SvFiles -> [there : BOOLEAN, content : Nat, secure : BOOLEAN]],
         svServer' = svServer, svKeys' \in Nat, svOverlap' \in BOOLEAN,
         svMade' \subseteq {"signer", "validator"} \X SvJWTs,
         DOMAIN svProgram'[p] = SvFields, svProgram'[p].pc \in SvPcs,
         svProgram'[p].role \in {"signer", "validator"}, svProgram'[p].validator \in SvJWTs,
         svProgram'[p].answer \in {"none", "HS", "RS"}, svProgram'[p].newKey \in Nat
  PROVE  StartTypes'
BY DEF StartTypes, OthersKept

(* A program that makes its keys, ends or has its validator leaves the engines as
   they are. *)
LEMMA EnginesKept ==
  ASSUME SocketsConfigured, PortsApart, ValidatorLast, NEW p \in SvPrograms, svPlan' = svPlan,
         \/ MovesOn(p) /\ (svProgram'[p].pc \in FileStages => ~SvConf(p).sync)
         \/ Gone(p)
         \/ \E jwt \in SvJWTs : Validated(p, jwt)
  PROVE  SocketsConfigured' /\ PortsApart' /\ ValidatorLast'
<1>1. OthersKept(p)
  BY DEF MovesOn, Gone, Validated
<1>2. \/ svProgram'[p].pc \in Down /\ svProgram'[p].socks = {} /\ svProgram'[p].validator = NoJWT
      \/ /\ svProgram[p].pc \in KeyStages /\ svProgram'[p].pc \in KeyStages \cup {"accept"}
         /\ svProgram'[p].conf = svProgram[p].conf /\ svProgram'[p].socks = svProgram[p].socks
  BY DEF MovesOn, Gone, Validated
<1>3. KeyStages \cap (Down \cup {"listen", "accept", "running"}) = {}
  BY DEF KeyStages, FileStages, HmacStages, RsaStages, Down
<1>4. SocketsConfigured'
  <2> SUFFICES ASSUME NEW q \in SvPrograms PROVE
        LET s == svProgram'[q]
        IN /\ svPlan = <<>> \/ svPlan \in SvPlans
           /\ s.pc \in Down => s.socks = {}
           /\ s.pc \notin Down => svPlan # <<>> /\ s.conf = svPlan[q]
           /\ s.pc = "listen" => /\ IsFiniteSet(s.socks) /\ Cardinality(s.socks) <= Len(s.conf.listeners)
                                 /\ s.socks = Listeners(s.conf, Cardinality(s.socks))
           /\ s.pc \notin Down \cup {"listen"} => s.socks = Listeners(s.conf, Len(s.conf.listeners))
           /\ s.pc \notin Down => /\ s.conf.tls = "mandatory" => \A l \in s.socks : l.tls
                                  /\ s.conf.tls = "no" => \A l \in s.socks : ~l.tls
    BY DEF SocketsConfigured
  <2>1. CASE q # p
    <3>1. svProgram'[q] = svProgram[q]
      BY <1>1, <2>1 DEF OthersKept
    <3> QED BY <3>1 DEF SocketsConfigured
  <2>2. CASE q = p /\ svProgram'[p].pc \in Down
    <3>1. svProgram'[p].socks = {} /\ svProgram'[p].pc # "listen"
      BY <1>2, <1>3, <2>2 DEF Down
    <3> QED BY <2>2, <3>1 DEF SocketsConfigured
  <2>3. CASE q = p /\ svProgram'[p].pc \notin Down
    <3>1. /\ svProgram[p].pc \notin Down \cup {"listen"} /\ svProgram'[p].pc # "listen"
          /\ svProgram'[p].conf = svProgram[p].conf /\ svProgram'[p].socks = svProgram[p].socks
      BY <1>2, <1>3, <2>3
    <3> QED BY <2>3, <3>1 DEF SocketsConfigured
  <2> QED BY <2>1, <2>2, <2>3
<1>5. PortsApart'
  <2>1. \A q \in SvPrograms : svProgram'[q].socks \subseteq svProgram[q].socks
    BY <1>1, <1>2 DEF OthersKept
  <2> QED BY <2>1 DEF PortsApart
<1>6. ValidatorLast'
  <2>1. /\ svProgram'[p].pc \notin {"accept", "running"} => svProgram'[p].validator = NoJWT
        /\ svProgram'[p].pc \in {"accept", "running"} => svProgram'[p].validator # NoJWT
        /\ svProgram'[p].pc \in FileStages => ~svProgram'[p].conf.sync
    <3>1. CASE MovesOn(p) /\ (svProgram'[p].pc \in FileStages => ~SvConf(p).sync)
      BY <1>3, <3>1 DEF MovesOn, ValidatorLast, SvConf
    <3>2. CASE Gone(p)
      BY <3>2 DEF Gone, Down, FileStages, HmacStages, RsaStages
    <3>3. CASE \E jwt \in SvJWTs : Validated(p, jwt)
      BY <3>3 DEF Validated, FileStages, HmacStages, RsaStages
    <3> QED BY <3>1, <3>2, <3>3
  <2> QED BY <1>1, <2>1 DEF ValidatorLast, OthersKept
<1> QED BY <1>4, <1>5, <1>6

(* What the API server said stays with what the server has. *)
LEMMA ServerKept ==
  ASSUME AnswerCurrent, KeyOfTheAlgorithm, NEW p \in SvPrograms, OthersKept(p), svServer' = svServer,
         svStale \ {p} \subseteq svStale',
         svProgram'[p].pc = "syncKey" => p \in svStale' \/ svProgram'[p].answer = svServer.alg,
         svProgram'[p].validator # NoJWT /\ svProgram'[p].conf.sync /\ p \notin svStale'
           => (svProgram'[p].validator.alg = "HS") = (svProgram'[p].validator.key % 2 = 1)
  PROVE  AnswerCurrent' /\ KeyOfTheAlgorithm'
<1>1. AnswerCurrent'
  BY DEF AnswerCurrent, OthersKept, SvAt
<1>2. KeyOfTheAlgorithm'
  <2> SUFFICES ASSUME NEW q \in SvPrograms, svProgram'[q].validator # NoJWT, svProgram'[q].conf.sync,
                      q \notin svStale'
               PROVE  (svProgram'[q].validator.alg = "HS") = (svProgram'[q].validator.key % 2 = 1)
    BY DEF KeyOfTheAlgorithm, SvConf
  <2>1. CASE q # p
    <3>1. svProgram'[q] = svProgram[q] /\ q \notin svStale
      BY <2>1 DEF OthersKept
    <3> QED BY <3>1 DEF KeyOfTheAlgorithm, SvConf
  <2>2. CASE q = p
    BY <2>2
  <2> QED BY <2>1, <2>2
<1> QED BY <1>1, <1>2

(* A program that creates no file leaves the files and their use as they are. *)
LEMMA FilesAside ==
  ASSUME FilesGuarded, NEW p \in SvPrograms, OthersKept(p),
         svProgram'[p].pc \notin HmacStages \cup RsaStages,
         svFile' = svFile, svMade' = svMade, svOverlap' = svOverlap
  PROVE  FilesGuarded'
<1> SUFFICES ASSUME ~svOverlap PROVE OneCreates' /\ CreatedFresh' /\ UsedIsStored'
  BY DEF FilesGuarded
<1>1. OneCreates /\ CreatedFresh /\ UsedIsStored
  BY DEF FilesGuarded
<1>2. OneCreates'
  BY <1>1 DEF OneCreates, OthersKept
<1>3. CreatedFresh'
  <2>1. \A q \in SvPrograms : q = p \/ svProgram'[q] = svProgram[q]
    BY DEF OthersKept
  <2> QED BY <1>1, <2>1 DEF CreatedFresh, Written, SvAt, HmacStages, RsaStages
<1>4. UsedIsStored'
  BY <1>1 DEF UsedIsStored, Written
<1> QED BY <1>2, <1>3, <1>4

(* A step between the stages of the keys. *)
KeyStepTaken(p) ==
  \/ /\ MovesOn(p) /\ svProgram'[p].role \in {"signer", "validator"}
     /\ svProgram'[p].answer = svProgram[p].answer /\ svProgram'[p].newKey \in Nat
  \/ Gone(p)
  \/ \E jwt \in SvJWTs : Validated(p, jwt) /\ svProgram[p].role = "validator"

LEMMA KeyStepTypes ==
  ASSUME StartTypes, NEW p \in SvPrograms, KeyStepTaken(p),
         svFile' \in [SvFiles -> [there : BOOLEAN, content : Nat, secure : BOOLEAN]],
         svServer' = svServer, svKeys' \in Nat, svOverlap' \in BOOLEAN,
         svMade' \subseteq {"signer", "validator"} \X SvJWTs
  PROVE  StartTypes'
<1>1. /\ svProgram[p].validator \in SvJWTs /\ svProgram[p].answer \in {"none", "HS", "RS"}
      /\ svProgram[p].role \in {"signer", "validator"}
  BY DEF StartTypes
<1>2. NoJWT \in SvJWTs
  BY DEF NoJWT, SvJWTs
<1>3. CASE /\ MovesOn(p) /\ svProgram'[p].role \in {"signer", "validator"}
           /\ svProgram'[p].answer = svProgram[p].answer /\ svProgram'[p].newKey \in Nat
  <2>1. /\ OthersKept(p) /\ DOMAIN svProgram'[p] = SvFields /\ svProgram'[p].pc \in SvPcs
        /\ svProgram'[p].validator \in SvJWTs /\ svProgram'[p].answer \in {"none", "HS", "RS"}
    BY <1>1, <1>3 DEF MovesOn, SvPcs
  <2> QED BY <1>3, <2>1, TypesAside
<1>4. CASE Gone(p)
  <2>1. /\ OthersKept(p) /\ DOMAIN svProgram'[p] = SvFields /\ svProgram'[p].pc \in SvPcs
        /\ svProgram'[p].validator \in SvJWTs /\ svProgram'[p].answer \in {"none", "HS", "RS"}
        /\ svProgram'[p].role \in {"signer", "validator"} /\ svProgram'[p].newKey \in Nat
    BY <1>2, <1>4 DEF Gone, SvPcs
  <2> QED BY <2>1, TypesAside
<1>5. ASSUME NEW jwt \in SvJWTs, Validated(p, jwt) PROVE StartTypes'
  <2>1. /\ OthersKept(p) /\ DOMAIN svProgram'[p] = SvFields /\ svProgram'[p].pc \in SvPcs
        /\ svProgram'[p].validator \in SvJWTs /\ svProgram'[p].answer \in {"none", "HS", "RS"}
        /\ svProgram'[p].role \in {"signer", "validator"} /\ svProgram'[p].newKey \in Nat
    BY <1>1, <1>5 DEF Validated, SvPcs
  <2> QED BY <2>1, TypesAside
<1> QED BY <1>3, <1>4, <1>5 DEF KeyStepTaken

(* The stages that read and write key files touch nothing but the program and the
   files: such a program is not synchronized with the API server. *)
LEMMA FileStep ==
  ASSUME ButFiles, NEW p \in SvPrograms, svProgram[p].pc \in FileStages, KeyStepTaken(p),
         svProgram'[p].pc # "syncKey",
         svFile' \in [SvFiles -> [there : BOOLEAN, content : Nat, secure : BOOLEAN]],
         svServer' = svServer, svKeys' \in Nat, svOverlap' \in BOOLEAN,
         svMade' \subseteq {"signer", "validator"} \X SvJWTs,
         svPlan' = svPlan, svStale' = svStale
  PROVE  ButFiles'
<1>1. ~SvConf(p).sync /\ svProgram[p].validator = NoJWT
  BY DEF ButFiles, ValidatorLast, SvConf, FileStages, HmacStages, RsaStages
<1>2. OthersKept(p)
  BY DEF KeyStepTaken, MovesOn, Gone, Validated
<1>3. StartTypes'
  BY KeyStepTypes DEF ButFiles
<1>4. SocketsConfigured' /\ PortsApart' /\ ValidatorLast'
  <2>1. \/ MovesOn(p) /\ (svProgram'[p].pc \in FileStages => ~SvConf(p).sync)
        \/ Gone(p)
        \/ \E jwt \in SvJWTs : Validated(p, jwt)
    BY <1>1 DEF KeyStepTaken
  <2> QED BY <2>1, EnginesKept DEF ButFiles
<1>5. AnswerCurrent' /\ KeyOfTheAlgorithm'
  <2>1. svProgram'[p].validator = NoJWT \/ ~svProgram'[p].conf.sync
    BY <1>1 DEF KeyStepTaken, MovesOn, Gone, Validated, SvConf
  <2> QED BY <1>2, <2>1, ServerKept DEF ButFiles
<1> QED BY <1>3, <1>4, <1>5 DEF ButFiles

LEMMA JWTMade == \A alg \in {"none", "HS", "RS"}, key \in Nat : SvJWT(alg, key) \in SvJWTs
BY DEF SvJWT, SvJWTs, NoJWT

(* The result of a stage is such a step. *)
LEMMA ResultTaken ==
  ASSUME StartTypes, NEW p \in SvPrograms, NEW jwt \in SvJWTs, NEW stored \in BOOLEAN,
         SvResult(p, jwt, stored), svProgram[p].pc \in KeyStages
  PROVE  /\ KeyStepTaken(p) /\ svProgram'[p].pc \in {"key", "off", "failed", "accept"}
         /\ svMade' \subseteq {"signer", "validator"} \X SvJWTs
<1>1. KeyStepTaken(p) /\ svProgram'[p].pc \in {"key", "off", "failed", "accept"}
  BY ResultEffect DEF KeyStepTaken, Gone, Validated, Down
<1>2. svMade' = svMade \/ svMade' = svMade \cup {<<svProgram[p].role, jwt>>}
  BY ResultEffect
<1>3. <<svProgram[p].role, jwt>> \in {"signer", "validator"} \X SvJWTs
  BY DEF StartTypes
<1>4. svMade' \subseteq {"signer", "validator"} \X SvJWTs
  BY <1>2, <1>3 DEF StartTypes
<1> QED BY <1>1, <1>4

LEMMA GoesTaken ==
  ASSUME StartTypes, NEW p \in SvPrograms, NEW where \in KeyStages, SvGoes(p, where),
         svProgram[p].pc \in KeyStages
  PROVE  KeyStepTaken(p) /\ OthersKept(p) /\ svProgram'[p].pc = where
         /\ svProgram'[p].newKey = svProgram[p].newKey
<1>1. svProgram[p].role \in {"signer", "validator"} /\ svProgram[p].newKey \in Nat
  BY DEF StartTypes
<1> QED BY <1>1, GoesMovesOn DEF KeyStepTaken, MovesOn

(* A stage that makes no key. *)
LEMMA NothingMade ==
  ASSUME StartInv, NEW p \in SvPrograms, svProgram[p].pc \in FileStages, SvResult(p, NoJWT, FALSE),
         UNCHANGED <<svPlan, svFile, svServer, svKeys, svOverlap, svStale>>
  PROVE  ButFiles' /\ FilesGuarded'
<1>1. NoJWT \in SvJWTs /\ FALSE \in BOOLEAN /\ svProgram[p].pc \in KeyStages
  BY DEF NoJWT, SvJWTs, KeyStages
<1>2. /\ KeyStepTaken(p) /\ svProgram'[p].pc \in {"key", "off", "failed", "accept"}
      /\ svMade' \subseteq {"signer", "validator"} \X SvJWTs
  BY <1>1, ResultTaken DEF StartInv, ButFiles
<1>3. ButFiles'
  <2>1. svFile \in [SvFiles -> [there : BOOLEAN, content : Nat, secure : BOOLEAN]]
        /\ svKeys \in Nat /\ svOverlap \in BOOLEAN
    BY DEF StartInv, ButFiles, StartTypes
  <2> QED BY <1>2, <2>1, FileStep DEF StartInv, ButFiles
<1>4. FilesGuarded'
  <2>1. svMade' = svMade
    BY <1>1, ResultEffect DEF StartInv, ButFiles
  <2>2. OthersKept(p)
    BY <1>2 DEF KeyStepTaken, MovesOn, Gone, Validated
  <2>3. svProgram'[p].pc \notin HmacStages \cup RsaStages
    BY <1>2 DEF HmacStages, RsaStages
  <2> QED BY <2>1, <2>2, <2>3, FilesAside DEF StartInv, ButFiles
<1> QED BY <1>3, <1>4

(* A stage that only goes on to one that writes nothing. *)
LEMMA JustGoes ==
  ASSUME StartInv, NEW p \in SvPrograms, svProgram[p].pc \in FileStages,
         NEW where \in {"hmacRead", "rsaRead", "rsaCheck"}, SvGoes(p, where),
         UNCHANGED <<svPlan, svFile, svServer, svKeys, svOverlap, svStale, svMade>>
  PROVE  ButFiles' /\ FilesGuarded'
<1>1. svProgram[p].pc \in KeyStages /\ where \in KeyStages
  BY DEF KeyStages, FileStages
<1>2. KeyStepTaken(p) /\ OthersKept(p) /\ svProgram'[p].pc = where
  BY <1>1, GoesTaken DEF StartInv, ButFiles
<1>3. ButFiles'
  <2>1. svFile \in [SvFiles -> [there : BOOLEAN, content : Nat, secure : BOOLEAN]]
        /\ svKeys \in Nat /\ svOverlap \in BOOLEAN /\ svMade \subseteq {"signer", "validator"} \X SvJWTs
    BY DEF StartInv, ButFiles, StartTypes
  <2> QED BY <1>2, <2>1, FileStep DEF StartInv, ButFiles
<1>4. FilesGuarded'
  <2>1. svProgram'[p].pc \notin HmacStages \cup RsaStages
    BY <1>2 DEF HmacStages, RsaStages
  <2> QED BY <1>2, <2>1, FilesAside DEF StartInv, ButFiles
<1> QED BY <1>3, <1>4

(* Only the stages of one kind of key look at its files. *)
LEMMA OtherStages ==
  /\ HmacStages \cap RsaStages = {}
  /\ HmacStages \subseteq FileStages /\ RsaStages \subseteq FileStages
  /\ FileStages \subseteq KeyStages /\ "syncKey" \notin FileStages
BY DEF HmacStages, RsaStages, FileStages, KeyStages

(* A step within the creation of one kind of key: nobody else is at it. *)
LEMMA CreatorAlone ==
  ASSUME OneCreates, NEW p \in SvPrograms, OthersKept(p),
         NEW stages \in {HmacStages, RsaStages}, svProgram'[p].pc \in stages,
         svProgram[p].pc \in stages \/ ~SvCreating(p, stages)
  PROVE  OneCreates' /\ \A q \in SvPrograms \ {p} : svProgram'[q].pc \notin stages
<1>1. \A q \in SvPrograms \ {p} : svProgram'[q] = svProgram[q] /\ svProgram[q].pc \notin stages
  BY DEF OneCreates, OthersKept, SvCreating
<1> QED BY <1>1, OtherStages DEF OneCreates

LEMMA HmacOpenStep ==
  ASSUME StartInv, NEW p \in SvPrograms, HmacOpen(p) PROVE ButFiles' /\ FilesGuarded'
<1>1. svProgram[p].pc = "hmacOpen" /\ svProgram[p].pc \in FileStages
  BY DEF HmacOpen, SvAt, FileStages
<1>2. CASE svFile["hmac"].there
  <2>1. SvGoes(p, "hmacRead") /\ UNCHANGED <<svPlan, svFile, svServer, svKeys, svOverlap, svStale, svMade>>
    BY <1>2 DEF HmacOpen
  <2> QED BY <1>1, <2>1, JustGoes
<1>3. CASE ~svFile["hmac"].there /\ ~SvConf(p).create
  <2>1. SvResult(p, NoJWT, FALSE) /\ UNCHANGED <<svPlan, svFile, svServer, svKeys, svOverlap, svStale>>
    BY <1>3 DEF HmacOpen
  <2> QED BY <1>1, <2>1, NothingMade
<1>4. CASE ~svFile["hmac"].there /\ SvConf(p).create
  <2>1. /\ SvGoes(p, "hmacCreate") /\ svOverlap' = (svOverlap \/ SvCreating(p, HmacStages))
        /\ UNCHANGED <<svPlan, svFile, svServer, svKeys, svStale, svMade>>
    BY <1>4 DEF HmacOpen
  <2>2. "hmacCreate" \in KeyStages /\ "hmacCreate" \in HmacStages /\ svProgram[p].pc \in KeyStages
    BY <1>1 DEF KeyStages, FileStages, HmacStages
  <2>3. KeyStepTaken(p) /\ OthersKept(p) /\ svProgram'[p].pc = "hmacCreate"
    BY <2>1, <2>2, GoesTaken DEF StartInv, ButFiles
  <2>4. ButFiles'
    <3>1. svFile' \in [SvFiles -> [there : BOOLEAN, content : Nat, secure : BOOLEAN]]
          /\ svKeys' \in Nat /\ svMade' \subseteq {"signer", "validator"} \X SvJWTs
      BY <2>1 DEF StartInv, ButFiles, StartTypes
    <3>2. svOverlap' \in BOOLEAN
      BY <2>1
    <3> QED BY <1>1, <2>1, <2>3, <3>1, <3>2, FileStep DEF StartInv, ButFiles
  <2>5. ASSUME ~svOverlap' PROVE OneCreates' /\ CreatedFresh' /\ UsedIsStored'
    <3>1. ~svOverlap /\ ~SvCreating(p, HmacStages)
      BY <2>1, <2>5
    <3>2. OneCreates /\ CreatedFresh /\ UsedIsStored
      BY <3>1 DEF StartInv, ButFiles, FilesGuarded
    <3>3. OneCreates'
      BY <2>2, <2>3, <3>1, <3>2, CreatorAlone
    <3>4. CreatedFresh'
      <4>1. \A q \in SvPrograms : q = p \/ svProgram'[q] = svProgram[q]
        BY <2>3 DEF OthersKept
      <4> QED BY <1>4, <2>1, <2>3, <3>2, <4>1 DEF CreatedFresh, Written, SvAt
    <3>5. UsedIsStored'
      BY <2>1, <3>2 DEF UsedIsStored, Written
    <3> QED BY <3>3, <3>4, <3>5
  <2> QED BY <2>4, <2>5 DEF FilesGuarded
<1> QED BY <1>2, <1>3, <1>4

LEMMA HmacCreateStep ==
  ASSUME StartInv, NEW p \in SvPrograms, HmacCreate(p) PROVE ButFiles' /\ FilesGuarded'
<1>1. svProgram[p].pc = "hmacCreate" /\ svProgram[p].pc \in FileStages
      /\ svProgram[p].pc \in HmacStages /\ svProgram[p].pc \in KeyStages
  BY DEF HmacCreate, SvAt, FileStages, HmacStages, KeyStages
<1>2. CASE SvResult(p, NoJWT, FALSE) /\ UNCHANGED svFile
  <2>1. UNCHANGED <<svPlan, svFile, svServer, svKeys, svOverlap, svStale>>
    BY <1>2 DEF HmacCreate
  <2> QED BY <1>1, <1>2, <2>1, NothingMade
<1>3. CASE svFile' = [svFile EXCEPT !["hmac"] = SvEmptyFile] /\ SvGoes(p, "hmacWrite") /\ UNCHANGED svMade
  <2>1. UNCHANGED <<svPlan, svServer, svKeys, svOverlap, svStale, svMade>>
    BY <1>3 DEF HmacCreate
  <2>2. "hmacWrite" \in KeyStages /\ "hmacWrite" \in HmacStages
    BY DEF KeyStages, FileStages, HmacStages
  <2>3. KeyStepTaken(p) /\ OthersKept(p) /\ svProgram'[p].pc = "hmacWrite"
    BY <1>1, <1>3, <2>2, GoesTaken DEF StartInv, ButFiles
  <2>4. svFile' \in [SvFiles -> [there : BOOLEAN, content : Nat, secure : BOOLEAN]]
        /\ svKeys' \in Nat /\ svOverlap' \in BOOLEAN /\ svMade' \subseteq {"signer", "validator"} \X SvJWTs
    BY <1>3, <2>1 DEF StartInv, ButFiles, StartTypes, SvEmptyFile, SvFiles
  <2>5. ButFiles'
    BY <1>1, <2>1, <2>3, <2>4, FileStep DEF StartInv, ButFiles
  <2>6. ASSUME ~svOverlap' PROVE OneCreates' /\ CreatedFresh' /\ UsedIsStored'
    <3>1. OneCreates /\ CreatedFresh /\ UsedIsStored
      BY <2>1, <2>6 DEF StartInv, ButFiles, FilesGuarded
    <3>2. OneCreates' /\ \A q \in SvPrograms \ {p} : svProgram'[q].pc \notin HmacStages
      BY <1>1, <2>2, <2>3, <3>1, CreatorAlone
    <3>3. /\ svFile'["hmac"] = SvEmptyFile
          /\ svFile'["private"] = svFile["private"] /\ svFile'["public"] = svFile["public"]
      BY <1>3 DEF StartInv, ButFiles, StartTypes, SvFiles
    <3>4. CreatedFresh'
      <4>1. \A q \in SvPrograms : q = p \/ svProgram'[q] = svProgram[q]
        BY <2>3 DEF OthersKept
      <4>2. \A f \in SvFiles : Written(f)' => svFile'[f].there
        BY <3>1, <3>3 DEF CreatedFresh, Written, SvEmptyFile, SvFiles
      <4> QED BY <2>3, <3>1, <3>2, <3>3, <4>1, <4>2
              DEF CreatedFresh, Written, SvAt, SvEmptyFile, HmacStages
    <3>5. UsedIsStored'
      <4>1. ~svFile["hmac"].there /\ ~Written("hmac")
        BY <1>1, <3>1 DEF CreatedFresh, SvAt, SvFiles
      <4> QED BY <2>1, <3>1, <3>3, <4>1 DEF UsedIsStored, Written
    <3> QED BY <3>2, <3>4, <3>5
  <2> QED BY <2>5, <2>6 DEF FilesGuarded
<1> QED BY <1>2, <1>3 DEF HmacCreate

LEMMA HmacWriteStep ==
  ASSUME StartInv, NEW p \in SvPrograms, HmacWrite(p) PROVE ButFiles' /\ FilesGuarded'
<1>1. svProgram[p].pc = "hmacWrite" /\ svProgram[p].pc \in FileStages
      /\ svProgram[p].pc \in HmacStages /\ svProgram[p].pc \in KeyStages
  BY DEF HmacWrite, SvAt, FileStages, HmacStages, KeyStages
<1>2. CASE SvResult(p, NoJWT, FALSE) /\ UNCHANGED <<svKeys, svFile>>
  <2>1. UNCHANGED <<svPlan, svFile, svServer, svKeys, svOverlap, svStale>>
    BY <1>2 DEF HmacWrite
  <2> QED BY <1>1, <1>2, <2>1, NothingMade
<1>3. CASE /\ svKeys' = svKeys + 1 /\ svFile' = [svFile EXCEPT !["hmac"].content = svKeys + 1]
           /\ SvGoes(p, "hmacRead") /\ UNCHANGED svMade
  <2>1. UNCHANGED <<svPlan, svServer, svOverlap, svStale, svMade>>
    BY <1>3 DEF HmacWrite
  <2>2. "hmacRead" \in KeyStages /\ "hmacRead" \notin HmacStages \cup RsaStages
    BY DEF KeyStages, FileStages, HmacStages, RsaStages
  <2>3. KeyStepTaken(p) /\ OthersKept(p) /\ svProgram'[p].pc = "hmacRead"
    BY <1>1, <1>3, <2>2, GoesTaken DEF StartInv, ButFiles
  <2>4. svKeys \in Nat /\ svKeys + 1 \in Nat /\ svKeys + 1 # 0
    BY DEF StartInv, ButFiles, StartTypes
  <2>5. /\ svFile'["hmac"].content = svKeys + 1 /\ svFile'["hmac"].there = svFile["hmac"].there
        /\ svFile'["private"] = svFile["private"] /\ svFile'["public"] = svFile["public"]
        /\ svFile' \in [SvFiles -> [there : BOOLEAN, content : Nat, secure : BOOLEAN]]
    BY <1>3, <2>4 DEF StartInv, ButFiles, StartTypes, SvFiles
  <2>6. ButFiles'
    <3>1. svKeys' \in Nat /\ svOverlap' \in BOOLEAN /\ svMade' \subseteq {"signer", "validator"} \X SvJWTs
      BY <1>3, <2>1, <2>4 DEF StartInv, ButFiles, StartTypes
    <3> QED BY <1>1, <2>1, <2>3, <2>5, <3>1, FileStep DEF StartInv, ButFiles
  <2>7. ASSUME ~svOverlap' PROVE OneCreates' /\ CreatedFresh' /\ UsedIsStored'
    <3>1. OneCreates /\ CreatedFresh /\ UsedIsStored
      BY <2>1, <2>7 DEF StartInv, ButFiles, FilesGuarded
    <3>2. \A q \in SvPrograms : q = p \/ (svProgram'[q] = svProgram[q] /\ svProgram[q].pc \notin HmacStages)
      BY <1>1, <2>3, <3>1 DEF OthersKept, OneCreates
    <3>3. OneCreates'
      BY <2>2, <2>3, <3>1, <3>2 DEF OneCreates
    <3>4. svFile["hmac"].there /\ ~Written("hmac")
      BY <1>1, <3>1 DEF CreatedFresh, SvAt
    <3>5. CreatedFresh'
      <4>1. \A f \in SvFiles : Written(f)' => svFile'[f].there
        BY <2>5, <3>1, <3>4 DEF CreatedFresh, Written, SvFiles
      <4> QED BY <2>3, <2>5, <3>1, <3>2, <4>1 DEF CreatedFresh, Written, SvAt, HmacStages
    <3>6. UsedIsStored'
      BY <2>1, <2>5, <3>1, <3>4 DEF UsedIsStored, Written
    <3> QED BY <3>3, <3>5, <3>6
  <2> QED BY <2>6, <2>7 DEF FilesGuarded
<1> QED BY <1>2, <1>3 DEF HmacWrite

(* A key that was read is the content of its file. *)
LEMMA ReadStep ==
  ASSUME StartInv, NEW p \in SvPrograms, svProgram[p].pc \in FileStages, NEW jwt \in SvJWTs,
         SvResult(p, jwt, TRUE), UNCHANGED <<svPlan, svFile, svServer, svKeys, svOverlap, svStale>>,
         jwt # NoJWT =>
           /\ jwt.alg = "HS" => Written("hmac") /\ jwt.key = svFile["hmac"].content
           /\ jwt.alg # "HS" => \E f \in {"private", "public"} : Written(f) /\ jwt.key = svFile[f].content
  PROVE  ButFiles' /\ FilesGuarded'
<1>1. svProgram[p].pc \in KeyStages /\ TRUE \in BOOLEAN
  BY DEF KeyStages
<1>2. /\ KeyStepTaken(p) /\ svProgram'[p].pc \in {"key", "off", "failed", "accept"}
      /\ svMade' \subseteq {"signer", "validator"} \X SvJWTs
  BY <1>1, ResultTaken DEF StartInv, ButFiles
<1>3. svMade' = svMade \/ (jwt # NoJWT /\ svMade' = svMade \cup {<<svProgram[p].role, jwt>>})
  BY <1>1, ResultEffect DEF StartInv, ButFiles
<1>4. ButFiles'
  <2>1. svFile \in [SvFiles -> [there : BOOLEAN, content : Nat, secure : BOOLEAN]]
        /\ svKeys \in Nat /\ svOverlap \in BOOLEAN
    BY DEF StartInv, ButFiles, StartTypes
  <2> QED BY <1>2, <2>1, FileStep DEF StartInv, ButFiles
<1>5. ASSUME ~svOverlap' PROVE OneCreates' /\ CreatedFresh' /\ UsedIsStored'
  <2>1. OneCreates /\ CreatedFresh /\ UsedIsStored
    BY <1>5 DEF StartInv, ButFiles, FilesGuarded
  <2>2. svProgram'[p].pc \notin HmacStages \cup RsaStages
    BY <1>2 DEF HmacStages, RsaStages
  <2>3. \A q \in SvPrograms : q = p \/ svProgram'[q] = svProgram[q]
    BY <1>2 DEF KeyStepTaken, MovesOn, Gone, Validated, OthersKept
  <2>4. OneCreates'
    BY <2>1, <2>2, <2>3 DEF OneCreates
  <2>5. CreatedFresh'
    BY <2>1, <2>2, <2>3 DEF CreatedFresh, Written, SvAt, HmacStages, RsaStages
  <2>6. UsedIsStored'
    <3> SUFFICES ASSUME NEW m \in svMade' PROVE
          /\ m[2].alg = "HS" => Written("hmac") /\ m[2].key = svFile["hmac"].content
          /\ m[2].alg # "HS" => \E f \in {"private", "public"} : Written(f) /\ m[2].key = svFile[f].content
      BY DEF UsedIsStored, Written
    <3>1. CASE m \in svMade
      BY <2>1, <3>1 DEF UsedIsStored
    <3>2. CASE jwt # NoJWT /\ m = <<svProgram[p].role, jwt>>
      <4>1. m[2] = jwt
        BY <3>2
      <4> QED BY <3>2, <4>1
    <3> QED BY <1>3, <3>1, <3>2
  <2> QED BY <2>4, <2>5, <2>6
<1> QED BY <1>4, <1>5 DEF FilesGuarded

LEMMA HmacReadStep ==
  ASSUME StartInv, NEW p \in SvPrograms, HmacRead(p) PROVE ButFiles' /\ FilesGuarded'
<1>1. PICK key \in Nat : key = IF svFile["hmac"].secure THEN svFile["hmac"].content ELSE 0
  BY DEF StartInv, ButFiles, StartTypes, SvFiles
<1>2. PICK jwt \in SvJWTs : jwt = SvJWT("HS", key)
  BY JWTMade
<1>3. /\ svProgram[p].pc \in FileStages /\ SvResult(p, jwt, TRUE)
      /\ UNCHANGED <<svPlan, svFile, svServer, svKeys, svOverlap, svStale>>
  BY <1>1, <1>2 DEF HmacRead, SvAt, FileStages
<1>4. jwt # NoJWT => jwt.alg = "HS" /\ jwt.key = svFile["hmac"].content /\ Written("hmac")
  BY <1>1, <1>2 DEF SvJWT, Written
<1> QED BY <1>3, <1>4, ReadStep

LEMMA RsaReadStep ==
  ASSUME StartInv, NEW p \in SvPrograms, RsaRead(p) PROVE ButFiles' /\ FilesGuarded'
<1>1. PICK f \in {"private", "public"} : f = SvKeyFile(p)
  BY DEF SvKeyFile
<1>2. PICK key \in Nat : key = IF f = "private" /\ ~svFile[f].secure THEN 0 ELSE svFile[f].content
  BY DEF StartInv, ButFiles, StartTypes, SvFiles
<1>3. PICK jwt \in SvJWTs : jwt = SvJWT("RS", key)
  BY JWTMade
<1>4. /\ svProgram[p].pc \in FileStages /\ SvResult(p, jwt, TRUE)
      /\ UNCHANGED <<svPlan, svFile, svServer, svKeys, svOverlap, svStale>>
  BY <1>1, <1>2, <1>3 DEF RsaRead, SvAt, FileStages
<1>5. jwt # NoJWT => jwt.alg # "HS" /\ jwt.key = svFile[f].content /\ Written(f)
  BY <1>2, <1>3 DEF SvJWT, Written
<1> QED BY <1>4, <1>5, ReadStep

LEMMA RsaOpenStep ==
  ASSUME StartInv, NEW p \in SvPrograms, RsaOpen(p) PROVE ButFiles' /\ FilesGuarded'
<1>1. svProgram[p].pc \in FileStages
      /\ UNCHANGED <<svPlan, svFile, svServer, svKeys, svOverlap, svStale>>
  BY DEF RsaOpen, SvAt, FileStages
<1>2. CASE svFile[SvKeyFile(p)].there
  BY <1>1, <1>2, JustGoes DEF RsaOpen
<1>3. CASE ~svFile[SvKeyFile(p)].there /\ SvConf(p).create
  BY <1>1, <1>3, JustGoes DEF RsaOpen
<1>4. CASE ~svFile[SvKeyFile(p)].there /\ ~SvConf(p).create
  BY <1>1, <1>4, NothingMade DEF RsaOpen
<1> QED BY <1>2, <1>3, <1>4

LEMMA RsaCheckStep ==
  ASSUME StartInv, NEW p \in SvPrograms, RsaCheck(p) PROVE ButFiles' /\ FilesGuarded'
<1>1. svProgram[p].pc = "rsaCheck" /\ svProgram[p].pc \in FileStages /\ svProgram[p].pc \in KeyStages
      /\ UNCHANGED <<svPlan, svFile, svServer, svKeys, svStale>>
  BY DEF RsaCheck, SvAt, FileStages, KeyStages
<1>2. CASE ~MayCreateRSA(p)
  BY <1>1, <1>2, NothingMade DEF RsaCheck
<1>3. CASE MayCreateRSA(p)
  <2>1. /\ SvGoes(p, "rsaPrivate") /\ svOverlap' = (svOverlap \/ SvCreating(p, RsaStages))
        /\ svMade' = svMade
    BY <1>3 DEF RsaCheck
  <2>2. "rsaPrivate" \in KeyStages /\ "rsaPrivate" \in RsaStages
    BY DEF KeyStages, FileStages, RsaStages
  <2>3. KeyStepTaken(p) /\ OthersKept(p) /\ svProgram'[p].pc = "rsaPrivate"
    BY <1>1, <2>1, <2>2, GoesTaken DEF StartInv, ButFiles
  <2>4. ButFiles'
    <3>1. svFile' \in [SvFiles -> [there : BOOLEAN, content : Nat, secure : BOOLEAN]]
          /\ svKeys' \in Nat /\ svMade' \subseteq {"signer", "validator"} \X SvJWTs
      BY <1>1, <2>1 DEF StartInv, ButFiles, StartTypes
    <3>2. svOverlap' \in BOOLEAN
      BY <2>1
    <3> QED BY <1>1, <2>1, <2>3, <3>1, <3>2, FileStep DEF StartInv, ButFiles
  <2>5. ASSUME ~svOverlap' PROVE OneCreates' /\ CreatedFresh' /\ UsedIsStored'
    <3>1. ~svOverlap /\ ~SvCreating(p, RsaStages)
      BY <2>1, <2>5
    <3>2. OneCreates /\ CreatedFresh /\ UsedIsStored
      BY <3>1 DEF StartInv, ButFiles, FilesGuarded
    <3>3. OneCreates'
      BY <2>2, <2>3, <3>1, <3>2, CreatorAlone
    <3>4. CreatedFresh'
      <4>1. \A q \in SvPrograms : q = p \/ svProgram'[q] = svProgram[q]
        BY <2>3 DEF OthersKept
      <4> QED BY <1>1, <1>3, <2>3, <3>2, <4>1 DEF CreatedFresh, Written, SvAt, MayCreateRSA
    <3>5. UsedIsStored'
      BY <1>1, <2>1, <3>2 DEF UsedIsStored, Written
    <3> QED BY <3>3, <3>4, <3>5
  <2> QED BY <2>4, <2>5 DEF FilesGuarded
<1> QED BY <1>2, <1>3

(* The four stages of createRSASecret: how one of them changes the files. *)
LEMMA RsaCreating ==
  ASSUME StartInv, NEW p \in SvPrograms, svProgram[p].pc \in RsaStages, KeyStepTaken(p),
         svProgram'[p].pc # "syncKey", svProgram'[p].pc \notin HmacStages,
         svFile' \in [SvFiles -> [there : BOOLEAN, content : Nat, secure : BOOLEAN]], svKeys' \in Nat,
         svFile'["hmac"] = svFile["hmac"], UNCHANGED <<svPlan, svServer, svOverlap, svStale, svMade>>,
         ~svOverlap /\ OneCreates /\ CreatedFresh =>
           /\ \A f \in {"private", "public"} :
                /\ svFile'[f].content # 0 => svFile'[f].there
                /\ Written(f) => svFile'[f].content = svFile[f].content
           /\ svFile'["private"].content # 0 /\ svFile'["public"].content # 0
                => svFile'["private"].content = svFile'["public"].content
           /\ svProgram'[p].pc # "rsaPrivate"
           /\ svProgram'[p].pc = "rsaPublic" =>
                /\ svFile'["private"].content = 0 /\ svFile'["private"].there /\ ~svFile'["public"].there
           /\ svProgram'[p].pc = "rsaWrite" =>
                /\ svFile'["private"].content = 0 /\ svFile'["public"].content = 0
                /\ svFile'["private"].there /\ svFile'["public"].there
           /\ svProgram'[p].pc = "rsaClose" =>
                /\ svFile'["private"].content = 0 /\ svFile'["public"].content = svProgram'[p].newKey
                /\ svFile'["private"].there /\ svFile'["public"].there
           /\ svProgram'[p].pc \in {"rsaPublic", "rsaWrite", "rsaClose"} => svProgram'[p].newKey # 0
  PROVE  ButFiles' /\ FilesGuarded'
<1>1. ButFiles'
  <2>1. svOverlap' \in BOOLEAN /\ svMade' \subseteq {"signer", "validator"} \X SvJWTs
    BY DEF StartInv, ButFiles, StartTypes
  <2> QED BY <2>1, FileStep, OtherStages DEF StartInv, ButFiles
<1>2. ASSUME ~svOverlap' PROVE OneCreates' /\ CreatedFresh' /\ UsedIsStored'
  <2>1. ~svOverlap /\ OneCreates /\ CreatedFresh /\ UsedIsStored
    BY <1>2 DEF StartInv, ButFiles, FilesGuarded
  <2>2. \A q \in SvPrograms : q = p \/ (svProgram'[q] = svProgram[q] /\ svProgram[q].pc \notin RsaStages)
    BY <2>1 DEF KeyStepTaken, MovesOn, Gone, Validated, OthersKept, OneCreates
  <2>3. OneCreates'
    BY <2>1, <2>2 DEF OneCreates
  <2>4. CreatedFresh'
    <3>1. \A f \in SvFiles : Written(f)' => svFile'[f].there
      BY <2>1 DEF CreatedFresh, Written, SvFiles
    <3>2. ASSUME NEW q \in SvPrograms, q # p PROVE
            /\ SvAt(q, "hmacCreate")' => ~svFile'["hmac"].there
            /\ SvAt(q, "hmacWrite")' => svFile'["hmac"].there /\ svFile'["hmac"].content = 0
            /\ svProgram'[q].pc \notin RsaStages
      BY <2>1, <2>2, <3>2 DEF CreatedFresh, Written, SvAt
    <3> QED BY <2>1, <3>1, <3>2 DEF CreatedFresh, Written, SvAt, HmacStages, RsaStages
  <2>5. UsedIsStored'
    BY <2>1 DEF UsedIsStored, Written
  <2> QED BY <2>3, <2>4, <2>5
<1> QED BY <1>1, <1>2 DEF FilesGuarded

LEMMA RsaPrivateStep ==
  ASSUME StartInv, NEW p \in SvPrograms, RsaPrivate(p) PROVE ButFiles' /\ FilesGuarded'
<1>1. /\ svProgram[p].pc = "rsaPrivate" /\ svProgram[p].pc \in RsaStages
      /\ svProgram[p].pc \in FileStages /\ svProgram[p].pc \in KeyStages
      /\ UNCHANGED <<svPlan, svServer, svOverlap, svStale>>
  BY DEF RsaPrivate, SvAt, FileStages, KeyStages, RsaStages
<1>2. CASE SvResult(p, NoJWT, FALSE) /\ UNCHANGED <<svKeys, svFile>>
  BY <1>1, <1>2, NothingMade
<1>3. CASE /\ svKeys' = svKeys + 1
           /\ SvBecomes(p, [svProgram[p] EXCEPT !.newKey = svKeys + 1, !.pc = "rsaPublic"])
           /\ svFile' = [svFile EXCEPT !["private"] = SvEmptyFile] /\ UNCHANGED svMade
  <2>1. svKeys \in Nat /\ svKeys + 1 \in Nat /\ svKeys + 1 # 0
    BY DEF StartInv, ButFiles, StartTypes
  <2>2. OthersKept(p) /\ svProgram'[p] = [svProgram[p] EXCEPT !.newKey = svKeys + 1, !.pc = "rsaPublic"]
    BY <1>3, BecomesEffect DEF StartInv, ButFiles
  <2>3. DOMAIN svProgram[p] = SvFields /\ svProgram[p].role \in {"signer", "validator"}
    BY DEF StartInv, ButFiles, StartTypes
  <2>4. /\ KeyStepTaken(p) /\ svProgram'[p].pc = "rsaPublic" /\ svProgram'[p].newKey = svKeys + 1
    BY <1>1, <2>1, <2>2, <2>3 DEF KeyStepTaken, MovesOn, SvFields, KeyStages, FileStages, RsaStages
  <2>5. /\ svFile'["private"] = SvEmptyFile /\ svFile'["hmac"] = svFile["hmac"]
        /\ svFile'["public"] = svFile["public"]
        /\ svFile' \in [SvFiles -> [there : BOOLEAN, content : Nat, secure : BOOLEAN]]
    BY <1>3 DEF StartInv, ButFiles, StartTypes, SvFiles, SvEmptyFile
  <2>6. CreatedFresh => /\ ~svFile["private"].there /\ ~svFile["public"].there
                        /\ ~Written("private") /\ ~Written("public")
    BY <1>1 DEF CreatedFresh, SvAt, SvFiles
  <2> QED BY <1>1, <1>3, <2>1, <2>4, <2>5, <2>6, RsaCreating DEF Written, SvEmptyFile, HmacStages
<1> QED BY <1>2, <1>3 DEF RsaPrivate

LEMMA RsaPublicStep ==
  ASSUME StartInv, NEW p \in SvPrograms, RsaPublic(p) PROVE ButFiles' /\ FilesGuarded'
<1>1. /\ svProgram[p].pc = "rsaPublic" /\ svProgram[p].pc \in RsaStages /\ svProgram[p].pc \in KeyStages
      /\ UNCHANGED <<svPlan, svServer, svKeys, svOverlap, svStale>>
  BY DEF RsaPublic, SvAt, FileStages, KeyStages, RsaStages
<1>2. svKeys \in Nat /\ svProgram[p].newKey \in Nat
  BY DEF StartInv, ButFiles, StartTypes
<1>3. CreatedFresh => /\ svFile["private"].there /\ ~svFile["public"].there /\ svProgram[p].newKey # 0
                      /\ ~Written("private") /\ ~Written("public")
  BY <1>1 DEF CreatedFresh, SvAt, SvFiles
<1>4. CASE /\ svFile' = [svFile EXCEPT !["public"] = SvEmptyFile]
           /\ SvGoes(p, "rsaWrite") /\ UNCHANGED svMade
  <2>1. "rsaWrite" \in KeyStages
    BY DEF KeyStages, FileStages, RsaStages
  <2>2. KeyStepTaken(p) /\ svProgram'[p].pc = "rsaWrite" /\ svProgram'[p].newKey = svProgram[p].newKey
    BY <1>1, <1>4, <2>1, GoesTaken DEF StartInv, ButFiles
  <2>3. /\ svFile'["public"] = SvEmptyFile /\ svFile'["hmac"] = svFile["hmac"]
        /\ svFile'["private"] = svFile["private"]
        /\ svFile' \in [SvFiles -> [there : BOOLEAN, content : Nat, secure : BOOLEAN]]
    BY <1>4 DEF StartInv, ButFiles, StartTypes, SvFiles, SvEmptyFile
  <2> QED BY <1>1, <1>2, <1>3, <1>4, <2>2, <2>3, RsaCreating DEF Written, SvEmptyFile, HmacStages
<1>5. CASE /\ svFile' = [svFile EXCEPT !["private"].content = svProgram[p].newKey]
           /\ SvResult(p, NoJWT, FALSE)
  <2>1. NoJWT \in SvJWTs /\ FALSE \in BOOLEAN
    BY DEF NoJWT, SvJWTs
  <2>2. KeyStepTaken(p) /\ svProgram'[p].pc \in {"key", "off", "failed", "accept"}
    BY <1>1, <1>5, <2>1, ResultTaken DEF StartInv, ButFiles
  <2>3. svMade' = svMade
    BY <1>1, <1>5, <2>1, ResultEffect DEF StartInv, ButFiles
  <2>4. /\ svFile'["public"] = svFile["public"] /\ svFile'["hmac"] = svFile["hmac"]
        /\ svFile'["private"].content = svProgram[p].newKey
        /\ svFile'["private"].there = svFile["private"].there
        /\ svFile' \in [SvFiles -> [there : BOOLEAN, content : Nat, secure : BOOLEAN]]
    BY <1>2, <1>5 DEF StartInv, ButFiles, StartTypes, SvFiles
  <2> QED BY <1>1, <1>2, <1>3, <2>2, <2>3, <2>4, RsaCreating DEF Written, HmacStages
<1> QED BY <1>4, <1>5 DEF RsaPublic

LEMMA RsaWriteStep ==
  ASSUME StartInv, NEW p \in SvPrograms,
         RsaWrite(p, "public", "rsaWrite", "rsaClose") \/ RsaWrite(p, "private", "rsaClose", "rsaRead")
  PROVE  ButFiles' /\ FilesGuarded'
<1>1. /\ svProgram[p].pc \in {"rsaWrite", "rsaClose"} /\ svProgram[p].pc \in RsaStages
      /\ svProgram[p].pc \in KeyStages /\ {"rsaClose", "rsaRead"} \subseteq KeyStages
      /\ UNCHANGED <<svPlan, svServer, svKeys, svOverlap, svStale, svMade>>
  BY DEF RsaWrite, SvAt, FileStages, KeyStages, RsaStages
<1>2. svKeys \in Nat /\ svProgram[p].newKey \in Nat
  BY DEF StartInv, ButFiles, StartTypes
<1>3. CASE RsaWrite(p, "public", "rsaWrite", "rsaClose")
  <2>1. KeyStepTaken(p) /\ svProgram'[p].pc = "rsaClose" /\ svProgram'[p].newKey = svProgram[p].newKey
    BY <1>1, <1>3, GoesTaken DEF StartInv, ButFiles, RsaWrite
  <2>2. /\ svFile'["private"] = svFile["private"] /\ svFile'["hmac"] = svFile["hmac"]
        /\ svFile'["public"].content = svProgram[p].newKey
        /\ svFile'["public"].there = svFile["public"].there
        /\ svFile' \in [SvFiles -> [there : BOOLEAN, content : Nat, secure : BOOLEAN]]
    BY <1>2, <1>3 DEF StartInv, ButFiles, StartTypes, SvFiles, RsaWrite
  <2>3. CreatedFresh => /\ svFile["private"].there /\ svFile["public"].there /\ svProgram[p].newKey # 0
                        /\ ~Written("private") /\ ~Written("public")
    BY <1>3 DEF CreatedFresh, SvAt, RsaWrite
  <2> QED BY <1>1, <1>2, <2>1, <2>2, <2>3, RsaCreating DEF Written, HmacStages
<1>4. CASE RsaWrite(p, "private", "rsaClose", "rsaRead")
  <2>1. KeyStepTaken(p) /\ svProgram'[p].pc = "rsaRead" /\ svProgram'[p].newKey = svProgram[p].newKey
    BY <1>1, <1>4, GoesTaken DEF StartInv, ButFiles, RsaWrite
  <2>2. /\ svFile'["public"] = svFile["public"] /\ svFile'["hmac"] = svFile["hmac"]
        /\ svFile'["private"].content = svProgram[p].newKey
        /\ svFile'["private"].there = svFile["private"].there
        /\ svFile' \in [SvFiles -> [there : BOOLEAN, content : Nat, secure : BOOLEAN]]
    BY <1>2, <1>4 DEF StartInv, ButFiles, StartTypes, SvFiles, RsaWrite
  <2>3. CreatedFresh => /\ svFile["private"].there /\ svFile["public"].there
                        /\ ~Written("private") /\ svFile["public"].content = svProgram[p].newKey
    BY <1>4 DEF CreatedFresh, SvAt, RsaWrite
  <2> QED BY <1>1, <1>2, <2>1, <2>2, <2>3, RsaCreating DEF Written, HmacStages
<1> QED BY <1>3, <1>4

(* The keys of the API server. *)
LEMMA SyncStep ==
  ASSUME ButFiles, FilesGuarded, NEW p \in SvPrograms, svProgram[p].pc \in {"key", "syncConfig", "syncKey"},
         NEW jwt \in SvJWTs, SvResult(p, jwt, FALSE),
         jwt # NoJWT /\ SvConf(p).sync /\ p \notin svStale => (jwt.alg = "HS") = (jwt.key % 2 = 1),
         UNCHANGED <<svPlan, svFile, svServer, svKeys, svOverlap, svStale>>
  PROVE  ButFiles' /\ FilesGuarded'
<1>1. svProgram[p].pc \in KeyStages /\ FALSE \in BOOLEAN
  BY DEF KeyStages
<1>2. /\ KeyStepTaken(p) /\ svProgram'[p].pc \in {"key", "off", "failed", "accept"}
      /\ svMade' \subseteq {"signer", "validator"} \X SvJWTs
  BY <1>1, ResultTaken DEF ButFiles
<1>3. svMade' = svMade
  BY <1>1, ResultEffect DEF ButFiles
<1>4. OthersKept(p)
  BY <1>2 DEF KeyStepTaken, MovesOn, Gone, Validated
<1>5. StartTypes'
  <2>1. svFile \in [SvFiles -> [there : BOOLEAN, content : Nat, secure : BOOLEAN]]
        /\ svKeys \in Nat /\ svOverlap \in BOOLEAN
    BY DEF ButFiles, StartTypes
  <2> QED BY <1>2, <2>1, KeyStepTypes DEF ButFiles
<1>6. svProgram'[p].pc \notin FileStages
  BY <1>2 DEF FileStages, HmacStages, RsaStages
<1>7. SocketsConfigured' /\ PortsApart' /\ ValidatorLast'
  BY <1>2, <1>6, EnginesKept DEF ButFiles, KeyStepTaken
<1>8. AnswerCurrent' /\ KeyOfTheAlgorithm'
  <2>1. svProgram[p].validator = NoJWT
    BY DEF ButFiles, ValidatorLast
  <2>2. \/ svProgram'[p].validator = NoJWT
        \/ svProgram'[p].validator = jwt /\ svProgram'[p].conf = svProgram[p].conf
    BY <1>1, <2>1, ResultEffect DEF ButFiles, MovesOn, Gone, Validated
  <2> QED BY <1>2, <1>4, <2>2, ServerKept DEF ButFiles, SvConf
<1>9. FilesGuarded'
  BY <1>3, <1>4, <1>6, FilesAside, OtherStages
<1> QED BY <1>5, <1>7, <1>8, <1>9 DEF ButFiles

(* The end of a program: the others keep their ports. *)
LEMMA GoneStep ==
  ASSUME ButFiles, FilesGuarded, NEW p \in SvPrograms, Gone(p),
         UNCHANGED <<svPlan, svFile, svServer, svKeys, svOverlap, svStale, svMade>>
  PROVE  ButFiles' /\ FilesGuarded'
<1>1. OthersKept(p) /\ svProgram'[p].pc \notin HmacStages \cup RsaStages \cup {"syncKey"}
  BY DEF Gone, Down, HmacStages, RsaStages
<1>2. StartTypes'
  BY KeyStepTypes DEF ButFiles, KeyStepTaken, StartTypes
<1>3. SocketsConfigured' /\ PortsApart' /\ ValidatorLast'
  BY EnginesKept DEF ButFiles
<1>4. AnswerCurrent' /\ KeyOfTheAlgorithm'
  BY <1>1, ServerKept DEF ButFiles, Gone
<1>5. FilesGuarded'
  BY <1>1, FilesAside
<1> QED BY <1>2, <1>3, <1>4, <1>5 DEF ButFiles

(* A program that has its sockets goes on with them. *)
LEMMA EngineGoes ==
  ASSUME ButFiles, FilesGuarded, NEW p \in SvPrograms, OthersKept(p),
         svProgram[p].pc \notin Down, svProgram'[p].pc \in {"resources", "key", "accept", "running"},
         DOMAIN svProgram'[p] = SvFields,
         \A x \in {"conf", "role", "socks", "validator", "answer", "newKey"} :
           svProgram'[p][x] = svProgram[p][x],
         svProgram[p].socks = Listeners(svProgram[p].conf, Len(svProgram[p].conf.listeners)),
         svProgram'[p].pc \notin {"accept", "running"} => svProgram[p].validator = NoJWT,
         svProgram'[p].pc \in {"accept", "running"} /\ SvConf(p).jwt => svProgram[p].validator # NoJWT,
         UNCHANGED <<svPlan, svFile, svServer, svKeys, svOverlap, svStale, svMade>>
  PROVE  ButFiles' /\ FilesGuarded'
<1>1. /\ svProgram'[p].conf = svProgram[p].conf /\ svProgram'[p].role = svProgram[p].role
      /\ svProgram'[p].socks = svProgram[p].socks /\ svProgram'[p].validator = svProgram[p].validator
      /\ svProgram'[p].answer = svProgram[p].answer /\ svProgram'[p].newKey = svProgram[p].newKey
  OBVIOUS
<1>2. svProgram'[p].pc \notin FileStages \cup Down \cup {"listen", "syncKey"}
  BY DEF FileStages, HmacStages, RsaStages, Down
<1>3. StartTypes'
  <2>1. svProgram'[p].pc \in SvPcs
    BY DEF SvPcs, KeyStages
  <2> QED BY <1>1, <2>1, TypesAside DEF ButFiles, StartTypes
<1>4. SocketsConfigured'
  <2> SUFFICES ASSUME NEW q \in SvPrograms PROVE
        LET s == svProgram'[q]
        IN /\ svPlan = <<>> \/ svPlan \in SvPlans
           /\ s.pc \in Down => s.socks = {}
           /\ s.pc \notin Down => svPlan # <<>> /\ s.conf = svPlan[q]
           /\ s.pc = "listen" => /\ IsFiniteSet(s.socks) /\ Cardinality(s.socks) <= Len(s.conf.listeners)
                                 /\ s.socks = Listeners(s.conf, Cardinality(s.socks))
           /\ s.pc \notin Down \cup {"listen"} => s.socks = Listeners(s.conf, Len(s.conf.listeners))
           /\ s.pc \notin Down => /\ s.conf.tls = "mandatory" => \A l \in s.socks : l.tls
                                  /\ s.conf.tls = "no" => \A l \in s.socks : ~l.tls
    BY DEF SocketsConfigured
  <2>1. CASE q # p
    <3>1. svProgram'[q] = svProgram[q]
      BY <2>1 DEF OthersKept
    <3> QED BY <3>1 DEF ButFiles, SocketsConfigured
  <2>2. CASE q = p
    BY <1>1, <1>2, <2>2 DEF ButFiles, SocketsConfigured
  <2> QED BY <2>1, <2>2
<1>5. PortsApart'
  <2>1. \A q \in SvPrograms : svProgram'[q].socks \subseteq svProgram[q].socks
    BY <1>1 DEF OthersKept
  <2> QED BY <2>1 DEF ButFiles, PortsApart
<1>6. ValidatorLast'
  BY <1>1, <1>2 DEF ButFiles, ValidatorLast, OthersKept, SvConf
<1>7. AnswerCurrent' /\ KeyOfTheAlgorithm'
  <2>1. svProgram'[p].validator # NoJWT /\ svProgram'[p].conf.sync /\ p \notin svStale'
           => (svProgram'[p].validator.alg = "HS") = (svProgram'[p].validator.key % 2 = 1)
    BY <1>1 DEF ButFiles, KeyOfTheAlgorithm, SvConf
  <2> QED BY <1>2, <2>1, ServerKept DEF ButFiles
<1>8. FilesGuarded'
  BY <1>2, FilesAside, OtherStages
<1> QED BY <1>3, <1>4, <1>5, <1>6, <1>7, <1>8 DEF ButFiles

LEMMA ResourcesStep ==
  ASSUME ButFiles, FilesGuarded, NEW p \in SvPrograms, SvResources(p) PROVE ButFiles' /\ FilesGuarded'
<1>1. /\ svProgram[p].pc = "resources"
      /\ UNCHANGED <<svPlan, svFile, svServer, svKeys, svOverlap, svStale, svMade>>
  BY DEF SvResources, SvAt
<1>2. CASE SvFails(p)
  BY <1>1, <1>2, FailsEffect, GoneStep DEF ButFiles
<1>3. CASE SvBecomes(p, [svProgram[p] EXCEPT !.dirs = SvConf(p).dirs \ {""},
                                             !.pc = IF SvConf(p).jwt THEN "key" ELSE "accept"])
  <2>1. /\ OthersKept(p)
        /\ svProgram'[p] = [svProgram[p] EXCEPT !.dirs = SvConf(p).dirs \ {""},
                                                !.pc = IF SvConf(p).jwt THEN "key" ELSE "accept"]
    BY <1>3, BecomesEffect DEF ButFiles
  <2>2. DOMAIN svProgram[p] = SvFields
    BY DEF ButFiles, StartTypes
  <2>3. /\ DOMAIN svProgram'[p] = SvFields
        /\ svProgram'[p].pc = IF SvConf(p).jwt THEN "key" ELSE "accept"
        /\ \A x \in {"conf", "role", "socks", "validator", "answer", "newKey"} :
             svProgram'[p][x] = svProgram[p][x]
    BY <2>1, <2>2 DEF SvFields
  <2>4. /\ svProgram[p].pc \notin Down /\ svProgram[p].validator = NoJWT
        /\ svProgram[p].socks = Listeners(svProgram[p].conf, Len(svProgram[p].conf.listeners))
    BY <1>1 DEF ButFiles, SocketsConfigured, ValidatorLast, Down
  <2> QED BY <1>1, <2>1, <2>3, <2>4, EngineGoes
<1> QED BY <1>2, <1>3 DEF SvResources

LEMMA AcceptStep ==
  ASSUME ButFiles, FilesGuarded, NEW p \in SvPrograms, SvAccept(p) PROVE ButFiles' /\ FilesGuarded'
<1>1. /\ svProgram[p].pc = "accept"
      /\ UNCHANGED <<svPlan, svFile, svServer, svKeys, svOverlap, svStale, svMade>>
  BY DEF SvAccept, SvAt
<1>2. CASE SvFails(p)
  BY <1>1, <1>2, FailsEffect, GoneStep DEF ButFiles
<1>3. ASSUME NEW r, SvBecomes(p, [svProgram[p] EXCEPT !.pc = "running", !.routes = r])
      PROVE  ButFiles' /\ FilesGuarded'
  <2>1. /\ OthersKept(p)
        /\ svProgram'[p] = [svProgram[p] EXCEPT !.pc = "running", !.routes = r]
    BY <1>3, BecomesEffect DEF ButFiles
  <2>2. DOMAIN svProgram[p] = SvFields
    BY DEF ButFiles, StartTypes
  <2>3. /\ DOMAIN svProgram'[p] = SvFields /\ svProgram'[p].pc = "running"
        /\ \A x \in {"conf", "role", "socks", "validator", "answer", "newKey"} :
             svProgram'[p][x] = svProgram[p][x]
    BY <2>1, <2>2 DEF SvFields
  <2>4. /\ svProgram[p].pc \notin Down /\ (SvConf(p).jwt => svProgram[p].validator # NoJWT)
        /\ svProgram[p].socks = Listeners(svProgram[p].conf, Len(svProgram[p].conf.listeners))
    BY <1>1 DEF ButFiles, SocketsConfigured, ValidatorLast, Down, SvConf
  <2> QED BY <1>1, <2>1, <2>3, <2>4, EngineGoes
<1> QED BY <1>2, <1>3 DEF SvAccept

LEMMA StartStep ==
  ASSUME ButFiles, FilesGuarded, NEW p \in SvPrograms, SvStart(p) PROVE ButFiles' /\ FilesGuarded'
<1>1. /\ svPlan # <<>> /\ UNCHANGED <<svPlan, svFile, svServer, svKeys, svOverlap, svStale, svMade>>
      /\ OthersKept(p) /\ svProgram'[p] = [NoProgram EXCEPT !.pc = "listen", !.conf = svPlan[p]]
  BY BecomesEffect DEF SvStart, ButFiles
<1>2. /\ DOMAIN svProgram'[p] = SvFields /\ svProgram'[p].pc = "listen" /\ svProgram'[p].conf = svPlan[p]
      /\ svProgram'[p].role = "signer" /\ svProgram'[p].socks = {} /\ svProgram'[p].validator = NoJWT
      /\ svProgram'[p].answer = "none" /\ svProgram'[p].newKey = 0
  BY <1>1 DEF NoProgram, SvFields
<1>3. "listen" \notin FileStages \cup Down \cup {"syncKey"} /\ "listen" \in SvPcs /\ NoJWT \in SvJWTs
  BY DEF FileStages, HmacStages, RsaStages, Down, SvPcs, NoJWT, SvJWTs
<1>4. StartTypes'
  <2>1. /\ svProgram'[p].pc \in SvPcs /\ svProgram'[p].role \in {"signer", "validator"}
        /\ svProgram'[p].validator \in SvJWTs /\ svProgram'[p].answer \in {"none", "HS", "RS"}
        /\ svProgram'[p].newKey \in Nat
    BY <1>2, <1>3
  <2>2. /\ svFile' \in [SvFiles -> [there : BOOLEAN, content : Nat, secure : BOOLEAN]]
        /\ svKeys' \in Nat /\ svOverlap' \in BOOLEAN /\ svServer' = svServer
        /\ svMade' \subseteq {"signer", "validator"} \X SvJWTs
    BY <1>1 DEF ButFiles, StartTypes
  <2> QED BY <1>1, <1>2, <2>1, <2>2, TypesAside DEF ButFiles
<1>5. SocketsConfigured'
  <2>1. svPlan \in SvPlans
    BY <1>1 DEF ButFiles, SocketsConfigured
  <2>2. Len(svPlan[p].listeners) \in Nat
    BY <2>1, SvAssumption
  <2>3. /\ IsFiniteSet({}) /\ Cardinality({}) = 0
    BY FS_EmptySet
  <2>4. Listeners(svPlan[p], 0) = {}
    BY DEF Listeners
  <2>5. /\ IsFiniteSet(svProgram'[p].socks)
        /\ Cardinality(svProgram'[p].socks) <= Len(svProgram'[p].conf.listeners)
        /\ svProgram'[p].socks = Listeners(svProgram'[p].conf, Cardinality(svProgram'[p].socks))
    BY <1>2, <2>2, <2>3, <2>4
  <2> SUFFICES ASSUME NEW q \in SvPrograms PROVE
        LET s == svProgram'[q]
        IN /\ svPlan = <<>> \/ svPlan \in SvPlans
           /\ s.pc \in Down => s.socks = {}
           /\ s.pc \notin Down => svPlan # <<>> /\ s.conf = svPlan[q]
           /\ s.pc = "listen" => /\ IsFiniteSet(s.socks) /\ Cardinality(s.socks) <= Len(s.conf.listeners)
                                 /\ s.socks = Listeners(s.conf, Cardinality(s.socks))
           /\ s.pc \notin Down \cup {"listen"} => s.socks = Listeners(s.conf, Len(s.conf.listeners))
           /\ s.pc \notin Down => /\ s.conf.tls = "mandatory" => \A l \in s.socks : l.tls
                                  /\ s.conf.tls = "no" => \A l \in s.socks : ~l.tls
    BY <1>1 DEF SocketsConfigured
  <2>6. CASE q # p
    <3>1. svProgram'[q] = svProgram[q]
      BY <1>1, <2>6 DEF OthersKept
    <3> QED BY <3>1 DEF ButFiles, SocketsConfigured
  <2>7. CASE q = p
    BY <1>1, <1>2, <1>3, <2>1, <2>5, <2>7
  <2> QED BY <2>6, <2>7
<1>6. PortsApart'
  <2>1. \A q \in SvPrograms : svProgram'[q].socks \subseteq svProgram[q].socks
    BY <1>1, <1>2 DEF OthersKept
  <2> QED BY <2>1 DEF ButFiles, PortsApart
<1>7. ValidatorLast'
  <2>1. svProgram'[p].pc \notin FileStages /\ svProgram'[p].pc \notin {"accept", "running"}
    BY <1>2, <1>3
  <2>2. \A q \in SvPrograms : q = p \/ svProgram'[q] = svProgram[q]
    BY <1>1 DEF OthersKept
  <2> QED BY <1>2, <2>1, <2>2 DEF ButFiles, ValidatorLast
<1>8. AnswerCurrent' /\ KeyOfTheAlgorithm'
  BY <1>1, <1>2, ServerKept DEF ButFiles
<1>9. FilesGuarded'
  BY <1>1, <1>2, <1>3, FilesAside, OtherStages
<1> QED BY <1>4, <1>5, <1>6, <1>7, <1>8, <1>9 DEF ButFiles

(* One listener more: its port is nobody's. *)
LEMMA ListenerAdded ==
  ASSUME ButFiles, FilesGuarded, NEW p \in SvPrograms, svProgram[p].pc = "listen", NEW l, NEW n,
         n = Cardinality(svProgram[p].socks) + 1, n <= Len(SvConf(p).listeners),
         l = SvConf(p).listeners[n], ~ListenerRefused(p, l),
         l.port \notin UNION {{x.port : x \in svProgram[q].socks} : q \in SvPrograms},
         SvBecomes(p, [svProgram[p] EXCEPT !.socks = @ \cup {l}]),
         UNCHANGED <<svPlan, svFile, svServer, svKeys, svOverlap, svStale, svMade>>
  PROVE  ButFiles' /\ FilesGuarded'
<1>1. PICK S : S = svProgram[p].socks
  OBVIOUS
<1>2. OthersKept(p) /\ svProgram'[p] = [svProgram[p] EXCEPT !.socks = S \cup {l}]
  BY <1>1, BecomesEffect DEF ButFiles
<1>3. DOMAIN svProgram[p] = SvFields
  BY DEF ButFiles, StartTypes
<1>4. /\ DOMAIN svProgram'[p] = SvFields /\ svProgram'[p].pc = "listen"
      /\ svProgram'[p].conf = svProgram[p].conf /\ svProgram'[p].role = svProgram[p].role
      /\ svProgram'[p].socks = S \cup {l} /\ svProgram'[p].validator = svProgram[p].validator
      /\ svProgram'[p].answer = svProgram[p].answer /\ svProgram'[p].newKey = svProgram[p].newKey
  BY <1>2, <1>3 DEF SvFields
<1>5. "listen" \notin FileStages \cup Down \cup {"syncKey", "accept", "running"} /\ "listen" \in SvPcs
  BY DEF FileStages, HmacStages, RsaStages, Down, SvPcs
<1>6. /\ svPlan # <<>> /\ svPlan \in SvPlans /\ SvConf(p) = svPlan[p] /\ svProgram[p].validator = NoJWT
      /\ IsFiniteSet(S) /\ Cardinality(S) <= Len(SvConf(p).listeners)
      /\ S = Listeners(SvConf(p), Cardinality(S))
      /\ SvConf(p).tls = "mandatory" => \A x \in S : x.tls
      /\ SvConf(p).tls = "no" => \A x \in S : ~x.tls
  BY <1>1, <1>5 DEF ButFiles, SocketsConfigured, ValidatorLast, SvConf
<1>7. Cardinality(S) \in Nat /\ n = Cardinality(S) + 1
  BY <1>1, <1>6, FS_CardinalityType
<1>8. \A q \in SvPrograms : \A x \in svProgram[q].socks : x.port # l.port
  OBVIOUS
<1>9. l \notin S
  BY <1>1, <1>8
<1>10. IsFiniteSet(S \cup {l}) /\ Cardinality(S \cup {l}) = n
  <2>1. IsFiniteSet(S \cup {l}) /\ Cardinality(S \cup {l}) = Cardinality(S) + 1
    BY <1>6, <1>9, FS_AddElement
  <2> QED BY <1>7, <2>1
<1>11. S \cup {l} = Listeners(SvConf(p), n)
  <2>1. PICK c \in Nat : c = Cardinality(S)
    BY <1>7
  <2>2. 1..n = (1..c) \cup {n} /\ n = c + 1
    BY <1>7, <2>1
  <2> QED BY <1>6, <2>1, <2>2 DEF Listeners
<1>12. StartTypes'
  <2>1. /\ svProgram'[p].pc \in SvPcs /\ svProgram'[p].role \in {"signer", "validator"}
        /\ svProgram'[p].validator \in SvJWTs /\ svProgram'[p].answer \in {"none", "HS", "RS"}
        /\ svProgram'[p].newKey \in Nat
    BY <1>4, <1>5 DEF ButFiles, StartTypes
  <2>2. /\ svFile' \in [SvFiles -> [there : BOOLEAN, content : Nat, secure : BOOLEAN]]
        /\ svKeys' \in Nat /\ svOverlap' \in BOOLEAN /\ svServer' = svServer
        /\ svMade' \subseteq {"signer", "validator"} \X SvJWTs
    BY DEF ButFiles, StartTypes
  <2> QED BY <1>2, <1>4, <2>1, <2>2, TypesAside DEF ButFiles
<1>13. SocketsConfigured'
  <2> SUFFICES ASSUME NEW q \in SvPrograms PROVE
        LET s == svProgram'[q]
        IN /\ svPlan = <<>> \/ svPlan \in SvPlans
           /\ s.pc \in Down => s.socks = {}
           /\ s.pc \notin Down => svPlan # <<>> /\ s.conf = svPlan[q]
           /\ s.pc = "listen" => /\ IsFiniteSet(s.socks) /\ Cardinality(s.socks) <= Len(s.conf.listeners)
                                 /\ s.socks = Listeners(s.conf, Cardinality(s.socks))
           /\ s.pc \notin Down \cup {"listen"} => s.socks = Listeners(s.conf, Len(s.conf.listeners))
           /\ s.pc \notin Down => /\ s.conf.tls = "mandatory" => \A x \in s.socks : x.tls
                                  /\ s.conf.tls = "no" => \A x \in s.socks : ~x.tls
    BY DEF SocketsConfigured
  <2>1. CASE q # p
    <3>1. svProgram'[q] = svProgram[q]
      BY <1>2, <2>1 DEF OthersKept
    <3> QED BY <3>1 DEF ButFiles, SocketsConfigured
  <2>2. CASE q = p
    <3>1. /\ SvConf(p).tls = "mandatory" => \A x \in S \cup {l} : x.tls
          /\ SvConf(p).tls = "no" => \A x \in S \cup {l} : ~x.tls
      BY <1>6 DEF ListenerRefused
    <3>2. svProgram'[p].conf = SvConf(p)
      BY <1>4 DEF SvConf
    <3> QED BY <1>4, <1>5, <1>6, <1>10, <1>11, <2>2, <3>1, <3>2
  <2> QED BY <2>1, <2>2
<1>14. PortsApart'
  <2> SUFFICES ASSUME NEW q \in SvPrograms, NEW r \in SvPrograms, q # r,
                      NEW x \in svProgram'[q].socks, NEW y \in svProgram'[r].socks
               PROVE  x.port # y.port
    BY DEF PortsApart
  <2>1. x \in svProgram[q].socks \/ (q = p /\ x = l)
    BY <1>1, <1>2, <1>4 DEF OthersKept
  <2>2. y \in svProgram[r].socks \/ (r = p /\ y = l)
    BY <1>1, <1>2, <1>4 DEF OthersKept
  <2> QED BY <1>8, <2>1, <2>2 DEF ButFiles, PortsApart
<1>15. ValidatorLast'
  <2>1. svProgram'[p].pc \notin FileStages /\ svProgram'[p].pc \notin {"accept", "running"}
    BY <1>4, <1>5
  <2>2. \A q \in SvPrograms : q = p \/ svProgram'[q] = svProgram[q]
    BY <1>2 DEF OthersKept
  <2> QED BY <1>4, <1>6, <2>1, <2>2 DEF ButFiles, ValidatorLast
<1>16. AnswerCurrent' /\ KeyOfTheAlgorithm'
  BY <1>2, <1>4, <1>6, ServerKept DEF ButFiles
<1>17. FilesGuarded'
  BY <1>2, <1>4, <1>5, FilesAside, OtherStages
<1> QED BY <1>12, <1>13, <1>14, <1>15, <1>16, <1>17 DEF ButFiles

LEMMA ListenStep ==
  ASSUME ButFiles, FilesGuarded, NEW p \in SvPrograms, SvListen(p) PROVE ButFiles' /\ FilesGuarded'
<1>1. /\ svProgram[p].pc = "listen"
      /\ UNCHANGED <<svPlan, svFile, svServer, svKeys, svOverlap, svStale, svMade>>
  BY DEF SvListen, SvAt
<1>2. CASE SvFails(p)
  BY <1>1, <1>2, FailsEffect, GoneStep DEF ButFiles
<1>3. CASE SvGoes(p, "resources") /\ Cardinality(svProgram[p].socks) + 1 > Len(SvConf(p).listeners)
  <2>1. /\ OthersKept(p) /\ DOMAIN svProgram'[p] = SvFields /\ svProgram'[p].pc = "resources"
        /\ \A x \in SvFields \ {"pc"} : svProgram'[p][x] = svProgram[p][x]
    BY <1>3, GoesEffect DEF ButFiles
  <2>2. {"conf", "role", "socks", "validator", "answer", "newKey"} \subseteq SvFields \ {"pc"}
    BY DEF SvFields
  <2>3. /\ svProgram[p].pc \notin Down /\ svProgram[p].validator = NoJWT
        /\ svPlan \in SvPlans /\ svProgram[p].conf = svPlan[p]
        /\ IsFiniteSet(svProgram[p].socks)
        /\ Cardinality(svProgram[p].socks) <= Len(svProgram[p].conf.listeners)
        /\ svProgram[p].socks = Listeners(svProgram[p].conf, Cardinality(svProgram[p].socks))
    BY <1>1 DEF ButFiles, SocketsConfigured, ValidatorLast, Down
  <2>4. Cardinality(svProgram[p].socks) \in Nat
    BY <2>3, FS_CardinalityType
  <2>5. Len(svProgram[p].conf.listeners) \in Nat
    BY <2>3, SvAssumption
  <2>6. Cardinality(svProgram[p].socks) = Len(svProgram[p].conf.listeners)
    BY <1>3, <2>3, <2>4, <2>5 DEF SvConf
  <2>7. svProgram[p].socks = Listeners(svProgram[p].conf, Len(svProgram[p].conf.listeners))
    BY <2>3, <2>6
  <2> QED BY <1>1, <2>1, <2>2, <2>3, <2>7, EngineGoes
<1>4. PICK n, l : n = Cardinality(svProgram[p].socks) + 1 /\ l = SvConf(p).listeners[n]
  OBVIOUS
<1>5. CASE /\ ~(n > Len(SvConf(p).listeners)) /\ ~ListenerRefused(p, l)
           /\ l.port \notin UNION {{x.port : x \in svProgram[q].socks} : q \in SvPrograms}
           /\ SvBecomes(p, [svProgram[p] EXCEPT !.socks = @ \cup {l}])
  <2>1. n <= Len(SvConf(p).listeners)
    <3>1. /\ svPlan \in SvPlans /\ SvConf(p) = svPlan[p] /\ IsFiniteSet(svProgram[p].socks)
      BY <1>1 DEF ButFiles, SocketsConfigured, Down, SvConf
    <3>2. Len(SvConf(p).listeners) \in Nat
      BY <3>1, SvAssumption
    <3>3. Cardinality(svProgram[p].socks) \in Nat
      BY <3>1, FS_CardinalityType
    <3> QED BY <1>4, <1>5, <3>2, <3>3
  <2> QED BY <1>1, <1>4, <1>5, <2>1, ListenerAdded
<1> QED BY <1>2, <1>3, <1>4, <1>5 DEF SvListen

LEMMA KeyStep ==
  ASSUME ButFiles, FilesGuarded, NEW p \in SvPrograms, SvKey(p) PROVE ButFiles' /\ FilesGuarded'
<1>1. /\ svProgram[p].pc = "key" /\ svProgram[p].pc \in KeyStages
      /\ UNCHANGED <<svPlan, svFile, svServer, svKeys, svOverlap, svStale>>
  BY DEF SvKey, SvAt, KeyStages
<1>2. CASE SvResult(p, NoJWT, FALSE)
  <2>1. NoJWT \in SvJWTs
    BY DEF NoJWT, SvJWTs
  <2> QED BY <1>1, <1>2, <2>1, SyncStep
<1>3. CASE SvKeySource(p) # "none" /\ SvGoes(p, SvKeySource(p)) /\ svMade' = svMade
  <2>1. PICK where : where = SvKeySource(p)
    OBVIOUS
  <2>2. where \in {"syncConfig", "hmacOpen", "rsaOpen"} /\ (where # "syncConfig" => ~SvConf(p).sync)
    BY <1>3, <2>1 DEF SvKeySource
  <2>3. where \in KeyStages /\ where \notin HmacStages \cup RsaStages \cup {"syncKey"}
        /\ (where \in FileStages => where # "syncConfig")
    BY <2>2 DEF KeyStages, FileStages, HmacStages, RsaStages
  <2>4. MovesOn(p) /\ KeyStepTaken(p) /\ OthersKept(p) /\ svProgram'[p].pc = where
    BY <1>1, <1>3, <2>1, <2>3, GoesMovesOn, GoesTaken DEF ButFiles
  <2>5. StartTypes'
    <3>1. /\ svFile' \in [SvFiles -> [there : BOOLEAN, content : Nat, secure : BOOLEAN]]
          /\ svKeys' \in Nat /\ svOverlap' \in BOOLEAN /\ svServer' = svServer
          /\ svMade' \subseteq {"signer", "validator"} \X SvJWTs
      BY <1>1, <1>3 DEF ButFiles, StartTypes
    <3> QED BY <2>4, <3>1, KeyStepTypes DEF ButFiles
  <2>6. SocketsConfigured' /\ PortsApart' /\ ValidatorLast'
    BY <1>1, <2>2, <2>3, <2>4, EnginesKept DEF ButFiles
  <2>7. AnswerCurrent' /\ KeyOfTheAlgorithm'
    <3>1. svProgram'[p].validator = NoJWT
      BY <1>1, <2>4 DEF ButFiles, ValidatorLast, MovesOn
    <3> QED BY <1>1, <2>3, <2>4, <3>1, ServerKept DEF ButFiles
  <2>8. FilesGuarded'
    BY <1>1, <1>3, <2>3, <2>4, FilesAside
  <2> QED BY <2>5, <2>6, <2>7, <2>8 DEF ButFiles
<1> QED BY <1>2, <1>3 DEF SvKey

LEMMA SyncConfigStep ==
  ASSUME ButFiles, FilesGuarded, NEW p \in SvPrograms, SvSyncConfig(p) PROVE ButFiles' /\ FilesGuarded'
<1>1. /\ svProgram[p].pc = "syncConfig" /\ svProgram[p].pc \in KeyStages
      /\ UNCHANGED <<svPlan, svFile, svServer, svKeys, svOverlap>>
  BY DEF SvSyncConfig, SvAt, KeyStages
<1>2. CASE SvResult(p, NoJWT, FALSE) /\ svStale' = svStale
  <2>1. NoJWT \in SvJWTs
    BY DEF NoJWT, SvJWTs
  <2> QED BY <1>1, <1>2, <2>1, SyncStep
<1>3. ASSUME NEW a, a = svServer.alg, svStale' = svStale \ {p}, svMade' = svMade,
             SvBecomes(p, [svProgram[p] EXCEPT !.answer = a, !.pc = "syncKey"])
      PROVE  ButFiles' /\ FilesGuarded'
  <2>1. OthersKept(p) /\ svProgram'[p] = [svProgram[p] EXCEPT !.answer = a, !.pc = "syncKey"]
    BY <1>3, BecomesEffect DEF ButFiles
  <2>2. DOMAIN svProgram[p] = SvFields
    BY DEF ButFiles, StartTypes
  <2>3. /\ DOMAIN svProgram'[p] = SvFields /\ svProgram'[p].pc = "syncKey" /\ svProgram'[p].answer = a
        /\ svProgram'[p].conf = svProgram[p].conf /\ svProgram'[p].role = svProgram[p].role
        /\ svProgram'[p].socks = svProgram[p].socks /\ svProgram'[p].validator = svProgram[p].validator
        /\ svProgram'[p].newKey = svProgram[p].newKey
    BY <2>1, <2>2 DEF SvFields
  <2>4. "syncKey" \in KeyStages /\ "syncKey" \in SvPcs /\ "syncKey" \notin FileStages
    BY DEF KeyStages, SvPcs, FileStages, HmacStages, RsaStages
  <2>5. StartTypes'
    <3>1. /\ svProgram'[p].pc \in SvPcs /\ svProgram'[p].role \in {"signer", "validator"}
          /\ svProgram'[p].validator \in SvJWTs /\ svProgram'[p].answer \in {"none", "HS", "RS"}
          /\ svProgram'[p].newKey \in Nat
      BY <1>3, <2>3, <2>4 DEF ButFiles, StartTypes
    <3>2. /\ svFile' \in [SvFiles -> [there : BOOLEAN, content : Nat, secure : BOOLEAN]]
          /\ svKeys' \in Nat /\ svOverlap' \in BOOLEAN /\ svServer' = svServer
          /\ svMade' \subseteq {"signer", "validator"} \X SvJWTs
      BY <1>1, <1>3 DEF ButFiles, StartTypes
    <3> QED BY <2>1, <2>3, <3>1, <3>2, TypesAside DEF ButFiles
  <2>6. SocketsConfigured' /\ PortsApart' /\ ValidatorLast'
    <3>1. MovesOn(p) /\ (svProgram'[p].pc \in FileStages => ~SvConf(p).sync)
      BY <1>1, <2>1, <2>3, <2>4 DEF MovesOn
    <3> QED BY <1>1, <3>1, EnginesKept DEF ButFiles
  <2>7. AnswerCurrent' /\ KeyOfTheAlgorithm'
    <3>1. svProgram'[p].validator = NoJWT
      BY <1>1, <2>3 DEF ButFiles, ValidatorLast
    <3> QED BY <1>1, <1>3, <2>1, <2>3, <3>1, ServerKept DEF ButFiles
  <2>8. FilesGuarded'
    BY <1>1, <1>3, <2>1, <2>3, <2>4, FilesAside, OtherStages
  <2> QED BY <2>5, <2>6, <2>7, <2>8 DEF ButFiles
<1> QED BY <1>2, <1>3 DEF SvSyncConfig, SyncReplies

LEMMA SyncKeyStep ==
  ASSUME ButFiles, FilesGuarded, NEW p \in SvPrograms, SvSyncKey(p) PROVE ButFiles' /\ FilesGuarded'
<1>1. /\ svProgram[p].pc = "syncKey"
      /\ UNCHANGED <<svPlan, svFile, svServer, svKeys, svOverlap, svStale>>
  BY DEF SvSyncKey, SvAt
<1>2. PICK key : key \in {0, svServer.key} /\ SvResult(p, SvJWT(svProgram[p].answer, key), FALSE)
  BY DEF SvSyncKey
<1>3. key \in Nat /\ svProgram[p].answer \in {"none", "HS", "RS"}
  BY <1>2 DEF ButFiles, StartTypes
<1>4. PICK jwt \in SvJWTs : jwt = SvJWT(svProgram[p].answer, key)
  BY <1>3, JWTMade
<1>5. jwt # NoJWT => jwt.alg = svProgram[p].answer /\ jwt.key = svServer.key
  BY <1>2, <1>4 DEF SvJWT
<1>6. p \notin svStale => svProgram[p].answer = svServer.alg
  BY <1>1 DEF ButFiles, AnswerCurrent, SvAt
<1>7. jwt # NoJWT /\ p \notin svStale => (jwt.alg = "HS") = (jwt.key % 2 = 1)
  BY <1>5, <1>6 DEF ButFiles, AnswerCurrent
<1> QED BY <1>1, <1>2, <1>4, <1>7, SyncStep

LEMMA KilledStep ==
  ASSUME ButFiles, FilesGuarded, NEW p \in SvPrograms, SvKilled(p) PROVE ButFiles' /\ FilesGuarded'
<1>1. OthersKept(p) /\ svProgram'[p] = NoProgram
      /\ UNCHANGED <<svPlan, svFile, svServer, svKeys, svOverlap, svStale, svMade>>
  BY BecomesEffect DEF SvKilled, ButFiles
<1>2. Gone(p)
  BY <1>1 DEF Gone, Down, NoProgram, SvFields
<1> QED BY <1>1, <1>2, GoneStep

LEMMA PlannedStep ==
  ASSUME ButFiles, FilesGuarded, NEW plan \in SvPlans, SvPlanned(plan) PROVE ButFiles' /\ FilesGuarded'
<1>1. /\ svPlan = <<>> /\ svPlan' \in SvPlans
      /\ UNCHANGED <<svProgram, svFile, svServer, svKeys, svOverlap, svStale, svMade>>
  BY DEF SvPlanned
<1>2. \A p \in SvPrograms : svProgram[p].pc \in Down
  BY <1>1 DEF ButFiles, SocketsConfigured
<1>3. SocketsConfigured'
  BY <1>1, <1>2 DEF ButFiles, SocketsConfigured, Down
<1>4. StartTypes' /\ PortsApart' /\ ValidatorLast' /\ AnswerCurrent' /\ KeyOfTheAlgorithm'
  BY <1>1 DEF ButFiles, StartTypes, PortsApart, ValidatorLast, AnswerCurrent, KeyOfTheAlgorithm, SvAt, SvConf
<1>5. FilesGuarded'
  BY <1>1 DEF FilesGuarded, OneCreates, CreatedFresh, UsedIsStored, Written, SvAt
<1> QED BY <1>3, <1>4, <1>5 DEF ButFiles

(* The file the administrator provides was not there, so nobody has its key. *)
LEMMA ProvidedStep ==
  ASSUME ButFiles, FilesGuarded, NEW secure \in BOOLEAN, SvProvided(secure) PROVE ButFiles' /\ FilesGuarded'
<1>1. /\ \A p \in SvPrograms : svProgram[p].pc = "off"
      /\ \A f \in SvFiles : ~svFile[f].there
      /\ svFile' = [svFile EXCEPT !["hmac"] = [there |-> TRUE, content |-> 1, secure |-> secure]]
      /\ UNCHANGED <<svPlan, svProgram, svServer, svKeys, svOverlap, svStale, svMade>>
  BY DEF SvProvided, SvAt
<1>2. svFile' \in [SvFiles -> [there : BOOLEAN, content : Nat, secure : BOOLEAN]]
  BY <1>1 DEF ButFiles, StartTypes, SvFiles
<1>3. StartTypes'
  BY <1>1, <1>2 DEF ButFiles, StartTypes
<1>4. SocketsConfigured' /\ PortsApart' /\ ValidatorLast' /\ AnswerCurrent' /\ KeyOfTheAlgorithm'
  BY <1>1 DEF ButFiles, SocketsConfigured, PortsApart, ValidatorLast, AnswerCurrent, KeyOfTheAlgorithm,
              SvAt, SvConf
<1>5. ASSUME ~svOverlap' PROVE OneCreates' /\ CreatedFresh' /\ UsedIsStored'
  <2>1. OneCreates /\ CreatedFresh /\ UsedIsStored
    BY <1>1, <1>5 DEF FilesGuarded
  <2>2. /\ svFile'["private"] = svFile["private"] /\ svFile'["public"] = svFile["public"]
        /\ svFile'["hmac"].there
    BY <1>1 DEF ButFiles, StartTypes, SvFiles
  <2>3. ~Written("hmac") /\ ~Written("private") /\ ~Written("public")
    BY <1>1, <2>1 DEF CreatedFresh, SvFiles
  <2>4. OneCreates'
    BY <1>1, <2>1 DEF OneCreates
  <2>5. CreatedFresh'
    BY <1>1, <2>1, <2>2, <2>3 DEF CreatedFresh, Written, SvAt, SvFiles
  <2>6. UsedIsStored'
    BY <1>1, <2>1, <2>3 DEF UsedIsStored
  <2> QED BY <2>4, <2>5, <2>6
<1> QED BY <1>3, <1>4, <1>5 DEF ButFiles, FilesGuarded

LEMMA RotatesStep ==
  ASSUME ButFiles, FilesGuarded, SvServerRotates PROVE ButFiles' /\ FilesGuarded'
<1>1. /\ svServer' = [alg |-> IF svServer.alg = "HS" THEN "RS" ELSE "HS", key |-> svServer.key + 1]
      /\ svStale' = svStale \cup {p \in SvPrograms : SvAt(p, "syncKey")}
      /\ UNCHANGED <<svPlan, svProgram, svFile, svKeys, svOverlap, svMade>>
  BY DEF SvServerRotates
<1>2. PICK k \in Nat : k = svServer.key
  BY DEF ButFiles, StartTypes
<1>3. svServer'.key = k + 1 /\ k + 1 \in Nat /\ svServer'.alg \in {"HS", "RS"}
      /\ (svServer'.alg = "HS") = ~(svServer.alg = "HS")
  BY <1>1, <1>2 DEF ButFiles, StartTypes
<1>4. ((k + 1) % 2 = 1) = ~(k % 2 = 1)
  OBVIOUS
<1>5. AnswerCurrent'
  <2>1. (svServer.alg = "HS") = (k % 2 = 1)
    BY <1>2 DEF ButFiles, AnswerCurrent
  <2>2. (svServer'.alg = "HS") = (svServer'.key % 2 = 1)
    BY <1>3, <1>4, <2>1
  <2> QED BY <1>1, <2>2 DEF AnswerCurrent, SvAt
<1>6. StartTypes'
  BY <1>1, <1>2, <1>3 DEF ButFiles, StartTypes
<1>7. SocketsConfigured' /\ PortsApart' /\ ValidatorLast' /\ KeyOfTheAlgorithm'
  BY <1>1 DEF ButFiles, SocketsConfigured, PortsApart, ValidatorLast, KeyOfTheAlgorithm, SvConf
<1>8. FilesGuarded'
  BY <1>1 DEF FilesGuarded, OneCreates, CreatedFresh, UsedIsStored, Written, SvAt
<1> QED BY <1>5, <1>6, <1>7, <1>8 DEF ButFiles

LEMMA StartInvInit == SvInit => StartInv
<1> SUFFICES ASSUME SvInit PROVE StartInv
  OBVIOUS
<1>1. \A p \in SvPrograms : svProgram[p] = NoProgram
  BY DEF SvInit
<1>2. \A p \in SvPrograms :
        /\ DOMAIN svProgram[p] = SvFields /\ svProgram[p].pc = "off" /\ svProgram[p].role = "signer"
        /\ svProgram[p].socks = {} /\ svProgram[p].validator = NoJWT /\ svProgram[p].answer = "none"
        /\ svProgram[p].newKey = 0
  BY <1>1 DEF NoProgram, SvFields
<1>3. /\ "off" \in SvPcs /\ "off" \in Down /\ NoJWT \in SvJWTs
      /\ "off" \notin FileStages \cup {"listen", "accept", "running", "syncKey"}
  BY DEF SvPcs, Down, NoJWT, SvJWTs, FileStages, HmacStages, RsaStages
<1>4. StartTypes
  <2>1. svFile \in [SvFiles -> [there : BOOLEAN, content : Nat, secure : BOOLEAN]]
    BY DEF SvInit, SvNoFile
  <2>2. /\ svServer \in [alg : {"HS", "RS"}, key : Nat] /\ svKeys \in Nat /\ svOverlap \in BOOLEAN
        /\ svMade = {} /\ DOMAIN svProgram = SvPrograms
    BY DEF SvInit
  <2> QED BY <1>2, <1>3, <2>1, <2>2 DEF StartTypes
<1>5. SocketsConfigured /\ PortsApart
  BY <1>2, <1>3 DEF SvInit, SocketsConfigured, PortsApart
<1>6. ValidatorLast /\ KeyOfTheAlgorithm
  BY <1>2, <1>3 DEF ValidatorLast, KeyOfTheAlgorithm
<1>7. AnswerCurrent
  BY <1>2 DEF SvInit, AnswerCurrent, SvAt
<1>8. FilesGuarded
  BY <1>2, <1>3, OtherStages DEF SvInit, FilesGuarded, OneCreates, CreatedFresh, UsedIsStored, Written, SvAt,
                  SvNoFile, SvFiles
<1> QED BY <1>4, <1>5, <1>6, <1>7, <1>8 DEF StartInv, ButFiles

LEMMA StartInvStep == StartInv /\ [SvNext]_svVars => StartInv'
<1> SUFFICES ASSUME StartInv, [SvNext]_svVars PROVE ButFiles' /\ FilesGuarded'
  BY DEF StartInv, ButFiles
<1>1. ButFiles /\ FilesGuarded
  BY DEF StartInv, ButFiles
<1>2. ASSUME NEW plan \in SvPlans, SvPlanned(plan) PROVE ButFiles' /\ FilesGuarded'
  BY <1>1, <1>2, PlannedStep
<1>3. ASSUME NEW p \in SvPrograms,
             \/ SvStart(p) \/ SvListen(p) \/ SvResources(p) \/ SvKey(p) \/ SvSyncConfig(p) \/ SvSyncKey(p)
             \/ SvAccept(p) \/ SvKilled(p)
      PROVE  ButFiles' /\ FilesGuarded'
  BY <1>1, <1>3, StartStep, ListenStep, ResourcesStep, KeyStep, SyncConfigStep, SyncKeyStep, AcceptStep,
     KilledStep
<1>4. ASSUME NEW p \in SvPrograms,
             \/ HmacOpen(p) \/ HmacCreate(p) \/ HmacWrite(p) \/ HmacRead(p)
             \/ RsaOpen(p) \/ RsaCheck(p) \/ RsaPrivate(p) \/ RsaPublic(p)
             \/ RsaWrite(p, "public", "rsaWrite", "rsaClose")
             \/ RsaWrite(p, "private", "rsaClose", "rsaRead") \/ RsaRead(p)
      PROVE  ButFiles' /\ FilesGuarded'
  BY <1>4, HmacOpenStep, HmacCreateStep, HmacWriteStep, HmacReadStep, RsaOpenStep, RsaCheckStep,
     RsaPrivateStep, RsaPublicStep, RsaWriteStep, RsaReadStep
<1>5. ASSUME NEW secure \in BOOLEAN, SvProvided(secure) PROVE ButFiles' /\ FilesGuarded'
  BY <1>1, <1>5, ProvidedStep
<1>6. CASE SvServerRotates
  BY <1>1, <1>6, RotatesStep
<1>7. CASE UNCHANGED svVars
  <2>1. UNCHANGED <<svPlan, svProgram, svFile, svServer, svKeys, svOverlap, svStale, svMade>>
    BY <1>7 DEF svVars
  <2>2. ButFiles'
    BY <1>1, <2>1 DEF ButFiles, StartTypes, SocketsConfigured, PortsApart, ValidatorLast, AnswerCurrent,
                      KeyOfTheAlgorithm, SvAt, SvConf
  <2>3. FilesGuarded'
    BY <1>1, <2>1 DEF FilesGuarded, OneCreates, CreatedFresh, UsedIsStored, Written, SvAt
  <2> QED BY <2>2, <2>3
<1> QED BY <1>2, <1>3, <1>4, <1>5, <1>6, <1>7 DEF SvNext

(* ServiceSound, for any number of programs that share the key files, any configurations,
   kills and changes of the API server's key: signers and validators that two programs,
   or one before and after a kill, made from the files of an algorithm have one key; the
   key of the API server goes with the algorithm that came with it; an engine that runs
   has all its sockets, to itself, and a validator. *)
THEOREM ServiceIsSound == SvSpec => []ServiceSound
<1>1. StartInv => ServiceSound
  <2> SUFFICES ASSUME StartInv PROVE OneKey /\ EngineComplete
    BY DEF StartInv, ButFiles, ServiceSound
  <2>1. OneKey
    <3> SUFFICES ASSUME ~svOverlap, NEW a \in svMade, NEW b \in svMade, a[2].alg = b[2].alg
                 PROVE  a[2].key = b[2].key
      BY DEF OneKey
    <3>1. CreatedFresh /\ UsedIsStored
      BY DEF StartInv, ButFiles, FilesGuarded
    <3> QED BY <3>1 DEF CreatedFresh, UsedIsStored
  <2>2. EngineComplete
    <3> SUFFICES ASSUME NEW p \in SvPrograms, svProgram[p].pc = "running"
                 PROVE  /\ svProgram[p].socks = Listeners(SvConf(p), Len(SvConf(p).listeners))
                        /\ SvConf(p).tls = "mandatory" => \A l \in svProgram[p].socks : l.tls
                        /\ SvConf(p).tls = "no" => \A l \in svProgram[p].socks : ~l.tls
                        /\ \A q \in SvPrograms \ {p}, l \in svProgram[p].socks :
                             \A m \in svProgram[q].socks : l.port # m.port
                        /\ SvConf(p).jwt => svProgram[p].validator # NoJWT
      BY DEF EngineComplete, SvAt, Listeners
    <3>1. SocketsConfigured /\ PortsApart /\ ValidatorLast
      BY DEF StartInv, ButFiles
    <3>2. \A q \in SvPrograms \ {p}, l \in svProgram[p].socks :
             \A m \in svProgram[q].socks : l.port # m.port
      BY <3>1 DEF PortsApart
    <3> QED BY <3>1, <3>2 DEF SocketsConfigured, ValidatorLast, Down, SvConf
  <2> QED BY <2>1, <2>2
<1> QED BY <1>1, StartInvInit, StartInvStep, PTL DEF SvSpec
=============================================================================
