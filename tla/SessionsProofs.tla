--------------------------- MODULE SessionsProofs ---------------------------
(***************************************************************************)
(* Proofs about WebSessionsManager, for any number of clients, users and   *)
(* session ids and any quota of at least one session.                      *)
(***************************************************************************)
EXTENDS WebSessionsManager, FiniteSetTheorems, TLAPS

GcHolds == gpc \in {"check", "release", "releaseExpired"}
Holds(c) == cpc[c] \in {"hold", "destroyRelease"}
Destroys(c) == cpc[c] \in {"destroyWait", "destroyErase"}

\* A thread in the middle of an operation has the id of its session.
WorkingIds ==
    /\ \A c \in Clients : cpc[c] # "idle" => cid[c] \in Ids
    /\ gpc \in {"check", "release", "releaseExpired", "destroy", "destroyWait"} => gid \in Ids

\* The reader counter counts the clients and the collector that opened the
\* session and have not released it.
Holders(id) == {c \in Clients : Holds(c) /\ cid[c] = id}

ReadersExact ==
    \A id \in Ids : readers[id] = Cardinality(Holders(id)) + (IF GcHolds /\ gid = id THEN 1 ELSE 0)

\* A session has one creator and one destroyer: the thread that hid it.
OneCreator ==
    /\ \A c \in Clients : cpc[c] = "create" => session[cid[c]] = "unused" /\ user[cid[c]] \in Users
    /\ \A c, d \in Clients : cpc[c] = "create" /\ cpc[d] = "create" /\ cid[c] = cid[d] => c = d

OneDestroyer ==
    /\ \A c \in Clients : cpc[c] = "destroyWait" => session[cid[c]] = "hidden"
    /\ \A c \in Clients : cpc[c] = "destroyErase" => session[cid[c]] = "deleted"
    /\ \A c, d \in Clients : Destroys(c) /\ Destroys(d) /\ cid[c] = cid[d] => c = d
    /\ gpc = "destroyWait" => /\ session[gid] = "hidden"
                              /\ \A c \in Clients : ~(Destroys(c) /\ cid[c] = gid)

\* A session is registered from before it enters the map until its destroyer
\* erases it.
Registered(id) == user[id] \in Users /\ id \in info[user[id]]

RegisteredWhileLive ==
    /\ \A id \in Ids : session[id] \in {"open", "hidden"} => Registered(id)
    /\ \A c \in Clients : cpc[c] \in {"create", "destroyWait", "destroyErase"} => Registered(cid[c])

Quota == \A u \in Users : Cardinality(info[u]) <= MaxSessionsPerUser

SessionInv ==
    /\ TypeOK /\ WorkingIds /\ ReadersExact /\ NoUseAfterFree
    /\ OneCreator /\ OneDestroyer /\ RegisteredWhileLive /\ Quota /\ NeverUnregistered

-----------------------------------------------------------------------------
(* The reader counters.                                                    *)

LEMMA HoldersFinite == \A id : IsFiniteSet(Holders(id)) /\ Cardinality(Holders(id)) \in Nat
<1> SUFFICES ASSUME NEW id PROVE IsFiniteSet(Holders(id)) /\ Cardinality(Holders(id)) \in Nat
  OBVIOUS
<1>1. IsFiniteSet(Clients) /\ Holders(id) \in SUBSET Clients
  BY SessionsAssumption DEF Holders
<1>2. IsFiniteSet(Holders(id))
  BY <1>1, FS_Subset
<1> QED BY <1>2, FS_CardinalityType

\* A client opens an element.
LEMMA ClientOpens ==
    ASSUME TypeOK, ReadersExact, NEW c \in Clients, NEW id \in Ids, cpc[c] = "idle",
           readers' = [readers EXCEPT ![id] = @ + 1], NEW pc \in {"hold", "destroyRelease"},
           Goto(c, pc, id), UNCHANGED <<gpc, gid>>
    PROVE  ReadersExact' /\ readers' \in [Ids -> Nat]
<1> USE DEF TypeOK, Goto
<1>1. Holders(id)' = Holders(id) \cup {c} /\ c \notin Holders(id)
  BY DEF Holders, Holds
<1>2. \A i \in Ids : i # id => Holders(i)' = Holders(i)
  BY DEF Holders, Holds
<1>3. Cardinality(Holders(id)') = Cardinality(Holders(id)) + 1
  <2>1. IsFiniteSet(Holders(id))
    BY HoldersFinite
  <2>2. Cardinality(Holders(id) \cup {c}) = Cardinality(Holders(id)) + 1
    BY <1>1, <2>1, FS_AddElement
  <2> QED BY <1>1, <2>2
<1>4. GcHolds' = GcHolds /\ gid' = gid
  BY DEF GcHolds
<1>5. readers'[id] = readers[id] + 1 /\ \A i \in Ids : i # id => readers'[i] = readers[i]
  OBVIOUS
<1>6. ASSUME NEW i \in Ids
      PROVE  readers'[i] = Cardinality(Holders(i)') + (IF GcHolds' /\ gid' = i THEN 1 ELSE 0)
  <2>1. CASE i = id BY <1>3, <1>4, <1>5, <2>1, HoldersFinite DEF ReadersExact
  <2>2. CASE i # id BY <1>2, <1>4, <1>5, <2>2 DEF ReadersExact
  <2> QED BY <2>1, <2>2
<1>7. readers' \in [Ids -> Nat]
  OBVIOUS
<1> QED BY <1>6, <1>7 DEF ReadersExact

\* A client releases its element: the counter was positive.
LEMMA ClientReleases ==
    ASSUME TypeOK, ReadersExact, WorkingIds, NEW c \in Clients, Holds(c),
           readers' = [readers EXCEPT ![cid[c]] = @ - 1], NEW pc \in {"idle", "destroy"}, NEW i,
           Goto(c, pc, i), UNCHANGED <<gpc, gid>>
    PROVE  ReadersExact' /\ readers' \in [Ids -> Nat]
<1> USE DEF TypeOK, Goto
<1>0. PICK id \in Ids : id = cid[c]
  BY DEF WorkingIds, Holds
<1>1. Holders(id)' = Holders(id) \ {c} /\ c \in Holders(id)
  BY <1>0 DEF Holders, Holds
<1>2. \A j \in Ids : j # id => Holders(j)' = Holders(j)
  BY <1>0 DEF Holders, Holds
<1>3. Cardinality(Holders(id)') = Cardinality(Holders(id)) - 1 /\ Cardinality(Holders(id)) # 0
  <2>1. IsFiniteSet(Holders(id))
    BY HoldersFinite
  <2>2. Cardinality(Holders(id) \ {c}) = Cardinality(Holders(id)) - 1
    BY <1>1, <2>1, FS_RemoveElement
  <2> QED BY <1>1, <2>1, <2>2, FS_EmptySet
<1>4. GcHolds' = GcHolds /\ gid' = gid
  BY DEF GcHolds
<1>5. readers'[id] = readers[id] - 1 /\ \A j \in Ids : j # id => readers'[j] = readers[j]
  BY <1>0
<1>6. ASSUME NEW j \in Ids
      PROVE  readers'[j] = Cardinality(Holders(j)') + (IF GcHolds' /\ gid' = j THEN 1 ELSE 0)
  <2>1. CASE j = id BY <1>3, <1>4, <1>5, <2>1, HoldersFinite DEF ReadersExact
  <2>2. CASE j # id BY <1>2, <1>4, <1>5, <2>2 DEF ReadersExact
  <2> QED BY <2>1, <2>2
<1>7. readers[id] - 1 \in Nat
  BY <1>0, <1>3, HoldersFinite DEF ReadersExact
<1>8. readers' \in [Ids -> Nat]
  BY <1>0, <1>7
<1> QED BY <1>6, <1>8 DEF ReadersExact

\* Nobody opens or releases.
LEMMA ReadersFrame ==
    ASSUME ReadersExact, UNCHANGED <<readers, gid>>, GcHolds' = GcHolds,
           \A c \in Clients : (Holds(c) \/ Holds(c)') => (Holds(c) /\ Holds(c)' /\ cid'[c] = cid[c])
    PROVE  ReadersExact'
<1>1. \A i \in Ids : Holders(i)' = Holders(i)
  BY DEF Holders
<1> QED BY <1>1 DEF ReadersExact

\* The collector opens or releases an element.
LEMMA CollectorCounts ==
    ASSUME SessionInv, (\E id \in Ids : GcOpen(id)) \/ GcRelease
    PROVE  ReadersExact' /\ readers' \in [Ids -> Nat]
<1> USE DEF SessionInv, TypeOK, clientVars
<1>1. \A i \in Ids : Holders(i)' = Holders(i)
  BY DEF GcOpen, GcRelease, Holders, Holds
<1>2. ASSUME NEW id \in Ids, GcOpen(id) PROVE ReadersExact' /\ readers' \in [Ids -> Nat]
  <2>1. CASE session[id] # "open"
    BY <1>1, <1>2, <2>1 DEF GcOpen, ReadersExact, GcHolds
  <2>2. CASE session[id] = "open"
    <3>1. ~GcHolds /\ GcHolds' /\ gid' = id /\ readers' = [readers EXCEPT ![id] = readers[id] + 1]
      BY <1>2, <2>2 DEF GcOpen, GcHolds
    <3>2. readers' \in [Ids -> Nat] /\ readers'[id] = readers[id] + 1
          /\ \A i \in Ids : i # id => readers'[i] = readers[i]
      BY <3>1
    <3> QED BY <1>1, <3>1, <3>2, HoldersFinite DEF ReadersExact
  <2> QED BY <2>1, <2>2
<1>3. CASE GcRelease
  <2>1. GcHolds /\ ~GcHolds' /\ gid' = gid /\ gid \in Ids /\ readers' = [readers EXCEPT ![gid] = readers[gid] - 1]
    BY <1>3 DEF GcRelease, GcHolds, WorkingIds
  <2>2. readers[gid] = Cardinality(Holders(gid)) + 1
    BY <2>1 DEF ReadersExact
  <2>3. readers'[gid] = readers[gid] - 1 /\ readers' \in [Ids -> Nat]
        /\ \A i \in Ids : i # gid => readers'[i] = readers[i]
    BY <2>1, <2>2, HoldersFinite
  <2> QED BY <1>1, <2>1, <2>2, <2>3, HoldersFinite DEF ReadersExact
<1> QED BY <1>2, <1>3

\* With no reader counted nobody holds the session.
LEMMA NoHolder ==
    ASSUME ReadersExact, NEW id \in Ids, readers[id] = 0
    PROVE  /\ \A c \in Clients : ~(Holds(c) /\ cid[c] = id)
           /\ ~(GcHolds /\ gid = id)
<1>1. Cardinality(Holders(id)) = 0 /\ ~(GcHolds /\ gid = id)
  BY HoldersFinite DEF ReadersExact
<1>2. Holders(id) = {}
  BY <1>1, HoldersFinite, FS_EmptySet
<1> QED BY <1>1, <1>2 DEF Holders
-----------------------------------------------------------------------------
(* The steps of the clients.                                               *)

LEMMA RegisterStep ==
    ASSUME SessionInv, NEW c \in Clients, NEW u \in Users, NEW id \in Ids, CreateRegister(c, u, id)
    PROVE  SessionInv'
<1> USE DEF SessionInv
<1>1. /\ cpc[c] = "idle" /\ session[id] = "unused" /\ user[id] = NoUser
      /\ info' = [info EXCEPT ![u] = info[u] \cup {id}] /\ user' = [user EXCEPT ![id] = u]
      /\ cpc' = [cpc EXCEPT ![c] = "create"] /\ cid' = [cid EXCEPT ![c] = id]
      /\ UNCHANGED <<session, readers, fresh, gpc, gkeys, gid, finished, stopper>>
  BY DEF CreateRegister, Goto, gcVars, stopVars
<1>2. TypeOK' /\ WorkingIds'
  BY <1>1 DEF TypeOK, WorkingIds
<1>3. ReadersExact'
  BY <1>1, ReadersFrame DEF TypeOK, GcHolds, Holds
<1>4. NoUseAfterFree' /\ NeverUnregistered'
  BY <1>1 DEF TypeOK, NoUseAfterFree, NeverUnregistered
<1>5. \A d \in Clients : cpc[d] = "create" => cid[d] # id
  BY <1>1, SessionsAssumption DEF OneCreator
<1>6. OneCreator' /\ OneDestroyer'
  BY <1>1, <1>5 DEF TypeOK, OneCreator, OneDestroyer, Destroys
<1>7. \A i \in Ids : Registered(i) => Registered(i)'
  BY <1>1, SessionsAssumption DEF TypeOK, Registered
<1>8. RegisteredWhileLive'
  <2>1. Registered(id)'
    BY <1>1 DEF TypeOK, Registered
  <2>2. \A i \in Ids : session'[i] \in {"open", "hidden"} => Registered(i)'
    BY <1>1, <1>7 DEF RegisteredWhileLive
  <2>3. ASSUME NEW d \in Clients, cpc'[d] \in {"create", "destroyWait", "destroyErase"}
        PROVE  cid'[d] \in Ids /\ (cid'[d] = id \/ (Registered(cid[d]) /\ cid'[d] = cid[d]))
    <3>0. cid'[c] = id
      BY <1>1 DEF TypeOK
    <3>1. CASE d = c BY <3>0, <3>1
    <3>2. CASE d # c
      <4>1. cpc[d] = cpc'[d] /\ cid'[d] = cid[d]
        BY <1>1, <3>2 DEF TypeOK
      <4> QED BY <2>3, <4>1 DEF WorkingIds, RegisteredWhileLive
    <3> QED BY <3>1, <3>2
  <2>4. ASSUME NEW d \in Clients, cpc'[d] \in {"create", "destroyWait", "destroyErase"}
        PROVE  user'[cid'[d]] \in Users /\ cid'[d] \in info'[user'[cid'[d]]]
    BY <1>7, <2>1, <2>3, <2>4 DEF Registered
  <2> QED BY <2>2, <2>4 DEF RegisteredWhileLive, Registered
<1>9. Quota'
  <2>1. IsFiniteSet(info[u])
    BY SessionsAssumption, FS_Subset DEF TypeOK
  <2>2. Cardinality(info[u] \cup {id}) <= Cardinality(info[u]) + 1 /\ Cardinality(info[u]) \in Nat
    <3>1. Cardinality(info[u]) \in Nat
      BY <2>1, FS_CardinalityType
    <3>2. Cardinality(info[u] \cup {id}) = IF id \in info[u] THEN Cardinality(info[u]) ELSE Cardinality(info[u]) + 1
      BY <2>1, FS_AddElement
    <3> QED BY <3>1, <3>2
  <2>3. info[u] = {} => Cardinality(info[u]) = 0
    BY FS_EmptySet
  <2>4. Cardinality(info[u] \cup {id}) \in Nat
    BY <2>1, FS_AddElement, FS_CardinalityType
  <2>5. Cardinality(info[u] \cup {id}) <= MaxSessionsPerUser
    BY <2>2, <2>3, <2>4, SessionsAssumption DEF CreateRegister
  <2> QED BY <1>1, <2>5 DEF TypeOK, Quota
<1> QED BY <1>2, <1>3, <1>4, <1>6, <1>8, <1>9

LEMMA AddStep ==
    ASSUME SessionInv, NEW c \in Clients, CreateAdd(c)
    PROVE  SessionInv'
<1> USE DEF SessionInv
<1>1. /\ cpc[c] = "create" /\ session' = [session EXCEPT ![cid[c]] = "open"]
      /\ fresh' = fresh \cup {cid[c]}
      /\ cpc' = [cpc EXCEPT ![c] = "idle"] /\ cid' = [cid EXCEPT ![c] = NoId]
      /\ UNCHANGED <<readers, user, info, gpc, gkeys, gid, finished, stopper>>
  BY DEF CreateAdd, Goto, gcVars, stopVars
<1>2. cid[c] \in Ids /\ session[cid[c]] = "unused" /\ Registered(cid[c])
  BY <1>1 DEF WorkingIds, OneCreator, RegisteredWhileLive
<1>3. TypeOK' /\ WorkingIds'
  BY <1>1, <1>2 DEF TypeOK, WorkingIds
<1>4. ReadersExact'
  BY <1>1, ReadersFrame DEF TypeOK, GcHolds, Holds
<1>5. NoUseAfterFree' /\ NeverUnregistered'
  BY <1>1, <1>2 DEF TypeOK, NoUseAfterFree, NeverUnregistered
<1>6. OneCreator'
  BY <1>1, <1>2 DEF TypeOK, OneCreator
<1>7. OneDestroyer'
  BY <1>1, <1>2 DEF TypeOK, OneDestroyer, Destroys
<1>8. RegisteredWhileLive'
  BY <1>1, <1>2 DEF TypeOK, RegisteredWhileLive, Registered
<1>9. Quota'
  BY <1>1 DEF Quota
<1> QED BY <1>3, <1>4, <1>5, <1>6, <1>7, <1>8, <1>9

\* The steps of a client that only move its program counter and the readers.
LEMMA HoldStep ==
    ASSUME SessionInv, NEW c \in Clients,
           \/ \E id \in Ids : OpenSession(c, id) \/ DestroyOpen(c, id)
           \/ ReleaseSession(c) \/ DestroyRelease(c)
    PROVE  SessionInv'
<1> USE DEF SessionInv
<1>1. UNCHANGED <<session, user, fresh, info, gpc, gkeys, gid, finished, stopper>>
  BY DEF OpenSession, DestroyOpen, ReleaseSession, DestroyRelease, gcVars, stopVars
<1>2. ReadersExact' /\ readers' \in [Ids -> Nat]
  BY <1>1, ClientOpens, ClientReleases DEF OpenSession, DestroyOpen, ReleaseSession, DestroyRelease, Holds
<1>3. PICK pc \in {"hold", "destroyRelease", "idle", "destroy"}, id \in Ids \cup {NoId} :
         /\ cpc' = [cpc EXCEPT ![c] = pc] /\ cid' = [cid EXCEPT ![c] = id]
         /\ pc # "idle" => id \in Ids
         /\ pc \in {"hold", "destroyRelease"} => session[id] = "open"
         /\ cpc[c] \in {"idle", "hold", "destroyRelease"}
  BY DEF OpenSession, DestroyOpen, ReleaseSession, DestroyRelease, Goto, WorkingIds
<1>4. TypeOK' /\ WorkingIds'
  BY <1>1, <1>2, <1>3 DEF TypeOK, WorkingIds
<1>5. NoUseAfterFree' /\ NeverUnregistered'
  BY <1>1, <1>3 DEF TypeOK, NoUseAfterFree, NeverUnregistered
<1>6. OneCreator' /\ OneDestroyer'
  BY <1>1, <1>3 DEF TypeOK, OneCreator, OneDestroyer, Destroys
<1>7. RegisteredWhileLive' /\ Quota'
  BY <1>1, <1>3 DEF TypeOK, RegisteredWhileLive, Registered, Quota
<1> QED BY <1>2, <1>4, <1>5, <1>6, <1>7

LEMMA HideStep ==
    ASSUME SessionInv, NEW c \in Clients, DestroyHide(c)
    PROVE  SessionInv'
<1> USE DEF SessionInv
<1>1. /\ cpc[c] = "destroy" /\ cid[c] \in Ids
      /\ UNCHANGED <<readers, user, fresh, info, gpc, gkeys, gid, finished, stopper>>
  BY DEF DestroyHide, WorkingIds, gcVars, stopVars
<1>2. CASE session[cid[c]] = "open"
  <2>1. /\ session' = [session EXCEPT ![cid[c]] = "hidden"]
        /\ cpc' = [cpc EXCEPT ![c] = "destroyWait"] /\ cid' = cid
    BY <1>2 DEF DestroyHide, Goto, TypeOK
  <2>2. TypeOK' /\ WorkingIds'
    BY <1>1, <2>1 DEF TypeOK, WorkingIds
  <2>3. ReadersExact'
    BY <1>1, <2>1, ReadersFrame DEF TypeOK, GcHolds, Holds
  <2>4. NoUseAfterFree' /\ NeverUnregistered'
    BY <1>1, <2>1 DEF TypeOK, NoUseAfterFree, NeverUnregistered
  <2>5. OneCreator' /\ OneDestroyer'
    BY <1>1, <1>2, <2>1 DEF TypeOK, OneCreator, OneDestroyer, Destroys
  <2>6. RegisteredWhileLive' /\ Quota'
    BY <1>1, <1>2, <2>1 DEF TypeOK, RegisteredWhileLive, Registered, Quota
  <2> QED BY <2>2, <2>3, <2>4, <2>5, <2>6
<1>3. CASE session[cid[c]] # "open"
  <2>1. session' = session /\ cpc' = [cpc EXCEPT ![c] = "idle"] /\ cid' = [cid EXCEPT ![c] = NoId]
    BY <1>3 DEF DestroyHide, Goto
  <2>2. TypeOK' /\ WorkingIds'
    BY <1>1, <2>1 DEF TypeOK, WorkingIds
  <2>3. ReadersExact'
    BY <1>1, <2>1, ReadersFrame DEF TypeOK, GcHolds, Holds
  <2>4. NoUseAfterFree' /\ NeverUnregistered' /\ OneCreator' /\ OneDestroyer'
    BY <1>1, <2>1 DEF TypeOK, NoUseAfterFree, NeverUnregistered, OneCreator, OneDestroyer, Destroys
  <2>5. RegisteredWhileLive' /\ Quota'
    BY <1>1, <2>1 DEF TypeOK, RegisteredWhileLive, Registered, Quota
  <2> QED BY <2>2, <2>3, <2>4, <2>5
<1> QED BY <1>2, <1>3

LEMMA DeleteStep ==
    ASSUME SessionInv, NEW c \in Clients, DestroyDelete(c)
    PROVE  SessionInv'
<1> USE DEF SessionInv
<1>1. /\ cpc[c] = "destroyWait" /\ cid[c] \in Ids /\ readers[cid[c]] = 0
      /\ session' = [session EXCEPT ![cid[c]] = "deleted"]
      /\ cpc' = [cpc EXCEPT ![c] = "destroyErase"] /\ cid' = cid
      /\ UNCHANGED <<readers, user, fresh, info, gpc, gkeys, gid, finished, stopper>>
  BY DEF DestroyDelete, WorkingIds, Goto, gcVars, stopVars, TypeOK
<1>2. /\ \A d \in Clients : ~(Holds(d) /\ cid[d] = cid[c])
      /\ ~(GcHolds /\ gid = cid[c])
  BY <1>1, NoHolder
<1>3. TypeOK' /\ WorkingIds'
  BY <1>1 DEF TypeOK, WorkingIds
<1>4. ReadersExact'
  BY <1>1, ReadersFrame DEF TypeOK, GcHolds, Holds
<1>5. NoUseAfterFree' /\ NeverUnregistered'
  BY <1>1, <1>2 DEF TypeOK, NoUseAfterFree, NeverUnregistered, Holds, GcHolds
<1>6. session[cid[c]] = "hidden"
  BY <1>1 DEF OneDestroyer
<1>7. OneCreator'
  BY <1>1, <1>6 DEF TypeOK, OneCreator
<1>8. OneDestroyer'
  BY <1>1, <1>6 DEF TypeOK, OneDestroyer, Destroys
<1>9. RegisteredWhileLive' /\ Quota'
  BY <1>1 DEF TypeOK, RegisteredWhileLive, Registered, Quota
<1> QED BY <1>3, <1>4, <1>5, <1>7, <1>8, <1>9

\* The destroyer finds the registration: nobody else erases it.
LEMMA EraseStep ==
    ASSUME SessionInv, NEW c \in Clients, DestroyErase(c)
    PROVE  SessionInv'
<1> USE DEF SessionInv
<1>1. cpc[c] = "destroyErase" /\ cid[c] \in Ids /\ Registered(cid[c]) /\ session[cid[c]] = "deleted"
  BY DEF DestroyErase, WorkingIds, RegisteredWhileLive, OneDestroyer
<1>2. /\ info' = [info EXCEPT ![user[cid[c]]] = info[user[cid[c]]] \ {cid[c]}]
      /\ cpc' = [cpc EXCEPT ![c] = "idle"] /\ cid' = [cid EXCEPT ![c] = NoId]
      /\ UNCHANGED <<session, readers, user, fresh, gpc, gkeys, gid, finished, stopper>>
  BY <1>1 DEF DestroyErase, Registered, Goto, gcVars, stopVars
<1>3. TypeOK' /\ WorkingIds'
  BY <1>1, <1>2 DEF TypeOK, WorkingIds, Registered
<1>4. ReadersExact'
  BY <1>1, <1>2, ReadersFrame DEF TypeOK, GcHolds, Holds
<1>5. NoUseAfterFree' /\ NeverUnregistered' /\ OneCreator' /\ OneDestroyer'
  BY <1>1, <1>2 DEF TypeOK, NoUseAfterFree, NeverUnregistered, OneCreator, OneDestroyer, Destroys
<1>6. \A i \in Ids : i # cid[c] /\ Registered(i) => Registered(i)'
  BY <1>1, <1>2 DEF TypeOK, Registered
<1>7. RegisteredWhileLive'
  <2>1. \A i \in Ids : session'[i] \in {"open", "hidden"} => Registered(i)'
    BY <1>1, <1>2, <1>6 DEF RegisteredWhileLive
  <2>2. ASSUME NEW d \in Clients, cpc'[d] \in {"create", "destroyWait", "destroyErase"}
        PROVE  cid'[d] = cid[d] /\ cid[d] \in Ids /\ cid[d] # cid[c] /\ Registered(cid[d])
    BY <1>1, <1>2, <2>2 DEF TypeOK, WorkingIds, RegisteredWhileLive, OneDestroyer, OneCreator, Destroys
  <2>3. ASSUME NEW d \in Clients, cpc'[d] \in {"create", "destroyWait", "destroyErase"}
        PROVE  user'[cid'[d]] \in Users /\ cid'[d] \in info'[user'[cid'[d]]]
    BY <1>6, <2>2, <2>3 DEF Registered
  <2> QED BY <2>1, <2>3 DEF RegisteredWhileLive, Registered
<1>8. Quota'
  <2> SUFFICES ASSUME NEW u \in Users PROVE Cardinality(info'[u]) <= MaxSessionsPerUser
    BY DEF Quota
  <2>1. info'[u] \in SUBSET info[u] /\ IsFiniteSet(info[u])
    BY <1>1, <1>2, SessionsAssumption, FS_Subset DEF TypeOK, Registered
  <2>2. Cardinality(info'[u]) <= Cardinality(info[u]) /\ Cardinality(info[u]) \in Nat
        /\ Cardinality(info'[u]) \in Nat
    BY <2>1, FS_Subset, FS_CardinalityType
  <2> QED BY <2>2, SessionsAssumption DEF Quota
<1> QED BY <1>3, <1>4, <1>5, <1>7, <1>8
-----------------------------------------------------------------------------
(* The steps of the collector.                                             *)

LEMMA CollectorHolds ==
    ASSUME SessionInv, (\E id \in Ids : GcOpen(id)) \/ GcRelease
    PROVE  SessionInv'
<1> USE DEF SessionInv
<1>1. UNCHANGED <<session, user, fresh, info, cpc, cid, finished, stopper>>
  BY DEF GcOpen, GcRelease, clientVars, stopVars
<1>2. ReadersExact' /\ readers' \in [Ids -> Nat]
  BY CollectorCounts
<1>3. /\ gpc' \in {"gc", "check", "destroy"} /\ gkeys' \subseteq Ids /\ gid' \in Ids \cup {NoId}
      /\ gpc' = "check" => gid' \in Ids /\ session[gid'] = "open"
      /\ gpc' = "destroy" => gid' \in Ids
  BY DEF GcOpen, GcRelease, WorkingIds, TypeOK
<1>4. TypeOK' /\ WorkingIds'
  BY <1>1, <1>2, <1>3 DEF TypeOK, WorkingIds
<1>5. NoUseAfterFree' /\ NeverUnregistered'
  BY <1>1, <1>3 DEF NoUseAfterFree, NeverUnregistered
<1>6. OneCreator' /\ OneDestroyer'
  BY <1>1, <1>3 DEF OneCreator, OneDestroyer, Destroys
<1>7. RegisteredWhileLive' /\ Quota'
  BY <1>1 DEF RegisteredWhileLive, Registered, Quota
<1> QED BY <1>2, <1>4, <1>5, <1>6, <1>7

LEMMA CollectorMoves ==
    ASSUME SessionInv,
           GcLoop \/ GcTimeout \/ GcNotified \/ GcCheck \/ GcDone \/ CallStop \/ StopGarbageCollector
    PROVE  SessionInv'
<1> USE DEF SessionInv, sessionVars, clientVars, gcVars, stopVars
<1>1. UNCHANGED <<session, readers, user, fresh, info, cpc, cid, gid>>
  BY DEF GcLoop, GcTimeout, GcNotified, GcCheck, GcDone, CallStop, StopGarbageCollector
<1>2. TypeOK'
  BY DEF TypeOK, GcLoop, GcTimeout, GcNotified, GcCheck, GcDone, CallStop, StopGarbageCollector
<1>3. GcHolds' = GcHolds /\ (gpc' \in {"destroy", "destroyWait"} => gpc' = gpc)
  BY DEF TypeOK, GcHolds, GcLoop, GcTimeout, GcNotified, GcCheck, GcDone, CallStop, StopGarbageCollector
<1>4. WorkingIds' /\ NoUseAfterFree' /\ NeverUnregistered'
  BY <1>1, <1>3 DEF WorkingIds, NoUseAfterFree, NeverUnregistered, GcHolds
<1>5. ReadersExact'
  BY <1>1, <1>3, ReadersFrame DEF Holds
<1>6. OneCreator' /\ OneDestroyer'
  BY <1>1, <1>3 DEF OneCreator, OneDestroyer, Destroys
<1>7. RegisteredWhileLive' /\ Quota'
  BY <1>1 DEF RegisteredWhileLive, Registered, Quota
<1> QED BY <1>2, <1>4, <1>5, <1>6, <1>7

\* The collector destroys like a client, but keeps the registration.
LEMMA CollectorDestroys ==
    ASSUME SessionInv, GcHide \/ GcDelete
    PROVE  SessionInv'
<1> USE DEF SessionInv
<1>1. /\ gpc \in {"destroy", "destroyWait"} /\ gid \in Ids
      /\ UNCHANGED <<readers, user, fresh, info, cpc, cid, gkeys, gid, finished, stopper>>
  BY DEF GcHide, GcDelete, WorkingIds, clientVars, stopVars
<1>2. CASE session' = session /\ gpc' = "gc"
  <2>1. TypeOK' /\ WorkingIds' /\ NoUseAfterFree' /\ NeverUnregistered'
    BY <1>1, <1>2 DEF TypeOK, WorkingIds, NoUseAfterFree, NeverUnregistered
  <2>2. ReadersExact'
    BY <1>1, <1>2, ReadersFrame DEF Holds, GcHolds
  <2>3. OneCreator' /\ OneDestroyer' /\ RegisteredWhileLive' /\ Quota'
    BY <1>1, <1>2 DEF OneCreator, OneDestroyer, Destroys, RegisteredWhileLive, Registered, Quota
  <2> QED BY <2>1, <2>2, <2>3
<1>3. CASE session[gid] = "open" /\ session' = [session EXCEPT ![gid] = "hidden"] /\ gpc' = "destroyWait"
  <2>1. TypeOK' /\ WorkingIds' /\ NoUseAfterFree' /\ NeverUnregistered'
    BY <1>1, <1>3 DEF TypeOK, WorkingIds, NoUseAfterFree, NeverUnregistered
  <2>2. ReadersExact'
    BY <1>1, <1>3, ReadersFrame DEF Holds, GcHolds
  <2>3. OneCreator' /\ OneDestroyer'
    BY <1>1, <1>3 DEF TypeOK, WorkingIds, OneCreator, OneDestroyer, Destroys
  <2>4. RegisteredWhileLive' /\ Quota'
    BY <1>1, <1>3 DEF TypeOK, RegisteredWhileLive, Registered, Quota
  <2> QED BY <2>1, <2>2, <2>3, <2>4
<1>4. CASE gpc = "destroyWait" /\ readers[gid] = 0 /\ session' = [session EXCEPT ![gid] = "deleted"] /\ gpc' = "gc"
  <2>1. /\ \A d \in Clients : ~(Holds(d) /\ cid[d] = gid)
        /\ session[gid] = "hidden" /\ \A d \in Clients : ~(Destroys(d) /\ cid[d] = gid)
    BY <1>1, <1>4, NoHolder DEF OneDestroyer
  <2>2. TypeOK' /\ WorkingIds' /\ NeverUnregistered'
    BY <1>1, <1>4 DEF TypeOK, WorkingIds, NeverUnregistered
  <2>3. NoUseAfterFree'
    BY <1>1, <1>4, <2>1 DEF TypeOK, WorkingIds, NoUseAfterFree, Holds
  <2>4. ReadersExact'
    BY <1>1, <1>4, ReadersFrame DEF Holds, GcHolds
  <2>5. OneCreator' /\ OneDestroyer'
    BY <1>1, <1>4, <2>1 DEF TypeOK, WorkingIds, OneCreator, OneDestroyer, Destroys
  <2>6. RegisteredWhileLive' /\ Quota'
    BY <1>1, <1>4 DEF TypeOK, RegisteredWhileLive, Registered, Quota
  <2> QED BY <2>2, <2>3, <2>4, <2>5, <2>6
<1> QED BY <1>2, <1>3, <1>4 DEF GcHide, GcDelete

-----------------------------------------------------------------------------
LEMMA SessionInit == Init => SessionInv
<1> SUFFICES ASSUME Init PROVE SessionInv
  OBVIOUS
<1>1. TypeOK /\ WorkingIds /\ NoUseAfterFree /\ OneCreator /\ OneDestroyer /\ NeverUnregistered
  BY DEF Init, TypeOK, WorkingIds, NoUseAfterFree, OneCreator, OneDestroyer, Destroys, NeverUnregistered
<1>2. RegisteredWhileLive
  BY DEF Init, RegisteredWhileLive, Registered
<1>3. Quota
  BY SessionsAssumption, FS_EmptySet DEF Init, Quota
<1>4. ReadersExact
  <2>1. \A id \in Ids : Holders(id) = {}
    BY DEF Init, Holders, Holds
  <2> QED BY <2>1, FS_EmptySet DEF Init, ReadersExact, GcHolds
<1> QED BY <1>1, <1>2, <1>3, <1>4 DEF SessionInv

LEMMA SessionStep == SessionInv /\ [Next]_vars => SessionInv'
<1> SUFFICES ASSUME SessionInv, [Next]_vars PROVE SessionInv'
  OBVIOUS
<1>1. CASE UNCHANGED <<session, readers, user, info, cpc, cid, gpc, gkeys, gid, finished, stopper>> /\ fresh' \subseteq Ids
  <2> USE <1>1 DEF SessionInv
  <2>1. TypeOK' /\ WorkingIds' /\ NoUseAfterFree' /\ NeverUnregistered'
    BY DEF TypeOK, WorkingIds, NoUseAfterFree, NeverUnregistered
  <2>2. ReadersExact'
    BY ReadersFrame DEF Holds, GcHolds
  <2>3. OneCreator' /\ OneDestroyer' /\ RegisteredWhileLive' /\ Quota'
    BY DEF OneCreator, OneDestroyer, Destroys, RegisteredWhileLive, Registered, Quota
  <2> QED BY <2>1, <2>2, <2>3
<1>2. ASSUME NEW c \in Clients, UpdateLastActivity(c) PROVE SessionInv'
  BY <1>1, <1>2 DEF UpdateLastActivity, SessionInv, TypeOK, WorkingIds, clientVars, gcVars, stopVars
<1>3. ASSUME NEW id \in Ids, Expire(id) PROVE SessionInv'
  BY <1>1, <1>3 DEF Expire, SessionInv, TypeOK, clientVars, gcVars, stopVars
<1>4. CASE UNCHANGED vars
  BY <1>1, <1>4 DEF vars, SessionInv, TypeOK
<1> QED
  BY <1>2, <1>3, <1>4, RegisterStep, AddStep, HoldStep, HideStep, DeleteStep, EraseStep,
     CollectorHolds, CollectorMoves, CollectorDestroys DEF Next

\* No client and no collector works on a deleted session, however creations,
\* requests, logouts and the collector interleave.
THEOREM SessionsNoUseAfterFree == Spec => []NoUseAfterFree
<1>1. SessionInv => NoUseAfterFree
  BY DEF SessionInv
<1> QED BY SessionInit, SessionStep, <1>1, PTL DEF Spec

\* The two tables agree: the variables keep their types (no reader counter
\* falls below zero), no user has more live sessions than the quota, and
\* destroySession always finds the registration it erases.
THEOREM SessionsRegistrationHolds == Spec => []RegistrationHolds
<1>1. ASSUME SessionInv PROVE RegistrationHolds
  <2> SUFFICES ASSUME NEW u \in Users PROVE Cardinality(Live(u)) <= MaxSessionsPerUser
    BY <1>1 DEF SessionInv, RegistrationHolds, LiveWithinQuota
  <2>1. Live(u) \in SUBSET info[u] /\ IsFiniteSet(info[u])
    BY <1>1, SessionsAssumption, FS_Subset DEF SessionInv, TypeOK, Live, RegisteredWhileLive, Registered
  <2>2. Cardinality(Live(u)) <= Cardinality(info[u]) /\ Cardinality(info[u]) \in Nat
        /\ Cardinality(Live(u)) \in Nat
    BY <2>1, FS_Subset, FS_CardinalityType
  <2> QED BY <1>1, <2>2, SessionsAssumption DEF SessionInv, Quota
<1> QED BY SessionInit, SessionStep, <1>1, PTL DEF Spec
=============================================================================
