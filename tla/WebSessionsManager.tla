------------------------- MODULE WebSessionsManager -------------------------
(***************************************************************************)
(* The sessions of the monolithic web server: WebSessionsManager, the      *)
(* GarbageCollector thread it inherits and the activity of a Session.      *)
(* m_sessions is a Safe::Map (module SafeMap): here a session is opened by *)
(* counting a reader and destroyed when the last reader has left, which    *)
(* is what SafeMap is proved to provide.  m_sessionClientInfo is a second  *)
(* table, under m_mutex, that counts the sessions of each user.            *)
(* Session ids are random and never drawn twice.  The clock appears as the *)
(* sessions that are fresh, i.e. whose last activity is not expired.       *)
(***************************************************************************)
EXTENDS Naturals, FiniteSets

CONSTANTS Clients,            \* threads that use the manager
          Users,
          Ids,                \* session ids
          MaxSessionsPerUser, \* m_maxSessionsPerUser
          NoId, NoUser

ASSUME SessionsAssumption ==
    /\ IsFiniteSet(Ids) /\ IsFiniteSet(Clients)
    /\ MaxSessionsPerUser \in Nat \ {0}   \* with 0 a first session is accepted
    /\ NoId \notin Ids /\ NoUser \notin Users

VARIABLES session,  \* an id: "unused", "open", "hidden" (being destroyed) or "deleted"
          readers,  \* its reader counter
          user,     \* the user of its Session
          fresh,    \* ids whose last activity is not expired
          info,     \* m_sessionClientInfo: the ids registered for a user
          cpc,      \* program counter of a client
          cid,      \* the session id it works on
          gpc,      \* program counter of the collector thread
          gkeys,    \* keys gc() has still to look at
          gid,      \* the key it looks at
          finished, \* m_gcFinished
          stopper   \* stopGarbageCollector: "none", "stopping" or "stopped"

sessionVars == <<session, readers, user, fresh, info>>
clientVars  == <<cpc, cid>>
gcVars      == <<gpc, gkeys, gid>>
stopVars    == <<finished, stopper>>
vars == <<session, readers, user, fresh, info, cpc, cid, gpc, gkeys, gid, finished, stopper>>

Live(u) == {id \in Ids : session[id] \in {"open", "hidden"} /\ user[id] = u}

Init ==
    /\ session = [id \in Ids |-> "unused"]
    /\ readers = [id \in Ids |-> 0]
    /\ user = [id \in Ids |-> NoUser]
    /\ fresh = {}
    /\ info = [u \in Users |-> {}]
    /\ cpc = [c \in Clients |-> "idle"] /\ cid = [c \in Clients |-> NoId]
    /\ gpc = "start" /\ gkeys = {} /\ gid = NoId
    /\ finished = FALSE
    /\ stopper = "none"

-----------------------------------------------------------------------------
(* The clients.                                                            *)

Goto(c, pc, id) == cpc' = [cpc EXCEPT ![c] = pc] /\ cid' = [cid EXCEPT ![c] = id]

\* Mutant: the limit is off by one.
CreateRegisterOneMore(c, u, id) ==
    /\ cpc[c] = "idle"
    /\ session[id] = "unused" /\ user[id] = NoUser
    /\ Cardinality(info[u]) <= MaxSessionsPerUser
    /\ info' = [info EXCEPT ![u] = @ \cup {id}]
    /\ user' = [user EXCEPT ![id] = u]
    /\ Goto(c, "create", id)
    /\ UNCHANGED <<session, readers, fresh, gcVars, stopVars>>

\* createSession, under m_mutex: the id is registered for the user, unless the
\* user has too many (then "" is returned and nothing changes).
CreateRegister(c, u, id) ==
    /\ cpc[c] = "idle"
    /\ session[id] = "unused" /\ user[id] = NoUser
    /\ info[u] = {} \/ Cardinality(info[u]) < MaxSessionsPerUser
    /\ info' = [info EXCEPT ![u] = @ \cup {id}]
    /\ user' = [user EXCEPT ![id] = u]
    /\ Goto(c, "create", id)
    /\ UNCHANGED <<session, readers, fresh, gcVars, stopVars>>

\* ... then the WebSession enters the map.
CreateAdd(c) ==
    /\ cpc[c] = "create"
    /\ session' = [session EXCEPT ![cid[c]] = "open"]
    /\ fresh' = fresh \cup {cid[c]}
    /\ Goto(c, "idle", NoId)
    /\ UNCHANGED <<readers, user, info, gcVars, stopVars>>

\* openSession of an id in the map.
OpenSession(c, id) ==
    /\ cpc[c] = "idle"
    /\ session[id] = "open"
    /\ readers' = [readers EXCEPT ![id] = @ + 1]
    /\ Goto(c, "hold", id)
    /\ UNCHANGED <<session, user, fresh, info, gcVars, stopVars>>

\* Session::updateLastActivity on the session the client holds.
UpdateLastActivity(c) ==
    /\ cpc[c] = "hold"
    /\ fresh' = fresh \cup {cid[c]}
    /\ UNCHANGED <<session, readers, user, info, clientVars, gcVars, stopVars>>

ReleaseSession(c) ==
    /\ cpc[c] = "hold"
    /\ readers' = [readers EXCEPT ![cid[c]] = @ - 1]
    /\ Goto(c, "idle", NoId)
    /\ UNCHANGED <<session, user, fresh, info, gcVars, stopVars>>

\* destroySession: open the element, read its user, ...
DestroyOpen(c, id) ==
    /\ cpc[c] = "idle"
    /\ session[id] = "open"
    /\ readers' = [readers EXCEPT ![id] = @ + 1]
    /\ Goto(c, "destroyRelease", id)
    /\ UNCHANGED <<session, user, fresh, info, gcVars, stopVars>>

\* ... release it, ...
DestroyRelease(c) ==
    /\ cpc[c] = "destroyRelease"
    /\ readers' = [readers EXCEPT ![cid[c]] = @ - 1]
    /\ Goto(c, "destroy", cid[c])
    /\ UNCHANGED <<session, user, fresh, info, gcVars, stopVars>>

\* ... hide it from new readers (or find that somebody else destroyed it) ...
DestroyHide(c) ==
    /\ cpc[c] = "destroy"
    /\ \/ /\ session[cid[c]] = "open"
          /\ session' = [session EXCEPT ![cid[c]] = "hidden"]
          /\ Goto(c, "destroyWait", cid[c])
       \/ /\ session[cid[c]] # "open"
          /\ Goto(c, "idle", NoId)
          /\ UNCHANGED session
    /\ UNCHANGED <<readers, user, fresh, info, gcVars, stopVars>>

\* ... delete it when the last reader is gone ...
DestroyDelete(c) ==
    /\ cpc[c] = "destroyWait"
    /\ readers[cid[c]] = 0
    /\ session' = [session EXCEPT ![cid[c]] = "deleted"]
    /\ Goto(c, "destroyErase", cid[c])
    /\ UNCHANGED <<readers, user, fresh, info, gcVars, stopVars>>

\* ... and, under m_mutex, erase the registration; without one it throws.
DestroyErase(c) ==
    /\ cpc[c] = "destroyErase"
    /\ \/ /\ cid[c] \in info[user[cid[c]]]
          /\ info' = [info EXCEPT ![user[cid[c]]] = @ \ {cid[c]}]
          /\ Goto(c, "idle", NoId)
       \/ /\ cid[c] \notin info[user[cid[c]]]
          /\ Goto(c, "thrown", cid[c])
          /\ UNCHANGED info
    /\ UNCHANGED <<session, readers, user, fresh, gcVars, stopVars>>

\* Time passes without activity: isLastActivityExpired turns true.
Expire(id) ==
    /\ id \in fresh
    /\ fresh' = fresh \ {id}
    /\ UNCHANGED <<session, readers, user, info, clientVars, gcVars, stopVars>>

-----------------------------------------------------------------------------
(* The collector thread: it holds m_endNotificationMutex except in the     *)
(* timed wait ("wait", or "woken" before it has the mutex back).           *)

\* loopGarbageCollector: leave, or wait for the next interval.
GcLoop ==
    /\ gpc \in {"start", "loop"}
    /\ gpc' = IF finished THEN "exited" ELSE "wait"
    /\ UNCHANGED <<sessionVars, clientVars, gkeys, gid, stopVars>>

\* The interval is over (or reported to be, notified or not): gc() takes the keys.
GcTimeout ==
    /\ gpc \in {"wait", "woken"}
    /\ gpc' = "gc"
    /\ gkeys' = {id \in Ids : session[id] \in {"open", "hidden"}}
    /\ UNCHANGED <<sessionVars, clientVars, gid, stopVars>>

\* The notification of stopGarbageCollector: back to the test of m_gcFinished.
GcNotified ==
    /\ gpc = "woken"
    /\ gpc' = "loop"
    /\ UNCHANGED <<sessionVars, clientVars, gkeys, gid, stopVars>>

\* gc(): the next key, opened if it still is in the map.
GcOpen(id) ==
    /\ gpc = "gc"
    /\ id \in gkeys
    /\ gkeys' = gkeys \ {id}
    /\ \/ /\ session[id] = "open"
          /\ readers' = [readers EXCEPT ![id] = @ + 1]
          /\ gid' = id
          /\ gpc' = "check"
       \/ /\ session[id] # "open"
          /\ UNCHANGED <<readers, gid, gpc>>
    /\ UNCHANGED <<session, user, fresh, info, clientVars, stopVars>>

\* isLastActivityExpired; either way the element is released next.
GcCheck ==
    /\ gpc = "check"
    /\ gpc' = IF gid \in fresh THEN "release" ELSE "releaseExpired"
    /\ UNCHANGED <<sessionVars, clientVars, gkeys, gid, stopVars>>

GcRelease ==
    /\ gpc \in {"release", "releaseExpired"}
    /\ readers' = [readers EXCEPT ![gid] = @ - 1]
    /\ gpc' = IF gpc = "release" THEN "gc" ELSE "destroy"
    /\ UNCHANGED <<session, user, fresh, info, clientVars, gkeys, gid, stopVars>>

\* Mutant: an expired session is only released.
GcHideForgotten ==
    /\ gpc = "destroy"
    /\ gpc' = "gc"
    /\ UNCHANGED <<sessionVars, clientVars, gkeys, gid, stopVars>>

\* destroyElement of the expired session; the registration of the user stays.
GcHide ==
    /\ gpc = "destroy"
    /\ \/ /\ session[gid] = "open"
          /\ session' = [session EXCEPT ![gid] = "hidden"]
          /\ gpc' = "destroyWait"
       \/ /\ session[gid] # "open"
          /\ gpc' = "gc"
          /\ UNCHANGED session
    /\ UNCHANGED <<readers, user, fresh, info, clientVars, gkeys, gid, stopVars>>

\* Mutant: the readers are not waited for.
GcDeleteAtOnce ==
    /\ gpc = "destroyWait"
    /\ session' = [session EXCEPT ![gid] = "deleted"]
    /\ gpc' = "gc"
    /\ UNCHANGED <<readers, user, fresh, info, clientVars, gkeys, gid, stopVars>>

\* The session is deleted when its last reader is gone.
GcDelete ==
    /\ gpc = "destroyWait"
    /\ readers[gid] = 0
    /\ session' = [session EXCEPT ![gid] = "deleted"]
    /\ gpc' = "gc"
    /\ UNCHANGED <<readers, user, fresh, info, clientVars, gkeys, gid, stopVars>>

\* All keys are done.
GcDone ==
    /\ gpc = "gc"
    /\ gkeys = {}
    /\ gpc' = "loop"
    /\ UNCHANGED <<sessionVars, clientVars, gkeys, gid, stopVars>>

\* A thread of the program calls stopGarbageCollector ...
CallStop ==
    /\ stopper = "none"
    /\ stopper' = "stopping"
    /\ UNCHANGED <<sessionVars, clientVars, gcVars, finished>>

\* ... which, when it has the mutex, sets the flag and notifies.
StopGarbageCollector ==
    /\ stopper = "stopping"
    /\ gpc \in {"start", "wait", "woken", "exited"}
    /\ finished' = TRUE
    /\ gpc' = IF gpc = "wait" THEN "woken" ELSE gpc
    /\ stopper' = "stopped"
    /\ UNCHANGED <<sessionVars, clientVars, gkeys, gid>>

-----------------------------------------------------------------------------
ClientStep(c) ==
    \/ CreateAdd(c) \/ ReleaseSession(c)
    \/ DestroyRelease(c) \/ DestroyHide(c) \/ DestroyDelete(c) \/ DestroyErase(c)

CollectorStep ==
    \/ GcLoop \/ GcTimeout \/ GcNotified
    \/ \E id \in Ids : GcOpen(id)
    \/ GcCheck \/ GcRelease \/ GcHide \/ GcDelete \/ GcDone

Next ==
    \/ \E c \in Clients :
          \/ \E u \in Users, id \in Ids : CreateRegister(c, u, id)
          \/ CreateAdd(c)
          \/ \E id \in Ids : OpenSession(c, id) \/ DestroyOpen(c, id)
          \/ UpdateLastActivity(c) \/ ReleaseSession(c)
          \/ DestroyRelease(c) \/ DestroyHide(c) \/ DestroyDelete(c) \/ DestroyErase(c)
    \/ \E id \in Ids : Expire(id)
    \/ GcLoop \/ GcTimeout \/ GcNotified
    \/ \E id \in Ids : GcOpen(id)
    \/ GcCheck \/ GcRelease \/ GcHide \/ GcDelete \/ GcDone
    \/ CallStop \/ StopGarbageCollector

Spec == Init /\ [][Next]_vars

-----------------------------------------------------------------------------
(* Properties.                                                             *)

\* The variables have their types; above all a reader counter never falls below
\* zero, where releaseElement throws.
TypeOK ==
    /\ session \in [Ids -> {"unused", "open", "hidden", "deleted"}]
    /\ readers \in [Ids -> Nat]
    /\ user \in [Ids -> Users \cup {NoUser}]
    /\ fresh \subseteq Ids
    /\ info \in [Users -> SUBSET Ids]
    /\ cpc \in [Clients -> {"idle", "create", "hold", "destroyRelease", "destroy", "destroyWait",
                            "destroyErase", "thrown"}]
    /\ cid \in [Clients -> Ids \cup {NoId}]
    /\ gpc \in {"start", "loop", "wait", "woken", "gc", "check", "release", "releaseExpired", "destroy",
                "destroyWait", "exited"}
    /\ gkeys \subseteq Ids
    /\ gid \in Ids \cup {NoId}
    /\ finished \in BOOLEAN
    /\ stopper \in {"none", "stopping", "stopped"}

\* A user never has more live sessions than maxSessionsPerUser, although the
\* table that counts them and the map that holds them are changed one after the
\* other and under different mutexes, by several clients and the collector.
LiveWithinQuota == \A u \in Users : Cardinality(Live(u)) <= MaxSessionsPerUser

\* destroySession never meets its exception "Unregistered Session??": of two
\* threads that destroy a session, or a thread and the collector, only the one
\* that removed it from the map erases the registration.
NeverUnregistered == \A c \in Clients : cpc[c] # "thrown"

\* A client or the collector that works on an opened session works on one that
\* is not deleted.
NoUseAfterFree ==
    /\ \A c \in Clients : cpc[c] \in {"hold", "destroyRelease"} => session[cid[c]] \in {"open", "hidden"}
    /\ gpc \in {"check", "release", "releaseExpired"} => session[gid] \in {"open", "hidden"}

\* An expired session is deleted, unless somebody uses it again or the
\* collector is stopped.
ExpiredIsCollected ==
    \A id \in Ids : (session[id] = "open" /\ id \notin fresh)
        ~> (session[id] = "deleted" \/ id \in fresh \/ stopper # "none")

\* stopGarbageCollector gets the mutex that gc() runs under, and the thread,
\* asleep, woken or in gc() when the flag is set, sees it and ends: what the
\* join in ~GarbageCollector waits for.
CollectorStops == (stopper = "stopping") ~> (gpc = "exited")

(* The registrations of the users' sessions: types, the quota holds for the live
   sessions, and no thread finds a session without its registration. *)
RegistrationHolds == TypeOK /\ LiveWithinQuota /\ NeverUnregistered

(* The collector: an expired session is destroyed, and the collector stops. *)
CollectorWorks == ExpiredIsCollected /\ CollectorStops
=============================================================================
