-------------------------- MODULE WebClientHandler --------------------------
(***************************************************************************)
(* The requests of the monolithic web server as they use the sessions:     *)
(* sessionStart opens the session of the cookie, the body may log in, and  *)
(* sessionCleanup releases and destroys at the end of every request.       *)
(* A client of WebSessionsManager is here the thread of one request.       *)
(* Requests carry no impersonator cookie and no impersonation token.       *)
(***************************************************************************)
EXTENDS WebSessionsManager

VARIABLES stage, \* a thread: "none", "body", "login", "cleanup", "logout", "destroying", "terminated"
          sid,   \* m_sessionID of its request
          auth   \* currentSessionInfo.authSession is set

requestVars == <<stage, sid, auth>>
allVars == <<vars, stage, sid, auth>>

RequestInit ==
    /\ Init
    /\ stage = [c \in Clients |-> "none"]
    /\ sid = [c \in Clients |-> NoId]
    /\ auth = [c \in Clients |-> FALSE]

Enter(c, st, id, a) ==
    /\ stage' = [stage EXCEPT ![c] = st]
    /\ sid' = [sid EXCEPT ![c] = id]
    /\ auth' = [auth EXCEPT ![c] = a]

\* sessionStart with the cookie id: the session is opened and accepted, ...
SessionStart(c, id) ==
    /\ stage[c] = "none" /\ cpc[c] = "idle"
    /\ OpenSession(c, id)
    /\ Enter(c, "body", id, TRUE)

\* ... or opened and refused, because the address or the user agent changed (the
\* request ends with 403 here and the reader stays), ...
SessionRefused(c, id) ==
    /\ stage[c] = "none" /\ cpc[c] = "idle"
    /\ session[id] = "open"
    /\ readers' = [readers EXCEPT ![id] = @ + 1]
    /\ UNCHANGED <<session, user, fresh, info, clientVars, gcVars, stopVars, requestVars>>

\* ... or there is none.
NoSession(c) ==
    /\ stage[c] = "none" /\ cpc[c] = "idle"
    /\ Enter(c, "body", NoId, FALSE)
    /\ UNCHANGED vars

\* An endpoint, or the function updateLastActivity, refreshes the session.
Refresh(c) ==
    /\ stage[c] = "body"
    /\ UpdateLastActivity(c)
    /\ UNCHANGED requestVars

\* handleAuthLoginFunction without a session (with one it answers 403): createSession
\* registers the id, or refuses and the request goes on to its end, ...
Login(c, u, id) ==
    /\ stage[c] = "body" /\ ~auth[c]
    /\ CreateRegister(c, u, id)
    /\ Enter(c, "login", NoId, FALSE)

LoginRefused(c, u) ==
    /\ stage[c] = "body" /\ ~auth[c]
    /\ Cardinality(info[u]) >= MaxSessionsPerUser
    /\ Enter(c, "cleanup", NoId, FALSE)
    /\ UNCHANGED vars

\* ... then adds the session, which the request now takes for its own.
LoginAdd(c) ==
    /\ stage[c] = "login"
    /\ CreateAdd(c)
    /\ Enter(c, "cleanup", cid[c], TRUE)

\* The body ends without a login.
BodyEnds(c) ==
    /\ stage[c] = "body"
    /\ Enter(c, "cleanup", sid[c], auth[c])
    /\ UNCHANGED vars

\* sessionCleanup releases the session, if one is active.  releaseElement throws
\* at a session without readers, and nothing on the thread's stack catches it.
SessionCleanup(c) ==
    /\ stage[c] = "cleanup"
    /\ \/ /\ auth[c] /\ session[sid[c]] # "deleted" /\ readers[sid[c]] > 0
          /\ readers' = [readers EXCEPT ![sid[c]] = @ - 1]
          /\ Enter(c, "logout", sid[c], TRUE)
       \/ /\ auth[c] /\ session[sid[c]] # "deleted" /\ readers[sid[c]] = 0
          /\ Enter(c, "terminated", sid[c], TRUE)
          /\ UNCHANGED readers
       \/ /\ auth[c] => session[sid[c]] = "deleted"
          /\ Enter(c, "logout", sid[c], auth[c])
          /\ UNCHANGED readers
    /\ Goto(c, "idle", NoId)
    /\ UNCHANGED <<session, user, fresh, info, gcVars, stopVars>>

\* sessionLogout destroys the session of the request, logout asked for or not.
SessionLogout(c) ==
    /\ stage[c] = "logout"
    /\ \/ /\ sid[c] # NoId
          /\ DestroyOpen(c, sid[c])
          /\ Enter(c, "destroying", NoId, FALSE)
       \/ /\ sid[c] # NoId => session[sid[c]] # "open"
          /\ Enter(c, "none", NoId, FALSE)
          /\ UNCHANGED vars

DestroySession(c) ==
    /\ stage[c] = "destroying"
    /\ DestroyRelease(c) \/ DestroyHide(c) \/ DestroyDelete(c) \/ DestroyErase(c)
    /\ stage' = [stage EXCEPT ![c] = IF cpc'[c] = "idle" THEN "none" ELSE @]
    /\ UNCHANGED <<sid, auth>>

Request(c) ==
    \/ \E id \in Ids : SessionStart(c, id) \/ SessionRefused(c, id)
    \/ NoSession(c) \/ Refresh(c)
    \/ \E u \in Users : LoginRefused(c, u) \/ \E id \in Ids : Login(c, u, id)
    \/ LoginAdd(c) \/ BodyEnds(c) \/ SessionCleanup(c) \/ SessionLogout(c) \/ DestroySession(c)

RequestNext ==
    \/ \E c \in Clients : Request(c)
    \/ (CollectorStep \/ \E id \in Ids : Expire(id)) /\ UNCHANGED requestVars

RequestSpec == RequestInit /\ [][RequestNext]_allVars

\* releaseSession reports whether a reader was released ("true if the session
\* reader was released. false otherwise", sessionsmanager.h): the cleanup of a
\* request never ends in an exception that takes the server down.  A login adds
\* its session without opening it, and its own cleanup releases it.
ReleaseReports == \A c \in Clients : stage[c] # "terminated"
=============================================================================
