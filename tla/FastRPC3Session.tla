-------------------------- MODULE FastRPC3Session --------------------------
(***************************************************************************)
(* FastRPC3::LocalRPCTasks on one connection: the tasks SESSION.LOGIN,     *)
(* SESSION.LOGOUT and method calls run concurrently on the thread pool and *)
(* share the connection's SessionPTR, each of whose operations is under    *)
(* its mutex.  With them, the pinger thread of FastRPC3 and its stop.      *)
(* Tokens are abstract (JWT models their verification); sessions are named *)
(* by the token they were made from.  The endpoint table is external: a    *)
(* method needs a session or not, and its requirements are met or not.     *)
(***************************************************************************)
EXTENDS Naturals, FiniteSets, Sequences

CONSTANTS
  RPCTasks,       \* requests read from the connection, in the pool
  RTokens,        \* tokens: [valid, user, impersonator], impersonator "" for none
  Revocable,      \* users whose sessions may be revoked
  MaxPeers        \* connections the pinger visits in a round

\* A null shared_ptr (the user of a session is never empty).
NoSession == [valid |-> FALSE, user |-> "", impersonator |-> ""]

ASSUME SessionAssumption ==
  NoSession \notin RTokens /\ \A tok \in RTokens : tok.valid \in BOOLEAN

VARIABLES
  holder,         \* SessionPTR::session: a token, or none
  rtask,          \* per task: [kind, token, needs] once it is read
  rpc,            \* per task: "new", "started", "checked", "invoked", "answer", "done"
  rsession,       \* per task: its shared_ptr to a session
  rloaded,        \* history: the session of the connection when the task began
  ranswer,        \* per task: the status it answers with
  rcrashed,       \* a null session was dereferenced
  revokedUsers,   \* users whose sessions were revoked
  rhistory,       \* history: "login" and "logout" successes in the order of the mutex
  rinvoked,       \* history: [task, session, revoked] of every invoked method
  ping, pingLeft, isFinished, pingNotified, latePings   \* the pinger

sessionVars == <<holder, rtask, rpc, rsession, rloaded, ranswer, rcrashed, revokedUsers, rhistory, rinvoked>>
pingerVars == <<ping, pingLeft, isFinished, pingNotified, latePings>>

NoTask == [kind |-> "none", token |-> NoSession, needs |-> FALSE]

RPCSessionInit ==
  /\ holder = NoSession
  /\ rtask = [t \in RPCTasks |-> NoTask]
  /\ rpc = [t \in RPCTasks |-> "new"]
  /\ rsession = [t \in RPCTasks |-> NoSession]
  /\ rloaded = [t \in RPCTasks |-> NoSession]
  /\ ranswer = [t \in RPCTasks |-> "none"]
  /\ rcrashed = FALSE /\ revokedUsers = {}
  /\ rhistory = <<>> /\ rinvoked = {}
  /\ ping = "wait" /\ pingLeft = 0 /\ isFinished = FALSE /\ pingNotified = "no" /\ latePings = 0

\* processIncomingExecutionRequest picks the task by the method's name; a call may
\* carry an extra token.
RequestTask(t, kind, tok, needs) ==
  /\ ~rcrashed /\ rpc[t] = "new"
  /\ rtask' = [rtask EXCEPT ![t] = [kind |-> kind, token |-> tok, needs |-> needs]]
  /\ rpc' = [rpc EXCEPT ![t] = "started"]
  /\ UNCHANGED <<rloaded, holder, rsession, ranswer, rcrashed, revokedUsers, rhistory, rinvoked, pingerVars>>

\* A task begins with sessionHolder->getSharedPointer().
GetSession(t) ==
  /\ ~rcrashed /\ rpc[t] = "started" /\ rtask[t].kind \in {"login", "call"}
  /\ rsession' = [rsession EXCEPT ![t] = holder]
  /\ rloaded' = [rloaded EXCEPT ![t] = holder]
  /\ rpc' = [rpc EXCEPT ![t] = "loaded"]
  /\ UNCHANGED <<holder, rtask, ranswer, rcrashed, revokedUsers, rhistory, rinvoked, pingerVars>>

Answer(t, a) ==
  /\ rpc' = [rpc EXCEPT ![t] = "answer"]
  /\ ranswer' = [ranswer EXCEPT ![t] = a]

\* Mutant: create replaces a session that is there.
MayCreateAlways == TRUE

\* SessionPTR::create, under its mutex, refuses a second session.
MayCreate == holder = NoSession

\* login after getSharedPointer: the token is verified, then create.
RPCLogin(t) ==
  /\ ~rcrashed /\ rpc[t] = "loaded" /\ rtask[t].kind = "login"
  /\ \/ /\ rsession[t] # NoSession
        /\ Answer(t, "SESSION_DUPLICATE")
        /\ UNCHANGED <<holder, rsession, rhistory>>
     \/ /\ rsession[t] = NoSession /\ ~rtask[t].token.valid
        /\ Answer(t, "TOKEN_FAILED")
        /\ UNCHANGED <<holder, rsession, rhistory>>
     \/ /\ rsession[t] = NoSession /\ rtask[t].token.valid
        /\ IF MayCreate
           THEN /\ holder' = rtask[t].token
                /\ rsession' = [rsession EXCEPT ![t] = rtask[t].token]
                /\ rhistory' = Append(rhistory, "login")
                /\ Answer(t, "TOKEN_VALIDATED")
           ELSE /\ Answer(t, "INTERNAL_ERROR")
                /\ UNCHANGED <<holder, rsession, rhistory>>
  /\ UNCHANGED <<rloaded, rtask, rcrashed, revokedUsers, rinvoked, pingerVars>>

\* logout: SessionPTR::destroy; tasks that hold the session go on with it.
RPCLogout(t) ==
  /\ ~rcrashed /\ rpc[t] = "started" /\ rtask[t].kind = "logout"
  /\ holder' = NoSession
  /\ rhistory' = IF holder = NoSession THEN rhistory ELSE Append(rhistory, "logout")
  /\ Answer(t, IF holder = NoSession THEN "false" ELSE "true")
  /\ UNCHANGED <<rloaded, rtask, rsession, rcrashed, revokedUsers, rinvoked, pingerVars>>

\* getSSOData.
GetSSOData(t) ==
  /\ ~rcrashed /\ rpc[t] = "started" /\ rtask[t].kind = "ssodata"
  /\ Answer(t, "SUCCESS")
  /\ UNCHANGED <<rloaded, holder, rtask, rsession, rcrashed, revokedUsers, rhistory, rinvoked, pingerVars>>

Impersonates(s, tok) == s.user = tok.impersonator

\* What the extra token of a call does: the session to go on with and a failure
\* ("" for none), or the dereference of a null session.
ExtraToken(s, tok) ==
  LET with(session, failed) == [session |-> session, failed |-> failed, null |-> FALSE]
  IN CASE tok = NoSession -> with(s, "")
       [] tok # NoSession /\ ~tok.valid -> with(s, "INVALID_TOKEN")
       [] tok # NoSession /\ tok.valid /\ tok.impersonator = "" ->
            IF s = NoSession THEN with(tok, "") ELSE with(s, "INVALID_TOKEN")
       [] OTHER ->
            IF s = NoSession THEN [with(s, "") EXCEPT !.null = TRUE]
            ELSE IF Impersonates(s, tok) THEN with(tok, "")
            ELSE with(s, "INVALID_IMPERSONATOR_TOKEN")

RevokedSession(s) == s # NoSession /\ s.user \in revokedUsers

\* executeLocalTask up to the requirements of the endpoint.
CheckCall(t) ==
  /\ ~rcrashed /\ rpc[t] = "loaded" /\ rtask[t].kind = "call"
  /\ LET x == ExtraToken(rsession[t], rtask[t].token)
         revoked == x.failed = "" /\ RevokedSession(x.session)
         s == IF revoked THEN NoSession ELSE x.session
     IN \/ /\ x.null
           /\ rcrashed' = TRUE
           /\ UNCHANGED <<rsession, rpc, ranswer>>
        \/ /\ ~x.null
           /\ rsession' = [rsession EXCEPT ![t] = s]
           /\ IF rtask[t].needs /\ s = NoSession THEN Answer(t, "REQUIRED_SESSION_NOT_FOUND")
              ELSE IF revoked THEN Answer(t, "INVALID_TOKEN")
              ELSE IF x.failed # "" THEN Answer(t, x.failed)
              ELSE \/ Answer(t, "NOT_AUTHORIZED")
                   \/ Answer(t, "METHOD_NOT_IMPLEMENTED")
                   \/ rpc' = [rpc EXCEPT ![t] = "invoke"] /\ UNCHANGED ranswer
           /\ UNCHANGED rcrashed
  /\ UNCHANGED <<rloaded, holder, rtask, revokedUsers, rhistory, rinvoked, pingerVars>>

\* The requirements are met: updateLastActivity and the method itself.
InvokeCall(t) ==
  /\ ~rcrashed /\ rpc[t] = "invoke"
  /\ rinvoked' = rinvoked \cup {<<t, rsession[t]>>}
  /\ \E a \in {"200", "METHOD_NOT_IMPLEMENTED", "INTERNAL_ERROR"} : Answer(t, a)
  /\ UNCHANGED <<rloaded, holder, rtask, rsession, rcrashed, revokedUsers, rhistory, pingerVars>>

\* sendRPCAnswer and unlock_shared of the connection's mutex.
SendAnswer(t) ==
  /\ ~rcrashed /\ rpc[t] = "answer"
  /\ rpc' = [rpc EXCEPT ![t] = "done"]
  /\ UNCHANGED <<rloaded, holder, rtask, rsession, ranswer, rcrashed, revokedUsers, rhistory, rinvoked, pingerVars>>

RevokeUser(u) ==
  /\ ~rcrashed /\ u \notin revokedUsers
  /\ revokedUsers' = revokedUsers \cup {u}
  /\ UNCHANGED <<rloaded, holder, rtask, rpc, rsession, ranswer, rcrashed, rhistory, rinvoked, pingerVars>>

-----------------------------------------------------------------------------
\* waitPingInterval ended by its timeout: a round over the connections.
PingRound ==
  /\ ping = "wait"
  /\ ping' = "round" /\ \E n \in 0..MaxPeers : pingLeft' = n
  /\ UNCHANGED <<isFinished, pingNotified, latePings, sessionVars>>

PingsOn == pingLeft > 0 /\ ~isFinished

\* pingAllActiveConnections: the flag is tested before every connection.
PingOne ==
  /\ ping = "round"
  /\ IF PingsOn THEN ping' = "pinging" /\ pingLeft' = pingLeft - 1
                ELSE ping' = "wait" /\ pingLeft' = 0
  /\ UNCHANGED <<isFinished, pingNotified, latePings, sessionVars>>

\* The remote task was sent (or failed).
PingSent ==
  /\ ping = "pinging"
  /\ ping' = "round"
  /\ latePings' = IF isFinished THEN latePings + 1 ELSE latePings
  /\ UNCHANGED <<pingLeft, isFinished, pingNotified, sessionVars>>

\* A wait that ends without a timeout ends the thread, also a spurious wake-up.
PingSpurious ==
  /\ ping = "wait"
  /\ ping' = "ended"
  /\ UNCHANGED <<pingLeft, isFinished, pingNotified, latePings, sessionVars>>

\* ~FastRPC3: the flag, ...
FinishPinger ==
  /\ ~isFinished
  /\ isFinished' = TRUE
  /\ UNCHANGED <<ping, pingLeft, pingNotified, latePings, sessionVars>>

\* ... then notify_all under the mutex of the wait: it finds the pinger waiting,
\* or is lost.
NotifyPinger ==
  /\ isFinished /\ pingNotified = "no"
  /\ pingNotified' = IF ping = "wait" THEN "heard" ELSE "lost"
  /\ ping' = IF ping = "wait" THEN "ended" ELSE ping
  /\ UNCHANGED <<pingLeft, isFinished, latePings, sessionVars>>

TaskRuns(t) == \/ GetSession(t) \/ RPCLogin(t) \/ RPCLogout(t) \/ GetSSOData(t)
               \/ CheckCall(t) \/ InvokeCall(t) \/ SendAnswer(t)

RPCSessionNext ==
  \/ \E t \in RPCTasks :
       \/ \E tok \in RTokens : RequestTask(t, "login", tok, FALSE)
       \/ RequestTask(t, "logout", NoSession, FALSE) \/ RequestTask(t, "ssodata", NoSession, FALSE)
       \/ \E tok \in RTokens \cup {NoSession}, needs \in BOOLEAN : RequestTask(t, "call", tok, needs)
       \/ TaskRuns(t)
  \/ \E u \in Revocable : RevokeUser(u)

PingerNext == PingRound \/ PingOne \/ PingSent \/ PingSpurious \/ FinishPinger \/ NotifyPinger

RPCSessionSpec ==
  RPCSessionInit /\ [][RPCSessionNext \/ PingerNext]_<<sessionVars, pingerVars>>

-----------------------------------------------------------------------------
(* One connection has one session: two logins that both found no session do not
   both succeed; between two successful ones there is a successful logout. *)
OneLoginAtATime ==
  \A i \in 1..(Len(rhistory) - 1) : rhistory[i] # rhistory[i + 1]

(* A method runs only for a session that a verified token made: the
   connection's, the caller's extra token, or an impersonation by the user that
   the token names.  What logs in or out meanwhile does not change it. *)
InvokedWithProof ==
  \A i \in rinvoked :
    LET t == i[1] s == i[2] own == rloaded[t] tok == rtask[t].token
    IN IF s = NoSession THEN ~rtask[t].needs
       ELSE /\ s.valid
            /\ \/ s = own
               \/ s = tok /\ own = NoSession /\ tok.impersonator = ""
               \/ s = tok /\ own # NoSession /\ tok.impersonator = own.user

\* A task that goes on to its method found its session not revoked.
RefusesRevoked ==
  \A t \in RPCTasks : rpc'[t] = "invoke" /\ rpc[t] # "invoke" =>
    rsession'[t] = NoSession \/ rsession'[t].user \notin revokedUsers

(* A method is never started for a session whose user was revoked before the
   task looked: only a revocation between the check and the call is late. *)
RevokedIsRefused == [][RefusesRevoked]_sessionVars

(* Every task is answered, and so releases the mutex its connection waits for,
   unless the process died on a null session. *)
EveryTaskAnswered == \A t \in RPCTasks : (rpc[t] # "new") ~> (rpc[t] = "done" \/ rcrashed)

(* After the flag is set at most the ping in progress is sent. *)
PingsCease == latePings <= 1

(* "Wait until the loop ends...": the destructor's join returns. *)
PingerEnds == (pingNotified # "no") ~> (ping = "ended")

(* The calls of a connection: one login at a time, no call without the proof it
   needs or with a revoked session, and at most one ping after the end. *)
CallsAuthenticated ==
  [](OneLoginAtATime /\ InvokedWithProof /\ PingsCease) /\ RevokedIsRefused
=============================================================================
