----------------------------- MODULE WebRequest -----------------------------
(***************************************************************************)
(* The requests of one connection of a web API server: the checks before   *)
(* the session, the session (tokens of the RESTful server, given sessions  *)
(* of the monolithic one), the way to an endpoint, a proxied route or a    *)
(* file, the filter of the resources and the HTML engine.  What a handler  *)
(* object keeps from one request to the next (the flags of the verified    *)
(* tokens, the token, the session) is kept here too.                       *)
(* The file system and the signature of a token are constants; the checks  *)
(* of the program (dynamicInitialChecks, the origin validators) are parts  *)
(* of the configuration.  No caller fills the static contents of an API    *)
(* server, so they are left out.  The requests arrive by HTTPConnection.    *)
(***************************************************************************)
EXTENDS WebSocket

CONSTANTS WConfigs,     \* configurations of the server
          WRequests,    \* what the client may send
          WEndpoints,   \* [<<version, method, name>> -> requirements of the endpoint]
          WDisk,        \* [<<root, uri, suffix>> -> what realpath and stat say of the path]
          WPages,       \* [file -> what the HTML engine sees in it]
          WMaxRequests, \* requests on the connection
          WMaxIncludes, \* include tags replaced in one page
          NoTok

\* The engine reads the pages it is given.
ASSUME WebAssumption ==
  /\ \A c \in WConfigs : c.rest \in BOOLEAN /\ c.engine \in BOOLEAN
                          /\ c.validator \in {"none", "own", "dynamic"}
  /\ \A f \in DOMAIN WPages : WPages[f] \in Seq({WPages[f][i] : i \in 1..Len(WPages[f])})
  /\ \A d \in DOMAIN WDisk :
       WDisk[d].kind = "file" /\ WDisk[d].mime \in {"page", "script"} => WDisk[d].file \in DOMAIN WPages

VARIABLES wcfg, wreq, wstage, wrequests,
          wheader, wcookie, \* m_isAuthorizationHeaderJWTVerified, m_isAccessTokenCookieJWTVerified
          wtoken,           \* jwtToken
          wauth,            \* currentSessionInfo.authSession: the token it was made from
          wopen,            \* the monolithic server opened a session for this request
          wstatus, wbody,   \* what the answer will carry
          wpage, wincludes, \* the page in the HTML engine, and the tags replaced in it
          wexec,            \* endpoints executed by this request, with what allowed them
          wforward,         \* the identity headers sent by the proxy
          wshown            \* tokens presented on this connection whose signature was good

wConnection == <<wheader, wcookie, wtoken, wauth, wshown>>
wAnswer == <<wstatus, wbody, wpage, wincludes, wexec, wforward>>
webVars == <<wcfg, wreq, wstage, wrequests, wopen, wConnection, wAnswer>>

WebInit ==
  /\ wcfg = NoTok /\ wreq = NoTok /\ wstage = "configure" /\ wrequests = 0
  /\ wheader = FALSE /\ wcookie = FALSE /\ wtoken = NoTok /\ wauth = NoTok /\ wshown = {}
  /\ wopen = FALSE /\ wstatus = 0 /\ wbody = "none" /\ wpage = <<>> /\ wincludes = 0
  /\ wexec = {} /\ wforward = NoTok

SetConfig(c) ==
  /\ wstage = "configure" /\ wstage' = "idle" /\ wcfg' = c
  /\ UNCHANGED <<wreq, wrequests, wopen, wConnection, wAnswer>>

-----------------------------------------------------------------------------
(* The checks before the session.                                          *)

\* Answer with the status, and nothing more of this request.
AnswerNow(status, body) ==
  /\ wstage' = "idle" /\ wstatus' = status /\ wbody' = body

\* The user agent, the checks of the program, the redirections: each may end the
\* request before a session is looked for.
ReceiveRequest(r) ==
  /\ wstage = "idle" /\ wrequests < WMaxRequests /\ wrequests' = wrequests + 1 /\ wreq' = r
  /\ wpage' = <<>> /\ wincludes' = 0 /\ wexec' = {} /\ wforward' = NoTok /\ wopen' = FALSE
  /\ \/ ~r.agent /\ AnswerNow(426, "html")
     \/ r.agent /\ wcfg.checks # 200 /\ AnswerNow(wcfg.checks, "none")
     \/ r.agent /\ wcfg.checks = 200 /\ r.uri \in wcfg.redirects /\ AnswerNow(302, "none")
     \/ /\ r.agent /\ wcfg.checks = 200 /\ r.uri \notin wcfg.redirects
        /\ wstage' = "session" /\ wstatus' = 404 /\ wbody' = "none"
  /\ UNCHANGED <<wcfg, wConnection>>

-----------------------------------------------------------------------------
(* The session.                                                            *)

\* verifyToken: the validator decodes into jwtToken every token whose signature is
\* good; the application and the type are compared afterwards.
Decoded(tok) == IF wcfg.validator # "none" /\ tok.signed THEN tok ELSE wtoken
VerifyToken(tok) ==
  CASE wcfg.validator = "none" -> FALSE
    [] wcfg.validator = "own" -> tok.signed /\ tok.valid /\ tok.app /\ tok.access
    [] wcfg.validator = "dynamic" -> tok.signed /\ tok.valid

\* The token of the header, or without one the token of the cookie.
PresentedToken(r) == IF r.header # NoTok THEN r.header ELSE r.cookie

IsSessionActive == IF wcfg.rest THEN wheader \/ wcookie ELSE wauth # NoTok

\* RESTful: the flag of a token that is not presented keeps its value.
SessionStartREST ==
  /\ wstage = "session" /\ wcfg.rest /\ wstage' = "dispatch"
  /\ LET tok == PresentedToken(wreq)
         ok == tok # NoTok /\ VerifyToken(tok)
     IN /\ wheader' = IF wreq.header # NoTok THEN ok ELSE wheader
        /\ wcookie' = IF wreq.header = NoTok /\ wreq.cookie # NoTok THEN ok ELSE wcookie
        /\ wtoken' = IF tok = NoTok THEN wtoken ELSE Decoded(tok)
        /\ wshown' = wshown \cup (IF tok # NoTok /\ tok.signed THEN {tok} ELSE {})
        /\ wauth' = IF wheader' \/ wcookie' THEN wtoken' ELSE wauth
  /\ UNCHANGED <<wcfg, wreq, wrequests, wopen, wAnswer>>

\* Monolithic: the session of the cookie is found, refused, or not there (then the
\* authSession of an earlier request on this connection stays).
SessionStartMonolith ==
  /\ wstage = "session" /\ ~wcfg.rest
  /\ \/ /\ wreq.session = "refused" /\ AnswerNow(403, "none")
        /\ UNCHANGED <<wauth, wshown, wopen>>
     \/ /\ wreq.session = "found" /\ wstage' = "dispatch"
        /\ wauth' = wreq.header /\ wshown' = wshown \cup {wreq.header} /\ wopen' = TRUE
        /\ UNCHANGED <<wstatus, wbody>>
     \/ /\ wreq.session = "none" /\ wstage' = "dispatch"
        /\ UNCHANGED <<wauth, wshown, wopen, wstatus, wbody>>
  /\ UNCHANGED <<wcfg, wreq, wrequests, wheader, wcookie, wtoken, wpage, wincludes, wexec, wforward>>

-----------------------------------------------------------------------------
(* The endpoints.                                                          *)

SessionScopes == IF ~IsSessionActive THEN {} ELSE IF wcfg.rest THEN wtoken.scopes ELSE wauth.scopes
SessionRoles == IF ~IsSessionActive THEN {} ELSE IF wcfg.rest THEN wtoken.roles ELSE wauth.roles
SessionAdmin == IsSessionActive /\ IF wcfg.rest THEN wtoken.admin ELSE wauth.admin

\* RESTful handleEndpoint: the status it refuses with, or 200.
HandleEndpoint(call, json) ==
  CASE call[2] \notin {"GET", "POST", "PUT", "DELETE", "PATCH"} -> 400
    [] call \notin DOMAIN WEndpoints -> 404
    [] WEndpoints[call].header /\ ~wheader -> 403
    [] WEndpoints[call].cookie /\ ~wcookie -> 403
    [] ~SessionAdmin /\ ~(WEndpoints[call].scopes \subseteq SessionScopes) -> 401
    [] json = "bad" -> 400
    [] OTHER -> 200

\* Mutant: one of the scopes is enough.
ValidateEndpointAny(ep) ==
  wauth # NoTok /\ (wauth.admin \/ ep.scopes = {} \/ ep.scopes \cap (wauth.scopes \cup wauth.roles) # {})

\* Monolithic validateEndpoint: a role the session has takes the scope of the same
\* name off the list; the roles that are left are those it was called with, none.
ValidateEndpoint(ep) ==
  wauth # NoTok /\ (wauth.admin \/ ep.scopes \ (wauth.scopes \cup (ep.roles \cap wauth.roles)) = {})

MonolithEndpoint(call) ==
  CASE call \notin DOMAIN WEndpoints -> 404
    [] WEndpoints[call].session /\ ~wopen -> 404
    [] ~ValidateEndpoint(WEndpoints[call]) -> 401
    [] OTHER -> 200

HandleAPIRequest(call, json) ==
  IF \A e \in DOMAIN WEndpoints : e[1] # call[1] THEN 404
  ELSE IF wcfg.rest THEN HandleEndpoint(call, json) ELSE MonolithEndpoint(call)

\* OPTIONS: 204 with the headers for the origin where options were configured.
HandleOptionsRequest(call) ==
  IF \A e \in DOMAIN WEndpoints : e[1] # call[1] THEN 404
  ELSE IF wcfg.options THEN 204 ELSE 200

APIExecuted(call) ==
  [call |-> call, header |-> wheader, cookie |-> wcookie, scopes |-> SessionScopes,
   roles |-> SessionRoles, admin |-> SessionAdmin]

\* The login callback asks for its origin always, any other endpoint when the request
\* has one.
OriginAllowed(r) ==
  IF r.call[3] = wcfg.login THEN r.origin \in wcfg.loginOrigins
  ELSE r.origin = "" \/ r.origin \in wcfg.origins

DispatchAPI ==
  /\ wstage = "dispatch" /\ wreq.shape = "call" /\ wstage' = "cleanup" /\ wbody' = "json"
  /\ LET status == IF ~OriginAllowed(wreq) THEN 401
                   ELSE IF wreq.call[2] = "OPTIONS" THEN HandleOptionsRequest(wreq.call)
                   ELSE HandleAPIRequest(wreq.call, wreq.json)
     IN /\ wstatus' = status
        /\ wexec' = IF OriginAllowed(wreq) /\ wreq.call[2] # "OPTIONS" /\ status = 200
                    THEN {APIExecuted(wreq.call)} ELSE {}
  /\ UNCHANGED <<wcfg, wreq, wrequests, wopen, wConnection, wpage, wincludes, wforward>>

\* /auth/ (not implemented in the RESTful server; see WebClientHandler for the other)
\* and /info.
DispatchFixed ==
  /\ wstage = "dispatch" /\ wreq.shape \in {"auth", "info"} /\ wstage' = "cleanup"
  /\ wstatus' = IF wreq.shape = "auth" THEN 501 ELSE 200
  /\ wbody' = IF wreq.shape = "auth" THEN "none" ELSE "json"
  /\ UNCHANGED <<wcfg, wreq, wrequests, wopen, wConnection, wpage, wincludes, wexec, wforward>>

-----------------------------------------------------------------------------
(* The routes of the program: here the proxy.                              *)

\* The headers that name the user are those of the session; without a session the
\* ones the client sent are removed.
ForwardedIdentity == IF wauth # NoTok THEN wauth.user ELSE "nobody"

APIProxy ==
  /\ wstage = "dispatch" /\ wreq.shape = "route" /\ wstage' = "cleanup"
  /\ \/ /\ wforward' = ForwardedIdentity
        /\ \E s \in {200, 502} : wstatus' = s
        /\ wbody' = IF wstatus' = 200 THEN "upstream" ELSE "none"
     \/ wforward' = NoTok /\ wstatus' = 502 /\ wbody' = "none"   \* no connection
  /\ UNCHANGED <<wcfg, wreq, wrequests, wopen, wConnection, wpage, wincludes, wexec>>

-----------------------------------------------------------------------------
(* The files.                                                              *)

\* resolveLocalFilePathFromURI2: the document root, then the directories laid over
\* the URI; the first path that exists is taken, and refused outside of its root.
PathOf(root, r, suffix) ==
  IF <<root, r.uri, suffix>> \in DOMAIN WDisk THEN WDisk[<<root, r.uri, suffix>>]
  ELSE [kind |-> "none", file |-> "", mime |-> ""]
Roots(r) == <<"root">> \o r.overlaps
Resolve(r, suffix) ==
  LET hits == {i \in 1..Len(Roots(r)) : PathOf(Roots(r)[i], r, suffix).kind # "none"}
  IN IF hits = {} THEN PathOf("root", r, suffix)
     ELSE PathOf(Roots(r)[CHOOSE i \in hits : \A j \in hits : i <= j], r, suffix)

\* A directory answers only the lookup without a suffix.
Resolves(r, suffix) ==
  LET p == Resolve(r, suffix)
  IN p.kind = "file" \/ (p.kind = "dir" /\ suffix = "")

\* The three lookups of handleRegularFileRequest, the first that succeeds.
RequestedFile(r) ==
  LET order == <<".html", "index.html", "">>
      hits == {i \in 1..3 : Resolves(r, order[i])}
  IN IF hits = {} THEN [kind |-> "none", file |-> "", mime |-> ""]
     ELSE Resolve(r, order[CHOOSE i \in hits : \A j \in hits : i <= j])

\* evaluateURI: the first filter whose requirements hold and whose expression matches
\* decides; no filter accepts.
FilterApplies(f, file) ==
  /\ f.scopes \subseteq SessionScopes /\ f.noScopes \cap SessionScopes = {}
  /\ f.roles \subseteq SessionRoles /\ f.noRoles \cap SessionRoles = {}
  /\ (f.session => IsSessionActive) /\ (f.noSession => ~IsSessionActive)
  /\ file \in f.match
EvaluateURI(file) ==
  LET hits == {i \in 1..Len(wcfg.filters) : FilterApplies(wcfg.filters[i], file)}
  IN IF hits = {} THEN "ACCEPT" ELSE wcfg.filters[CHOOSE i \in hits : \A j \in hits : i <= j].action

FilterStatus(file) ==
  CASE EvaluateURI(file) = "ACCEPT" -> 200
    [] EvaluateURI(file) = "REDIRECT" -> 302
    [] OTHER -> 403

\* With the engine on, a page or a script goes to it whatever the filter said; its
\* status replaces the filter's.
HandleRegularFile ==
  /\ wstage = "dispatch" /\ wreq.shape \in {"other", "file"}
  /\ LET p == RequestedFile(wreq)
         status == IF p.kind = "file" THEN FilterStatus(p.file) ELSE 404
     IN IF wcfg.engine /\ wcfg.docroot /\ p.kind = "file" /\ p.mime \in {"page", "script"}
        THEN /\ wstage' = "include" /\ wpage' = WPages[p.file]
             /\ wstatus' = 200 /\ wbody' = p.file
        ELSE /\ wstage' = "cleanup" /\ wpage' = <<>>
             /\ wstatus' = IF wcfg.docroot /\ status = 404 /\ wcfg.on404 THEN 302
                           ELSE IF wcfg.docroot THEN status ELSE 404
             /\ wbody' = IF wcfg.docroot /\ status = 200 THEN p.file ELSE "none"
  /\ UNCHANGED <<wcfg, wreq, wrequests, wopen, wConnection, wincludes, wexec, wforward>>

-----------------------------------------------------------------------------
(* The HTML engine.  A page is a sequence of [t, name]: "text", "include", and the     *)
(* two notations of a tag, "js" and "html", with what the tag asks for (op).           *)

PText(n) == [t |-> "text", op |-> "", name |-> n]
Spread(page, f(_)) == FlattenSeq([i \in 1..Len(page) |-> f(page[i])])

\* One turn of the include loop: the first tag, wherever it stands again, is replaced
\* by the file or by a comment, and the search starts over.  A script is searched for
\* the tags of a page.
IncludeTag(page) ==
  LET hits == {i \in 1..Len(page) : page[i].t = "include"}
  IN page[CHOOSE i \in hits : \A j \in hits : i <= j]
HasInclude(page) == \E i \in 1..Len(page) : page[i].t = "include"
ProcessInclude ==
  /\ wstage = "include" /\ HasInclude(wpage) /\ wincludes < WMaxIncludes
  /\ LET tag == IncludeTag(wpage)
         by == IF tag.name \in DOMAIN WPages THEN WPages[tag.name] ELSE <<PText("not found")>>
         put(x) == IF x.t = "include" /\ x.name = tag.name THEN by ELSE <<x>>
     IN wpage' = Spread(wpage, put)
  /\ wincludes' = wincludes + 1
  /\ UNCHANGED <<wcfg, wreq, wstage, wrequests, wopen, wConnection, wstatus, wbody, wexec, wforward>>

\* replaceByJVar escapes the angle brackets: a value that reads like a tag is text.
ReplaceByJVar(value) == IF value \in DOMAIN wreq.vars THEN PText("value") ELSE PText("null")

\* iProcResource_JProcessor: one notation, from left to right, past what was put in.
JProcess(page, notation) ==
  LET put(x) ==
        IF x.t # notation THEN <<x>>
        ELSE IF x.op = "FUNC" THEN <<PText("result")>>
        ELSE <<ReplaceByJVar(x.name)>>
  IN Spread(page, put)
Calls(page, notation) ==
  {page[i].name : i \in {j \in 1..Len(page) : page[j].t = notation /\ page[j].op = "FUNC"}}

\* The scripts' notation over the page, then the pages' notation over the result; a
\* function is an endpoint called without the checks of the origin.
ProcessTags ==
  /\ wstage = "include" /\ ~HasInclude(wpage) /\ wstage' = "cleanup"
  /\ LET first == JProcess(wpage, "js")
         called == Calls(wpage, "js") \cup Calls(first, "html")
     IN /\ wpage' = JProcess(first, "html")
        /\ wexec' = {APIExecuted(c) : c \in {x \in called : HandleAPIRequest(x, "none") = 200}}
  /\ UNCHANGED <<wcfg, wreq, wrequests, wopen, wConnection, wstatus, wbody, wincludes, wforward>>

\* The end of the request; the session of the monolithic server is let go.
SessionCleanup ==
  /\ wstage = "cleanup" /\ wstage' = "idle" /\ wopen' = FALSE
  /\ UNCHANGED <<wcfg, wreq, wrequests, wConnection, wAnswer>>

WebNext ==
  \/ \E c \in WConfigs : SetConfig(c)
  \/ \E r \in WRequests : ReceiveRequest(r)
  \/ SessionStartREST \/ SessionStartMonolith
  \/ DispatchAPI \/ DispatchFixed \/ APIProxy \/ HandleRegularFile
  \/ ProcessInclude \/ ProcessTags \/ SessionCleanup

WebSpec == WebInit /\ [][WebNext]_webVars

-----------------------------------------------------------------------------
(* Properties.                                                             *)

\* An endpoint that ran, called by its URL or by a tag of a page, had its requirements
\* met by tokens this connection presented: whatever order of requests, with tokens
\* of other applications, expired ones and none at all, preceded it.
EndpointsGuarded ==
  \A x \in wexec :
    LET ep == WEndpoints[x.call]
        held == {t \in wshown : t.admin \/ ep.scopes \subseteq t.scopes \cup t.roles}
    IN /\ ep.scopes # {} => held # {}
       /\ wcfg.rest => /\ ep.header => \E t \in wshown : t.valid
                       /\ ep.cookie => \E t \in wshown : t.valid
       /\ ~wcfg.rest => wshown # {}

(* The tags that ran are those of the files: a value of the request put into a page
   is not read again as a tag, by either of the two passes. *)
ValuesAreText ==
  wstage = "cleanup" => \A x \in wexec :
    \/ x.call = wreq.call
    \/ \E f \in DOMAIN WPages : \E i \in 1..Len(WPages[f]) :
         WPages[f][i].op = "FUNC" /\ WPages[f][i].name = x.call

\* The proxy names to the server behind it a user of this connection's sessions, or
\* nobody: never the user the client wrote in its own headers.
ForwardedIsSession ==
  wforward \in {NoTok, "nobody"} \/ \E t \in wshown : t.user = wforward

\* With the HTML engine off, a file the filter does not accept is not sent (with it on,
\* a page is: the engine answers after the filter and in its place).
DeniedSendsNothing ==
  wstage = "cleanup" /\ ~wcfg.engine /\ wreq.shape \in {"other", "file"} /\ wbody # "none"
    => EvaluateURI(wbody) = "ACCEPT"

(* What a request gets, it gets by the tokens of its connection: the endpoints
   that ran, the user named to a server behind the proxy, the files. *)
RequestsGuarded == EndpointsGuarded /\ ForwardedIsSession /\ DeniedSendsNothing

(* The messages: an HTTP handler meets its own request only and its answers are whole and in
   order, WebSocket frames arrive as they were sent, and the values a request puts into a page
   are not read as its tags. *)
MessagesSound == HTTPSound /\ WebSocketSound /\ ValuesAreText
=============================================================================
