---------------------------- MODULE ServiceStart ----------------------------
(***************************************************************************)
(* createRESTfulEngine and what it starts from: the listeners of the       *)
(* configuration, the keys of the tokens (from files that are created when *)
(* they are not there, or from an API server), the routes.  Programs that  *)
(* share the key files start at the same time, fail and are killed; what   *)
(* a killed program had not written is lost.                               *)
(***************************************************************************)
EXTENDS Naturals, FiniteSets, Sequences

CONSTANTS
  SvPrograms,
  SvPlans,        \* which configuration each program has: functions on SvPrograms
  SvMaxKills,     \* bound: kills
  SvMaxRotations  \* bound: changes of the API server's key

\* Every program has a list of listeners, possibly empty.
ASSUME SvAssumption ==
  \A plan \in SvPlans : \A p \in SvPrograms : Len(plan[p].listeners) \in Nat

VARIABLES
  svPlan,         \* the plan of this behaviour, <<>> before
  svProgram,      \* [pc, conf, role, socks, signer, validator, answer, newKey, dirs, routes]: see NoProgram
  svFile,         \* the key files: [there, content, secure]
  svServer,       \* the API server: [alg, key]
  svKeys,         \* keys generated so far
  svKills, svOverlap, svStale, svMade  \* history

svVars == <<svPlan, svProgram, svFile, svServer, svKeys, svKills, svOverlap, svStale, svMade>>

NoJWT == [alg |-> "none", key |-> 0]
SvFiles == {"hmac", "private", "public"}
SvNoFile == [there |-> FALSE, content |-> 0, secure |-> TRUE]
SvEmptyFile == [there |-> TRUE, content |-> 0, secure |-> TRUE]

\* pc: where createRESTfulEngine is; role: which of signer and validator is being made;
\* answer: the algorithm the API server named; newKey: the RSA key that was generated.
NoProgram == [pc |-> "off", conf |-> <<>>, role |-> "signer", socks |-> {}, signer |-> NoJWT,
              validator |-> NoJWT, answer |-> "none", newKey |-> 0, dirs |-> {}, routes |-> {}]

SvInit ==
  /\ svPlan = <<>>
  /\ svProgram = [p \in SvPrograms |-> NoProgram]
  /\ svFile = [f \in SvFiles |-> SvNoFile]
  /\ svServer = [alg |-> "HS", key |-> 1] /\ svKeys = 1
  /\ svKills = 0 /\ svOverlap = FALSE /\ svStale = {} /\ svMade = {}

SvAt(p, where) == svProgram[p].pc = where
SvConf(p) == svProgram[p].conf
SvBecomes(p, program) == svProgram' = [svProgram EXCEPT ![p] = program]
SvGoes(p, where) == SvBecomes(p, [svProgram[p] EXCEPT !.pc = where])

\* return nullptr: the listeners are closed.
SvFails(p) == SvBecomes(p, [NoProgram EXCEPT !.pc = "failed"])

(***************************************************************************)
(* The listeners.                                                          *)
(***************************************************************************)
SvPlanned(plan) ==
  /\ svPlan = <<>> /\ svPlan' = plan
  /\ UNCHANGED <<svProgram, svFile, svServer, svKeys, svKills, svOverlap, svStale, svMade>>

SvStart(p) ==
  /\ svPlan # <<>> /\ SvAt(p, "off")
  /\ SvBecomes(p, [NoProgram EXCEPT !.pc = "listen", !.conf = svPlan[p]])
  /\ UNCHANGED <<svPlan, svFile, svServer, svKeys, svKills, svOverlap, svStale, svMade>>

\* createListenerSocket: TLS forbidden, mandatory, or its keys not readable.
ListenerRefused(p, l) ==
  \/ ~l.tls /\ SvConf(p).tls = "mandatory"
  \/ l.tls /\ (SvConf(p).tls = "no" \/ ~l.keys)

\* One listener after the other; listenOn fails when another socket has the port.
SvListen(p) ==
  LET n == Cardinality(svProgram[p].socks) + 1
      l == SvConf(p).listeners[n]
      taken == UNION {{x.port : x \in svProgram[q].socks} : q \in SvPrograms}
  IN /\ SvAt(p, "listen")
     /\ IF n > Len(SvConf(p).listeners)
        THEN IF n = 1 THEN SvFails(p) ELSE SvGoes(p, "resources")
        ELSE IF ListenerRefused(p, l) \/ l.port \in taken THEN SvFails(p)
        ELSE SvBecomes(p, [svProgram[p] EXCEPT !.socks = @ \cup {l}])
     /\ UNCHANGED <<svPlan, svFile, svServer, svKeys, svKills, svOverlap, svStale, svMade>>

\* setDocumentRootPath and the overlapped directories (the ones that have a path), then the
\* keys unless the program sets them itself.
SvResources(p) ==
  /\ SvAt(p, "resources")
  /\ IF SvConf(p).resources = "missing" THEN SvFails(p)
     ELSE SvBecomes(p, [svProgram[p] EXCEPT !.dirs = SvConf(p).dirs \ {""},
                                            !.pc = IF SvConf(p).jwt THEN "key" ELSE "accept"])
  /\ UNCHANGED <<svPlan, svFile, svServer, svKeys, svKills, svOverlap, svStale, svMade>>

(***************************************************************************)
(* createJWTSigner and createJWTValidator.                                 *)
(***************************************************************************)
\* Mutant: the validator may be missing too.
SvResultUnchecked(p, jwt, stored) ==
  /\ IF svProgram[p].role = "signer"
     THEN SvBecomes(p, [svProgram[p] EXCEPT !.signer = jwt, !.role = "validator", !.pc = "key",
                                            !.newKey = 0])
     ELSE SvBecomes(p, [svProgram[p] EXCEPT !.validator = jwt, !.pc = "accept", !.newKey = 0])
  /\ svMade' = IF jwt # NoJWT /\ stored THEN svMade \cup {<<svProgram[p].role, jwt>>} ELSE svMade

\* What becomes of the signer or the validator: the signer may be missing, the
\* validator may not.  stored: the key is one of the files'.
SvResult(p, jwt, stored) ==
  /\ IF svProgram[p].role = "signer"
     THEN SvBecomes(p, [svProgram[p] EXCEPT !.signer = jwt, !.role = "validator", !.pc = "key",
                                            !.newKey = 0])
     ELSE IF jwt = NoJWT THEN SvFails(p)
     ELSE SvBecomes(p, [svProgram[p] EXCEPT !.validator = jwt, !.pc = "accept", !.newKey = 0])
  /\ svMade' = IF jwt # NoJWT /\ stored THEN svMade \cup {<<svProgram[p].role, jwt>>} ELSE svMade

SvJWT(alg, key) == IF key = 0 THEN NoJWT ELSE [alg |-> alg, key |-> key]

\* Where the key comes from; an algorithm that is not supported makes none.
SvKeySource(p) ==
  CASE SvConf(p).sync -> "syncConfig"
    [] ~SvConf(p).sync /\ SvConf(p).alg = "HS" -> "hmacOpen"
    [] ~SvConf(p).sync /\ SvConf(p).alg = "RS" -> "rsaOpen"
    [] OTHER -> "none"

SvKey(p) ==
  /\ SvAt(p, "key")
  /\ \/ SvKeySource(p) = "none" /\ SvResult(p, NoJWT, FALSE)
     \/ SvKeySource(p) # "none" /\ SvGoes(p, SvKeySource(p)) /\ UNCHANGED svMade
  /\ UNCHANGED <<svPlan, svFile, svServer, svKeys, svKills, svOverlap, svStale>>

\* performAPISynchronizationRequest: an answer, or none (no connection, no 200, not JSON).
SyncReplies(answer) == {answer, "none"}

\* getApplicationJWTConfig, which needs APP and APIKEY: a signer is never made from the API.
SvSyncConfig(p) ==
  /\ SvAt(p, "syncConfig")
  /\ \E a \in IF SvConf(p).vars THEN SyncReplies(svServer.alg) ELSE {"none"} :
       IF a = "none" \/ svProgram[p].role = "signer"
       THEN SvResult(p, NoJWT, FALSE) /\ UNCHANGED svStale
       ELSE /\ SvBecomes(p, [svProgram[p] EXCEPT !.answer = a, !.pc = "syncKey"])
            /\ svStale' = svStale \ {p}
            /\ UNCHANGED svMade
  /\ UNCHANGED <<svPlan, svFile, svServer, svKeys, svKills, svOverlap>>

\* getApplicationJWTValidationKey: a second request.
SvSyncKey(p) ==
  /\ SvAt(p, "syncKey")
  /\ \E a \in SyncReplies("key") :
       SvResult(p, SvJWT(svProgram[p].answer, IF a = "none" THEN 0 ELSE svServer.key), FALSE)
  /\ UNCHANGED <<svPlan, svFile, svServer, svKeys, svKills, svOverlap, svStale>>

\* Another program makes the same kind of key.
SvCreating(p, stages) == \E q \in SvPrograms \ {p} : svProgram[q].pc \in stages
HmacStages == {"hmacCreate", "hmacWrite"}
RsaStages == {"rsaPrivate", "rsaPublic", "rsaWrite", "rsaClose"}

\* openFileWithCreation.
HmacOpen(p) ==
  /\ SvAt(p, "hmacOpen")
  /\ \/ /\ svFile["hmac"].there
        /\ SvGoes(p, "hmacRead") /\ UNCHANGED <<svOverlap, svMade>>
     \/ /\ ~svFile["hmac"].there /\ SvConf(p).create
        /\ SvGoes(p, "hmacCreate")
        /\ svOverlap' = (svOverlap \/ SvCreating(p, HmacStages)) /\ UNCHANGED svMade
     \/ /\ ~svFile["hmac"].there /\ ~SvConf(p).create
        /\ SvResult(p, NoJWT, FALSE) /\ UNCHANGED svOverlap
  /\ UNCHANGED <<svPlan, svFile, svServer, svKeys, svKills, svStale>>

\* createHMACSecret: the file is emptied when it is opened, written when it is closed;
\* either may fail.
HmacCreate(p) ==
  /\ SvAt(p, "hmacCreate")
  /\ \/ /\ svFile' = [svFile EXCEPT !["hmac"] = SvEmptyFile]
        /\ SvGoes(p, "hmacWrite") /\ UNCHANGED svMade
     \/ SvResult(p, NoJWT, FALSE) /\ UNCHANGED svFile
  /\ UNCHANGED <<svPlan, svServer, svKeys, svKills, svOverlap, svStale>>

HmacWrite(p) ==
  /\ SvAt(p, "hmacWrite")
  /\ \/ /\ svKeys' = svKeys + 1
        /\ svFile' = [svFile EXCEPT !["hmac"].content = svKeys + 1]
        /\ SvGoes(p, "hmacRead") /\ UNCHANGED svMade
     \/ SvResult(p, NoJWT, FALSE) /\ UNCHANGED <<svKeys, svFile>>
  /\ UNCHANGED <<svPlan, svServer, svKills, svOverlap, svStale>>

\* loadHMACSecret and createHMACJWT: nothing from a file others can read, or an empty one.
HmacRead(p) ==
  /\ SvAt(p, "hmacRead")
  /\ SvResult(p, SvJWT("HS", IF svFile["hmac"].secure THEN svFile["hmac"].content ELSE 0), TRUE)
  /\ UNCHANGED <<svPlan, svFile, svServer, svKeys, svKills, svOverlap, svStale>>

SvKeyFile(p) == IF svProgram[p].role = "signer" THEN "private" ELSE "public"

\* loadRSAPrivateKey, loadRSAPublicKey: fopen.
RsaOpen(p) ==
  /\ SvAt(p, "rsaOpen")
  /\ IF svFile[SvKeyFile(p)].there THEN SvGoes(p, "rsaRead") /\ UNCHANGED svMade
     ELSE IF SvConf(p).create THEN SvGoes(p, "rsaCheck") /\ UNCHANGED svMade
     ELSE SvResult(p, NoJWT, FALSE)
  /\ UNCHANGED <<svPlan, svFile, svServer, svKeys, svKills, svOverlap, svStale>>

\* createRSASecret: only when neither file is there ...
MayCreateRSA(p) == ~svFile["private"].there /\ ~svFile["public"].there

RsaCheck(p) ==
  /\ SvAt(p, "rsaCheck")
  /\ IF MayCreateRSA(p)
     THEN /\ SvGoes(p, "rsaPrivate")
          /\ svOverlap' = (svOverlap \/ SvCreating(p, RsaStages)) /\ UNCHANGED svMade
     ELSE SvResult(p, NoJWT, FALSE) /\ UNCHANGED svOverlap
  /\ UNCHANGED <<svPlan, svFile, svServer, svKeys, svKills, svStale>>

\* ... the key is generated, the private file opened (and emptied), or neither ...
RsaPrivate(p) ==
  /\ SvAt(p, "rsaPrivate")
  /\ \/ /\ svKeys' = svKeys + 1
        /\ SvBecomes(p, [svProgram[p] EXCEPT !.newKey = svKeys + 1, !.pc = "rsaPublic"])
        /\ svFile' = [svFile EXCEPT !["private"] = SvEmptyFile] /\ UNCHANGED svMade
     \/ SvResult(p, NoJWT, FALSE) /\ UNCHANGED <<svKeys, svFile>>
  /\ UNCHANGED <<svPlan, svServer, svKills, svOverlap, svStale>>

\* ... then the public one; without it the private key is written all the same ...
RsaPublic(p) ==
  /\ SvAt(p, "rsaPublic")
  /\ \/ /\ svFile' = [svFile EXCEPT !["public"] = SvEmptyFile]
        /\ SvGoes(p, "rsaWrite") /\ UNCHANGED svMade
     \/ /\ svFile' = [svFile EXCEPT !["private"].content = svProgram[p].newKey]
        /\ SvResult(p, NoJWT, FALSE)
  /\ UNCHANGED <<svPlan, svServer, svKeys, svKills, svOverlap, svStale>>

\* ... the public file is closed first, the private one last.
RsaWrite(p, f, from, to) ==
  /\ SvAt(p, from)
  /\ svFile' = [svFile EXCEPT ![f].content = svProgram[p].newKey]
  /\ SvGoes(p, to)
  /\ UNCHANGED <<svPlan, svServer, svKeys, svKills, svOverlap, svStale, svMade>>

\* The rest of loadRSAPrivateKey (with the permissions) and of loadRSAPublicKey.
RsaRead(p) ==
  LET f == svFile[SvKeyFile(p)]
  IN /\ SvAt(p, "rsaRead")
     /\ SvResult(p, SvJWT("RS", IF SvKeyFile(p) = "private" /\ ~f.secure THEN 0 ELSE f.content), TRUE)
     /\ UNCHANGED <<svPlan, svFile, svServer, svKeys, svKills, svOverlap, svStale>>

(***************************************************************************)
(* The acceptor and the routes; the world around the program.              *)
(***************************************************************************)
\* createAPIProxyParams: nullptr for a configuration that cannot be read.
ProxyParams(x) == IF x.good THEN {x.path} ELSE {}

\* Every proxy and every redirection; a proxy that could not be read is a null pointer
\* that is used: the program dies.
SvAccept(p) ==
  /\ SvAt(p, "accept")
  /\ IF \E x \in SvConf(p).proxies : ProxyParams(x) = {}
     THEN SvFails(p)
     ELSE SvBecomes(p, [svProgram[p] EXCEPT !.pc = "running",
            !.routes = UNION {ProxyParams(x) : x \in SvConf(p).proxies} \cup SvConf(p).redirections])
  /\ UNCHANGED <<svPlan, svFile, svServer, svKeys, svKills, svOverlap, svStale, svMade>>

SvKilled(p) ==
  /\ ~SvAt(p, "off") /\ svKills < SvMaxKills
  /\ svKills' = svKills + 1
  /\ SvBecomes(p, NoProgram)
  /\ UNCHANGED <<svPlan, svFile, svServer, svKeys, svOverlap, svStale, svMade>>

\* An administrator provides the HMAC file, readable by others or not.
SvProvided(secure) ==
  /\ \A p \in SvPrograms : SvAt(p, "off")
  /\ svPlan # <<>> /\ \A f \in SvFiles : ~svFile[f].there
  /\ svFile' = [svFile EXCEPT !["hmac"] = [there |-> TRUE, content |-> 1, secure |-> secure]]
  /\ UNCHANGED <<svPlan, svProgram, svServer, svKeys, svKills, svOverlap, svStale, svMade>>

SvServerRotates ==
  /\ \E p \in SvPrograms : SvAt(p, "syncConfig") \/ SvAt(p, "syncKey")
  /\ svServer.key <= SvMaxRotations
  /\ svServer' = [alg |-> IF svServer.alg = "HS" THEN "RS" ELSE "HS", key |-> svServer.key + 1]
  /\ svStale' = svStale \cup {p \in SvPrograms : SvAt(p, "syncKey")}
  /\ UNCHANGED <<svPlan, svProgram, svFile, svKeys, svKills, svOverlap, svMade>>

SvNext ==
  \/ \E plan \in SvPlans : SvPlanned(plan)
  \/ \E p \in SvPrograms :
       \/ SvStart(p) \/ SvListen(p) \/ SvResources(p) \/ SvKey(p) \/ SvSyncConfig(p) \/ SvSyncKey(p)
       \/ HmacOpen(p) \/ HmacCreate(p) \/ HmacWrite(p) \/ HmacRead(p)
       \/ RsaOpen(p) \/ RsaCheck(p) \/ RsaPrivate(p) \/ RsaPublic(p)
       \/ RsaWrite(p, "public", "rsaWrite", "rsaClose")
       \/ RsaWrite(p, "private", "rsaClose", "rsaRead") \/ RsaRead(p)
       \/ SvAccept(p) \/ SvKilled(p)
  \/ \E secure \in BOOLEAN : SvProvided(secure)
  \/ SvServerRotates

SvSpec == SvInit /\ [][SvNext]_svVars

(***************************************************************************)
(* Properties.                                                             *)
(***************************************************************************)
\* Whatever was started, failed and killed, and when: every signer and every validator
\* made from the files of one algorithm hold one key, unless two programs created the
\* files at the same time.  A token signed before a restart is valid after it.
OneKey ==
  svOverlap \/ \A a, b \in svMade : a[2].alg = b[2].alg => a[2].key = b[2].key

\* The key of the API server goes with the algorithm it named, unless the server changed
\* both between the two requests (its keys are HS for odd numbers, RS for even ones).
KeyOfTheAlgorithm ==
  \A p \in SvPrograms :
    LET validator == svProgram[p].validator
    IN validator # NoJWT /\ SvConf(p).sync /\ p \notin svStale
         => (validator.alg = "HS") = (validator.key % 2 = 1)

\* A running engine listens on every configured port, which nobody else does, with the TLS
\* the program asked for, and can validate a token.
EngineComplete ==
  \A p \in SvPrograms : SvAt(p, "running") =>
    /\ svProgram[p].socks = {SvConf(p).listeners[i] : i \in 1..Len(SvConf(p).listeners)}
    /\ SvConf(p).tls = "mandatory" => \A l \in svProgram[p].socks : l.tls
    /\ SvConf(p).tls = "no" => \A l \in svProgram[p].socks : ~l.tls
    /\ \A q \in SvPrograms \ {p}, l \in svProgram[p].socks :
         \A m \in svProgram[q].socks : l.port # m.port
    /\ SvConf(p).jwt => svProgram[p].validator # NoJWT

(* Starting the services of createRESTfulEngine: one key per algorithm through kills and
   restarts, the key that belongs to the algorithm, an engine that is complete. *)
ServiceSound == OneKey /\ KeyOfTheAlgorithm /\ EngineComplete
=============================================================================
