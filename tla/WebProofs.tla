------------------------------ MODULE WebProofs ------------------------------
(***************************************************************************)
(* Proofs about the requests of a web connection and what tokens allow,    *)
(* about the cache of verified tokens, about the rotated web log, and      *)
(* about the messages of a connection: the frames of a WebSocket, the      *)
(* values put into pages, and the requests and answers of HTTP.            *)
(***************************************************************************)
EXTENDS WebRequest, JWT, WebLog, SequenceLemmas

-----------------------------------------------------------------------------
(* The requests of a connection. *)

(* What the object keeps from request to request was presented on this connection
   with a good signature, and a flag that is set stands for a valid token. *)
KeptWasShown ==
  /\ wtoken = NoTok \/ wtoken \in wshown
  /\ wauth = NoTok \/ wauth \in wshown
  /\ wcfg.rest /\ (wheader \/ wcookie) => wtoken \in wshown /\ \E t \in wshown : t.valid

(* Before the configuration nothing was kept; afterwards it is one of the program's. *)
ConfiguredFirst ==
  /\ wheader \in BOOLEAN /\ wcookie \in BOOLEAN
  /\ wstage = "configure" => /\ ~wheader /\ ~wcookie /\ wexec = {} /\ wforward = NoTok
  /\ wstage # "configure" => wcfg \in WConfigs

OnlyEngineIncludes == wstage = "include" => wcfg.engine

WebInv == KeptWasShown /\ ConfiguredFirst /\ OnlyEngineIncludes /\ RequestsGuarded

\* The guard of one execution, over the tokens of the connection.
Guarded(x) ==
  LET ep == WEndpoints[x.call]
      held == {t \in wshown : t.admin \/ ep.scopes \subseteq t.scopes \cup t.roles}
  IN /\ ep.scopes # {} => held # {}
     /\ wcfg.rest => /\ ep.header => \E t \in wshown : t.valid
                     /\ ep.cookie => \E t \in wshown : t.valid
     /\ ~wcfg.rest => wshown # {}

(* A call that the server answers with 200 met the requirements of its endpoint. *)
LEMMA AllowedIsGuarded ==
  ASSUME WebInv, wstage # "configure", NEW call, NEW json, HandleAPIRequest(call, json) = 200
  PROVE  Guarded(APIExecuted(call))
<1>1. PICK ep : ep = WEndpoints[call]
  OBVIOUS
<1>2. wcfg \in WConfigs /\ wcfg.rest \in BOOLEAN /\ APIExecuted(call).call = call
  BY WebAssumption DEF WebInv, ConfiguredFirst, APIExecuted
<1>3. CASE wcfg.rest
  <2>1. HandleEndpoint(call, json) = 200
    BY <1>3 DEF HandleAPIRequest
  <2>2. /\ ep.header => wheader
        /\ ep.cookie => wcookie
        /\ SessionAdmin \/ ep.scopes \subseteq SessionScopes
    BY <1>1, <2>1 DEF HandleEndpoint
  <2>3. wheader \/ wcookie => wtoken \in wshown /\ \E t \in wshown : t.valid
    BY <1>3 DEF WebInv, KeptWasShown
  <2>4. ASSUME ep.scopes # {}
        PROVE  \E t \in wshown : t.admin \/ ep.scopes \subseteq t.scopes \cup t.roles
    <3>1. CASE SessionAdmin
      BY <1>3, <2>3, <3>1 DEF SessionAdmin, IsSessionActive
    <3>2. CASE ep.scopes \subseteq SessionScopes
      BY <1>3, <2>3, <2>4, <3>2 DEF SessionScopes, IsSessionActive
    <3> QED BY <2>2, <3>1, <3>2
  <2> QED BY <1>1, <1>2, <1>3, <2>2, <2>3, <2>4 DEF Guarded
<1>4. CASE ~wcfg.rest
  <2>1. MonolithEndpoint(call) = 200
    BY <1>4 DEF HandleAPIRequest
  <2>2. ValidateEndpoint(ep)
    BY <1>1, <2>1 DEF MonolithEndpoint
  <2>3. wauth \in wshown
    BY <2>2 DEF ValidateEndpoint, WebInv, KeptWasShown
  <2>4. wauth.admin \/ ep.scopes \subseteq wauth.scopes \cup wauth.roles
    BY <2>2 DEF ValidateEndpoint
  <2> QED BY <1>1, <1>2, <1>4, <2>3, <2>4 DEF Guarded
<1> QED BY <1>3, <1>4

(* More tokens shown take nothing away. *)
LEMMA GuardsStay ==
  ASSUME EndpointsGuarded, ForwardedIsSession, UNCHANGED <<wcfg, wexec, wforward>>,
         wshown \subseteq wshown'
  PROVE  EndpointsGuarded' /\ ForwardedIsSession'
<1>1. EndpointsGuarded'
  <2> SUFFICES ASSUME NEW x \in wexec PROVE Guarded(x)'
    BY DEF EndpointsGuarded, Guarded
  <2>1. Guarded(x)
    BY DEF EndpointsGuarded, Guarded
  <2> QED BY <2>1 DEF Guarded
<1>2. ForwardedIsSession'
  BY DEF ForwardedIsSession
<1> QED BY <1>1, <1>2

LEMMA WebInvInit == WebInit => WebInv
BY DEF WebInit, WebInv, KeptWasShown, ConfiguredFirst, OnlyEngineIncludes, RequestsGuarded,
   EndpointsGuarded, ForwardedIsSession, DeniedSendsNothing

LEMMA WebInvStep == WebInv /\ [WebNext]_webVars => WebInv'
<1> SUFFICES ASSUME WebInv, [WebNext]_webVars PROVE WebInv'
  OBVIOUS
<1> USE DEF WebInv, RequestsGuarded
<1>1. ASSUME NEW c \in WConfigs, SetConfig(c) PROVE WebInv'
  <2>1. /\ wstage' = "idle" /\ wcfg' = c
        /\ UNCHANGED <<wheader, wcookie, wtoken, wauth, wshown, wexec, wforward>>
        /\ ~wheader /\ ~wcookie /\ wexec = {} /\ wforward = NoTok
    BY <1>1 DEF SetConfig, wConnection, wAnswer, ConfiguredFirst
  <2> QED BY <2>1 DEF KeptWasShown, ConfiguredFirst, OnlyEngineIncludes, EndpointsGuarded,
         ForwardedIsSession, DeniedSendsNothing
<1>2. ASSUME NEW r \in WRequests, ReceiveRequest(r) PROVE WebInv'
  <2>1. /\ wstage = "idle" /\ wstage' \in {"idle", "session"} /\ wexec' = {} /\ wforward' = NoTok
        /\ UNCHANGED <<wcfg, wheader, wcookie, wtoken, wauth, wshown>>
    BY <1>2 DEF ReceiveRequest, AnswerNow, wConnection
  <2> QED BY <2>1 DEF KeptWasShown, ConfiguredFirst, OnlyEngineIncludes, EndpointsGuarded,
         ForwardedIsSession, DeniedSendsNothing
<1>3. CASE SessionStartREST
  <2>1. PICK tok : tok = PresentedToken(wreq)
    OBVIOUS
  <2>2. PICK ok \in BOOLEAN : ok = (tok # NoTok /\ VerifyToken(tok))
    OBVIOUS
  <2>3. /\ wstage = "session" /\ wstage' = "dispatch" /\ wcfg.rest
        /\ wheader' \in {wheader, ok} /\ wcookie' \in {wcookie, ok}
        /\ wtoken' = (IF tok = NoTok THEN wtoken ELSE Decoded(tok))
        /\ wshown' = wshown \cup (IF tok # NoTok /\ tok.signed THEN {tok} ELSE {})
        /\ wauth' = (IF wheader' \/ wcookie' THEN wtoken' ELSE wauth)
        /\ UNCHANGED <<wcfg, wexec, wforward>>
    BY <1>3, <2>1, <2>2 DEF SessionStartREST, wAnswer
  <2>4. wcfg.validator \in {"none", "own", "dynamic"} /\ wcfg \in WConfigs
    BY <2>3, WebAssumption DEF ConfiguredFirst
  <2>5. wtoken' = NoTok \/ wtoken' \in wshown'
    BY <2>3 DEF Decoded, KeptWasShown
  <2>6. ok => wtoken' = tok /\ tok \in wshown' /\ tok.valid
    BY <2>2, <2>3, <2>4 DEF VerifyToken, Decoded
  <2>7. wtoken # NoTok => wtoken' # NoTok
    BY <2>3 DEF Decoded
  <2>8. wheader' \/ wcookie' => wtoken' \in wshown' /\ \E t \in wshown' : t.valid
    <3>1. CASE ok
      BY <2>6, <3>1
    <3>2. CASE ~ok
      <4>1. wheader' \/ wcookie' => wheader \/ wcookie
        BY <2>2, <2>3, <3>2
      <4>2. wheader \/ wcookie => wtoken \in wshown /\ \E t \in wshown : t.valid
        BY <2>3 DEF KeptWasShown
      <4>3. wtoken \in wshown => wtoken' \in wshown'
        BY <2>3 DEF Decoded
      <4> QED BY <2>3, <4>1, <4>2, <4>3
    <3> QED BY <2>2, <3>1, <3>2
  <2>9. KeptWasShown'
    BY <2>3, <2>5, <2>8 DEF KeptWasShown
  <2>10. EndpointsGuarded' /\ ForwardedIsSession'
    BY <2>3, GuardsStay
  <2> QED BY <2>2, <2>3, <2>9, <2>10 DEF ConfiguredFirst, OnlyEngineIncludes, DeniedSendsNothing
<1>4. CASE SessionStartMonolith
  <2>1. /\ wstage = "session" /\ wstage' \in {"dispatch", "idle"} /\ ~wcfg.rest
        /\ wshown \subseteq wshown' /\ (wauth' = wauth \/ wauth' \in wshown')
        /\ UNCHANGED <<wcfg, wheader, wcookie, wtoken, wexec, wforward>>
    BY <1>4 DEF SessionStartMonolith, AnswerNow
  <2>2. EndpointsGuarded' /\ ForwardedIsSession'
    BY <2>1, GuardsStay
  <2> QED BY <2>1, <2>2 DEF KeptWasShown, ConfiguredFirst, OnlyEngineIncludes, DeniedSendsNothing
<1>5. CASE DispatchAPI
  <2>1. /\ wstage = "dispatch" /\ wstage' = "cleanup" /\ wreq.shape = "call"
        /\ \A x \in wexec' : x = APIExecuted(wreq.call) /\ HandleAPIRequest(wreq.call, wreq.json) = 200
        /\ UNCHANGED <<wcfg, wreq, wheader, wcookie, wtoken, wauth, wshown, wforward>>
    BY <1>5 DEF DispatchAPI, wConnection
  <2>2. EndpointsGuarded'
    <3>1. ASSUME NEW x \in wexec' PROVE Guarded(x)
      BY <2>1, AllowedIsGuarded
    <3> QED BY <2>1, <3>1 DEF EndpointsGuarded, Guarded
  <2> QED BY <2>1, <2>2 DEF KeptWasShown, ConfiguredFirst, OnlyEngineIncludes,
         ForwardedIsSession, DeniedSendsNothing
<1>6. CASE DispatchFixed
  <2>1. /\ wstage = "dispatch" /\ wstage' = "cleanup" /\ wreq.shape \in {"auth", "info"}
        /\ UNCHANGED <<wcfg, wreq, wheader, wcookie, wtoken, wauth, wshown, wexec, wforward>>
    BY <1>6 DEF DispatchFixed, wConnection
  <2> QED BY <2>1 DEF KeptWasShown, ConfiguredFirst, OnlyEngineIncludes, EndpointsGuarded,
         ForwardedIsSession, DeniedSendsNothing
<1>7. CASE APIProxy
  <2>1. /\ wstage = "dispatch" /\ wstage' = "cleanup" /\ wreq.shape = "route"
        /\ wforward' \in {ForwardedIdentity, NoTok}
        /\ UNCHANGED <<wcfg, wreq, wheader, wcookie, wtoken, wauth, wshown, wexec>>
    BY <1>7 DEF APIProxy, wConnection
  <2>2. ForwardedIsSession'
    BY <2>1 DEF ForwardedIsSession, ForwardedIdentity, KeptWasShown
  <2> QED BY <2>1, <2>2 DEF KeptWasShown, ConfiguredFirst, OnlyEngineIncludes, EndpointsGuarded,
         DeniedSendsNothing
<1>8. CASE HandleRegularFile
  <2>1. PICK p : p = RequestedFile(wreq)
    OBVIOUS
  <2>2. /\ wstage = "dispatch" /\ wstage' \in {"include", "cleanup"}
        /\ wstage' = "include" => wcfg.engine
        /\ UNCHANGED <<wcfg, wreq, wheader, wcookie, wtoken, wauth, wshown, wexec, wforward>>
    BY <1>8 DEF HandleRegularFile, wConnection
  <2>3. wstage' = "cleanup" /\ wbody' # "none" => wbody' = p.file /\ FilterStatus(p.file) = 200
    BY <1>8, <2>1 DEF HandleRegularFile
  <2>4. \A file : FilterStatus(file) = 200 => EvaluateURI(file) = "ACCEPT"
    BY DEF FilterStatus
  <2>5. \A file : EvaluateURI(file)' = EvaluateURI(file)
    BY <2>2 DEF EvaluateURI, FilterApplies, SessionScopes, SessionRoles, IsSessionActive
  <2>6. DeniedSendsNothing'
    BY <2>2, <2>3, <2>4, <2>5 DEF DeniedSendsNothing
  <2> QED BY <2>2, <2>6 DEF KeptWasShown, ConfiguredFirst, OnlyEngineIncludes, EndpointsGuarded,
         ForwardedIsSession
<1>9. CASE ProcessInclude
  <2>1. /\ wstage = "include" /\ wstage' = "include"
        /\ UNCHANGED <<wcfg, wreq, wheader, wcookie, wtoken, wauth, wshown, wexec, wforward>>
    BY <1>9 DEF ProcessInclude, wConnection
  <2> QED BY <2>1 DEF KeptWasShown, ConfiguredFirst, OnlyEngineIncludes, EndpointsGuarded,
         ForwardedIsSession, DeniedSendsNothing
<1>10. CASE ProcessTags
  <2>1. /\ wstage = "include" /\ wstage' = "cleanup" /\ wcfg.engine
        /\ \A x \in wexec' : \E c : x = APIExecuted(c) /\ HandleAPIRequest(c, "none") = 200
        /\ UNCHANGED <<wcfg, wreq, wheader, wcookie, wtoken, wauth, wshown, wforward>>
    BY <1>10 DEF ProcessTags, wConnection, OnlyEngineIncludes
  <2>2. EndpointsGuarded'
    <3>1. ASSUME NEW x \in wexec' PROVE Guarded(x)
      BY <2>1, AllowedIsGuarded
    <3> QED BY <2>1, <3>1 DEF EndpointsGuarded, Guarded
  <2> QED BY <2>1, <2>2 DEF KeptWasShown, ConfiguredFirst, OnlyEngineIncludes,
         ForwardedIsSession, DeniedSendsNothing
<1>11. CASE SessionCleanup
  <2>1. /\ wstage = "cleanup" /\ wstage' = "idle"
        /\ UNCHANGED <<wcfg, wreq, wheader, wcookie, wtoken, wauth, wshown, wexec, wforward>>
    BY <1>11 DEF SessionCleanup, wConnection, wAnswer
  <2> QED BY <2>1 DEF KeptWasShown, ConfiguredFirst, OnlyEngineIncludes, EndpointsGuarded,
         ForwardedIsSession, DeniedSendsNothing
<1>12. CASE UNCHANGED webVars
  <2>1. UNCHANGED <<wcfg, wreq, wstage, wbody, wheader, wcookie, wtoken, wauth, wshown, wexec, wforward>>
    BY <1>12 DEF webVars, wConnection, wAnswer
  <2>2. \A file : EvaluateURI(file)' = EvaluateURI(file)
    BY <2>1 DEF EvaluateURI, FilterApplies, SessionScopes, SessionRoles, IsSessionActive
  <2>3. DeniedSendsNothing'
    BY <2>1, <2>2 DEF DeniedSendsNothing
  <2> QED BY <2>1, <2>3 DEF KeptWasShown, ConfiguredFirst, OnlyEngineIncludes, EndpointsGuarded,
         ForwardedIsSession
<1> QED BY <1>1, <1>2, <1>3, <1>4, <1>5, <1>6, <1>7, <1>8, <1>9, <1>10, <1>11, <1>12 DEF WebNext

(* RequestsGuarded, for any configuration, endpoints, pages, files and sequence of
   requests: whatever tokens came before, an endpoint runs, a user is named to the
   server behind the proxy and a file is sent only as the tokens presented on this
   connection and the filters allow. *)
THEOREM WebRequestsGuarded == WebSpec => []RequestsGuarded
<1>1. WebInv => RequestsGuarded
  BY DEF WebInv
<1> QED BY <1>1, WebInvInit, WebInvStep, PTL DEF WebSpec

-----------------------------------------------------------------------------
(* The cache of verified tokens: sizes. *)

LEMMA LeastOf ==
  ASSUME NEW T, T \subseteq Nat, T # {}
  PROVE  Min(T) \in T
  BY LeastNumber DEF Min

LEMMA BytesByPlace ==
  ASSUME NEW q \in Seq(JPayloads), NEW x
  PROVE  x \in QueuedBytes(q) <=> \E i \in 1..Len(q) : \E b \in 1..PayloadSize[q[i]] : x = <<i, b>>
<1>1. DOMAIN q = 1..Len(q)
  OBVIOUS
<1>2. \A i : x \in {i} \X (1..PayloadSize[q[i]]) <=> \E b \in 1..PayloadSize[q[i]] : x = <<i, b>>
  OBVIOUS
<1> QED BY <1>1, <1>2 DEF QueuedBytes

LEMMA BytesFinite ==
  ASSUME NEW q \in Seq(JPayloads)
  PROVE  IsFiniteSet(QueuedBytes(q)) /\ SizeOf(q) \in Nat
<1>1. /\ DOMAIN q = 1..Len(q) /\ Len(q) \in Nat
      /\ \A i \in DOMAIN q : PayloadSize[q[i]] \in Nat
  BY JWTAssumption
<1>2. PICK S : S = {{i} \X (1..PayloadSize[q[i]]) : i \in DOMAIN q}
  OBVIOUS
<1>3. PICK f : f = [i \in DOMAIN q |-> {i} \X (1..PayloadSize[q[i]])]
  OBVIOUS
<1>4. f \in Surjection(DOMAIN q, S)
  BY <1>2, <1>3 DEF Surjection
<1>5. IsFiniteSet(DOMAIN q)
  BY <1>1, FS_Interval
<1>6. IsFiniteSet(S)
  BY <1>4, <1>5, FS_Surjection
<1>7. ASSUME NEW T \in S PROVE IsFiniteSet(T)
  <2>1. PICK i \in DOMAIN q : T = {i} \X (1..PayloadSize[q[i]])
    BY <1>2
  <2>2. IsFiniteSet({i})
    BY FS_Singleton
  <2>3. PICK n \in Nat : n = PayloadSize[q[i]]
    BY <1>1
  <2>4. IsFiniteSet(1..n)
    BY FS_Interval
  <2> QED BY <2>1, <2>2, <2>3, <2>4, FS_Product
<1>8. IsFiniteSet(UNION S)
  BY <1>6, <1>7, FS_UNION
<1> QED BY <1>2, <1>8, FS_CardinalityType DEF QueuedBytes, SizeOf

LEMMA SizeEmpty == SizeOf(<<>>) = 0
<1>1. QueuedBytes(<<>>) = {}
  BY DEF QueuedBytes
<1> QED BY <1>1, FS_EmptySet DEF SizeOf

(* The size of a queue is what its two parts have. *)
LEMMA SizeSplit ==
  ASSUME NEW q \in Seq(JPayloads), NEW n \in 0..Len(q)
  PROVE  /\ SubSeq(q, 1, n) \in Seq(JPayloads) /\ SubSeq(q, n + 1, Len(q)) \in Seq(JPayloads)
         /\ SizeOf(q) = SizeOf(SubSeq(q, 1, n)) + SizeOf(SubSeq(q, n + 1, Len(q)))
<1>1. PICK a, b : a = SubSeq(q, 1, n) /\ b = SubSeq(q, n + 1, Len(q))
  OBVIOUS
<1>2. /\ a \in Seq(JPayloads) /\ Len(a) = n /\ \A i \in 1..n : a[i] = q[i]
      /\ b \in Seq(JPayloads) /\ Len(b) = Len(q) - n
      /\ \A i \in 1..(Len(q) - n) : b[i] = q[n + i]
      /\ Len(q) \in Nat
  <2>1. /\ a \in Seq(JPayloads) /\ Len(a) = n /\ \A i \in 1..n : a[i] = q[i]
    BY <1>1, SubSeqProperties
  <2>2. /\ b \in Seq(JPayloads) /\ Len(b) = Len(q) - n
        /\ \A i \in 1..(Len(q) - n) : b[i] = q[n + i]
    BY <1>1, SubSeqProperties
  <2> QED BY <2>1, <2>2
<1>3. PICK A, B, C : /\ A = QueuedBytes(a) /\ B = QueuedBytes(b)
                     /\ C = {x \in QueuedBytes(q) : x[1] > n}
  OBVIOUS
<1>4. \A i \in 1..Len(q) : PayloadSize[q[i]] \in Nat
  BY JWTAssumption
<1>5. QueuedBytes(q) = A \cup C /\ A \cap C = {}
  <2>1. ASSUME NEW x \in QueuedBytes(q) PROVE x \in A \/ x \in C
    <3>1. PICK i, k : i \in 1..Len(q) /\ k \in 1..PayloadSize[q[i]] /\ x = <<i, k>>
      BY <2>1, BytesByPlace
    <3>2. CASE i <= n
      <4>1. i \in 1..Len(a) /\ k \in 1..PayloadSize[a[i]]
        BY <1>2, <3>1, <3>2
      <4> QED BY <1>2, <1>3, <3>1, <4>1, BytesByPlace
    <3>3. CASE i > n
      BY <1>3, <3>1, <3>3
    <3> QED BY <3>1, <3>2, <3>3
  <2>2. ASSUME NEW x \in A PROVE x \in QueuedBytes(q) /\ x \notin C
    <3>1. PICK i, k : i \in 1..Len(a) /\ k \in 1..PayloadSize[a[i]] /\ x = <<i, k>>
      BY <1>2, <1>3, BytesByPlace
    <3>2. i \in 1..Len(q) /\ k \in 1..PayloadSize[q[i]] /\ ~(x[1] > n)
      BY <1>2, <3>1
    <3> QED BY <1>3, <3>1, <3>2, BytesByPlace
  <2> QED BY <1>3, <2>1, <2>2
<1>6. IsFiniteSet(B) /\ IsFiniteSet(A) /\ Cardinality(A) = SizeOf(a) /\ Cardinality(B) = SizeOf(b)
      /\ SizeOf(a) \in Nat /\ SizeOf(b) \in Nat
  BY <1>2, <1>3, BytesFinite DEF SizeOf
<1>7. IsFiniteSet(C) /\ Cardinality(C) = Cardinality(B)
  <2>1. PICK f : f = [x \in B |-> <<n + x[1], x[2]>>]
    OBVIOUS
  <2>2. ASSUME NEW x \in B PROVE f[x] \in C /\ x = <<f[x][1] - n, f[x][2]>>
    <3>1. PICK i, k : i \in 1..Len(b) /\ k \in 1..PayloadSize[b[i]] /\ x = <<i, k>>
      BY <1>2, <1>3, BytesByPlace
    <3>2. n + i \in 1..Len(q) /\ k \in 1..PayloadSize[q[n + i]] /\ n + i > n /\ (n + i) - n = i
      BY <1>2, <3>1
    <3>3. f[x] = <<n + i, k>>
      BY <2>1, <3>1
    <3>4. f[x] \in QueuedBytes(q)
      BY <3>2, <3>3, BytesByPlace
    <3> QED BY <1>3, <3>1, <3>2, <3>3, <3>4
  <2>3. ASSUME NEW y \in C PROVE \E x \in B : f[x] = y
    <3>1. PICK i, k : i \in 1..Len(q) /\ k \in 1..PayloadSize[q[i]] /\ y = <<i, k>>
      BY <1>3, BytesByPlace
    <3>2. i > n
      BY <1>3, <3>1
    <3>3. i - n \in 1..Len(b) /\ n + (i - n) = i
      BY <1>2, <3>1, <3>2
    <3>4. b[i - n] = q[i]
      BY <1>2, <3>3
    <3>5. <<i - n, k>> \in B
      BY <1>2, <1>3, <3>1, <3>3, <3>4, BytesByPlace
    <3>6. f[<<i - n, k>>] = y
      BY <2>1, <3>1, <3>3, <3>5
    <3> QED BY <3>5, <3>6
  <2>4. f \in [B -> C]
    BY <2>1, <2>2
  <2>5. \A x, y \in B : f[x] = f[y] => x = y
    BY <2>2
  <2>6. f \in Bijection(B, C)
    BY <2>3, <2>4, <2>5, Fun_IsBij
  <2>7. ExistsBijection(B, C)
    BY <2>6 DEF ExistsBijection
  <2> QED BY <1>6, <2>7, FS_Bijection
<1>8. Cardinality(A \cup C) = Cardinality(A) + Cardinality(C) - Cardinality(A \cap C)
  BY <1>6, <1>7, FS_Union
<1>9. Cardinality(A \cap C) = 0
  BY <1>5, FS_EmptySet
<1>10. SizeOf(q) = SizeOf(a) + SizeOf(b)
  BY <1>5, <1>6, <1>7, <1>8, <1>9 DEF SizeOf
<1> QED BY <1>1, <1>2, <1>10

LEMMA SizeAppend ==
  ASSUME NEW q \in Seq(JPayloads), NEW p \in JPayloads
  PROVE  SizeOf(Append(q, p)) = SizeOf(q) + PayloadSize[p]
<1>1. PICK r : r = Append(q, p)
  OBVIOUS
<1>2. /\ r \in Seq(JPayloads) /\ Len(r) = Len(q) + 1 /\ Len(q) \in Nat
      /\ \A i \in 1..Len(q) : r[i] = q[i]
      /\ r[Len(q) + 1] = p
  BY <1>1, AppendProperties
<1>3. SizeOf(r) = SizeOf(SubSeq(r, 1, Len(q))) + SizeOf(SubSeq(r, Len(q) + 1, Len(r)))
  BY <1>2, SizeSplit
<1>4. SubSeq(r, 1, Len(q)) = q
  <2>1. /\ SubSeq(r, 1, Len(q)) \in Seq(JPayloads) /\ Len(SubSeq(r, 1, Len(q))) = Len(q)
        /\ \A i \in 1..Len(q) : SubSeq(r, 1, Len(q))[i] = q[i]
    BY <1>2, SubSeqProperties
  <2> QED BY <2>1, SeqEqual
<1>5. PICK t \in Seq(JPayloads) : t = SubSeq(r, Len(q) + 1, Len(r)) /\ Len(t) = 1 /\ t[1] = p
  <2>1. /\ \A i \in (Len(q) + 1)..Len(r) : r[i] \in JPayloads
        /\ Len(q) + 1 \in Int /\ Len(r) \in Int
    BY <1>2
  <2>2. PICK t : t = SubSeq(r, Len(q) + 1, Len(r))
    OBVIOUS
  <2>3. /\ t \in Seq(JPayloads)
        /\ Len(t) = IF Len(q) + 1 <= Len(r) THEN Len(r) - (Len(q) + 1) + 1 ELSE 0
        /\ \A i \in 1..(Len(r) - (Len(q) + 1) + 1) : t[i] = r[(Len(q) + 1) + i - 1]
    BY <2>1, <2>2, SubSeqProperties
  <2>4. Len(t) = 1 /\ t[1] = p
    BY <1>2, <2>3
  <2> QED BY <2>2, <2>3, <2>4
<1>6. QueuedBytes(t) = {1} \X (1..PayloadSize[p])
  <2>1. ASSUME NEW x
        PROVE  x \in QueuedBytes(t) <=> \E b \in 1..PayloadSize[p] : x = <<1, b>>
    <3>1. x \in QueuedBytes(t) <=>
            \E i \in 1..Len(t) : \E b \in 1..PayloadSize[t[i]] : x = <<i, b>>
      BY BytesByPlace
    <3>2. \A i : i \in 1..Len(t) <=> i = 1
      BY <1>5
    <3> QED BY <1>5, <3>1, <3>2
  <2> QED BY <2>1
<1>7. SizeOf(t) = PayloadSize[p]
  <2>1. PayloadSize[p] \in Nat
    BY JWTAssumption
  <2>2. PICK n \in Nat : n = PayloadSize[p]
    BY <2>1
  <2>3. IsFiniteSet({1}) /\ Cardinality({1}) = 1
    BY FS_Singleton
  <2>4. IsFiniteSet(1..n) /\ Cardinality(1..n) = n
    BY FS_Interval
  <2>5. Cardinality({1} \X (1..n)) = Cardinality({1}) * Cardinality(1..n)
    BY <2>3, <2>4, FS_Product
  <2>6. Cardinality({1}) * Cardinality(1..n) = n
    BY <2>3, <2>4
  <2> QED BY <1>6, <2>2, <2>5, <2>6 DEF SizeOf
<1> QED BY <1>1, <1>3, <1>4, <1>5, <1>7

-----------------------------------------------------------------------------
(* The cache of verified tokens: its invariant. *)

JWTTypes ==
  /\ secret \in JKeys \cup {EmptyKey}
  /\ cacheQueue \in Seq(JPayloads) /\ tokenCache \subseteq JPayloads
  /\ cacheBytes \in Nat /\ cacheMax \in Nat
  /\ vpc \in [Verifiers -> {"idle", "check", "add", "evict", "revoked?", "done"}]
  /\ vkey \in [Verifiers -> JKeys \cup {EmptyKey}]
  /\ vok \in [Verifiers -> BOOLEAN]
  /\ result \in [Verifiers -> {"none", "yes", "no"}]
  /\ DOMAIN vtoken = Verifiers
  /\ \A v \in Verifiers : vpc[v] # "idle" => vtoken[v].payload \in JPayloads
  /\ cachedUnder \in [JPayloads -> JKeys \cup {EmptyKey}]

(* The table has only queued payloads, and the counter covers the queue. *)
CacheCounted ==
  /\ tokenCache \subseteq Range(cacheQueue)
  /\ cacheBytes >= SizeOf(cacheQueue)
  /\ ~cacheCleared => cacheBytes = SizeOf(cacheQueue)
  /\ cacheCrashed => cacheCleared

(* A verification that goes on to answer "valid" has left the key it used with the
   payload, and so has the one that cached it. *)
VerifiedFirst ==
  /\ \A p \in tokenCache : cachedUnder[p] # EmptyKey
  /\ \A v \in Verifiers :
       /\ vpc[v] # "done" => result[v] = "none"
       /\ vpc[v] = "add" => vok[v] /\ vkey[v] # EmptyKey
       /\ vpc[v] \in {"evict", "revoked?"} /\ vok[v] => cachedUnder[vtoken[v].payload] # EmptyKey

JWTInv == JWTTypes /\ CacheCounted /\ VerifiedFirst /\ AcceptedWasVerified

LEMMA JWTInvInit == JWTInit => JWTInv
<1> SUFFICES ASSUME JWTInit PROVE JWTInv
  OBVIOUS
<1>1. JWTTypes
  BY DEF JWTInit, JWTTypes
<1>2. CacheCounted
  BY SizeEmpty DEF JWTInit, CacheCounted
<1>3. VerifiedFirst /\ AcceptedWasVerified
  BY DEF JWTInit, VerifiedFirst, AcceptedWasVerified
<1> QED BY <1>1, <1>2, <1>3 DEF JWTInv

(* evictCache takes whole payloads off the front, with their bytes and their entries;
   it leaves the queue only when a clear made the counter larger than the queue. *)
LEMMA EvictionCounted ==
  ASSUME JWTTypes, CacheCounted, NEW max \in Nat, EvictCache(max), UNCHANGED cacheCleared
  PROVE  /\ cacheQueue' \in Seq(JPayloads) /\ tokenCache' \subseteq tokenCache
         /\ cacheBytes' \in Nat
         /\ CacheCounted'
<1>1. PICK q, ns, n :
        /\ q \in Seq(JPayloads) /\ q = cacheQueue
        /\ ns = {k \in 0..Len(q) : cacheBytes - SizeOf(SubSeq(q, 1, k)) <= max}
        /\ n = Evictions(max)
  BY DEF JWTTypes
<1>2. n = IF ns = {} THEN Len(q) + 1 ELSE Min(ns)
  BY <1>1 DEF Evictions
<1>3. Len(q) \in Nat /\ cacheBytes \in Nat /\ SizeOf(q) \in Nat /\ ns \subseteq 0..Len(q)
  BY <1>1, BytesFinite DEF JWTTypes
<1>4. ns # {} => n \in ns
  <2>1. ns \subseteq Nat
    BY <1>3
  <2> QED BY <1>2, <2>1, LeastOf
<1>5. CASE n > Len(q)
  <2>1. ASSUME ns # {} PROVE FALSE
    <3>1. n \in 0..Len(q)
      BY <1>3, <1>4, <2>1
    <3> QED BY <1>3, <1>5, <3>1
  <2>2. /\ cacheCrashed' = TRUE
        /\ UNCHANGED <<cacheQueue, tokenCache, cacheBytes>>
    BY <1>1, <1>5 DEF EvictCache
  <2>3. ASSUME ~cacheCleared PROVE FALSE
    <3>1. cacheBytes = SizeOf(q)
      BY <1>1, <2>3 DEF CacheCounted
    <3>2. SubSeq(q, 1, Len(q)) = q
      BY <1>1
    <3>3. cacheBytes - SizeOf(SubSeq(q, 1, Len(q))) <= max
      <4>1. cacheBytes - cacheBytes <= max
        BY <1>3
      <4> QED BY <3>1, <3>2, <4>1
    <3>4. Len(q) \in 0..Len(q)
      BY <1>3
    <3> QED BY <1>1, <2>1, <3>3, <3>4
  <2> QED BY <2>2, <2>3 DEF CacheCounted, JWTTypes
<1>6. CASE ~(n > Len(q))
  <2>1. ns # {}
    BY <1>2, <1>3, <1>6
  <2>2. n \in 0..Len(q)
    BY <1>3, <1>4, <2>1
  <2>3. PICK a, b : a = SubSeq(q, 1, n) /\ b = SubSeq(q, n + 1, Len(q))
    OBVIOUS
  <2>4. /\ cacheQueue' = b
        /\ tokenCache' = tokenCache \ Range(a)
        /\ cacheBytes' = cacheBytes - SizeOf(a)
        /\ UNCHANGED cacheCrashed
    BY <1>1, <1>6, <2>3 DEF EvictCache
  <2>5. /\ a \in Seq(JPayloads) /\ b \in Seq(JPayloads)
        /\ SizeOf(q) = SizeOf(a) + SizeOf(b)
    BY <1>1, <2>2, <2>3, SizeSplit
  <2>6. SizeOf(a) \in Nat /\ SizeOf(b) \in Nat
    BY <2>5, BytesFinite
  <2>7. cacheBytes >= SizeOf(q) /\ (~cacheCleared => cacheBytes = SizeOf(q))
    BY <1>1 DEF CacheCounted
  <2>8. /\ cacheBytes' \in Nat /\ cacheBytes' >= SizeOf(b)
        /\ (~cacheCleared => cacheBytes' = SizeOf(b))
    BY <1>3, <2>4, <2>5, <2>6, <2>7
  <2>9. ASSUME NEW p \in tokenCache, p \notin Range(a) PROVE p \in Range(b)
    <3>1. PICK i \in 1..Len(q) : p = q[i]
      BY <1>1 DEF CacheCounted, Range
    <3>2. /\ Len(a) = n /\ \A k \in 1..n : a[k] = q[k]
          /\ Len(b) = Len(q) - n /\ \A k \in 1..(Len(q) - n) : b[k] = q[n + k]
      <4>1. Len(a) = n /\ \A k \in 1..n : a[k] = q[k]
        BY <1>3, <2>2, <2>3, SubSeqProperties
      <4>2. Len(b) = Len(q) - n /\ \A k \in 1..(Len(q) - n) : b[k] = q[n + k]
        BY <1>3, <2>2, <2>3, SubSeqProperties
      <4> QED BY <4>1, <4>2
    <3>3. i > n
      <4>1. i \in 1..n => i \in DOMAIN a /\ a[i] = p
        BY <2>5, <3>1, <3>2
      <4> QED BY <2>2, <2>9, <3>1, <4>1 DEF Range
    <3>4. i - n \in 1..Len(b) /\ n + (i - n) = i
      BY <1>3, <2>2, <3>1, <3>2, <3>3
    <3>5. i - n \in DOMAIN b /\ b[i - n] = p
      BY <2>5, <3>1, <3>2, <3>4
    <3> QED BY <3>5 DEF Range
  <2>10. tokenCache' \subseteq Range(cacheQueue')
    BY <2>4, <2>9
  <2> QED BY <2>4, <2>5, <2>8, <2>10 DEF CacheCounted
<1> QED BY <1>5, <1>6

LEMMA PresentedHasPayload ==
  ASSUME NEW t \in Presented
  PROVE  t.payload \in JPayloads
BY DEF Presented, Sign, Tokens

LEMMA MatchingNeedsKey ==
  ASSUME NEW t, NEW k, SignatureMatches(t, k)
  PROVE  k # EmptyKey
BY DEF SignatureMatches, CreateSignature


LEMMA JWTInvStep == JWTInv /\ [JWTNext]_jwtVars => JWTInv'
<1> SUFFICES ASSUME JWTInv, [JWTNext]_jwtVars PROVE JWTInv'
  OBVIOUS
<1> USE DEF JWTInv
<1>1. CASE \E k \in JKeys : SetSecret(k)
  <2>1. PICK k \in JKeys : SetSecret(k)
    BY <1>1
  <2>2. /\ secret' = k /\ cacheQueue' = <<>> /\ tokenCache' = {} /\ cacheCleared' = TRUE
        /\ UNCHANGED <<callback, cacheBytes, cacheMax, cacheCrashed, vpc, vtoken, vkey, vok, result, cachedUnder>>
    BY <2>1 DEF SetSecret, ClearCache, verifyVars
  <2>3. JWTTypes'
    BY <2>2 DEF JWTTypes
  <2>4. CacheCounted'
    BY <2>2, SizeEmpty DEF CacheCounted, JWTTypes
  <2> QED BY <2>2, <2>3, <2>4 DEF VerifiedFirst, AcceptedWasVerified
<1>2. CASE SetCallback
  <2>1. /\ callback' = TRUE /\ UNCHANGED <<secret, cacheQueue, tokenCache, cacheBytes, cacheMax, cacheCrashed,
             cacheCleared, vpc, vtoken, vkey, vok, result, cachedUnder>>
    BY <1>2 DEF SetCallback, cacheVars, verifyVars
  <2> QED BY <2>1 DEF JWTTypes, CacheCounted, VerifiedFirst, AcceptedWasVerified
<1>3. CASE \E e \in BOOLEAN : SetEnabled(e)
  <2>1. PICK e \in BOOLEAN : SetEnabled(e)
    BY <1>3
  <2>2. UNCHANGED <<secret, callback, cacheBytes, cacheMax, cacheCrashed, vpc, vtoken, vkey, vok, result, cachedUnder>>
    BY <2>1 DEF SetEnabled, verifyVars
  <2>3. \/ UNCHANGED <<cacheQueue, tokenCache, cacheCleared>>
        \/ cacheQueue' = <<>> /\ tokenCache' = {} /\ cacheCleared' = TRUE
    BY <2>1 DEF SetEnabled, ClearCache
  <2>4. JWTTypes'
    <3>1. <<>> \in Seq(JPayloads)
      OBVIOUS
    <3>2. cacheQueue' \in Seq(JPayloads) /\ tokenCache' \subseteq JPayloads
      BY <2>3, <3>1 DEF JWTTypes
    <3> QED BY <2>2, <3>2 DEF JWTTypes
  <2>5. CacheCounted'
    BY <2>2, <2>3, SizeEmpty DEF CacheCounted, JWTTypes
  <2> QED BY <2>2, <2>3, <2>4, <2>5 DEF VerifiedFirst, AcceptedWasVerified
<1>4. CASE \E n \in CacheSizes : SetCacheMaxByteCount(n)
  <2>1. PICK n \in CacheSizes : SetCacheMaxByteCount(n)
    BY <1>4
  <2>2. /\ n \in Nat /\ cacheMax' = n /\ EvictCache(n)
        /\ UNCHANGED <<secret, callback, cacheCleared, vpc, vtoken, vkey, vok, result, cachedUnder>>
    BY <2>1, JWTAssumption DEF SetCacheMaxByteCount, verifyVars
  <2>3. /\ cacheQueue' \in Seq(JPayloads) /\ tokenCache' \subseteq tokenCache
        /\ cacheBytes' \in Nat /\ CacheCounted'
    BY <2>2, EvictionCounted
  <2>4. JWTTypes'
    BY <2>2, <2>3 DEF JWTTypes
  <2> QED BY <2>2, <2>3, <2>4 DEF VerifiedFirst, AcceptedWasVerified
<1>5. ASSUME NEW v \in Verifiers, NEW t \in Presented, VerifyStart(v, t) PROVE JWTInv'
  <2>1. /\ vpc[v] = "idle" /\ vtoken' = [vtoken EXCEPT ![v] = t] /\ t.payload \in JPayloads
        /\ UNCHANGED <<secret, callback, cacheQueue, tokenCache, cacheBytes, cacheMax, cacheCrashed,
             cacheCleared, vkey, vok, cachedUnder>>
    BY <1>5, PresentedHasPayload DEF VerifyStart, cacheVars
  <2>2. \/ /\ vpc' = [vpc EXCEPT ![v] = "done"]
           /\ result' \in {[result EXCEPT ![v] = "yes"], [result EXCEPT ![v] = "no"]}
           /\ callback \/ t.payload \in tokenCache
        \/ vpc' = [vpc EXCEPT ![v] = "check"] /\ result' = result
    BY <1>5 DEF VerifyStart, Return
  <2>3. JWTTypes'
    BY <2>1, <2>2 DEF JWTTypes
  <2>4. CacheCounted'
    BY <2>1 DEF CacheCounted
  <2>5. VerifiedFirst'
    BY <2>1, <2>2 DEF VerifiedFirst, JWTTypes
  <2>6. AcceptedWasVerified'
    BY <2>1, <2>2 DEF VerifiedFirst, AcceptedWasVerified, JWTTypes
  <2> QED BY <2>3, <2>4, <2>5, <2>6
<1>6. ASSUME NEW v \in Verifiers, VerifySignature(v) PROVE JWTInv'
  <2>1. PICK ok : ok = SignatureMatches(vtoken[v], secret)
    OBVIOUS
  <2>2. /\ vpc[v] = "check" /\ vok' = [vok EXCEPT ![v] = ok] /\ vkey' = [vkey EXCEPT ![v] = secret]
        /\ vpc' = [vpc EXCEPT ![v] = IF ok THEN "add" ELSE "revoked?"]
        /\ UNCHANGED <<secret, callback, cacheQueue, tokenCache, cacheBytes, cacheMax, cacheCrashed,
             cacheCleared, vtoken, result, cachedUnder>>
    BY <1>6, <2>1 DEF VerifySignature, cacheVars
  <2>3. ok \in BOOLEAN /\ (ok => secret # EmptyKey)
    <3>1. ok \in BOOLEAN
      BY <2>1 DEF SignatureMatches
    <3> QED BY <2>1, <3>1, MatchingNeedsKey
  <2>4. JWTTypes'
    BY <2>2, <2>3 DEF JWTTypes
  <2>5. CacheCounted'
    BY <2>2 DEF CacheCounted
  <2>6. VerifiedFirst'
    BY <2>2, <2>3 DEF VerifiedFirst, JWTTypes
  <2> QED BY <2>2, <2>4, <2>5, <2>6 DEF AcceptedWasVerified
<1>7. ASSUME NEW v \in Verifiers, VerifyAdd(v) PROVE JWTInv'
  <2>1. PICK p \in JPayloads : p = vtoken[v].payload
    BY <1>7 DEF VerifyAdd, JWTTypes
  <2>2. /\ vpc[v] = "add" /\ cachedUnder' = [cachedUnder EXCEPT ![p] = vkey[v]]
        /\ UNCHANGED <<secret, callback, cacheMax, cacheCrashed, cacheCleared, vtoken, vkey, vok, result>>
    BY <1>7, <2>1 DEF VerifyAdd
  <2>3. \/ /\ cacheQueue' = Append(cacheQueue, p) /\ tokenCache' = tokenCache \cup {p}
           /\ cacheBytes' = cacheBytes + PayloadSize[p] /\ vpc' = [vpc EXCEPT ![v] = "evict"]
        \/ /\ vpc' = [vpc EXCEPT ![v] = "revoked?"]
           /\ UNCHANGED <<cacheQueue, tokenCache, cacheBytes>>
    BY <1>7, <2>1 DEF VerifyAdd
  <2>4. vkey[v] \in JKeys \cup {EmptyKey} /\ vkey[v] # EmptyKey
    BY <2>2 DEF VerifiedFirst, JWTTypes
  <2>5. JWTTypes' /\ CacheCounted'
    <3>1. PayloadSize[p] \in Nat
      BY JWTAssumption
    <3>2. CASE cacheQueue' = cacheQueue /\ tokenCache' = tokenCache /\ cacheBytes' = cacheBytes
      BY <2>2, <2>3, <2>4, <3>2 DEF JWTTypes, CacheCounted
    <3>3. CASE /\ cacheQueue' = Append(cacheQueue, p) /\ tokenCache' = tokenCache \cup {p}
               /\ cacheBytes' = cacheBytes + PayloadSize[p]
      <4>1. PICK q \in Seq(JPayloads) : q = cacheQueue
        BY DEF JWTTypes
      <4>2. PICK r : r = Append(q, p)
        OBVIOUS
      <4>3. /\ r \in Seq(JPayloads) /\ Len(r) = Len(q) + 1 /\ Len(q) \in Nat
            /\ \A i \in 1..Len(q) : r[i] = q[i]
            /\ r[Len(q) + 1] = p
        BY <4>1, <4>2, AppendProperties
      <4>4. /\ DOMAIN r = 1..(Len(q) + 1) /\ DOMAIN q = 1..Len(q)
        BY <4>1, <4>3
      <4>5. Range(q) \cup {p} \subseteq Range(r)
        BY <4>3, <4>4 DEF Range
      <4>6. SizeOf(r) = SizeOf(q) + PayloadSize[p] /\ SizeOf(q) \in Nat
        BY <4>1, <4>2, SizeAppend, BytesFinite
      <4>7. CacheCounted'
        BY <2>2, <3>1, <3>3, <4>1, <4>2, <4>5, <4>6 DEF CacheCounted, JWTTypes
      <4>8. JWTTypes'
        <5>1. cacheQueue' \in Seq(JPayloads) /\ tokenCache' \subseteq JPayloads /\ cacheBytes' \in Nat
          BY <3>1, <3>3, <4>1, <4>2, <4>3 DEF JWTTypes
        <5>2. vpc' = [vpc EXCEPT ![v] = "evict"] \/ vpc' = [vpc EXCEPT ![v] = "revoked?"]
          BY <2>3
        <5> QED BY <2>2, <2>4, <5>1, <5>2 DEF JWTTypes
      <4> QED BY <4>7, <4>8
    <3> QED BY <2>3, <3>2, <3>3
  <2>6. \A x \in JPayloads : cachedUnder[x] # EmptyKey => cachedUnder'[x] # EmptyKey
    BY <2>2, <2>4 DEF JWTTypes
  <2>7. cachedUnder'[p] # EmptyKey
    BY <2>2, <2>4 DEF JWTTypes
  <2>8. VerifiedFirst'
    BY <2>1, <2>2, <2>3, <2>6, <2>7 DEF VerifiedFirst, JWTTypes
  <2>9. AcceptedWasVerified'
    <3>1. \A w \in Verifiers : result[w] = "yes" => vtoken[w].payload \in JPayloads
      BY DEF JWTTypes, VerifiedFirst
    <3> QED BY <2>2, <2>6, <3>1 DEF AcceptedWasVerified
  <2> QED BY <2>5, <2>8, <2>9
<1>8. ASSUME NEW v \in Verifiers, VerifyEvict(v) PROVE JWTInv'
  <2>1. /\ vpc[v] = "evict" /\ vpc' = [vpc EXCEPT ![v] = "revoked?"] /\ EvictCache(cacheMax)
        /\ UNCHANGED <<secret, callback, cacheMax, cacheCleared, vtoken, vkey, vok, result, cachedUnder>>
    BY <1>8 DEF VerifyEvict
  <2>2. /\ cacheQueue' \in Seq(JPayloads) /\ tokenCache' \subseteq tokenCache
        /\ cacheBytes' \in Nat /\ CacheCounted'
    BY <2>1, EvictionCounted DEF JWTTypes
  <2>3. JWTTypes'
    BY <2>1, <2>2 DEF JWTTypes
  <2>4. VerifiedFirst'
    BY <2>1, <2>2 DEF VerifiedFirst, JWTTypes
  <2> QED BY <2>1, <2>2, <2>3, <2>4 DEF AcceptedWasVerified
<1>9. ASSUME NEW v \in Verifiers, VerifyResult(v) PROVE JWTInv'
  <2>1. /\ vpc[v] = "revoked?" /\ vpc' = [vpc EXCEPT ![v] = "done"]
        /\ UNCHANGED <<secret, callback, cacheQueue, tokenCache, cacheBytes, cacheMax, cacheCrashed,
             cacheCleared, vtoken, vkey, vok, cachedUnder>>
    BY <1>9 DEF VerifyResult, Return, cacheVars
  <2>2. \/ vok[v] /\ result' = [result EXCEPT ![v] = "yes"]
        \/ result' = [result EXCEPT ![v] = "no"]
    BY <1>9 DEF VerifyResult, Return, IsValid
  <2>3. JWTTypes'
    BY <2>1, <2>2 DEF JWTTypes
  <2>4. CacheCounted'
    BY <2>1 DEF CacheCounted
  <2>5. VerifiedFirst'
    BY <2>1, <2>2 DEF VerifiedFirst, JWTTypes
  <2>6. AcceptedWasVerified'
    BY <2>1, <2>2 DEF VerifiedFirst, AcceptedWasVerified, JWTTypes
  <2> QED BY <2>3, <2>4, <2>5, <2>6
<1>10. CASE UNCHANGED jwtVars
  <2>1. UNCHANGED <<secret, callback, cacheQueue, tokenCache, cacheBytes, cacheMax, cacheCrashed,
             cacheCleared, vpc, vtoken, vkey, vok, result, cachedUnder>>
    BY <1>10 DEF jwtVars, cacheVars, verifyVars
  <2> QED BY <2>1 DEF JWTTypes, CacheCounted, VerifiedFirst, AcceptedWasVerified
<1> QED BY <1>1, <1>2, <1>3, <1>4, <1>5, <1>6, <1>7, <1>8, <1>9, <1>10 DEF JWTNext, VerifyStep

(* A payload that stays in the cache keeps its key, and the key in force, but for the
   verification that stores it. *)
LEMMA KeyChangeStep ==
  JWTInv /\ [JWTNext]_jwtVars =>
    [\A p \in tokenCache \cap tokenCache' :
       cachedUnder[p] = secret => cachedUnder'[p] = secret' \/ \E v \in Verifiers : VerifyAdd(v)]_jwtVars
<1> SUFFICES ASSUME JWTInv, [JWTNext]_jwtVars, ~UNCHANGED jwtVars, ~\E v \in Verifiers : VerifyAdd(v),
                    NEW p \in tokenCache \cap tokenCache', cachedUnder[p] = secret
             PROVE  cachedUnder'[p] = secret'
  OBVIOUS
<1>1. ASSUME NEW k \in JKeys, SetSecret(k) PROVE FALSE
  <2>1. tokenCache' = {}
    BY <1>1 DEF SetSecret, ClearCache
  <2> QED BY <2>1
<1>2. UNCHANGED <<secret, cachedUnder>>
  <2>1. CASE SetCallback
    BY <2>1 DEF SetCallback
  <2>2. CASE \E e \in BOOLEAN : SetEnabled(e)
    BY <2>2 DEF SetEnabled
  <2>3. CASE \E n \in CacheSizes : SetCacheMaxByteCount(n)
    BY <2>3 DEF SetCacheMaxByteCount
  <2>4. ASSUME NEW v \in Verifiers, VerifySignature(v) \/ VerifyEvict(v) \/ VerifyResult(v)
                                    \/ \E t \in Presented : VerifyStart(v, t)
        PROVE  UNCHANGED <<secret, cachedUnder>>
    BY <2>4 DEF VerifySignature, VerifyEvict, VerifyResult, VerifyStart
  <2> QED BY <1>1, <2>1, <2>2, <2>3, <2>4 DEF JWTNext, VerifyStep
<1> QED BY <1>2

(* CacheSound, for any payloads and sizes, keys, number of verifying threads and
   limits: between the critical sections of verify, of the setters of the secret and
   of the cache, nothing stays in the table that the queue does not hold, the counter
   covers the queue, and what verify accepts was verified. *)
THEOREM CacheIsSound == JWTSpec => CacheSound
<1>1. JWTInv => CachedIsEvictable /\ ByteCountCovers /\ AcceptedWasVerified
  BY DEF JWTInv, CacheCounted, CachedIsEvictable, ByteCountCovers
<1> QED BY <1>1, JWTInvInit, JWTInvStep, KeyChangeStep, PTL DEF JWTSpec, CacheSound, KeyChangeForgets

-----------------------------------------------------------------------------
(* The web log. *)

WlEntry == Nat \ {0}
WlFile == Seq(WlEntry) \cup {NoLog}
WlPlaces == {"idle", "print", "check", "rotate", "rename", "reopen"}
WlState == [at : WlPlaces, entry : Nat, next : 0..3]
Rotating == {"rename", "reopen"}

WlTypes ==
  /\ wlConfig \in WlConfigs \cup {<<>>}
  /\ wlRunning \in BOOLEAN /\ wlOpen \in BOOLEAN /\ wlSize \in Nat /\ wlEntries \in Nat /\ wlFaults \in Nat
  /\ wlFiles \in [0..3 -> WlFile]
  /\ wlQueue \in Seq(WlEntry) /\ wlWritten \in Seq(WlEntry) /\ wlAccepted \in Seq(WlEntry)
  /\ wlSegments \in Seq(Seq(WlEntry))
  /\ wlThread \in [WlThreads -> WlState]

(* Who works: nobody before start() and after the end, callers only without the queue, the
   two threads only with it; one rotates at a time, with the file closed. *)
WhoWorks ==
  /\ wlConfig = <<>> => ~wlRunning /\ wlSegments = <<>> /\ \A n \in 0..3 : wlFiles[n] = NoLog
  /\ ~wlRunning => wlQueue = <<>> /\ \A t \in WlThreads : wlThread[t].at = "idle"
  /\ \A t \in WlCallers : wlThread[t].at # "idle" => ~wlConfig.threaded
  /\ \A t \in {"printer", "rotator"} : wlThread[t].at # "idle" => wlConfig.threaded
  /\ wlQueue # <<>> => wlConfig.threaded
  /\ wlThread["rotator"].at \notin {"print", "check"}
  /\ \A t \in WlThreads : wlThread[t].at = "print" => wlThread[t].entry \in WlEntry
OneRotates ==
  /\ \A t, u \in WlThreads : wlThread[t].at \in Rotating /\ wlThread[u].at \in Rotating => t = u
  /\ WlLocked => ~wlOpen
FileIsThere ==
  /\ wlOpen => wlRunning /\ wlFiles[0] # NoLog
  /\ wlRunning /\ wlConfig.threaded /\ ~WlLocked => wlOpen
  /\ wlRunning /\ wlFaults = 0 /\ ~WlLocked => wlOpen
  /\ wlRunning /\ wlFaults = 0 /\ (\A t \in WlThreads : wlThread[t].at # "reopen") => wlFiles[0] # NoLog

(* The files hold the end of what was written; the place that the next rename fills is free,
   or it is the oldest backup. *)
Kept == WlContents(wlFiles[3]) \o WlContents(wlFiles[2]) \o WlContents(wlFiles[1]) \o WlContents(wlFiles[0])
EndIsKept == \E p \in Seq(WlEntry) : wlWritten = p \o Kept
NoneBeyond == wlConfig # <<>> => \A n \in 2..3 : n > wlConfig.backups => wlFiles[n] = NoLog
Filled(n) == IF n = 0 THEN 1 ELSE n
PlaceIsFree ==
  \A t \in WlThreads :
    LET n == wlThread[t].next
    IN wlThread[t].at = "rename" => /\ n <= wlConfig.backups
                                    /\ wlConfig.backups >= 2 /\ n < wlConfig.backups => wlFiles[Filled(n)] = NoLog

(* Without a fault: the backup that a number is, and how far the renames are. *)
LastButOne(n) == IF n > Len(wlSegments) THEN NoLog ELSE wlSegments[Len(wlSegments) - n + 1]
AllInPlace == \A i \in 1..WlLast : wlFiles[i] = LastButOne(i)
Shifted(n) ==
  \A i \in 1..WlLast :
    wlFiles[i] = IF wlConfig.backups <= 1 \/ n = wlConfig.backups \/ i < Filled(n) THEN LastButOne(i)
                 ELSE IF i = Filled(n) THEN NoLog ELSE LastButOne(i - 1)
BackupsShift ==
  wlConfig # <<>> /\ wlFaults = 0 =>
    /\ (\A t \in WlThreads : wlThread[t].at # "rename") => AllInPlace
    /\ \A t \in WlThreads : wlThread[t].at = "rename" => Shifted(wlThread[t].next)

WlInv == /\ WlTypes /\ WhoWorks /\ OneRotates /\ FileIsThere /\ EndIsKept /\ NoneBeyond /\ PlaceIsFree
         /\ BackupsShift /\ AcceptedIsWritten /\ TooLargeIsRotated


(* The end of a concatenation is a suffix. *)
LEMMA SuffixOfConcat ==
  ASSUME NEW S, NEW p \in Seq(S), NEW q \in Seq(S)
  PROVE  IsSuffix(q, p \o q)
<1>1. PICK w : w = p \o q
  OBVIOUS
<1>2. PICK m, n : m = Len(p) /\ n = Len(q) /\ m \in Nat /\ n \in Nat
  BY LenProperties
<1>3. w \in Seq(S) /\ Len(w) = m + n /\ \A i \in 1..(m + n) : w[i] = IF i <= m THEN p[i] ELSE q[i - m]
  BY <1>1, <1>2, ConcatProperties
<1>4. PICK a, b : a = Reverse(q) /\ b = Reverse(w)
  OBVIOUS
<1>5. a = [i \in 1..n |-> q[(n - i) + 1]] /\ b = [i \in 1..(m + n) |-> w[((m + n) - i) + 1]]
  BY <1>2, <1>3, <1>4 DEF Reverse
<1>6. \A i \in 1..n : a[i] \in S
  <2> SUFFICES ASSUME NEW i \in 1..n PROVE a[i] \in S
    OBVIOUS
  <2>1. (n - i) + 1 \in 1..n
    BY <1>2
  <2> QED BY <1>2, <1>5, <2>1, ElementOfSeq
<1>7. \A i \in 1..n : b[i] = a[i]
  <2> SUFFICES ASSUME NEW i \in 1..n PROVE b[i] = a[i]
    OBVIOUS
  <2>1. i \in 1..(m + n) /\ ((m + n) - i) + 1 \in 1..(m + n) /\ ~(((m + n) - i) + 1 <= m)
        /\ (((m + n) - i) + 1) - m = (n - i) + 1
    BY <1>2
  <2> QED BY <1>3, <1>5, <2>1
<1>8. \A i \in 1..n : b[i] \in S
  BY <1>6, <1>7
<1>9. 1 \in Int /\ n \in Int /\ (n - 1) + 1 = n
  BY <1>2
<1>10. /\ SubSeq(a, 1, n) \in Seq(S) /\ Len(SubSeq(a, 1, n)) = n
       /\ \A i \in 1..n : SubSeq(a, 1, n)[i] = a[i]
  BY <1>2, <1>6, <1>9, SubSeqProperties
<1>11. /\ SubSeq(b, 1, n) \in Seq(S) /\ Len(SubSeq(b, 1, n)) = n
       /\ \A i \in 1..n : SubSeq(b, 1, n)[i] = b[i]
  BY <1>2, <1>8, <1>9, SubSeqProperties
<1>12. SubSeq(a, 1, n) = SubSeq(b, 1, n)
  BY <1>7, <1>10, <1>11, SeqEqual
<1>13. Len(a) = n /\ Len(b) = m + n
  BY <1>2, <1>5
<1> QED BY <1>1, <1>2, <1>4, <1>12, <1>13 DEF IsSuffix, IsPrefix

(* The contents of the files. *)
LEMMA ContentsAreEntries ==
  ASSUME NEW f \in WlFile
  PROVE  WlContents(f) \in Seq(WlEntry) /\ (f # NoLog => WlContents(f) = f) /\ WlContents(NoLog) = <<>>
<1>1. <<>> \in Seq(WlEntry)
  OBVIOUS
<1> QED BY <1>1 DEF WlContents, WlFile

LEMMA NoLogHasNoEntry == NoLog \notin Seq(WlEntry)
<1> SUFFICES ASSUME NoLog \in Seq(WlEntry) PROVE FALSE
  OBVIOUS
<1>1. Len(NoLog) = 1 /\ NoLog[1] = 0
  BY DEF NoLog
<1>2. NoLog[1] \in WlEntry
  BY <1>1, ElementOfSeq
<1> QED BY <1>1, <1>2 DEF WlEntry

(* The files of a state, and the properties of the end that is kept, when the files stay. *)
LEMMA SameFiles ==
  ASSUME WlInv, UNCHANGED <<wlConfig, wlFiles, wlWritten, wlSegments>>,
         wlFaults' = 0 => wlFaults = 0,
         \A t \in WlThreads : wlThread'[t].at = "rename" => wlThread[t].at = "rename" /\ wlThread'[t].next = wlThread[t].next,
         wlFaults' = 0 => \A t \in WlThreads : wlThread[t].at = "rename" => wlThread'[t].at = "rename"
  PROVE  EndIsKept' /\ NoneBeyond' /\ PlaceIsFree' /\ BackupsShift'
<1>1. EndIsKept'
  BY DEF WlInv, EndIsKept, Kept, WlContents
<1>2. NoneBeyond'
  BY DEF WlInv, NoneBeyond
<1>3. PlaceIsFree'
  BY DEF WlInv, PlaceIsFree, Filled
<1>4. BackupsShift'
  <2> SUFFICES ASSUME wlConfig # <<>>, wlFaults' = 0 PROVE BackupsShift'
    BY DEF BackupsShift
  <2>1. AllInPlace' = AllInPlace
    BY DEF AllInPlace, WlLast, LastButOne
  <2>2. \A n : Shifted(n)' = Shifted(n)
    BY DEF Shifted, WlLast, LastButOne, Filled
  <2>3. ASSUME \A t \in WlThreads : wlThread'[t].at # "rename" PROVE AllInPlace'
    BY <2>1, <2>3 DEF WlInv, BackupsShift
  <2>4. ASSUME NEW t \in WlThreads, wlThread'[t].at = "rename" PROVE Shifted(wlThread[t].next)' /\ wlThread'[t].next = wlThread[t].next
    BY <2>2, <2>4 DEF WlInv, BackupsShift
  <2> QED BY <2>3, <2>4 DEF BackupsShift
<1> QED BY <1>1, <1>2, <1>3, <1>4


(* A step of one thread outside of a rotation that leaves the file. *)
LEMMA QuietStep ==
  ASSUME WlInv, wlRunning, UNCHANGED <<wlConfig, wlRunning, wlOpen, wlSize, wlFiles, wlWritten, wlSegments, wlFaults>>,
         NEW t \in WlThreads, NEW r \in WlState, wlThread' = [wlThread EXCEPT ![t] = r],
         wlThread[t].at \notin Rotating, r.at \notin Rotating,
         wlEntries' \in Nat, wlQueue' \in Seq(WlEntry), wlAccepted' \in Seq(WlEntry),
         r.at = "print" => r.entry \in WlEntry,
         r.at # "idle" /\ t \in WlCallers => ~wlConfig.threaded,
         r.at # "idle" /\ t \notin WlCallers => wlConfig.threaded,
         t = "rotator" => r.at \notin {"print", "check"},
         wlQueue' # <<>> => wlConfig.threaded,
         wlThread[t].at \in {"check", "rotate"} => r.at \in {"check", "rotate"} \/ ~SizeAsksForRotation,
         AcceptedIsWritten'
  PROVE  WlInv'
<1>1. wlThread \in [WlThreads -> WlState] /\ wlConfig # <<>>
  BY DEF WlInv, WlTypes, WhoWorks
<1>2. wlThread' \in [WlThreads -> WlState] /\ wlThread'[t] = r /\ \A u \in WlThreads : u # t => wlThread'[u] = wlThread[u]
  BY <1>1
<1>3. WlTypes'
  BY <1>2 DEF WlInv, WlTypes
<1>4. \A u \in WlThreads : /\ wlThread'[u].at \in Rotating <=> wlThread[u].at \in Rotating
                           /\ wlThread[u].at \in Rotating => wlThread'[u] = wlThread[u]
  BY <1>2
<1>5. \A u \in WlThreads : /\ wlThread'[u].at = "rename" <=> wlThread[u].at = "rename"
                           /\ wlThread'[u].at = "reopen" <=> wlThread[u].at = "reopen"
                           /\ wlThread[u].at = "rename" => wlThread'[u].next = wlThread[u].next
  BY <1>4 DEF Rotating
<1>6. WlLocked' = WlLocked
  BY <1>4 DEF WlLocked, Rotating
<1>7. WhoWorks'
  <2>1. WhoWorks /\ "rotator" \in WlThreads /\ "rotator" \notin WlCallers /\ "printer" \notin WlCallers
    BY WlAssumption DEF WlInv, WlThreads
  <2>2. \A u \in WlCallers : wlThread'[u].at # "idle" => ~wlConfig.threaded
    BY <1>2, <2>1 DEF WhoWorks, WlThreads
  <2>3. \A u \in {"printer", "rotator"} : wlThread'[u].at # "idle" => wlConfig.threaded
    BY <1>2, <2>1 DEF WhoWorks, WlThreads
  <2>4. wlThread'["rotator"].at \notin {"print", "check"}
    BY <1>2, <2>1 DEF WhoWorks
  <2>5. \A u \in WlThreads : wlThread'[u].at = "print" => wlThread'[u].entry \in WlEntry
    BY <1>2, <2>1 DEF WhoWorks
  <2> QED BY <1>1, <2>2, <2>3, <2>4, <2>5 DEF WhoWorks
<1>8. OneRotates'
  BY <1>4, <1>6 DEF WlInv, OneRotates
<1>9. FileIsThere'
  BY <1>5, <1>6 DEF WlInv, FileIsThere
<1>10. TooLargeIsRotated'
  <2>1. SizeAsksForRotation' = SizeAsksForRotation
    BY DEF SizeAsksForRotation
  <2> SUFFICES ASSUME SizeAsksForRotation PROVE \E u \in WlThreads : wlThread'[u].at \in {"check", "rotate"}
    BY <2>1 DEF TooLargeIsRotated
  <2>2. PICK u \in WlThreads : wlThread[u].at \in {"check", "rotate"}
    BY DEF WlInv, TooLargeIsRotated
  <2> QED BY <1>2, <2>2
<1>11. EndIsKept' /\ NoneBeyond' /\ PlaceIsFree' /\ BackupsShift'
  BY <1>5, SameFiles
<1> QED BY <1>3, <1>7, <1>8, <1>9, <1>10, <1>11 DEF WlInv

(* The record of an idle thread, and of one that prints. *)
LEMMA ThreadRecords ==
  /\ WlIdle \in WlState /\ WlIdle.at = "idle" /\ WlIdle.next = 0
  /\ \A w \in WlPlaces : [WlIdle EXCEPT !.at = w] \in WlState /\ [WlIdle EXCEPT !.at = w].at = w
  /\ \A e \in Nat : /\ [WlIdle EXCEPT !.at = "print", !.entry = e] \in WlState
                    /\ [WlIdle EXCEPT !.at = "print", !.entry = e].at = "print"
                    /\ [WlIdle EXCEPT !.at = "print", !.entry = e].entry = e
<1>1. WlIdle = [at |-> "idle", entry |-> 0, next |-> 0] /\ 0 \in 0..3
  BY DEF WlIdle
<1>2. WlIdle \in WlState /\ WlIdle.at = "idle" /\ WlIdle.next = 0
  BY <1>1 DEF WlState, WlPlaces
<1>3. \A w \in WlPlaces : [WlIdle EXCEPT !.at = w] \in WlState /\ [WlIdle EXCEPT !.at = w].at = w
  BY <1>1 DEF WlState
<1>4. ASSUME NEW e \in Nat
      PROVE  /\ [WlIdle EXCEPT !.at = "print", !.entry = e] \in WlState
             /\ [WlIdle EXCEPT !.at = "print", !.entry = e].at = "print"
             /\ [WlIdle EXCEPT !.at = "print", !.entry = e].entry = e
  <2>1. PICK i \in WlState : i = WlIdle
    BY <1>2
  <2>2. PICK r : r = [i EXCEPT !.at = "print", !.entry = e]
    OBVIOUS
  <2>3. "print" \in WlPlaces
    BY DEF WlPlaces
  <2>4. r \in WlState /\ r.at = "print" /\ r.entry = e
    BY <2>2, <2>3 DEF WlState
  <2> QED BY <2>1, <2>2, <2>4
<1> QED BY <1>2, <1>3, <1>4

LEMMA WlLogStep ==
  ASSUME WlInv, WlLogQueued \/ WlPop \/ WlScheduled \/ \E t \in WlCallers : WlLogDirect(t)
  PROVE  WlInv'
<1>1. /\ wlThread \in [WlThreads -> WlState] /\ wlConfig # <<>> /\ "rotator" \in WlThreads /\ "printer" \in WlThreads
      /\ "rotator" \notin WlCallers /\ "printer" \notin WlCallers /\ WlCallers \subseteq WlThreads /\ wlRunning
  BY WlAssumption DEF WlInv, WlTypes, WhoWorks, WlThreads, WlLogQueued, WlPop, WlScheduled, WlLogDirect, WlStarted
<1>2. wlQueue \in Seq(WlEntry) /\ wlAccepted \in Seq(WlEntry) /\ wlEntries \in Nat /\ wlWritten \in Seq(WlEntry)
  BY DEF WlInv, WlTypes
<1>3. UNCHANGED <<wlConfig, wlRunning, wlOpen, wlSize, wlFiles, wlWritten, wlSegments, wlFaults>>
  BY DEF WlLogQueued, WlPop, WlScheduled, WlLogDirect
<1>4. wlEntries + 1 \in WlEntry /\ wlEntries + 1 \in Nat
  BY <1>2 DEF WlEntry
<1>5. CASE WlLogQueued
  <2>1. wlThread' = wlThread
    BY <1>5 DEF WlLogQueued
  <2>2. wlConfig.threaded /\ wlEntries' = wlEntries + 1
    BY <1>5 DEF WlLogQueued
  <2>4. wlQueue' \in Seq(WlEntry) /\ wlAccepted' \in Seq(WlEntry)
    BY <1>2, <1>4, <1>5, AppendProperties DEF WlLogQueued
  <2>5. PICK mid : mid = IF WlAt("printer", "print") THEN <<wlThread["printer"].entry>> ELSE <<>>
    OBVIOUS
  <2>6. mid \in Seq(WlEntry)
    <3>1. <<>> \in Seq(WlEntry)
      OBVIOUS
    <3>2. WlAt("printer", "print") => wlThread["printer"].entry \in WlEntry
      BY <1>1 DEF WlInv, WhoWorks, WlAt
    <3> QED BY <2>5, <3>1, <3>2
  <2>7. wlAccepted = (wlWritten \o mid) \o wlQueue
    BY <1>1, <2>2, <2>5 DEF WlInv, AcceptedIsWritten
  <2>8. AcceptedIsWritten'
    <3>1. wlAccepted' = (wlWritten \o mid) \o wlQueue'
      <4>1. CASE wlQueue' = Append(wlQueue, wlEntries + 1) /\ wlAccepted' = Append(wlAccepted, wlEntries + 1)
        <5>1. PICK a \in Seq(WlEntry) : a = wlWritten \o mid
          BY <1>2, <2>6, ConcatProperties
        <5>2. PICK e \in WlEntry : e = wlEntries + 1
          BY <1>4
        <5>3. PICK q \in Seq(WlEntry) : q = wlQueue
          BY <1>2
        <5>4. Append(q, e) = q \o <<e>> /\ Append(wlAccepted, e) = wlAccepted \o <<e>> /\ <<e>> \in Seq(WlEntry)
          BY <1>2, AppendIsConcat
        <5>5. (a \o q) \o <<e>> = a \o (q \o <<e>>)
          BY <5>4, ConcatAssociative
        <5>6. wlAccepted' = a \o wlQueue'
          BY <2>7, <4>1, <5>1, <5>2, <5>3, <5>4, <5>5
        <5> QED BY <5>1, <5>6
      <4>2. CASE UNCHANGED <<wlQueue, wlAccepted>>
        BY <2>7, <4>2
      <4> QED BY <1>5, <4>1, <4>2 DEF WlLogQueued
    <3> QED BY <1>3, <2>1, <2>5, <3>1 DEF AcceptedIsWritten, WlAt
  <2>10. WlTypes' /\ WhoWorks'
    BY <1>1, <1>2, <1>3, <1>4, <2>1, <2>2, <2>4 DEF WlInv, WlTypes, WhoWorks
  <2>11. WlLocked' = WlLocked /\ SizeAsksForRotation' = SizeAsksForRotation
    BY <1>3, <2>1 DEF WlLocked, SizeAsksForRotation
  <2>12. OneRotates' /\ FileIsThere' /\ TooLargeIsRotated'
    BY <1>3, <2>1, <2>11 DEF WlInv, OneRotates, FileIsThere, TooLargeIsRotated
  <2>13. EndIsKept' /\ NoneBeyond' /\ PlaceIsFree' /\ BackupsShift'
    BY <1>3, <2>1, SameFiles
  <2> QED BY <2>8, <2>10, <2>12, <2>13 DEF WlInv
<1>6. CASE WlPop
  <2>1. wlQueue # <<>> /\ wlConfig.threaded /\ wlThread["printer"].at = "idle"
    BY <1>6 DEF WlPop, WlInv, WhoWorks, WlAt
  <2>2. PICK e : e = Head(wlQueue) /\ e \in WlEntry /\ e \in Nat
    BY <1>2, <2>1, HeadTailProperties DEF WlEntry
  <2>3. PICK r \in WlState : r = [WlIdle EXCEPT !.at = "print", !.entry = e] /\ r.at = "print" /\ r.entry = e
    BY <2>2, ThreadRecords
  <2>4. wlThread' = [wlThread EXCEPT !["printer"] = r] /\ wlQueue' = Tail(wlQueue) /\ UNCHANGED <<wlEntries, wlAccepted>>
    BY <1>6, <2>2, <2>3 DEF WlPop
  <2>5. wlQueue' \in Seq(WlEntry)
    BY <1>2, <2>1, <2>4, HeadTailProperties
  <2>6. AcceptedIsWritten'
    <3>1. wlAccepted = (wlWritten \o <<>>) \o wlQueue
      BY <1>1, <2>1 DEF WlInv, AcceptedIsWritten, WlAt
    <3>2. wlWritten \o <<>> = wlWritten
      BY <1>2, ConcatEmptySeq
    <3>3. wlQueue = <<e>> \o Tail(wlQueue)
      <4>1. PICK k : k = Len(wlQueue) /\ k \in Nat \ {0}
        BY <1>2, <2>1, EmptySeq
      <4>2. 1 \in 1..k /\ k \in 1..k /\ 1 + 1 = 2
        BY <4>1
      <4>3. SubSeq(wlQueue, 1, k) = <<wlQueue[1]>> \o SubSeq(wlQueue, 2, k)
        BY <1>2, <4>1, <4>2, SubSeqRecursiveFirst
      <4>4. SubSeq(wlQueue, 1, k) = wlQueue /\ Tail(wlQueue) = SubSeq(wlQueue, 2, k)
        BY <1>2, <2>1, <4>1, SubSeqFull, TailIsSubSeq
      <4>5. wlQueue[1] = e
        BY <2>2
      <4> QED BY <4>3, <4>4, <4>5
    <3>4. <<e>> \in Seq(WlEntry)
      BY <2>2
    <3>5. (wlWritten \o <<e>>) \o Tail(wlQueue) = wlWritten \o (<<e>> \o Tail(wlQueue))
      BY <1>2, <2>4, <2>5, <3>4, ConcatAssociative
    <3>6. wlAccepted' = (wlWritten \o <<e>>) \o wlQueue'
      BY <2>4, <3>1, <3>2, <3>3, <3>5
    <3>7. wlThread'["printer"].at = "print" /\ wlThread'["printer"].entry = e
      BY <1>1, <2>3, <2>4
    <3> QED BY <1>3, <3>6, <3>7 DEF AcceptedIsWritten, WlAt
  <2>7. wlThread["printer"].at \notin Rotating /\ r.at \notin Rotating
    BY <2>1, <2>3 DEF Rotating
  <2> QED BY <1>1, <1>2, <1>3, <2>1, <2>2, <2>3, <2>4, <2>5, <2>6, <2>7, QuietStep
<1>7. CASE WlScheduled
  <2>1. wlConfig.threaded /\ wlThread["rotator"].at = "idle" /\ wlThread["rotator"] \in WlState
    BY <1>1, <1>7 DEF WlScheduled, WlAt
  <2>2. PICK r : r = [wlThread["rotator"] EXCEPT !.at = "rotate"]
    OBVIOUS
  <2>3. r \in WlState /\ r.at = "rotate"
    BY <2>1, <2>2 DEF WlState, WlPlaces
  <2>4. wlThread' = [wlThread EXCEPT !["rotator"] = r] /\ UNCHANGED <<wlQueue, wlEntries, wlAccepted>>
    BY <1>7, <2>2 DEF WlScheduled, WlGoes
  <2>5. wlThread'["printer"] = wlThread["printer"]
    BY <1>1, <2>4
  <2>6. AcceptedIsWritten'
    BY <1>3, <2>4, <2>5 DEF WlInv, AcceptedIsWritten, WlAt
  <2>7. wlThread["rotator"].at \notin Rotating /\ r.at \notin Rotating
    BY <2>1, <2>3 DEF Rotating
  <2> QED BY <1>1, <1>2, <1>3, <2>1, <2>3, <2>4, <2>6, <2>7, QuietStep
<1>8. CASE \E t \in WlCallers : WlLogDirect(t)
  <2>1. PICK t \in WlCallers : WlLogDirect(t)
    BY <1>8
  <2>2. PICK e : e = wlEntries + 1 /\ e \in WlEntry /\ e \in Nat
    BY <1>4
  <2>3. PICK r \in WlState : r = [WlIdle EXCEPT !.at = "print", !.entry = e] /\ r.at = "print" /\ r.entry = e
    BY <2>2, ThreadRecords
  <2>4. /\ wlThread' = [wlThread EXCEPT ![t] = r] /\ UNCHANGED <<wlQueue, wlAccepted>> /\ wlEntries' = e
        /\ ~wlConfig.threaded /\ wlThread[t].at = "idle"
    BY <2>1, <2>2, <2>3 DEF WlLogDirect, WlAt
  <2>5. AcceptedIsWritten'
    BY <1>3, <2>4 DEF AcceptedIsWritten
  <2>6. wlThread[t].at \notin Rotating /\ r.at \notin Rotating
    BY <2>3, <2>4 DEF Rotating
  <2>7. wlQueue' # <<>> => wlConfig.threaded
    BY <2>4 DEF WlInv, WhoWorks
  <2> QED BY <1>1, <1>2, <1>3, <2>2, <2>3, <2>4, <2>5, <2>6, <2>7, QuietStep
<1> QED BY <1>5, <1>6, <1>7, <1>8


LEMMA WlCheckSizeStep ==
  ASSUME WlInv, NEW t \in WlThreads, WlCheckSize(t)
  PROVE  WlInv'
<1>1. wlThread \in [WlThreads -> WlState] /\ wlThread[t].at = "check" /\ wlRunning
  BY DEF WlInv, WlTypes, WlCheckSize, WlAt
<1>2. UNCHANGED <<wlConfig, wlRunning, wlOpen, wlSize, wlFiles, wlWritten, wlSegments, wlFaults>>
      /\ UNCHANGED <<wlQueue, wlEntries, wlAccepted>>
  BY DEF WlCheckSize
<1>3. PICK w \in WlPlaces : w = IF SizeAsksForRotation THEN "rotate" ELSE "idle"
  BY DEF WlPlaces
<1>4. PICK r \in WlState : r = [WlIdle EXCEPT !.at = w] /\ r.at = w
  BY ThreadRecords
<1>5. wlThread' = [wlThread EXCEPT ![t] = r]
  BY <1>3, <1>4 DEF WlCheckSize
<1>6. w \in {"rotate", "idle"} /\ (~SizeAsksForRotation \/ w = "rotate")
  BY <1>3
<1>7. WhoWorks /\ wlQueue \in Seq(WlEntry) /\ wlAccepted \in Seq(WlEntry) /\ wlEntries \in Nat
  BY DEF WlInv, WlTypes
<1>8. t # "rotator" /\ (t \in WlCallers => ~wlConfig.threaded) /\ (t \notin WlCallers => wlConfig.threaded)
  BY <1>1, <1>7 DEF WhoWorks, WlThreads
<1>9. AcceptedIsWritten'
  <2>1. "printer" \in WlThreads
    BY DEF WlThreads
  <2>2. WlAt("printer", "print")' = WlAt("printer", "print") /\ (WlAt("printer", "print") => wlThread'["printer"] = wlThread["printer"])
    BY <1>1, <1>4, <1>5, <1>6, <2>1 DEF WlAt
  <2> QED BY <1>2, <2>2 DEF WlInv, AcceptedIsWritten
<1>10. wlThread[t].at \notin Rotating /\ r.at \notin Rotating
  BY <1>1, <1>4, <1>6 DEF Rotating
<1>11. wlQueue' # <<>> => wlConfig.threaded
  BY <1>2, <1>7 DEF WhoWorks
<1>12. wlEntries' \in Nat /\ wlQueue' \in Seq(WlEntry) /\ wlAccepted' \in Seq(WlEntry)
  BY <1>2, <1>7
<1>13. /\ r.at = "print" => r.entry \in WlEntry
       /\ r.at # "idle" /\ t \in WlCallers => ~wlConfig.threaded
       /\ r.at # "idle" /\ t \notin WlCallers => wlConfig.threaded
       /\ t = "rotator" => r.at \notin {"print", "check"}
       /\ wlThread[t].at \in {"check", "rotate"} => r.at \in {"check", "rotate"} \/ ~SizeAsksForRotation
  BY <1>4, <1>6, <1>8
<1> QED BY <1>1, <1>2, <1>5, <1>9, <1>10, <1>11, <1>12, <1>13, QuietStep

LEMMA WlCreatedStep ==
  ASSUME WlInv, NEW c \in WlConfigs, WlCreated(c)
  PROVE  WlInv'
<1>1. /\ wlConfig = <<>> /\ ~wlRunning /\ ~wlOpen /\ wlSegments = <<>> /\ \A n \in 0..3 : wlFiles[n] = NoLog
  BY DEF WlInv, WhoWorks, FileIsThere, WlCreated
<1>2. wlConfig' = c /\ UNCHANGED <<wlRunning, wlOpen, wlSize, wlFiles, wlQueue, wlThread, wlEntries, wlWritten,
                                   wlSegments, wlAccepted, wlFaults>>
  BY DEF WlCreated
<1>3. wlQueue = <<>> /\ \A t \in WlThreads : wlThread[t].at = "idle"
  BY <1>1 DEF WlInv, WhoWorks
<1>4. WlTypes'
  BY <1>2 DEF WlInv, WlTypes
<1>5. WhoWorks'
  BY <1>1, <1>2, <1>3 DEF WhoWorks, WlThreads
<1>6. OneRotates'
  BY <1>2 DEF WlInv, OneRotates, WlLocked
<1>7. FileIsThere' /\ AcceptedIsWritten' /\ TooLargeIsRotated'
  BY <1>1, <1>2 DEF FileIsThere, AcceptedIsWritten, TooLargeIsRotated
<1>8. EndIsKept'
  BY <1>2 DEF WlInv, EndIsKept, Kept
<1>9. NoneBeyond' /\ PlaceIsFree'
  BY <1>1, <1>2, <1>3 DEF NoneBeyond, PlaceIsFree
<1>10. BackupsShift'
  <2>1. PICK b \in 0..3 : b = c.backups
    BY WlAssumption
  <2>2. WlLast' \in 1..3
    BY <1>2, <2>1 DEF WlLast
  <2>3. Len(wlSegments) = 0
    BY <1>1
  <2>4. AllInPlace'
    BY <1>1, <1>2, <2>2, <2>3 DEF AllInPlace, LastButOne
  <2> QED BY <1>2, <1>3, <2>4 DEF BackupsShift
<1> QED BY <1>4, <1>5, <1>6, <1>7, <1>8, <1>9, <1>10 DEF WlInv

(* The current file is opened to append: nothing is lost, no backup is touched. *)
LEMMA OpenedToAppend ==
  ASSUME WlInv, wlFiles' = [wlFiles EXCEPT ![0] = WlContents(@)], UNCHANGED <<wlConfig, wlWritten, wlSegments>>
  PROVE  /\ wlFiles' \in [0..3 -> WlFile] /\ wlFiles'[0] # NoLog
         /\ EndIsKept' /\ NoneBeyond' /\ AllInPlace' = AllInPlace /\ \A n \in 1..3 : wlFiles'[n] = wlFiles[n]
<1>1. wlFiles \in [0..3 -> WlFile]
  BY DEF WlInv, WlTypes
<1>2. 0 \in 0..3 /\ 1 \in 0..3 /\ 2 \in 0..3 /\ 3 \in 0..3 /\ 1..3 \subseteq 0..3 /\ 0 \notin 1..3 /\ 2..3 \subseteq 1..3
  OBVIOUS
<1>3. PICK f \in Seq(WlEntry) : f = WlContents(wlFiles[0])
  BY <1>1, <1>2, ContentsAreEntries
<1>4. f \in WlFile /\ f # NoLog /\ WlContents(f) = f
  BY NoLogHasNoEntry DEF WlFile, WlContents
<1>5. wlFiles' \in [0..3 -> WlFile] /\ wlFiles'[0] = f /\ \A n \in 1..3 : wlFiles'[n] = wlFiles[n]
  BY <1>1, <1>2, <1>3, <1>4
<1>6. Kept' = Kept
  BY <1>3, <1>4, <1>5 DEF Kept
<1>7. EndIsKept'
  BY <1>6 DEF WlInv, EndIsKept
<1>8. NoneBeyond'
  BY <1>2, <1>5 DEF WlInv, NoneBeyond
<1>9. AllInPlace' = AllInPlace
  <2>1. \A n : n # 0 => wlFiles'[n] = wlFiles[n]
    BY <1>1
  <2>2. \A n \in 1..WlLast : n # 0
    OBVIOUS
  <2>3. WlLast' = WlLast
    BY DEF WlLast
  <2> QED BY <2>1, <2>2, <2>3 DEF AllInPlace, LastButOne
<1> QED BY <1>4, <1>5, <1>7, <1>8, <1>9

LEMMA WlStartStep ==
  ASSUME WlInv, NEW matches \in BOOLEAN, WlStart(matches)
  PROVE  WlInv'
<1>1. /\ wlConfig # <<>> /\ ~wlRunning /\ wlQueue = <<>> /\ \A t \in WlThreads : wlThread[t].at = "idle"
  BY DEF WlInv, WhoWorks, WlStart
<1>2. /\ wlRunning' = TRUE /\ wlOpen' = TRUE /\ wlSize' = 0 /\ wlFiles' = [wlFiles EXCEPT ![0] = WlContents(@)]
      /\ wlAccepted' = wlWritten /\ UNCHANGED <<wlConfig, wlQueue, wlEntries, wlWritten, wlSegments, wlFaults>>
  BY DEF WlStart
<1>3. /\ wlFiles' \in [0..3 -> WlFile] /\ wlFiles'[0] # NoLog
      /\ EndIsKept' /\ NoneBeyond' /\ AllInPlace' = AllInPlace
  BY <1>2, OpenedToAppend
<1>4. wlThread \in [WlThreads -> WlState] /\ "rotator" \in WlThreads /\ "rotator" \notin WlCallers /\ "printer" \in WlThreads
  BY WlAssumption DEF WlInv, WlTypes, WlThreads
<1>5. /\ wlThread' \in [WlThreads -> WlState]
      /\ \A t \in WlThreads : wlThread'[t].at = "idle" \/ (t = "rotator" /\ wlThread'[t].at = "rotate" /\ wlConfig.threaded)
  <2>1. PICK r : r = [at |-> "rotate", entry |-> 1, next |-> 0]
    OBVIOUS
  <2>2. r \in WlState /\ r.at = "rotate"
    BY <2>1 DEF WlState, WlPlaces
  <2>3. CASE wlThread' = [wlThread EXCEPT !["rotator"] = r] /\ wlConfig.threaded
    BY <1>1, <1>4, <2>2, <2>3
  <2>4. CASE wlThread' = wlThread
    BY <1>1, <1>4, <2>4
  <2> QED BY <2>1, <2>3, <2>4 DEF WlStart
<1>6. WlTypes'
  BY <1>2, <1>3, <1>5 DEF WlInv, WlTypes
<1>7. WhoWorks'
  <2>1. \A t \in WlCallers : wlThread'[t].at = "idle"
    BY <1>4, <1>5 DEF WlThreads
  <2>2. wlThread'["printer"].at = "idle" /\ (wlThread'["rotator"].at # "idle" => wlConfig.threaded)
    BY <1>4, <1>5
  <2>3. \A t \in WlThreads : wlThread'[t].at \notin {"print", "check"}
    BY <1>5
  <2> QED BY <1>1, <1>2, <1>4, <2>1, <2>2, <2>3 DEF WhoWorks
<1>8. ~WlLocked' /\ OneRotates'
  BY <1>5 DEF WlLocked, OneRotates, Rotating
<1>9. FileIsThere'
  BY <1>2, <1>3 DEF FileIsThere
<1>10. PlaceIsFree' /\ BackupsShift'
  <2>1. (\A t \in WlThreads : wlThread[t].at # "rename") /\ (\A t \in WlThreads : wlThread'[t].at # "rename")
    BY <1>1, <1>5
  <2> QED BY <1>1, <1>2, <1>3, <2>1 DEF WlInv, PlaceIsFree, BackupsShift
<1>11. AcceptedIsWritten'
  <2>1. ~WlAt("printer", "print")'
    BY <1>4, <1>5 DEF WlAt
  <2>2. wlWritten \o <<>> = wlWritten
    BY ConcatEmptySeq DEF WlInv, WlTypes
  <2> QED BY <1>1, <1>2, <2>1, <2>2 DEF AcceptedIsWritten
<1>12. TooLargeIsRotated'
  <2>1. wlConfig.maxFile \in Nat
    BY <1>1, WlAssumption DEF WlInv, WlTypes
  <2>2. ~SizeAsksForRotation'
    BY <1>2, <2>1 DEF SizeAsksForRotation
  <2> QED BY <2>2 DEF TooLargeIsRotated
<1> QED BY <1>3, <1>6, <1>7, <1>8, <1>9, <1>10, <1>11, <1>12 DEF WlInv

LEMMA RotateReopenStep ==
  ASSUME WlInv, NEW t \in WlThreads, RotateReopen(t)
  PROVE  WlInv'
<1>1. wlThread[t].at = "reopen" /\ wlThread \in [WlThreads -> WlState] /\ WhoWorks
  BY DEF WlInv, WlTypes, RotateReopen, WlAt
<1>2. /\ wlOpen' = TRUE /\ wlSize' = 0 /\ wlFiles' = [wlFiles EXCEPT ![0] = WlContents(@)]
      /\ wlThread' = [wlThread EXCEPT ![t] = WlIdle]
      /\ UNCHANGED <<wlConfig, wlRunning, wlQueue, wlEntries, wlWritten, wlSegments, wlAccepted, wlFaults>>
  BY DEF RotateReopen
<1>3. wlRunning /\ wlConfig # <<>>
  BY <1>1 DEF WhoWorks
<1>4. /\ wlFiles' \in [0..3 -> WlFile] /\ wlFiles'[0] # NoLog
      /\ EndIsKept' /\ NoneBeyond' /\ AllInPlace' = AllInPlace
  BY <1>2, OpenedToAppend
<1>5. wlThread' \in [WlThreads -> WlState] /\ wlThread'[t].at = "idle" /\ \A u \in WlThreads : u # t => wlThread'[u] = wlThread[u]
  BY <1>1, <1>2, ThreadRecords
<1>6. \A u \in WlThreads : wlThread'[u].at \notin Rotating /\ wlThread[u].at # "rename" /\ wlThread'[u].at # "rename"
  BY <1>1, <1>5 DEF WlInv, OneRotates, Rotating
<1>7. WlTypes'
  BY <1>2, <1>4, <1>5 DEF WlInv, WlTypes
<1>8. WhoWorks'
  <2>1. \A u \in WlThreads : wlThread'[u].at # "idle" => wlThread'[u] = wlThread[u]
    BY <1>5
  <2>2. "rotator" \in WlThreads /\ "printer" \in WlThreads /\ WlCallers \subseteq WlThreads
    BY DEF WlThreads
  <2>3. wlThread'["rotator"].at \notin {"print", "check"}
    BY <1>1, <1>5, <2>2 DEF WhoWorks
  <2> QED BY <1>1, <1>2, <1>3, <2>1, <2>2, <2>3 DEF WhoWorks
<1>9. ~WlLocked' /\ OneRotates'
  BY <1>6 DEF WlLocked, OneRotates, Rotating
<1>10. FileIsThere'
  BY <1>2, <1>3, <1>4 DEF FileIsThere
<1>11. PlaceIsFree' /\ BackupsShift'
  BY <1>2, <1>3, <1>4, <1>6 DEF WlInv, PlaceIsFree, BackupsShift
<1>12. AcceptedIsWritten'
  <2>1. "printer" \in WlThreads
    BY DEF WlThreads
  <2>2. WlAt("printer", "print")' = WlAt("printer", "print") /\ (WlAt("printer", "print") => wlThread'["printer"] = wlThread["printer"])
    BY <1>1, <1>5, <2>1 DEF WlAt
  <2> QED BY <1>2, <2>2 DEF WlInv, AcceptedIsWritten
<1>13. TooLargeIsRotated'
  <2>1. wlConfig.maxFile \in Nat
    BY <1>3, WlAssumption DEF WlInv, WlTypes
  <2>2. ~SizeAsksForRotation'
    BY <1>2, <2>1 DEF SizeAsksForRotation
  <2> QED BY <2>2 DEF TooLargeIsRotated
<1> QED BY <1>4, <1>7, <1>8, <1>9, <1>10, <1>11, <1>12, <1>13 DEF WlInv


LEMMA PrintLogStep ==
  ASSUME WlInv, NEW t \in WlThreads, PrintLogToFile(t)
  PROVE  WlInv'
<1>1. wlThread[t].at = "print" /\ ~WlLocked /\ wlRunning /\ wlThread \in [WlThreads -> WlState] /\ WhoWorks
  BY DEF WlInv, WlTypes, PrintLogToFile, MayPrint, WlAt
<1>2. PICK e \in WlEntry : e = wlThread[t].entry
  BY <1>1 DEF WhoWorks
<1>3. /\ wlFiles' = [wlFiles EXCEPT ![0] = IF wlOpen THEN Append(@, e) ELSE @]
      /\ wlWritten' = IF wlOpen THEN Append(wlWritten, e) ELSE wlWritten
      /\ wlSize' = wlSize + 1
      /\ UNCHANGED <<wlConfig, wlRunning, wlOpen, wlQueue, wlEntries, wlSegments, wlAccepted, wlFaults>>
  BY <1>2 DEF PrintLogToFile
<1>4. PICK r : r = [wlThread[t] EXCEPT !.at = "check"]
  OBVIOUS
<1>5. r \in WlState /\ r.at = "check"
  BY <1>1, <1>4 DEF WlState, WlPlaces
<1>6. wlThread' = [wlThread EXCEPT ![t] = r]
  BY <1>4 DEF PrintLogToFile, WlGoes
<1>7. wlThread' \in [WlThreads -> WlState] /\ wlThread'[t] = r /\ \A u \in WlThreads : u # t => wlThread'[u] = wlThread[u]
  BY <1>1, <1>5, <1>6
<1>8. wlConfig # <<>> /\ wlFiles \in [0..3 -> WlFile] /\ 0 \in 0..3 /\ wlWritten \in Seq(WlEntry)
  BY <1>1 DEF WhoWorks, WlInv, WlTypes
<1>9. wlOpen => wlFiles[0] \in Seq(WlEntry) /\ wlFiles[0] # NoLog
  BY <1>8 DEF WlInv, FileIsThere, WlFile
<1>10. PICK f : f = IF wlOpen THEN Append(wlFiles[0], e) ELSE wlFiles[0]
  OBVIOUS
<1>11. f \in WlFile /\ (wlOpen => f \in Seq(WlEntry) /\ f # NoLog) /\ (wlFiles[0] # NoLog => f # NoLog)
  <2>1. CASE wlOpen
    <3>1. f \in Seq(WlEntry)
      BY <1>9, <1>10, <2>1, AppendProperties
    <3> QED BY <2>1, <3>1, NoLogHasNoEntry DEF WlFile
  <2>2. CASE ~wlOpen
    BY <1>8, <1>10, <2>2
  <2> QED BY <2>1, <2>2
<1>12. wlFiles' \in [0..3 -> WlFile] /\ wlFiles'[0] = f /\ \A n : n # 0 => wlFiles'[n] = wlFiles[n]
  BY <1>3, <1>8, <1>10, <1>11
<1>13. WlTypes'
  <2>1. wlWritten' \in Seq(WlEntry)
    BY <1>3, <1>8, AppendProperties
  <2> QED BY <1>3, <1>7, <1>12, <2>1 DEF WlInv, WlTypes
<1>14. t # "rotator" /\ (t \in WlCallers => ~wlConfig.threaded) /\ (t \notin WlCallers => t = "printer" /\ wlConfig.threaded)
  BY <1>1 DEF WhoWorks, WlThreads
<1>15. WhoWorks'
  <2>1. "rotator" \in WlThreads /\ "printer" \in WlThreads /\ WlCallers \subseteq WlThreads /\ "printer" \notin WlCallers
    BY WlAssumption DEF WlThreads
  <2>2. wlThread'["rotator"].at \notin {"print", "check"}
    BY <1>1, <1>7, <1>14, <2>1 DEF WhoWorks
  <2>3. \A u \in WlThreads : u # t => wlThread'[u] = wlThread[u]
    BY <1>7
  <2>4. \A u \in WlCallers : wlThread'[u].at # "idle" => ~wlConfig.threaded
    BY <1>1, <1>14, <2>1, <2>3 DEF WhoWorks
  <2>5. \A u \in {"printer", "rotator"} : wlThread'[u].at # "idle" => wlConfig.threaded
    BY <1>1, <1>14, <2>1, <2>3 DEF WhoWorks
  <2>6. \A u \in WlThreads : wlThread'[u].at = "print" => wlThread'[u].entry \in WlEntry
    BY <1>1, <1>5, <1>7 DEF WhoWorks
  <2> QED BY <1>1, <1>3, <1>8, <2>2, <2>4, <2>5, <2>6 DEF WhoWorks
<1>16. \A u \in WlThreads : wlThread[u].at \notin Rotating /\ wlThread'[u].at \notin Rotating
  BY <1>1, <1>5, <1>7 DEF WlLocked, Rotating
<1>17. ~WlLocked' /\ OneRotates'
  BY <1>16 DEF WlLocked, OneRotates, Rotating
<1>18. FileIsThere'
  BY <1>1, <1>3, <1>11, <1>12, <1>17 DEF WlInv, FileIsThere
<1>19. EndIsKept'
  <2>1. CASE wlOpen
    <3>1. PICK a : a = WlContents(wlFiles[3]) \o WlContents(wlFiles[2]) \o WlContents(wlFiles[1])
      OBVIOUS
    <3>2. 1 \in 0..3 /\ 2 \in 0..3 /\ 3 \in 0..3
      OBVIOUS
    <3>3. WlContents(wlFiles[3]) \in Seq(WlEntry) /\ WlContents(wlFiles[2]) \in Seq(WlEntry) /\ WlContents(wlFiles[1]) \in Seq(WlEntry)
      BY <1>8, <3>2, ContentsAreEntries
    <3>4. a \in Seq(WlEntry)
      BY <3>1, <3>3, ConcatProperties
    <3>5. PICK g \in Seq(WlEntry) : g = wlFiles[0] /\ g # NoLog
      BY <1>9, <2>1
    <3>6. Kept = a \o g
      BY <3>1, <3>5 DEF Kept, WlContents
    <3>7. Kept' = a \o f
      <4>1. wlFiles'[0] = f /\ wlFiles'[1] = wlFiles[1] /\ wlFiles'[2] = wlFiles[2] /\ wlFiles'[3] = wlFiles[3]
        BY <1>12
      <4>2. WlContents(f) = f
        BY <1>11, <2>1 DEF WlContents
      <4> QED BY <3>1, <4>1, <4>2 DEF Kept
    <3>8. PICK p \in Seq(WlEntry) : wlWritten = p \o (a \o g)
      BY <3>6 DEF WlInv, EndIsKept
    <3>9. <<e>> \in Seq(WlEntry) /\ f = g \o <<e>> /\ wlWritten' = wlWritten \o <<e>>
      BY <1>3, <1>8, <1>10, <2>1, <3>5, AppendIsConcat
    <3>10. a \o g \in Seq(WlEntry)
      BY <3>4, ConcatProperties
    <3>11. (p \o (a \o g)) \o <<e>> = p \o ((a \o g) \o <<e>>)
      <4>1. PICK c, d : c = a \o g /\ d = <<e>>
        OBVIOUS
      <4>2. c \in Seq(WlEntry) /\ d \in Seq(WlEntry)
        BY <3>9, <3>10, <4>1
      <4>3. (p \o c) \o d = p \o (c \o d)
        BY <4>2, ConcatAssociative
      <4> QED BY <4>1, <4>3
    <3>12. (a \o g) \o <<e>> = a \o (g \o <<e>>)
      BY <3>4, <3>9, ConcatAssociative
    <3>13. wlWritten' = p \o Kept'
      BY <3>7, <3>8, <3>9, <3>11, <3>12
    <3> QED BY <3>13 DEF EndIsKept
  <2>2. CASE ~wlOpen
    <3>1. wlWritten' = wlWritten /\ wlFiles'[0] = wlFiles[0] /\ wlFiles'[1] = wlFiles[1] /\ wlFiles'[2] = wlFiles[2] /\ wlFiles'[3] = wlFiles[3]
      BY <1>3, <1>10, <1>12, <2>2
    <3>2. Kept' = Kept
      BY <3>1 DEF Kept
    <3> QED BY <3>1, <3>2 DEF WlInv, EndIsKept
  <2> QED BY <2>1, <2>2
<1>20. NoneBeyond'
  BY <1>3, <1>12 DEF WlInv, NoneBeyond
<1>21. PlaceIsFree' /\ BackupsShift'
  <2>1. \A u \in WlThreads : wlThread[u].at # "rename" /\ wlThread'[u].at # "rename"
    BY <1>16 DEF Rotating
  <2>2. AllInPlace' = AllInPlace
    <3>1. \A n \in 1..WlLast : n # 0
      OBVIOUS
    <3>2. WlLast' = WlLast
      BY <1>3 DEF WlLast
    <3> QED BY <1>3, <1>12, <3>1, <3>2 DEF AllInPlace, LastButOne
  <2> QED BY <1>3, <2>1, <2>2 DEF WlInv, PlaceIsFree, BackupsShift
<1>22. AcceptedIsWritten'
  <2> SUFFICES ASSUME wlConfig.threaded
               PROVE  wlAccepted' = wlWritten' \o (IF WlAt("printer", "print")' THEN <<wlThread'["printer"].entry>> ELSE <<>>) \o wlQueue'
    BY <1>3 DEF AcceptedIsWritten
  <2>1. t = "printer" /\ wlOpen
    BY <1>1, <1>14 DEF WlInv, FileIsThere
  <2>2. wlAccepted = (wlWritten \o <<e>>) \o wlQueue
    BY <1>1, <1>2, <2>1 DEF WlInv, AcceptedIsWritten, WlAt
  <2>3. ~WlAt("printer", "print")'
    BY <1>5, <1>7, <2>1 DEF WlAt
  <2>4. wlWritten' = wlWritten \o <<e>> /\ wlWritten' \in Seq(WlEntry)
    BY <1>3, <1>8, <2>1, AppendIsConcat, AppendProperties
  <2>5. wlWritten' \o <<>> = wlWritten'
    BY <2>4, ConcatEmptySeq
  <2> QED BY <1>3, <2>2, <2>3, <2>4, <2>5
<1>23. TooLargeIsRotated'
  BY <1>5, <1>7 DEF TooLargeIsRotated
<1> QED BY <1>13, <1>15, <1>17, <1>18, <1>19, <1>20, <1>21, <1>22, <1>23 DEF WlInv

LEMMA RotateLockStep ==
  ASSUME WlInv, NEW t \in WlThreads, RotateLock(t)
  PROVE  WlInv'
<1>1. wlThread[t].at = "rotate" /\ ~WlLocked /\ wlRunning /\ wlThread \in [WlThreads -> WlState] /\ WhoWorks /\ wlConfig # <<>>
  BY DEF WlInv, WlTypes, RotateLock, WlAt, WhoWorks
<1>2. wlOpen' = FALSE /\ UNCHANGED <<wlConfig, wlRunning, wlSize, wlFiles, wlQueue, wlEntries, wlWritten, wlSegments,
                 wlAccepted, wlFaults>>
  BY DEF RotateLock
<1>3. PICK b \in 0..3 : b = wlConfig.backups
  BY <1>1, WlAssumption DEF WlInv, WlTypes
<1>4. PICK r : r = [wlThread[t] EXCEPT !.at = "rename", !.next = b]
  OBVIOUS
<1>5. r \in WlState /\ r.at = "rename" /\ r.next = b
  BY <1>1, <1>4 DEF WlState, WlPlaces
<1>6. wlThread' = [wlThread EXCEPT ![t] = r]
  <2>1. wlThread' = [wlThread EXCEPT ![t].at = "rename", ![t].next = b]
    BY <1>3 DEF RotateLock
  <2>2. DOMAIN wlThread = WlThreads /\ wlThread[t] \in WlState
    BY <1>1
  <2> QED BY <1>4, <2>1, <2>2 DEF WlState
<1>7. wlThread' \in [WlThreads -> WlState] /\ wlThread'[t] = r /\ \A u \in WlThreads : u # t => wlThread'[u] = wlThread[u]
  BY <1>1, <1>5, <1>6
<1>8. WlTypes'
  BY <1>2, <1>7 DEF WlInv, WlTypes
<1>9. \A u \in WlThreads : wlThread[u].at \notin Rotating /\ (wlThread'[u].at \in Rotating <=> u = t)
  BY <1>1, <1>5, <1>7 DEF WlLocked, Rotating
<1>10. WhoWorks'
  <2>1. "rotator" \in WlThreads /\ "printer" \in WlThreads /\ WlCallers \subseteq WlThreads
    BY DEF WlThreads
  <2>2. \A u \in WlThreads : /\ wlThread'[u].at = "idle" <=> wlThread[u].at = "idle"
                             /\ wlThread'[u].at \in {"print", "check"} => wlThread'[u] = wlThread[u]
    BY <1>1, <1>5, <1>7
  <2>3. wlThread'["rotator"].at \notin {"print", "check"}
    BY <1>1, <2>1, <2>2 DEF WhoWorks
  <2>4. \A u \in WlThreads : wlThread'[u].at = "print" => wlThread'[u].entry \in WlEntry
    BY <1>1, <2>2 DEF WhoWorks
  <2> QED BY <1>1, <1>2, <2>1, <2>2, <2>3, <2>4 DEF WhoWorks
<1>11. WlLocked' /\ OneRotates'
  BY <1>2, <1>9 DEF WlLocked, OneRotates, Rotating
<1>12. FileIsThere'
  BY <1>1, <1>2, <1>11 DEF WlInv, FileIsThere
<1>13. EndIsKept' /\ NoneBeyond'
  BY <1>2 DEF WlInv, EndIsKept, NoneBeyond, Kept
<1>14. \A u \in WlThreads : wlThread[u].at # "rename" /\ (wlThread'[u].at = "rename" => u = t)
  BY <1>9 DEF Rotating
<1>15. PlaceIsFree'
  BY <1>2, <1>3, <1>5, <1>7, <1>14 DEF PlaceIsFree
<1>16. BackupsShift'
  <2> SUFFICES ASSUME wlFaults = 0 PROVE BackupsShift'
    BY <1>2 DEF BackupsShift
  <2>1. AllInPlace
    BY <1>1, <1>14 DEF WlInv, BackupsShift
  <2>2. WlLast' = WlLast
    BY <1>2 DEF WlLast
  <2>3. \A i \in 1..WlLast : wlFiles'[i] = LastButOne(i)'
    BY <1>2, <2>1 DEF AllInPlace, LastButOne
  <2>4. wlConfig'.backups = b
    BY <1>2, <1>3
  <2>5. Shifted(b)'
    BY <2>2, <2>3, <2>4 DEF Shifted
  <2>6. \A u \in WlThreads : wlThread'[u].at = "rename" => wlThread'[u].next = b
    BY <1>5, <1>7, <1>14
  <2> QED BY <1>5, <1>7, <2>5, <2>6 DEF BackupsShift
<1>17. AcceptedIsWritten'
  <2>1. "printer" \in WlThreads
    BY DEF WlThreads
  <2>2. WlAt("printer", "print")' = WlAt("printer", "print") /\ (WlAt("printer", "print") => wlThread'["printer"] = wlThread["printer"])
    BY <1>1, <1>5, <1>7, <2>1 DEF WlAt
  <2> QED BY <1>2, <2>2 DEF WlInv, AcceptedIsWritten
<1>18. TooLargeIsRotated'
  BY <1>2 DEF TooLargeIsRotated, SizeAsksForRotation
<1> QED BY <1>8, <1>10, <1>11, <1>12, <1>13, <1>15, <1>16, <1>17, <1>18 DEF WlInv

(* A failing rotation and a kill. *)
LEMMA WlFaultStep ==
  ASSUME WlInv, WlKilled \/ \E t \in WlThreads : RotateThrows(t)
  PROVE  WlInv'
<1>1. wlThread \in [WlThreads -> WlState] /\ wlFaults' = wlFaults + 1 /\ wlFaults \in Nat /\ wlSize \in Nat /\ wlRunning \in BOOLEAN
      /\ wlQueue \in Seq(WlEntry) /\ <<>> \in Seq(WlEntry) /\ WhoWorks
  BY DEF WlInv, WlTypes, WlKilled, RotateThrows
<1>2. UNCHANGED <<wlConfig, wlFiles, wlEntries, wlWritten, wlSegments, wlAccepted>>
  BY DEF WlKilled, RotateThrows
<1>3. wlFaults' # 0 /\ wlFaults' \in Nat
  BY <1>1
<1>4. /\ wlThread' \in [WlThreads -> WlState] /\ wlRunning' \in BOOLEAN /\ wlOpen' = FALSE /\ wlSize' \in Nat
      /\ \A u \in WlThreads : wlThread'[u].at = "idle" \/ wlThread'[u] = wlThread[u]
      /\ wlQueue' \in {wlQueue, <<>>}
      /\ ~wlRunning' => wlQueue' = <<>> /\ \A u \in WlThreads : wlThread'[u].at = "idle"
      /\ wlRunning' => wlRunning /\ ~wlConfig.threaded
  <2>1. CASE WlKilled
    <3>1. wlThread' = [u \in WlThreads |-> WlIdle] /\ ~wlRunning' /\ wlRunning' \in BOOLEAN /\ wlOpen' = FALSE /\ wlQueue' = <<>> /\ wlSize' = wlSize
      BY <2>1 DEF WlKilled
    <3> QED BY <1>1, <3>1, ThreadRecords
  <2>2. ASSUME NEW t \in WlThreads, RotateThrows(t)
        PROVE  <1>4!:
    <3>1. wlThread[t].at \in Rotating /\ wlRunning /\ wlOpen = FALSE /\ wlOpen' = wlOpen
      BY <1>1, <2>2 DEF RotateThrows, Rotating, WhoWorks, WlInv, OneRotates, WlLocked, WlTypes
    <3>2. wlSize' \in Nat
      BY <1>1, <2>2 DEF RotateThrows
    <3>3. CASE t \in WlCallers
      <4>1. wlThread' = [wlThread EXCEPT ![t] = WlIdle] /\ wlRunning' = TRUE /\ wlQueue' = wlQueue
        BY <2>2, <3>3 DEF RotateThrows
      <4>2. ~wlConfig.threaded
        BY <1>1, <3>1, <3>3 DEF WhoWorks, Rotating
      <4> QED BY <1>1, <3>1, <3>2, <4>1, <4>2, ThreadRecords
    <3>4. CASE t \notin WlCallers
      <4>1. wlThread' = [u \in WlThreads |-> WlIdle] /\ wlQueue' = <<>>
        BY <2>2, <3>4 DEF RotateThrows
      <4>2. ~wlRunning' /\ wlRunning' \in BOOLEAN
        <5>1. wlRunning' = (t \in WlCallers)
          BY <2>2 DEF RotateThrows
        <5>2. (t \in WlCallers) = FALSE
          BY <3>4
        <5>3. wlRunning' = FALSE
          BY <5>1, <5>2, Zenon
        <5> QED BY <5>3
      <4> QED BY <1>1, <3>1, <3>2, <4>1, <4>2, ThreadRecords
    <3> QED BY <3>3, <3>4
  <2> QED BY <2>1, <2>2
<1>5. WlTypes'
  BY <1>1, <1>2, <1>3, <1>4 DEF WlInv, WlTypes
<1>6. WhoWorks'
  <2>1. "rotator" \in WlThreads /\ "printer" \in WlThreads /\ WlCallers \subseteq WlThreads
    BY DEF WlThreads
  <2>2. \A u \in WlThreads : wlThread'[u].at # "idle" => wlThread'[u] = wlThread[u]
    BY <1>4
  <2>3. wlThread'["rotator"].at \notin {"print", "check"}
    BY <1>1, <1>4, <2>1 DEF WhoWorks
  <2>4. wlConfig = <<>> => ~wlRunning'
    BY <1>1, <1>4 DEF WhoWorks
  <2> QED BY <1>1, <1>2, <1>4, <2>1, <2>2, <2>3, <2>4 DEF WhoWorks
<1>7. OneRotates'
  BY <1>4 DEF WlInv, OneRotates, Rotating
<1>8. FileIsThere' /\ AcceptedIsWritten'
  BY <1>2, <1>3, <1>4 DEF FileIsThere, AcceptedIsWritten
<1>9. TooLargeIsRotated'
  BY <1>4 DEF TooLargeIsRotated, SizeAsksForRotation
<1>10. EndIsKept' /\ NoneBeyond' /\ PlaceIsFree' /\ BackupsShift'
  BY <1>2, <1>3, <1>4, SameFiles
<1> QED BY <1>5, <1>6, <1>7, <1>8, <1>9, <1>10 DEF WlInv


(* The backups of a number of rotated files. *)
LEMMA BackupsOf ==
  ASSUME wlSegments \in Seq(Seq(WlEntry)), NEW i \in Nat \ {0}
  PROVE  LastButOne(i) = NoLog => LastButOne(i + 1) = NoLog
<1>1. PICK k \in Nat : k = Len(wlSegments)
  BY LenProperties
<1>2. CASE i > k
  <2>1. i + 1 > k
    BY <1>1, <1>2
  <2> QED BY <1>1, <2>1 DEF LastButOne
<1>3. CASE ~(i > k)
  <2>1. k - i + 1 \in 1..k
    BY <1>1, <1>3
  <2>2. PICK j \in 1..k : j = k - i + 1
    BY <2>1
  <2>3. wlSegments[j] \in Seq(WlEntry)
    BY <1>1, ElementOfSeq
  <2>4. LastButOne(i) = wlSegments[j]
    BY <1>1, <1>3, <2>2 DEF LastButOne
  <2> QED BY <2>3, <2>4, NoLogHasNoEntry
<1> QED BY <1>2, <1>3

LEMMA BackupsAfter ==
  ASSUME wlSegments \in Seq(Seq(WlEntry)), NEW f \in Seq(WlEntry), wlSegments' = Append(wlSegments, f)
  PROVE  LastButOne(1)' = f /\ \A i \in Nat \ {0} : LastButOne(i + 1)' = LastButOne(i)
<1>1. PICK k \in Nat : k = Len(wlSegments)
  BY LenProperties
<1>2. Len(wlSegments') = k + 1 /\ wlSegments'[k + 1] = f /\ \A i \in 1..k : wlSegments'[i] = wlSegments[i]
  BY <1>1, AppendProperties
<1>3. LastButOne(1)' = f
  <2>1. ~(1 > k + 1) /\ ((k + 1) - 1) + 1 = k + 1
    BY <1>1
  <2> QED BY <1>2, <2>1 DEF LastButOne
<1>4. ASSUME NEW i \in Nat \ {0} PROVE LastButOne(i + 1)' = LastButOne(i)
  <2>1. CASE i > k
    <3>1. i + 1 > k + 1
      BY <1>1, <2>1
    <3> QED BY <1>1, <1>2, <2>1, <3>1 DEF LastButOne
  <2>2. CASE ~(i > k)
    <3>1. ~(i + 1 > k + 1) /\ ((k + 1) - (i + 1)) + 1 = (k - i) + 1 /\ (k - i) + 1 \in 1..k
      BY <1>1, <2>2
    <3> QED BY <1>1, <1>2, <2>2, <3>1 DEF LastButOne
  <2> QED BY <2>1, <2>2
<1> QED BY <1>3, <1>4

(* What the renames of a rotation do to the files, by the number that is next. *)
LEMMA RenameFiles ==
  ASSUME WlInv, NEW t \in WlThreads, RotateRename(t), NEW n, n = wlThread[t].next
  PROVE  /\ n \in 0..3 /\ n <= wlConfig.backups
         /\ UNCHANGED <<wlFiles, wlSegments>> \/ n # 1
         /\ \/ UNCHANGED <<wlFiles, wlSegments>> /\ (n # 1 => wlFiles[Renamed(n)] = NoLog)
            \/ /\ n = 0 /\ wlFiles[0] # NoLog /\ wlFiles' = [wlFiles EXCEPT ![1] = wlFiles[0], ![0] = NoLog]
               /\ wlSegments' = Append(wlSegments, wlFiles[0])
            \/ /\ n = 2 /\ wlFiles[1] # NoLog /\ wlFiles' = [wlFiles EXCEPT ![2] = wlFiles[1], ![1] = NoLog]
               /\ wlSegments' = wlSegments
            \/ /\ n = 3 /\ wlFiles[2] # NoLog /\ wlFiles' = [wlFiles EXCEPT ![3] = wlFiles[2], ![2] = NoLog]
               /\ wlSegments' = wlSegments
<1>1. n \in 0..3
  BY DEF WlInv, WlTypes, WlState
<1>2. n <= wlConfig.backups
  BY DEF WlInv, PlaceIsFree, RotateRename, WlAt
<1>3. CASE n = 0
  <2>1. Renamed(n) = 0 /\ 0 + 1 = 1 /\ ~(n > 0)
    BY <1>3 DEF Renamed
  <2>2. wlFiles' = IF wlFiles[0] # NoLog THEN [wlFiles EXCEPT ![1] = wlFiles[0], ![0] = NoLog] ELSE wlFiles
    BY <1>3, <2>1 DEF RotateRename
  <2>3. wlSegments' = IF wlFiles[0] # NoLog THEN Append(wlSegments, wlFiles[0]) ELSE wlSegments
    BY <1>3, <2>1 DEF RotateRename
  <2>4. n # 1
    BY <1>3
  <2>5. CASE wlFiles[0] # NoLog
    BY <1>1, <1>2, <1>3, <2>2, <2>3, <2>4, <2>5
  <2>6. CASE wlFiles[0] = NoLog
    BY <1>1, <1>2, <2>1, <2>2, <2>3, <2>4, <2>6
  <2> QED BY <2>5, <2>6
<1>4. CASE n = 1
  <2>1. Renamed(n) = 0 /\ n > 0
    BY <1>4 DEF Renamed
  <2> QED BY <1>1, <1>2, <1>4, <2>1 DEF RotateRename
<1>5. CASE n = 2
  <2>1. Renamed(n) = 1 /\ 1 + 1 = 2 /\ 1 # 0
    BY <1>5 DEF Renamed
  <2>2. wlFiles' = IF wlFiles[1] # NoLog THEN [wlFiles EXCEPT ![2] = wlFiles[1], ![1] = NoLog] ELSE wlFiles
    BY <1>5, <2>1 DEF RotateRename
  <2>3. wlSegments' = wlSegments
    BY <1>5, <2>1 DEF RotateRename
  <2>4. n # 1
    BY <1>5
  <2>5. CASE wlFiles[1] # NoLog
    BY <1>1, <1>2, <1>5, <2>2, <2>3, <2>4, <2>5
  <2>6. CASE wlFiles[1] = NoLog
    BY <1>1, <1>2, <2>1, <2>2, <2>3, <2>4, <2>6
  <2> QED BY <2>5, <2>6
<1>6. CASE n = 3
  <2>1. Renamed(n) = 2 /\ 2 + 1 = 3 /\ 2 # 0
    BY <1>6 DEF Renamed
  <2>2. wlFiles' = IF wlFiles[2] # NoLog THEN [wlFiles EXCEPT ![3] = wlFiles[2], ![2] = NoLog] ELSE wlFiles
    BY <1>6, <2>1 DEF RotateRename
  <2>3. wlSegments' = wlSegments
    BY <1>6, <2>1 DEF RotateRename
  <2>4. n # 1
    BY <1>6
  <2>5. CASE wlFiles[2] # NoLog
    BY <1>1, <1>2, <1>6, <2>2, <2>3, <2>4, <2>5
  <2>6. CASE wlFiles[2] = NoLog
    BY <1>1, <1>2, <2>1, <2>2, <2>3, <2>4, <2>6
  <2> QED BY <2>5, <2>6
<1> QED BY <1>1, <1>3, <1>4, <1>5, <1>6


(* The renames keep the end of what was written. *)
LEMMA RenameKeepsEnd ==
  ASSUME WlInv, NEW t \in WlThreads, RotateRename(t)
  PROVE  EndIsKept'
<1>1. PICK n : n = wlThread[t].next
  OBVIOUS
<1>2. wlThread[t].at = "rename" /\ wlConfig # <<>> /\ wlWritten' = wlWritten /\ wlConfig' = wlConfig
  BY DEF RotateRename, WlAt, WlInv, WhoWorks
<1>3. PICK b \in 0..3 : b = wlConfig.backups
  BY <1>2, WlAssumption DEF WlInv, WlTypes
<1>4. wlFiles \in [0..3 -> WlFile] /\ 0 \in 0..3 /\ 1 \in 0..3 /\ 2 \in 0..3 /\ 3 \in 0..3
  BY DEF WlInv, WlTypes
<1>5. PICK c0 : c0 \in Seq(WlEntry) /\ c0 = WlContents(wlFiles[0])
  BY <1>4, ContentsAreEntries
<1>6. PICK c1 : c1 \in Seq(WlEntry) /\ c1 = WlContents(wlFiles[1])
  BY <1>4, ContentsAreEntries
<1>7. PICK c2 : c2 \in Seq(WlEntry) /\ c2 = WlContents(wlFiles[2])
  BY <1>4, ContentsAreEntries
<1>8. PICK c3 : c3 \in Seq(WlEntry) /\ c3 = WlContents(wlFiles[3])
  BY <1>4, ContentsAreEntries
<1>9. PICK p : p \in Seq(WlEntry) /\ wlWritten = p \o (((c3 \o c2) \o c1) \o c0)
  BY <1>5, <1>6, <1>7, <1>8 DEF WlInv, EndIsKept, Kept
<1>10. WlContents(NoLog) = <<>> /\ <<>> \in Seq(WlEntry)
  BY DEF WlContents
<1>11. \A s \in Seq(WlEntry) : s \o <<>> = s /\ <<>> \o s = s
  BY ConcatEmptySeq
<1>12. \A s, u \in Seq(WlEntry) : s \o u \in Seq(WlEntry)
  BY ConcatProperties
<1>13. ASSUME NEW x \in Seq(WlEntry), NEW y \in Seq(WlEntry), NEW z \in Seq(WlEntry)
       PROVE  (x \o y) \o z = x \o (y \o z)
  BY ConcatAssociative
<1>14. n \in 0..3 /\ n <= b /\ (b >= 2 /\ n < b => wlFiles[Filled(n)] = NoLog)
  <2>1. n \in 0..3 /\ n <= b
    BY <1>1, <1>3, RenameFiles
  <2>2. b >= 2 /\ n < b => wlFiles[Filled(n)] = NoLog
    BY <1>1, <1>2, <1>3 DEF WlInv, PlaceIsFree
  <2> QED BY <2>1, <2>2
<1>15. CASE UNCHANGED <<wlFiles, wlSegments>>
  BY <1>2, <1>15 DEF WlInv, EndIsKept, Kept, WlContents
<1>16. CASE n = 0 /\ wlFiles' = [wlFiles EXCEPT ![1] = wlFiles[0], ![0] = NoLog]
  <2>1. wlFiles'[0] = NoLog /\ wlFiles'[1] = wlFiles[0] /\ wlFiles'[2] = wlFiles[2] /\ wlFiles'[3] = wlFiles[3]
    BY <1>4, <1>16
  <2>2. Kept' = ((c3 \o c2) \o c0) \o <<>>
    BY <1>5, <1>7, <1>8, <1>10, <2>1 DEF Kept
  <2>3. Kept' = (c3 \o c2) \o c0
    BY <1>5, <1>7, <1>8, <1>11, <1>12, <2>2
  <2>4. CASE b >= 2
    <3>1. c1 = <<>>
      <4>1. Filled(n) = 1 /\ n < b
        BY <1>3, <1>16, <2>4 DEF Filled
      <4> QED BY <1>6, <1>10, <1>14, <2>4, <4>1
    <3>2. ((c3 \o c2) \o c1) \o c0 = (c3 \o c2) \o c0
      BY <1>7, <1>8, <1>11, <1>12, <3>1
    <3> QED BY <1>2, <1>9, <2>3, <3>2 DEF EndIsKept
  <2>5. CASE b < 2
    <3>1. c2 = <<>> /\ c3 = <<>>
      BY <1>2, <1>3, <1>7, <1>8, <1>10, <2>5 DEF WlInv, NoneBeyond
    <3>2. Kept' = c0 /\ ((c3 \o c2) \o c1) \o c0 = c1 \o c0
      BY <1>5, <1>6, <1>10, <1>11, <2>3, <3>1
    <3>3. (p \o c1) \o c0 = p \o (c1 \o c0) /\ p \o c1 \in Seq(WlEntry)
      BY <1>5, <1>6, <1>9, <1>12, <1>13
    <3>4. wlWritten' = (p \o c1) \o Kept'
      BY <1>2, <1>9, <3>2, <3>3
    <3> QED BY <3>3, <3>4 DEF EndIsKept
  <2> QED BY <1>3, <2>4, <2>5
<1>17. CASE n = 2 /\ wlFiles' = [wlFiles EXCEPT ![2] = wlFiles[1], ![1] = NoLog]
  <2>1. wlFiles'[0] = wlFiles[0] /\ wlFiles'[1] = NoLog /\ wlFiles'[2] = wlFiles[1] /\ wlFiles'[3] = wlFiles[3]
    BY <1>4, <1>17
  <2>2. Kept' = ((c3 \o c1) \o <<>>) \o c0
    BY <1>5, <1>6, <1>8, <1>10, <2>1 DEF Kept
  <2>3. Kept' = (c3 \o c1) \o c0
    BY <1>6, <1>8, <1>11, <1>12, <2>2
  <2>4. CASE b = 3
    <3>1. c2 = <<>>
      <4>1. Filled(n) = 2 /\ n < b /\ b >= 2
        BY <1>17, <2>4 DEF Filled
      <4> QED BY <1>7, <1>10, <1>14, <4>1
    <3>2. ((c3 \o c2) \o c1) \o c0 = (c3 \o c1) \o c0
      BY <1>8, <1>11, <3>1
    <3> QED BY <1>2, <1>9, <2>3, <3>2 DEF EndIsKept
  <2>5. CASE b = 2
    <3>1. c3 = <<>>
      BY <1>2, <1>3, <1>8, <1>10, <2>5 DEF WlInv, NoneBeyond
    <3>2. Kept' = c1 \o c0 /\ ((c3 \o c2) \o c1) \o c0 = (c2 \o c1) \o c0
      BY <1>6, <1>7, <1>11, <2>3, <3>1
    <3>3. (c2 \o c1) \o c0 = c2 \o (c1 \o c0)
      BY <1>5, <1>6, <1>7, <1>13
    <3>4. PICK k : k \in Seq(WlEntry) /\ k = c1 \o c0
      BY <1>5, <1>6, <1>12
    <3>5. (p \o c2) \o k = p \o (c2 \o k) /\ p \o c2 \in Seq(WlEntry)
      <4>1. p \in Seq(WlEntry) /\ c2 \in Seq(WlEntry) /\ k \in Seq(WlEntry)
        BY <1>7, <1>9, <3>4
      <4>2. p \o c2 \in Seq(WlEntry)
        BY <1>12, <4>1
      <4>3. (p \o c2) \o k = p \o (c2 \o k)
        BY <1>13, <4>1
      <4> QED BY <4>2, <4>3
    <3>6. wlWritten' = (p \o c2) \o Kept'
      BY <1>2, <1>9, <3>2, <3>3, <3>4, <3>5
    <3> QED BY <3>5, <3>6 DEF EndIsKept
  <2>6. b = 2 \/ b = 3
    BY <1>3, <1>14, <1>17
  <2> QED BY <2>4, <2>5, <2>6
<1>18. CASE n = 3 /\ wlFiles' = [wlFiles EXCEPT ![3] = wlFiles[2], ![2] = NoLog]
  <2>1. wlFiles'[0] = wlFiles[0] /\ wlFiles'[1] = wlFiles[1] /\ wlFiles'[2] = NoLog /\ wlFiles'[3] = wlFiles[2]
    BY <1>4, <1>18
  <2>2. Kept' = ((c2 \o <<>>) \o c1) \o c0
    BY <1>5, <1>6, <1>7, <1>10, <2>1 DEF Kept
  <2>3. Kept' = (c2 \o c1) \o c0
    BY <1>7, <1>11, <2>2
  <2>4. (c3 \o c2) \o c1 = c3 \o (c2 \o c1)
    BY <1>6, <1>7, <1>8, <1>13
  <2>5. PICK k : k \in Seq(WlEntry) /\ k = c2 \o c1
    BY <1>6, <1>7, <1>12
  <2>6. (c3 \o k) \o c0 = c3 \o (k \o c0)
    BY <1>5, <1>8, <1>13, <2>5
  <2>7. PICK l : l \in Seq(WlEntry) /\ l = k \o c0
    BY <1>5, <1>12, <2>5
  <2>8. (p \o c3) \o l = p \o (c3 \o l) /\ p \o c3 \in Seq(WlEntry)
    <3>1. p \in Seq(WlEntry) /\ c3 \in Seq(WlEntry) /\ l \in Seq(WlEntry)
      BY <1>8, <1>9, <2>7
    <3>2. p \o c3 \in Seq(WlEntry)
      BY <1>12, <3>1
    <3>3. (p \o c3) \o l = p \o (c3 \o l)
      BY <1>13, <3>1
    <3> QED BY <3>2, <3>3
  <2>9. wlWritten' = (p \o c3) \o Kept'
    BY <1>2, <1>9, <2>3, <2>4, <2>5, <2>6, <2>7, <2>8
  <2> QED BY <2>8, <2>9 DEF EndIsKept
<1> QED BY <1>1, <1>15, <1>16, <1>17, <1>18, RenameFiles

(* They free the place of the next one. *)
LEMMA RenameFreesPlace ==
  ASSUME WlInv, NEW t \in WlThreads, RotateRename(t), NEW n, n = wlThread[t].next
  PROVE  NoneBeyond' /\ (n > 0 /\ wlConfig.backups >= 2 => wlFiles'[Filled(n - 1)] = NoLog)
<1>1. wlThread[t].at = "rename" /\ wlConfig # <<>> /\ wlConfig' = wlConfig
  BY DEF RotateRename, WlAt, WlInv, WhoWorks
<1>2. PICK b \in 0..3 : b = wlConfig.backups
  BY <1>1, WlAssumption DEF WlInv, WlTypes
<1>3. wlFiles \in [0..3 -> WlFile] /\ 0 \in 0..3 /\ 1 \in 0..3 /\ 2 \in 0..3 /\ 3 \in 0..3
  BY DEF WlInv, WlTypes
<1>4. n \in 0..3 /\ n <= b
  BY <1>2, RenameFiles
<1>5. (2 > b => wlFiles[2] = NoLog) /\ (3 > b => wlFiles[3] = NoLog)
  BY <1>1, <1>2 DEF WlInv, NoneBeyond
<1>6. CASE UNCHANGED <<wlFiles, wlSegments>> /\ (n # 1 => wlFiles[Renamed(n)] = NoLog)
  <2>1. NoneBeyond'
    BY <1>1, <1>6 DEF WlInv, NoneBeyond
  <2>2. ASSUME n > 0, b >= 2 PROVE wlFiles'[Filled(n - 1)] = NoLog
    <3>1. CASE n = 1
      <4>1. n < b /\ Filled(n) = 1 /\ Filled(n - 1) = 1
        BY <1>2, <2>2, <3>1 DEF Filled
      <4> QED BY <1>1, <1>2, <1>6, <2>2, <4>1 DEF WlInv, PlaceIsFree
    <3>2. CASE n # 1
      <4>1. Renamed(n) = n - 1 /\ Filled(n - 1) = n - 1
        BY <1>4, <2>2, <3>2 DEF Renamed, Filled
      <4> QED BY <1>6, <3>2, <4>1
    <3> QED BY <3>1, <3>2
  <2> QED BY <1>2, <2>1, <2>2
<1>7. CASE n = 0 /\ wlFiles' = [wlFiles EXCEPT ![1] = wlFiles[0], ![0] = NoLog]
  <2>1. wlFiles'[2] = wlFiles[2] /\ wlFiles'[3] = wlFiles[3]
    BY <1>3, <1>7
  <2> QED BY <1>1, <1>2, <1>5, <1>7, <2>1 DEF NoneBeyond
<1>8. CASE n = 2 /\ wlFiles' = [wlFiles EXCEPT ![2] = wlFiles[1], ![1] = NoLog]
  <2>1. wlFiles'[1] = NoLog /\ wlFiles'[3] = wlFiles[3] /\ b >= 2 /\ Filled(n - 1) = 1
    BY <1>3, <1>4, <1>8 DEF Filled
  <2> QED BY <1>1, <1>2, <1>5, <2>1 DEF NoneBeyond
<1>9. CASE n = 3 /\ wlFiles' = [wlFiles EXCEPT ![3] = wlFiles[2], ![2] = NoLog]
  <2>1. wlFiles'[2] = NoLog /\ b = 3 /\ Filled(n - 1) = 2
    BY <1>3, <1>4, <1>9 DEF Filled
  <2> QED BY <1>1, <1>2, <2>1 DEF NoneBeyond
<1> QED BY <1>6, <1>7, <1>8, <1>9, RenameFiles


(* Without a fault, they move every backup by one. *)
LEMMA RenameShifts ==
  ASSUME WlInv, NEW t \in WlThreads, RotateRename(t), NEW n, n = wlThread[t].next, wlFaults = 0, wlFiles[0] # NoLog
  PROVE  (n = 0 => AllInPlace') /\ (n > 0 => Shifted(n - 1)')
<1>1. wlThread[t].at = "rename" /\ wlConfig # <<>> /\ wlConfig' = wlConfig
  BY DEF RotateRename, WlAt, WlInv, WhoWorks
<1>2. PICK b \in 0..3 : b = wlConfig.backups /\ wlConfig'.backups = b
  BY <1>1, WlAssumption DEF WlInv, WlTypes
<1>3. wlFiles \in [0..3 -> WlFile] /\ 0 \in 0..3 /\ 1 \in 0..3 /\ 2 \in 0..3 /\ 3 \in 0..3
      /\ wlSegments \in Seq(Seq(WlEntry))
  BY DEF WlInv, WlTypes
<1>4. n \in 0..3 /\ n <= b
  BY <1>2, RenameFiles
<1>moved. \/ UNCHANGED <<wlFiles, wlSegments>> /\ (n # 1 => wlFiles[Renamed(n)] = NoLog)
          \/ /\ n = 0 /\ wlFiles[0] # NoLog /\ wlFiles' = [wlFiles EXCEPT ![1] = wlFiles[0], ![0] = NoLog]
             /\ wlSegments' = Append(wlSegments, wlFiles[0])
          \/ /\ n = 2 /\ wlFiles[1] # NoLog /\ wlFiles' = [wlFiles EXCEPT ![2] = wlFiles[1], ![1] = NoLog]
             /\ wlSegments' = wlSegments
          \/ /\ n = 3 /\ wlFiles[2] # NoLog /\ wlFiles' = [wlFiles EXCEPT ![3] = wlFiles[2], ![2] = NoLog]
             /\ wlSegments' = wlSegments
  BY RenameFiles
<1>5. Shifted(n)
  BY <1>1 DEF WlInv, BackupsShift
<1>6. PICK l : l = [i \in 1..4 |-> LastButOne(i)]
  OBVIOUS
<1>7. l[1] = LastButOne(1) /\ l[2] = LastButOne(2) /\ l[3] = LastButOne(3)
  BY <1>6
<1>8. (l[1] = NoLog => l[2] = NoLog) /\ (l[2] = NoLog => l[3] = NoLog)
  <2>1. 1 \in Nat \ {0} /\ 2 \in Nat \ {0} /\ 1 + 1 = 2 /\ 2 + 1 = 3
    OBVIOUS
  <2>2. (LastButOne(1) = NoLog => LastButOne(1 + 1) = NoLog) /\ (LastButOne(2) = NoLog => LastButOne(2 + 1) = NoLog)
    BY <1>3, <2>1, BackupsOf
  <2> QED BY <1>7, <2>1, <2>2
<1>9. /\ b <= 1 => WlLast = 1 /\ WlLast' = 1 /\ wlFiles[1] = l[1]
      /\ b = 2 => WlLast = 2 /\ WlLast' = 2
      /\ b = 3 => WlLast = 3 /\ WlLast' = 3
  <2>1. WlLast = (IF b = 0 THEN 1 ELSE b) /\ WlLast' = (IF b = 0 THEN 1 ELSE b)
    BY <1>2 DEF WlLast
  <2>2. b <= 1 => WlLast = 1 /\ WlLast' = 1
    BY <1>2, <2>1
  <2>3. b <= 1 => wlFiles[1] = LastButOne(1)
    BY <1>2, <1>5, <2>2 DEF Shifted
  <2> QED BY <1>7, <2>1, <2>2, <2>3
<1>10. b = 2 => IF n = 2 THEN wlFiles[1] = l[1] /\ wlFiles[2] = l[2] ELSE wlFiles[1] = NoLog /\ wlFiles[2] = l[1]
  <2> SUFFICES ASSUME b = 2 PROVE IF n = 2 THEN wlFiles[1] = l[1] /\ wlFiles[2] = l[2] ELSE wlFiles[1] = NoLog /\ wlFiles[2] = l[1]
    OBVIOUS
  <2>1. \A i \in 1..2 : wlFiles[i] = IF n = 2 \/ i < Filled(n) THEN LastButOne(i)
                                     ELSE IF i = Filled(n) THEN NoLog ELSE LastButOne(i - 1)
    BY <1>2, <1>5, <1>9 DEF Shifted
  <2>2. CASE n = 2
    BY <1>7, <2>1, <2>2
  <2>3. CASE n < 2
    <3>1. Filled(n) = 1 /\ n # 2
      BY <1>4, <2>3 DEF Filled
    <3>2. wlFiles[1] = NoLog
      BY <2>1, <3>1
    <3>3. wlFiles[2] = LastButOne(2 - 1) /\ 2 - 1 = 1
      BY <2>1, <3>1
    <3> QED BY <1>7, <3>1, <3>2, <3>3
  <2> QED BY <1>4, <2>2, <2>3
<1>11. b = 3 => /\ n = 3 => wlFiles[1] = l[1] /\ wlFiles[2] = l[2] /\ wlFiles[3] = l[3]
                /\ n = 2 => wlFiles[1] = l[1] /\ wlFiles[2] = NoLog /\ wlFiles[3] = l[2]
                /\ n < 2 => wlFiles[1] = NoLog /\ wlFiles[2] = l[1] /\ wlFiles[3] = l[2]
  <2> SUFFICES ASSUME b = 3 PROVE /\ n = 3 => wlFiles[1] = l[1] /\ wlFiles[2] = l[2] /\ wlFiles[3] = l[3]
                                  /\ n = 2 => wlFiles[1] = l[1] /\ wlFiles[2] = NoLog /\ wlFiles[3] = l[2]
                                  /\ n < 2 => wlFiles[1] = NoLog /\ wlFiles[2] = l[1] /\ wlFiles[3] = l[2]
    OBVIOUS
  <2>1. \A i \in 1..3 : wlFiles[i] = IF n = 3 \/ i < Filled(n) THEN LastButOne(i)
                                     ELSE IF i = Filled(n) THEN NoLog ELSE LastButOne(i - 1)
    BY <1>2, <1>5, <1>9 DEF Shifted
  <2>2. CASE n = 3
    BY <1>7, <2>1, <2>2
  <2>3. CASE n = 2
    <3>1. Filled(n) = 2 /\ 3 - 1 = 2
      BY <2>3 DEF Filled
    <3>2. wlFiles[1] = LastButOne(1) /\ wlFiles[2] = NoLog /\ wlFiles[3] = LastButOne(3 - 1)
      BY <2>1, <2>3, <3>1
    <3> QED BY <1>7, <2>3, <3>1, <3>2
  <2>4. CASE n < 2
    <3>1. Filled(n) = 1 /\ n # 3 /\ n # 2 /\ 2 - 1 = 1 /\ 3 - 1 = 2
      BY <1>4, <2>4 DEF Filled
    <3>2. wlFiles[1] = NoLog /\ wlFiles[2] = LastButOne(2 - 1) /\ wlFiles[3] = LastButOne(3 - 1)
      BY <2>1, <3>1
    <3> QED BY <1>7, <3>1, <3>2
  <2> QED BY <1>4, <2>2, <2>3, <2>4
<1>12. CASE n = 0
  <2>1. wlFiles' = [wlFiles EXCEPT ![1] = wlFiles[0], ![0] = NoLog] /\ wlSegments' = Append(wlSegments, wlFiles[0])
    <3>1. Renamed(n) = 0
      BY <1>12 DEF Renamed
    <3> QED BY <1>12, <1>moved, <3>1
  <2>2. wlFiles[0] \in Seq(WlEntry)
    BY <1>3 DEF WlFile
  <2>3. LastButOne(1)' = wlFiles[0] /\ LastButOne(2)' = l[1] /\ LastButOne(3)' = l[2]
    <3>1. 1 \in Nat \ {0} /\ 2 \in Nat \ {0} /\ 1 + 1 = 2 /\ 2 + 1 = 3
      OBVIOUS
    <3>2. LastButOne(1)' = wlFiles[0] /\ LastButOne(1 + 1)' = LastButOne(1) /\ LastButOne(2 + 1)' = LastButOne(2)
      BY <1>3, <2>1, <2>2, <3>1, BackupsAfter
    <3> QED BY <1>7, <3>1, <3>2
  <2>4. wlFiles'[1] = wlFiles[0] /\ wlFiles'[2] = wlFiles[2] /\ wlFiles'[3] = wlFiles[3]
    BY <1>3, <2>1
  <2>5. (b = 2 => wlFiles[2] = l[1]) /\ (b = 3 => wlFiles[2] = l[1] /\ wlFiles[3] = l[2])
    BY <1>10, <1>11, <1>12
  <2>6. AllInPlace'
    <3>1. CASE b <= 1
      BY <1>9, <2>3, <2>4, <3>1 DEF AllInPlace
    <3>2. CASE b = 2
      BY <1>9, <2>3, <2>4, <2>5, <3>2 DEF AllInPlace
    <3>3. CASE b = 3
      BY <1>9, <2>3, <2>4, <2>5, <3>3 DEF AllInPlace
    <3> QED BY <1>2, <3>1, <3>2, <3>3
  <2> QED BY <1>12, <2>6
<1>13. ASSUME n > 0
       PROVE  wlSegments' = wlSegments
  BY <1>4, <1>13, RenameFiles
<1>14. ASSUME n > 0
       PROVE  LastButOne(1)' = l[1] /\ LastButOne(2)' = l[2] /\ LastButOne(3)' = l[3]
  <2>1. wlSegments' = wlSegments
    BY <1>13, <1>14
  <2> QED BY <1>7, <2>1 DEF LastButOne
<1>15. CASE n = 1
  <2>1. wlFiles' = wlFiles
    BY <1>15, RenameFiles
  <2>2. n - 1 = 0 /\ Filled(0) = 1 /\ 2 - 1 = 1 /\ 3 - 1 = 2 /\ n > 0
    BY <1>15 DEF Filled
  <2>3. CASE b = 1
    BY <1>2, <1>9, <1>14, <2>1, <2>2, <2>3 DEF Shifted
  <2>4. CASE b = 2
    <3>1. wlFiles'[1] = NoLog /\ wlFiles'[2] = l[1]
      BY <1>10, <1>15, <2>1, <2>4
    <3> QED BY <1>2, <1>9, <1>14, <2>2, <2>4, <3>1 DEF Shifted
  <2>5. CASE b = 3
    <3>1. wlFiles'[1] = NoLog /\ wlFiles'[2] = l[1] /\ wlFiles'[3] = l[2]
      BY <1>11, <1>15, <2>1, <2>5
    <3> QED BY <1>2, <1>9, <1>14, <2>2, <2>5, <3>1 DEF Shifted
  <2>6. b = 1 \/ b = 2 \/ b = 3
    BY <1>2, <1>4, <1>15
  <2> QED BY <1>15, <2>2, <2>3, <2>4, <2>5, <2>6
<1>16. CASE n = 2
  <2>1. n - 1 = 1 /\ Filled(1) = 1 /\ 2 - 1 = 1 /\ 3 - 1 = 2 /\ n > 0 /\ Renamed(n) = 1
    BY <1>16 DEF Filled, Renamed
  <2>2. wlFiles[1] = l[1]
    BY <1>2, <1>4, <1>10, <1>11, <1>16
  <2>3. wlFiles'[1] = NoLog /\ (l[1] # NoLog => wlFiles'[2] = l[1]) /\ (l[1] = NoLog => wlFiles'[2] = wlFiles[2]) /\ wlFiles'[3] = wlFiles[3]
    <3>1. CASE wlFiles[1] # NoLog
      <4>1. wlFiles' = [wlFiles EXCEPT ![2] = wlFiles[1], ![1] = NoLog]
        BY <1>16, <1>moved, <2>1, <3>1
      <4> QED BY <1>3, <2>2, <3>1, <4>1
    <3>2. CASE wlFiles[1] = NoLog
      <4>1. wlFiles' = wlFiles
        BY <1>16, <1>moved, <3>2
      <4> QED BY <2>2, <3>2, <4>1
    <3> QED BY <3>1, <3>2
  <2>4. CASE b = 2
    <3>1. wlFiles'[1] = NoLog /\ wlFiles'[2] = l[1]
      BY <1>8, <1>10, <1>16, <2>3, <2>4
    <3> QED BY <1>2, <1>9, <1>14, <2>1, <2>4, <3>1 DEF Shifted
  <2>5. CASE b = 3
    <3>1. wlFiles'[1] = NoLog /\ wlFiles'[2] = l[1] /\ wlFiles'[3] = l[2]
      BY <1>11, <1>16, <2>3, <2>5
    <3> QED BY <1>2, <1>9, <1>14, <2>1, <2>5, <3>1 DEF Shifted
  <2>6. b = 2 \/ b = 3
    BY <1>2, <1>4, <1>16
  <2> QED BY <1>16, <2>1, <2>4, <2>5, <2>6
<1>17. CASE n = 3
  <2>1. n - 1 = 2 /\ Filled(2) = 2 /\ 3 - 1 = 2 /\ n > 0 /\ Renamed(n) = 2 /\ b = 3
    BY <1>2, <1>4, <1>17 DEF Filled, Renamed
  <2>2. wlFiles[1] = l[1] /\ wlFiles[2] = l[2] /\ wlFiles[3] = l[3]
    BY <1>11, <1>17, <2>1
  <2>3. wlFiles'[1] = l[1] /\ wlFiles'[2] = NoLog /\ wlFiles'[3] = l[2]
    <3>1. CASE wlFiles[2] # NoLog
      <4>1. wlFiles' = [wlFiles EXCEPT ![3] = wlFiles[2], ![2] = NoLog]
        BY <1>17, <1>moved, <2>1, <3>1
      <4> QED BY <1>3, <2>2, <4>1
    <3>2. CASE wlFiles[2] = NoLog
      <4>1. wlFiles' = wlFiles
        BY <1>17, <1>moved, <3>2
      <4> QED BY <1>8, <2>2, <3>2, <4>1
    <3> QED BY <3>1, <3>2
  <2> QED BY <1>2, <1>9, <1>14, <1>17, <2>1, <2>3 DEF Shifted
<1> QED BY <1>4, <1>12, <1>15, <1>16, <1>17

LEMMA RotateRenameStep ==
  ASSUME WlInv, NEW t \in WlThreads, RotateRename(t)
  PROVE  WlInv'
<1>1. PICK n : n = wlThread[t].next
  OBVIOUS
<1>2. /\ wlThread[t].at = "rename" /\ WhoWorks /\ wlThread \in [WlThreads -> WlState] /\ wlRunning /\ wlConfig # <<>> /\ ~wlOpen
  BY DEF RotateRename, WlAt, WlInv, WlTypes, WhoWorks, OneRotates, WlLocked, Rotating
<1>3. UNCHANGED <<wlConfig, wlRunning, wlOpen, wlSize, wlQueue, wlEntries, wlWritten, wlAccepted, wlFaults>>
  BY DEF RotateRename
<1>4. n \in 0..3 /\ n <= wlConfig.backups
  BY <1>1, RenameFiles
<1>moved. \/ UNCHANGED <<wlFiles, wlSegments>> /\ (n # 1 => wlFiles[Renamed(n)] = NoLog)
          \/ /\ n = 0 /\ wlFiles[0] # NoLog /\ wlFiles' = [wlFiles EXCEPT ![1] = wlFiles[0], ![0] = NoLog]
             /\ wlSegments' = Append(wlSegments, wlFiles[0])
          \/ /\ n = 2 /\ wlFiles[1] # NoLog /\ wlFiles' = [wlFiles EXCEPT ![2] = wlFiles[1], ![1] = NoLog]
             /\ wlSegments' = wlSegments
          \/ /\ n = 3 /\ wlFiles[2] # NoLog /\ wlFiles' = [wlFiles EXCEPT ![3] = wlFiles[2], ![2] = NoLog]
             /\ wlSegments' = wlSegments
  BY <1>1, RenameFiles
<1>5. PICK m \in 0..3 : m = IF n = 0 THEN 0 ELSE n - 1
  BY <1>4
<1>6. PICK w : w = (IF n = 0 THEN "reopen" ELSE "rename") /\ w \in WlPlaces /\ w \in Rotating
  BY DEF WlPlaces, Rotating
<1>7. PICK r : r = [wlThread[t] EXCEPT !.next = m, !.at = w]
  OBVIOUS
<1>8. r \in WlState /\ r.at = w /\ r.next = m
  BY <1>2, <1>6, <1>7 DEF WlState
<1>9. wlThread' = [wlThread EXCEPT ![t] = r]
  <2>1. wlThread' = [wlThread EXCEPT ![t].next = m, ![t].at = w]
    BY <1>1, <1>5, <1>6 DEF RotateRename
  <2>2. DOMAIN wlThread = WlThreads /\ wlThread[t] \in WlState
    BY <1>2
  <2> QED BY <1>7, <2>1, <2>2 DEF WlState
<1>10. wlThread' \in [WlThreads -> WlState] /\ wlThread'[t] = r /\ \A u \in WlThreads : u # t => wlThread'[u] = wlThread[u]
  BY <1>2, <1>8, <1>9
<1>11. \A u \in WlThreads : u # t => wlThread[u].at \notin Rotating /\ wlThread'[u].at \notin Rotating
  BY <1>2, <1>10 DEF WlInv, OneRotates, Rotating
<1>12. WlTypes'
  <2>1. wlFiles \in [0..3 -> WlFile] /\ wlSegments \in Seq(Seq(WlEntry)) /\ NoLog \in WlFile
    BY DEF WlInv, WlTypes, WlFile
  <2>2. wlFiles' \in [0..3 -> WlFile] /\ wlSegments' \in Seq(Seq(WlEntry))
    <3>1. wlFiles[0] # NoLog => wlFiles[0] \in Seq(WlEntry)
      BY <2>1 DEF WlFile
    <3>2. wlFiles[0] # NoLog => Append(wlSegments, wlFiles[0]) \in Seq(Seq(WlEntry))
      BY <2>1, <3>1, AppendProperties
    <3>3. wlSegments' \in Seq(Seq(WlEntry))
      BY <1>moved, <2>1, <3>2
    <3>4. wlFiles' \in [0..3 -> WlFile]
      <4>1. wlFiles[0] \in WlFile /\ wlFiles[1] \in WlFile /\ wlFiles[2] \in WlFile
        BY <2>1
      <4>2. CASE wlFiles' = wlFiles
        BY <2>1, <4>2
      <4>3. CASE wlFiles' = [wlFiles EXCEPT ![1] = wlFiles[0], ![0] = NoLog]
        BY <2>1, <4>1, <4>3
      <4>4. CASE wlFiles' = [wlFiles EXCEPT ![2] = wlFiles[1], ![1] = NoLog]
        BY <2>1, <4>1, <4>4
      <4>5. CASE wlFiles' = [wlFiles EXCEPT ![3] = wlFiles[2], ![2] = NoLog]
        BY <2>1, <4>1, <4>5
      <4> QED BY <1>moved, <4>2, <4>3, <4>4, <4>5
    <3> QED BY <3>3, <3>4
  <2> QED BY <1>3, <1>10, <2>2 DEF WlInv, WlTypes
<1>13. WhoWorks'
  <2>1. "rotator" \in WlThreads /\ "printer" \in WlThreads /\ WlCallers \subseteq WlThreads
    BY DEF WlThreads
  <2>2. \A u \in WlThreads : /\ wlThread'[u].at = "idle" <=> wlThread[u].at = "idle"
                             /\ wlThread'[u].at \in {"print", "check"} => wlThread'[u] = wlThread[u]
    BY <1>2, <1>6, <1>8, <1>10 DEF Rotating
  <2>3. wlThread'["rotator"].at \notin {"print", "check"}
    BY <1>2, <2>1, <2>2 DEF WhoWorks
  <2>4. \A u \in WlThreads : wlThread'[u].at = "print" => wlThread'[u].entry \in WlEntry
    BY <1>2, <2>2 DEF WhoWorks
  <2> QED BY <1>2, <1>3, <2>1, <2>2, <2>3, <2>4 DEF WhoWorks
<1>14. WlLocked' /\ OneRotates'
  BY <1>2, <1>3, <1>6, <1>8, <1>10, <1>11 DEF WlLocked, OneRotates, Rotating
<1>15. wlFaults = 0 => wlFiles[0] # NoLog
  BY <1>2, <1>11 DEF WlInv, FileIsThere, Rotating
<1>16. FileIsThere'
  <2>1. n > 0 => wlFiles'[0] = wlFiles[0]
    <3>1. wlFiles \in [0..3 -> WlFile] /\ 0 \in 0..3
      BY DEF WlInv, WlTypes
    <3> QED BY <1>1, <3>1, RenameFiles
  <2>2. n = 0 => wlThread'[t].at = "reopen"
    BY <1>6, <1>8, <1>10
  <2> QED BY <1>2, <1>3, <1>4, <1>14, <1>15, <2>1, <2>2 DEF FileIsThere
<1>17. EndIsKept' /\ NoneBeyond'
  BY <1>1, RenameKeepsEnd, RenameFreesPlace
<1>18. \A u \in WlThreads : wlThread'[u].at = "rename" => u = t /\ n > 0 /\ wlThread'[u].next = n - 1
  BY <1>4, <1>5, <1>6, <1>8, <1>10, <1>11 DEF Rotating
<1>19. PlaceIsFree'
  <2> SUFFICES ASSUME n > 0 PROVE n - 1 <= wlConfig.backups /\ (wlConfig.backups >= 2 => wlFiles'[Filled(n - 1)] = NoLog)
    BY <1>3, <1>18 DEF PlaceIsFree, Filled
  <2>1. wlConfig.backups \in 0..3
    BY <1>2, WlAssumption DEF WlInv, WlTypes
  <2> QED BY <1>1, <1>4, <2>1, RenameFreesPlace
<1>20. BackupsShift'
  <2> SUFFICES ASSUME wlFaults = 0 PROVE BackupsShift'
    BY <1>3 DEF BackupsShift
  <2>1. (n = 0 => AllInPlace') /\ (n > 0 => Shifted(n - 1)')
    BY <1>1, <1>15, RenameShifts
  <2>2. n > 0 => wlThread'[t].at = "rename"
    BY <1>4, <1>6, <1>8, <1>10
  <2>3. ASSUME \A u \in WlThreads : wlThread'[u].at # "rename" PROVE AllInPlace'
    BY <1>4, <2>1, <2>2, <2>3
  <2>4. ASSUME NEW u \in WlThreads, wlThread'[u].at = "rename" PROVE Shifted(n - 1)' /\ wlThread'[u].next = n - 1
    BY <1>18, <2>1, <2>4
  <2> QED BY <2>3, <2>4 DEF BackupsShift
<1>21. AcceptedIsWritten'
  <2>1. "printer" \in WlThreads
    BY DEF WlThreads
  <2>2. WlAt("printer", "print")' = WlAt("printer", "print") /\ (WlAt("printer", "print") => wlThread'["printer"] = wlThread["printer"])
    BY <1>2, <1>6, <1>8, <1>10, <2>1 DEF WlAt, Rotating
  <2> QED BY <1>3, <2>2 DEF WlInv, AcceptedIsWritten
<1>22. TooLargeIsRotated'
  BY <1>2, <1>3 DEF TooLargeIsRotated, SizeAsksForRotation
<1> QED BY <1>12, <1>13, <1>14, <1>16, <1>17, <1>19, <1>20, <1>21, <1>22 DEF WlInv

LEMMA WlInvInit == WlInit => WlInv
<1> SUFFICES ASSUME WlInit PROVE WlInv
  OBVIOUS
<1>1. <<>> \in Seq(WlEntry) /\ <<>> \in Seq(Seq(WlEntry)) /\ NoLog \in WlFile
  BY DEF WlFile
<1>2. /\ wlConfig = <<>> /\ ~wlRunning /\ wlRunning \in BOOLEAN /\ ~wlOpen /\ wlOpen \in BOOLEAN /\ wlSegments = <<>> /\ wlQueue = <<>>
      /\ wlWritten = <<>> /\ wlAccepted = <<>> /\ wlSize = 0 /\ wlEntries = 0 /\ wlFaults = 0
      /\ wlFiles = [n \in 0..3 |-> NoLog]
  BY DEF WlInit
<1>3. wlThread \in [WlThreads -> WlState] /\ \A t \in WlThreads : wlThread[t].at = "idle"
  BY ThreadRecords DEF WlInit
<1>4. "printer" \in WlThreads /\ "rotator" \in WlThreads /\ WlCallers \subseteq WlThreads
  BY DEF WlThreads
<1>5. WlTypes
  BY <1>1, <1>2, <1>3 DEF WlTypes
<1>6. WhoWorks
  BY <1>2, <1>3, <1>4 DEF WhoWorks
<1>7. OneRotates /\ FileIsThere /\ PlaceIsFree /\ NoneBeyond /\ BackupsShift
  BY <1>2, <1>3 DEF OneRotates, FileIsThere, PlaceIsFree, NoneBeyond, BackupsShift, WlLocked, Rotating
<1>8. AcceptedIsWritten /\ TooLargeIsRotated
  BY <1>2 DEF AcceptedIsWritten, TooLargeIsRotated
<1>9. EndIsKept
  <2>1. Kept = <<>> \o <<>> \o <<>> \o <<>>
    BY <1>2 DEF Kept, WlContents
  <2>2. <<>> \o <<>> = <<>>
    BY <1>1, ConcatEmptySeq
  <2>3. wlWritten = <<>> \o Kept
    BY <1>2, <2>1, <2>2
  <2> QED BY <1>1, <2>3 DEF EndIsKept
<1> QED BY <1>5, <1>6, <1>7, <1>8, <1>9 DEF WlInv

LEMMA WlInvStep ==
  ASSUME WlInv, [WlNext]_wlVars
  PROVE  WlInv'
<1>1. CASE WlNext
  BY <1>1, WlCreatedStep, WlStartStep, WlLogStep, WlFaultStep, PrintLogStep, WlCheckSizeStep, RotateLockStep,
     RotateRenameStep, RotateReopenStep DEF WlNext
<1>2. CASE UNCHANGED wlVars
  <2>1. WlTypes' /\ WhoWorks' /\ OneRotates' /\ FileIsThere'
    BY <1>2 DEF wlVars, WlInv, WlTypes, WhoWorks, OneRotates, FileIsThere, WlLocked
  <2>2. AcceptedIsWritten' /\ TooLargeIsRotated'
    BY <1>2 DEF wlVars, WlInv, AcceptedIsWritten, TooLargeIsRotated, SizeAsksForRotation, WlAt
  <2>3. EndIsKept' /\ NoneBeyond' /\ PlaceIsFree' /\ BackupsShift'
    BY <1>2, SameFiles DEF wlVars
  <2> QED BY <2>1, <2>2, <2>3 DEF WlInv
<1> QED BY <1>1, <1>2

LEMMA WlInvSound == WlInv => WebLogSound
<1> SUFFICES ASSUME WlInv PROVE WebLogSound
  OBVIOUS
<1>1. NothingInBetweenLost
  <2>1. PICK p \in Seq(WlEntry) : wlWritten = p \o Kept
    BY DEF WlInv, EndIsKept
  <2>2. wlFiles \in [0..3 -> WlFile] /\ 0 \in 0..3 /\ 1 \in 0..3 /\ 2 \in 0..3 /\ 3 \in 0..3
    BY DEF WlInv, WlTypes
  <2>3. /\ WlContents(wlFiles[0]) \in Seq(WlEntry) /\ WlContents(wlFiles[1]) \in Seq(WlEntry)
        /\ WlContents(wlFiles[2]) \in Seq(WlEntry) /\ WlContents(wlFiles[3]) \in Seq(WlEntry)
    BY <2>2, ContentsAreEntries
  <2>4. Kept \in Seq(WlEntry)
    BY <2>3, ConcatProperties DEF Kept
  <2>5. IsSuffix(Kept, wlWritten)
    BY <2>1, <2>4, SuffixOfConcat
  <2> QED BY <2>5 DEF NothingInBetweenLost, Kept
<1>2. BackupsAreTheLast
  BY DEF WlInv, BackupsShift, AllInPlace, LastButOne, BackupsAreTheLast, WlLocked
<1> QED BY <1>1, <1>2 DEF WlInv, WebLogSound

(* For any number of callers and entries, any configuration with up to three backups,
   wherever a rename fails and whenever the program is killed: the files hold the end of
   what was written without a gap, the backups are the last files rotated away while
   nothing failed, an entry that the queue accepted is written or on its way, in order,
   and a file that is too large is about to be rotated. *)
THEOREM WebLogIsSound == WlSpec => []WebLogSound
<1>1. WlInit => WlInv
  BY WlInvInit
<1>2. WlInv /\ [WlNext]_wlVars => WlInv'
  BY WlInvStep
<1>3. WlInv => WebLogSound
  BY WlInvSound
<1> QED BY <1>1, <1>2, <1>3, PTL DEF WlSpec

-----------------------------------------------------------------------------
(* Numbers that are added up. *)

LEMMA TotalNames ==
  ASSUME NEW ns, \E t : t = [i \in 0..Len(ns) |-> IF i = 0 THEN 0 ELSE t[i - 1] + ns[i]]
  PROVE  \E t : /\ t = [i \in 0..Len(ns) |-> IF i = 0 THEN 0 ELSE t[i - 1] + ns[i]]
                /\ Total(ns) = t[Len(ns)]
<1> DEFINE g == CHOOSE t : t = [i \in 0..Len(ns) |-> IF i = 0 THEN 0 ELSE t[i - 1] + ns[i]]
<1>1. g = [i \in 0..Len(ns) |-> IF i = 0 THEN 0 ELSE g[i - 1] + ns[i]]
  BY Zenon
<1>2. Total(ns) = g[Len(ns)]
  BY Zenon DEF Total
<1> HIDE DEF g
<1> QED BY <1>1, <1>2, Zenon

(* The sums of the first i numbers, for i up to n. *)
Sums(t, ns, n) == t[0] = 0 /\ \A i \in 1..n : t[i] = t[i - 1] + ns[i]

LEMMA SumsExist ==
  ASSUME NEW ns \in Seq(Nat), NEW m \in 0..Len(ns)
  PROVE  \E t \in [0..m -> Nat] : Sums(t, ns, m)
<1>1. Len(ns) \in Nat /\ \A i \in 1..Len(ns) : ns[i] \in Nat
  OBVIOUS
<1>2. PICK T : T = {n \in 0..Len(ns) : ~\E t \in [0..n -> Nat] : Sums(t, ns, n)}
  OBVIOUS
<1>3. SUFFICES ASSUME T # {} PROVE FALSE
  BY <1>1, <1>2
<1> T \subseteq Nat
  BY <1>2
<1>4. PICK n \in T : \A y \in T : n <= y
  BY <1>3, LeastNumber
<1>5. n \in 0..Len(ns) /\ ~\E t \in [0..n -> Nat] : Sums(t, ns, n)
  BY <1>2
<1>6. n # 0
  <2> SUFFICES ASSUME n = 0 PROVE FALSE
    OBVIOUS
  <2>1. PICK t : t = [i \in 0..0 |-> 0]
    OBVIOUS
  <2>2. t \in [0..0 -> Nat] /\ Sums(t, ns, 0)
    BY <2>1 DEF Sums
  <2> QED BY <2>2, <1>5
<1>7. n - 1 \in 0..Len(ns) /\ ~(n - 1 \in T) /\ n \in 1..Len(ns)
  BY <1>4, <1>5, <1>6, <1>1
<1>8. PICK t \in [0..(n - 1) -> Nat] : Sums(t, ns, n - 1)
  BY <1>7, <1>2
<1>9. PICK x \in Nat : x = t[n - 1] + ns[n]
  <2>1. t[n - 1] \in Nat /\ ns[n] \in Nat
    BY <1>7, <1>1
  <2> QED BY <2>1
<1>10. PICK g : g = [i \in 0..n |-> IF i = n THEN x ELSE t[i]]
  OBVIOUS
<1>11. n \in Nat /\ n \in 0..n /\ \A i \in 0..(n - 1) : i \in 0..n /\ i # n /\ t[i] \in Nat
  BY <1>7
<1>12. \A i \in 0..n : i = n \/ i \in 0..(n - 1)
  BY <1>7
<1>13. g \in [0..n -> Nat] /\ g[n] = x /\ \A i \in 0..(n - 1) : g[i] = t[i]
  BY <1>10, <1>11, <1>12
<1>14. ASSUME NEW i \in 1..n PROVE g[i] = g[i - 1] + ns[i]
  <2>1. i - 1 \in 0..(n - 1)
    BY <1>7
  <2>2. CASE i = n
    BY <2>1, <2>2, <1>9, <1>13
  <2>3. CASE i # n
    <3>1. i \in 0..(n - 1) /\ i \in 1..(n - 1)
      BY <2>3, <1>7
    <3> QED BY <3>1, <2>1, <1>8, <1>13 DEF Sums
  <2> QED BY <2>2, <2>3
<1>15. g[0] = 0
  BY <1>8, <1>13, <1>7 DEF Sums
<1> QED BY <1>5, <1>13, <1>14, <1>15 DEF Sums

LEMMA TotalSteps ==
  ASSUME NEW ns \in Seq(Nat)
  PROVE  \E t \in [0..Len(ns) -> Nat] : Sums(t, ns, Len(ns)) /\ Total(ns) = t[Len(ns)]
<1>1. Len(ns) \in Nat /\ Len(ns) \in 0..Len(ns)
  OBVIOUS
<1>2. PICK t \in [0..Len(ns) -> Nat] : Sums(t, ns, Len(ns))
  BY <1>1, SumsExist
<1>3. t = [i \in 0..Len(ns) |-> IF i = 0 THEN 0 ELSE t[i - 1] + ns[i]]
  <2>1. ASSUME NEW i \in 0..Len(ns) PROVE t[i] = IF i = 0 THEN 0 ELSE t[i - 1] + ns[i]
    <3>1. i = 0 \/ i \in 1..Len(ns)
      BY <1>1
    <3> QED BY <3>1, <1>2 DEF Sums
  <2>2. t = [i \in 0..Len(ns) |-> t[i]]
    BY Zenon
  <2> QED BY <2>1, <2>2, Zenon
<1>4. PICK g : /\ g = [i \in 0..Len(ns) |-> IF i = 0 THEN 0 ELSE g[i - 1] + ns[i]]
               /\ Total(ns) = g[Len(ns)]
  BY <1>3, TotalNames
<1>5. Sums(g, ns, Len(ns))
  <2>1. \A i \in 0..Len(ns) : g[i] = IF i = 0 THEN 0 ELSE g[i - 1] + ns[i]
    BY <1>4, Zenon
  <2>2. 0 \in 0..Len(ns) /\ \A i \in 1..Len(ns) : i \in 0..Len(ns) /\ i # 0
    BY <1>1
  <2> QED BY <2>1, <2>2, Zenon DEF Sums
<1>6. ASSUME NEW n \in 0..Len(ns) PROVE g[n] = t[n]
  <2>1. PICK T : T = {i \in 0..Len(ns) : g[i] # t[i]}
    OBVIOUS
  <2> T \subseteq Nat
    BY <2>1
  <2>2. SUFFICES ASSUME T # {} PROVE FALSE
    BY <2>1
  <2>3. PICK k \in T : \A y \in T : k <= y
    BY <2>2, LeastNumber
  <2>4. k \in 0..Len(ns) /\ g[k] # t[k]
    BY <2>1
  <2>5. k # 0
    BY <2>4, <1>5, <1>2 DEF Sums
  <2>6. k \in 1..Len(ns) /\ k - 1 \in 0..Len(ns) /\ ~(k - 1 \in T)
    BY <2>3, <2>4, <2>5, <1>1
  <2>7. g[k - 1] = t[k - 1]
    BY <2>6, <2>1
  <2> QED BY <2>4, <2>6, <2>7, <1>5, <1>2 DEF Sums
<1> QED BY <1>1, <1>2, <1>4, <1>6, Zenon

-----------------------------------------------------------------------------
(* The frames of a WebSocket. *)

(* How many frames of b bytes a message of n bytes takes. *)
LEMMA FrameCount ==
  ASSUME NEW n \in Nat \ {0}, NEW b \in Nat \ {0}
  PROVE  \E c \in Nat \ {0} : /\ c = (n + b - 1) \div b
                              /\ (c - 1) * b < n /\ n <= c * b
<1>1. PICK m \in Nat : m = n + b - 1
  OBVIOUS
<1>2. m % b \in 0..(b - 1) /\ m \div b \in Nat
  OBVIOUS
<1>3. m = b * (m \div b) + (m % b)
  OBVIOUS
<1>4. PICK q \in Nat, r \in 0..(b - 1) : q = m \div b /\ r = m % b
  BY <1>2, Zenon
<1>5. m = b * q + r
  BY <1>3, <1>4, Zenon
<1>6. PICK x \in Nat : x = b * q
  OBVIOUS
<1>7. q * b = x /\ (q - 1) * b = x - b
  BY <1>6
<1>8. n <= x /\ x - b < n /\ x # 0
  BY <1>1, <1>5, <1>6
<1>9. q # 0
  BY <1>6, <1>8
<1>10. q = (n + b - 1) \div b
  BY <1>1, <1>4, Zenon
<1>11. q \in Nat \ {0}
  BY <1>9
<1> QED BY <1>7, <1>8, <1>10, <1>11

LEMMA ProductGrows ==
  ASSUME NEW b \in Nat, NEW q \in Nat, NEW r \in Nat, q >= r
  PROVE  q * b >= r * b
<1>1. PICK d \in Nat : q = r + d
  <2>1. q - r \in Nat /\ q = r + (q - r)
    OBVIOUS
  <2> QED BY <2>1
<1>2. q * b = r * b + d * b /\ d * b \in Nat /\ r * b \in Nat
  BY <1>1
<1> QED BY <1>2

(* Every frame but the last is full; the last holds the rest. *)
SizeOfFrame(len, n, i) == IF i = n THEN len - (n - 1) * WSMaxFrameSize ELSE WSMaxFrameSize

LEMMA DataFramesAre ==
  ASSUME NEW op, NEW len \in Nat
  PROVE  \E n \in Nat \ {0} :
           /\ DataFrames(op, len) = [i \in 1..n |-> SentFrame(i = n, IF i = 1 THEN op ELSE "CONTINUATION", SizeOfFrame(len, n, i))]
           /\ len - (n - 1) * WSMaxFrameSize \in Nat
<1> DEFINE M == WSMaxFrameSize
<1>1. M \in Nat \ {0}
  BY WSAssumption
<1> HIDE DEF M
<1>2. PICK n \in Nat \ {0} : /\ n = IF len = 0 THEN 1 ELSE (len + M - 1) \div M
                             /\ (n - 1) * M <= len /\ len <= n * M
                             /\ len # 0 => (n - 1) * M < len
  <2>1. CASE len = 0
    <3>1. (1 - 1) * M = 0 /\ 1 * M = M
      BY <1>1
    <3> QED BY <2>1, <3>1, <1>1
  <2>2. CASE len # 0
    <3>1. PICK c \in Nat \ {0} : c = (len + M - 1) \div M /\ (c - 1) * M < len /\ len <= c * M
      BY <2>2, <1>1, FrameCount
    <3>2. PICK x \in Nat : x = (c - 1) * M
      BY <1>1
    <3> QED BY <2>2, <3>1, <3>2
  <2> QED BY <2>1, <2>2
<1>3. PICK rest \in Nat : rest = len - (n - 1) * M
  <2>1. PICK x \in Nat : x = (n - 1) * M
    BY <1>1
  <2>2. len - x \in Nat
    BY <1>2, <2>1
  <2> QED BY <2>1, <2>2
<1>4. ASSUME NEW i \in 1..n
      PROVE  /\ (IF len - (i - 1) * M > M THEN M ELSE len - (i - 1) * M) = SizeOfFrame(len, n, i)
             /\ ((i - 1) * M + (IF len - (i - 1) * M > M THEN M ELSE len - (i - 1) * M) >= len) = (i = n)
  <2>1. PICK x \in Nat : x = (i - 1) * M
    BY <1>1
  <2>2. CASE i = n
    <3>1. n * M = x + M
      BY <2>1, <2>2, <1>1
    <3>2. len <= x + M /\ x <= len
      BY <3>1, <2>1, <2>2, <1>2
    <3>3. ~(len - x > M)
      BY <3>2, <1>1, <2>1
    <3>4. x + (len - x) >= len
      BY <2>1
    <3> QED BY <2>1, <2>2, <3>3, <3>4 DEF SizeOfFrame, M
  <2>3. CASE i # n
    <3>1. n - 1 \in Nat /\ i \in Nat /\ n - 1 >= i
      BY <2>3
    <3>2. (n - 1) * M >= i * M /\ i * M = x + M /\ (n - 1) * M \in Nat
      BY <3>1, <1>1, <2>1, ProductGrows
    <3>3. len # 0
      <4> SUFFICES ASSUME len = 0 PROVE FALSE
        OBVIOUS
      <4> QED BY <1>2, <2>3
    <3>4. PICK y \in Nat : y = (n - 1) * M
      BY <3>2
    <3>5. y >= x + M /\ y < len
      BY <3>2, <3>3, <3>4, <1>2
    <3>6. len - x > M /\ ~(x + M >= len)
      BY <3>5, <2>1, <1>1
    <3> QED BY <2>1, <2>3, <3>6 DEF SizeOfFrame, M
  <2> QED BY <2>2, <2>3
<1>5. DataFrames(op, len) = [i \in 1..n |->
        SentFrame((i - 1) * M + (IF len - (i - 1) * M > M THEN M ELSE len - (i - 1) * M) >= len,
                  IF i = 1 THEN op ELSE "CONTINUATION",
                  IF len - (i - 1) * M > M THEN M ELSE len - (i - 1) * M)]
  BY <1>2, Zenon DEF DataFrames, M
<1>6. DataFrames(op, len) = [i \in 1..n |-> SentFrame(i = n, IF i = 1 THEN op ELSE "CONTINUATION", SizeOfFrame(len, n, i))]
  BY <1>4, <1>5, Zenon
<1> QED BY <1>3, <1>6 DEF M

LEMMA LengthFieldFits ==
  ASSUME NEW n \in Nat
  PROVE  /\ LengthField(n) < 126 => n = LengthField(n)
         /\ LengthField(n) = 126 => n \in 126..MaxUInt16
BY DEF LengthField

(* MessagesAsFrames, of a message and the frames it went out in. *)
FramesWhole(op, len, f) ==
  f # <<>> =>
       /\ f[1].op = op /\ \A i \in 2..Len(f) : f[i].op = "CONTINUATION"
       /\ \A i \in DOMAIN f : f[i].fin <=> i = Len(f)
       /\ op # "PING" => Total([i \in DOMAIN f |-> f[i].size]) = len
       /\ \A i \in DOMAIN f : /\ f[i].op \in ControlOps => f[i].size <= 125
                              /\ f[i].field < 126 => f[i].size = f[i].field
                              /\ f[i].field = 126 => f[i].size \in 126..MaxUInt16

LEMMA DataIsWhole ==
  ASSUME NEW op \in {"TEXT", "BINARY"}, NEW len \in Nat
  PROVE  FramesWhole(op, len, DataFrames(op, len))
<1>1. PICK n \in Nat \ {0} :
        /\ DataFrames(op, len) = [i \in 1..n |-> SentFrame(i = n, IF i = 1 THEN op ELSE "CONTINUATION", SizeOfFrame(len, n, i))]
        /\ len - (n - 1) * WSMaxFrameSize \in Nat
  BY DataFramesAre
<1>2. PICK f : f = DataFrames(op, len)
  OBVIOUS
<1>3. f = [i \in 1..n |-> SentFrame(i = n, IF i = 1 THEN op ELSE "CONTINUATION", SizeOfFrame(len, n, i))]
  BY <1>1, <1>2
<1>4. ASSUME NEW i \in 1..n
      PROVE  /\ f[i].fin = (i = n) /\ f[i].op = (IF i = 1 THEN op ELSE "CONTINUATION")
             /\ f[i].size = SizeOfFrame(len, n, i) /\ f[i].field = LengthField(SizeOfFrame(len, n, i))
             /\ SizeOfFrame(len, n, i) \in Nat
  <2>1. f[i] = SentFrame(i = n, IF i = 1 THEN op ELSE "CONTINUATION", SizeOfFrame(len, n, i))
    BY <1>3
  <2>2. SizeOfFrame(len, n, i) \in Nat
    BY <1>1, WSAssumption DEF SizeOfFrame
  <2> QED BY <2>1, <2>2 DEF SentFrame
<1>5. DOMAIN f = 1..n /\ Len(f) = n /\ 1 \in 1..n
  BY <1>3
<1>6. Total([i \in DOMAIN f |-> f[i].size]) = len
  <2>1. PICK ns : ns = [i \in DOMAIN f |-> f[i].size]
    OBVIOUS
  <2>2. ns \in Seq(Nat) /\ Len(ns) = n /\ \A i \in 1..n : ns[i] = SizeOfFrame(len, n, i)
    BY <2>1, <1>4, <1>5
  <2>3. PICK t \in [0..Len(ns) -> Nat] : Sums(t, ns, Len(ns)) /\ Total(ns) = t[Len(ns)]
    BY <2>2, TotalSteps
  <2>4. ASSUME NEW k \in 0..(n - 1) PROVE t[k] = k * WSMaxFrameSize
    <3>1. PICK T : T = {i \in 0..(n - 1) : t[i] # i * WSMaxFrameSize}
      OBVIOUS
    <3> T \subseteq Nat
      BY <3>1
    <3>2. SUFFICES ASSUME T # {} PROVE FALSE
      BY <3>1
    <3>3. PICK j \in T : \A y \in T : j <= y
      BY <3>2, LeastNumber
    <3>4. j \in 0..(n - 1) /\ t[j] # j * WSMaxFrameSize
      BY <3>1
    <3>5. t[0] = 0 /\ 0 * WSMaxFrameSize = 0
      BY <2>3, WSAssumption DEF Sums
    <3>6. j - 1 \in 0..(n - 1) /\ ~(j - 1 \in T) /\ j \in 1..n /\ j # n
      BY <3>3, <3>4, <3>5
    <3>7. t[j - 1] = (j - 1) * WSMaxFrameSize
      BY <3>6, <3>1
    <3>8. t[j] = t[j - 1] + WSMaxFrameSize
      BY <3>6, <2>2, <2>3 DEF Sums, SizeOfFrame
    <3>9. (j - 1) * WSMaxFrameSize + WSMaxFrameSize = j * WSMaxFrameSize
      BY <3>6, WSAssumption
    <3> QED BY <3>4, <3>7, <3>8, <3>9
  <2>5. t[n - 1] = (n - 1) * WSMaxFrameSize
    BY <2>4
  <2>6. t[n] = t[n - 1] + (len - (n - 1) * WSMaxFrameSize)
    BY <1>5, <2>2, <2>3 DEF Sums, SizeOfFrame
  <2>7. PICK x \in Nat : x = (n - 1) * WSMaxFrameSize
    BY WSAssumption
  <2>8. x + (len - x) = len
    OBVIOUS
  <2> QED BY <2>1, <2>2, <2>3, <2>5, <2>6, <2>7, <2>8
<1>8. \A i \in 2..Len(f) : i \in 1..n /\ i # 1
  BY <1>5
<1>9. \A i \in 1..n : f[i].op \notin ControlOps
  BY <1>4 DEF ControlOps
<1>10. \A i \in 1..n : /\ f[i].field < 126 => f[i].size = f[i].field
                       /\ f[i].field = 126 => f[i].size \in 126..MaxUInt16
  <2> TAKE i \in 1..n
  <2>1. PICK k \in Nat : k = SizeOfFrame(len, n, i)
    BY <1>4
  <2>2. (LengthField(k) < 126 => k = LengthField(k)) /\ (LengthField(k) = 126 => k \in 126..MaxUInt16)
    BY LengthFieldFits
  <2>3. f[i].field = LengthField(k) /\ f[i].size = k
    BY <1>4, <2>1, Zenon
  <2> QED BY <2>2, <2>3, Zenon
<1>11. f[1].op = op /\ \A i \in 2..Len(f) : f[i].op = "CONTINUATION"
  BY <1>4, <1>5, <1>8
<1>12. \A i \in DOMAIN f : f[i].fin <=> i = Len(f)
  BY <1>4, <1>5, Zenon
<1>13. FramesWhole(op, len, f)
  BY <1>5, <1>6, <1>9, <1>10, <1>11, <1>12, Zenon DEF FramesWhole
<1> QED BY <1>2, <1>13

LEMMA PingIsWhole ==
  ASSUME NEW len \in Nat
  PROVE  FramesWhole("PING", len, <<SentFrame(TRUE, "PING", IF len > 125 THEN 125 ELSE len)>>)
<1>1. PICK n \in Nat : n = (IF len > 125 THEN 125 ELSE len) /\ n <= 125
  OBVIOUS
<1>2. PICK x : x = SentFrame(TRUE, "PING", n)
  OBVIOUS
<1>3. x.fin = TRUE /\ x.op = "PING" /\ x.size = n /\ x.field = n
  BY <1>1, <1>2 DEF SentFrame, LengthField
<1>5. DOMAIN <<x>> = {1} /\ Len(<<x>>) = 1 /\ <<x>>[1] = x /\ 2..1 = {}
  OBVIOUS
<1>6. x.op \in ControlOps => x.size <= 125
  BY <1>1, <1>3
<1>7. (x.field < 126 => x.size = x.field) /\ x.field # 126
  BY <1>1, <1>3
<1>8. PICK f : f = <<x>>
  OBVIOUS
<1>9. DOMAIN f = {1} /\ Len(f) = 1 /\ f[1] = x /\ \A i \in 2..Len(f) : FALSE
  BY <1>5, <1>8
<1>10. FramesWhole("PING", len, f)
  BY <1>3, <1>6, <1>7, <1>9, Zenon DEF FramesWhole
<1> QED BY <1>1, <1>2, <1>8, <1>10, Zenon

(* The frames whose payload can have been read. *)
Readable == {f \in WSFrames : f.size <= 125}

(* The type stays the default one and the content is never at a first frame, so every
   payload read so far is in the content. *)
WSInv ==
  /\ wtype = "CONTINUATION" /\ wfirst = FALSE
  /\ wreceived \in Seq(Readable) /\ (wsub = "content" => wframe \in Readable)
  /\ wcontent = FlattenSeq([i \in DOMAIN wreceived |-> UnmaskData(wreceived[i])])
  /\ FramesWhole(wsent.op, wsent.len, wsent.frames)

LEMMA UnmaskedIsSeq ==
  ASSUME NEW f \in Readable
  PROVE  UnmaskData(f) \in Seq(Nat)
<1>1. f.size \in Nat /\ f.key \in Seq(Nat) /\ f.key # <<>> /\ f.data \in [1..f.size -> Nat] /\ WSByte \in Nat \ {0}
  BY WSAssumption DEF Readable
<1>2. PICK n \in Nat : n = f.size
  BY <1>1
<1>3. PICK key \in Seq(Nat) : key = f.key /\ key # <<>>
  BY <1>1
<1>4. PICK l \in Nat \ {0} : l = Len(key)
  BY <1>3
<1>5. ASSUME NEW i \in 1..n PROVE (f.data[i] + f.key[((i - 1) % Len(f.key)) + 1]) % WSByte \in Nat
  <2>1. PICK d \in Nat : d = f.data[i]
    BY <1>1, <1>2
  <2>2. (i - 1) % l \in 0..(l - 1)
    BY <1>4
  <2>3. ((i - 1) % l) + 1 \in 1..l
    BY <2>2
  <2>4. key[((i - 1) % l) + 1] \in Nat
    BY <2>3, <1>4
  <2>5. PICK k \in Nat : k = key[((i - 1) % l) + 1]
    BY <2>4
  <2>6. (d + k) % WSByte \in Nat
    <3>1. PICK b \in Nat \ {0} : b = WSByte
      BY <1>1
    <3>2. PICK e \in Nat : e = d + k
      OBVIOUS
    <3>3. e % b \in 0..(b - 1)
      OBVIOUS
    <3>4. e % b \in Nat
      BY <3>3
    <3> QED BY <3>1, <3>2, <3>4, Zenon
  <2> QED BY <2>1, <2>5, <2>6, <1>3, <1>4, Zenon
<1>6. UnmaskData(f) = [i \in 1..n |-> (f.data[i] + f.key[((i - 1) % Len(f.key)) + 1]) % WSByte]
  BY <1>2, Zenon DEF UnmaskData
<1> QED BY <1>5, <1>6

LEMMA WSInvInit == WSInit => WSInv
<1> SUFFICES ASSUME WSInit PROVE WSInv
  OBVIOUS
<1>1. wtype = "CONTINUATION" /\ wfirst = FALSE /\ wreceived = <<>> /\ wsub = "header" /\ wcontent = <<>>
      /\ wsent.frames = <<>>
  BY DEF WSInit
<1>2. [i \in DOMAIN <<>> |-> UnmaskData(wreceived[i])] = <<>>
  OBVIOUS
<1>3. wcontent = FlattenSeq([i \in DOMAIN wreceived |-> UnmaskData(wreceived[i])])
  BY <1>1, <1>2, FlattenEmpty
<1>4. wreceived \in Seq(Readable)
  BY <1>1
<1>5. FramesWhole(wsent.op, wsent.len, wsent.frames)
  BY <1>1 DEF FramesWhole
<1> QED BY <1>1, <1>3, <1>4, <1>5 DEF WSInv

LEMMA FrameHeaderStep == WSInv /\ ReadFrameHeader => WSInv'
<1> SUFFICES ASSUME WSInv, ReadFrameHeader PROVE WSInv'
  OBVIOUS
<1>1. PICK f \in WSFrames :
        \/ FrameFails
        \/ HeaderParsed(f) /\ wsub' = "content" /\ wframe' = f /\ wtype' = wtype /\ wfirst' = FALSE
           /\ UNCHANGED <<wcontent, wreceived>>
        \/ CallOnFinalFragment(wtype, wcontent) /\ UNCHANGED wreceived
  BY DEF ReadFrameHeader, WSInv
<1>2. wsent' = wsent
  BY DEF ReadFrameHeader
<1>3. CASE FrameFails
  BY <1>2, <1>3 DEF FrameFails, WSInv
<1>4. CASE HeaderParsed(f) /\ wsub' = "content" /\ wframe' = f /\ wtype' = wtype /\ wfirst' = FALSE
           /\ UNCHANGED <<wcontent, wreceived>>
  <2>1. f \in Readable
    BY <1>4 DEF HeaderParsed, Readable
  <2> QED BY <1>2, <1>4, <2>1 DEF WSInv
<1>5. CASE CallOnFinalFragment(wtype, wcontent) /\ UNCHANGED wreceived
  <2>1. wtype' = wtype /\ wsub' = "thrown" /\ wcontent' = wcontent /\ wfirst' = wfirst /\ wreceived' = wreceived
    BY <1>5 DEF CallOnFinalFragment, WSInv
  <2> QED BY <1>2, <2>1 DEF WSInv
<1> QED BY <1>1, <1>3, <1>4, <1>5

LEMMA FrameContentStep == WSInv /\ ReadFrameContent => WSInv'
<1> SUFFICES ASSUME WSInv, ReadFrameContent PROVE WSInv'
  OBVIOUS
<1>1. wreceived \in Seq(Readable) /\ wframe \in Readable
  BY DEF WSInv, ReadFrameContent
<1>2. /\ wreceived' = Append(wreceived, wframe) /\ wsent' = wsent
      /\ wtype' = wtype /\ wfirst' = wfirst /\ wsub' # "content"
      /\ wcontent' = wcontent \o UnmaskData(wframe)
  BY DEF ReadFrameContent, CallOnFinalFragment, WSInv
<1>3. PICK ss : ss = [i \in DOMAIN wreceived |-> UnmaskData(wreceived[i])]
  OBVIOUS
<1>4. DOMAIN wreceived = 1..Len(wreceived) /\ \A i \in 1..Len(wreceived) : wreceived[i] \in Readable
  BY <1>1
<1>5. ss \in Seq(Seq(Nat)) /\ Len(ss) = Len(wreceived)
  BY <1>3, <1>4, UnmaskedIsSeq
<1>6. PICK s \in Seq(Nat) : s = UnmaskData(wframe)
  BY <1>1, UnmaskedIsSeq
<1>7. wreceived' \in Seq(Readable) /\ DOMAIN wreceived' = 1..(Len(wreceived) + 1)
      /\ wreceived'[Len(wreceived) + 1] = wframe /\ \A i \in 1..Len(wreceived) : wreceived'[i] = wreceived[i]
  BY <1>1, <1>2
<1>8. Append(ss, s) = [i \in DOMAIN wreceived' |-> UnmaskData(wreceived'[i])]
  <2>1. PICK n \in Nat : n = Len(wreceived)
    BY <1>1
  <2>2. PICK w : w = wreceived'
    OBVIOUS
  <2>3. Append(ss, s) = [i \in 1..(n + 1) |-> IF i = n + 1 THEN s ELSE ss[i]]
    <3>1. PICK x : x = Append(ss, s)
      OBVIOUS
    <3>2. x \in Seq(Seq(Nat)) /\ Len(x) = n + 1 /\ x[n + 1] = s /\ \A i \in 1..n : x[i] = ss[i]
      BY <3>1, <1>5, <2>1, AppendProperties
    <3>3. x = [i \in 1..(n + 1) |-> x[i]]
      BY <3>2
    <3>4. \A i \in 1..(n + 1) : i = n + 1 \/ i \in 1..n
      OBVIOUS
    <3>5. \A i \in 1..(n + 1) : x[i] = IF i = n + 1 THEN s ELSE ss[i]
      BY <3>2, <3>4, Zenon
    <3> QED BY <3>1, <3>3, <3>5, Zenon
  <2>4. ASSUME NEW i \in 1..(n + 1) PROVE (IF i = n + 1 THEN s ELSE ss[i]) = UnmaskData(w[i])
    <3>1. CASE i = n + 1
      BY <3>1, <1>6, <1>7, <2>1, <2>2
    <3>2. CASE i # n + 1
      <4>1. i \in 1..n
        BY <3>2
      <4>2. w[i] = wreceived[i] /\ ss[i] = UnmaskData(wreceived[i])
        BY <4>1, <1>3, <1>4, <1>7, <2>1, <2>2
      <4> QED BY <3>2, <4>2
    <3> QED BY <3>1, <3>2
  <2>5. Append(ss, s) = [i \in 1..(n + 1) |-> UnmaskData(w[i])]
    BY <2>3, <2>4, Zenon
  <2> QED BY <2>1, <2>2, <2>5, <1>7, Zenon
<1>9. FlattenSeq(Append(ss, s)) = FlattenSeq(ss) \o s
  BY <1>5, FlattenAppend
<1>10. wcontent = FlattenSeq(ss)
  BY <1>3 DEF WSInv
<1>11. wcontent' = FlattenSeq([i \in DOMAIN wreceived' |-> UnmaskData(wreceived'[i])])
  BY <1>2, <1>6, <1>8, <1>9, <1>10, Zenon
<1> QED BY <1>2, <1>7, <1>11 DEF WSInv

LEMMA SendStep == WSInv /\ SendWebSocket => WSInv'
<1> SUFFICES ASSUME WSInv, SendWebSocket PROVE WSInv'
  OBVIOUS
<1>1. PICK len \in WSLengths, op \in {"TEXT", "BINARY", "PING"} :
        wsent' = [len |-> len, op |-> op,
                  frames |-> IF op = "PING" THEN <<SentFrame(TRUE, op, IF len > 125 THEN 125 ELSE len)>> ELSE DataFrames(op, len)]
  BY DEF SendWebSocket
<1>2. len \in Nat
  BY WSAssumption
<1>3. FramesWhole(op, len, IF op = "PING" THEN <<SentFrame(TRUE, op, IF len > 125 THEN 125 ELSE len)>> ELSE DataFrames(op, len))
  <2>1. CASE op = "PING"
    BY <2>1, <1>2, PingIsWhole
  <2>2. CASE op # "PING"
    <3>1. op \in {"TEXT", "BINARY"}
      BY <2>2
    <3>2. FramesWhole(op, len, DataFrames(op, len))
      BY <3>1, <1>2, DataIsWhole
    <3> QED BY <2>2, <3>2
  <2> QED BY <2>1, <2>2
<1>4. wsent'.len = len /\ wsent'.op = op
      /\ wsent'.frames = IF op = "PING" THEN <<SentFrame(TRUE, op, IF len > 125 THEN 125 ELSE len)>> ELSE DataFrames(op, len)
  BY <1>1
<1>5. FramesWhole(wsent'.op, wsent'.len, wsent'.frames)
  BY <1>3, <1>4
<1> QED BY <1>5 DEF WSInv, SendWebSocket

LEMMA WSInvStep == WSInv /\ [WSNext]_wsVars => WSInv'
<1>1. WSInv /\ UNCHANGED wsVars => WSInv'
  BY DEF WSInv, wsVars
<1> QED BY <1>1, FrameHeaderStep, FrameContentStep, SendStep DEF WSNext

LEMMA WSInvSound == WSInv => WebSocketSound
<1> SUFFICES ASSUME WSInv PROVE WebSocketSound
  OBVIOUS
<1>1. ContentAsSent
  <2>1. wcontent = FlattenSeq([i \in DOMAIN wreceived |-> UnmaskData(wreceived[i])])
    BY DEF WSInv
  <2> QED BY <2>1, Zenon DEF ContentAsSent, UnmaskData
<1>2. MessagesAsFrames
  <2>1. FramesWhole(wsent.op, wsent.len, wsent.frames)
    BY DEF WSInv
  <2> QED BY <2>1, Zenon DEF MessagesAsFrames, FramesWhole
<1> QED BY <1>1, <1>2 DEF WebSocketSound

(* For any frames of the peer, keys and payloads, any lengths the program sends and any frame size: the content
   is what the peer masked, frame by frame, and a message goes out whole, one typed frame first, continuations
   after it, the last one final, its sizes adding up to the message and each in a length field that can hold it. *)
THEOREM WebSocketIsSound == WSSpec => []WebSocketSound
<1>1. WSInv => WebSocketSound
  BY WSInvSound
<1> QED BY <1>1, WSInvInit, WSInvStep, PTL DEF WSSpec

-----------------------------------------------------------------------------
(* The pages of the HTML engine. *)

(* What a page can be made of: what stands in the files, and what the engine puts in. *)
EngineTexts == {PText("not found"), PText("result"), PText("value"), PText("null")}
PageItems == EngineTexts \cup UNION {{WPages[f][i] : i \in 1..Len(WPages[f])} : f \in DOMAIN WPages}

ValuesInv ==
  /\ wstage \in {"session", "dispatch", "include"} => wexec = {}
  /\ wstage = "include" => wpage \in Seq(PageItems)
  /\ ValuesAreText

LEMMA PagesAreItems ==
  ASSUME NEW f \in DOMAIN WPages
  PROVE  WPages[f] \in Seq(PageItems)
<1>1. PICK S : S = {WPages[f][i] : i \in 1..Len(WPages[f])}
  OBVIOUS
<1>2. WPages[f] \in Seq(S)
  BY <1>1, WebAssumption
<1>3. S \subseteq PageItems
  BY <1>1, Zenon DEF PageItems
<1> QED BY <1>2, <1>3

LEMMA CallsAreOfFiles ==
  ASSUME NEW x \in PageItems, x.op = "FUNC"
  PROVE  \E f \in DOMAIN WPages : \E i \in 1..Len(WPages[f]) :
           WPages[f][i].op = "FUNC" /\ WPages[f][i].name = x.name
<1>1. x \notin EngineTexts
  <2>1. \A n : PText(n).op = ""
    BY DEF PText
  <2>2. \A e \in EngineTexts : e.op = ""
    BY <2>1, Zenon DEF EngineTexts
  <2>3. "FUNC" # ""
    OBVIOUS
  <2> QED BY <2>2, <2>3
<1>2. PICK f \in DOMAIN WPages : x \in {WPages[f][i] : i \in 1..Len(WPages[f])}
  BY <1>1, Zenon DEF PageItems
<1> QED BY <1>2

LEMMA RequestedIsOnDisk ==
  ASSUME NEW r, RequestedFile(r).kind = "file"
  PROVE  \E d \in DOMAIN WDisk : RequestedFile(r) = WDisk[d]
<1>1. ASSUME NEW root, NEW suffix
      PROVE  PathOf(root, r, suffix).kind = "none" \/ \E d \in DOMAIN WDisk : PathOf(root, r, suffix) = WDisk[d]
  BY DEF PathOf
<1>2. ASSUME NEW suffix
      PROVE  Resolve(r, suffix).kind = "none" \/ \E d \in DOMAIN WDisk : Resolve(r, suffix) = WDisk[d]
  <2>1. PICK root : Resolve(r, suffix) = PathOf(root, r, suffix)
    BY Zenon DEF Resolve
  <2> QED BY <1>1, <2>1
<1>3. RequestedFile(r).kind = "none" \/ \E suffix : RequestedFile(r) = Resolve(r, suffix)
  BY DEF RequestedFile
<1> QED BY <1>2, <1>3

(* A pass over a page puts in items of pages only. *)
LEMMA SpreadIsItems ==
  ASSUME NEW S, NEW page \in Seq(S), NEW f,
         f \in [1..Len(page) -> Seq(S)]
  PROVE  FlattenSeq(f) \in Seq(S)
<1>1. f \in Seq(Seq(S))
  <2>1. Len(page) \in Nat
    OBVIOUS
  <2> QED BY <2>1
<1> QED BY <1>1, FlattenInSeq

LEMMA JProcessItems ==
  ASSUME NEW page \in Seq(PageItems), NEW notation
  PROVE  JProcess(page, notation) \in Seq(PageItems)
<1>1. PICK f : f = [i \in 1..Len(page) |-> IF page[i].t # notation THEN <<page[i]>>
                                           ELSE IF page[i].op = "FUNC" THEN <<PText("result")>>
                                           ELSE <<ReplaceByJVar(page[i].name)>>]
  OBVIOUS
<1>2. JProcess(page, notation) = FlattenSeq(f)
  BY <1>1, Zenon DEF JProcess, Spread
<1>3. ASSUME NEW i \in 1..Len(page) PROVE f[i] \in Seq(PageItems)
  <2>1. page[i] \in PageItems
    OBVIOUS
  <2>2. PText("result") \in PageItems /\ ReplaceByJVar(page[i].name) \in PageItems
    BY DEF PageItems, EngineTexts, ReplaceByJVar
  <2> QED BY <2>1, <2>2, <1>1
<1>4. f \in [1..Len(page) -> Seq(PageItems)]
  BY <1>1, <1>3
<1> QED BY <1>2, <1>4, SpreadIsItems

LEMMA IncludeStep == ValuesInv /\ ProcessInclude => ValuesInv'
<1> SUFFICES ASSUME ValuesInv, ProcessInclude PROVE ValuesInv'
  OBVIOUS
<1>1. wpage \in Seq(PageItems) /\ wexec = {} /\ wexec' = wexec /\ wstage' = "include"
  BY DEF ValuesInv, ProcessInclude
<1>2. PICK tag : tag = IncludeTag(wpage)
  OBVIOUS
<1>3. PICK by : by = IF tag.name \in DOMAIN WPages THEN WPages[tag.name] ELSE <<PText("not found")>>
  OBVIOUS
<1>4. by \in Seq(PageItems)
  <2>1. CASE tag.name \in DOMAIN WPages
    BY <2>1, <1>3, PagesAreItems
  <2>2. CASE tag.name \notin DOMAIN WPages
    <3>1. PText("not found") \in PageItems
      BY DEF PageItems, EngineTexts
    <3>2. PICK x \in PageItems : x = PText("not found")
      BY <3>1, Zenon
    <3>3. <<x>> \in Seq(PageItems)
      OBVIOUS
    <3> QED BY <2>2, <3>2, <3>3, <1>3, Zenon
  <2> QED BY <2>1, <2>2
<1>5. PICK f : f = [i \in 1..Len(wpage) |-> IF wpage[i].t = "include" /\ wpage[i].name = tag.name THEN by ELSE <<wpage[i]>>]
  OBVIOUS
<1>6. wpage' = FlattenSeq(f)
  BY <1>2, <1>3, <1>5, Zenon DEF ProcessInclude, Spread
<1>7. ASSUME NEW i \in 1..Len(wpage) PROVE f[i] \in Seq(PageItems)
  <2>1. wpage[i] \in PageItems
    BY <1>1
  <2> QED BY <2>1, <1>4, <1>5
<1>8. f \in [1..Len(wpage) -> Seq(PageItems)]
  BY <1>5, <1>7
<1>9. wpage' \in Seq(PageItems)
  BY <1>1, <1>6, <1>8, SpreadIsItems
<1> QED BY <1>1, <1>9 DEF ValuesInv, ValuesAreText

LEMMA TagsStep == ValuesInv /\ ProcessTags => ValuesInv'
<1> SUFFICES ASSUME ValuesInv, ProcessTags PROVE ValuesInv'
  OBVIOUS
<1>1. wpage \in Seq(PageItems) /\ wstage' = "cleanup"
  BY DEF ValuesInv, ProcessTags
<1>2. PICK first : first = JProcess(wpage, "js")
  OBVIOUS
<1>3. first \in Seq(PageItems)
  BY <1>1, <1>2, JProcessItems
<1>4. ASSUME NEW page \in Seq(PageItems), NEW notation, NEW c \in Calls(page, notation)
      PROVE  \E f \in DOMAIN WPages : \E i \in 1..Len(WPages[f]) :
               WPages[f][i].op = "FUNC" /\ WPages[f][i].name = c
  <2>1. PICK j \in 1..Len(page) : page[j].op = "FUNC" /\ c = page[j].name
    BY <1>4 DEF Calls
  <2>2. page[j] \in PageItems
    OBVIOUS
  <2> QED BY <2>1, <2>2, CallsAreOfFiles
<1>5. ASSUME NEW x \in wexec'
      PROVE  \E c \in Calls(wpage, "js") \cup Calls(first, "html") : x.call = c
  <2>1. PICK c \in Calls(wpage, "js") \cup Calls(first, "html") : x = APIExecuted(c)
    BY <1>2, <1>5 DEF ProcessTags
  <2>2. x.call = c
    BY <2>1 DEF APIExecuted
  <2> QED BY <2>2
<1>6. ASSUME NEW x \in wexec'
      PROVE  \E f \in DOMAIN WPages : \E i \in 1..Len(WPages[f]) :
               WPages[f][i].op = "FUNC" /\ WPages[f][i].name = x.call
  BY <1>1, <1>3, <1>4, <1>5, <1>6
<1>7. ValuesAreText'
  BY <1>6 DEF ValuesAreText
<1> QED BY <1>1, <1>7 DEF ValuesInv

LEMMA ValuesInvStep == ValuesInv /\ [WebNext]_webVars => ValuesInv'
<1> SUFFICES ASSUME ValuesInv, [WebNext]_webVars PROVE ValuesInv'
  OBVIOUS
<1>1. CASE \E c \in WConfigs : SetConfig(c)
  BY <1>1 DEF SetConfig, ValuesInv, ValuesAreText
<1>2. CASE \E r \in WRequests : ReceiveRequest(r)
  <2>1. wexec' = {} /\ wstage' \in {"idle", "session"}
    BY <1>2 DEF ReceiveRequest, AnswerNow
  <2> QED BY <2>1 DEF ValuesInv, ValuesAreText
<1>3. CASE SessionStartREST
  <2>1. wexec' = {} /\ wstage' = "dispatch"
    BY <1>3 DEF SessionStartREST, ValuesInv, wAnswer
  <2> QED BY <2>1 DEF ValuesInv, ValuesAreText
<1>4. CASE SessionStartMonolith
  <2>1. wexec' = {} /\ wstage' \in {"idle", "dispatch"}
    BY <1>4 DEF SessionStartMonolith, AnswerNow, ValuesInv
  <2> QED BY <2>1 DEF ValuesInv, ValuesAreText
<1>5. CASE DispatchAPI
  <2>1. wstage' = "cleanup" /\ wreq' = wreq /\ wexec' \in {{}, {APIExecuted(wreq.call)}}
    BY <1>5 DEF DispatchAPI
  <2>2. \A x \in wexec' : x.call = wreq.call
    BY <2>1 DEF APIExecuted
  <2> QED BY <2>1, <2>2 DEF ValuesInv, ValuesAreText
<1>6. CASE DispatchFixed
  BY <1>6 DEF DispatchFixed, ValuesInv, ValuesAreText
<1>7. CASE APIProxy
  BY <1>7 DEF APIProxy, ValuesInv, ValuesAreText
<1>8. CASE HandleRegularFile
  <2>1. wexec' = {} /\ wstage' \in {"include", "cleanup"}
    BY <1>8 DEF HandleRegularFile, ValuesInv
  <2>2. wstage' = "include" => wpage' \in Seq(PageItems)
    <3> SUFFICES ASSUME wstage' = "include" PROVE wpage' \in Seq(PageItems)
      OBVIOUS
    <3>1. PICK p : p = RequestedFile(wreq)
      OBVIOUS
    <3>2. p.kind = "file" /\ p.mime \in {"page", "script"} /\ wpage' = WPages[p.file]
      BY <1>8, <3>1 DEF HandleRegularFile
    <3>3. PICK d \in DOMAIN WDisk : p = WDisk[d]
      BY <3>1, <3>2, RequestedIsOnDisk
    <3>4. p.file \in DOMAIN WPages
      BY <3>2, <3>3, WebAssumption
    <3> QED BY <3>2, <3>4, PagesAreItems
  <2> QED BY <2>1, <2>2 DEF ValuesInv, ValuesAreText
<1>9. CASE ProcessInclude
  BY <1>9, IncludeStep
<1>10. CASE ProcessTags
  BY <1>10, TagsStep
<1>11. CASE SessionCleanup
  BY <1>11 DEF SessionCleanup, ValuesInv, ValuesAreText
<1>12. CASE UNCHANGED webVars
  BY <1>12 DEF webVars, wConnection, wAnswer, ValuesInv, ValuesAreText
<1> QED BY <1>1, <1>2, <1>3, <1>4, <1>5, <1>6, <1>7, <1>8, <1>9, <1>10, <1>11, <1>12 DEF WebNext

(* For any pages, files, endpoints, configurations and sequences of requests: the tags that run are those of the
   files, also of included ones, and never a value of the request that one of the two passes put into a page. *)
THEOREM ValuesStayText == WebSpec => []ValuesAreText
<1>1. WebInit => ValuesInv
  BY DEF WebInit, ValuesInv, ValuesAreText
<1>2. ValuesInv => ValuesAreText
  BY DEF ValuesInv
<1> QED BY <1>1, <1>2, ValuesInvStep, PTL DEF WebSpec

-----------------------------------------------------------------------------
(* What HTTPv1_Client reads of an answer. *)

HWireItem ==
  {<<"byte", 0>>, <<"crlf", 0>>} \cup {<<"size", n>> : n \in Nat} \cup {<<"status", c>> : c \in Nat}
    \cup {<<"headers", h>> : h \in [framing : {"length", "chunked", "close"}, size : Nat]}

(* The chunks of an answer begin after ob[i] items and t[i] bytes. *)
Chunk(n) == << <<"size", n>> >> \o WireBytes(n) \o << <<"crlf", 0>> >>
ChunkPlaces(ob, t, a) ==
  LET m == Len(a.writes)
  IN /\ ob \in [0..m -> Nat] /\ t \in [0..m -> Nat]
     /\ ob[0] = 0 /\ t[0] = 0 /\ t[m] = AnswerSize(a)
     /\ \A i \in 1..m : ob[i] = ob[i - 1] + a.writes[i] + 2 /\ t[i] = t[i - 1] + a.writes[i]
     /\ \A i \in 1..m : Chunked(a)[ob[i - 1] + 1] = <<"size", a.writes[i]>>
     /\ Chunked(a)[ob[m] + 1] = <<"size", 0>>

LEMMA TailIs ==
  ASSUME NEW X, NEW s \in Seq(X), s # <<>>
  PROVE  Tail(s) \in Seq(X) /\ Len(Tail(s)) = Len(s) - 1 /\ \A k \in 1..(Len(s) - 1) : Tail(s)[k] = s[k + 1]
  OBVIOUS

LEMMA PrefixIs ==
  ASSUME NEW X, NEW s \in Seq(X), NEW n \in 0..Len(s)
  PROVE  SubSeq(s, 1, n) \in Seq(X) /\ Len(SubSeq(s, 1, n)) = n /\ \A k \in 1..n : SubSeq(s, 1, n)[k] = s[k]
<1>1. SubSeq(s, 1, n) \in Seq(X)
  OBVIOUS
<1>2. Len(SubSeq(s, 1, n)) = n
  OBVIOUS
<1>3. \A k \in 1..n : SubSeq(s, 1, n)[k] = s[k]
  OBVIOUS
<1> QED BY <1>1, <1>2, <1>3

LEMMA SizeIsNat ==
  ASSUME NEW a \in HContent
  PROVE  AnswerSize(a) \in Nat
<1>1. a.writes \in Seq(Nat)
  BY DEF HContent
<1>2. PICK t \in [0..Len(a.writes) -> Nat] : Sums(t, a.writes, Len(a.writes)) /\ Total(a.writes) = t[Len(a.writes)]
  BY <1>1, TotalSteps
<1>3. Len(a.writes) \in 0..Len(a.writes)
  BY <1>1
<1> QED BY <1>2, <1>3 DEF AnswerSize

LEMMA WireBytesSeq ==
  ASSUME NEW n \in Nat
  PROVE  WireBytes(n) \in Seq(HWireItem) /\ Len(WireBytes(n)) = n
<1>1. PICK w \in HWireItem : w = <<"byte", 0>>
  BY Zenon DEF HWireItem
<1>2. WireBytes(n) = [i \in 1..n |-> w]
  BY <1>1, Zenon DEF WireBytes
<1> QED BY <1>1, <1>2

LEMMA ChunkIs ==
  ASSUME NEW n \in Nat
  PROVE  Chunk(n) \in Seq(HWireItem) /\ Len(Chunk(n)) = n + 2 /\ Chunk(n)[1] = <<"size", n>>
<1>1. PICK x \in Seq(HWireItem) : x = << <<"size", n>> >> /\ Len(x) = 1 /\ x[1] = <<"size", n>>
  <2>1. PICK w \in HWireItem : w = <<"size", n>>
    BY Zenon DEF HWireItem
  <2>2. <<w>> \in Seq(HWireItem) /\ Len(<<w>>) = 1 /\ <<w>>[1] = w
    OBVIOUS
  <2> QED BY <2>1, <2>2, Zenon
<1>2. PICK y \in Seq(HWireItem) : y = WireBytes(n) /\ Len(y) = n
  BY WireBytesSeq
<1>3. PICK z \in Seq(HWireItem) : z = << <<"crlf", 0>> >> /\ Len(z) = 1
  <2>1. PICK w \in HWireItem : w = <<"crlf", 0>>
    BY Zenon DEF HWireItem
  <2>2. <<w>> \in Seq(HWireItem) /\ Len(<<w>>) = 1
    OBVIOUS
  <2> QED BY <2>1, <2>2, Zenon
<1>4. PICK v \in Seq(HWireItem) : v = x \o y /\ Len(v) = n + 1 /\ v[1] = x[1]
  <2>1. x \o y \in Seq(HWireItem) /\ Len(x \o y) = 1 + n
    BY <1>1, <1>2
  <2>2. (x \o y)[1] = x[1]
    BY <1>1, <1>2
  <2>3. 1 + n = n + 1
    OBVIOUS
  <2> QED BY <2>1, <2>2, <2>3
<1>5. v \o z \in Seq(HWireItem) /\ Len(v \o z) = (n + 1) + 1 /\ (v \o z)[1] = v[1]
  BY <1>3, <1>4
<1>6. Chunk(n) = v \o z
  BY <1>1, <1>2, <1>3, <1>4, Zenon DEF Chunk
<1>7. (n + 1) + 1 = n + 2
  OBVIOUS
<1> QED BY <1>1, <1>4, <1>5, <1>6, <1>7

LEMMA ChunksPlaced ==
  ASSUME NEW a \in HContent
  PROVE  Chunked(a) \in Seq(HWireItem) /\ \E ob, t : ChunkPlaces(ob, t, a)
<1>1. PICK w \in Seq(Nat \ {0}) : w = a.writes
  BY DEF HContent
<1>2. PICK m \in Nat : m = Len(w)
  OBVIOUS
<1>3. PICK ss : ss = [i \in 1..m |-> Chunk(w[i])]
  OBVIOUS
<1>4. \A i \in 1..m : w[i] \in Nat
  BY <1>2
<1>5. ss \in Seq(Seq(HWireItem)) /\ Len(ss) = m
  <2>1. \A i \in 1..m : Chunk(w[i]) \in Seq(HWireItem)
    BY <1>4, ChunkIs
  <2>2. ss \in [1..m -> Seq(HWireItem)]
    BY <1>3, <2>1
  <2> QED BY <2>2
<1>6. PICK joined \in Seq(HWireItem) : joined = FlattenSeq(ss)
  BY <1>5, FlattenInSeq
<1>7. PICK ob \in [0..m -> Nat] : Places(ob, ss, joined, m)
  BY <1>5, <1>6, FlattenPlaces
<1>8. PICK z \in Seq(HWireItem) : z = << <<"size", 0>>, <<"crlf", 0>> >> /\ Len(z) = 2 /\ z[1] = <<"size", 0>>
  <2>1. PICK y \in HWireItem : y = <<"crlf", 0>>
    BY Zenon DEF HWireItem
  <2>2. PICK v \in HWireItem : v = <<"size", 0>>
    BY Zenon DEF HWireItem
  <2>3. <<v, y>> \in Seq(HWireItem) /\ Len(<<v, y>>) = 2 /\ <<v, y>>[1] = v
    OBVIOUS
  <2> QED BY <2>1, <2>2, <2>3, Zenon
<1>9. DOMAIN a.writes = 1..m
  BY <1>1, <1>2
<1>10. Chunked(a) = joined \o z
  BY <1>1, <1>3, <1>6, <1>8, <1>9, Zenon DEF Chunked, Chunk
<1>11. PICK l \in Nat : l = Len(joined) /\ l = ob[m]
  BY <1>7 DEF Places
<1>12. joined \o z \in Seq(HWireItem) /\ (\A k \in 1..l : (joined \o z)[k] = joined[k]) /\ (joined \o z)[l + 1] = z[1]
  <2>1. joined \o z \in Seq(HWireItem)
    OBVIOUS
  <2>2. \A k \in 1..Len(joined) : (joined \o z)[k] = joined[k]
    BY ConcatProperties
  <2>3. \A k \in 1..Len(z) : (joined \o z)[Len(joined) + k] = z[k]
    OBVIOUS
  <2>4. 1 \in 1..Len(z)
    BY <1>8
  <2> QED BY <2>1, <2>2, <2>3, <2>4, <1>11
<1>13. PICK t \in [0..m -> Nat] : Sums(t, w, m) /\ Total(w) = t[m]
  <2>1. w \in Seq(Nat)
    BY <1>2, <1>4, w \in [1..m -> Nat]
  <2> QED BY <2>1, <1>2, TotalSteps
<1>14. ASSUME NEW i \in 1..m PROVE ob[i] = ob[i - 1] + w[i] + 2 /\ Chunked(a)[ob[i - 1] + 1] = <<"size", w[i]>>
  <2>1. ss[i] = Chunk(w[i]) /\ w[i] \in Nat
    BY <1>3, <1>4
  <2>2. Len(ss[i]) = w[i] + 2 /\ ss[i][1] = <<"size", w[i]>>
    BY <2>1, ChunkIs
  <2>3. ob[i] = ob[i - 1] + Len(ss[i]) /\ ob[i] <= Len(joined) /\ \A j \in 1..Len(ss[i]) : joined[ob[i - 1] + j] = ss[i][j]
    BY <1>7 DEF Places
  <2>4. PICK x \in Nat, y \in Nat : x = ob[i - 1] /\ y = w[i]
    <3>1. ob[i - 1] \in Nat
      OBVIOUS
    <3> QED BY <2>1, <3>1, Zenon
  <2>5. ob[i] = x + (y + 2) /\ x + (y + 2) <= l
    BY <2>2, <2>3, <2>4, <1>11
  <2>6. 1 \in 1..Len(ss[i])
    BY <2>2, <2>4
  <2>7. joined[x + 1] = <<"size", w[i]>>
    BY <2>2, <2>3, <2>4, <2>6
  <2>8. x + 1 \in 1..l
    BY <2>5
  <2>9. x + (y + 2) = x + y + 2
    OBVIOUS
  <2> QED BY <2>4, <2>5, <2>7, <2>8, <2>9, <1>10, <1>12
<1>15. ob[0] = 0
  BY <1>7 DEF Places
<1>16. ChunkPlaces(ob, t, a)
  BY <1>1, <1>2, <1>8, <1>10, <1>11, <1>12, <1>13, <1>14, <1>15 DEF ChunkPlaces, Sums, AnswerSize
<1> QED BY <1>10, <1>12, <1>16

(* What an answer writes: its status, its headers and the chunks of its content, as far as it came. *)
Written(W, code, a, fate) ==
  /\ W \in Seq(HWireItem) /\ W = WrittenAs(code, a, fate)
  /\ Len(W) >= 2 => W[2] = <<"headers", [framing |-> Framing(a), size |-> AnswerSize(a)]>>
  /\ a.mode = "CHUNKS" => \A k \in Nat \ {0} : 2 + k <= Len(W) => W[2 + k] = Chunked(a)[k]

LEMMA AnswerWritten ==
  ASSUME NEW a \in HContent, NEW code \in Nat, NEW fate
  PROVE  \E W : Written(W, code, a, fate)
<1>1. PICK x \in HWireItem : x = <<"status", code>>
  BY Zenon DEF HWireItem
<1>2. PICK h \in [framing : {"length", "chunked", "close"}, size : Nat] : h = [framing |-> Framing(a), size |-> AnswerSize(a)]
  <2>1. PICK f \in {"length", "chunked", "close"} : f = Framing(a)
    BY DEF Framing
  <2>2. PICK z \in Nat : z = AnswerSize(a)
    BY SizeIsNat
  <2>3. [framing |-> f, size |-> z] \in [framing : {"length", "chunked", "close"}, size : Nat]
    OBVIOUS
  <2> QED BY <2>1, <2>2, <2>3, Zenon
<1>3. PICK y \in HWireItem : y = <<"headers", h>>
  BY Zenon DEF HWireItem
<1>4. PICK z \in Seq(HWireItem) : z = ContentOnWire(a) /\ (a.mode = "CHUNKS" => z = Chunked(a))
  BY ChunksPlaced, SizeIsNat, WireBytesSeq DEF ContentOnWire
<1>5. PICK s \in Seq(HWireItem) : s = <<x>> \o <<y>> /\ Len(s) = 2 /\ s[2] = y
  <2>1. PICK u \in Seq(HWireItem), w \in Seq(HWireItem) : u = <<x>> /\ w = <<y>>
    <3>1. <<x>> \in Seq(HWireItem) /\ <<y>> \in Seq(HWireItem)
      OBVIOUS
    <3> QED BY <3>1, Zenon
  <2>2. Len(u) = 1 /\ Len(w) = 1 /\ w[1] = y
    BY <2>1
  <2>3. u \o w \in Seq(HWireItem) /\ Len(u \o w) = Len(u) + Len(w) /\ \A k \in 1..Len(w) : (u \o w)[Len(u) + k] = w[k]
    OBVIOUS
  <2>4. Len(u \o w) = 2 /\ (u \o w)[1 + 1] = y /\ 1 + 1 = 2
    BY <2>2, <2>3
  <2> QED BY <2>1, <2>3, <2>4, Zenon
<1>6. PICK v \in Seq(HWireItem) : v = s \o z
  <2>1. s \o z \in Seq(HWireItem)
    OBVIOUS
  <2> QED BY <2>1, Zenon
<1>7. Len(v) = 2 + Len(z) /\ \A k \in 1..Len(z) : v[2 + k] = z[k]
  <2>1. Len(s \o z) = Len(s) + Len(z) /\ \A k \in 1..Len(z) : (s \o z)[Len(s) + k] = z[k]
    OBVIOUS
  <2>2. Len(s) = 2
    BY <1>5
  <2> QED BY <1>6, <2>1, <2>2, Zenon
<1>8. v[2] = y
  <2>1. \A k \in 1..Len(s) : (s \o z)[k] = s[k]
    OBVIOUS
  <2>2. Len(s) = 2 /\ s[2] = y
    BY <1>5
  <2>3. 2 \in 1..Len(s)
    BY <2>2
  <2> QED BY <1>6, <2>1, <2>2, <2>3
<1>9. a.mode = "CHUNKS" => \A k \in Nat \ {0} : 2 + k <= Len(v) => v[2 + k] = Chunked(a)[k]
  <2> SUFFICES ASSUME a.mode = "CHUNKS", NEW k \in Nat \ {0}, 2 + k <= Len(v) PROVE v[2 + k] = z[k]
    BY <1>4, Zenon
  <2>1. PICK l \in Nat : l = Len(z)
    OBVIOUS
  <2>2. k \in 1..l
    BY <2>1, <1>7
  <2> QED BY <2>1, <2>2, <1>7
<1>10. Written(<<>>, code, a, "status fails")
  BY DEF Written, WrittenAs
<1>11. Written(<<x>>, code, a, "headers fail")
  BY <1>1 DEF Written, WrittenAs
<1>12. Written(s, code, a, "content fails")
  <2>1. s = WrittenAs(code, a, "content fails")
    BY <1>1, <1>2, <1>3, <1>5 DEF WrittenAs
  <2>2. s[2] = <<"headers", [framing |-> Framing(a), size |-> AnswerSize(a)]>>
    BY <1>2, <1>3, <1>5, Zenon
  <2>3. Len(s) = 2
    BY <1>5
  <2>4. \A k \in Nat \ {0} : ~(2 + k <= 2)
    OBVIOUS
  <2> QED BY <2>1, <2>2, <2>3, <2>4 DEF Written
<1>13. ASSUME fate \notin {"status fails", "headers fail", "content fails"} PROVE Written(v, code, a, fate)
  <2>1. v = WrittenAs(code, a, fate)
    BY <1>13, <1>1, <1>2, <1>3, <1>4, <1>5, <1>6 DEF WrittenAs
  <2>2. v[2] = <<"headers", [framing |-> Framing(a), size |-> AnswerSize(a)]>>
    BY <1>2, <1>3, <1>8, Zenon
  <2> QED BY <2>1, <2>2, <1>9 DEF Written
<1> QED BY <1>10, <1>11, <1>12, <1>13

-----------------------------------------------------------------------------
(* What the server reads of its requests. *)

HItem == {<<"line", r>> : r \in HRequest} \cup {<<"headers", r>> : r \in HRequest} \cup {<<"byte", r>> : r \in HRequest}

(* The requests rs as they go over the connection: request i begins after o[i - 1] items. *)
Layout(rs, S, o) ==
  LET N == Len(rs)
  IN /\ rs \in Seq(HRequest) /\ S \in Seq(HItem) /\ o \in [0..N -> Nat]
     /\ o[0] = 0 /\ o[N] = Len(S)
     /\ \A i \in 1..N : o[i] = o[i - 1] + 2 + rs[i].body
     /\ \A i \in 1..N : S[o[i - 1] + 1] = <<"line", rs[i]>> /\ S[o[i - 1] + 2] = <<"headers", rs[i]>>
     /\ \A i \in 1..N : \A k \in 1..rs[i].body : S[o[i - 1] + 2 + k] = <<"byte", rs[i]>>

LEMMA StreamedIs ==
  ASSUME NEW r \in HRequest
  PROVE  /\ Streamed(r) \in Seq(HItem) /\ Len(Streamed(r)) = 2 + r.body
         /\ Streamed(r)[1] = <<"line", r>> /\ Streamed(r)[2] = <<"headers", r>>
         /\ \A k \in 1..r.body : Streamed(r)[2 + k] = <<"byte", r>>
<1>1. PICK x \in HItem : x = <<"line", r>>
  BY Zenon DEF HItem
<1>2. PICK y \in HItem : y = <<"headers", r>>
  BY Zenon DEF HItem
<1>3. PICK b \in HItem : b = <<"byte", r>>
  BY Zenon DEF HItem
<1>4. PICK n \in Nat : n = r.body
  BY DEF HRequest
<1>5. PICK s \in Seq(HItem) : s = <<x, y>> /\ Len(s) = 2 /\ s[1] = x /\ s[2] = y
  <2>1. <<x, y>> \in Seq(HItem) /\ Len(<<x, y>>) = 2 /\ <<x, y>>[1] = x /\ <<x, y>>[2] = y
    OBVIOUS
  <2> QED BY <2>1, Zenon
<1>6. PICK z \in Seq(HItem) : z = [i \in 1..n |-> b] /\ Len(z) = n /\ \A k \in 1..n : z[k] = b
  <2>1. [i \in 1..n |-> b] \in Seq(HItem) /\ Len([i \in 1..n |-> b]) = n
    OBVIOUS
  <2> QED BY <2>1, Zenon
<1>7. Streamed(r) = s \o z
  BY <1>1, <1>2, <1>3, <1>4, <1>5, <1>6, Zenon DEF Streamed
<1>8. s \o z \in Seq(HItem) /\ Len(s \o z) = 2 + n
  BY <1>5, <1>6
<1>9. (s \o z)[1] = x /\ (s \o z)[2] = y
  BY <1>5, <1>6
<1>10. \A k \in 1..n : (s \o z)[2 + k] = z[k]
  BY <1>5, <1>6
<1> QED BY <1>1, <1>2, <1>3, <1>4, <1>6, <1>7, <1>8, <1>9, <1>10

LEMMA LayoutExists ==
  ASSUME NEW rs \in Seq(HRequest), NEW S, S = FlattenSeq([i \in DOMAIN rs |-> Streamed(rs[i])])
  PROVE  \E o : Layout(rs, S, o)
<1>1. PICK m \in Nat : m = Len(rs)
  OBVIOUS
<1>2. \A i \in 1..m : rs[i] \in HRequest
  BY <1>1
<1>3. PICK ss : ss = [i \in 1..m |-> Streamed(rs[i])]
  OBVIOUS
<1>4. ss \in Seq(Seq(HItem)) /\ Len(ss) = m
  BY <1>2, <1>3, StreamedIs
<1>5. DOMAIN rs = 1..m
  BY <1>1
<1>6. S = FlattenSeq(ss)
  BY <1>3, <1>5, Zenon
<1>7. S \in Seq(HItem)
  BY <1>4, <1>6, FlattenInSeq
<1>8. PICK o \in [0..m -> Nat] : Places(o, ss, S, m)
  BY <1>4, <1>6, <1>7, FlattenPlaces
<1>9. ASSUME NEW i \in 1..m
      PROVE  /\ o[i] = o[i - 1] + 2 + rs[i].body
             /\ S[o[i - 1] + 1] = <<"line", rs[i]>> /\ S[o[i - 1] + 2] = <<"headers", rs[i]>>
             /\ \A k \in 1..rs[i].body : S[o[i - 1] + 2 + k] = <<"byte", rs[i]>>
  <2>1. PICK r \in HRequest : r = rs[i]
    BY <1>2
  <2>2. PICK n \in Nat : n = r.body
    BY DEF HRequest
  <2>3. PICK s \in Seq(HItem) : s = Streamed(r) /\ s = ss[i]
    BY <2>1, <1>3, StreamedIs
  <2>4. /\ Len(s) = 2 + n /\ s[1] = <<"line", r>> /\ s[2] = <<"headers", r>>
        /\ \A k \in 1..n : s[2 + k] = <<"byte", r>>
    BY <2>2, <2>3, StreamedIs
  <2>5. PICK x \in Nat : x = o[i - 1]
    OBVIOUS
  <2>6. o[i] = x + Len(s) /\ \A j \in 1..Len(s) : S[x + j] = s[j]
    BY <1>8, <2>3, <2>5, Zenon DEF Places
  <2>7. o[i] = x + 2 + n
    BY <2>4, <2>6
  <2>8. S[x + 1] = s[1] /\ S[x + 2] = s[2]
    <3>1. 1 \in 1..Len(s) /\ 2 \in 1..Len(s)
      BY <2>4
    <3> QED BY <3>1, <2>6
  <2>9. ASSUME NEW k \in 1..n PROVE S[x + 2 + k] = s[2 + k]
    <3>1. 2 + k \in 1..Len(s) /\ x + (2 + k) = x + 2 + k
      BY <2>4
    <3> QED BY <3>1, <2>6
  <2> QED BY <2>1, <2>2, <2>4, <2>5, <2>7, <2>8, <2>9
<1>10. o[0] = 0 /\ o[m] = Len(S)
  BY <1>8 DEF Places
<1> QED BY <1>1, <1>7, <1>8, <1>9, <1>10 DEF Layout

-----------------------------------------------------------------------------
(* The inductive invariant of a connection. *)

HReqs ==
  [line : Nat, minor : Nat, conn : {"", "close", "upgrade"}, host : Nat, auth : Nat, enabled : BOOLEAN, agent : Nat, length : Nat, got : Nat]
HRsps == [code : Nat, immutable : BOOLEAN, cookie : Nat, defaults : BOOLEAN]
HAnswers ==
  [req : Nat, code : Nat, close : BOOLEAN, kept : BOOLEAN, cookie : Nat,
   fate : {"ok", "status fails", "headers fail", "content fails"}]
HClients ==
  [sub : {"status", "headers", "content", "nullptr", "failed"},
   mode : {"CONTENT_LENGTH", "CONNECTION_CLOSE", "CHUNK_SIZE", "CHUNK_DATA", "CHUNK_CRLF", "CHUNK_CLOSE"},
   want : Int, total : Int, got : Int, result : {"none", "SUCCEED", "ERR_PARSING"}]

HTypes == hcont \in BOOLEAN /\ hprohibit \in BOOLEAN /\ hreq \in HReqs /\ hrsp \in HRsps /\ hstatus \in {"reading", "failed"}

(* The requests that the peer sends for a plan. *)
SentFor(p, rs) ==
  /\ p.answer \in HContent
  /\ \A i \in 1..Len(rs) : rs[i].id = p.requests[i].id /\ rs[i].len \in {0, rs[i].body}
  /\ p.client => Len(rs) = 1 /\ rs[1].ws = "none"

(* The server has read pos items of the stream S; the connection may have cut the end of it. *)
Unread(in, S, pos) ==
  /\ in \in Seq(HItem) /\ pos \in Nat /\ pos + Len(in) <= Len(S)
  /\ \A k \in 1..Len(in) : in[k] = S[pos + k]

Answers(as, rs) ==
  /\ as \in Seq(HAnswers) /\ Len(as) <= Len(rs)
  /\ \A i \in 1..Len(as) : as[i].req = rs[i].id /\ as[i].cookie \in {0, as[i].req}
  /\ \A i \in 1..(Len(as) - 1) : as[i].kept /\ as[i].fate = "ok"

SeenOwn(seen) ==
  seen # <<>> =>
    /\ seen[2].line = seen[1].id /\ {seen[2].host, seen[2].auth, seen[2].agent} \subseteq {0, seen[1].id}
    /\ seen[2].enabled = (seen[1].auth = "basic") /\ seen[2].got = seen[1].len

(* After n answers the next item is the line of a request, or a byte of the content of the
   last one that its headers did not announce. *)
Between(rs, o, n, pos) ==
  \/ pos = o[n]
  \/ n >= 1 /\ o[n - 1] + 2 <= pos /\ pos < o[n]

AtRequest(c, sub, rs, o, n, pos) ==
  \/ sub = "requestLine" /\ c = EmptyRequest /\ Between(rs, o, n, pos)
  \/ /\ sub = "headers" /\ n < Len(rs) /\ pos = o[n] + 1
     /\ c = [EmptyRequest EXCEPT !.line = rs[n + 1].id, !.minor = rs[n + 1].minor]
  \/ /\ sub = "content" /\ n < Len(rs) /\ pos = o[n] + 2 + c.got
     /\ c.got < c.length /\ c.length = rs[n + 1].len /\ rs[n + 1].len = rs[n + 1].body
     /\ c.line = rs[n + 1].id /\ {c.host, c.auth, c.agent} \subseteq {0, rs[n + 1].id}
     /\ c.enabled = (rs[n + 1].auth = "basic")

(* While the server reads requests: no answer before was the last one, and nothing of them is left. *)
Serving == hstatus = "reading" /\ hsub \in {"requestLine", "headers", "content"}
ServingState(rs, o, pos) ==
  /\ \A i \in 1..Len(hanswers) : hanswers[i].kept /\ hanswers[i].fate = "ok"
  /\ hanswers # <<>> => hprohibit
  /\ hrsp.cookie = 0
  /\ AtRequest(hreq, hsub, rs, o, Len(hanswers), pos)

(* HTTPv1_Client after q items of the wire, of an answer with content a. *)
InData(w, cl, x, ob, t) ==
  \E i \in 1..Len(w) :
    cl.want \in 1..w[i] /\ x = ob[i - 1] + 1 + (w[i] - cl.want) /\ cl.got = t[i - 1] + (w[i] - cl.want)
InChunks(a, cl, x) ==
  \E ob, t :
    /\ ChunkPlaces(ob, t, a)
    /\ \/ cl.mode = "CHUNK_SIZE" /\ \E i \in 0..Len(a.writes) : x = ob[i] /\ cl.got = t[i]
       \/ cl.mode = "CHUNK_DATA" /\ InData(a.writes, cl, x, ob, t)
       \/ cl.mode = "CHUNK_CRLF" /\ \E i \in 1..Len(a.writes) : x = ob[i] - 1 /\ cl.got = t[i]
       \/ cl.mode = "CHUNK_CLOSE" /\ cl.got = AnswerSize(a)
InContent(a, cl, q) ==
  /\ cl.sub = "content" /\ q >= 2
  /\ \/ a.known /\ cl.mode = "CONTENT_LENGTH" /\ cl.want >= 1 /\ cl.got + cl.want = AnswerSize(a)
     \/ ~a.known /\ a.mode # "CHUNKS" /\ cl.mode = "CONNECTION_CLOSE"
     \/ ~a.known /\ a.mode = "CHUNKS" /\ InChunks(a, cl, q - 2)
InAnswer(a, cl, q) ==
  \/ cl.sub = "status" /\ q = 0 /\ cl.got = 0
  \/ cl.sub = "headers" /\ q = 1 /\ cl.got = 0
  \/ InContent(a, cl, q)
  \/ cl.sub = "failed"
  \/ cl.sub = "nullptr" /\ cl.got = AnswerSize(a)
Remains(wire, W, q) ==
  /\ wire \in Seq(HWireItem) /\ q \in Nat /\ q + Len(wire) <= Len(W)
  /\ \A k \in 1..Len(wire) : wire[k] = W[q + k]

Counted(a) == ~(a.known /\ (a.mode = "CHUNKS" \/ AnswerSize(a) > HMaxPost))
ClientState(p, as, wire, cl) ==
  /\ as = <<>> \/ ~p.client => wire = <<>> /\ cl \in HClients /\ cl.sub = "status" /\ cl.got = 0
  /\ as # <<>> /\ p.client /\ as[1].code \in {200, 404} /\ Counted(p.answer) =>
       \E W, fate, q :
         /\ Written(W, as[1].code, p.answer, fate) /\ Remains(wire, W, q)
         /\ cl \in HClients /\ InAnswer(p.answer, cl, q)

HState(rs, S, o, pos) ==
  /\ Layout(rs, S, o) /\ SentFor(hplan, rs) /\ HTypes
  /\ Unread(hin, S, pos) /\ Answers(hanswers, rs) /\ SeenOwn(hseen)
  /\ hsub = "websocket" => hanswers = <<>>
  /\ Serving => ServingState(rs, o, pos)
  /\ ClientState(hplan, hanswers, hwire, hclient)

HInv == HTTPInit \/ \E rs, S, o, pos : HState(rs, S, o, pos)

LEMMA HInvSound == HInv => HTTPSound
<1>1. HTTPInit => HTTPSound
  BY DEF HTTPInit, HTTPSound, OwnRequestOnly, AnsweredInOrder, AnswerIsWhole, NewClient
<1>2. ASSUME NEW rs, NEW S, NEW o, NEW pos, HState(rs, S, o, pos) PROVE HTTPSound
  <2>1. PICK n \in Nat : n = Len(hanswers) /\ DOMAIN hanswers = 1..n
    BY <1>2 DEF HState, Answers
  <2>2. OwnRequestOnly
    BY <1>2, <2>1 DEF HState, Answers, SeenOwn, OwnRequestOnly
  <2>3. \A i \in 1..n : hanswers[i].req = hplan.requests[i].id
    <3>1. PICK N \in Nat : N = Len(rs)
      BY <1>2 DEF HState, Layout
    <3>2. n <= N
      BY <1>2, <2>1, <3>1 DEF HState, Answers
    <3>3. \A i \in 1..N : rs[i].id = hplan.requests[i].id
      BY <1>2, <3>1 DEF HState, SentFor
    <3>4. \A i \in 1..n : hanswers[i].req = rs[i].id
      BY <1>2, <2>1 DEF HState, Answers
    <3>5. \A i \in 1..n : i \in 1..N
      BY <3>2
    <3> QED BY <3>3, <3>4, <3>5
  <2>4. AnsweredInOrder
    BY <1>2, <2>1, <2>3 DEF HState, Answers, AnsweredInOrder
  <2>5. AnswerIsWhole
    <3> SUFFICES ASSUME hclient.sub = "nullptr", hanswers[1].code \in {200, 404}, Counted(hplan.answer)
                 PROVE  hclient.got = AnswerSize(hplan.answer)
      BY DEF AnswerIsWhole, Counted
    <3>1. ClientState(hplan, hanswers, hwire, hclient)
      BY <1>2 DEF HState
    <3>2. hanswers # <<>> /\ hplan.client
      BY <3>1, "nullptr" # "status" DEF ClientState
    <3>3. \E q : InAnswer(hplan.answer, hclient, q)
      BY <3>1, <3>2, Zenon DEF ClientState
    <3> QED BY <3>3 DEF InAnswer, InContent
  <2> QED BY <2>2, <2>4, <2>5 DEF HTTPSound
<1> QED BY <1>1, <1>2 DEF HInv

(* HTTPv1_Client sends a request of its own making, or only its line. *)
LEMMA ClientSends ==
  ASSUME NEW p, HPlan(p), p.client
  PROVE  \E rs, S, o : /\ Layout(rs, S, o) /\ SentFor(p, rs)
                       /\ Unread(StreamClientHeaders(p.requests[1]), S, 0)
<1>1. PICK r \in HRequest : r = p.requests[1] /\ r.ws = "none" /\ r.len \in {0, r.body}
  BY DEF HPlan
<1>2. ASSUME NEW s \in HRequest, s.id = r.id, s.ws = "none", s.len \in {0, s.body}
      PROVE  \E rs, S, o : Layout(rs, S, o) /\ SentFor(p, rs) /\ S = Streamed(s)
  <2>1. PICK rs \in Seq(HRequest) : rs = <<s>> /\ Len(rs) = 1 /\ rs[1] = s
    <3>1. <<s>> \in Seq(HRequest) /\ Len(<<s>>) = 1 /\ <<s>>[1] = s
      OBVIOUS
    <3> QED BY <3>1, Zenon
  <2>2. PICK t \in Seq(HItem) : t = Streamed(s)
    BY StreamedIs
  <2>3. [i \in DOMAIN rs |-> Streamed(rs[i])] = <<t>>
    BY <2>1, <2>2
  <2>4. FlattenSeq(<<t>>) = t
    <3>1. <<>> \in Seq(Seq(HItem)) /\ Append(<<>>, t) = <<t>>
      OBVIOUS
    <3>2. FlattenSeq(Append(<<>>, t)) = FlattenSeq(<<>>) \o t
      BY <3>1, FlattenAppend
    <3>3. <<>> \o t = t
      OBVIOUS
    <3> QED BY <3>1, <3>2, <3>3, FlattenEmpty
  <2>5. t = FlattenSeq([i \in DOMAIN rs |-> Streamed(rs[i])])
    BY <2>3, <2>4
  <2>6. PICK o : Layout(rs, t, o)
    BY <2>5, LayoutExists
  <2>7. SentFor(p, rs)
    BY <1>1, <1>2, <2>1 DEF SentFor, HPlan
  <2> QED BY <2>2, <2>6, <2>7
<1>3. CASE r.known
  <2>1. PICK s : s = [r EXCEPT !.len = r.body, !.auth = "none", !.agent = TRUE]
    OBVIOUS
  <2>2. s \in HRequest /\ s.id = r.id /\ s.ws = "none" /\ s.len = s.body
    BY <1>1, <2>1 DEF HRequest
  <2>3. PICK rs, S, o : Layout(rs, S, o) /\ SentFor(p, rs) /\ S = Streamed(s)
    BY <2>2, <1>2
  <2>4. StreamClientHeaders(p.requests[1]) = S
    BY <1>1, <1>3, <2>1, <2>3 DEF StreamClientHeaders
  <2>5. S \in Seq(HItem)
    BY <2>3 DEF Layout
  <2>6. Unread(S, S, 0)
    BY <2>5 DEF Unread
  <2> QED BY <2>3, <2>4, <2>6
<1>4. CASE ~r.known
  <2>1. PICK rs, S, o : Layout(rs, S, o) /\ SentFor(p, rs) /\ S = Streamed(r)
    BY <1>1, <1>2
  <2>2. S \in Seq(HItem) /\ Len(S) = 2 + r.body /\ r.body \in Nat
    BY <1>1, <2>1, StreamedIs DEF HRequest
  <2>3. PICK x \in HItem : x = S[1]
    BY <2>2
  <2>4. StreamClientHeaders(p.requests[1]) = <<x>>
    BY <1>1, <1>4, <2>1, <2>3 DEF StreamClientHeaders
  <2>5. Unread(<<x>>, S, 0)
    BY <2>2, <2>3 DEF Unread
  <2> QED BY <2>1, <2>4, <2>5
<1> QED BY <1>3, <1>4

LEMMA OpenStep == HTTPInit /\ OpenHTTP => HInv'
<1> SUFFICES ASSUME HTTPInit, OpenHTTP PROVE HInv'
  OBVIOUS
<1>1. PICK p \in HPlans :
        /\ hplan' = p
        /\ hin' = IF p.client THEN StreamClientHeaders(p.requests[1])
                  ELSE FlattenSeq([i \in DOMAIN p.requests |-> Streamed(p.requests[i])])
  BY DEF OpenHTTP
<1>2. HPlan(p)
  BY HTTPAssumption
<1>3. PICK rs, S, o : Layout(rs, S, o) /\ SentFor(p, rs) /\ Unread(hin', S, 0)
  <2>1. CASE p.client
    BY <2>1, <1>1, <1>2, ClientSends
  <2>2. CASE ~p.client
    <3>1. PICK rs \in Seq(HRequest) : rs = p.requests
      BY <1>2 DEF HPlan
    <3>2. PICK S : S = hin' /\ S = FlattenSeq([i \in DOMAIN rs |-> Streamed(rs[i])])
      BY <1>1, <2>2, <3>1
    <3>3. PICK o : Layout(rs, S, o)
      BY <3>2, LayoutExists
    <3>4. S \in Seq(HItem)
      BY <3>3 DEF Layout
    <3>5. Unread(S, S, 0)
      BY <3>4 DEF Unread
    <3>6. SentFor(p, rs)
      BY <1>2, <2>2, <3>1 DEF SentFor, HPlan
    <3> QED BY <3>2, <3>3, <3>5, <3>6
  <2> QED BY <2>1, <2>2
<1>4. HTypes'
  BY DEF HTTPInit, OpenHTTP, HTypes, HReqs, HRsps, EmptyRequest, EmptyResponse
<1>5. hanswers' = <<>> /\ hseen' = <<>> /\ hsub' = "requestLine" /\ hreq' = EmptyRequest /\ hrsp'.cookie = 0
      /\ hwire' = <<>> /\ hclient' = NewClient
  BY DEF HTTPInit, OpenHTTP, EmptyResponse
<1>6. Answers(<<>>, rs) /\ SeenOwn(<<>>)
  BY <1>3 DEF Answers, SeenOwn, Layout
<1>7. ClientState(p, <<>>, <<>>, NewClient)
  BY DEF ClientState, NewClient, HClients
<1>8. AtRequest(EmptyRequest, "requestLine", rs, o, 0, 0)
  BY <1>3 DEF AtRequest, Between, Layout
<1>9. ServingState(rs, o, 0)'
  <2>1. Len(<<>>) = 0
    OBVIOUS
  <2> QED BY <1>5, <1>8, <2>1 DEF ServingState
<1>10. HState(rs, S, o, 0)'
  BY <1>1, <1>3, <1>4, <1>5, <1>6, <1>7, <1>9 DEF HState
<1> QED BY <1>10 DEF HInv

(* One item is read. *)
LEMMA ReadOne ==
  ASSUME NEW in, NEW S, NEW pos, S \in Seq(HItem), Unread(in, S, pos), in # <<>>
  PROVE  /\ Unread(Tail(in), S, pos + 1) /\ Head(in) = S[pos + 1]
         /\ pos \in Nat /\ pos + 1 <= Len(S) /\ Head(in) \in HItem
<1>1. PICK s \in Seq(HItem) : s = in /\ Len(s) >= 1
  BY DEF Unread
<1>2. PICK n \in Nat \ {0} : n = Len(s)
  <2>1. Len(s) \in Nat \ {0}
    BY <1>1
  <2> QED BY <2>1, Zenon
<1>3. PICK l \in Nat : l = Len(S)
  OBVIOUS
<1>4. pos \in Nat /\ pos + n <= l /\ \A k \in 1..n : s[k] = S[pos + k]
  BY <1>1, <1>2, <1>3 DEF Unread
<1>5. PICK t \in Seq(HItem) : t = Tail(s) /\ Len(t) = n - 1 /\ \A k \in 1..(n - 1) : t[k] = s[k + 1]
  <2>1. s # <<>>
    BY <1>1
  <2>2. Tail(s) \in Seq(HItem) /\ Len(Tail(s)) = Len(s) - 1 /\ \A k \in 1..(Len(s) - 1) : Tail(s)[k] = s[k + 1]
    BY <2>1, TailIs
  <2> QED BY <1>2, <2>2, Zenon
<1>6. \A k \in 1..(n - 1) : t[k] = S[(pos + 1) + k]
  <2> TAKE k \in 1..(n - 1)
  <2>1. k + 1 \in 1..n /\ pos + (k + 1) = (pos + 1) + k
    BY <1>2, <1>4
  <2> QED BY <2>1, <1>4, <1>5
<1>7. Unread(t, S, pos + 1)
  BY <1>2, <1>3, <1>4, <1>5, <1>6 DEF Unread
<1>8. Head(s) = s[1] /\ s[1] \in HItem /\ 1 \in 1..n
  BY <1>1, <1>2
<1> QED BY <1>1, <1>2, <1>3, <1>4, <1>5, <1>7, <1>8

(* Request n + 1 is the next one to answer. *)
NextIs(as, rs, n) == n \in Nat /\ n = Len(as) /\ n < Len(rs)

LEMMA RequestAt ==
  ASSUME NEW rs, NEW S, NEW o, Layout(rs, S, o), NEW n \in Nat, n < Len(rs)
  PROVE  /\ n + 1 \in 1..Len(rs) /\ rs[n + 1] \in HRequest /\ o[n] \in Nat /\ o[n + 1] \in Nat
         /\ o[n + 1] = o[n] + 2 + rs[n + 1].body
         /\ S[o[n] + 1] = <<"line", rs[n + 1]>> /\ S[o[n] + 2] = <<"headers", rs[n + 1]>>
         /\ \A k \in 1..rs[n + 1].body : S[o[n] + 2 + k] = <<"byte", rs[n + 1]>>
<1>1. PICK N \in Nat : N = Len(rs) /\ n < N /\ o \in [0..N -> Nat] /\ rs \in Seq(HRequest)
  <2>1. rs \in Seq(HRequest) /\ o \in [0..Len(rs) -> Nat]
    BY DEF Layout
  <2>2. Len(rs) \in Nat
    BY <2>1
  <2> QED BY <2>1, <2>2, Zenon
<1>2. PICK i \in 1..N : i = n + 1 /\ i - 1 = n
  BY <1>1
<1>3. o[i] \in Nat /\ o[n] \in Nat /\ rs[i] \in HRequest
  BY <1>1, <1>2
<1>4. /\ o[i] = o[i - 1] + 2 + rs[i].body
      /\ S[o[i - 1] + 1] = <<"line", rs[i]>> /\ S[o[i - 1] + 2] = <<"headers", rs[i]>>
      /\ \A k \in 1..rs[i].body : S[o[i - 1] + 2 + k] = <<"byte", rs[i]>>
  BY <1>1, <1>2, Zenon DEF Layout
<1> QED BY <1>1, <1>2, <1>3, <1>4, Zenon

(* A step of the server that reads one item. *)
ReadsItem == hin # <<>> /\ hin' = Tail(hin) /\ hplan' = hplan /\ hclient' = hclient

LEMMA DropStep ==
  ASSUME NEW rs, NEW S, NEW o, NEW pos, HState(rs, S, o, pos), ReadsItem, hseen' = hseen,
         NEW c \in HReqs, NEW outcome \in {"reading", "failed"}, Drop(c, outcome)
  PROVE  HState(rs, S, o, pos + 1)'
<1>1. S \in Seq(HItem)
  BY DEF HState, Layout
<1>2. Unread(hin', S, pos + 1)
  BY <1>1, ReadOne DEF HState, ReadsItem
<1>3. HTypes'
  BY DEF HState, HTypes, Drop
<1>4. hsub' = "nullptr" /\ ~Serving'
  BY DEF Drop, Serving
<1>5. hanswers' = hanswers /\ hwire' = hwire
  BY DEF Drop
<1> QED BY <1>2, <1>3, <1>4, <1>5 DEF HState, ReadsItem

(* The step to a later part of the same request. *)
LEMMA GoToStep ==
  ASSUME NEW rs, NEW S, NEW o, NEW pos, HState(rs, S, o, pos), Serving, ReadsItem, hseen' = hseen,
         NEW c \in HReqs, NEW sub \in {"headers", "content"}, GoTo(sub, c),
         AtRequest(c, sub, rs, o, Len(hanswers), pos + 1)
  PROVE  HState(rs, S, o, pos + 1)'
<1>1. S \in Seq(HItem)
  BY DEF HState, Layout
<1>2. Unread(hin', S, pos + 1)
  BY <1>1, ReadOne DEF HState, ReadsItem
<1>3. HTypes'
  BY DEF HState, HTypes, GoTo
<1>4. hsub' = sub /\ hreq' = c /\ hsub' # "websocket"
  BY DEF GoTo
<1>5. hanswers' = hanswers /\ hwire' = hwire /\ hprohibit' = hprohibit /\ hrsp' = hrsp
  BY DEF GoTo
<1>6. ServingState(rs, o, pos)
  BY DEF HState
<1>7. ServingState(rs, o, pos + 1)'
  BY <1>4, <1>5, <1>6 DEF ServingState
<1> QED BY <1>2, <1>3, <1>4, <1>5, <1>7 DEF HState, ReadsItem



(* What an answer leaves behind. *)
Grown(as, rs, n, e) ==
  /\ Answers(Append(as, e), rs) /\ Append(as, e) # <<>> /\ Len(Append(as, e)) = n + 1
  /\ e.kept /\ e.fate = "ok" =>
       \A i \in 1..(n + 1) : Append(as, e)[i].kept /\ Append(as, e)[i].fate = "ok"
  /\ Append(as, e)[1] = IF n = 0 THEN e ELSE as[1]

LEMMA AnswersGrow ==
  ASSUME NEW as, NEW rs, Answers(as, rs), NEW n \in Nat, NextIs(as, rs, n), rs \in Seq(HRequest),
         \A i \in 1..n : as[i].kept /\ as[i].fate = "ok",
         NEW e \in HAnswers, e.req = rs[n + 1].id, e.cookie \in {0, e.req}
  PROVE  Grown(as, rs, n, e)
<1>1. as \in Seq(HAnswers) /\ Len(as) = n
  BY DEF Answers, NextIs
<1>2. PICK b \in Seq(HAnswers) : b = Append(as, e) /\ Len(b) = n + 1 /\ b[n + 1] = e /\ \A i \in 1..n : b[i] = as[i]
  <2>1. as \in Seq(HAnswers)
    BY <1>1
  <2>2. Append(as, e) \in Seq(HAnswers) /\ Len(Append(as, e)) = Len(as) + 1
    BY <2>1, AppendProperties
  <2>3. Append(as, e)[Len(as) + 1] = e
    BY <2>1, AppendProperties
  <2>4. \A i \in 1..Len(as) : Append(as, e)[i] = as[i]
    BY <2>1, AppendProperties
  <2> QED BY <1>1, <2>2, <2>3, <2>4, Zenon
<1>3. \A i \in 1..n : as[i].req = rs[i].id /\ as[i].cookie \in {0, as[i].req}
  BY DEF Answers, NextIs
<1>4. \A i \in 1..(n + 1) : i \in 1..n \/ i = n + 1
  OBVIOUS
<1>5. \A i \in 1..(n + 1) : b[i].req = rs[i].id /\ b[i].cookie \in {0, b[i].req}
  BY <1>2, <1>3, <1>4
<1>6. (n + 1) - 1 = n /\ n + 1 <= Len(rs)
  <2>1. PICK l \in Nat : l = Len(rs)
    BY rs \in Seq(HRequest)
  <2>2. n < l
    BY <2>1 DEF NextIs
  <2>3. (n + 1) - 1 = n /\ n + 1 <= l
    BY <2>2
  <2> QED BY <2>1, <2>3
<1>7. \A i \in 1..n : b[i].kept /\ b[i].fate = "ok"
  BY <1>2
<1>8. Answers(b, rs)
  BY <1>2, <1>5, <1>6, <1>7 DEF Answers
<1>9. b # <<>>
  <2>1. Len(b) = n + 1 /\ n + 1 # 0
    BY <1>2
  <2>2. Len(<<>>) = 0
    OBVIOUS
  <2> QED BY <2>1, <2>2, Zenon
<1>10. e.kept /\ e.fate = "ok" => \A i \in 1..(n + 1) : b[i].kept /\ b[i].fate = "ok"
  BY <1>2, <1>4, <1>7
<1>11. b[1] = IF n = 0 THEN e ELSE as[1]
  <2>1. CASE n = 0
    <3>1. n + 1 = 1
      BY <2>1
    <3> QED BY <2>1, <3>1, <1>2
  <2>2. CASE n # 0
    <3>1. 1 \in 1..n
      BY <2>2
    <3> QED BY <2>2, <3>1, <1>2
  <2> QED BY <2>1, <2>2
<1> QED BY <1>2, <1>8, <1>9, <1>10, <1>11 DEF Grown

AnsweredWith(p, as, wire, as2, wire2, e, a, fate) ==
  /\ p.answer \in HContent /\ a \in HContent /\ as2 # <<>>
  /\ as = <<>> => as2[1] = e
  /\ p.client => as = <<>>
  /\ e.code \in {200, 404} /\ p.client => a = p.answer
  /\ ~p.client => wire2 = wire
  /\ wire2 = wire \/ wire2 = wire \o WrittenAs(e.code, a, fate)

LEMMA ClientIsAnswered ==
  ASSUME NEW p, NEW as, NEW wire, NEW cl, ClientState(p, as, wire, cl), NEW e, NEW as2, NEW a, NEW fate, NEW wire2,
         AnsweredWith(p, as, wire, as2, wire2, e, a, fate)
  PROVE  ClientState(p, as2, wire2, cl)
<1> USE DEF AnsweredWith
<1>1. CASE ~p.client
  BY <1>1 DEF ClientState
<1>2. CASE p.client
  <2>1. wire = <<>> /\ cl \in HClients /\ cl.sub = "status" /\ cl.got = 0 /\ as2[1] = e
    BY <1>2 DEF ClientState
  <2>2. ASSUME e.code \in {200, 404}
        PROVE  \E W, f, q : Written(W, e.code, p.answer, f) /\ Remains(wire2, W, q) /\ InAnswer(p.answer, cl, q)
    <3>1. a = p.answer
      BY <1>2, <2>2
    <3>2. PICK W : Written(W, e.code, a, fate)
      <4>1. PICK code \in Nat : code = e.code
        BY <2>2
      <4>2. \E W : Written(W, code, a, fate)
        BY AnswerWritten
      <4> QED BY <4>1, <4>2
    <3>3. W \in Seq(HWireItem) /\ W = WrittenAs(e.code, a, fate)
      BY <3>2 DEF Written
    <3>4. <<>> \o W = W
      BY <3>3
    <3>5. wire2 = <<>> \/ wire2 = W
      BY <2>1, <3>3, <3>4
    <3>6. Remains(wire2, W, 0)
      <4>1. W \in Seq(HWireItem) /\ Len(W) \in Nat
        BY <3>3
      <4>2. Remains(<<>>, W, 0)
        BY <4>1 DEF Remains
      <4>3. Remains(W, W, 0)
        BY <4>1 DEF Remains
      <4> QED BY <3>5, <4>2, <4>3
    <3>7. InAnswer(p.answer, cl, 0)
      BY <2>1 DEF InAnswer
    <3> QED BY <3>1, <3>2, <3>6, <3>7
  <2> QED BY <1>2, <2>1, <2>2 DEF ClientState
<1> QED BY <1>1, <1>2

LEMMA BelowOne == \A n \in Nat : n < 1 => n = 0
  OBVIOUS

MayAnswer(p, rs, o, n, pos, c, s, cont, a) ==
  /\ c \in HReqs /\ c.line = rs[n + 1].id /\ s \in HRsps /\ s.cookie \in {0, c.line}
  /\ cont \in BOOLEAN /\ a \in HContent
  /\ s.code \in {200, 404} /\ p.client => a = p.answer
  /\ cont => Between(rs, o, n + 1, pos + 1)

LEMMA AnswerStep ==
  ASSUME NEW rs, NEW S, NEW o, NEW pos, HState(rs, S, o, pos), Serving, ReadsItem, SeenOwn(hseen'),
         NEW n \in Nat, NextIs(hanswers, rs, n),
         NEW c, NEW s, NEW cont, NEW a, MayAnswer(hplan, rs, o, n, pos, c, s, cont, a),
         SendFullHTTPResponse(c, s, cont, a)
  PROVE  HState(rs, S, o, pos + 1)'
<1> USE DEF MayAnswer
<1>1. S \in Seq(HItem) /\ rs \in Seq(HRequest)
  BY DEF HState, Layout
<1>2. Unread(hin', S, pos + 1)
  BY <1>1, ReadOne DEF HState, ReadsItem
<1>3. PICK keep \in BOOLEAN, close \in BOOLEAN, fate \in {"ok", "status fails", "headers fail", "content fails"} :
        /\ keep = (cont /\ c.conn # "close")
        /\ hsub' = IF keep /\ fate = "ok" THEN "requestLine" ELSE "nullptr"
        /\ hprohibit' = (hprohibit \/ keep) /\ hcont' = cont
        /\ hanswers' = Append(hanswers, [req |-> c.line, code |-> s.code, close |-> close, kept |-> keep, cookie |-> s.cookie, fate |-> fate])
        /\ hwire' = IF hplan.client /\ ~hcut THEN hwire \o WrittenAs(s.code, a, fate) ELSE hwire
        /\ hstatus' = IF fate = "ok" THEN "reading" ELSE "failed"
        /\ IF cont /\ fate \in {"ok", "content fails"} THEN Reset(c, s) ELSE hreq' = c /\ hrsp' = s
  BY DEF SendFullHTTPResponse
<1>4. PICK e \in HAnswers : e = [req |-> c.line, code |-> s.code, close |-> close, kept |-> keep, cookie |-> s.cookie, fate |-> fate]
  BY DEF HAnswers, HReqs, HRsps
<1>5. e.req = c.line /\ e.code = s.code /\ e.kept = keep /\ e.cookie = s.cookie /\ e.fate = fate /\ hanswers' = Append(hanswers, e)
  BY <1>3, <1>4
<1>6. ServingState(rs, o, pos) /\ Answers(hanswers, rs) /\ HTypes /\ SentFor(hplan, rs) /\ ClientState(hplan, hanswers, hwire, hclient)
  BY DEF HState
<1>7. \A i \in 1..n : hanswers[i].kept /\ hanswers[i].fate = "ok"
  BY <1>6 DEF ServingState, NextIs
<1>8. /\ Answers(hanswers', rs) /\ hanswers' # <<>> /\ Len(hanswers') = n + 1
      /\ keep /\ fate = "ok" => \A i \in 1..(n + 1) : hanswers'[i].kept /\ hanswers'[i].fate = "ok"
      /\ n = 0 => hanswers'[1] = e
  <2>1. e.req = rs[n + 1].id /\ e.cookie \in {0, e.req}
    BY <1>5
  <2>2. Grown(hanswers, rs, n, e)
    BY <1>1, <1>6, <1>7, <2>1, AnswersGrow
  <2> QED BY <1>5, <2>2, Zenon DEF Grown
<1>9. EmptyRequest \in HReqs /\ EmptyResponse \in HRsps /\ EmptyResponse.cookie = 0
  BY DEF EmptyRequest, EmptyResponse, HReqs, HRsps
<1>10. HTypes'
  BY <1>3, <1>6, <1>9 DEF HTypes, Reset
<1>11. ASSUME Serving' PROVE ServingState(rs, o, pos + 1)'
  <2>1. keep /\ fate = "ok" /\ cont /\ hsub' = "requestLine"
    BY <1>3, <1>11 DEF Serving
  <2>2. hreq' = EmptyRequest /\ hrsp' = EmptyResponse /\ hprohibit'
    BY <1>3, <2>1 DEF Reset
  <2>3. AtRequest(hreq', hsub', rs, o, n + 1, pos + 1)
    BY <2>1, <2>2 DEF AtRequest
  <2> QED BY <1>8, <1>9, <2>1, <2>2, <2>3 DEF ServingState
<1>12. hsub' # "websocket"
  BY <1>3
<1>13. ClientState(hplan, hanswers', hwire', hclient)
  <2>1. hplan.client => hanswers = <<>>
    <3> SUFFICES ASSUME hplan.client PROVE hanswers = <<>>
      OBVIOUS
    <3>1. n < 1
      BY <1>6 DEF SentFor, NextIs
    <3>2. n = 0
      BY <3>1, BelowOne, Zenon
    <3>3. hanswers \in Seq(HAnswers) /\ Len(hanswers) = 0
      BY <1>6, <3>2 DEF Answers, NextIs
    <3> QED BY <3>3, EmptySeq, Zenon
  <2>2. hanswers = <<>> => hanswers'[1] = e
    <3>1. hanswers = <<>> => n = 0
      BY DEF NextIs
    <3> QED BY <3>1, <1>8
  <2>3. hplan.answer \in HContent
    BY <1>6 DEF SentFor
  <2>4. ~hplan.client => hwire' = hwire
    BY <1>3
  <2>5. hwire' = hwire \/ hwire' = hwire \o WrittenAs(e.code, a, fate)
    BY <1>3, <1>5
  <2>6. e.code \in {200, 404} /\ hplan.client => a = hplan.answer
    BY <1>5
  <2>7. AnsweredWith(hplan, hanswers, hwire, hanswers', hwire', e, a, fate)
    BY <2>1, <2>2, <2>3, <2>4, <2>5, <2>6, <1>8, Zenon DEF AnsweredWith
  <2> QED BY <2>7, <1>6, ClientIsAnswered
<1> QED BY <1>2, <1>6, <1>8, <1>10, <1>11, <1>12, <1>13 DEF HState, ReadsItem

LEMMA RefuseStep ==
  ASSUME NEW rs, NEW S, NEW o, NEW pos, HState(rs, S, o, pos), Serving, ReadsItem, hseen' = hseen,
         NEW n \in Nat, NextIs(hanswers, rs, n),
         NEW c \in HReqs, c.line = rs[n + 1].id, NEW code \in Nat, code \in {200, 404} => ~hplan.client,
         Refuse(c, code)
  PROVE  HState(rs, S, o, pos + 1)'
<1>1. ServingState(rs, o, pos) /\ hrsp \in HRsps /\ SeenOwn(hseen)
  BY DEF HState, HTypes
<1>2. PICK s \in HRsps : s = [hrsp EXCEPT !.code = code] /\ s.cookie = 0 /\ s.code = code
  <2>1. PICK s : s = [hrsp EXCEPT !.code = code]
    OBVIOUS
  <2>2. s \in HRsps
    BY <1>1, <2>1 DEF HRsps
  <2>3. s.cookie = hrsp.cookie /\ s.code = code
    BY <1>1, <2>1 DEF HRsps
  <2>4. hrsp.cookie = 0
    BY <1>1 DEF ServingState
  <2> QED BY <2>1, <2>2, <2>3, <2>4, Zenon
<1>3. NoContent \in HContent
  BY DEF NoContent, HContent
<1>4. SendFullHTTPResponse(c, s, FALSE, NoContent)
  BY <1>2 DEF Refuse
<1>5. SeenOwn(hseen')
  BY <1>1
<1>6. MayAnswer(hplan, rs, o, n, pos, c, s, FALSE, NoContent)
  BY <1>2, <1>3 DEF MayAnswer
<1> QED BY <1>4, <1>5, <1>6, AnswerStep

(* All of the request c is of r. *)
OwnContent(c, r) ==
  /\ c \in HReqs /\ c.line = r.id /\ {c.host, c.auth, c.agent} \subseteq {0, r.id}
  /\ c.enabled = (r.auth = "basic") /\ c.got = r.len

LEMMA ContentStep ==
  ASSUME NEW rs, NEW S, NEW o, NEW pos, HState(rs, S, o, pos), Serving, ReadsItem,
         NEW n \in Nat, NextIs(hanswers, rs, n), NEW r \in HRequest, r = rs[n + 1],
         NEW c, OwnContent(c, r), Between(rs, o, n + 1, pos + 1), ContentReceived(c, r)
  PROVE  HState(rs, S, o, pos + 1)'
<1> USE DEF OwnContent
<1>1. ServingState(rs, o, pos) /\ hrsp \in HRsps /\ hcont \in BOOLEAN /\ hplan.answer \in HContent
  BY DEF HState, HTypes, SentFor
<1>2. SeenOwn(hseen')
  <2>1. hseen' = <<r, c>>
    BY DEF ContentReceived
  <2>2. <<r, c>>[1] = r /\ <<r, c>>[2] = c
    OBVIOUS
  <2>3. SeenOwn(<<r, c>>)
    BY <2>2, Zenon DEF SeenOwn
  <2> QED BY <2>1, <2>3
<1>3. PICK code \in {200, 404}, cookie \in {0, r.id}, cont \in {hcont, FALSE} :
        SendFullHTTPResponse(c, [hrsp EXCEPT !.code = code, !.cookie = IF cookie = 0 THEN @ ELSE cookie], cont, hplan.answer)
  BY DEF ContentReceived
<1>4. PICK s \in HRsps : /\ s = [hrsp EXCEPT !.code = code, !.cookie = IF cookie = 0 THEN @ ELSE cookie]
                         /\ s.cookie \in {0, r.id}
  <2>1. PICK s : s = [hrsp EXCEPT !.code = code, !.cookie = IF cookie = 0 THEN @ ELSE cookie]
    OBVIOUS
  <2>2. code \in Nat /\ cookie \in Nat
    <3>1. r.id \in Nat
      BY DEF HRequest
    <3>2. code = 200 \/ code = 404
      BY <1>3
    <3>3. cookie = 0 \/ cookie = r.id
      BY <1>3
    <3> QED BY <3>1, <3>2, <3>3
  <2>3. s \in HRsps
    BY <1>1, <2>1, <2>2 DEF HRsps
  <2>4. s.cookie = IF cookie = 0 THEN hrsp.cookie ELSE cookie
    BY <1>1, <2>1 DEF HRsps
  <2>5. hrsp.cookie = 0
    BY <1>1 DEF ServingState
  <2>6. s.cookie \in {0, r.id}
    BY <1>3, <2>4, <2>5
  <2> QED BY <2>1, <2>3, <2>6, Zenon
<1>5. cont \in BOOLEAN
  BY <1>1, <1>3
<1>6. SendFullHTTPResponse(c, s, cont, hplan.answer)
  BY <1>3, <1>4
<1>7. c.line = rs[n + 1].id /\ s.cookie \in {0, c.line}
  BY <1>4
<1>8. MayAnswer(hplan, rs, o, n, pos, c, s, cont, hplan.answer)
  BY <1>1, <1>4, <1>5, <1>7, Zenon DEF MayAnswer
<1> QED BY <1>2, <1>6, <1>8, AnswerStep

LEMMA PlaceInContent ==
  ASSUME NEW x \in Nat, NEW b \in Nat, NEW pos \in Nat, x + 2 <= pos, pos < x + 2 + b
  PROVE  (pos - (x + 1)) \in 1..b /\ x + 2 + (pos - (x + 1)) = pos + 1
  OBVIOUS

LEMMA ItemRead ==
  ASSUME NEW rs, NEW S, NEW o, NEW pos, HState(rs, S, o, pos), ReadsItem
  PROVE  Layout(rs, S, o) /\ Head(hin) = S[pos + 1] /\ pos \in Nat /\ pos + 1 <= Len(S)
<1>1. Layout(rs, S, o) /\ Unread(hin, S, pos) /\ hin # <<>>
  BY DEF HState, ReadsItem
<1>2. S \in Seq(HItem)
  BY <1>1 DEF Layout
<1> QED BY <1>1, <1>2, ReadOne

LEMMA LineIsNext ==
  ASSUME NEW rs, NEW S, NEW o, Layout(rs, S, o), NEW n \in Nat, n <= Len(rs),
         NEW pos \in Nat, pos + 1 <= Len(S), Between(rs, o, n, pos), S[pos + 1][1] = "line"
  PROVE  n < Len(rs) /\ pos = o[n]
<1>1. PICK N \in Nat, l \in Nat : N = Len(rs) /\ l = Len(S) /\ o[N] = l
  BY DEF Layout
<1>2. CASE pos = o[n]
  BY <1>1, <1>2
<1>3. CASE n >= 1 /\ o[n - 1] + 2 <= pos /\ pos < o[n]
  <2>1. PICK m \in Nat : n = m + 1 /\ m = n - 1 /\ m < Len(rs)
    BY <1>1, <1>3
  <2>2. PICK x \in Nat : x = o[m]
    BY <2>1, RequestAt
  <2>3. PICK b \in Nat : b = rs[m + 1].body
    BY <2>1, RequestAt DEF HRequest
  <2>4. o[n] = x + 2 + b
    BY <2>1, <2>2, <2>3, RequestAt
  <2>5. PICK k \in 1..b : x + 2 + k = pos + 1
    <3>1. x + 2 <= pos /\ pos < x + 2 + b
      BY <1>3, <2>1, <2>2, <2>4
    <3>2. (pos - (x + 1)) \in 1..b /\ x + 2 + (pos - (x + 1)) = pos + 1
      BY <3>1, PlaceInContent
    <3> QED BY <3>2, Zenon
  <2>6. S[x + 2 + k] = <<"byte", rs[m + 1]>>
    BY <2>1, <2>2, <2>3, RequestAt
  <2> QED BY <2>5, <2>6
<1> QED BY <1>2, <1>3 DEF Between

LEMMA RequestLineStep ==
  ASSUME NEW rs, NEW S, NEW o, NEW pos, HState(rs, S, o, pos), ReadRequestLine
  PROVE  HState(rs, S, o, pos + 1)'
<1>1. Serving /\ ReadsItem /\ hseen' = hseen /\ hsub = "requestLine"
  BY DEF ReadRequestLine, Reads, Serving, ReadsItem
<1>2. PICK n \in Nat : n = Len(hanswers) /\ n <= Len(rs)
  BY DEF HState, Answers
<1>3. hreq = EmptyRequest /\ Between(rs, o, n, pos) /\ hreq \in HReqs
  BY <1>1, <1>2 DEF HState, ServingState, AtRequest, HTypes
<1>4. PICK x : x = Head(hin)
  OBVIOUS
<1>5. Layout(rs, S, o) /\ x = S[pos + 1] /\ pos \in Nat /\ pos + 1 <= Len(S)
  BY <1>1, <1>4, ItemRead
<1>6. CASE x[1] # "line"
  <2>1. Drop(hreq, "failed")
    BY <1>4, <1>6 DEF ReadRequestLine
  <2> QED BY <1>1, <1>3, <2>1, DropStep
<1>7. CASE x[1] = "line"
  <2>1. n < Len(rs) /\ pos = o[n]
    BY <1>2, <1>3, <1>5, <1>7, LineIsNext
  <2>2. PICK r \in HRequest : r = rs[n + 1] /\ x = <<"line", r>>
    BY <1>5, <2>1, RequestAt
  <2>3. PICK c : c = [hreq EXCEPT !.line = r.id, !.minor = r.minor]
    OBVIOUS
  <2>4. c \in HReqs /\ c.line = r.id
    BY <1>3, <2>3 DEF HReqs, HRequest
  <2>5. IF r.major # 1 THEN Refuse(c, 505) ELSE GoTo("headers", c) \/ Drop(c, "reading")
    <3>1. Head(hin)[1] = "line" /\ Head(hin)[2] = r
      BY <1>4, <2>2
    <3>2. c = [hreq EXCEPT !.line = Head(hin)[2].id, !.minor = Head(hin)[2].minor]
      BY <2>3, <3>1
    <3> QED BY <3>1, <3>2, Zenon DEF ReadRequestLine
  <2>6. CASE Refuse(c, 505)
    <3>1. NextIs(hanswers, rs, n) /\ c.line = rs[n + 1].id
      BY <1>2, <2>1, <2>2, <2>4 DEF NextIs
    <3>2. 505 \in Nat /\ 505 \notin {200, 404}
      OBVIOUS
    <3> QED BY <1>1, <2>4, <2>6, <3>1, <3>2, RefuseStep
  <2>7. CASE GoTo("headers", c)
    <3>1. AtRequest(c, "headers", rs, o, n, pos + 1)
      BY <1>3, <2>1, <2>2, <2>3 DEF AtRequest
    <3> QED BY <1>1, <1>2, <2>4, <2>7, <3>1, GoToStep
  <2>8. CASE Drop(c, "reading")
    BY <1>1, <2>4, <2>8, DropStep
  <2> QED BY <2>5, <2>6, <2>7, <2>8
<1> QED BY <1>6, <1>7

(* The request c of the headers of r. *)
ParsedFrom(c, r) ==
  /\ c \in HReqs /\ c.line = r.id /\ {c.host, c.auth, c.agent} \subseteq {0, r.id}
  /\ c.enabled = (r.auth = "basic") /\ c.got = 0

LEMMA HeadersParsed ==
  ASSUME NEW r \in HRequest, NEW h \in HReqs,
         h = [EmptyRequest EXCEPT !.line = r.id, !.minor = r.minor]
  PROVE  /\ ParsedFrom(ParseAllClientHeaders(h, r), r)
         /\ ParsedFrom(SetupContentHandling(ParseAllClientHeaders(h, r), r), r)
         /\ r.len <= HMaxPost => SetupContentHandling(ParseAllClientHeaders(h, r), r).length = r.len
<1>1. PICK p \in HReqs : p = ParseAllClientHeaders(h, r)
  <2>1. r.id \in Nat /\ r.conn \in {"", "close", "upgrade"} /\ (r.auth = "basic") \in BOOLEAN
    BY DEF HRequest
  <2>2. ParseAllClientHeaders(h, r) \in HReqs
    BY <2>1 DEF ParseAllClientHeaders, HReqs
  <2> QED BY <2>2, Zenon
<1>2. h.line = r.id /\ h.host = 0 /\ h.auth = 0 /\ h.agent = 0 /\ h.got = 0
  BY DEF EmptyRequest
<1>3. p.line = r.id /\ p.host \in {0, r.id} /\ p.auth \in {0, r.id} /\ p.agent \in {0, r.id}
  BY <1>1, <1>2 DEF ParseAllClientHeaders, HReqs
<1>4. p.enabled = (r.auth = "basic") /\ p.got = 0
  BY <1>1, <1>2 DEF ParseAllClientHeaders, HReqs
<1>5. ParsedFrom(p, r)
  BY <1>3, <1>4 DEF ParsedFrom
<1>6. PICK c : c = SetupContentHandling(p, r)
  OBVIOUS
<1>7. r.len \in Nat /\ HMaxPost \in Nat
  BY HTTPAssumption DEF HRequest
<1>8. c \in HReqs /\ c.got = 0 /\ (r.len <= HMaxPost => c.length = r.len)
  <2>1. PICK l \in Nat : l = (IF r.len > HMaxPost THEN 0 ELSE r.len) /\ (r.len <= HMaxPost => l = r.len)
    BY <1>7
  <2>2. c = [p EXCEPT !.length = l, !.got = 0]
    BY <1>6, <2>1 DEF SetupContentHandling
  <2>3. c \in HReqs
    BY <2>2 DEF HReqs
  <2>4. c.got = 0 /\ c.length = l
    BY <2>2 DEF HReqs
  <2> QED BY <2>1, <2>3, <2>4
<1>9. c.line = p.line /\ c.host = p.host /\ c.auth = p.auth /\ c.agent = p.agent /\ c.enabled = p.enabled
  BY <1>6 DEF SetupContentHandling, HReqs
<1>10. ParsedFrom(c, r)
  BY <1>3, <1>4, <1>8, <1>9 DEF ParsedFrom
<1> QED BY <1>1, <1>5, <1>6, <1>8, <1>10

LEMMA UpgradeStep ==
  ASSUME NEW rs, NEW S, NEW o, NEW pos, HState(rs, S, o, pos), Serving, ReadsItem, hseen' = hseen, ~hprohibit,
         NEW n \in Nat, NextIs(hanswers, rs, n), NEW r,
         NEW c \in HReqs, c.line = rs[n + 1].id, UpgradeToWebSocket(c, r)
  PROVE  HState(rs, S, o, pos + 1)'
<1>1. CASE Refuse(c, 400)
  BY <1>1, RefuseStep
<1>2. CASE Refuse(c, 426)
  BY <1>2, RefuseStep
<1>3. CASE Drop(c, "failed")
  BY <1>3, DropStep
<1>4. CASE /\ hsub' = "websocket" /\ hreq' = c
           /\ hrsp' = [hrsp EXCEPT !.code = 101, !.immutable = TRUE]
           /\ UNCHANGED <<hcont, hprohibit, hanswers, hwire, hstatus>>
  <2>1. S \in Seq(HItem)
    BY DEF HState, Layout
  <2>2. Unread(hin', S, pos + 1)
    BY <2>1, ReadOne DEF HState, ReadsItem
  <2>3. HTypes'
    BY <1>4 DEF HState, HTypes, HRsps
  <2>4. hanswers' = <<>> /\ hanswers' = hanswers /\ hwire' = hwire
    BY <1>4 DEF HState, ServingState
  <2>5. ~Serving'
    BY <1>4 DEF Serving
  <2> QED BY <2>2, <2>3, <2>4, <2>5 DEF HState, ReadsItem
<1> QED BY <1>1, <1>2, <1>3, <1>4 DEF UpgradeToWebSocket

LEMMA HeadersStep ==
  ASSUME NEW rs, NEW S, NEW o, NEW pos, HState(rs, S, o, pos), ReadHeaders
  PROVE  HState(rs, S, o, pos + 1)'
<1>1. Serving /\ ReadsItem /\ hsub = "headers" /\ HeadersReceived(Head(hin)[2])
  BY DEF ReadHeaders, Reads, Serving, ReadsItem
<1>2. PICK n \in Nat : n = Len(hanswers) /\ n <= Len(rs)
  BY DEF HState, Answers
<1>3. /\ n < Len(rs) /\ pos = o[n] + 1 /\ hreq \in HReqs
      /\ hreq = [EmptyRequest EXCEPT !.line = rs[n + 1].id, !.minor = rs[n + 1].minor]
  BY <1>1, <1>2 DEF HState, ServingState, AtRequest, HTypes
<1>4. Layout(rs, S, o) /\ Head(hin) = S[pos + 1] /\ SentFor(hplan, rs)
  BY <1>1, ItemRead DEF HState
<1>5. PICK r \in HRequest, x \in Nat : r = rs[n + 1] /\ x = o[n] /\ S[x + 2] = <<"headers", r>> /\ o[n + 1] = x + 2 + r.body
  <2>1. /\ rs[n + 1] \in HRequest /\ o[n] \in Nat /\ S[o[n] + 2] = <<"headers", rs[n + 1]>>
        /\ o[n + 1] = o[n] + 2 + rs[n + 1].body
    <3>1. n < Len(rs) /\ Layout(rs, S, o)
      BY <1>3, <1>4
    <3> QED BY <3>1, RequestAt
  <2> QED BY <2>1, Zenon
<1>6. pos + 1 = x + 2 /\ pos = x + 1
  BY <1>3, <1>5
<1>7. HeadersReceived(r)
  BY <1>1, <1>4, <1>5, <1>6
<1>8. PICK p, c : p = ParseAllClientHeaders(hreq, r) /\ c = SetupContentHandling(p, r)
  OBVIOUS
<1>9. ParsedFrom(p, r) /\ ParsedFrom(c, r) /\ (r.len <= HMaxPost => c.length = r.len)
  BY <1>3, <1>5, <1>8, HeadersParsed
<1>10. p \in HReqs /\ c \in HReqs /\ p.line = rs[n + 1].id /\ c.line = rs[n + 1].id
  BY <1>5, <1>9 DEF ParsedFrom
<1>11. r.len \in {0, r.body} /\ r.body \in Nat /\ r.len \in Nat /\ HMaxPost \in Nat
  BY <1>3, <1>4, <1>5, RequestAt, HTTPAssumption DEF SentFor, HRequest
<1>12. \/ Refuse(p, 400) /\ UNCHANGED hseen
       \/ Refuse(c, 413) /\ UNCHANGED hseen
       \/ Drop(c, "reading") /\ UNCHANGED hseen
       \/ r.len <= HMaxPost /\ r.len = 0 /\ ContentReceived(c, r)
       \/ r.len <= HMaxPost /\ r.len > 0 /\ GoTo("content", c) /\ UNCHANGED hseen
       \/ Drop(c, "failed") /\ UNCHANGED hseen
       \/ r.ws # "none" /\ Refuse(c, 404) /\ UNCHANGED hseen
       \/ ~hprohibit /\ UpgradeToWebSocket(c, r) /\ UNCHANGED hseen
  BY <1>7, <1>8 DEF HeadersReceived
<1>21. NextIs(hanswers, rs, n)
  BY <1>2, <1>3 DEF NextIs
<1>22. 400 \in Nat /\ 413 \in Nat /\ 404 \in Nat /\ 400 \notin {200, 404} /\ 413 \notin {200, 404}
  OBVIOUS
<1>13. CASE Refuse(p, 400) /\ UNCHANGED hseen
  BY <1>1, <1>10, <1>13, <1>21, <1>22, RefuseStep
<1>14. CASE Refuse(c, 413) /\ UNCHANGED hseen
  BY <1>1, <1>10, <1>14, <1>21, <1>22, RefuseStep
<1>15. CASE Drop(c, "reading") /\ UNCHANGED hseen
  BY <1>1, <1>10, <1>15, DropStep
<1>16. CASE Drop(c, "failed") /\ UNCHANGED hseen
  BY <1>1, <1>10, <1>16, DropStep
<1>17. CASE r.ws # "none" /\ Refuse(c, 404) /\ UNCHANGED hseen
  <2>1. ~hplan.client
    <3> SUFFICES ASSUME hplan.client PROVE r.ws = "none"
      BY <1>17
    <3>1. Len(rs) = 1 /\ rs[1].ws = "none"
      BY <1>4 DEF SentFor
    <3>2. n + 1 = 1
      BY <1>3, <3>1
    <3> QED BY <1>5, <3>1, <3>2
  <2> QED BY <1>1, <1>10, <1>17, <1>21, <1>22, <2>1, RefuseStep
<1>18. CASE ~hprohibit /\ UpgradeToWebSocket(c, r) /\ UNCHANGED hseen
  BY <1>1, <1>10, <1>18, <1>21, UpgradeStep
<1>19. CASE r.len <= HMaxPost /\ r.len = 0 /\ ContentReceived(c, r)
  <2>1. Between(rs, o, n + 1, pos + 1)
    <3>1. (n + 1) - 1 = n /\ n + 1 >= 1
      OBVIOUS
    <3>2. x + 2 = o[n + 1] \/ x + 2 < o[n + 1]
      BY <1>5, <1>11
    <3>3. o[(n + 1) - 1] + 2 = x + 2
      BY <1>5, <3>1
    <3>4. x + 2 <= x + 2
      OBVIOUS
    <3> QED BY <1>6, <3>1, <3>2, <3>3, <3>4 DEF Between
  <2>2. /\ c \in HReqs /\ c.line = r.id /\ {c.host, c.auth, c.agent} \subseteq {0, r.id}
        /\ c.enabled = (r.auth = "basic") /\ c.got = r.len
    BY <1>9, <1>19 DEF ParsedFrom
  <2>3. r = rs[n + 1]
    BY <1>5
  <2>4. OwnContent(c, r)
    BY <2>2 DEF OwnContent
  <2> QED BY <1>1, <1>19, <1>21, <2>1, <2>3, <2>4, ContentStep
<1>20. CASE r.len <= HMaxPost /\ r.len > 0 /\ GoTo("content", c) /\ UNCHANGED hseen
  <2>1. r.len = r.body /\ c.length = r.len /\ c.got = 0 /\ c.got < c.length
    BY <1>9, <1>11, <1>20 DEF ParsedFrom
  <2>2. pos + 1 = o[n] + 2 + c.got
    BY <1>5, <1>6, <2>1
  <2>3. AtRequest(c, "content", rs, o, n, pos + 1)
    BY <1>3, <1>5, <1>9, <2>1, <2>2 DEF AtRequest, ParsedFrom
  <2> QED BY <1>1, <1>2, <1>10, <1>20, <2>3, GoToStep
<1> QED BY <1>12, <1>13, <1>14, <1>15, <1>16, <1>17, <1>18, <1>19, <1>20

LEMMA ReadContentStep ==
  ASSUME NEW rs, NEW S, NEW o, NEW pos, HState(rs, S, o, pos), ReadContent
  PROVE  HState(rs, S, o, pos + 1)'
<1>1. Serving /\ ReadsItem /\ hsub = "content"
  BY DEF ReadContent, Reads, Serving, ReadsItem
<1>2. PICK n \in Nat : n = Len(hanswers) /\ n <= Len(rs)
  BY DEF HState, Answers
<1>3. /\ n < Len(rs) /\ pos = o[n] + 2 + hreq.got /\ hreq \in HReqs
      /\ hreq.got < hreq.length /\ hreq.length = rs[n + 1].len /\ rs[n + 1].len = rs[n + 1].body
      /\ hreq.line = rs[n + 1].id /\ {hreq.host, hreq.auth, hreq.agent} \subseteq {0, rs[n + 1].id}
      /\ hreq.enabled = (rs[n + 1].auth = "basic")
  BY <1>1, <1>2 DEF HState, ServingState, AtRequest, HTypes
<1>4. Layout(rs, S, o) /\ Head(hin) = S[pos + 1]
  BY <1>1, ItemRead
<1>5. PICK r \in HRequest, x \in Nat :
        /\ r = rs[n + 1] /\ x = o[n] /\ o[n + 1] = x + 2 + r.body
        /\ \A k \in 1..r.body : S[x + 2 + k] = <<"byte", r>>
  <2>1. /\ rs[n + 1] \in HRequest /\ o[n] \in Nat /\ o[n + 1] = o[n] + 2 + rs[n + 1].body
        /\ \A k \in 1..rs[n + 1].body : S[o[n] + 2 + k] = <<"byte", rs[n + 1]>>
    <3>1. n < Len(rs) /\ Layout(rs, S, o)
      BY <1>3, <1>4
    <3> QED BY <3>1, RequestAt
  <2> QED BY <2>1, Zenon
<1>6. PICK g \in Nat, l \in Nat : g = hreq.got /\ l = hreq.length /\ g < l /\ l = r.body /\ l = r.len
  <2>1. hreq.got \in Nat /\ hreq.length \in Nat
    BY <1>3 DEF HReqs
  <2>2. hreq.length = r.len /\ r.len = r.body
    BY <1>3, <1>5
  <2> QED BY <1>3, <2>1, <2>2, Zenon
<1>7. g + 1 \in 1..l /\ pos + 1 = x + 2 + (g + 1)
  <2>1. pos = x + 2 + g
    BY <1>3, <1>5, <1>6, Zenon
  <2>2. g < l
    BY <1>6
  <2> QED BY <2>1, <2>2
<1>8. Head(hin)[2] = r
  <2>1. S[x + 2 + (g + 1)] = <<"byte", r>>
    BY <1>5, <1>6, <1>7, Zenon
  <2>2. Head(hin) = <<"byte", r>>
    BY <1>4, <1>7, <2>1, Zenon
  <2> QED BY <2>2
<1>9. PICK c \in HReqs : c = [hreq EXCEPT !.got = @ + 1]
  <2>1. hreq \in HReqs
    BY <1>3
  <2>2. PICK k \in Nat : k = g + 1
    OBVIOUS
  <2>3. [hreq EXCEPT !.got = @ + 1] = [hreq EXCEPT !.got = k]
    BY <1>6, <2>2
  <2>4. [hreq EXCEPT !.got = k] \in HReqs
    BY <2>1 DEF HReqs
  <2> QED BY <2>3, <2>4, Zenon
<1>10. c.got = g + 1 /\ c.length = l
  BY <1>3, <1>6, <1>9 DEF HReqs
<1>11. c.line = hreq.line /\ c.host = hreq.host /\ c.auth = hreq.auth /\ c.agent = hreq.agent /\ c.enabled = hreq.enabled
  BY <1>3, <1>9 DEF HReqs
<1>12. c.line = r.id /\ {c.host, c.auth, c.agent} \subseteq {0, r.id} /\ c.enabled = (r.auth = "basic")
  BY <1>3, <1>5, <1>11, Zenon
<1>13. IF c.got = c.length THEN ContentReceived(c, r) ELSE GoTo("content", c) /\ UNCHANGED hseen
  BY <1>8, <1>9 DEF ReadContent
<1>14. CASE c.got = c.length
  <2>1. o[n + 1] = pos + 1 /\ c.got = r.len
    BY <1>5, <1>6, <1>7, <1>10, <1>14
  <2>2. Between(rs, o, n + 1, pos + 1)
    BY <2>1 DEF Between
  <2>3. NextIs(hanswers, rs, n)
    BY <1>2, <1>3 DEF NextIs
  <2>4. r = rs[n + 1]
    BY <1>5
  <2>5. OwnContent(c, r)
    BY <1>12, <2>1 DEF OwnContent
  <2>6. ContentReceived(c, r)
    BY <1>13, <1>14
  <2> QED BY <1>1, <2>2, <2>3, <2>4, <2>5, <2>6, ContentStep
<1>15. CASE c.got # c.length
  <2>1. c.got < c.length /\ pos + 1 = o[n] + 2 + c.got
    BY <1>5, <1>6, <1>7, <1>10, <1>15
  <2>2. AtRequest(c, "content", rs, o, n, pos + 1)
    BY <1>3, <1>5, <1>6, <1>10, <1>12, <2>1 DEF AtRequest
  <2> QED BY <1>1, <1>2, <1>13, <1>15, <2>2, GoToStep
<1> QED BY <1>14, <1>15

(* The connection ends: a prefix of what was under way still arrives. *)
LEMMA CutStep ==
  ASSUME NEW rs, NEW S, NEW o, NEW pos, HState(rs, S, o, pos), CutConnection
  PROVE  HState(rs, S, o, pos)'
<1>1. UNCHANGED <<hplan, hsub, hcont, hprohibit, hreq, hrsp, hstatus, hanswers, hseen, hclient>>
  BY DEF CutConnection
<1>2. PICK k \in 0..Len(hin), j \in 0..Len(hwire) : hin' = SubSeq(hin, 1, k) /\ hwire' = SubSeq(hwire, 1, j)
  BY DEF CutConnection
<1>3. Unread(hin', S, pos)
  <2>1. PICK s \in Seq(HItem) : s = hin
    BY DEF HState, Unread
  <2>2. PICK l \in Nat, m \in Nat : l = Len(s) /\ m = Len(S)
    BY DEF HState, Layout
  <2>3. pos \in Nat /\ pos + l <= m /\ \A i \in 1..l : s[i] = S[pos + i]
    BY <2>1, <2>2 DEF HState, Unread
  <2>4. k \in 0..l
    BY <1>2, <2>1, <2>2
  <2>5. PICK t \in Seq(HItem) : t = SubSeq(s, 1, k) /\ Len(t) = k /\ \A i \in 1..k : t[i] = s[i]
    <3>1. k \in 0..Len(s)
      BY <2>2, <2>4, Zenon
    <3>2. SubSeq(s, 1, k) \in Seq(HItem) /\ Len(SubSeq(s, 1, k)) = k /\ \A i \in 1..k : SubSeq(s, 1, k)[i] = s[i]
      BY <3>1, PrefixIs
    <3> QED BY <3>2, Zenon
  <2>6. \A i \in 1..k : t[i] = S[pos + i]
    BY <2>3, <2>4, <2>5
  <2>7. Unread(t, S, pos)
    BY <2>2, <2>3, <2>4, <2>5, <2>6 DEF Unread
  <2> QED BY <1>2, <2>1, <2>5, <2>7
<1>4. ClientState(hplan, hanswers, hwire', hclient)
  <2>1. ClientState(hplan, hanswers, hwire, hclient)
    BY DEF HState
  <2>2. hwire = <<>> => hwire' = <<>>
    BY <1>2
  <2>3. ASSUME NEW W, NEW q, W \in Seq(HWireItem), Remains(hwire, W, q) PROVE Remains(hwire', W, q)
    <3>1. PICK s \in Seq(HWireItem) : s = hwire
      BY <2>3 DEF Remains
    <3>2. PICK l \in Nat, m \in Nat : l = Len(s) /\ m = Len(W)
      BY <2>3
    <3>3. q \in Nat /\ q + l <= m /\ \A i \in 1..l : s[i] = W[q + i]
      BY <2>3, <3>1, <3>2 DEF Remains
    <3>4. j \in 0..l
      BY <1>2, <3>1, <3>2
    <3>5. PICK t \in Seq(HWireItem) : t = SubSeq(s, 1, j) /\ Len(t) = j /\ \A i \in 1..j : t[i] = s[i]
      <4>1. j \in 0..Len(s)
        BY <3>2, <3>4, Zenon
      <4>2. SubSeq(s, 1, j) \in Seq(HWireItem) /\ Len(SubSeq(s, 1, j)) = j /\ \A i \in 1..j : SubSeq(s, 1, j)[i] = s[i]
        BY <4>1, PrefixIs
      <4> QED BY <4>2, Zenon
    <3>6. \A i \in 1..j : t[i] = W[q + i]
      BY <3>3, <3>4, <3>5
    <3>7. Remains(t, W, q)
      BY <3>2, <3>3, <3>4, <3>5, <3>6 DEF Remains
    <3> QED BY <1>2, <3>1, <3>5, <3>7
  <2>4. ASSUME hanswers # <<>>, hplan.client, hanswers[1].code \in {200, 404}, Counted(hplan.answer)
        PROVE  \E W, fate, q :
                 /\ Written(W, hanswers[1].code, hplan.answer, fate) /\ Remains(hwire', W, q)
                 /\ hclient \in HClients /\ InAnswer(hplan.answer, hclient, q)
    <3>1. PICK W, fate, q :
            /\ Written(W, hanswers[1].code, hplan.answer, fate) /\ Remains(hwire, W, q)
            /\ hclient \in HClients /\ InAnswer(hplan.answer, hclient, q)
      BY <2>1, <2>4, Zenon DEF ClientState
    <3>2. W \in Seq(HWireItem)
      BY <3>1 DEF Written
    <3>3. Remains(hwire', W, q)
      BY <3>1, <3>2, <2>3
    <3> QED BY <3>1, <3>3, Zenon
  <2> QED BY <2>1, <2>2, <2>4 DEF ClientState
<1>5. HTypes'
  BY <1>1 DEF HState, HTypes
<1>6. Serving' => ServingState(rs, o, pos)'
  BY <1>1 DEF HState, Serving, ServingState
<1> QED BY <1>1, <1>3, <1>4, <1>5, <1>6 DEF HState

(* One item of an answer is read by HTTPv1_Client. *)
LEMMA TakeOne ==
  ASSUME NEW W \in Seq(HWireItem), NEW wire, NEW q, Remains(wire, W, q), wire # <<>>
  PROVE  Remains(Tail(wire), W, q + 1) /\ Head(wire) = W[q + 1] /\ q \in Nat /\ q + 1 <= Len(W)
<1>1. PICK s \in Seq(HWireItem) : s = wire /\ Len(s) >= 1
  BY DEF Remains
<1>2. PICK n \in Nat \ {0} : n = Len(s)
  <2>1. Len(s) \in Nat \ {0}
    BY <1>1
  <2> QED BY <2>1, Zenon
<1>3. PICK l \in Nat : l = Len(W)
  OBVIOUS
<1>4. q \in Nat /\ q + n <= l /\ \A k \in 1..n : s[k] = W[q + k]
  BY <1>1, <1>2, <1>3 DEF Remains
<1>5. PICK t \in Seq(HWireItem) : t = Tail(s) /\ Len(t) = n - 1 /\ \A k \in 1..(n - 1) : t[k] = s[k + 1]
  <2>1. s # <<>>
    BY <1>1
  <2>2. Tail(s) \in Seq(HWireItem) /\ Len(Tail(s)) = Len(s) - 1 /\ \A k \in 1..(Len(s) - 1) : Tail(s)[k] = s[k + 1]
    BY <2>1, TailIs
  <2> QED BY <1>2, <2>2, Zenon
<1>6. \A k \in 1..(n - 1) : t[k] = W[(q + 1) + k]
  <2> TAKE k \in 1..(n - 1)
  <2>1. k + 1 \in 1..n /\ q + (k + 1) = (q + 1) + k
    BY <1>2, <1>4
  <2> QED BY <2>1, <1>4, <1>5
<1>7. Remains(t, W, q + 1)
  BY <1>2, <1>3, <1>4, <1>5, <1>6 DEF Remains
<1>8. Head(s) = s[1] /\ 1 \in 1..n
  BY <1>1, <1>2
<1> QED BY <1>1, <1>2, <1>3, <1>4, <1>5, <1>7, <1>8

(* The headers decide how the content is read. *)
LEMMA HeadersDecide ==
  ASSUME NEW a \in HContent, Counted(a), hclient \in HClients, hclient.got = 0,
         NEW h, h = [framing |-> Framing(a), size |-> AnswerSize(a)]
  PROVE  TransmissionMode(h) \in HClients /\ InAnswer(a, TransmissionMode(h), 2)
<1>1. PICK z \in Nat : z = AnswerSize(a) /\ h.size = z /\ h.framing = Framing(a)
  BY SizeIsNat
<1>2. PICK cl : cl = TransmissionMode(h)
  OBVIOUS
<1>3. a.known \in BOOLEAN /\ HMaxPost \in Nat
  BY HTTPAssumption DEF HContent
<1>4. CASE a.known
  <2>1. h.framing = "length" /\ z <= HMaxPost
    BY <1>1, <1>3, <1>4 DEF Counted, Framing
  <2>2. CASE z = 0
    <3>1. cl = [hclient EXCEPT !.sub = "nullptr", !.mode = "CONTENT_LENGTH"]
      BY <1>1, <1>2, <2>1, <2>2 DEF TransmissionMode
    <3>2. cl \in HClients /\ cl.sub = "nullptr" /\ cl.got = 0
      BY <3>1 DEF HClients
    <3> QED BY <1>1, <1>2, <2>2, <3>2 DEF InAnswer
  <2>3. CASE z # 0
    <3>1. cl = [hclient EXCEPT !.sub = "content", !.mode = "CONTENT_LENGTH", !.want = z]
      BY <1>1, <1>2, <1>3, <2>1, <2>3 DEF TransmissionMode
    <3>2. cl \in HClients /\ cl.sub = "content" /\ cl.got = 0 /\ cl.want = z /\ cl.mode = "CONTENT_LENGTH"
      <4>1. PICK u \in Int : u = z
        OBVIOUS
      <4>2. cl = [hclient EXCEPT !.sub = "content", !.mode = "CONTENT_LENGTH", !.want = u]
        BY <3>1, <4>1
      <4>3. cl \in HClients
        BY <4>2 DEF HClients
      <4>4. cl.sub = "content" /\ cl.got = 0 /\ cl.want = u /\ cl.mode = "CONTENT_LENGTH"
        BY <4>2 DEF HClients
      <4> QED BY <4>1, <4>3, <4>4
    <3>3. cl.got + cl.want = z /\ cl.want >= 1
      BY <2>3, <3>2
    <3> QED BY <1>1, <1>2, <1>4, <3>2, <3>3 DEF InAnswer, InContent
  <2> QED BY <2>2, <2>3
<1>5. CASE ~a.known /\ a.mode = "CHUNKS"
  <2>1. h.framing = "chunked"
    BY <1>1, <1>5 DEF Framing
  <2>2. cl = [hclient EXCEPT !.sub = "content", !.mode = "CHUNK_SIZE"]
    BY <1>2, <2>1 DEF TransmissionMode
  <2>3. cl \in HClients /\ cl.sub = "content" /\ cl.got = 0 /\ cl.mode = "CHUNK_SIZE"
    BY <2>2 DEF HClients
  <2>4. PICK ob, t : ChunkPlaces(ob, t, a)
    BY ChunksPlaced
  <2>5. ob[0] = 0 /\ t[0] = 0 /\ 0 \in 0..Len(a.writes)
    BY <2>4 DEF ChunkPlaces, HContent
  <2>6. InChunks(a, cl, 0)
    BY <2>3, <2>4, <2>5 DEF InChunks
  <2> QED BY <1>2, <1>5, <2>3, <2>6 DEF InAnswer, InContent
<1>6. CASE ~a.known /\ a.mode # "CHUNKS"
  <2>1. h.framing = "close"
    BY <1>1, <1>6 DEF Framing
  <2>2. cl = [hclient EXCEPT !.sub = "content", !.mode = "CONNECTION_CLOSE", !.want = HMaxPost]
    BY <1>2, <2>1 DEF TransmissionMode
  <2>3. cl \in HClients /\ cl.sub = "content" /\ cl.mode = "CONNECTION_CLOSE"
    <3>1. PICK u \in Int : u = HMaxPost
      BY <1>3
    <3>2. cl = [hclient EXCEPT !.sub = "content", !.mode = "CONNECTION_CLOSE", !.want = u]
      BY <2>2, <3>1
    <3>3. cl \in HClients
      BY <3>2 DEF HClients
    <3>4. cl.sub = "content" /\ cl.mode = "CONNECTION_CLOSE"
      BY <3>2 DEF HClients
    <3> QED BY <3>3, <3>4
  <2> QED BY <1>2, <1>6, <2>3 DEF InAnswer, InContent
<1> QED BY <1>3, <1>4, <1>5, <1>6

(* One item of a chunk: nothing but the size 0 after the last chunk ends the content. *)
LEMMA ChunkRead ==
  ASSUME NEW a \in HContent, hclient \in HClients, hclient.sub = "content", NEW x \in Nat,
         InChunks(a, hclient, x), NEW item, item = Chunked(a)[x + 1]
  PROVE  /\ ParseContent(item) \in HClients
         /\ \/ ParseContent(item).sub = "failed"
            \/ ParseContent(item).sub = "nullptr" /\ ParseContent(item).got = AnswerSize(a)
            \/ ParseContent(item).sub = "content" /\ InChunks(a, ParseContent(item), x + 1)
<1>1. PICK cl : cl = ParseContent(item)
  OBVIOUS
<1>2. PICK w \in Seq(Nat \ {0}) : w = a.writes
  BY DEF HContent
<1>3. PICK m \in Nat : m = Len(w)
  OBVIOUS
<1>4. \A i \in 1..m : w[i] \in Nat \ {0}
  BY <1>3
<1>5. PICK ob, t :
        /\ ChunkPlaces(ob, t, a)
        /\ \/ hclient.mode = "CHUNK_SIZE" /\ \E i \in 0..m : x = ob[i] /\ hclient.got = t[i]
           \/ hclient.mode = "CHUNK_DATA" /\ InData(w, hclient, x, ob, t)
           \/ hclient.mode = "CHUNK_CRLF" /\ \E i \in 1..m : x = ob[i] - 1 /\ hclient.got = t[i]
           \/ hclient.mode = "CHUNK_CLOSE" /\ hclient.got = AnswerSize(a)
  BY <1>2, <1>3, Zenon DEF InChunks
<1>6. /\ ob \in [0..m -> Nat] /\ t \in [0..m -> Nat] /\ t[m] = AnswerSize(a)
      /\ \A i \in 1..m : ob[i] = ob[i - 1] + w[i] + 2 /\ t[i] = t[i - 1] + w[i]
      /\ \A i \in 1..m : Chunked(a)[ob[i - 1] + 1] = <<"size", w[i]>>
      /\ Chunked(a)[ob[m] + 1] = <<"size", 0>>
  BY <1>2, <1>3, <1>5, Zenon DEF ChunkPlaces
<1>7. CASE hclient.mode = "CHUNK_CLOSE" /\ hclient.got = AnswerSize(a)
  <2>1. cl = [hclient EXCEPT !.sub = "nullptr"]
    BY <1>1, <1>7 DEF ParseContent
  <2>2. cl \in HClients /\ cl.sub = "nullptr" /\ cl.got = AnswerSize(a)
    BY <1>7, <2>1 DEF HClients
  <2> QED BY <1>1, <2>2
<1>8. CASE hclient.mode = "CHUNK_SIZE" /\ \E i \in 0..m : x = ob[i] /\ hclient.got = t[i]
  <2>1. PICK i \in 0..m : x = ob[i] /\ hclient.got = t[i]
    BY <1>8
  <2>2. PICK n \in Nat : item = <<"size", n>> /\ (i < m => n = w[i + 1]) /\ (i = m <=> n = 0)
    <3>1. CASE i = m
      <4>1. item = <<"size", 0>>
        BY <1>6, <2>1, <3>1
      <4> QED BY <3>1, <4>1
    <3>2. CASE i < m
      <4>1. PICK j \in 1..m : j = i + 1 /\ j - 1 = i
        BY <3>2
      <4>2. item = <<"size", w[j]>>
        BY <1>6, <2>1, <4>1
      <4>3. w[j] \in Nat \ {0}
        BY <1>4
      <4> QED BY <3>2, <4>1, <4>2, <4>3
    <3>3. i = m \/ i < m
      BY <1>3
    <3> QED BY <3>1, <3>2, <3>3
  <2>3. item[1] = "size" /\ item[2] = n
    BY <2>2
  <2>4. CASE ~ChunkAllowed(n)
    <3>1. cl = [hclient EXCEPT !.sub = "failed"]
      BY <1>1, <1>8, <2>3, <2>4 DEF ParseContent
    <3>2. cl \in HClients /\ cl.sub = "failed"
      BY <3>1 DEF HClients
    <3> QED BY <1>1, <3>2
  <2>5. CASE ChunkAllowed(n) /\ n = 0
    <3>1. cl = [hclient EXCEPT !.mode = "CHUNK_CLOSE"]
      BY <1>1, <1>8, <2>3, <2>5 DEF ParseContent
    <3>2. cl \in HClients /\ cl.sub = "content" /\ cl.mode = "CHUNK_CLOSE" /\ cl.got = t[i]
      BY <2>1, <3>1 DEF HClients
    <3>3. t[i] = AnswerSize(a)
      BY <1>6, <2>2, <2>5
    <3>4. InChunks(a, cl, x + 1)
      BY <1>5, <3>2, <3>3 DEF InChunks
    <3> QED BY <1>1, <3>2, <3>4
  <2>6. CASE ChunkAllowed(n) /\ n # 0
    <3>1. cl = [hclient EXCEPT !.mode = "CHUNK_DATA", !.want = n, !.total = @ + n]
      <4>1. n > 0
        BY <2>6
      <4>2. item[1] = "size" /\ ChunkAllowed(item[2]) /\ item[2] > 0
        BY <2>3, <2>6, <4>1
      <4>3. cl = [hclient EXCEPT !.mode = "CHUNK_DATA", !.want = item[2], !.total = @ + item[2]]
        BY <1>1, <1>8, <4>2 DEF ParseContent
      <4> QED BY <2>3, <4>3
    <3>2. cl \in HClients /\ cl.sub = "content" /\ cl.mode = "CHUNK_DATA" /\ cl.want = n /\ cl.got = t[i]
      <4>1. PICK u \in Int, v \in Int : u = n /\ v = hclient.total + n
        <5>1. hclient.total \in Int
          BY DEF HClients
        <5>2. n \in Int /\ hclient.total + n \in Int
          BY <5>1
        <5> QED BY <5>2, Zenon
      <4>2. cl = [hclient EXCEPT !.mode = "CHUNK_DATA", !.want = u, !.total = v]
        BY <3>1, <4>1
      <4>3. cl \in HClients
        BY <4>2 DEF HClients
      <4>4. cl.sub = "content" /\ cl.mode = "CHUNK_DATA" /\ cl.want = u /\ cl.got = hclient.got
        BY <4>2 DEF HClients
      <4> QED BY <2>1, <4>1, <4>3, <4>4
    <3>3. PICK j \in 1..m : j = i + 1 /\ j - 1 = i /\ n = w[j]
      <4>1. i # m
        BY <2>2, <2>6
      <4>2. i + 1 \in 1..m /\ (i + 1) - 1 = i /\ i < m
        BY <4>1
      <4>3. n = w[i + 1]
        BY <2>2, <4>2
      <4> QED BY <4>2, <4>3, Zenon
    <3>4. PICK y \in Nat, z \in Nat : y = ob[i] /\ z = t[i]
      <4>1. ob[i] \in Nat /\ t[i] \in Nat
        BY <1>6
      <4> QED BY <4>1, Zenon
    <3>5. cl.want \in 1..w[j] /\ x + 1 = y + 1 + (w[j] - cl.want) /\ cl.got = z + (w[j] - cl.want)
      <4>1. n \in 1..n /\ y + 1 = y + 1 + (n - n) /\ z = z + (n - n)
        BY <2>6
      <4>2. cl.want = n /\ w[j] = n /\ x = y /\ cl.got = z
        BY <2>1, <3>2, <3>3, <3>4, Zenon
      <4> QED BY <4>1, <4>2, Zenon
    <3>6. InData(w, cl, x + 1, ob, t)
      BY <1>3, <3>3, <3>4, <3>5, Zenon DEF InData
    <3>7. InChunks(a, cl, x + 1)
      BY <1>2, <1>5, <3>2, <3>6, Zenon DEF InChunks
    <3> QED BY <1>1, <3>2, <3>7
  <2> QED BY <2>4, <2>5, <2>6
<1>9. CASE hclient.mode = "CHUNK_DATA" /\ InData(w, hclient, x, ob, t)
  <2>1. PICK i \in 1..m :
          /\ hclient.want \in 1..w[i]
          /\ x = ob[i - 1] + 1 + (w[i] - hclient.want) /\ hclient.got = t[i - 1] + (w[i] - hclient.want)
    BY <1>3, <1>9, Zenon DEF InData
  <2>2. PICK n \in Nat, y \in Nat, z \in Nat : n = w[i] /\ y = ob[i - 1] /\ z = t[i - 1] /\ ob[i] = y + n + 2 /\ t[i] = z + n
    <3>1. i - 1 \in 0..m
      OBVIOUS
    <3>2. w[i] \in Nat /\ ob[i - 1] \in Nat /\ t[i - 1] \in Nat
      BY <1>4, <1>6, <3>1
    <3>3. ob[i] = ob[i - 1] + w[i] + 2 /\ t[i] = t[i - 1] + w[i]
      BY <1>6
    <3> QED BY <3>2, <3>3, Zenon
  <2>3. PICK u \in 1..n : u = hclient.want /\ x = y + 1 + (n - u) /\ hclient.got = z + (n - u)
    BY <2>1, <2>2
  <2>4. cl = [hclient EXCEPT !.got = @ + 1, !.want = @ - 1, !.mode = IF hclient.want = 1 THEN "CHUNK_CRLF" ELSE @]
    BY <1>1, <1>9 DEF ParseContent
  <2>5. PICK g \in Int, k \in Int, mode \in {"CHUNK_CRLF", "CHUNK_DATA"} :
          /\ g = z + (n - u) + 1 /\ k = u - 1 /\ mode = IF u = 1 THEN "CHUNK_CRLF" ELSE "CHUNK_DATA"
          /\ cl = [hclient EXCEPT !.got = g, !.want = k, !.mode = mode]
    <3>1. PICK mode \in {"CHUNK_CRLF", "CHUNK_DATA"} : mode = IF u = 1 THEN "CHUNK_CRLF" ELSE "CHUNK_DATA"
      OBVIOUS
    <3>2. PICK g \in Int, k \in Int : g = z + (n - u) + 1 /\ k = u - 1
      <4>1. z + (n - u) + 1 \in Int /\ u - 1 \in Int
        OBVIOUS
      <4> QED BY <4>1, Zenon
    <3>3. hclient.got + 1 = g /\ hclient.want - 1 = k
      BY <2>3, <3>2
    <3>4. mode = IF hclient.want = 1 THEN "CHUNK_CRLF" ELSE hclient.mode
      BY <1>9, <2>3, <3>1
    <3>5. cl = [hclient EXCEPT !.got = g, !.want = k, !.mode = mode]
      BY <2>4, <3>3, <3>4
    <3> QED BY <3>1, <3>2, <3>5, Zenon
  <2>9. cl \in HClients
    BY <2>5 DEF HClients
  <2>10. cl.sub = "content" /\ cl.got = g /\ cl.want = k /\ cl.mode = mode
    BY <2>5 DEF HClients
  <2>6. cl.mode = IF u = 1 THEN "CHUNK_CRLF" ELSE "CHUNK_DATA"
    BY <2>5, <2>10
  <2>7. CASE u = 1
    <3>1. x + 1 = ob[i] - 1 /\ cl.got = t[i]
      <4>1. g = z + n /\ (y + 1 + (n - u)) + 1 = (y + n + 2) - 1
        BY <2>5, <2>7
      <4> QED BY <2>2, <2>3, <2>10, <4>1
    <3>2. InChunks(a, cl, x + 1)
      BY <1>2, <1>3, <1>5, <2>6, <2>7, <3>1, Zenon DEF InChunks
    <3> QED BY <1>1, <2>9, <2>10, <3>2
  <2>8. CASE u # 1
    <3>1. cl.want \in 1..n /\ x + 1 = y + 1 + (n - cl.want) /\ cl.got = z + (n - cl.want)
      <4>0. k = u - 1 /\ g = z + (n - u) + 1
        BY <2>5
      <4>1. k \in 1..n /\ (y + 1 + (n - u)) + 1 = y + 1 + (n - k) /\ g = z + (n - k)
        BY <2>8, <4>0
      <4>2. x + 1 = (y + 1 + (n - u)) + 1
        BY <2>3
      <4> QED BY <2>10, <4>1, <4>2
    <3>2. InData(w, cl, x + 1, ob, t)
      BY <1>3, <2>2, <3>1, Zenon DEF InData
    <3>3. cl.mode = "CHUNK_DATA"
      BY <2>6, <2>8
    <3>4. InChunks(a, cl, x + 1)
      BY <1>2, <1>5, <3>2, <3>3, Zenon DEF InChunks
    <3> QED BY <1>1, <2>9, <2>10, <3>4
  <2> QED BY <2>7, <2>8
<1>10. CASE hclient.mode = "CHUNK_CRLF" /\ \E i \in 1..m : x = ob[i] - 1 /\ hclient.got = t[i]
  <2>1. PICK i \in 1..m : x = ob[i] - 1 /\ hclient.got = t[i]
    BY <1>10
  <2>2. cl = [hclient EXCEPT !.mode = "CHUNK_SIZE"]
    BY <1>1, <1>10 DEF ParseContent
  <2>3. cl \in HClients /\ cl.sub = "content" /\ cl.mode = "CHUNK_SIZE" /\ cl.got = t[i]
    BY <2>1, <2>2 DEF HClients
  <2>4. i \in 0..m /\ ob[i] \in Nat
    BY <1>6
  <2>5. x + 1 = ob[i]
    BY <2>1, <2>4
  <2>6. InChunks(a, cl, x + 1)
    BY <1>2, <1>3, <1>5, <2>3, <2>4, <2>5, Zenon DEF InChunks
  <2> QED BY <1>1, <2>3, <2>6
<1> QED BY <1>5, <1>7, <1>8, <1>9, <1>10

LEMMA ContentRead ==
  ASSUME NEW a \in HContent, hclient \in HClients, NEW q \in Nat, InContent(a, hclient, q),
         NEW W, NEW code, NEW fate, Written(W, code, a, fate), q + 1 <= Len(W)
  PROVE  ParseContent(W[q + 1]) \in HClients /\ InAnswer(a, ParseContent(W[q + 1]), q + 1)
<1>1. PICK cl : cl = ParseContent(W[q + 1])
  OBVIOUS
<1>2. hclient.sub = "content" /\ q >= 2 /\ q + 1 >= 2
  BY DEF InContent
<1>3. CASE a.known /\ hclient.mode = "CONTENT_LENGTH" /\ hclient.want >= 1 /\ hclient.got + hclient.want = AnswerSize(a)
  <2>1. PICK u \in Int, g \in Int, z \in Nat : u = hclient.want /\ g = hclient.got /\ z = AnswerSize(a) /\ u >= 1 /\ g + u = z
    BY <1>3, SizeIsNat DEF HClients
  <2>2. cl = [hclient EXCEPT !.got = @ + 1, !.want = @ - 1, !.sub = IF hclient.want = 1 THEN "nullptr" ELSE @]
    BY <1>1, <1>3 DEF ParseContent
  <2>7. PICK sub \in {"nullptr", "content"} : sub = IF u = 1 THEN "nullptr" ELSE "content"
    OBVIOUS
  <2>8. PICK v \in Int, k \in Int : v = g + 1 /\ k = u - 1
    <3>1. g + 1 \in Int /\ u - 1 \in Int
      OBVIOUS
    <3> QED BY <3>1, Zenon
  <2>9. cl = [hclient EXCEPT !.got = v, !.want = k, !.sub = sub]
    <3>1. hclient.got + 1 = v /\ hclient.want - 1 = k
      BY <2>1, <2>8
    <3>2. sub = IF hclient.want = 1 THEN "nullptr" ELSE hclient.sub
      BY <1>2, <2>1, <2>7
    <3> QED BY <2>2, <3>1, <3>2
  <2>10. cl \in HClients
    BY <2>9 DEF HClients
  <2>11. cl.got = v /\ cl.want = k /\ cl.sub = sub /\ cl.mode = hclient.mode
    BY <2>9 DEF HClients
  <2>3. cl \in HClients /\ cl.got = g + 1 /\ cl.want = u - 1 /\ cl.mode = "CONTENT_LENGTH"
    BY <1>3, <2>8, <2>10, <2>11
  <2>4. cl.sub = IF u = 1 THEN "nullptr" ELSE "content"
    BY <2>7, <2>11
  <2>5. CASE u = 1
    <3>1. cl.got = AnswerSize(a) /\ cl.sub = "nullptr"
      BY <2>1, <2>3, <2>4, <2>5
    <3> QED BY <1>1, <2>3, <3>1 DEF InAnswer
  <2>6. CASE u # 1
    <3>1. cl.want >= 1 /\ cl.got + cl.want = AnswerSize(a) /\ cl.sub = "content"
      <4>0. u >= 1
        BY <2>1
      <4>1. k >= 1 /\ v + k = g + u
        BY <2>6, <2>8, <4>0
      <4> QED BY <2>1, <2>4, <2>6, <2>11, <4>1
    <3>2. InContent(a, cl, q + 1)
      BY <1>2, <1>3, <2>3, <3>1 DEF InContent
    <3> QED BY <1>1, <2>3, <3>2 DEF InAnswer
  <2> QED BY <2>5, <2>6
<1>4. CASE ~a.known /\ a.mode # "CHUNKS" /\ hclient.mode = "CONNECTION_CLOSE"
  <2>1. cl = IF hclient.want = 0 THEN [hclient EXCEPT !.sub = "failed"] ELSE [hclient EXCEPT !.got = @ + 1, !.want = @ - 1]
    BY <1>1, <1>4 DEF ParseContent
  <2>2. cl \in HClients /\ InAnswer(a, cl, q + 1)
    <3>1. CASE hclient.want = 0
      <4>1. cl = [hclient EXCEPT !.sub = "failed"]
        BY <2>1, <3>1
      <4>2. cl \in HClients
        BY <4>1 DEF HClients
      <4>3. cl.sub = "failed"
        BY <4>1 DEF HClients
      <4>4. InAnswer(a, cl, q + 1)
        BY <4>3 DEF InAnswer
      <4> QED BY <4>2, <4>4
    <3>2. CASE hclient.want # 0
      <4>1. PICK v \in Int, k \in Int : v = hclient.got + 1 /\ k = hclient.want - 1
        <5>1. hclient.got \in Int /\ hclient.want \in Int
          BY DEF HClients
        <5>2. hclient.got + 1 \in Int /\ hclient.want - 1 \in Int
          BY <5>1
        <5> QED BY <5>2, Zenon
      <4>2. cl = [hclient EXCEPT !.got = v, !.want = k]
        BY <2>1, <3>2, <4>1
      <4>3. cl \in HClients
        BY <4>2 DEF HClients
      <4>4. cl.sub = hclient.sub /\ cl.mode = hclient.mode
        BY <4>2 DEF HClients
      <4>5. InContent(a, cl, q + 1)
        BY <1>2, <1>4, <4>4 DEF InContent
      <4> QED BY <4>3, <4>5 DEF InAnswer
    <3> QED BY <3>1, <3>2
  <2> QED BY <1>1, <2>2
<1>5. CASE ~a.known /\ a.mode = "CHUNKS" /\ InChunks(a, hclient, q - 2)
  <2>1. PICK x \in Nat : x = q - 2 /\ 2 + (x + 1) = q + 1 /\ (q + 1) - 2 = x + 1 /\ x + 1 \in Nat \ {0}
    BY <1>2
  <2>2. 2 + (x + 1) <= Len(W)
    BY <2>1
  <2>3. W[2 + (x + 1)] = Chunked(a)[x + 1]
    BY <1>5, <2>1, <2>2 DEF Written
  <2>4. W[q + 1] = Chunked(a)[x + 1]
    BY <2>1, <2>3
  <2>5. /\ cl \in HClients
        /\ \/ cl.sub = "failed"
           \/ cl.sub = "nullptr" /\ cl.got = AnswerSize(a)
           \/ cl.sub = "content" /\ InChunks(a, cl, x + 1)
    BY <1>1, <1>2, <1>5, <2>1, <2>4, ChunkRead
  <2>6. CASE cl.sub = "content" /\ InChunks(a, cl, x + 1)
    <3>1. InChunks(a, cl, (q + 1) - 2)
      BY <2>1, <2>6
    <3> QED BY <1>1, <1>2, <1>5, <2>5, <2>6, <3>1 DEF InAnswer, InContent
  <2> QED BY <1>1, <2>5, <2>6 DEF InAnswer
<1> QED BY <1>3, <1>4, <1>5 DEF InContent

LEMMA ClientReadsStep ==
  ASSUME NEW rs, NEW S, NEW o, NEW pos, HState(rs, S, o, pos), ClientReads
  PROVE  HState(rs, S, o, pos)'
<1>1. UNCHANGED <<hplan, hin, hsub, hcont, hprohibit, hreq, hrsp, hstatus, hanswers, hseen, hcut>>
      /\ hwire # <<>> /\ hwire' = Tail(hwire) /\ hclient.sub \notin {"nullptr", "failed"}
  BY DEF ClientReads
<1>2. hclient' = CASE hclient.sub = "status" -> [hclient EXCEPT !.sub = "headers"]
                   [] hclient.sub = "headers" -> TransmissionMode(Head(hwire)[2])
                   [] OTHER -> ParseContent(Head(hwire))
  BY DEF ClientReads
<1>3. ClientState(hplan, hanswers, hwire, hclient) /\ hplan.answer \in HContent
  BY DEF HState, SentFor
<1>4. hanswers # <<>> /\ hplan.client
  BY <1>1, <1>3, Zenon DEF ClientState
<1>5. ASSUME hanswers[1].code \in {200, 404}, Counted(hplan.answer)
      PROVE  \E W, fate, q :
               /\ Written(W, hanswers[1].code, hplan.answer, fate) /\ Remains(hwire', W, q)
               /\ hclient' \in HClients /\ InAnswer(hplan.answer, hclient', q)
  <2>1. PICK W, fate, q :
          /\ Written(W, hanswers[1].code, hplan.answer, fate) /\ Remains(hwire, W, q)
          /\ hclient \in HClients /\ InAnswer(hplan.answer, hclient, q)
    BY <1>3, <1>4, <1>5, Zenon DEF ClientState
  <2>2. W \in Seq(HWireItem) /\ (Len(W) >= 2 => W[2] = <<"headers", [framing |-> Framing(hplan.answer), size |-> AnswerSize(hplan.answer)]>>)
    BY <2>1 DEF Written
  <2>3. Remains(hwire', W, q + 1) /\ Head(hwire) = W[q + 1] /\ q \in Nat /\ q + 1 <= Len(W)
    BY <1>1, <2>1, <2>2, TakeOne
  <2>4. PICK a \in HContent : a = hplan.answer
    BY <1>3
  <2>5. hclient' \in HClients /\ InAnswer(a, hclient', q + 1)
    <3>1. CASE hclient.sub = "status" /\ q = 0 /\ hclient.got = 0
      <4>1. hclient' = [hclient EXCEPT !.sub = "headers"]
        BY <1>2, <3>1
      <4>2. hclient' \in HClients /\ hclient'.sub = "headers" /\ hclient'.got = 0 /\ q + 1 = 1
        BY <2>1, <3>1, <4>1 DEF HClients
      <4> QED BY <4>2 DEF InAnswer
    <3>2. CASE hclient.sub = "headers" /\ q = 1 /\ hclient.got = 0
      <4>1. PICK h : h = [framing |-> Framing(a), size |-> AnswerSize(a)]
        OBVIOUS
      <4>2. W[2] = <<"headers", h>> /\ q + 1 = 2
        BY <2>2, <2>3, <2>4, <3>2, <4>1
      <4>3. Head(hwire)[2] = h
        BY <2>3, <4>2
      <4>4. hclient' = TransmissionMode(h)
        BY <1>2, <3>2, <4>3
      <4>5. TransmissionMode(h) \in HClients /\ InAnswer(a, TransmissionMode(h), 2)
        BY <1>5, <2>1, <2>4, <3>2, <4>1, HeadersDecide
      <4> QED BY <4>2, <4>4, <4>5
    <3>3. CASE InContent(a, hclient, q)
      <4>1. hclient.sub = "content"
        BY <3>3 DEF InContent
      <4>2. hclient' = ParseContent(W[q + 1])
        BY <1>2, <2>3, <4>1
      <4> QED BY <2>1, <2>3, <2>4, <3>3, <4>2, ContentRead
    <3> QED BY <1>1, <2>1, <2>4, <3>1, <3>2, <3>3 DEF InAnswer
  <2> QED BY <2>1, <2>3, <2>4, <2>5
<1>6. ClientState(hplan, hanswers, hwire', hclient')
  BY <1>4, <1>5 DEF ClientState
<1>7. HTypes'
  BY <1>1 DEF HState, HTypes
<1>8. Serving' => ServingState(rs, o, pos)'
  BY <1>1 DEF HState, Serving, ServingState
<1> QED BY <1>1, <1>6, <1>7, <1>8 DEF HState

LEMMA ClientEndsStep ==
  ASSUME NEW rs, NEW S, NEW o, NEW pos, HState(rs, S, o, pos), ClientEnds
  PROVE  HState(rs, S, o, pos)'
<1>1. UNCHANGED <<hplan, hin, hsub, hcont, hprohibit, hreq, hrsp, hstatus, hanswers, hseen, hwire, hcut>>
  BY DEF ClientEnds
<1>2. PICK outcome \in {"none", "SUCCEED", "ERR_PARSING"} : hclient' = [hclient EXCEPT !.result = outcome]
  BY DEF ClientEnds
<1>3. ASSUME hclient \in HClients
      PROVE  /\ hclient' \in HClients /\ hclient'.sub = hclient.sub /\ hclient'.mode = hclient.mode
             /\ hclient'.want = hclient.want /\ hclient'.got = hclient.got
  BY <1>2, <1>3 DEF HClients
<1>4. ClientState(hplan, hanswers, hwire, hclient)
  BY DEF HState
<1>5. ClientState(hplan, hanswers, hwire, hclient')
  <2>1. ASSUME hanswers # <<>>, hplan.client, hanswers[1].code \in {200, 404}, Counted(hplan.answer)
        PROVE  \E W, fate, q :
                 /\ Written(W, hanswers[1].code, hplan.answer, fate) /\ Remains(hwire, W, q)
                 /\ hclient' \in HClients /\ InAnswer(hplan.answer, hclient', q)
    <3>1. PICK W, fate, q :
            /\ Written(W, hanswers[1].code, hplan.answer, fate) /\ Remains(hwire, W, q)
            /\ hclient \in HClients /\ InAnswer(hplan.answer, hclient, q)
      BY <1>4, <2>1, Zenon DEF ClientState
    <3>2. InAnswer(hplan.answer, hclient', q)
      BY <1>3, <3>1 DEF InAnswer, InContent, InChunks, InData
    <3> QED BY <1>3, <3>1, <3>2, Zenon
  <2> QED BY <1>3, <1>4, <2>1 DEF ClientState
<1>6. HTypes'
  BY <1>1 DEF HState, HTypes
<1>7. Serving' => ServingState(rs, o, pos)'
  BY <1>1 DEF HState, Serving, ServingState
<1> QED BY <1>1, <1>5, <1>6, <1>7 DEF HState

LEMMA HInvStep == HInv /\ [HTTPNext]_httpVars => HInv'
<1> SUFFICES ASSUME HInv, [HTTPNext]_httpVars PROVE HInv'
  OBVIOUS
<1>1. CASE UNCHANGED httpVars
  BY <1>1 DEF httpVars, HInv, HTTPInit, HState, HTypes, Serving, ServingState
<1>2. CASE HTTPNext /\ HTTPInit
  <2>1. OpenHTTP
    BY <1>2 DEF HTTPInit, HTTPNext, ReadRequestLine, ReadHeaders, ReadContent, Reads, CutConnection, ClientReads, ClientEnds, NoPlanH
  <2> QED BY <1>2, <2>1, OpenStep
<1>3. ASSUME NEW rs, NEW S, NEW o, NEW pos, HState(rs, S, o, pos), HTTPNext PROVE HInv'
  <2>1. hstatus # "new"
    BY <1>3 DEF HState, HTypes
  <2>2. ~OpenHTTP
    BY <2>1 DEF OpenHTTP
  <2>3. CASE ReadRequestLine
    BY <1>3, <2>3, RequestLineStep DEF HInv
  <2>4. CASE ReadHeaders
    BY <1>3, <2>4, HeadersStep DEF HInv
  <2>5. CASE ReadContent
    BY <1>3, <2>5, ReadContentStep DEF HInv
  <2>6. CASE CutConnection
    BY <1>3, <2>6, CutStep DEF HInv
  <2>7. CASE ClientReads
    BY <1>3, <2>7, ClientReadsStep DEF HInv
  <2>8. CASE ClientEnds
    BY <1>3, <2>8, ClientEndsStep DEF HInv
  <2> QED BY <1>3, <2>2, <2>3, <2>4, <2>5, <2>6, <2>7, <2>8 DEF HTTPNext
<1> QED BY <1>1, <1>2, <1>3 DEF HInv

(* For any plan of requests and answers, any limits and any cut of the connection: the consumer sees of each request
   only what is its own, the answers follow the requests in their order and stop with the one that ended the
   connection, and HTTPv1_Client finishes an answer only with all of its content, but for the two kinds of answer
   that AnswerIsWhole names. *)
THEOREM HTTPIsSound == HTTPSpec => []HTTPSound
<1>1. HTTPInit => HInv
  BY DEF HInv
<1> QED BY <1>1, HInvStep, HInvSound, PTL DEF HTTPSpec

-----------------------------------------------------------------------------
(* The three parts of the property that the run checks: requests and answers, frames, and the values in pages. *)
THEOREM MessagesAreSound == HTTPSpec /\ WSSpec /\ WebSpec => []MessagesSound
<1>1. HTTPSound /\ WebSocketSound /\ ValuesAreText => MessagesSound
  BY DEF MessagesSound
<1> QED BY <1>1, HTTPIsSound, WebSocketIsSound, ValuesStayText, PTL

=============================================================================
