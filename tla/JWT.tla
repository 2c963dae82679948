-------------------------------- MODULE JWT --------------------------------
(***************************************************************************)
(* DataFormat::JWT: verification of signed tokens with a cache of verified *)
(* payloads (jwt_cache.cpp).  The cache has a mutex; the secrets have none *)
(* and are read while another thread may replace them.  Cryptography is    *)
(* abstract: a signature is the pair of the algorithm and the key that     *)
(* made it, over the payload and the header.  Whether the clock is inside  *)
(* the claims' window and whether the signature is revoked is a choice     *)
(* here; JWTRevocation has the list.  Allocation failures of OpenSSL       *)
(* objects are not modelled.                                               *)
(***************************************************************************)
EXTENDS Integers, FiniteSets, Sequences, SequencesExt, FiniteSetsExt

CONSTANTS
  JPayloads,      \* payloads, each with its size
  PayloadSize,
  JKeys,          \* non-empty secrets (for RSA, the key pairs)
  Algorithm,      \* m_algorithm: "HS" or "RS"
  Verifiers,      \* threads that call verify once each
  CacheSizes      \* values setCacheMaxByteCount is called with

ASSUME JWTAssumption == PayloadSize \in [JPayloads -> Nat] /\ CacheSizes \subseteq Nat

EmptyKey == "empty"
NoToken == "none"

\* A full token: header algorithm, payload, signature.  sign() leaves the
\* signature out when the key is empty.
Tokens == [alg : {"HS", "RS", "other"}, payload : JPayloads,
           sig : ({"HS", "RS"} \X JKeys) \cup {<<>>}]

VARIABLES
  secret,         \* m_sharedSecret or the pair m_publicSecret/m_privateSecret
  callback,       \* verificationCallback is set
  cacheQueue, tokenCache, cacheBytes, cacheMax, cacheEnabled,
  cacheCrashed,   \* evictCache read the front of an empty queue
  cacheCleared,   \* history: the cache was emptied since it was created
  vpc, vtoken,    \* a call of verify: where it is, its argument
  vkey,           \* the secret with which it computed the signature
  vok,            \* isSignatureVerified
  result,         \* what verify returned, or "none"
  cachedUnder     \* history: the secret under which a payload was verified last

cacheVars == <<cacheQueue, tokenCache, cacheBytes, cacheMax, cacheEnabled, cacheCrashed, cacheCleared>>
verifyVars == <<vpc, vtoken, vkey, vok, result>>
jwtVars == <<secret, callback, cacheVars, verifyVars, cachedUnder>>

JWTInit ==
  /\ secret = EmptyKey /\ callback = FALSE
  /\ cacheQueue = <<>> /\ tokenCache = {} /\ cacheBytes = 0 /\ cacheMax = 0
  /\ cacheEnabled = FALSE /\ cacheCrashed = FALSE /\ cacheCleared = FALSE
  /\ vpc = [v \in Verifiers |-> "idle"]
  /\ vtoken = [v \in Verifiers |-> NoToken]
  /\ vkey = [v \in Verifiers |-> EmptyKey]
  /\ vok = [v \in Verifiers |-> FALSE]
  /\ result = [v \in Verifiers |-> "none"]
  /\ cachedUnder = [p \in JPayloads |-> EmptyKey]

Working == ~cacheCrashed   \* the process still runs

-----------------------------------------------------------------------------
\* createHMACSignature fails on an empty secret, createRSASignature on a key
\* that cannot be read.
CreateSignature(k) == IF k = EmptyKey THEN <<>> ELSE <<Algorithm, k>>

\* createHeader and sign: the signature covers the header of m_algorithm, and is
\* empty when it could not be made.
Sign(p) == [alg |-> Algorithm, payload |-> p, sig |-> CreateSignature(secret)]

\* Which signature of a token verify takes for valid: an HS header is compared
\* with the signature that m_algorithm makes now, an RS header is checked with
\* the public key; any other header is refused.
SignatureMatches(t, k) ==
  CASE t.alg = "HS" -> CreateSignature(k) # <<>> /\ t.sig = CreateSignature(k)
    [] t.alg = "RS" -> k # EmptyKey /\ t.sig = <<"RS", k>>
    [] OTHER        -> FALSE

\* Token::isValid at a moment that is inside or outside of the window of the
\* claims "nbf" and "exp".
IsValid(inWindow, verified, revoked) == inWindow /\ verified /\ ~revoked

-----------------------------------------------------------------------------

\* The cache.  Clear is the body of clear() and of setEnabled(false): the queue
\* and the table are emptied, the byte counter is kept.
ClearCache ==
  /\ cacheQueue' = <<>> /\ tokenCache' = {} /\ cacheCleared' = TRUE

SetEnabled(e) ==
  /\ Working /\ e # cacheEnabled
  /\ cacheEnabled' = e
  /\ IF e THEN UNCHANGED <<cacheQueue, tokenCache, cacheCleared>> ELSE ClearCache
  /\ UNCHANGED <<secret, callback, cacheBytes, cacheMax, cacheCrashed, 
                 verifyVars, cachedUnder>>

\* The bytes of the queued payloads, each known by its place.
QueuedBytes(q) == UNION {{i} \X (1..PayloadSize[q[i]]) : i \in DOMAIN q}
SizeOf(q) == Cardinality(QueuedBytes(q))

\* How many payloads the loop of evictCache removes; more than there are when
\* the counter is larger than what is queued.
Evictions(max) ==
  LET ns == {n \in 0..Len(cacheQueue) : cacheBytes - SizeOf(SubSeq(cacheQueue, 1, n)) <= max}
  IN IF ns = {} THEN Len(cacheQueue) + 1 ELSE Min(ns)

\* Mutant: the evicted payload stays in the table.
EvictQueueOnly(max) ==
  LET n == Evictions(max) gone == SubSeq(cacheQueue, 1, n)
  IN IF n > Len(cacheQueue)
     THEN cacheCrashed' = TRUE /\ UNCHANGED <<cacheQueue, tokenCache, cacheBytes>>
     ELSE /\ cacheQueue' = SubSeq(cacheQueue, n + 1, Len(cacheQueue))
          /\ cacheBytes' = cacheBytes - SizeOf(gone)
          /\ UNCHANGED <<tokenCache, cacheCrashed>>

\* evictCache, in a critical section of its own after add and
\* setCacheMaxByteCount.  The front of an empty queue is undefined behaviour:
\* the process is taken to stop there.
EvictCache(max) ==
  LET n == Evictions(max) gone == SubSeq(cacheQueue, 1, n)
  IN IF n > Len(cacheQueue)
     THEN cacheCrashed' = TRUE /\ UNCHANGED <<cacheQueue, tokenCache, cacheBytes>>
     ELSE /\ cacheQueue' = SubSeq(cacheQueue, n + 1, Len(cacheQueue))
          /\ tokenCache' = tokenCache \ Range(gone)
          /\ cacheBytes' = cacheBytes - SizeOf(gone)
          /\ UNCHANGED cacheCrashed

SetCacheMaxByteCount(n) ==
  /\ Working /\ n # cacheMax
  /\ cacheMax' = n
  /\ EvictCache(n)
  /\ UNCHANGED <<secret, callback, cacheEnabled, cacheCleared, verifyVars,
                 cachedUnder>>

-----------------------------------------------------------------------------

\* setSharedSecret, or setPublicSecret with setPrivateSecret.
SetSecret(k) ==
  /\ Working /\ k # secret
  /\ secret' = k
  /\ ClearCache
  /\ UNCHANGED <<callback, cacheBytes, cacheMax, cacheEnabled, cacheCrashed, 
                 verifyVars, cachedUnder>>

SetCallback ==
  /\ Working /\ ~callback
  /\ callback' = TRUE
  /\ UNCHANGED <<secret, cacheVars, verifyVars, cachedUnder>>

Return(v, r) ==
  /\ vpc' = [vpc EXCEPT ![v] = "done"]
  /\ result' = [result EXCEPT ![v] = IF r THEN "yes" ELSE "no"]

\* verify up to the cache: with a callback the answer of the callback decides;
\* a payload in the cache is valid whatever the signature, and neither path
\* asks the list of revoked signatures.
VerifyStart(v, t) ==
  /\ Working /\ vpc[v] = "idle"
  /\ vtoken' = [vtoken EXCEPT ![v] = t]
  /\ \/ callback /\ \E answer, w \in BOOLEAN : Return(v, answer /\ IsValid(w, TRUE, FALSE))
     \/ /\ ~callback
        /\ cacheEnabled /\ t.payload \in tokenCache
        /\ \E w \in BOOLEAN : Return(v, IsValid(w, TRUE, FALSE))
     \/ /\ ~callback
        /\ ~(cacheEnabled /\ t.payload \in tokenCache)
        /\ vpc' = [vpc EXCEPT ![v] = "check"]
        /\ UNCHANGED result
  /\ UNCHANGED <<secret, callback, cacheVars, vkey, vok, cachedUnder>>

\* The signature is computed with the secret of this moment.
VerifySignature(v) ==
  /\ Working /\ vpc[v] = "check"
  /\ LET ok == SignatureMatches(vtoken[v], secret)
     IN /\ vok' = [vok EXCEPT ![v] = ok]
        /\ vkey' = [vkey EXCEPT ![v] = secret]
        /\ vpc' = [vpc EXCEPT ![v] = IF ok THEN "add" ELSE "revoked?"]
  /\ UNCHANGED <<secret, callback, cacheVars, vtoken, result, cachedUnder>>

\* Cache::add: the first critical section.
VerifyAdd(v) ==
  /\ Working /\ vpc[v] = "add"
  /\ IF cacheEnabled
     THEN LET p == vtoken[v].payload
          IN /\ cacheQueue' = Append(cacheQueue, p)
             /\ tokenCache' = tokenCache \cup {p}
             /\ cacheBytes' = cacheBytes + PayloadSize[p]
             /\ vpc' = [vpc EXCEPT ![v] = "evict"]
     ELSE /\ vpc' = [vpc EXCEPT ![v] = "revoked?"]
          /\ UNCHANGED <<cacheQueue, tokenCache, cacheBytes>>
  /\ cachedUnder' = [cachedUnder EXCEPT ![vtoken[v].payload] = vkey[v]]
  /\ UNCHANGED <<secret, callback, cacheMax, cacheEnabled, cacheCrashed, cacheCleared,
                 vtoken, vkey, vok, result>>

VerifyEvict(v) ==
  /\ Working /\ vpc[v] = "evict"
  /\ EvictCache(cacheMax)
  /\ vpc' = [vpc EXCEPT ![v] = "revoked?"]
  /\ UNCHANGED <<secret, callback, cacheMax, cacheEnabled, cacheCleared, vtoken, vkey,
                 vok, result, cachedUnder>>

\* isSignatureRevoked and the result.
VerifyResult(v) ==
  /\ Working /\ vpc[v] = "revoked?"
  /\ \E w, revoked \in BOOLEAN : Return(v, IsValid(w, vok[v], revoked))
  /\ UNCHANGED <<secret, callback, cacheVars, vtoken, vkey, vok, cachedUnder>>

-----------------------------------------------------------------------------
VerifyStep(v) == VerifySignature(v) \/ VerifyAdd(v) \/ VerifyEvict(v) \/ VerifyResult(v)

\* The tokens a caller presents: what sign() returns now, what was signed with
\* any key, and one with a header that is not supported.
Presented == {Sign(p) : p \in JPayloads}
             \cup {t \in Tokens : t.sig # <<>> /\ t.sig[1] = Algorithm /\ t.alg \in {Algorithm, "other"}}

JWTNext ==
  \/ \E k \in JKeys : SetSecret(k)
  \/ SetCallback
  \/ \E e \in BOOLEAN : SetEnabled(e)
  \/ \E n \in CacheSizes : SetCacheMaxByteCount(n)
  \/ \E v \in Verifiers : VerifyStep(v) \/ \E t \in Presented : VerifyStart(v, t)

JWTSpec == JWTInit /\ [][JWTNext]_jwtVars

-----------------------------------------------------------------------------
(* Whatever clear, setEnabled, add and evictCache do between each other's
   critical sections, a payload that checkToken reports is also in the queue
   that evicts it: nothing stays in the table for ever. *)
CachedIsEvictable == Working => tokenCache \subseteq Range(cacheQueue)

(* The byte counter never falls below what is queued, and is exact as long as
   the cache was not emptied: evictCache cannot keep more than the limit, and it
   runs past the end of the queue only after a clear or a setEnabled(false). *)
ByteCountCovers ==
  /\ Working => /\ cacheBytes >= SizeOf(cacheQueue)
                /\ ~cacheCleared => cacheBytes = SizeOf(cacheQueue)
  /\ cacheCrashed => cacheCleared

(* A cached payload was verified with the secret in force: a new secret empties
   the cache.  The exception is a verification that computed its signature
   before the new secret and stored its payload after. *)
KeyChangeForgets ==
  [][\A p \in tokenCache \cap tokenCache' :
       cachedUnder[p] = secret => cachedUnder'[p] = secret' \/ \E v \in Verifiers : VerifyAdd(v)]_jwtVars

(* verify says yes, without a callback, only to a payload whose signature was
   verified with a secret that was in force then: by this call, or by the call
   that put it into the cache. *)
AcceptedWasVerified ==
  \A v \in Verifiers : result[v] = "yes" /\ ~callback => cachedUnder[vtoken[v].payload] # EmptyKey

(* The verification cache: what is cached can be evicted, the byte counter covers
   it, a token is accepted only after a verification, a new key forgets all. *)
CacheSound == [](CachedIsEvictable /\ ByteCountCovers /\ AcceptedWasVerified) /\ KeyChangeForgets
=============================================================================
