--------------------------- MODULE JWTRevocation ---------------------------
(***************************************************************************)
(* JWT::Revocation: the set of revoked signatures, the entries that say    *)
(* until when, and the collector thread.  The list has a shared mutex; the *)
(* destructor sets its flag and notifies without the collector's mutex.    *)
(***************************************************************************)
EXTENDS Naturals, FiniteSets

CONSTANTS
  RSignatures,    \* signatures
  LastTime        \* bound: the clock stops there

ASSUME RevAssumption == LastTime \in Nat

VARIABLES
  revokedTokens,  \* m_revokedTokens
  expirations,    \* m_expirationSignatures, as a set of <<time, signature>>
  stopGC, gcpc,   \* m_stopGarbageCollector; the collector: "test", "tested", "wait",
                  \* "woken", "ended"
  rclock,
  revocations     \* history: the calls of addToRevocationList

revVars == <<revokedTokens, expirations, stopGC, gcpc, rclock, revocations>>

RevInit ==
  /\ revokedTokens = {} /\ expirations = {} /\ revocations = {}
  /\ stopGC = "no" /\ gcpc = "test"
  /\ rclock = 0

AddToRevocationList(sig, t) ==
  /\ stopGC = "no" /\ <<t, sig>> \notin revocations
  /\ expirations' = expirations \cup {<<t, sig>>}
  /\ revokedTokens' = revokedTokens \cup {sig}
  /\ revocations' = revocations \cup {<<t, sig>>}
  /\ UNCHANGED <<stopGC, gcpc, rclock>>

\* Mutant: lower and upper bound of the collector are one second apart.
ExpiredEarly == {e \in expirations : e[1] <= rclock + 1}

\* upper_bound(now): the entries up to and including this second.
Expired == {e \in expirations : e[1] <= rclock}

\* removeExpiredTokensFromRevocationList removes a signature with the first of
\* its entries that expires.
RemoveExpired ==
  /\ revokedTokens' = revokedTokens \ {e[2] : e \in Expired}
  /\ expirations' = expirations \ Expired

\* garbageCollector: the loop's test ...
CollectorTest ==
  /\ gcpc = "test"
  /\ gcpc' = IF stopGC = "no" THEN "tested" ELSE "ended"
  /\ UNCHANGED <<revokedTokens, expirations, stopGC, rclock, revocations>>

\* ... and the wait: its mutex does not keep the destructor out of the gap.
CollectorWaits ==
  /\ gcpc = "tested"
  /\ gcpc' = "wait"
  /\ UNCHANGED <<revokedTokens, expirations, stopGC, rclock, revocations>>

\* Mutant: the wait has no timeout.
CollectorWakesOnNotify ==
  /\ gcpc = "woken"
  /\ gcpc' = "test"
  /\ IF stopGC = "no" THEN RemoveExpired ELSE UNCHANGED <<revokedTokens, expirations>>
  /\ UNCHANGED <<stopGC, rclock, revocations>>

\* The wait ends by its timeout or by a notification; then it collects unless it
\* was told to stop.
CollectorWakes ==
  /\ gcpc \in {"wait", "woken"}
  /\ gcpc' = "test"
  /\ IF stopGC = "no" THEN RemoveExpired ELSE UNCHANGED <<revokedTokens, expirations>>
  /\ UNCHANGED <<stopGC, rclock, revocations>>

\* ~Revocation sets the flag ...
DestroyRevocation ==
  /\ stopGC = "no"
  /\ stopGC' = "set"
  /\ UNCHANGED <<revokedTokens, expirations, gcpc, rclock, revocations>>

\* ... then notifies whoever is in the wait, and joins.
NotifyCollector ==
  /\ stopGC = "set"
  /\ stopGC' = "notified"
  /\ gcpc' = IF gcpc = "wait" THEN "woken" ELSE gcpc
  /\ UNCHANGED <<revokedTokens, expirations, rclock, revocations>>

Tick ==
  /\ rclock < LastTime
  /\ rclock' = rclock + 1
  /\ UNCHANGED <<revokedTokens, expirations, stopGC, gcpc, revocations>>

RevNext ==
  \/ \E s \in RSignatures, t \in 1..LastTime : AddToRevocationList(s, t)
  \/ CollectorTest \/ CollectorWaits \/ CollectorWakes
  \/ DestroyRevocation \/ NotifyCollector
  \/ Tick

RevSpec == RevInit /\ [][RevNext]_revVars

-----------------------------------------------------------------------------
(* A revoked signature stays revoked while none of its entries has expired: the
   collector, which may run between any two calls, removes only what expired.
   (With two entries it leaves the set at the earlier one.) *)
RevokedUntilExpiry ==
  \A r \in revocations :
    (\A s \in revocations : s[2] = r[2] => s[1] > rclock) => r[2] \in revokedTokens

(* Whatever is revoked will be forgotten: every revoked signature has an entry
   that makes the collector remove it. *)
RevokedHasEntry == revokedTokens \subseteq {e[2] : e \in expirations}

(* The collector thread ends after the destructor has set its flag, although
   the flag is set and the notification sent without the mutex and may fall
   between the test and the wait: the wait has a timeout. *)
CollectorEnds == (stopGC # "no") ~> (gcpc = "ended")

(* The set of revoked signatures and the list of expirations agree. *)
RevocationListed == RevokedUntilExpiry /\ RevokedHasEntry
=============================================================================
