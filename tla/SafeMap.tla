------------------------------ MODULE SafeMap -------------------------------
(***************************************************************************)
(* Mantids30::Threads::Safe::Map, the map behind the RPC connections, the  *)
(* web sessions and the websocket connections.  A thread opens an element, *)
(* uses the object without the mutex and releases the element by KEY;      *)
(* destroyElement waits for the readers and deletes the object.  Every     *)
(* operation is one critical section of m_keyValueMapMutex, split at the   *)
(* waits; the notifications are sent inside it.  stopReaders only sets a   *)
(* flag that no reader looks at (no subclass overrides stopSignal) and is  *)
(* left out.                                                               *)
(***************************************************************************)
EXTENDS Naturals, FiniteSets

CONSTANTS Keys,
          Items,    \* the MapItem objects, each one added once
          Threads,  \* threads that open, add and destroy elements
          Waiters,  \* threads that call waitForEmptyMap
          NoItem,   \* nullptr
          NoKey     \* key of a thread that is in no call

ASSUME MapAssumption ==
    /\ NoItem \notin Items
    /\ NoKey \notin Keys
    /\ IsFiniteSet(Threads)

VARIABLES present,  \* keys of m_keyValueMap
          item,     \* MapElement.item
          readers,  \* MapElement.numReaders
          added,    \* items handed over by addElement
          deleted,  \* items freed by destroyElement
          tpc,      \* "idle", "reading", "wait", "woken" or "thrown"
          tkey,     \* key of the element being read or destroyed
          titem,    \* the pointer openElement returned, or delElement
          wpc       \* waitForEmptyMap: "idle", "wait", "woken"

mvars == <<present, item, readers, added, deleted>>
tvars == <<tpc, tkey, titem>>
vars  == <<present, item, readers, added, deleted, tpc, tkey, titem, wpc>>

Reading(t)    == tpc[t] = "reading"
Destroying(t) == tpc[t] \in {"wait", "woken"}

Init ==
    /\ present = {}
    /\ item = [k \in Keys |-> NoItem]
    /\ readers = [k \in Keys |-> 0]
    /\ added = {}
    /\ deleted = {}
    /\ tpc = [t \in Threads |-> "idle"]
    /\ tkey = [t \in Threads |-> NoKey]
    /\ titem = [t \in Threads |-> NoItem]
    /\ wpc = [w \in Waiters |-> "idle"]

\* addElement; for a key that is present it returns false and changes nothing,
\* and the item stays with the caller.
AddElement(t, k, i) ==
    /\ tpc[t] = "idle"
    /\ k \notin present
    /\ i \notin added
    /\ present' = present \cup {k}
    /\ item' = [item EXCEPT ![k] = i]
    /\ added' = added \cup {i}
    /\ UNCHANGED <<readers, deleted, tvars, wpc>>

\* Mutant: the reader is not counted.
OpenElementUncounted(t, k) ==
    /\ tpc[t] = "idle"
    /\ k \in present
    /\ item[k] # NoItem
    /\ tpc' = [tpc EXCEPT ![t] = "reading"]
    /\ tkey' = [tkey EXCEPT ![t] = k]
    /\ titem' = [titem EXCEPT ![t] = item[k]]
    /\ UNCHANGED <<present, item, readers, added, deleted, wpc>>

\* openElement; nullptr (no step) when the key is absent or the element is
\* being destroyed.
OpenElement(t, k) ==
    /\ tpc[t] = "idle"
    /\ k \in present
    /\ item[k] # NoItem
    /\ readers' = [readers EXCEPT ![k] = @ + 1]
    /\ tpc' = [tpc EXCEPT ![t] = "reading"]
    /\ tkey' = [tkey EXCEPT ![t] = k]
    /\ titem' = [titem EXCEPT ![t] = item[k]]
    /\ UNCHANGED <<present, item, added, deleted, wpc>>

\* noReadersCondition.notify_one() of the element under k: at most one thread
\* waits there.
NotifyNoReaders(k) ==
    [d \in Threads |-> IF tpc[d] = "wait" /\ tkey[d] = k THEN "woken" ELSE tpc[d]]

\* Mutant: the last reader does not tell the destroyer.
ReleaseElementSilently(t) ==
    /\ Reading(t)
    /\ readers' = [readers EXCEPT ![tkey[t]] = @ - 1]
    /\ tpc' = [tpc EXCEPT ![t] = "idle"]
    /\ UNCHANGED <<present, item, added, deleted, tkey, titem, wpc>>

\* releaseElement(key): it looks the key up again, so nothing but the protocol
\* ties it to the element that was opened.
ReleaseElement(t) ==
    /\ Reading(t)
    /\ \/ /\ tkey[t] \notin present
          /\ tpc' = [tpc EXCEPT ![t] = "idle"]
          /\ UNCHANGED readers
       \/ /\ tkey[t] \in present
          /\ readers[tkey[t]] = 0
          /\ tpc' = [tpc EXCEPT ![t] = "thrown"]
          /\ UNCHANGED readers
       \/ /\ tkey[t] \in present
          /\ readers[tkey[t]] > 0
          /\ readers' = [readers EXCEPT ![tkey[t]] = @ - 1]
          /\ tpc' = [(IF readers[tkey[t]] = 1 THEN NotifyNoReaders(tkey[t]) ELSE tpc)
                        EXCEPT ![t] = "idle"]
    /\ UNCHANGED <<present, item, added, deleted, tkey, titem, wpc>>

\* m_noItemsOnMapCondition.notify_one(), sent when the last element goes.
NotifyEmpty ==
    LET asleep == {w \in Waiters : wpc[w] = "wait"} IN
    IF present' = {} /\ asleep # {}
    THEN \E w \in asleep : wpc' = [wpc EXCEPT ![w] = "woken"]
    ELSE UNCHANGED wpc

\* delete delElement and erase(key).
Erase(k, i) ==
    /\ deleted' = deleted \cup {i}
    /\ present' = present \ {k}
    /\ item' = [item EXCEPT ![k] = NoItem]
    /\ readers' = [readers EXCEPT ![k] = 0]
    /\ NotifyEmpty
    /\ UNCHANGED added

\* Mutant: the object is deleted while it is still read.
DestroyElementAtOnce(t, k) ==
    /\ tpc[t] = "idle"
    /\ k \in present /\ item[k] # NoItem
    /\ Erase(k, item[k])
    /\ UNCHANGED tvars

\* destroyElement: with readers, hide the item and wait for them; without,
\* delete it at once.
DestroyElement(t, k) ==
    /\ tpc[t] = "idle"
    /\ k \in present /\ item[k] # NoItem
    /\ \/ /\ readers[k] = 0
          /\ Erase(k, item[k])
          /\ UNCHANGED tvars
       \/ /\ readers[k] # 0
          /\ item' = [item EXCEPT ![k] = NoItem]
          /\ tpc' = [tpc EXCEPT ![t] = "wait"]
          /\ tkey' = [tkey EXCEPT ![t] = k]
          /\ titem' = [titem EXCEPT ![t] = item[k]]
          /\ UNCHANGED <<present, readers, added, deleted, wpc>>

\* Mutant: one wake-up is taken as the end of the readers.
DestroyResumeNoLoop(t) ==
    /\ tpc[t] = "woken"
    /\ Erase(tkey[t], titem[t])
    /\ tpc' = [tpc EXCEPT ![t] = "idle"]
    /\ UNCHANGED <<tkey, titem>>

\* Back from noReadersCondition.wait: the loop condition again.
DestroyResume(t) ==
    /\ tpc[t] = "woken"
    /\ \/ /\ readers[tkey[t]] = 0
          /\ Erase(tkey[t], titem[t])
          /\ tpc' = [tpc EXCEPT ![t] = "idle"]
       \/ /\ readers[tkey[t]] # 0
          /\ tpc' = [tpc EXCEPT ![t] = "wait"]
          /\ UNCHANGED <<mvars, wpc>>
    /\ UNCHANGED <<tkey, titem>>

\* A wake-up of a destroyer that nobody notified.
DestroySpurious(t) ==
    /\ tpc[t] = "wait"
    /\ tpc' = [tpc EXCEPT ![t] = "woken"]
    /\ UNCHANGED <<mvars, tkey, titem, wpc>>

\* waitForEmptyMap: return (no step) on an empty map, or sleep.
WaitForEmptyMap(w) ==
    /\ wpc[w] = "idle"
    /\ present # {}
    /\ wpc' = [wpc EXCEPT ![w] = "wait"]
    /\ UNCHANGED <<mvars, tvars>>

\* The predicate again, after a wake-up.
WaitForEmptyResume(w) ==
    /\ wpc[w] = "woken"
    /\ wpc' = [wpc EXCEPT ![w] = IF present = {} THEN "idle" ELSE "wait"]
    /\ UNCHANGED <<mvars, tvars>>

\* A wake-up of waitForEmptyMap that nobody sent.
WaitForEmptySpurious(w) ==
    /\ wpc[w] = "wait"
    /\ wpc' = [wpc EXCEPT ![w] = "woken"]
    /\ UNCHANGED <<mvars, tvars>>

-----------------------------------------------------------------------------
Next ==
    \/ \E t \in Threads, k \in Keys, i \in Items : AddElement(t, k, i)
    \/ \E t \in Threads, k \in Keys : OpenElement(t, k)
    \/ \E t \in Threads : ReleaseElement(t)
    \/ \E t \in Threads, k \in Keys : DestroyElement(t, k)
    \/ \E t \in Threads : DestroyResume(t)
    \/ \E t \in Threads : DestroySpurious(t)
    \/ \E w \in Waiters : WaitForEmptyMap(w)
    \/ \E w \in Waiters : WaitForEmptyResume(w)
    \/ \E w \in Waiters : WaitForEmptySpurious(w)

Spec == Init /\ [][Next]_vars

\* A reader releases what it opened, and a woken thread gets the mutex.
Fairness ==
    /\ \A t \in Threads : WF_vars(ReleaseElement(t)) /\ WF_vars(DestroyResume(t))
    /\ \A w \in Waiters : WF_vars(WaitForEmptyResume(w))

FairSpec == Spec /\ Fairness

-----------------------------------------------------------------------------
(* Properties.                                                             *)

\* Every variable keeps its type; above all numReaders never falls below zero.
TypeOK ==
    /\ present \subseteq Keys
    /\ item \in [Keys -> Items \cup {NoItem}]
    /\ readers \in [Keys -> Nat]
    /\ added \subseteq Items
    /\ deleted \subseteq Items
    /\ tpc \in [Threads -> {"idle", "reading", "wait", "woken", "thrown"}]
    /\ tkey \in [Threads -> Keys \cup {NoKey}]
    /\ titem \in [Threads -> Items \cup {NoItem}]
    /\ wpc \in [Waiters -> {"idle", "wait", "woken"}]

ReadersOf(k)  == {t \in Threads : Reading(t) /\ tkey[t] = k}

\* A thread that opened an element and has not released it never holds a freed
\* object, also when another thread destroys the element and the key is added
\* again meanwhile (openElement, destroyElement).
NoUseAfterFree == \A t \in Threads : Reading(t) => titem[t] \in added \ deleted

\* numReaders is the number of threads between openElement and releaseElement
\* of that key, so a release made by key hits the element that was opened.
ReaderCountExact == \A k \in Keys : readers[k] = Cardinality(ReadersOf(k))

\* releaseElement never throws "Invalid close on Mutex MAP" on a thread that
\* releases what it opened.
ReleaseNeverThrows == \A t \in Threads : tpc[t] # "thrown"

\* An object is deleted by one thread only and once: a destroyer asleep in
\* destroyElement is the only one of its object, which is still allocated.
SingleDestroyer ==
    \A t \in Threads : Destroying(t) =>
        /\ titem[t] \in added \ deleted
        /\ \A u \in Threads \ {t} : Destroying(u) => titem[u] # titem[t] /\ tkey[u] # tkey[t]

\* destroyElement returns: the readers that opened the element before it drain,
\* no new one gets in, and the last one wakes the destroyer.
DestroyReturns == \A t \in Threads : Destroying(t) ~> ~Destroying(t)

\* safe_map.h:85 "Waits until the map is empty": a thread in waitForEmptyMap
\* returns once the map is empty for good.
WaitersReturn == \A w \in Waiters : <>[](present = {}) => []<>(wpc[w] # "wait")

\* The refinement mapping: where an item is in its life, and who holds it.
StatusOf(i) ==
    CASE i \in deleted -> "reclaimed"
      [] i \notin added -> "new"
      [] i \in added \ deleted /\ (\E k \in Keys : item[k] = i) -> "published"
      [] OTHER -> "retired"

UsersOf(i) == {t \in Threads : Reading(t) /\ titem[t] = i}

Lifetime == INSTANCE ItemLifetime
                WITH status <- [i \in Items |-> StatusOf(i)],
                     users  <- [i \in Items |-> UsersOf(i)]

\* The map implements ItemLifetime: an object is handed out only while it is
\* published, and freed only when no thread uses it (addElement, openElement,
\* releaseElement, destroyElement).
ImplementsLifetime == Lifetime!Spec

(* Every blocking call of the map returns: the destroyers and the threads that
   wait for the empty map. *)
BlockedCallsReturn == DestroyReturns /\ WaitersReturn
=============================================================================
