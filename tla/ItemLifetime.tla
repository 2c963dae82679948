---------------------------- MODULE ItemLifetime ----------------------------
(***************************************************************************)
(* What Threads::Safe::Map promises about the objects stored in it, with   *)
(* no key, counter, mutex or condition variable.  An item is published     *)
(* once; threads borrow it while it is published; once retired nobody new  *)
(* gets it; and it is reclaimed (deleted) only when nobody uses it.        *)
(***************************************************************************)
CONSTANTS Items, Threads

VARIABLES status, \* of an item: "new", "published", "retired" or "reclaimed"
          users   \* the threads that hold the item

Init ==
    /\ status = [i \in Items |-> "new"]
    /\ users = [i \in Items |-> {}]

Publish(i) ==
    /\ status[i] = "new"
    /\ status' = [status EXCEPT ![i] = "published"]
    /\ UNCHANGED users

Borrow(t, i) ==
    /\ status[i] = "published"
    /\ \A j \in Items : t \notin users[j]
    /\ users' = [users EXCEPT ![i] = @ \cup {t}]
    /\ UNCHANGED status

Return(t, i) ==
    /\ t \in users[i]
    /\ users' = [users EXCEPT ![i] = @ \ {t}]
    /\ UNCHANGED status

Retire(i) ==
    /\ status[i] = "published"
    /\ status' = [status EXCEPT ![i] = "retired"]
    /\ UNCHANGED users

Reclaim(i) ==
    /\ status[i] \in {"published", "retired"}
    /\ users[i] = {}
    /\ status' = [status EXCEPT ![i] = "reclaimed"]
    /\ UNCHANGED users

Next ==
    \E i \in Items :
        \/ Publish(i)
        \/ Retire(i)
        \/ Reclaim(i)
        \/ \E t \in Threads : Borrow(t, i) \/ Return(t, i)

Spec == Init /\ [][Next]_<<status, users>>
=============================================================================
