----------------------- MODULE MultiThreadedAcceptor ------------------------
(***************************************************************************)
(* Sockets::Acceptors::MultiThreaded after startInBackground: one thread   *)
(* per acceptor socket accepts connections and starts a detached thread    *)
(* for each, within a limit of clients and one of connections per address. *)
(* The acceptor threads hold shared_ptrs to the acceptor, the client       *)
(* threads a bare pointer.  The destructor runs on the thread that drops   *)
(* the last shared_ptr.                                                    *)
(***************************************************************************)
EXTENDS Naturals, FiniteSets

CONSTANTS Acceptors,            \* acceptor threads, each with its socket
          Conns,                \* connections
          Addrs,
          Addr,                 \* the remote address of a connection
          MaxConcurrentClients,
          MaxConnectionsPerIP,
          Program,              \* the thread of the program
          NoConn

ASSUME AcceptorAssumption ==
    /\ IsFiniteSet(Conns)
    /\ Addr \in [Conns -> Addrs]
    /\ MaxConcurrentClients \in Nat
    /\ MaxConnectionsPerIP \in Nat
    /\ Program \notin Acceptors
    /\ NoConn \notin Conns

VARIABLES apc,        \* an acceptor thread: "accept", "process", "wait", "woken", "exit" or "gone"
          acur,       \* the connection it processes
          conn,       \* a connection: "new", "accepted", "running", "finalizing", "closed"
          threadList, \* m_threadList
          perIP,      \* m_connectionsPerIP, 0 for no entry
          closed,     \* the acceptor sockets are shut down
          finalized,  \* m_finalized
          owned,      \* the program has its shared_ptr
          dpc,        \* the destructor: "none", "start", "join", "close", "wait", "woken", "done", "terminated"
          dthread     \* the thread it runs on

acceptorVars == <<apc, acur, conn, threadList, perIP, closed, finalized, owned, dpc, dthread>>

acceptVars == <<apc, acur>>
acceptedVars == <<conn, threadList, perIP>>
lifeVars   == <<closed, finalized, owned, dpc, dthread>>

AcceptorInit ==
    /\ apc = [a \in Acceptors |-> "accept"]
    /\ acur = [a \in Acceptors |-> NoConn]
    /\ conn = [c \in Conns |-> "new"]
    /\ threadList = {}
    /\ perIP = [p \in Addrs |-> 0]
    /\ closed = FALSE
    /\ finalized = FALSE
    /\ owned = TRUE
    /\ dpc = "none" /\ dthread = Program

-----------------------------------------------------------------------------
(* The acceptor threads: acceptClient until it fails.                      *)

\* acceptConnection returns a connection ...
AcceptClient(a, c) ==
    /\ apc[a] = "accept"
    /\ ~closed
    /\ conn[c] = "new"
    /\ conn' = [conn EXCEPT ![c] = "accepted"]
    /\ acur' = [acur EXCEPT ![a] = c]
    /\ apc' = [apc EXCEPT ![a] = "process"]
    /\ UNCHANGED <<threadList, perIP, lifeVars>>

\* ... or fails, because the socket is shut down: the thread is over.
AcceptFails(a) ==
    /\ apc[a] = "accept"
    /\ closed
    /\ apc' = [apc EXCEPT ![a] = "exit"]
    /\ UNCHANGED <<acur, acceptedVars, lifeVars>>

\* processClient, with m_mutexClients: the connection is done with, the socket
\* closes and the thread goes on with pc.
Reject(a, pc) ==
    /\ conn' = [conn EXCEPT ![acur[a]] = "closed"]
    /\ acur' = [acur EXCEPT ![a] = NoConn]
    /\ apc' = [apc EXCEPT ![a] = pc]
    /\ UNCHANGED <<threadList, perIP, lifeVars>>

\* Mutant: the address is not counted.
StartClientUncounted(a) ==
    /\ threadList' = threadList \cup {acur[a]}
    /\ conn' = [conn EXCEPT ![acur[a]] = "running"]
    /\ acur' = [acur EXCEPT ![a] = NoConn]
    /\ apc' = [apc EXCEPT ![a] = "accept"]
    /\ UNCHANGED <<perIP, lifeVars>>

\* The client thread is listed and started.
StartClient(a) ==
    /\ threadList' = threadList \cup {acur[a]}
    /\ perIP' = [perIP EXCEPT ![Addr[acur[a]]] = @ + 1]
    /\ conn' = [conn EXCEPT ![acur[a]] = "running"]
    /\ acur' = [acur EXCEPT ![a] = NoConn]
    /\ apc' = [apc EXCEPT ![a] = "accept"]
    /\ UNCHANGED lifeVars

Full == Cardinality(threadList) >= MaxConcurrentClients

\* Mutant: a woken thread does not test the limit again.
ProcessClientNoLoop(a) ==
    /\ apc[a] \in {"process", "woken"}
    /\ \/ /\ Full /\ ~finalized /\ apc[a] = "process"
          /\ apc' = [apc EXCEPT ![a] = "wait"]
          /\ UNCHANGED <<acur, acceptedVars, lifeVars>>
       \/ /\ ~Full \/ finalized \/ apc[a] = "woken"
          /\ IF finalized THEN Reject(a, "exit")
             ELSE IF perIP[Addr[acur[a]]] + 1 > MaxConnectionsPerIP THEN Reject(a, "accept")
             ELSE StartClient(a)

\* It waits while there are too many clients; the increment of the address'
\* counter is taken back when it passes the limit.
ProcessClient(a) ==
    /\ apc[a] \in {"process", "woken"}
    /\ \/ /\ Full /\ ~finalized
          /\ apc' = [apc EXCEPT ![a] = "wait"]
          /\ UNCHANGED <<acur, acceptedVars, lifeVars>>
       \/ /\ ~Full \/ finalized
          /\ IF finalized THEN Reject(a, "exit")
             ELSE IF perIP[Addr[acur[a]]] + 1 > MaxConnectionsPerIP THEN Reject(a, "accept")
             ELSE StartClient(a)

\* maxWaitMSTime is over, notified or not.
AcceptTimeout(a) ==
    /\ apc[a] \in {"wait", "woken"}
    /\ Reject(a, "accept")

AcceptSpurious(a) ==
    /\ apc[a] = "wait"
    /\ apc' = [apc EXCEPT ![a] = "woken"]
    /\ UNCHANGED <<acur, acceptedVars, lifeVars>>

\* The thread ends and drops its shared_ptr: if it was the last one, the
\* destructor runs here.
ThreadEnds(a) ==
    /\ apc[a] = "exit"
    /\ apc' = [apc EXCEPT ![a] = "gone"]
    /\ LET last == ~owned /\ \A b \in Acceptors \ {a} : apc[b] = "gone"
       IN  /\ dpc' = IF last THEN "start" ELSE dpc
           /\ dthread' = IF last THEN a ELSE dthread
    /\ UNCHANGED <<acur, acceptedVars, closed, finalized, owned>>

-----------------------------------------------------------------------------
(* The client threads.                                                     *)

\* postInitConnection returns: the callback is over, or the handshake failed.
ClientEnds(c) ==
    /\ conn[c] = "running"
    /\ conn' = [conn EXCEPT ![c] = "finalizing"]
    /\ UNCHANGED <<acceptVars, threadList, perIP, lifeVars>>

\* The notify_one of m_condClientsNotFull.
NotifyNotFull ==
    LET waiting == {a \in Acceptors : apc[a] = "wait"}
    IN  \/ waiting = {} /\ UNCHANGED apc
        \/ \E a \in waiting : apc' = [apc EXCEPT ![a] = "woken"]

\* Mutant: the list is tested before the client is taken out of it.
FinalizeThreadElementLate(c) ==
    /\ conn[c] = "finalizing" /\ c \in threadList
    /\ threadList' = threadList \ {c}
    /\ perIP' = [perIP EXCEPT ![Addr[c]] = @ - 1]
    /\ conn' = [conn EXCEPT ![c] = "closed"]
    /\ NotifyNotFull
    /\ dpc' = IF dpc = "wait" /\ threadList = {} THEN "woken" ELSE dpc
    /\ UNCHANGED <<acur, closed, finalized, owned, dthread>>

\* finalizeThreadElement: out of the list and of the address' counter; the
\* destructor is notified of an empty list.
FinalizeThreadElement(c) ==
    /\ conn[c] = "finalizing" /\ c \in threadList
    /\ threadList' = threadList \ {c}
    /\ perIP' = [perIP EXCEPT ![Addr[c]] = @ - 1]
    /\ conn' = [conn EXCEPT ![c] = "closed"]
    /\ NotifyNotFull
    /\ dpc' = IF dpc = "wait" /\ threadList' = {} THEN "woken" ELSE dpc
    /\ UNCHANGED <<acur, closed, finalized, owned, dthread>>

-----------------------------------------------------------------------------
(* The program, and the destructor.                                        *)

Stop ==
    /\ owned
    /\ ~closed
    /\ closed' = TRUE
    /\ UNCHANGED <<acceptVars, acceptedVars, finalized, owned, dpc, dthread>>

\* The program drops its shared_ptr.
DropOwnership ==
    /\ owned
    /\ owned' = FALSE
    /\ dpc' = IF \A a \in Acceptors : apc[a] = "gone" THEN "start" ELSE dpc
    /\ UNCHANGED <<acceptVars, acceptedVars, closed, finalized, dthread>>

\* ~MultiThreaded: stop the sockets, finalize, wake the waiting, ...
DestructorStart ==
    /\ dpc = "start"
    /\ closed' = TRUE
    /\ finalized' = TRUE
    /\ apc' = [a \in Acceptors |-> IF apc[a] = "wait" THEN "woken" ELSE apc[a]]
    /\ dpc' = "join"
    /\ UNCHANGED <<acur, acceptedVars, owned, dthread>>

\* ... join the acceptor threads, which throws on one of them, ...
DestructorJoin ==
    /\ dpc = "join"
    /\ \A a \in Acceptors : apc[a] = "gone"
    /\ dpc' = IF dthread \in Acceptors THEN "terminated" ELSE "close"
    /\ UNCHANGED <<acceptVars, acceptedVars, closed, finalized, owned, dthread>>

\* Mutant: the destructor does not wait for the clients it has stopped.
DestructorCloseOnly ==
    /\ dpc \in {"close", "woken"}
    /\ dpc' = "done"
    /\ UNCHANGED <<acceptVars, acceptedVars, closed, finalized, owned, dthread>>

\* ... stop the clients' sockets and wait until the list is empty.
DestructorClose ==
    /\ dpc \in {"close", "woken"}
    /\ dpc' = IF threadList = {} THEN "done" ELSE "wait"
    /\ UNCHANGED <<acceptVars, acceptedVars, closed, finalized, owned, dthread>>

DestructorSpurious ==
    /\ dpc = "wait"
    /\ dpc' = "woken"
    /\ UNCHANGED <<acceptVars, acceptedVars, closed, finalized, owned, dthread>>

-----------------------------------------------------------------------------
AcceptorStep(a) == AcceptFails(a) \/ ProcessClient(a) \/ AcceptTimeout(a) \/ ThreadEnds(a)

Destructor == DestructorStart \/ DestructorJoin \/ DestructorClose

AcceptorNext ==
    \/ \E a \in Acceptors :
          \/ \E c \in Conns : AcceptClient(a, c)
          \/ AcceptFails(a) \/ ProcessClient(a) \/ AcceptTimeout(a) \/ AcceptSpurious(a)
          \/ ThreadEnds(a)
    \/ \E c \in Conns : ClientEnds(c) \/ FinalizeThreadElement(c)
    \/ Stop \/ DropOwnership
    \/ DestructorStart \/ DestructorJoin \/ DestructorClose \/ DestructorSpurious

AcceptorSpec == AcceptorInit /\ [][AcceptorNext]_acceptorVars

-----------------------------------------------------------------------------
(* Properties.                                                             *)

\* The variables have their types; above all the counter of an address never
\* falls below zero, where decrementIPUsage throws.
AcceptorTypeOK ==
    /\ apc \in [Acceptors -> {"accept", "process", "wait", "woken", "exit", "gone"}]
    /\ acur \in [Acceptors -> Conns \cup {NoConn}]
    /\ conn \in [Conns -> {"new", "accepted", "running", "finalizing", "closed"}]
    /\ threadList \subseteq Conns
    /\ perIP \in [Addrs -> Nat]
    /\ closed \in BOOLEAN /\ finalized \in BOOLEAN /\ owned \in BOOLEAN
    /\ dpc \in {"none", "start", "join", "close", "wait", "woken", "done", "terminated"}
    /\ dthread \in Acceptors \cup {Program}

\* Never more clients than maxConcurrentClients, with several acceptor threads
\* that wait for a free place, are woken together or by mistake, and time out.
ClientsWithinLimit == Cardinality(threadList) <= MaxConcurrentClients

\* The counter of an address is the number of its listed clients, and within
\* maxConnectionsPerIP: no sequence of refusals and endings makes it drift.
AddressCountExact ==
    \A p \in Addrs :
        /\ perIP[p] = Cardinality({c \in threadList : Addr[c] = p})
        /\ perIP[p] <= MaxConnectionsPerIP

\* The acceptor is not freed while a client thread still has to report its end
\* to it through the bare pointer, nor while an acceptor thread accepts.
OutlivesThreads ==
    dpc = "done" => /\ \A c \in Conns : conn[c] \notin {"running", "finalizing"}
                    /\ \A a \in Acceptors : apc[a] = "gone"

\* Stopped and then released by the program, after its threads have ended, the
\* acceptor is destroyed: the destructor does not sleep beside an empty list.
DestructorReturns == (dpc = "close") ~> (dpc = "done")
=============================================================================
