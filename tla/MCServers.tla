------------------------------ MODULE MCServers ------------------------------
(***************************************************************************)
(* The sessions of the web server and the threads that accept its clients, *)
(* one behaviour each.                                                     *)
(***************************************************************************)
EXTENDS WebSessionsManager, MultiThreadedAcceptor

VARIABLE component     \* the component this behaviour is about

CONSTANTS k1, k2, k3, k4, k5, p1, p2

\* Three connections of one address and two of another.
MCConns == {k1, k2, k3, k4, k5}
MCAddr == [c \in MCConns |-> IF c \in {k4, k5} THEN p2 ELSE p1]

allVars == <<component, vars, acceptorVars>>

Components == {"sessions", "acceptor"}

MCInit ==
  /\ component \in Components
  /\ Init /\ AcceptorInit

\* The steps of one component leave the state of the others alone.
MCNext ==
  \/ component = "sessions" /\ Next
       /\ UNCHANGED <<component, acceptorVars>>
  \/ component = "acceptor" /\ AcceptorNext
       /\ UNCHANGED <<component, vars>>

On(c, A) == component = c /\ A

\* Every thread that can go on goes on, a client releases the session it holds and
\* the timed wait ends; a client's callback returns once the destructor has shut its
\* socket down.  Fairness is strong where a thread of the sessions waits for others:
\* for the last reader, or for m_endNotificationMutex.
MCSpec ==
  /\ MCInit /\ [][MCNext]_allVars
  /\ \A c \in Clients : SF_vars(On("sessions", ClientStep(c)))
  /\ SF_vars(On("sessions", CollectorStep)) /\ SF_vars(On("sessions", StopGarbageCollector))
  /\ \A a \in Acceptors : WF_acceptorVars(On("acceptor", AcceptorStep(a)))
  /\ \A c \in Conns : /\ WF_acceptorVars(On("acceptor", FinalizeThreadElement(c)))
                      /\ WF_acceptorVars(On("acceptor", ClientEnds(c) /\ dpc \in {"wait", "woken"}))
  /\ WF_acceptorVars(On("acceptor", Destructor))

=============================================================================
