------------------------------- MODULE Socket -------------------------------
(***************************************************************************)
(* The life of a Socket object and of its descriptor: connectFrom over the *)
(* addresses of a name, listenOn, acceptConnection, the shutdown of each   *)
(* direction, closeSocket, for the TCP, the UDP and the UNIX socket.  One  *)
(* thread opens and uses the socket; another one shuts it down or closes   *)
(* it meanwhile, as those who stop a server or a bridge do.  The table of  *)
(* the descriptors of the process is the system's; other parts of the      *)
(* process take the numbers that become free.                              *)
(***************************************************************************)
EXTENDS Integers, Sequences

CONSTANTS SFds,       \* descriptor numbers, a range 1..n
          SNames,     \* what a name may resolve to: sequences of the families 4 and 6
          SMaxOpens,  \* descriptors opened by the socket
          SMaxCalls   \* calls of the other thread

\* Descriptors are numbers that are not negative; a name that resolves has an address.
ASSUME SockAssumption == SFds \subseteq Nat /\ SNames \subseteq Seq({4, 6}) \ {<<>>}

VARIABLES skind,    \* "none" before the socket is made
          sfd,      \* m_sockFD
          stab,     \* the descriptors of the process
          sdown,    \* m_shutdownProtocolOnRead, m_shutdownProtocolOnWrite
          slisten,  \* m_isInListenMode
          srtime,   \* m_readTimeout
          sresolved,\* UDP: m_addressInfoResolution is set
          sop,      \* the call of the first thread: where it is, the addresses left, its result
          sctl,     \* the call of the second thread
          sopens, scalls,
          sbindFailed, \* history: bind() failed on a descriptor of this socket
          swrong       \* history: a system call reached a descriptor that is not the socket's

sObject == <<skind, sdown, slisten, srtime, sresolved>>
sockVars == <<sObject, sfd, stab, sop, sctl, sopens, scalls, sbindFailed, swrong>>

FreeFd == [owner |-> "free", st |-> "fresh", fam |-> 0, nb |-> FALSE, shut |-> {}, rt |-> 0]
IdleOp == [pc |-> "idle", addrs |-> <<>>, fam |-> 0, ok |-> FALSE]

SockInit ==
  /\ skind = "none" /\ sfd = -1 /\ stab = [f \in SFds |-> FreeFd] /\ sdown = {}
  /\ slisten = FALSE /\ srtime = 300 /\ sresolved = FALSE /\ sop = IdleOp
  /\ sctl = [pc |-> "idle", mode |-> {}, on |-> -1] /\ sopens = 0 /\ scalls = 0
  /\ sbindFailed = FALSE /\ swrong = FALSE

NewSocket(k) ==
  /\ skind = "none" /\ skind' = k
  /\ UNCHANGED <<sdown, slisten, srtime, sresolved, sfd, stab, sop, sctl, sopens, scalls,
                 sbindFailed, swrong>>

-----------------------------------------------------------------------------
(* The system.                                                             *)

FreeFds(tab) == {f \in SFds : tab[f].owner = "free"}
LowestFree(tab) == CHOOSE f \in FreeFds(tab) : \A g \in FreeFds(tab) : f <= g
OwnFd(tab, f) == f \in SFds /\ tab[f].owner = "socket"

\* close(): of a number that is not in use an error, of any other the end of whatever
\* has that number now.
CloseFd(tab, f) == IF f \in SFds THEN [tab EXCEPT ![f] = FreeFd] ELSE tab
Misses(tab, f) == f \in SFds /\ tab[f].owner # "free" /\ ~OwnFd(tab, f)

\* Other parts of the process open and close descriptors of their own.
OthersOpen ==
  /\ FreeFds(stab) # {} /\ \A f \in SFds : stab[f].owner # "other"
  /\ stab' = [stab EXCEPT ![LowestFree(stab)] = [FreeFd EXCEPT !.owner = "other"]]
  /\ UNCHANGED <<sObject, sfd, sop, sctl, sopens, scalls, sbindFailed, swrong>>

-----------------------------------------------------------------------------
(* Steps of a call.  A step works on [fd, tab, failed, wrong]: m_sockFD, the           *)
(* descriptors, and the two histories.                                                 *)

Now == [fd |-> sfd, tab |-> stab, down |-> sdown, failed |-> sbindFailed, wrong |-> swrong]
Become(s) ==
  /\ sfd' = s.fd /\ stab' = s.tab /\ sdown' = s.down /\ sbindFailed' = s.failed /\ swrong' = s.wrong

CloseSocketKeeps(s) ==
  IF s.fd = -1 THEN s
  ELSE [s EXCEPT !.tab = CloseFd(s.tab, s.fd), !.wrong = @ \/ Misses(s.tab, s.fd)]
CloseSocket(s) ==
  IF s.fd = -1 THEN s
  ELSE [s EXCEPT !.fd = -1, !.tab = CloseFd(s.tab, s.fd), !.wrong = @ \/ Misses(s.tab, s.fd)]

\* socket(): no descriptor left is the failure.
OpenFd(s, fam) ==
  IF FreeFds(s.tab) = {} THEN [s EXCEPT !.fd = -1]
  ELSE [s EXCEPT !.fd = LowestFree(s.tab),
                 !.tab[LowestFree(s.tab)] = [FreeFd EXCEPT !.owner = "socket", !.fam = fam]]

\* bindTo: no address is a success; one that cannot be parsed leaves the descriptor;
\* a refused one closes it and leaves its number in m_sockFD.
BindOK(bind) == bind \in {"none", "good"}
BindTo(s, bind) ==
  IF bind # "refused" THEN s
  ELSE [s EXCEPT !.tab = CloseFd(s.tab, s.fd), !.failed = TRUE]

\* iShutdown: only the directions that are not down yet, and they are down whatever
\* the system says.  It refuses a descriptor without a connection and gives up one
\* that is being made.
Fresh(s, mode) == IF s.fd = -1 THEN {} ELSE mode \ s.down
ShutSocket(s, mode) ==
  LET dirs == Fresh(s, mode)
  IN IF dirs = {} THEN s
     ELSE [s EXCEPT !.down = @ \cup dirs, !.wrong = @ \/ Misses(s.tab, s.fd),
                    !.tab = IF s.fd \notin SFds \/ s.tab[s.fd].st = "fresh" THEN s.tab
                            ELSE IF s.tab[s.fd].st = "connecting" THEN [s.tab EXCEPT ![s.fd].st = "fresh"]
                            ELSE [s.tab EXCEPT ![s.fd].shut = @ \cup dirs]]

\* setsockopt and fcntl on the descriptor: they do nothing on a number not in use.
Option(s, opt, val) ==
  IF OwnFd(s.tab, s.fd)
  THEN [s EXCEPT !.tab[s.fd] = IF opt = "rt" THEN [@ EXCEPT !.rt = val] ELSE [@ EXCEPT !.nb = val]]
  ELSE s

-----------------------------------------------------------------------------
(* connectFrom.                                                            *)

Finish(ok) == sop' = [IdleOp EXCEPT !.pc = "returned", !.ok = ok]

\* getAddrInfo fails, or gives the addresses.
StartConnect ==
  /\ skind = "TCP" /\ sop.pc \in {"idle", "returned"} /\ ~slisten
  /\ \/ Finish(FALSE)
     \/ \E a \in SNames : sop' = [IdleOp EXCEPT !.pc = "next", !.addrs = a, !.fam = Head(a)]
  /\ UNCHANGED <<sObject, sfd, stab, sctl, sopens, scalls, sbindFailed, swrong>>

\* One turn of the loop up to connect(): the descriptor of the turn before is closed,
\* the new one has the family of the FIRST address.
NextAddress(bind, ipv6) ==
  /\ sop.pc = "next" /\ sop.addrs # <<>> /\ sopens < SMaxOpens /\ sopens' = sopens + 1
  /\ LET s1 == OpenFd(CloseSocket(Now), sop.fam)
         s2 == BindTo(s1, bind)
         s3 == Option(s2, "rt", 0)
         denied == Head(sop.addrs) = 6 /\ ~ipv6
     IN IF s1.fd = -1 THEN Become(s1) /\ Finish(FALSE) /\ UNCHANGED srtime
        ELSE IF ~BindOK(bind) THEN Become(s2) /\ Finish(FALSE) /\ UNCHANGED srtime
        ELSE IF denied
        THEN /\ Become(CloseSocket(ShutSocket(s3, {"rd", "wr"}))) /\ srtime' = 0
             /\ sop' = [sop EXCEPT !.addrs = Tail(@)]
        ELSE Become(s3) /\ srtime' = 0 /\ sop' = [sop EXCEPT !.pc = "connect"]
  /\ UNCHANGED <<skind, slisten, sresolved, sctl, scalls>>

NoMoreAddresses ==
  /\ sop.pc = "next" /\ sop.addrs = <<>> /\ Finish(FALSE)
  /\ UNCHANGED <<sObject, sfd, stab, sctl, sopens, scalls, sbindFailed, swrong>>

\* tcpConnect, first half: the mode of the descriptor, connect().  An immediate success
\* is put back in blocking mode and reported as a failure.
TcpConnect(outcome) ==
  /\ sop.pc = "connect"
  /\ LET s1 == Option(Now, "nb", TRUE)
         failed == sop' = [sop EXCEPT !.pc = "next", !.addrs = Tail(@)]
     IN IF ~OwnFd(stab, sfd) \/ outcome = "error" \/ stab[sfd].fam # Head(sop.addrs)
        THEN Become(s1) /\ failed
        ELSE IF outcome = "immediate"
        THEN Become([Option(s1, "nb", FALSE) EXCEPT !.tab[sfd].st = "connected"]) /\ failed
        ELSE /\ Become([s1 EXCEPT !.tab[sfd].st = "connecting"])
             /\ sop' = [sop EXCEPT !.pc = "select"]
  /\ UNCHANGED <<skind, slisten, srtime, sresolved, sctl, sopens, scalls>>

\* Second half: select() timed out, was interrupted, or found an error; or the socket
\* is connected, in blocking mode again, with the timeouts of the caller, and the
\* protocol on top agrees or not.
Selected(outcome, override, protocol) ==
  /\ sop.pc = "select"
  /\ LET s1 == [Option(Now, "nb", FALSE) EXCEPT !.tab[sfd].st = "connected"]
         s2 == IF override # -1 THEN Option(s1, "rt", override) ELSE s1
     IN IF outcome # "ready" \/ ~OwnFd(stab, sfd) \/ stab[sfd].st # "connecting"
        THEN Become(Now) /\ sop' = [sop EXCEPT !.pc = "next", !.addrs = Tail(@)] /\ UNCHANGED srtime
        ELSE /\ srtime' = IF override # -1 THEN override ELSE srtime
             /\ Finish(protocol)
             /\ Become(IF protocol THEN s2 ELSE CloseSocket(ShutSocket(s2, {"rd", "wr"})))
  /\ UNCHANGED <<skind, slisten, sresolved, sctl, sopens, scalls>>

\* UNIX and UDP close what was open first.
MayOpen ==
  sop.pc \in {"idle", "returned"} /\ sopens < SMaxOpens /\ sopens' = sopens + 1

\* A refused UNIX connection leaves its descriptor open.
ConnectUNIX(outcome) ==
  /\ skind = "UNIX" /\ ~slisten /\ MayOpen
  /\ LET s1 == OpenFd(CloseSocket(Now), 4)
         s2 == Option(s1, "rt", 30)
     IN /\ srtime' = IF s1.fd = -1 THEN srtime ELSE 30
        /\ Finish(s1.fd # -1 /\ outcome = "ready")
        /\ Become(IF s1.fd = -1 \/ outcome = "error" THEN s2
                  ELSE [s2 EXCEPT !.tab[s2.fd].st = "connected"])
  /\ UNCHANGED <<skind, slisten, sresolved, sctl, scalls>>

\* The resolution of the name is kept for writeBlock, also when the bind fails.
ConnectUDP(bind, outcome) ==
  /\ skind = "UDP" /\ ~slisten /\ MayOpen
  /\ LET s0 == CloseSocket(Now)
         s1 == OpenFd(s0, 4)
         s2 == BindTo(s1, bind)
         s3 == Option(s2, "rt", 30)
     IN /\ sresolved' = (outcome = "ready")
        /\ srtime' = IF outcome = "ready" /\ s1.fd # -1 /\ BindOK(bind) THEN 30 ELSE srtime
        /\ Finish(outcome = "ready" /\ s1.fd # -1 /\ BindOK(bind))
        /\ Become(IF outcome = "error" THEN s0
                  ELSE IF s1.fd = -1 THEN s1
                  ELSE IF ~BindOK(bind) THEN s2
                  ELSE [s3 EXCEPT !.tab[s3.fd].st = "connected"])
  /\ UNCHANGED <<skind, slisten, sctl, scalls>>

\* UDP writeBlock: to the resolved address, on the number that m_sockFD has.
WriteDatagram ==
  /\ skind = "UDP" /\ sop.pc = "returned" /\ sfd # -1 /\ sresolved
  /\ swrong' = (swrong \/ Misses(stab, sfd))
  /\ UNCHANGED <<sObject, sfd, stab, sop, sctl, sopens, scalls, sbindFailed>>

-----------------------------------------------------------------------------
(* listenOn and acceptConnection.                                          *)

Listening(s) == [s EXCEPT !.tab[s.fd].st = "listening"]

\* TCP opens over the descriptor it has; every caller gives it a socket without one.
ListenTCP(bind, listens) ==
  /\ skind = "TCP" /\ sfd = -1 /\ MayOpen
  /\ LET s1 == OpenFd(Now, 4)
         s2 == BindTo(s1, bind)
         done == s1.fd # -1 /\ BindOK(bind) /\ listens
     IN /\ slisten' = (slisten \/ done) /\ Finish(done)
        /\ Become(IF s1.fd = -1 THEN s1
                  ELSE IF ~BindOK(bind) THEN s2
                  ELSE IF ~listens THEN CloseSocket(s2) ELSE Listening(s2))
  /\ UNCHANGED <<skind, srtime, sresolved, sctl, scalls>>

ListenUDP(bind) ==
  /\ skind = "UDP" /\ MayOpen
  /\ LET s1 == OpenFd(CloseSocket(Now), 4)
         s2 == BindTo(s1, bind)
         done == s1.fd # -1 /\ BindOK(bind)
     IN /\ slisten' = (slisten \/ done) /\ Finish(done)
        /\ Become(IF s1.fd = -1 THEN s1 ELSE IF done THEN Listening(s2) ELSE s2)
  /\ UNCHANGED <<skind, srtime, sresolved, sctl, scalls>>

\* UNIX binds by itself, and closes with closeSocket when it cannot.
ListenUNIX(listens) ==
  /\ skind = "UNIX" /\ MayOpen
  /\ LET s1 == OpenFd(CloseSocket(Now), 4)
         done == s1.fd # -1 /\ listens
     IN /\ slisten' = (slisten \/ done) /\ Finish(done)
        /\ Become(IF done THEN Listening(s1) ELSE CloseSocket(s1))
  /\ UNCHANGED <<skind, srtime, sresolved, sctl, scalls>>

\* A connection of a listening TCP socket has its timeouts; it belongs to another
\* Socket object, and leaves the process with it.
Accepts(k, rt) ==
  /\ skind = k /\ slisten /\ OwnFd(stab, sfd) /\ stab[sfd].st = "listening"
  /\ "rd" \notin stab[sfd].shut /\ FreeFds(stab) # {}
  /\ \A f \in SFds : stab[f].owner # "accepted"
  /\ stab' = [stab EXCEPT ![LowestFree(stab)] =
                [FreeFd EXCEPT !.owner = "accepted", !.st = "connected", !.rt = rt]]
  /\ UNCHANGED <<sObject, sfd, sop, sctl, sopens, scalls, sbindFailed, swrong>>
AcceptTCP == Accepts("TCP", srtime)
AcceptUNIX == Accepts("UNIX", 0)
AcceptedCloses ==
  \E f \in SFds :
    /\ stab[f].owner = "accepted" /\ stab' = CloseFd(stab, f)
    /\ UNCHANGED <<sObject, sfd, sop, sctl, sopens, scalls, sbindFailed, swrong>>

\* setReadTimeout: kept for the connections to come while listening.
SetReadTimeout(t) ==
  /\ sop.pc = "returned" /\ sfd # -1 /\ srtime' = t
  /\ Become(IF slisten THEN Now ELSE Option(Now, "rt", t))
  /\ UNCHANGED <<skind, slisten, sresolved, sop, sctl, sopens, scalls>>

\* Socket_Stream::isConnected closes a socket whose peer is gone; the destructor
\* closes whatever is open.
IsConnected ==
  /\ skind \in {"TCP", "UNIX"} /\ sop.pc = "returned" /\ sfd # -1
  /\ ~(OwnFd(stab, sfd) /\ stab[sfd].st = "connected" /\ stab[sfd].shut # {"rd", "wr"})
  /\ Become(CloseSocket(Now)) /\ sop' = IdleOp
  /\ UNCHANGED <<skind, slisten, srtime, sresolved, sctl, sopens, scalls>>

-----------------------------------------------------------------------------
(* The other thread.                                                       *)

StartCall(pc, mode) ==
  /\ skind # "none" /\ sctl.pc = "idle" /\ scalls < SMaxCalls /\ sfd # -1
  /\ sctl' = [pc |-> pc, mode |-> mode, on |-> -1] /\ scalls' = scalls + 1
  /\ UNCHANGED <<sObject, sfd, stab, sop, sopens, sbindFailed, swrong>>

\* closeSocket: between isActive and the lock anything may happen; under it the number
\* is taken out of the object before it is closed.
CloseTwoThreads ==
  /\ sctl.pc = "close" /\ sctl' = [sctl EXCEPT !.pc = "idle"]
  /\ Become(CloseSocket(Now))
  /\ UNCHANGED <<skind, slisten, srtime, sresolved, sop, sopens, scalls>>

\* shutdownSocket: the flags decide, then the system call, then the flags.  "on" is a
\* history: which descriptor of the socket it was called for, connected.
ShutdownTwoThreads ==
  /\ sctl.pc = "shutdown"
  /\ sctl' = [sctl EXCEPT !.pc = "done",
                          !.on = IF OwnFd(stab, sfd) /\ stab[sfd].st = "connected" THEN sopens ELSE -1]
  /\ Become(ShutSocket(Now, sctl.mode))
  /\ UNCHANGED <<skind, slisten, srtime, sresolved, sop, sopens, scalls>>
ReturnToCaller ==
  /\ sctl.pc = "done" /\ sctl' = [sctl EXCEPT !.pc = "idle"]
  /\ UNCHANGED <<sObject, sfd, stab, sop, sopens, scalls, sbindFailed, swrong>>

SockNext ==
  \/ \E k \in {"TCP", "UDP", "UNIX"} : NewSocket(k)
  \/ OthersOpen
  \/ StartConnect \/ NoMoreAddresses
  \/ \E b \in {"none", "unparsed", "refused"}, v6 \in BOOLEAN : NextAddress(b, v6)
  \/ \E o \in {"error", "immediate", "progress"} : TcpConnect(o)
  \/ \E o \in {"ready", "not ready"}, ov \in {-1, 7}, p \in BOOLEAN : Selected(o, ov, p)
  \/ \E o \in {"error", "ready"} : ConnectUNIX(o) \/ \E b \in {"none", "refused"} : ConnectUDP(b, o)
  \/ WriteDatagram
  \/ \E b \in {"good", "unparsed", "refused"} : ListenUDP(b) \/ \E l \in BOOLEAN : ListenTCP(b, l)
  \/ \E l \in BOOLEAN : ListenUNIX(l)
  \/ AcceptTCP \/ AcceptUNIX \/ AcceptedCloses \/ IsConnected
  \/ SetReadTimeout(9)
  \/ StartCall("close", {}) \/ StartCall("shutdown", {"rd", "wr"}) \/ StartCall("shutdown", {"wr"})
  \/ CloseTwoThreads \/ ShutdownTwoThreads \/ ReturnToCaller

SockSpec == SockInit /\ [][SockNext]_sockVars

-----------------------------------------------------------------------------
(* Properties.                                                             *)

\* Two threads that close, a loop over addresses and a reconnection never close or
\* write to a descriptor of somebody else, unless a bind() failed: bindTo closes the
\* descriptor and leaves its number in the object.
TouchesItsOwn == swrong => sbindFailed

\* No descriptor is lost: what the socket opened is closed or is the one it has.
NoneLost == \A f \in SFds : OwnFd(stab, f) => f = sfd

\* A connection that was reported is one: open, in blocking mode, with the timeout of
\* the caller or none, whatever failed addresses came before it.
ConnectedIsUsable ==
  (sop.pc = "returned" /\ sop.ok /\ skind = "TCP" /\ ~slisten /\ OwnFd(stab, sfd)) =>
    /\ stab[sfd].st = "connected" /\ ~stab[sfd].nb
    /\ stab[sfd].rt = srtime /\ srtime \in {0, 7, 9}

\* The first shutdownSocket of a socket that was opened once ends both directions of
\* its connection.
FirstShutdownEnds ==
  (sctl.pc = "done" /\ sctl.mode = {"rd", "wr"} /\ sctl.on = sopens /\ OwnFd(stab, sfd)
    /\ sopens = 1 /\ scalls = 1) => stab[sfd].shut = {"rd", "wr"}

\* ... and of any other: "Shutdown the internal protocol and connection ... both sides
\* will start to fail to receive/send" (socket.h).
ShutdownEnds ==
  (sctl.pc = "done" /\ sctl.mode = {"rd", "wr"} /\ sctl.on = sopens /\ OwnFd(stab, sfd))
    => stab[sfd].shut = {"rd", "wr"}

(* A socket uses and closes its own descriptor only and loses none; what it reports as
   connected is, and its first shutdown ends the connection. *)
SocketSound == TouchesItsOwn /\ NoneLost /\ ConnectedIsUsable /\ FirstShutdownEnds
=============================================================================
