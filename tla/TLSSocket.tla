------------------------------ MODULE TLSSocket ------------------------------
(***************************************************************************)
(* The TLS sockets of a process: accepted by one listening socket, or       *)
(* connecting.  What the library OpenSSL does is external: it hands out the *)
(* address of an SSL handle, and again once it is freed; it asks for the    *)
(* pre-shared key of a handshake by that address; it verifies a peer.  The  *)
(* map from the address to the wallet of keys is static, shared by all      *)
(* sockets of the process, each of which runs in a thread of its own.       *)
(* Once open, a TLS socket is a stream: SocketStream.                       *)
(***************************************************************************)
EXTENDS SocketStream, Naturals, FiniteSets, Sequences

CONSTANTS TSockets,   \* the sockets
          THandles,   \* addresses of SSL handles, a range 1..n
          TSetups,    \* role, own keys and options of a socket, its peer
          TParent,    \* the wallet of the listening socket: identity |-> key
          TRetries    \* ttl of iPartialRead and iPartialWrite

ASSUME TLSAssumption ==
  /\ TRetries \in Nat /\ THandles \subseteq Nat \ {0} /\ "none" \notin TSockets
  /\ \A s \in TSetups : s.role \in {"server", "client"}

VARIABLES tsock,   \* the socket objects
          tmap,    \* m_serverPSKBySSLHandlerMap, m_clientPSKBySSLHandlerMap: role and handle |-> socket
          tlive,   \* handles in use, by OpenSSL
          treused  \* history: sockets whose handle was handed out while an entry for it was left

tlsVars == <<tsock, tmap, tlive, treused>>

NewTLS == [at |-> "none", setup |-> [role |-> "none"], option |-> "VALIDATE", handle |-> 0,
           linked |-> 0, asked |-> "none", client |-> "none",
           sent |-> FALSE, wdown |-> FALSE, tcp |-> {}, ttl |-> TRetries]

TLSInit ==
  /\ tsock = [t \in TSockets |-> NewTLS] /\ tmap = [r \in {"server", "client"} |-> [h \in THandles |-> "none"]]
  /\ tlive = {} /\ treused = {}

Role(t) == tsock[t].setup.role
Server(t) == Role(t) = "server"
UsesPSK(t) ==
  IF Server(t) THEN TParent # <<>> ELSE tsock[t].setup.psk # "none"
Goes(t, at) == tsock' = [tsock EXCEPT ![t].at = at]

-----------------------------------------------------------------------------
(* From the TCP connection to the TLS connection.                          *)

\* acceptConnection moves the descriptor into a new Socket_TLS that knows its parent;
\* a client is made by the program.
NewConnection(t, s) ==
  /\ tsock[t].at = "none"
  /\ tsock' = [tsock EXCEPT ![t] = [NewTLS EXCEPT !.at = "tcp", !.setup = s, !.option = s.option]]
  /\ UNCHANGED <<tmap, tlive, treused>>

\* postConnectSubInitialization, postAcceptSubInitialization: the context is made once,
\* then SSL_new.
FreeHandles == THandles \ tlive
NewHandle == CHOOSE h \in FreeHandles : \A g \in FreeHandles : h <= g
Left == {u \in TSockets : tsock[u].linked = NewHandle}
StartTLS(t) ==
  /\ tsock[t].at = "tcp" /\ FreeHandles # {}
  /\ tsock' = [tsock EXCEPT ![t].handle = NewHandle, ![t].at = "link"]
  /\ tlive' = tlive \cup {NewHandle}
  /\ treused' = treused \cup (IF Left = {} THEN {} ELSE Left \cup {t})
  /\ UNCHANGED tmap

\* A second initialization is refused: the handle is there.
StartTLSAgain(t) ==
  /\ tsock[t].at \in {"failed", "open"} /\ tsock[t].handle # 0
  /\ Goes(t, "failed")
  /\ UNCHANGED <<tmap, tlive, treused>>

\* The server's wallet is copied from the parent's; the static map gets an entry for
\* the handle unless it has one.
LinkPSK(t) ==
  LET h == tsock[t].handle
  IN /\ tsock[t].at = "link"
     /\ tsock' = [tsock EXCEPT ![t].linked = IF UsesPSK(t) \/ ~Server(t) THEN h ELSE 0, ![t].at = "keys"]
     /\ tmap' = IF UsesPSK(t) /\ tmap[Role(t)][h] = "none" THEN [tmap EXCEPT ![Role(t)][h] = t] ELSE tmap
     /\ UNCHANGED <<tlive, treused>>

\* loadPrivateKeyFromPEMFile, loadPublicKeyFromPEMFile and their twins for memory: what
\* cannot be opened leaves the key, what cannot be parsed takes it away.
LoadPEM(have, file) == IF file = "missing" THEN have ELSE file = "good"
Loaded(files) == LoadPEM(LoadPEM(FALSE, files[1]), files[2])

\* initTLSKeys: a certificate needs its private key and the reverse.  A socket without
\* authorities to check against validates nothing, whatever it was told.
KeysComplete(t) == Loaded(tsock[t].setup.cert) = Loaded(tsock[t].setup.key)
Authorities(t) == tsock[t].setup.ca \/ tsock[t].setup.sys
InitTLSKeys(t) ==
  /\ tsock[t].at = "keys"
  /\ tsock' = IF ~KeysComplete(t) THEN [tsock EXCEPT ![t].at = "failed"]
              ELSE [tsock EXCEPT ![t].option = IF Authorities(t) THEN @ ELSE "NOVALIDATE",
                                 ![t].at = IF UsesPSK(t) THEN "ask" ELSE "shake"]
  /\ UNCHANGED <<tmap, tlive, treused>>

\* cbPSKServer, cbPSKClient: the wallet of this handle, or none.
AskWallet(t) ==
  /\ tsock[t].at = "ask"
  /\ tsock' = [tsock EXCEPT ![t].asked = tmap[Role(t)][tsock[t].handle], ![t].at = "psk"]
  /\ UNCHANGED <<tmap, tlive, treused>>

\* The key of the identity in that wallet, whose connectedClientID is written; a client
\* presents the key it was given.  A wallet of a socket that is gone meanwhile is freed
\* memory: anything may be in it.
Matches(t, w) ==
  IF w = "none" THEN {FALSE}
  ELSE IF tsock[w].at = "gone" THEN BOOLEAN
  ELSE IF Server(t) THEN {tsock[t].setup.peer.id \in DOMAIN TParent
                          /\ TParent[tsock[t].setup.peer.id] = tsock[t].setup.peer.psk}
  ELSE {tsock[w].setup.psk = tsock[t].setup.peer.psk}
Identified(t, w) ==
  w # "none" /\ tsock[w].at # "gone" /\ Server(t) /\ tsock[t].setup.peer.id \in DOMAIN TParent
PSKCallback(t, ok) ==
  LET w == tsock[t].asked
      s == IF Identified(t, w) THEN [tsock EXCEPT ![w].client = tsock[t].setup.peer.id] ELSE tsock
  IN /\ tsock[t].at = "psk" /\ ok \in Matches(t, w)
     /\ tsock' = [s EXCEPT ![t].at = IF ok THEN "shaken" ELSE "failed"]
     /\ UNCHANGED <<tmap, tlive, treused>>

\* SSL_connect, SSL_accept with certificates: with SSL_VERIFY_PEER a certificate that is
\* missing or not trusted ends the handshake.
Handshake(t) ==
  /\ tsock[t].at = "shake"
  /\ Goes(t, IF tsock[t].option = "NOVALIDATE" \/ tsock[t].setup.peer.cert = "trusted"
             THEN "shaken" ELSE "failed")
  /\ UNCHANGED <<tmap, tlive, treused>>
HandshakeBreaks(t) ==
  /\ tsock[t].at \in {"ask", "shake"} /\ Goes(t, "failed") /\ UNCHANGED <<tmap, tlive, treused>>

\* validateTLSConnection.
ValidateTLS(t) ==
  LET valid == UsesPSK(t) \/ tsock[t].setup.peer.cert = "trusted"
  IN /\ tsock[t].at = "shaken"
     /\ Goes(t, IF tsock[t].option \in {"NOVALIDATE", "CHECKANDPASS"} \/ valid THEN "open" ELSE "failed")
     /\ UNCHANGED <<tmap, tlive, treused>>

-----------------------------------------------------------------------------
(* The connection.                                                         *)

\* iPartialRead and iPartialWrite: SSL_ERROR_WANT_* is tried again, TRetries times; the
\* call then fails and leaves the connection.  A closed connection is no error; any
\* other one shuts TCP down.
WantAgain(t) ==
  /\ tsock[t].at = "open" /\ tsock[t].ttl > 0 /\ tsock[t].tcp = {}
  /\ tsock' = [tsock EXCEPT ![t].ttl = @ - 1] /\ UNCHANGED <<tmap, tlive, treused>>
TLSCallReturns(t) ==
  /\ tsock[t].at = "open" /\ tsock[t].ttl < TRetries
  /\ tsock' = [tsock EXCEPT ![t].ttl = TRetries] /\ UNCHANGED <<tmap, tlive, treused>>
TCPShutdown(s) ==
  [s EXCEPT !.tcp = @ \cup ({"rd"} \cup (IF s.wdown THEN {} ELSE {"wr"})), !.wdown = TRUE]
LayerError(t) ==
  /\ tsock[t].at = "open" /\ tsock[t].tcp = {}
  /\ tsock' = [tsock EXCEPT ![t] = [TCPShutdown(@) EXCEPT !.ttl = TRetries]]
  /\ UNCHANGED <<tmap, tlive, treused>>

\* iShutdown: without a handle TCP for a server and nothing for a client; with one the
\* notification, once.  The write side is marked when the peer's has come.
ShutdownTLS(t, both) ==
  LET s == tsock[t]
  IN /\ s.at \in {"tcp", "failed", "open"}
     /\ IF s.handle = 0 THEN Server(t) /\ s.tcp = {} /\ both /\ tsock' = [tsock EXCEPT ![t] = TCPShutdown(@)]
        ELSE /\ s.at = "open" /\ ~s.wdown /\ ~s.sent
             /\ tsock' = [tsock EXCEPT ![t].sent = TRUE, ![t].wdown = both]
     /\ UNCHANGED <<tmap, tlive, treused>>

-----------------------------------------------------------------------------
(* The destructor: SSL_free in ~Socket_TLS, then ~PSKStaticHdlr takes the entry of the *)
(* handle out of the map, whoever's it is by now.                                       *)

FreeHandle(t) ==
  /\ tsock[t].at \in {"tcp", "failed", "open"}
  /\ tlive' = tlive \ {tsock[t].handle} /\ Goes(t, "unlink")
  /\ UNCHANGED <<tmap, treused>>
UnlinkPSK(t) ==
  LET h == tsock[t].linked
  IN /\ tsock[t].at = "unlink"
     /\ tmap' = IF h = 0 THEN tmap ELSE [r \in DOMAIN tmap |-> [tmap[r] EXCEPT ![h] = "none"]]
     /\ tsock' = [tsock EXCEPT ![t] = [NewTLS EXCEPT !.at = "gone"]]
     /\ UNCHANGED <<tlive, treused>>

TLSNext ==
  \E t \in TSockets :
    \/ \E s \in TSetups : NewConnection(t, s)
    \/ StartTLS(t) \/ StartTLSAgain(t) \/ LinkPSK(t) \/ InitTLSKeys(t) \/ AskWallet(t)
    \/ (\E ok \in BOOLEAN : PSKCallback(t, ok)) \/ Handshake(t) \/ HandshakeBreaks(t) \/ ValidateTLS(t)
    \/ WantAgain(t) \/ TLSCallReturns(t) \/ LayerError(t) \/ \E both \in BOOLEAN : ShutdownTLS(t, both)
    \/ FreeHandle(t) \/ UnlinkPSK(t)

TLSSpec == TLSInit /\ [][TLSNext]_tlsVars

-----------------------------------------------------------------------------
(* Properties.                                                             *)

\* A socket that was told to validate and has authorities, or keys, is open only with a
\* peer it has verified.  (Handles given out again: see below.)
OpenIsVerified ==
  \A t \in TSockets \ treused : (tsock[t].at = "open" /\ (Authorities(t) \/ UsesPSK(t)) /\ tsock[t].setup.option # "NOVALIDATE") =>
    \/ ~UsesPSK(t) /\ tsock[t].setup.peer.cert = "trusted"
    \/ UsesPSK(t) /\ Server(t) /\ tsock[t].setup.peer.id \in DOMAIN TParent
       /\ TParent[tsock[t].setup.peer.id] = tsock[t].setup.peer.psk
    \/ UsesPSK(t) /\ ~Server(t)

\* Two handshakes at once do not exchange their clients: the name of the peer is the
\* identity this peer presented, and the keys of a handshake are those of its socket,
\* unless OpenSSL gave a handle out again before the socket that had it left the map.
OwnPeerName ==
  \A t \in TSockets \ treused :
    /\ tsock[t].asked \in {"none", t}
    /\ (tsock[t].at = "open" /\ Server(t) /\ UsesPSK(t)) => tsock[t].client = tsock[t].setup.peer.id

\* An entry of the static map is of a socket that exists: nothing points into a freed one.
EntriesAlive ==
  \A r \in DOMAIN tmap, h \in THandles : tmap[r][h] # "none" => tsock[tmap[r][h]].at # "gone"

TLSSound == OpenIsVerified /\ OwnPeerName /\ EntriesAlive

(* The connections: a call of a stream returns what was written or fails, and a TLS connection
   is with the peer it names. *)
NetworkSound == StreamSound /\ TLSSound
=============================================================================
