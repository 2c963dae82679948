------------------------------- MODULE Chain -------------------------------
(***************************************************************************)
(* Socket_Chain over a base socket, on both sides of a connection: every   *)
(* layer is a socket pair and two threads that pass bytes on, the layer's  *)
(* first socket encodes what is written to it and decodes what is read.    *)
(*                                                                         *)
(* A byte is its value and the set of masks that lie on it: an exclusive   *)
(* or with a mask adds it or takes it away.                                *)
(***************************************************************************)
EXTENDS Naturals, FiniteSets, Sequences, SequencesExt

CONSTANTS
  ChPlans,      \* [layers: [ChSides -> Seq([proto, key, block, endpoint])], send: [ChSides -> Nat]]
  ChCapacity    \* bytes a socket pair or the network holds: writes beyond it are partial

VARIABLES
  chPlan,       \* the plan of this behaviour, <<>> before
  chLayers,     \* m_socketLayers.size()
  chEndpoint,   \* m_endPointReached
  chApp,        \* the thread of the application: "idle", the handshake's next step, "open",
                \* "failed", "shut", "destroying", "gone"
  chPipe,       \* the bytes between two sockets, and which end was shut down
  chThread,     \* chainThread: [st: "none"/"run"/"ended", buf: bytes read and not written]
  chWrite, chRead,  \* m_writeParams and m_readParams of a layer, with m_initialized
  chSent, chGot, chEOF

chainVars == <<chPlan, chLayers, chEndpoint, chApp, chPipe, chThread, chWrite, chRead,
               chSent, chGot, chEOF>>

ChSides == {"A", "B"}
ChPeer(s) == IF s = "A" THEN "B" ELSE "A"
ChDepth == 2
ChWays == {"out", "in"}
ChPlaces == ChSides \X (0..ChDepth) \X ChWays

\* SideParams: the unused part of the key stream, the generator's state, whose key.
NoSide == [block |-> <<>>, iv |-> 0, key |-> "none", initialized |-> FALSE]

ChainInit ==
  /\ chPlan = <<>> /\ chLayers = [s \in ChSides |-> 0] /\ chEndpoint = {}
  /\ chApp = [s \in ChSides |-> "idle"]
  /\ chPipe = [p \in ChPlaces |-> [bytes |-> <<>>, shut |-> {}]]
  /\ chThread = [p \in ChPlaces |-> [st |-> "none", buf |-> <<>>]]
  /\ chWrite = [s \in ChSides |-> [l \in 1..ChDepth |-> NoSide]] /\ chRead = chWrite
  /\ chSent = [s \in ChSides |-> <<>>] /\ chGot = chSent /\ chEOF = {}

\* The pipe of layer l on side s, the base socket's being the network.
ChPipeOf(s, l, way) == IF l = 0 /\ way = "in" THEN <<ChPeer(s), 0, "out">> ELSE <<s, l, way>>

ChXor(b, mask) == [b EXCEPT !.masks = IF mask \in @ THEN @ \ {mask} ELSE @ \cup {mask}]

\* Socket_Chain_XOR: one mask for every byte.
GetXorCopy(data, key) == [i \in 1..Len(data) |-> ChXor(data[i], <<"xor", key>>)]

\* The i-th byte of a key stream: regenIV's n-th IV, the position in its block.
StreamMask(key, iv, size, i) == <<"aes", key, iv + (i - 1) \div size + 1, (i - 1) % size>>

\* partialWrite and partialRead append blocks (a new IV each) until n bytes are covered.
AppendAESBlocks(p, n, size) ==
  LET missing == IF n > Len(p.block) THEN n - Len(p.block) ELSE 0
      k == (missing + size - 1) \div size
  IN [p EXCEPT !.block = @ \o [i \in 1..(k * size) |-> StreamMask(p.key, p.iv, size, i)],
               !.iv = @ + k]

\* reduce: the first n bytes of the key stream are used up.
ReduceBlock(p, n) ==
  [p EXCEPT !.block = IF n >= Len(@) THEN <<>> ELSE SubSeq(@, n + 1, Len(@))]

CryptoXOR(p, data) == [i \in 1..Len(data) |-> ChXor(data[i], p.block[i])]

ChLayer(s, l) == chPlan.layers[s][l]

\* partialWrite of layer l's first socket (the base socket for 0): of data, r bytes are
\* taken by the system.
Encode(s, l, data, r) ==
  IF l = 0 THEN [bytes |-> SubSeq(data, 1, r), params |-> NoSide]
  ELSE IF ChLayer(s, l).proto = "XOR"
       THEN [bytes |-> GetXorCopy(SubSeq(data, 1, r), ChLayer(s, l).key),
             params |-> chWrite[s][l]]
  ELSE IF ~chWrite[s][l].initialized
       THEN [bytes |-> SubSeq(data, 1, r), params |-> chWrite[s][l]]
  ELSE LET p == AppendAESBlocks(chWrite[s][l], Len(data), ChLayer(s, l).block)
       IN [bytes |-> SubSeq(CryptoXOR(p, data), 1, r), params |-> ReduceBlock(p, r)]

\* partialRead of layer l's first socket: what was received, decoded.
Decode(s, l, data) ==
  IF l = 0 THEN [bytes |-> data, params |-> NoSide]
  ELSE IF ChLayer(s, l).proto = "XOR"
       THEN [bytes |-> GetXorCopy(data, ChLayer(s, l).key),
             params |-> chRead[s][l]]
  ELSE IF ~chRead[s][l].initialized THEN [bytes |-> data, params |-> chRead[s][l]]
  ELSE LET p == AppendAESBlocks(chRead[s][l], Len(data), ChLayer(s, l).block)
       IN [bytes |-> CryptoXOR(p, data), params |-> ReduceBlock(p, Len(data))]

\* The system's sockets: a write takes what fits, fails when its end or the reader's is
\* shut down (the network may take it and drop it); a read takes what is there.
ChMayWrite(pipe, n) ==
  {r \in 1..n : chPipe[pipe].shut = {} /\ Len(chPipe[pipe].bytes) + r <= ChCapacity}
ChWriteFails(pipe) == chPipe[pipe].shut # {}
ChDiscards(pipe) == chPipe[pipe].shut = {"r"} /\ pipe[2] = 0
ChReadEnds(pipe) == chPipe[pipe].bytes = <<>> /\ chPipe[pipe].shut # {}

\* The write call of side s on layer l leaves this pipe and these parameters.
ChWrites(s, l, data, r) ==
  LET pipe == ChPipeOf(s, l, "out")
      e == Encode(s, l, data, r)
  IN /\ chPipe' = [chPipe EXCEPT ![pipe].bytes = @ \o e.bytes]
     /\ chWrite' = IF l = 0 THEN chWrite ELSE [chWrite EXCEPT ![s][l] = e.params]

ChReads(s, l, n) ==
  LET pipe == ChPipeOf(s, l, "in")
  IN /\ chPipe' = [chPipe EXCEPT ![pipe].bytes = SubSeq(@, n + 1, Len(@))]
     /\ chRead' = IF l = 0 THEN chRead
                  ELSE [chRead EXCEPT ![s][l] =
                          Decode(s, l, SubSeq(chPipe[pipe].bytes, 1, n)).params]

\* What shutting down ends of some pipes leaves: ends is a set of <<pipe, end>>.
ChShut(ends) ==
  [p \in ChPlaces |-> [chPipe[p] EXCEPT !.shut = @ \cup {e[2] : e \in {x \in ends : x[1] = p}}]]

(***************************************************************************)
(* addToChain.                                                             *)
(***************************************************************************)
ChTop(s) == chLayers[s]

ChChoose(plan) ==
  /\ chPlan = <<>>
  /\ chPlan' = plan
  /\ UNCHANGED <<chLayers, chEndpoint, chApp, chPipe, chThread, chWrite, chRead, chSent, chGot, chEOF>>

\* The layer and its threads are there before its handshake; after an endpoint nothing
\* is added.
AddToChain(s) ==
  LET l == chLayers[s] + 1
  IN /\ chPlan # <<>> /\ chApp[s] = "idle"
     /\ l <= Len(chPlan.layers[s])
     /\ IF s \in chEndpoint
        THEN /\ chApp' = [chApp EXCEPT ![s] = "open"]
             /\ UNCHANGED <<chLayers, chEndpoint, chThread>>
        ELSE /\ chLayers' = [chLayers EXCEPT ![s] = l]
             /\ chEndpoint' = IF ChLayer(s, l).endpoint THEN chEndpoint \cup {s} ELSE chEndpoint
             /\ chThread' = [chThread EXCEPT ![<<s, l, "out">>].st = "run",
                                             ![<<s, l, "in">>].st = "run"]
             /\ chApp' = [chApp EXCEPT ![s] =
                            IF ChLayer(s, l).proto = "AES" THEN "writeIV" ELSE "idle"]
     /\ UNCHANGED <<chPlan, chPipe, chWrite, chRead, chSent, chGot, chEOF>>

\* The layers are there: the program uses the chain.
ChReady(s) ==
  /\ chPlan # <<>> /\ chApp[s] = "idle"
  /\ chLayers[s] = Len(chPlan.layers[s])
  /\ chApp' = [chApp EXCEPT ![s] = "open"]
  /\ UNCHANGED <<chPlan, chLayers, chEndpoint, chPipe, chThread, chWrite, chRead, chSent, chGot, chEOF>>

\* A failed handshake shuts both sockets of the layer down, which stays in the chain.
HandshakeFails(s) ==
  LET l == ChTop(s)
  IN /\ chPipe' = ChShut({<<<<s, l, way>>, end>> : way \in ChWays, end \in {"r", "w"}})
     /\ chApp' = [chApp EXCEPT ![s] = "failed"]
     /\ UNCHANGED <<chPlan, chLayers, chEndpoint, chThread, chWrite, chRead, chSent, chGot, chEOF>>

\* The magic bytes, the seed and the second key of side s.
HandShakeHeader(s) == [v |-> <<"IHDR", s>>, masks |-> {}]

\* The first key's stream, started by the IV of side t.
Phase1(s, t) == <<"phase1", ChLayer(s, ChTop(s)).key, t>>

\* postAcceptSubInitialization writes its IV in the clear, then the header under the
\* first key; the key stream of the data starts from the header's seed and second key.
HandshakeWrite(s) ==
  LET l == ChTop(s)
      pipe == <<s, l, "out">>
      token == IF chApp[s] = "writeIV" THEN [v |-> <<"iv", s>>, masks |-> {}]
               ELSE ChXor(HandShakeHeader(s), Phase1(s, s))
  IN /\ chApp[s] \in {"writeIV", "writeHeader"}
     /\ \/ /\ ChWriteFails(pipe) /\ HandshakeFails(s)
        \/ /\ ChMayWrite(pipe, 1) # {}
           /\ chPipe' = [chPipe EXCEPT ![pipe].bytes = Append(@, token)]
           /\ IF chApp[s] = "writeIV"
              THEN /\ chApp' = [chApp EXCEPT ![s] = "writeHeader"] /\ UNCHANGED chWrite
              ELSE /\ chApp' = [chApp EXCEPT ![s] = "readIV"]
                   /\ chWrite' = [chWrite EXCEPT ![s][l] = [NoSide EXCEPT !.key = <<s, l>>]]
           /\ UNCHANGED <<chPlan, chLayers, chEndpoint, chThread, chRead, chSent, chGot, chEOF>>

\* Then the peer's IV and header: without the magic bytes the handshake failed.
HandshakeRead(s) ==
  LET l == ChTop(s)
      pipe == <<s, l, "in">>
      token == Head(chPipe[pipe].bytes)
      header == ChXor(token, Phase1(s, ChPeer(s)))
  IN /\ chApp[s] \in {"readIV", "readHeader"}
     /\ \/ /\ ChReadEnds(pipe) /\ HandshakeFails(s)
        \/ /\ chPipe[pipe].bytes # <<>> /\ chApp[s] = "readHeader" /\ header.masks # {}
           /\ HandshakeFails(s)
        \/ /\ chPipe[pipe].bytes # <<>> /\ (chApp[s] = "readIV" \/ header.masks = {})
           /\ chPipe' = [chPipe EXCEPT ![pipe].bytes = Tail(@)]
           /\ IF chApp[s] = "readIV"
              THEN chApp' = [chApp EXCEPT ![s] = "readHeader"] /\ UNCHANGED <<chRead, chWrite>>
              ELSE /\ chApp' = [chApp EXCEPT ![s] = "idle"]
                   /\ chRead' = [chRead EXCEPT ![s][l] =
                        [NoSide EXCEPT !.key = <<header.v[2], l>>, !.initialized = TRUE]]
                   /\ chWrite' = [chWrite EXCEPT ![s][l].initialized = TRUE]
           /\ UNCHANGED <<chPlan, chLayers, chEndpoint, chThread, chSent, chGot, chEOF>>

(***************************************************************************)
(* chainThread: partialRead, then writeFull, until one of them fails.      *)
(***************************************************************************)
ThreadEnds(s, l, way) ==
  LET from == IF way = "out" THEN <<s, l, "out">> ELSE ChPipeOf(s, l - 1, "in")
      to == IF way = "out" THEN ChPipeOf(s, l - 1, "out") ELSE <<s, l, "in">>
  IN /\ chPipe' = ChShut({<<from, "r">>, <<to, "w">>})
     /\ chThread' = [chThread EXCEPT ![<<s, l, way>>] = [st |-> "ended", buf |-> <<>>]]
     /\ UNCHANGED <<chPlan, chLayers, chEndpoint, chApp, chWrite, chRead, chSent, chGot, chEOF>>

ChainThreadRead(s, l, way) ==
  LET from == IF way = "out" THEN <<s, l, "out">> ELSE ChPipeOf(s, l - 1, "in")
  IN /\ chThread[<<s, l, way>>].st = "run" /\ chThread[<<s, l, way>>].buf = <<>>
     /\ \/ ChReadEnds(from) /\ ThreadEnds(s, l, way)
        \/ \E n \in 1..Len(chPipe[from].bytes) :
             /\ IF way = "out"
                THEN /\ chPipe' = [chPipe EXCEPT ![from].bytes = SubSeq(@, n + 1, Len(@))]
                     /\ chThread' = [chThread EXCEPT ![<<s, l, way>>].buf =
                                       SubSeq(chPipe[from].bytes, 1, n)]
                     /\ UNCHANGED chRead
                ELSE /\ ChReads(s, l - 1, n)
                     /\ chThread' = [chThread EXCEPT ![<<s, l, way>>].buf =
                                       Decode(s, l - 1, SubSeq(chPipe[from].bytes, 1, n)).bytes]
             /\ UNCHANGED <<chPlan, chLayers, chEndpoint, chApp, chWrite, chSent, chGot, chEOF>>

ChainThreadWrite(s, l, way) ==
  LET to == IF way = "out" THEN ChPipeOf(s, l - 1, "out") ELSE <<s, l, "in">>
      buf == chThread[<<s, l, way>>].buf
  IN /\ chThread[<<s, l, way>>].st = "run" /\ buf # <<>>
     /\ \/ ChWriteFails(to) /\ ThreadEnds(s, l, way)
        \/ /\ ChDiscards(to)
           /\ chThread' = [chThread EXCEPT ![<<s, l, way>>].buf = <<>>]
           /\ UNCHANGED <<chPlan, chLayers, chEndpoint, chApp, chPipe, chWrite, chRead, chSent,
                          chGot, chEOF>>
        \/ \E r \in ChMayWrite(to, Len(buf)) :
             /\ chThread' = [chThread EXCEPT ![<<s, l, way>>].buf = SubSeq(@, r + 1, Len(@))]
             /\ IF way = "out" THEN ChWrites(s, l - 1, buf, r)
                ELSE /\ chPipe' = [chPipe EXCEPT ![to].bytes = @ \o SubSeq(buf, 1, r)]
                     /\ UNCHANGED chWrite
             /\ UNCHANGED <<chPlan, chLayers, chEndpoint, chApp, chRead, chSent, chGot, chEOF>>

(***************************************************************************)
(* The program's calls go to the first socket of the last layer.           *)
(***************************************************************************)
\* The bytes of side s, the i-th being <<s, i>>.
ChData(s, n) == [i \in 1..n |-> [v |-> <<s, i>>, masks |-> {}]]

ChainPartialWrite(s) ==
  LET rest == SubSeq(ChData(s, chPlan.send[s]), Len(chSent[s]) + 1, chPlan.send[s])
  IN /\ chApp[s] = "open" /\ rest # <<>>
     /\ \/ /\ ChWriteFails(ChPipeOf(s, ChTop(s), "out"))
           /\ chApp' = [chApp EXCEPT ![s] = "failed"]
           /\ UNCHANGED <<chPipe, chWrite, chSent>>
        \/ \E r \in ChMayWrite(ChPipeOf(s, ChTop(s), "out"), Len(rest)) :
             /\ ChWrites(s, ChTop(s), rest, r)
             /\ chSent' = [chSent EXCEPT ![s] = @ \o SubSeq(rest, 1, r)]
             /\ UNCHANGED chApp
     /\ UNCHANGED <<chPlan, chLayers, chEndpoint, chThread, chRead, chGot, chEOF>>

ChainPartialRead(s) ==
  LET pipe == ChPipeOf(s, ChTop(s), "in")
  IN /\ chApp[s] \in {"open", "shut"}
     /\ \/ /\ ChReadEnds(pipe) /\ s \notin chEOF /\ chEOF' = chEOF \cup {s}
           /\ UNCHANGED <<chPipe, chRead, chGot>>
        \/ \E n \in 1..Len(chPipe[pipe].bytes) :
             /\ ChReads(s, ChTop(s), n)
             /\ chGot' = [chGot EXCEPT ![s] =
                  @ \o Decode(s, ChTop(s), SubSeq(chPipe[pipe].bytes, 1, n)).bytes]
             /\ UNCHANGED chEOF
     /\ UNCHANGED <<chPlan, chLayers, chEndpoint, chApp, chThread, chWrite, chSent>>

\* shutdownSocket of the chain (SHUT_WR), alone or by the destructor, which may come at
\* any time.
ChainShutdown(s) ==
  /\ \/ /\ chApp[s] = "open" /\ Len(chSent[s]) = chPlan.send[s]
        /\ chApp' = [chApp EXCEPT ![s] = "shut"]
     \/ /\ chApp[s] \in {"idle", "failed", "open", "shut"} /\ chPlan # <<>>
        /\ chApp' = [chApp EXCEPT ![s] = "destroying"]
  /\ chPipe' = ChShut({<<ChPipeOf(s, ChTop(s), "out"), "w">>})
  /\ UNCHANGED <<chPlan, chLayers, chEndpoint, chThread, chWrite, chRead, chSent, chGot, chEOF>>

\* waitUntilFinish joins the threads of every layer; the layers go, and the base socket.
ChainDestroyed(s) ==
  /\ chApp[s] = "destroying"
  /\ \A l \in 1..chLayers[s], way \in ChWays : chThread[<<s, l, way>>].st = "ended"
  /\ chApp' = [chApp EXCEPT ![s] = "gone"]
  /\ chLayers' = [chLayers EXCEPT ![s] = 0]
  /\ chPipe' = ChShut({<<ChPipeOf(s, 0, "out"), "w">>, <<ChPipeOf(s, 0, "in"), "r">>})
  /\ UNCHANGED <<chPlan, chEndpoint, chThread, chWrite, chRead, chSent, chGot, chEOF>>

ChainThreads ==
  \E s \in ChSides, l \in 1..ChDepth, way \in ChWays :
    ChainThreadRead(s, l, way) \/ ChainThreadWrite(s, l, way)

ChainNext ==
  \/ \E plan \in ChPlans : ChChoose(plan)
  \/ \E s \in ChSides : \/ AddToChain(s) \/ ChReady(s) \/ HandshakeWrite(s) \/ HandshakeRead(s)
                        \/ ChainPartialWrite(s) \/ ChainPartialRead(s)
                        \/ ChainShutdown(s) \/ ChainDestroyed(s)
  \/ ChainThreads

(***************************************************************************)
(* Properties.                                                             *)
(***************************************************************************)
\* However the layers' reads and writes split the bytes, what is read from the chain is
\* what the peer wrote to its chain, in order: the two ends of every key stream agree.
BytesAsWritten == \A s \in ChSides : IsPrefix(chGot[s], chSent[ChPeer(s)])

\* A side that reads the end has read everything.
EndAfterAll ==
  \A s \in ChSides : s \in chEOF /\ chApp[ChPeer(s)] # "failed" => chGot[s] = chSent[ChPeer(s)]

\* A handshake succeeds only between two layers that hold the same key.
KeysAgree ==
  \A s \in ChSides, l \in 1..ChDepth :
    chRead[s][l].initialized => ChLayer(s, l).key = ChLayer(ChPeer(s), l).key

\* When both sides destroy their chains and nothing moves any more, a thread the
\* destructor still waits for is one behind more unread bytes than a socket pair holds
\* (the destructor shuts down the writing side only, nobody reads the rest).
ChainsEnd ==
  /\ \A s \in ChSides : chApp[s] \in {"destroying", "gone"}
  /\ ~ENABLED ChainThreads
  => \A s \in ChSides, l \in 1..ChDepth, way \in ChWays :
       chThread[<<s, l, way>>].st = "run" =>
         Len(chPipe[<<s, ChTop(s), "in">>].bytes) = ChCapacity

(* The chain carries the bytes as they were written, to the end, only between equal keys,
   and both of its ends can be destroyed (addToChain, chainThread, Socket_Chain_AES). *)
ChainSound == BytesAsWritten /\ EndAfterAll /\ KeysAgree /\ ChainsEnd
=============================================================================
