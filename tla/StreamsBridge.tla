--------------------------- MODULE StreamsBridge ---------------------------
(***************************************************************************)
(* NetStreams::Bridge and Bridge_Thread: two threads copy between two      *)
(* sockets, one per direction; with chunks, a third one writes pings into  *)
(* the encapsulated side.  The thread of direction d reads the peer on the *)
(* other side and writes the peer d.  A socket is external: it is open,    *)
(* broken by its remote end (reads and writes fail) or shut by the bridge. *)
(* Payloads are blocks, read and written whole.                            *)
(***************************************************************************)
EXTENDS Naturals, FiniteSets, Sequences, Functions

CONSTANTS
  BIncoming,     \* per peer: what its remote end sends, "ping" among the blocks
  BChunked,      \* m_transmitionMode = CHUNKSANDPING
  MaxPings       \* bound: pings the pinger sends

BSides == {"FORWARD", "BACKWARD"}
Opposite(d) == IF d = "FORWARD" THEN "BACKWARD" ELSE "FORWARD"

\* Each remote end sends a sequence of blocks.
ASSUME BridgeAssumption ==
  /\ BChunked \in BOOLEAN
  /\ BIncoming = [d \in BSides |-> BIncoming[d]]
  /\ \A d \in BSides : BIncoming[d] \in Seq(Range(BIncoming[d]))

VARIABLES
  bsock,         \* per peer: "open", "broken", "shut"
  bin,           \* per peer: what is still to be read from it
  bout,          \* per peer: what was written to it
  bpump,         \* per direction: "read", "write", "data", "ended"
  bblock,        \* per direction: the block in curBlock
  fwdLock,       \* mt_fwd: "free", "pump", "ping"
  bterminated, finishingPeer,
  bping,         \* the pinger: "test", "wait", "ping", "ended"
  isPingFinished, bpings,
  bmain          \* process(): "pumping", "joining", "closed"

bridgeVars == <<bsock, bin, bout, bpump, bblock, fwdLock, bterminated, finishingPeer,
                bping, isPingFinished, bpings, bmain>>

NoBlock == "none"

BridgeInit ==
  /\ bsock = [d \in BSides |-> "open"]
  /\ bin = BIncoming
  /\ bout = [d \in BSides |-> <<>>]
  /\ bpump = [d \in BSides |-> "read"]
  /\ bblock = [d \in BSides |-> NoBlock]
  /\ fwdLock = "free"
  /\ bterminated = FALSE /\ finishingPeer = NoBlock
  /\ bping = IF BChunked THEN "test" ELSE "ended"
  /\ isPingFinished = FALSE /\ bpings = 0
  /\ bmain = "pumping"

\* The remote end of a peer goes away; what it sent before may be lost.
PeerBreaks(d) ==
  /\ bsock[d] = "open" /\ bmain # "closed"
  /\ bsock' = [bsock EXCEPT ![d] = "broken"]
  /\ UNCHANGED <<bin, bout, bpump, bblock, fwdLock, bterminated, finishingPeer, bping,
                 isPingFinished, bpings, bmain>>

\* m_peers[currentSide]->shutdownSocket(): the socket the other thread reads.
ShutdownOnReadEnd(d) == [bsock EXCEPT ![d] = "shut"]

\* processPipe returned 0 or -1.
ReadEnds(d) ==
  /\ bpump[d] = "read" /\ bsock[Opposite(d)] # "open"
  /\ bsock' = ShutdownOnReadEnd(d)
  /\ bterminated' = TRUE
  /\ finishingPeer' = Opposite(d)
  /\ bpump' = [bpump EXCEPT ![d] = "ended"]
  /\ UNCHANGED <<bin, bout, bblock, fwdLock, bping, isPingFinished, bpings, bmain>>

\* Mutant: a ping is taken for the size of the block behind it.
ReadPingSwallows(d) ==
  /\ BChunked /\ d = "BACKWARD" /\ bpump[d] = "read"
  /\ bsock["FORWARD"] # "shut" /\ bin["FORWARD"] # <<>> /\ Head(bin["FORWARD"]) = "ping"
  /\ bin' = [bin EXCEPT !["FORWARD"] = SubSeq(@, 3, Len(@))]
  /\ UNCHANGED <<bsock, bout, bpump, bblock, fwdLock, bterminated, finishingPeer, bping,
                 isPingFinished, bpings, bmain>>

\* A ping of the remote bridge: the backward thread of a chunked bridge goes on,
\* or ends without shutting anything when a read has ended before (-2).
ReadPing(d) ==
  /\ BChunked /\ d = "BACKWARD" /\ bpump[d] = "read"
  /\ bsock["FORWARD"] # "shut" /\ bin["FORWARD"] # <<>> /\ Head(bin["FORWARD"]) = "ping"
  /\ bin' = [bin EXCEPT !["FORWARD"] = Tail(@)]
  /\ bpump' = [bpump EXCEPT ![d] = IF bterminated THEN "ended" ELSE "read"]
  /\ UNCHANGED <<bsock, bout, bblock, fwdLock, bterminated, finishingPeer, bping,
                 isPingFinished, bpings, bmain>>

\* A block: partialRead, or the size and readFull of a chunk.
ReadBlock(d) ==
  LET s == Opposite(d)
  IN /\ bpump[d] = "read" /\ bsock[s] # "shut" /\ bin[s] # <<>> /\ Head(bin[s]) # "ping"
     /\ bblock' = [bblock EXCEPT ![d] = Head(bin[s])]
     /\ bin' = [bin EXCEPT ![s] = Tail(@)]
     /\ bpump' = [bpump EXCEPT ![d] = "write"]
     /\ UNCHANGED <<bsock, bout, fwdLock, bterminated, finishingPeer, bping, isPingFinished,
                    bpings, bmain>>

\* The write failed: -2, "the other peer will report the read error".
WriteFails(d) ==
  /\ bpump[d] \in {"write", "data"} /\ bsock[d] # "open"
  /\ d = "FORWARD" /\ bpump[d] = "write" => fwdLock = "free"
  /\ bpump' = [bpump EXCEPT ![d] = "ended"]
  /\ fwdLock' = IF bpump[d] = "data" THEN "free" ELSE fwdLock
  /\ UNCHANGED <<bsock, bin, bout, bblock, bterminated, finishingPeer, bping, isPingFinished,
                 bpings, bmain>>

Encapsulates(d) == BChunked /\ d = "FORWARD"

\* writeU<uint16_t> of a chunk, under mt_fwd, which is kept for the data.
WriteSize(d) ==
  /\ Encapsulates(d) /\ bpump[d] = "write" /\ bsock[d] = "open" /\ fwdLock = "free"
  /\ fwdLock' = "pump"
  /\ bout' = [bout EXCEPT ![d] = Append(@, <<"size", bblock[d]>>)]
  /\ bpump' = [bpump EXCEPT ![d] = "data"]
  /\ UNCHANGED <<bsock, bin, bblock, bterminated, finishingPeer, bping, isPingFinished, bpings, bmain>>

WriteData(d) ==
  /\ bsock[d] = "open"
  /\ IF Encapsulates(d) THEN bpump[d] = "data" ELSE bpump[d] = "write"
  /\ bout' = [bout EXCEPT ![d] = Append(@, <<"data", bblock[d]>>)]
  /\ bblock' = [bblock EXCEPT ![d] = NoBlock]
  /\ bpump' = [bpump EXCEPT ![d] = "read"]
  /\ fwdLock' = IF Encapsulates(d) THEN "free" ELSE fwdLock
  /\ UNCHANGED <<bsock, bin, bterminated, finishingPeer, bping, isPingFinished, bpings, bmain>>

-----------------------------------------------------------------------------
\* The pinger holds m_endPingLoopMutex except in its wait.
PingTest ==
  /\ bping = "test"
  /\ bping' = IF isPingFinished THEN "ended" ELSE "wait"
  /\ UNCHANGED <<bsock, bin, bout, bpump, bblock, fwdLock, bterminated, finishingPeer,
                 isPingFinished, bpings, bmain>>

PingTimeout ==
  /\ bping = "wait"
  /\ bping' = IF bpings < MaxPings THEN "ping" ELSE "test"
  /\ UNCHANGED <<bsock, bin, bout, bpump, bblock, fwdLock, bterminated, finishingPeer,
                 isPingFinished, bpings, bmain>>

PingMayWrite == fwdLock = "free"

SendPing ==
  /\ bping = "ping" /\ PingMayWrite
  /\ bout' = IF bsock["FORWARD"] = "open"
             THEN [bout EXCEPT !["FORWARD"] = Append(@, <<"ping", NoBlock>>)] ELSE bout
  /\ bping' = "test" /\ bpings' = bpings + 1
  /\ UNCHANGED <<bsock, bin, bpump, bblock, fwdLock, bterminated, finishingPeer, isPingFinished, bmain>>

\* process(): both threads are joined; then, under the pinger's mutex, the flag
\* and the notification, which ends its wait.
FinishPing ==
  /\ bmain = "pumping" /\ \A d \in BSides : bpump[d] = "ended"
  /\ bping \in {"wait", "ended"}
  /\ isPingFinished' = TRUE
  /\ bping' = IF bping = "wait" THEN "test" ELSE bping
  /\ bmain' = "joining"
  /\ UNCHANGED <<bsock, bin, bout, bpump, bblock, fwdLock, bterminated, finishingPeer, bpings>>

\* The pinger is joined, the sockets are closed, Bridge_Thread is deleted.
CloseBridge ==
  /\ bmain = "joining" /\ bping = "ended"
  /\ bmain' = "closed"
  /\ bsock' = [d \in BSides |-> "shut"]
  /\ UNCHANGED <<bin, bout, bpump, bblock, fwdLock, bterminated, finishingPeer, bping,
                 isPingFinished, bpings>>

Pump(d) == ReadEnds(d) \/ ReadPing(d) \/ ReadBlock(d) \/ WriteFails(d) \/ WriteSize(d) \/ WriteData(d)
Pinger == PingTest \/ PingTimeout \/ SendPing
ProcessEnds == FinishPing \/ CloseBridge

BridgeNext ==
  \/ \E d \in BSides : PeerBreaks(d) \/ Pump(d)
  \/ Pinger \/ ProcessEnds

BridgeSpec == BridgeInit /\ [][BridgeNext]_bridgeVars

-----------------------------------------------------------------------------
\* The positions of the blocks sent, and of the blocks written, up to a position.
BlocksUpTo(in, j) == {k \in 1..j : in[k] # "ping"}
DataUpTo(out, i) == {k \in 1..i : out[k][1] = "data"}

\* The n-th block of out is the n-th block of in, for every n that out has.
InOrder(out, in) ==
  \A i \in 1..Len(out) : out[i][1] = "data" =>
    \E j \in 1..Len(in) :
      /\ in[j] # "ping" /\ in[j] = out[i][2]
      /\ Cardinality(BlocksUpTo(in, j)) = Cardinality(DataUpTo(out, i))

(* What a peer receives is what the other one sent: in order, without a gap,
   pings removed, whatever breaks in between. *)
BridgeInOrder == \A d \in BSides : InOrder(bout[d], BIncoming[Opposite(d)])

(* The encapsulated stream stays well formed with two threads writing it: a size
   is followed by its block and nothing gets in between, unless the socket
   failed there. *)
ChunksWellFormed ==
  BChunked => \A i \in 1..Len(bout["FORWARD"]) :
    LET x == bout["FORWARD"][i]
    IN x[1] = "size" /\ i < Len(bout["FORWARD"]) => bout["FORWARD"][i + 1] = <<"data", x[2]>>

(* A bridge one of whose peers goes away ends: the thread that reads it shuts the
   other peer, which ends the other thread, and the pinger is told.  A thread
   whose write failed ends without a shutdown and relies on the other one. *)
BridgeEnds == (\E d \in BSides : bsock[d] # "open") ~> (bmain = "closed")

(* What one peer sent arrives at the other in order, and in whole chunks. *)
BridgeDelivers == BridgeInOrder /\ ChunksWellFormed
=============================================================================
