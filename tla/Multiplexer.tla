---------------------------- MODULE Multiplexer ----------------------------
(* devel/Net_Multiplexer: many lines over one connection between two Socket_Multiplexers. A line has an object on each      *)
(* side, registered under a local id; a handler thread reads the line's own socket and sends what it read while the other   *)
(* side's window has room, a second thread writes what arrived to that socket and tells the other side how much it took.    *)
(* One thread per side reads the connection. Plugins are asked whether a line may be opened; their data is left out.        *)
EXTENDS Integers, Sequences, SequencesExt

CONSTANTS XIds,        \* the line ids, without NULL_LINE
          XConnects,   \* the number of calls of connect() by side "A", at most
          XPlans,      \* the sequences of calls the program of side "A" makes
          XBytes,      \* XBytes[o]: how much the socket attached to line object o has to say, -1: the program attaches none
          XWindow,     \* MUX_LINE_HEAPSIZE
          XSendBuf,    \* MUX_LINE_SENDBUF
          XCallbacks   \* the client's callbacks that are installed

(* The code's sizes: no piece fills a window. *)
ASSUME XSizes == XSendBuf \in Nat \ {0} /\ XWindow \in Nat /\ XSendBuf <= XWindow /\ XIds \subseteq Nat \ {0} /\ XConnects \in Nat
                 /\ XBytes \in [{"A", "B"} \X (1..XConnects) -> Int]

VARIABLES xside, xnet, xup, xmap, xempty, xline, xused, xplan
xVars == <<xside, xnet, xup, xmap, xempty, xline, xused, xplan>>

XSides == {"A", "B"}
Opposite(s) == IF s = "A" THEN "B" ELSE "A"
XObjects == XSides \X (1..XConnects)

NewLine(o) == [pc |-> "none", id |-> 0, again |-> FALSE, remote |-> 0, rwin |-> 0, unproc |-> 0, ufin |-> FALSE,
               piece |-> 0, buf |-> <<>>, thr |-> "none", shut |-> FALSE, given |-> 0, got |-> <<>>]
XInit == /\ xside = [s \in XSides |-> [phase |-> "greet", nosend |-> TRUE, nonew |-> TRUE, threaded |-> 0, missed |-> FALSE]]
         /\ xnet = [s \in XSides |-> <<>>] /\ xup = TRUE /\ xmap = [s \in XSides |-> <<>>]
         /\ xempty = [s \in XSides |-> FALSE] /\ xline = [o \in XObjects |-> NewLine(o)] /\ xused = [s \in XSides |-> {}] /\ xplan = <<>>

At(o, pc) == xline[o].pc = pc
Change(o, l) == xline' = [xline EXCEPT ![o] = l]

(* The functions that write to the connection under mtLock_multiplexedSocket: nothing is written once noSendData is set or  *)
(* the connection is down; the caller is told. *)
MaySend(s) == ~xside[s].nosend /\ xup
Deliver(net, s, ms) == IF xside[Opposite(s)].phase = "run" THEN [net EXCEPT ![Opposite(s)] = @ \o ms] ELSE net
Sends(s, ms) == xnet' = IF MaySend(s) THEN Deliver(xnet, s, ms) ELSE xnet
LineData(l, bytes) == [op |-> "data", to |-> l.remote, from |-> l.id, bytes |-> bytes, win |-> 0, conn |-> 0]
ReadenBytes(l, n) == [op |-> "read", to |-> l.remote, from |-> l.id, bytes |-> <<>>, win |-> n, conn |-> 0]
Answer(to, from, op, win, c) == [op |-> op, to |-> to, from |-> from, bytes |-> <<>>, win |-> win, conn |-> c]
Termination(m) == LineData([remote |-> m.from, id |-> m.to], <<>>)
Signal(op) == Answer(0, 0, op, 0, 0)

(* registerLine: one of the ids not in the map; the search gives up after a number of ids that were all taken. The mutex    *)
(* mtLock_OnEmptyLines is held while there are lines, and released by the search that gives up. *)
FindLocalAvailableSlot(s) ==
  (xused[s] \ DOMAIN xmap[s]) \cup {i \in XIds : i \notin xused[s] /\ \A j \in XIds \ xused[s] : i <= j}
RegisterLine(o, pc) ==
  LET s == o[1]
      done == [xline[o] EXCEPT !.pc = "done"] IN
  \/ \E i \in FindLocalAvailableSlot(s) : /\ ~xside[s].nonew
                        /\ Change(o, [xline[o] EXCEPT !.pc = pc, !.id = i, !.again = i \in xused[s]])
                        /\ xmap' = [xmap EXCEPT ![s] = [j \in DOMAIN @ \cup {i} |-> IF j = i THEN o ELSE @[j]]]
                        /\ xempty' = [xempty EXCEPT ![s] = TRUE]
                        /\ xused' = [xused EXCEPT ![s] = @ \cup {i}] /\ UNCHANGED xside
  \/ /\ ~xside[s].nonew /\ DOMAIN xmap[s] # {}
     /\ Change(o, done) /\ xempty' = [xempty EXCEPT ![s] = FALSE]
     /\ xside' = [xside EXCEPT ![s].missed = TRUE] /\ UNCHANGED <<xmap, xused>>
  \/ /\ xside[s].nonew /\ Change(o, done) /\ UNCHANGED <<xmap, xempty, xused, xside>>

(* removeLine: the last line releases the mutex. *)
RemoveLine(s, i) ==
  LET left == [j \in DOMAIN xmap[s] \ {i} |-> xmap[s][j]] IN
  xmap' = [xmap EXCEPT ![s] = left] /\ xempty' = [xempty EXCEPT ![s] = @ /\ DOMAIN left # {}]

ProgramCalls(op) == xplan # <<>> /\ Head(xplan) = op /\ xplan' = Tail(xplan)
(* connect: the line is registered and asked for in one critical section; noSendData is not looked at. *)
XConnect(o) == /\ o[1] = "A" /\ At(o, "none") /\ xside["A"].phase \notin {"greet", "gone"} /\ ProgramCalls("connect")
               /\ \A c \in 1..(o[2] - 1) : ~At(<<"A", c>>, "none")
               /\ RegisterLine(o, IF xup THEN "wait" ELSE "remove")
               /\ xnet' = IF xup /\ xline'[o].pc = "wait"
                            THEN Deliver(xnet, "A", <<Answer(0, xline'[o].id, "connect", XWindow, o[2])>>) ELSE xnet
               /\ UNCHANGED xup

(* run: the greeting, then the loop of processMultiplexedSocket. *)
Greet == /\ \A s \in XSides : xside[s].phase = "greet"
         /\ xside' = [s \in XSides |-> [xside[s] EXCEPT !.phase = "run", !.nosend = FALSE, !.nonew = FALSE]]
         /\ xplan' \in XPlans /\ UNCHANGED <<xnet, xup, xmap, xempty, xline, xused>>
XClose == /\ xside["A"].phase = "run" /\ xup /\ ProgramCalls("close") /\ xnet' = Deliver(xnet, "A", <<Signal("close")>>)
          /\ UNCHANGED <<xside, xup, xmap, xempty, xline, xused>>
ForceClose == /\ xside["A"].phase = "run" /\ ProgramCalls("forceClose") /\ xup' = FALSE /\ UNCHANGED <<xside, xnet, xmap, xempty, xline, xused>>

LineFinished == At(<<"A", 1>>, "done") /\ ProgramCalls("wait") /\ UNCHANGED <<xside, xnet, xup, xmap, xempty, xline, xused>>

Receives(s, op) == xside[s].phase = "run" /\ xside[s].threaded = 0 /\ xnet[s] # <<>> /\ Head(xnet[s]).op = op
Ended(s) == xside' = [xside EXCEPT ![s].phase = "ended", ![s].nosend = TRUE]
TakeAnd(s, ms) == xnet' = IF MaySend(s) THEN Deliver([xnet EXCEPT ![s] = Tail(@)], s, ms) ELSE [xnet EXCEPT ![s] = Tail(@)]
LastAnd(s, ms) == xnet' = IF MaySend(s) THEN Deliver([xnet EXCEPT ![s] = <<>>], s, ms) ELSE [xnet EXCEPT ![s] = <<>>]

(* The ordered close: CLOSE, ACK1, ACK2. *)
ReadSignal(s) ==
  /\ \/ Receives(s, "close") /\ MaySend(s) /\ TakeAnd(s, <<Signal("ack1")>>) /\ UNCHANGED xside
     \/ Receives(s, "close") /\ ~MaySend(s) /\ LastAnd(s, <<>>) /\ Ended(s)
     \/ Receives(s, "ack1") /\ LastAnd(s, <<Signal("ack2")>>) /\ Ended(s)
     \/ Receives(s, "ack2") /\ LastAnd(s, <<>>) /\ Ended(s)
  /\ UNCHANGED <<xup, xmap, xempty, xline, xused>>
ReadFails(s) == /\ xside[s].phase = "run" /\ xside[s].threaded = 0 /\ xnet[s] = <<>> /\ ~xup /\ Ended(s)
                /\ UNCHANGED <<xnet, xup, xmap, xempty, xline, xused>>

(* Line_Connect: the thread that answers is started with thrParams and deletes them; the reader uses them for its own       *)
(* answer afterwards, whatever they hold then. A plugin's refusal, or parameters that do not parse, end the multiplexer. *)
LineConnect(s) ==
  LET m == Head(xnet[s]) o == <<s, m.conn>> IN
  /\ Receives(s, "connect")
  /\ \/ /\ Change(o, [xline[o] EXCEPT !.pc = "accept", !.remote = m.from, !.rwin = m.win]) /\ TakeAnd(s, <<>>)
        /\ xside' = [xside EXCEPT ![s].threaded = m.conn]
     \/ /\ LastAnd(s, <<Answer(m.from, 0, "refused", 0, m.conn)>>) /\ Ended(s) /\ UNCHANGED xline
  /\ UNCHANGED <<xup, xmap, xempty, xused>>
AnswerThreaded(s) ==
  LET c == xside[s].threaded IN
  /\ c # 0
  /\ \E to \in IF At(<<s, c>>, "done") THEN XIds \cup {0} ELSE {xline[<<s, c>>].remote} : Sends(s, <<Answer(to, 0, "threaded", 0, 0)>>)
  /\ xside' = [xside EXCEPT ![s].threaded = 0] /\ UNCHANGED <<xup, xmap, xempty, xline, xused>>

(* server_AcceptConnection_Callback up to processLine. *)
AcceptLine(o) ==
  /\ At(o, "accept")
  /\ RegisterLine(o, "callback")
  /\ IF xline'[o].pc = "done" THEN Sends(o[1], <<Answer(xline[o].remote, 0, "refused", 0, o[2])>>) ELSE UNCHANGED xnet
  /\ UNCHANGED xup
AcceptCallback(o) ==
  /\ o[1] = "B" /\ At(o, "callback")
  /\ \/ /\ XBytes[o] >= 0 /\ Change(o, [xline[o] EXCEPT !.pc = "window", !.thr = "pop"]) /\ Sends("B", <<Answer(xline[o].remote, xline[o].id, "established", XWindow, o[2])>>)
     \/ /\ XBytes[o] < 0 /\ Change(o, [xline[o] EXCEPT !.pc = "remove"]) /\ Sends("B", <<Answer(xline[o].remote, 0, "refused", 0, o[2])>>)
  /\ UNCHANGED <<xside, xup, xmap, xempty, xused>>

(* Line_ConnectionAnswer, and the two callbacks of the client. *)
KnownLine(s, i) == i \in DOMAIN xmap[s]
ConnectionAnswer(s) ==
  LET m == Head(xnet[s]) o == xmap[s][m.to] IN
  /\ \E op \in {"threaded", "established", "refused"} : Receives(s, op)
  /\ IF ~KnownLine(s, m.to) THEN TakeAnd(s, <<Termination(m)>>) /\ UNCHANGED xline
     ELSE /\ TakeAnd(s, <<>>)
          /\ \/ m.op = "threaded" /\ UNCHANGED xline
             \/ m.op = "established" /\ Change(o, [xline[o] EXCEPT !.pc = "callback", !.remote = m.from, !.rwin = m.win])
             \/ m.op = "refused" /\ Change(o, [xline[o] EXCEPT !.pc = IF "failed" \in XCallbacks THEN "remove" ELSE "left"])
  /\ UNCHANGED <<xside, xup, xmap, xempty, xused>>
HandlerConnection(o) ==
  /\ o[1] = "A" /\ At(o, "callback")
  /\ Change(o, IF "accepted" \notin XCallbacks THEN [xline[o] EXCEPT !.pc = "left"]
                ELSE IF XBytes[o] < 0 THEN [xline[o] EXCEPT !.pc = "term"]
                ELSE [xline[o] EXCEPT !.pc = "window", !.thr = "pop"])
  /\ UNCHANGED <<xside, xnet, xup, xmap, xempty, xused>>

(* processLine: room in the other side's window, a read of at most that much, the message, and then the count of what the   *)
(* other side has not processed. *)
RemoteAvailableIgnored(l) == XWindow
RemoteAvailable(l) == l.rwin - l.unproc
Said(o, n) == [k \in 1..n |-> <<o, xline[o].given + k>>]
EndOfLine(l) == [l EXCEPT !.pc = "join", !.shut = TRUE, !.buf = Append(@, <<>>)]
ReadAttached(o) ==
  /\ At(o, "window") /\ RemoteAvailable(xline[o]) > 0
  /\ \/ \E n \in 1..XSendBuf :
          /\ n <= RemoteAvailable(xline[o]) /\ ~xline[o].shut /\ xline[o].given + n <= XBytes[o]
          /\ Sends(o[1], <<LineData(xline[o], Said(o, n))>>)
          /\ Change(o, IF MaySend(o[1]) THEN [xline[o] EXCEPT !.pc = "sent", !.piece = n, !.given = @ + n] ELSE EndOfLine(xline[o]))
     \/ /\ xline[o].shut \/ xline[o].given = XBytes[o]
        /\ Change(o, EndOfLine(xline[o])) /\ UNCHANGED xnet
  /\ UNCHANGED <<xside, xup, xmap, xempty, xused>>
CountSent(o) == /\ At(o, "sent") /\ Change(o, [xline[o] EXCEPT !.pc = "window", !.unproc = @ + xline[o].piece, !.piece = 0])
                /\ UNCHANGED <<xside, xnet, xup, xmap, xempty, xused>>
SendTermination(o) == /\ At(o, "term") \/ (At(o, "join") /\ xline[o].thr = "out")
                      /\ Sends(o[1], <<LineData(xline[o], <<>>)>>) /\ Change(o, [xline[o] EXCEPT !.pc = "remove"])
                      /\ UNCHANGED <<xside, xup, xmap, xempty, xused>>
(* stopAndRemoveLine, and the destructor: what is still in the buffer is told to the other side. *)
LeftInBuffer(l) == FlattenSeq([k \in DOMAIN l.buf |-> IF l.buf[k] = <<>> THEN <<>> ELSE <<ReadenBytes(l, Len(l.buf[k]))>>])
StopAndRemoveLine(o) ==
  LET l == xline[o] IN
  /\ At(o, "remove") /\ RemoveLine(o[1], l.id) /\ Change(o, [l EXCEPT !.pc = "done", !.buf = <<>>])
  /\ Sends(o[1], IF l.thr = "none" THEN <<>> ELSE LeftInBuffer(l))
  /\ UNCHANGED <<xside, xup, xused>>

(* processBuffer, the second thread of a line. *)
ProcessBuffer(o) ==
  LET l == xline[o] b == Head(l.buf) IN
  /\ l.thr = "pop" /\ l.buf # <<>>
  /\ Sends(o[1], IF b = <<>> THEN <<>> ELSE <<ReadenBytes(l, Len(b))>>)
  /\ Change(o, IF b = <<>> \/ l.shut THEN [l EXCEPT !.buf = Tail(@), !.thr = "out", !.shut = TRUE]
                ELSE [l EXCEPT !.buf = Tail(@), !.got = @ \o b])
  /\ UNCHANGED <<xside, xup, xmap, xempty, xused>>

(* Line_Data: the reader waits while the buffer of the line is full. *)
BufferedBytes(l) == Len(FlattenSeq(l.buf))
HasRoom(l, n) == n + BufferedBytes(l) < 2 * XWindow + 1
LineDataArrives(s) ==
  LET m == Head(xnet[s]) l == xline[xmap[s][m.to]] IN
  /\ Receives(s, "data")
  /\ \/ /\ KnownLine(s, m.to) /\ HasRoom(l, Len(m.bytes))
        /\ Change(xmap[s][m.to], [l EXCEPT !.buf = Append(@, m.bytes)]) /\ TakeAnd(s, <<>>)
     \/ /\ ~KnownLine(s, m.to) /\ TakeAnd(s, IF m.bytes = <<>> THEN <<>> ELSE <<Termination(m)>>) /\ UNCHANGED xline
  /\ UNCHANGED <<xside, xup, xmap, xempty, xused>>
(* UpdateReadenBytes: more than was counted counts as all of it. *)
AddProcessedBytes(l, n) == IF l.ufin \/ n > l.unproc THEN 0 ELSE l.unproc - n
UpdateReadenBytes(s) ==
  LET m == Head(xnet[s]) l == xline[xmap[s][m.to]] IN
  /\ Receives(s, "read")
  /\ \/ /\ KnownLine(s, m.to) /\ Change(xmap[s][m.to], [l EXCEPT !.unproc = AddProcessedBytes(l, m.win)]) /\ TakeAnd(s, <<>>)
     \/ ~KnownLine(s, m.to) /\ TakeAnd(s, <<Termination(m)>>) /\ UNCHANGED xline
  /\ UNCHANGED <<xside, xup, xmap, xempty, xused>>

(* The end of run(): no new lines, every line is shut down and let go, and the last to go opens the way. *)
CloseEveryLine(s) ==
  /\ xside[s].phase = "ended" /\ xside' = [xside EXCEPT ![s].phase = "waiting", ![s].nonew = TRUE]
  /\ xline' = [o \in XObjects |-> IF \E i \in DOMAIN xmap[s] : xmap[s][i] = o
                 THEN [xline[o] EXCEPT !.shut = @ \/ xline[o].thr # "none", !.unproc = 0, !.ufin = TRUE] ELSE xline[o]]
  /\ UNCHANGED <<xnet, xup, xmap, xempty, xused>>
WaitForEveryLine(s) == /\ xside[s].phase = "waiting" /\ ~xempty[s] /\ xup' = FALSE
                       /\ xside' = [xside EXCEPT ![s].phase = "gone"] /\ UNCHANGED <<xnet, xmap, xempty, xline, xused>>

LineNext ==
  \/ \E s \in XSides : \/ ReadSignal(s) \/ ReadFails(s) \/ LineConnect(s) \/ AnswerThreaded(s) \/ ConnectionAnswer(s)
                       \/ LineDataArrives(s) \/ UpdateReadenBytes(s) \/ CloseEveryLine(s) \/ WaitForEveryLine(s)
  \/ \E o \in XObjects : \/ AcceptLine(o) \/ AcceptCallback(o) \/ HandlerConnection(o) \/ ReadAttached(o)
                         \/ CountSent(o) \/ SendTermination(o) \/ StopAndRemoveLine(o) \/ ProcessBuffer(o)
XNext == Greet \/ LineFinished \/ XClose \/ ForceClose \/ (\E o \in XObjects : XConnect(o)) \/ (LineNext /\ UNCHANGED xplan)
XSpec == XInit /\ [][XNext]_xVars

-----------------------------------------------------------------------------
OtherEnd(o) == <<Opposite(o[1]), o[2]>>
FreshIds(o) == ~xline[o].again /\ ~xline[OtherEnd(o)].again

(* As long as neither end of a connection was given the id of an earlier line, its line writes to its socket what the other *)
(* end read, in that order, whatever else the connection carries and however the line ends. *)
InOrder == \A o \in XObjects : FreshIds(o) => /\ Len(xline[o].got) <= xline[OtherEnd(o)].given
                                              /\ \A k \in DOMAIN xline[o].got : xline[o].got[k] = <<OtherEnd(o), k>>
(* Under the same condition, while a line is registered, what was sent to it and its thread has not taken fits its window,  *)
(* so that the thread that reads the connection for every line never waits for one of them (addBufferElement). *)
OnTheWay(o) == FlattenSeq([i \in DOMAIN xnet[o[1]] |-> IF xnet[o[1]][i].op = "data" /\ xnet[o[1]][i].to = xline[o].id
                                                        THEN xnet[o[1]][i].bytes ELSE <<>>])
WindowKept == \A o \in XObjects : FreshIds(o) /\ KnownLine(o[1], xline[o].id) /\ xmap[o[1]][xline[o].id] = o
                                   => Len(OnTheWay(o)) + BufferedBytes(xline[o]) <= XWindow
(* A decision about a connection meets the line that asked for it, while it waits. *)
AnswerMeetsItsLine == \A i \in DOMAIN xnet["A"] :
  LET m == xnet["A"][i] IN
  m.op \in {"established", "refused"} /\ KnownLine("A", m.to) => xmap["A"][m.to] = <<"A", m.conn>> /\ At(xmap["A"][m.to], "wait")
(* When run() deletes the connection no line is left, unless a search for an id gave up. *)
RunOutlivesLines == \A s \in XSides : xside[s].phase = "gone" /\ ~xside[s].missed =>
  \A o \in XObjects : o[1] = s => xline[o].pc \in {"none", "accept", "done"} /\ xline[o].thr \in {"none", "out"}

MultiplexerSound == InOrder /\ WindowKept /\ AnswerMeetsItsLine /\ RunOutlivesLines
=============================================================================
