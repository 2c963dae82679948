-------------------------- MODULE MultiplexerProofs -------------------------
(***************************************************************************)
(* Proofs about the multiplexer: many lines over one connection, for any   *)
(* ids, any number of lines, any window and piece sizes with the piece no  *)
(* larger than the window, and any calls of the program.                   *)
(***************************************************************************)
EXTENDS Multiplexer, SequenceLemmas

(* The types: a byte names the line object that read it and its place. *)
XByte == XObjects \X (Nat \ {0})
XIdOr0 == XIds \cup {0}
Registered == {"wait", "callback", "window", "sent", "term", "join", "remove", "left"}
XLine == [pc : Registered \cup {"none", "accept", "done"}, id : XIdOr0, again : BOOLEAN, remote : XIdOr0, rwin : Nat,
          unproc : Nat, ufin : BOOLEAN, piece : Nat, buf : Seq(Seq(XByte)), thr : {"none", "pop", "out"}, shut : BOOLEAN,
          given : Nat, got : Seq(XByte)]
Deciding == {"connect", "established", "refused"}
XOps == Deciding \cup {"data", "read", "threaded", "close", "ack1", "ack2"}
XMsg == [op : XOps, to : XIdOr0, from : XIdOr0, bytes : Seq(XByte), win : Nat, conn : 0..XConnects]
XSideState == [phase : {"greet", "run", "ended", "waiting", "gone"}, nosend : BOOLEAN, nonew : BOOLEAN,
               threaded : 0..XConnects, missed : BOOLEAN]

-----------------------------------------------------------------------------
(* What a connection carries to one line: bytes, and how many bytes are acknowledged. *)

BytesFor(m, i) == IF m.op = "data" /\ m.to = i THEN m.bytes ELSE <<>>
AcksFor(m, i) == IF m.op = "read" /\ m.to = i THEN [j \in 1..m.win |-> 0] ELSE <<>>
Carried(net, i) == FlattenSeq([k \in 1..Len(net) |-> BytesFor(net[k], i)])
Acked(net, i) == FlattenSeq([k \in 1..Len(net) |-> AcksFor(net[k], i)])
Members(net) == {net[k] : k \in 1..Len(net)}

(* Both are sequences. *)
LEMMA PartsTyped ==
  ASSUME NEW m \in XMsg, NEW i
  PROVE  BytesFor(m, i) \in Seq(XByte) /\ AcksFor(m, i) \in Seq({0})
<1>1. m.bytes \in Seq(XByte) /\ m.win \in Nat
  BY DEF XMsg
<1>2. [j \in 1..m.win |-> 0] \in Seq({0})
  BY <1>1
<1>3. <<>> \in Seq(XByte) /\ <<>> \in Seq({0})
  OBVIOUS
<1> QED BY <1>1, <1>2, <1>3, Zenon DEF BytesFor, AcksFor

LEMMA CarriedTyped ==
  ASSUME NEW net \in Seq(XMsg), NEW i
  PROVE  /\ [k \in 1..Len(net) |-> BytesFor(net[k], i)] \in Seq(Seq(XByte))
         /\ [k \in 1..Len(net) |-> AcksFor(net[k], i)] \in Seq(Seq({0}))
         /\ Carried(net, i) \in Seq(XByte) /\ Acked(net, i) \in Seq({0})
<1>1. \A k \in 1..Len(net) : net[k] \in XMsg
  OBVIOUS
<1>2. \A k \in 1..Len(net) : BytesFor(net[k], i) \in Seq(XByte) /\ AcksFor(net[k], i) \in Seq({0})
  BY <1>1, PartsTyped
<1>3. PICK n \in Nat : n = Len(net)
  OBVIOUS
<1>4. /\ [k \in 1..n |-> BytesFor(net[k], i)] \in [1..n -> Seq(XByte)]
      /\ [k \in 1..n |-> AcksFor(net[k], i)] \in [1..n -> Seq({0})]
  BY <1>2, <1>3, Zenon
<1>5. ASSUME NEW S, NEW f \in [1..n -> S] PROVE f \in Seq(S)
  OBVIOUS
<1>6. /\ [k \in 1..n |-> BytesFor(net[k], i)] \in Seq(Seq(XByte))
      /\ [k \in 1..n |-> AcksFor(net[k], i)] \in Seq(Seq({0}))
  BY <1>4, <1>5
<1> QED BY <1>3, <1>6, FlattenInSeq DEF Carried, Acked

(* Two sequences of messages one after the other. *)
LEMMA JoinMembers ==
  ASSUME NEW net \in Seq(XMsg), NEW ms \in Seq(XMsg)
  PROVE  /\ net \o ms \in Seq(XMsg) /\ Members(net \o ms) = Members(net) \cup Members(ms)
<1>0. Len(net) \in Nat /\ Len(ms) \in Nat
  OBVIOUS
<1>1. PICK m, n, w : m = Len(net) /\ n = Len(ms) /\ m \in Nat /\ n \in Nat /\ w = net \o ms
  BY <1>0, Zenon
<1>2. w \in Seq(XMsg) /\ Len(w) = m + n /\ \A k \in 1..(m + n) : w[k] = IF k <= m THEN net[k] ELSE ms[k - m]
  BY <1>1
<1>3. ASSUME NEW x \in Members(w) PROVE x \in Members(net) \cup Members(ms)
  <2>1. PICK k \in 1..(m + n) : x = w[k]
    BY <1>2 DEF Members
  <2>2. CASE k <= m
    <3>1. k \in 1..m /\ x = net[k]
      BY <1>1, <1>2, <2>1, <2>2
    <3> QED BY <3>1, <1>1 DEF Members
  <2>3. CASE ~(k <= m)
    <3>1. k - m \in 1..n /\ x = ms[k - m]
      BY <1>1, <1>2, <2>1, <2>3
    <3> QED BY <3>1, <1>1 DEF Members
  <2> QED BY <2>2, <2>3
<1>4. ASSUME NEW x \in Members(net) PROVE x \in Members(w)
  <2>1. PICK k \in 1..m : x = net[k]
    BY <1>1 DEF Members
  <2>2. k \in 1..(m + n) /\ w[k] = x
    BY <1>1, <1>2, <2>1
  <2> QED BY <2>2, <1>2 DEF Members
<1>5. ASSUME NEW x \in Members(ms) PROVE x \in Members(w)
  <2>1. PICK k \in 1..n : x = ms[k]
    BY <1>1 DEF Members
  <2>2. k + m \in 1..(m + n) /\ w[k + m] = x
    BY <1>1, <1>2, <2>1
  <2> QED BY <2>2, <1>2 DEF Members
<1> QED BY <1>1, <1>2, <1>3, <1>4, <1>5

(* Taking the first message leaves the others. *)
LEMMA TailMembers ==
  ASSUME NEW net \in Seq(XMsg), net # <<>>
  PROVE  /\ Tail(net) \in Seq(XMsg) /\ Head(net) \in Members(net) /\ Members(Tail(net)) \subseteq Members(net)
         /\ Head(net) \in XMsg
<1>0. Len(net) \in Nat \ {0}
  OBVIOUS
<1>1. PICK m, t : m = Len(net) /\ m \in Nat \ {0} /\ t = Tail(net)
  BY <1>0, Zenon
<1>2. t \in Seq(XMsg) /\ Len(t) = m - 1 /\ (\A k \in 1..(m - 1) : t[k] = net[k + 1]) /\ Head(net) = net[1] /\ 1 \in 1..m
  BY <1>1
<1>3. ASSUME NEW x \in Members(t) PROVE x \in Members(net)
  <2>1. PICK k \in 1..(m - 1) : x = t[k]
    BY <1>2 DEF Members
  <2>2. k + 1 \in 1..m /\ net[k + 1] = x
    BY <1>1, <1>2, <2>1
  <2> QED BY <2>2, <1>1 DEF Members
<1>4. Head(net) \in Members(net) /\ net[1] \in XMsg
  BY <1>1, <1>2 DEF Members
<1> QED BY <1>1, <1>2, <1>3, <1>4

LEMMA FewMembers ==
  /\ <<>> \in Seq(XMsg) /\ Members(<<>>) = {}
  /\ \A m \in XMsg : <<m>> \in Seq(XMsg) /\ Members(<<m>>) = {m}
<1>1. Len(<<>>) = 0 /\ \A m \in XMsg : Len(<<m>>) = 1 /\ <<m>>[1] = m /\ 1..1 = {1} /\ 1..0 = {}
  OBVIOUS
<1>2. <<>> \in Seq(XMsg) /\ \A m \in XMsg : <<m>> \in Seq(XMsg)
  OBVIOUS
<1> QED BY <1>1, <1>2 DEF Members

(* What two sequences of messages carry, one after the other. *)
LEMMA CarriedJoin ==
  ASSUME NEW net \in Seq(XMsg), NEW ms \in Seq(XMsg), NEW i
  PROVE  Carried(net \o ms, i) = Carried(net, i) \o Carried(ms, i) /\ Acked(net \o ms, i) = Acked(net, i) \o Acked(ms, i)
<1>0. Len(net) \in Nat /\ Len(ms) \in Nat
  OBVIOUS
<1>1. PICK m, n, w : m = Len(net) /\ n = Len(ms) /\ m \in Nat /\ n \in Nat /\ w = net \o ms
  BY <1>0, Zenon
<1>2. w \in Seq(XMsg) /\ Len(w) = m + n /\ \A k \in 1..(m + n) : w[k] = IF k <= m THEN net[k] ELSE ms[k - m]
  BY <1>1
<1>3. PICK f, g, h : /\ f = [k \in 1..m |-> BytesFor(net[k], i)] /\ g = [k \in 1..n |-> BytesFor(ms[k], i)]
                     /\ h = [k \in 1..(m + n) |-> BytesFor(w[k], i)]
  OBVIOUS
<1>4. f \in Seq(Seq(XByte)) /\ g \in Seq(Seq(XByte)) /\ h \in Seq(Seq(XByte))
  BY <1>1, <1>2, <1>3, CarriedTyped
<1>5. Len(f) = m /\ Len(g) = n /\ Len(h) = m + n
  BY <1>1, <1>3
<1>6. h = f \o g
  <2>1. ASSUME NEW k \in 1..m PROVE h[k] = f[k]
    <3>1. k \in 1..(m + n) /\ w[k] = net[k]
      BY <1>1, <1>2
    <3> QED BY <3>1, <1>3
  <2>2. ASSUME NEW k \in 1..n PROVE h[m + k] = g[k]
    <3>1. m + k \in 1..(m + n) /\ w[m + k] = ms[k]
      BY <1>1, <1>2
    <3> QED BY <3>1, <1>3
  <2>3. (\A k \in 1..Len(f) : h[k] = f[k]) /\ (\A k \in 1..Len(g) : h[Len(f) + k] = g[k]) /\ Len(h) = Len(f) + Len(g)
    BY <2>1, <2>2, <1>5, Zenon
  <2> QED BY <2>3, <1>4, JoinedByPlace
<1>7. PICK f2, g2, h2 : /\ f2 = [k \in 1..m |-> AcksFor(net[k], i)] /\ g2 = [k \in 1..n |-> AcksFor(ms[k], i)]
                        /\ h2 = [k \in 1..(m + n) |-> AcksFor(w[k], i)]
  OBVIOUS
<1>8. f2 \in Seq(Seq({0})) /\ g2 \in Seq(Seq({0})) /\ h2 \in Seq(Seq({0}))
  BY <1>1, <1>2, <1>7, CarriedTyped
<1>9. Len(f2) = m /\ Len(g2) = n /\ Len(h2) = m + n
  BY <1>1, <1>7
<1>10. h2 = f2 \o g2
  <2>1. ASSUME NEW k \in 1..m PROVE h2[k] = f2[k]
    <3>1. k \in 1..(m + n) /\ w[k] = net[k]
      BY <1>1, <1>2
    <3> QED BY <3>1, <1>7
  <2>2. ASSUME NEW k \in 1..n PROVE h2[m + k] = g2[k]
    <3>1. m + k \in 1..(m + n) /\ w[m + k] = ms[k]
      BY <1>1, <1>2
    <3> QED BY <3>1, <1>7
  <2>3. (\A k \in 1..Len(f2) : h2[k] = f2[k]) /\ (\A k \in 1..Len(g2) : h2[Len(f2) + k] = g2[k]) /\ Len(h2) = Len(f2) + Len(g2)
    BY <2>1, <2>2, <1>9, Zenon
  <2> QED BY <2>3, <1>8, JoinedByPlace
<1>11. Carried(net, i) = FlattenSeq(f) /\ Carried(ms, i) = FlattenSeq(g) /\ Carried(w, i) = FlattenSeq(h)
  BY <1>1, <1>2, <1>3 DEF Carried
<1>12. Acked(net, i) = FlattenSeq(f2) /\ Acked(ms, i) = FlattenSeq(g2) /\ Acked(w, i) = FlattenSeq(h2)
  BY <1>1, <1>2, <1>7 DEF Acked
<1>13. FlattenSeq(f \o g) = FlattenSeq(f) \o FlattenSeq(g) /\ FlattenSeq(f2 \o g2) = FlattenSeq(f2) \o FlattenSeq(g2)
  BY <1>4, <1>8, FlattenJoin
<1> QED BY <1>1, <1>6, <1>10, <1>11, <1>12, <1>13

(* Messages of which none carries anything to a line carry nothing to it. *)
LEMMA CarriedNone ==
  ASSUME NEW net \in Seq(XMsg), NEW i
  PROVE  /\ (\A m \in Members(net) : BytesFor(m, i) = <<>>) => Carried(net, i) = <<>>
         /\ (\A m \in Members(net) : AcksFor(m, i) = <<>>) => Acked(net, i) = <<>>
<1>1. \A k \in 1..Len(net) : net[k] \in Members(net)
  BY DEF Members
<1>2. PICK n \in Nat : n = Len(net)
  OBVIOUS
<1>3. PICK f, g : f = [k \in 1..n |-> BytesFor(net[k], i)] /\ g = [k \in 1..n |-> AcksFor(net[k], i)]
  OBVIOUS
<1>4a. f \in Seq(Seq(XByte)) /\ g \in Seq(Seq({0}))
  BY <1>2, <1>3, CarriedTyped
<1>4. f \in Seq(Seq(XByte)) /\ g \in Seq(Seq({0})) /\ Len(f) = n /\ Len(g) = n
  BY <1>3, <1>4a
<1>5. (\A m \in Members(net) : BytesFor(m, i) = <<>>) => \A k \in 1..Len(f) : f[k] = <<>>
  BY <1>1, <1>2, <1>3, <1>4
<1>6. (\A m \in Members(net) : AcksFor(m, i) = <<>>) => \A k \in 1..Len(g) : g[k] = <<>>
  BY <1>1, <1>2, <1>3, <1>4
<1> QED BY <1>2, <1>3, <1>4, <1>5, <1>6, FlattenNothing DEF Carried, Acked

LEMMA CarriedOne ==
  ASSUME NEW m \in XMsg, NEW i
  PROVE  Carried(<<m>>, i) = BytesFor(m, i) /\ Acked(<<m>>, i) = AcksFor(m, i)
<1>1. Len(<<m>>) = 1 /\ <<m>>[1] = m
  OBVIOUS
<1>2. [k \in 1..1 |-> BytesFor(<<m>>[k], i)] = <<BytesFor(m, i)>> /\ [k \in 1..1 |-> AcksFor(<<m>>[k], i)] = <<AcksFor(m, i)>>
  BY <1>1
<1> QED BY <1>1, <1>2, PartsTyped, FlattenOne DEF Carried, Acked

(* What is carried, by the first message and by the rest. *)
LEMMA CarriedHead ==
  ASSUME NEW net \in Seq(XMsg), net # <<>>, NEW i
  PROVE  /\ Carried(net, i) = BytesFor(Head(net), i) \o Carried(Tail(net), i)
         /\ Acked(net, i) = AcksFor(Head(net), i) \o Acked(Tail(net), i)
<1>0. Head(net) \in XMsg /\ Tail(net) \in Seq(XMsg)
  OBVIOUS
<1>1. PICK h \in XMsg, t \in Seq(XMsg) : h = Head(net) /\ t = Tail(net)
  BY <1>0, Zenon
<1>2. net = <<h>> \o t /\ <<h>> \in Seq(XMsg)
  BY <1>1
<1>3. Carried(<<h>> \o t, i) = Carried(<<h>>, i) \o Carried(t, i) /\ Acked(<<h>> \o t, i) = Acked(<<h>>, i) \o Acked(t, i)
  BY <1>2, CarriedJoin
<1> QED BY <1>1, <1>2, <1>3, CarriedOne

LEMMA CarriedEmpty == \A i : Carried(<<>>, i) = <<>> /\ Acked(<<>>, i) = <<>>
BY FewMembers, CarriedNone

(* A connection is decided by one message at a time. *)
Once(net) == \A k, j \in 1..Len(net) : net[k].op \in Deciding /\ net[j].op \in Deciding /\ net[k].conn = net[j].conn => k = j

(* Taking a message, or adding messages about other connections, keeps that. *)
LEMMA OnceTail ==
  ASSUME NEW net \in Seq(XMsg), net # <<>>, Once(net)
  PROVE  /\ Once(Tail(net))
         /\ Head(net).op \in Deciding => \A m \in Members(Tail(net)) : m.op \in Deciding => m.conn # Head(net).conn
<1>0. Len(net) \in Nat \ {0}
  OBVIOUS
<1>1. PICK m, t : m = Len(net) /\ m \in Nat \ {0} /\ t = Tail(net)
  BY <1>0, Zenon
<1>2. t \in Seq(XMsg) /\ Len(t) = m - 1 /\ (\A k \in 1..(m - 1) : t[k] = net[k + 1]) /\ Head(net) = net[1] /\ 1 \in 1..m
  BY <1>1
<1>3. \A k \in 1..(m - 1) : k + 1 \in 1..m /\ k + 1 # 1
  BY <1>1
<1>4. Once(t)
  <2> SUFFICES ASSUME NEW k \in 1..(m - 1), NEW j \in 1..(m - 1), t[k].op \in Deciding, t[j].op \in Deciding, t[k].conn = t[j].conn
               PROVE  k = j
    BY <1>2 DEF Once
  <2>1. k + 1 = j + 1
    BY <1>1, <1>2, <1>3 DEF Once
  <2> QED BY <2>1, <1>1
<1>5. ASSUME Head(net).op \in Deciding, NEW x \in Members(t), x.op \in Deciding PROVE x.conn # Head(net).conn
  <2>1. PICK k \in 1..(m - 1) : x = t[k]
    BY <1>2 DEF Members
  <2> QED BY <1>1, <1>2, <1>3, <1>5, <2>1 DEF Once
<1> QED BY <1>1, <1>4, <1>5

LEMMA OnceJoin ==
  ASSUME NEW net \in Seq(XMsg), NEW ms \in Seq(XMsg), Once(net), Once(ms),
         \A x \in Members(net), y \in Members(ms) : x.op \in Deciding /\ y.op \in Deciding => x.conn # y.conn
  PROVE  Once(net \o ms)
<1>0. Len(net) \in Nat /\ Len(ms) \in Nat
  OBVIOUS
<1>1. PICK m, n, w : m = Len(net) /\ n = Len(ms) /\ m \in Nat /\ n \in Nat /\ w = net \o ms
  BY <1>0, Zenon
<1>2. w \in Seq(XMsg) /\ Len(w) = m + n /\ \A k \in 1..(m + n) : w[k] = IF k <= m THEN net[k] ELSE ms[k - m]
  BY <1>1
<1>3. (\A k \in 1..m : net[k] \in Members(net)) /\ \A k \in 1..n : ms[k] \in Members(ms)
  BY <1>1 DEF Members
<1> SUFFICES ASSUME NEW k \in 1..(m + n), NEW j \in 1..(m + n), w[k].op \in Deciding, w[j].op \in Deciding, w[k].conn = w[j].conn
             PROVE  k = j
  BY <1>1, <1>2 DEF Once
<1>4. CASE k <= m /\ j <= m
  <2>1. k \in 1..m /\ j \in 1..m /\ w[k] = net[k] /\ w[j] = net[j]
    BY <1>1, <1>2, <1>4
  <2> QED BY <2>1, <1>1 DEF Once
<1>5. CASE k <= m /\ ~(j <= m)
  <2>1. k \in 1..m /\ j - m \in 1..n /\ w[k] = net[k] /\ w[j] = ms[j - m]
    BY <1>1, <1>2, <1>5
  <2> QED BY <2>1, <1>3
<1>6. CASE ~(k <= m) /\ j <= m
  <2>1. k - m \in 1..n /\ j \in 1..m /\ w[k] = ms[k - m] /\ w[j] = net[j]
    BY <1>1, <1>2, <1>6
  <2> QED BY <2>1, <1>3
<1>7. CASE ~(k <= m) /\ ~(j <= m)
  <2>1. k - m \in 1..n /\ j - m \in 1..n /\ w[k] = ms[k - m] /\ w[j] = ms[j - m]
    BY <1>1, <1>2, <1>7
  <2>2. k - m = j - m
    BY <2>1, <1>1 DEF Once
  <2> QED BY <2>2, <1>1
<1> QED BY <1>4, <1>5, <1>6, <1>7

-----------------------------------------------------------------------------
(* The inductive invariant. *)

InMap(o) == xline[o].pc \in Registered

XTypes ==
  /\ xside \in [XSides -> XSideState] /\ xnet \in [XSides -> Seq(XMsg)] /\ xup \in BOOLEAN
  /\ xempty \in [XSides -> BOOLEAN] /\ xline \in [XObjects -> XLine] /\ xused \in [XSides -> SUBSET XIds]
  /\ DOMAIN xmap = XSides

(* A registered line is what the map has under its id. *)
MapExact ==
  /\ \A s \in XSides : \A i \in DOMAIN xmap[s] :
       /\ i \in xused[s] /\ xmap[s][i] \in XObjects /\ xmap[s][i][1] = s
       /\ xline[xmap[s][i]].id = i /\ InMap(xmap[s][i])
  /\ \A o \in XObjects : InMap(o) => xline[o].id \in DOMAIN xmap[o[1]] /\ xmap[o[1]][xline[o].id] = o
  /\ \A o \in XObjects : xline[o].id # 0 => xline[o].id \in xused[o[1]]

(* A registered line that was given a new id is the only one that ever had it. *)
FirstOfId ==
  \A o, q \in XObjects : o[1] = q[1] /\ xline[o].id = xline[q].id /\ InMap(o) /\ ~xline[o].again => o = q

(* The flags of a side follow its phase; mtLock_OnEmptyLines is held while there are lines, unless a search gave up. *)
SidePhase(s) ==
  /\ xside[s].nosend <=> xside[s].phase # "run"
  /\ xside[s].nonew <=> xside[s].phase \in {"greet", "waiting", "gone"}
  /\ xside[s].phase = "greet" => \A o \in XObjects : o[1] = s => xline[o].pc = "none"
  /\ ~xside[s].missed => (xempty[s] <=> DOMAIN xmap[s] # {})
  /\ ~xside[s].missed /\ xside[s].phase = "gone" => DOMAIN xmap[s] = {}

(* What a line has at each stage of its two threads. *)
StageOf(o, l) ==
  /\ l.pc \in {"none", "accept"} => l.id = 0
  /\ l.pc \in Registered => l.id # 0
  /\ l.pc = "none" => l.remote = 0 /\ ~l.ufin
  /\ l.id = 0 => l.thr = "none" /\ l.buf = <<>> /\ ~l.again
  /\ l.thr = "none" => l.given = 0 /\ l.got = <<>> /\ l.unproc = 0 /\ l.piece = 0
  /\ l.thr = "none" => l.pc \notin {"window", "sent", "join"}
  /\ l.thr = "pop" => l.pc \in {"window", "sent", "join"}
  /\ l.thr = "out" => l.pc \in {"window", "sent", "join", "remove", "done"}
  /\ l.pc # "sent" => l.piece = 0
  /\ l.pc = "accept" => o[1] = "B"
  /\ l.pc \in {"wait", "term", "left"} => o[1] = "A"
LineStage(o) == StageOf(o, xline[o]) /\ (xline[o].ufin => xside[o[1]].phase # "run")

(* The two ends of a connection know each other's id, and the one who asked waits until the other has decided. *)
Asker(c) == <<"A", c>>
Asked(c) == <<"B", c>>
Undecided == {"accept", "callback"}
Partners(c) ==
  LET a == xline[Asker(c)]
      b == xline[Asked(c)]
  IN /\ b.pc # "none" => a.id # 0 /\ b.remote = a.id /\ b.rwin = XWindow
     /\ a.remote # 0 => a.remote = b.id /\ a.rwin = XWindow
     /\ a.thr # "none" \/ a.pc = "callback" => a.remote # 0
     /\ b.pc \in Undecided => a.pc = "wait"

(* The messages on the connection: who sent them, and for which line. *)
ConnectOk(s, m) ==
  m.op = "connect" =>
    /\ s = "B" /\ m.conn \in 1..XConnects /\ m.win = XWindow
    /\ xline[Asker(m.conn)].pc = "wait" /\ xline[Asker(m.conn)].id = m.from /\ xline[Asked(m.conn)].pc = "none"
DecisionOk(s, m) ==
  m.op \in {"established", "refused"} =>
    /\ s = "A" /\ m.conn \in 1..XConnects
    /\ xline[Asker(m.conn)].pc = "wait" /\ xline[Asker(m.conn)].id = m.to /\ xline[Asked(m.conn)].pc \notin Undecided
    /\ m.op = "established" => m.from = xline[Asked(m.conn)].id /\ m.from # 0 /\ m.win = XWindow
DataOk(s, m) ==
  m.op = "data" /\ m.bytes # <<>> => \E c \in 1..XConnects : m.to = xline[<<s, c>>].id /\ m.to # 0
ReadOk(s, m) ==
  m.op = "read" =>
    \E c \in 1..XConnects : m.to = xline[<<s, c>>].id /\ m.to # 0 /\ xline[<<Opposite(s), c>>].thr # "none"
MessageOk(s, m) == ConnectOk(s, m) /\ DecisionOk(s, m) /\ DataOk(s, m) /\ ReadOk(s, m)
MessagesOk == \A s \in XSides : \A m \in Members(xnet[s]) : MessageOk(s, m)
OneDecision ==
  /\ Once(xnet["A"]) /\ Once(xnet["B"])
  /\ \A x \in Members(xnet["A"]), y \in Members(xnet["B"]) : x.op \in Deciding /\ y.op \in Deciding => x.conn # y.conn

(* What a line has written, has in its buffer and is on its way to it is what the other end read, from the first byte on. *)
FlowOk(p, x, given, run) ==
  /\ \A k \in 1..Len(x) : x[k] = <<p, k>>
  /\ Len(x) <= given /\ (run => Len(x) = given)
Flow(o) ==
  InMap(o) /\ FreshIds(o) /\ xline[o].thr # "out" =>
    FlowOk(OtherEnd(o), xline[o].got \o (FlattenSeq(xline[o].buf) \o Carried(xnet[o[1]], xline[o].id)),
           xline[OtherEnd(o)].given, xside[o[1]].phase = "run")

(* What is sent and not acknowledged is counted by the sender, as long as it sends. *)
Outstanding(o) == Len(Carried(xnet[o[1]], xline[o].id)) + Len(FlattenSeq(xline[o].buf))
Acks(o) == Len(Acked(xnet[o[1]], xline[o].id))
Window(o) ==
  LET p == OtherEnd(o)
  IN InMap(o) /\ FreshIds(o) =>
       /\ Outstanding(o) <= XWindow
       /\ InMap(p) /\ xside[p[1]].phase = "run" => Outstanding(o) + Acks(p) <= xline[p].unproc + xline[p].piece

(* What a line has written to its socket. *)
GotInOrder(o) ==
  FreshIds(o) => /\ Len(xline[o].got) <= xline[OtherEnd(o)].given
                 /\ \A k \in 1..Len(xline[o].got) : xline[o].got[k] = <<OtherEnd(o), k>>

XInv ==
  /\ XTypes /\ MapExact /\ FirstOfId /\ (\A s \in XSides : SidePhase(s)) /\ (\A o \in XObjects : LineStage(o))
  /\ (\A c \in 1..XConnects : Partners(c)) /\ MessagesOk /\ OneDecision
  /\ \A o \in XObjects : Flow(o) /\ Window(o) /\ GotInOrder(o)

-----------------------------------------------------------------------------
(* The two ends of a connection. *)
LEMMA Pairs ==
  ASSUME NEW o \in XObjects
  PROVE  /\ OtherEnd(o) \in XObjects /\ OtherEnd(OtherEnd(o)) = o /\ OtherEnd(o) # o
         /\ o[1] \in XSides /\ o[2] \in 1..XConnects /\ o = <<o[1], o[2]>>
         /\ OtherEnd(o)[1] = Opposite(o[1]) /\ OtherEnd(o)[1] # o[1] /\ OtherEnd(o)[2] = o[2]
         /\ Opposite(OtherEnd(o)[1]) = o[1]
<1>1. o[1] \in {"A", "B"} /\ o[2] \in 1..XConnects /\ o = <<o[1], o[2]>>
  BY DEF XObjects, XSides
<1>2. PICK s, c : s = o[1] /\ c = o[2]
  OBVIOUS
<1>3. OtherEnd(o) = <<Opposite(s), c>>
  BY <1>2 DEF OtherEnd
<1>4. Opposite(s) \in {"A", "B"} /\ Opposite(s) # s /\ Opposite(Opposite(s)) = s
  BY <1>1, <1>2 DEF Opposite
<1> QED BY <1>1, <1>2, <1>3, <1>4 DEF OtherEnd, XObjects, XSides

LEMMA SidesOpposite == \A s \in XSides : Opposite(s) \in XSides /\ Opposite(s) # s /\ Opposite(Opposite(s)) = s
BY DEF XSides, Opposite

LEMMA EndsOf ==
  ASSUME NEW c \in 1..XConnects
  PROVE  /\ Asker(c) \in XObjects /\ Asked(c) \in XObjects /\ Asker(c) # Asked(c)
         /\ Asker(c)[1] = "A" /\ Asker(c)[2] = c /\ Asked(c)[1] = "B" /\ Asked(c)[2] = c
         /\ OtherEnd(Asker(c)) = Asked(c) /\ OtherEnd(Asked(c)) = Asker(c)
         /\ \A o \in XObjects : o[2] = c => o = Asker(c) \/ o = Asked(c)
<1>1. Asker(c) \in XObjects /\ Asked(c) \in XObjects /\ Asker(c)[1] = "A" /\ Asker(c)[2] = c /\ Asked(c)[1] = "B" /\ Asked(c)[2] = c
  BY DEF Asker, Asked, XObjects, XSides
<1>2. Asker(c) # Asked(c)
  BY <1>1
<1>3. OtherEnd(Asker(c)) = Asked(c) /\ OtherEnd(Asked(c)) = Asker(c)
  BY <1>1 DEF OtherEnd, Opposite, Asker, Asked
<1>4. ASSUME NEW o \in XObjects, o[2] = c PROVE o = Asker(c) \/ o = Asked(c)
  <2>1. o = <<o[1], o[2]>> /\ o[1] \in {"A", "B"}
    BY Pairs DEF XSides
  <2> QED BY <2>1, <1>4 DEF Asker, Asked
<1> QED BY <1>1, <1>2, <1>3, <1>4

(* A step that changes one line. *)
LEMMA LineStep ==
  ASSUME XTypes, NEW q \in XObjects, NEW l \in XLine, xline' = [xline EXCEPT ![q] = l]
  PROVE  /\ xline' \in [XObjects -> XLine] /\ xline'[q] = l
         /\ \A o \in XObjects : o # q => xline'[o] = xline[o]
BY DEF XTypes

LEMMA LineTyped ==
  ASSUME XTypes, NEW o \in XObjects
  PROVE  /\ xline[o] \in XLine /\ xline[o].id \in XIdOr0 /\ xline[o].again \in BOOLEAN /\ xline[o].remote \in XIdOr0 /\ xline[o].rwin \in Nat
         /\ xline[o].unproc \in Nat /\ xline[o].piece \in Nat /\ xline[o].buf \in Seq(Seq(XByte)) /\ xline[o].given \in Nat
         /\ xline[o].got \in Seq(XByte) /\ FlattenSeq(xline[o].buf) \in Seq(XByte)
<1>1. xline[o] \in XLine
  BY DEF XTypes
<1>2. /\ xline[o].id \in XIdOr0 /\ xline[o].again \in BOOLEAN /\ xline[o].remote \in XIdOr0 /\ xline[o].rwin \in Nat
      /\ xline[o].unproc \in Nat /\ xline[o].piece \in Nat /\ xline[o].buf \in Seq(Seq(XByte)) /\ xline[o].given \in Nat
      /\ xline[o].got \in Seq(XByte)
  BY <1>1 DEF XLine
<1> QED BY <1>1, <1>2, FlattenInSeq

(* Every step takes from one of the two directions and adds to the other. *)
Cut(new, old) == new = old \/ (old # <<>> /\ new = Tail(old)) \/ new = <<>>
Moves(s, new, app) == xnet' = [xnet EXCEPT ![s] = new, ![Opposite(s)] = @ \o app]

(* What is in the two directions then. *)
LEMMA MoveNets ==
  ASSUME XTypes, NEW s \in XSides, NEW new, Cut(new, xnet[s]), NEW app \in Seq(XMsg), Moves(s, new, app)
  PROVE  /\ xnet' \in [XSides -> Seq(XMsg)] /\ new \in Seq(XMsg)
         /\ xnet'[s] = new /\ xnet'[Opposite(s)] = xnet[Opposite(s)] \o app
         /\ Members(xnet'[s]) \subseteq Members(xnet[s])
         /\ Members(xnet'[Opposite(s)]) = Members(xnet[Opposite(s)]) \cup Members(app)
<1>1. PICK t : t = Opposite(s) /\ t \in XSides /\ t # s
  BY SidesOpposite
<1>2. xnet[s] \in Seq(XMsg) /\ xnet[t] \in Seq(XMsg) /\ DOMAIN xnet = XSides
  BY <1>1 DEF XTypes
<1>3. new \in Seq(XMsg) /\ Members(new) \subseteq Members(xnet[s])
  <2>1. CASE new = xnet[s]
    BY <2>1, <1>2
  <2>2. CASE xnet[s] # <<>> /\ new = Tail(xnet[s])
    BY <2>2, <1>2, TailMembers
  <2>3. CASE new = <<>>
    BY <2>3, FewMembers
  <2> QED BY <2>1, <2>2, <2>3 DEF Cut
<1>4. xnet[t] \o app \in Seq(XMsg) /\ Members(xnet[t] \o app) = Members(xnet[t]) \cup Members(app)
  BY <1>2, JoinMembers
<1>5. xnet'[s] = new /\ xnet'[t] = xnet[t] \o app /\ DOMAIN xnet' = XSides /\ xnet' = [x \in XSides |-> xnet'[x]]
  BY <1>1, <1>2 DEF Moves
<1>6. \A x \in XSides : x = s \/ x = t
  BY <1>1 DEF XSides, Opposite
<1>7. xnet' \in [XSides -> Seq(XMsg)]
  BY <1>3, <1>4, <1>5, <1>6
<1> QED BY <1>1, <1>3, <1>4, <1>5, <1>7

(* The functions that send. *)
LEMMA SendsMoves ==
  ASSUME XTypes, NEW s \in XSides, NEW ms \in Seq(XMsg), Sends(s, ms)
  PROVE  \E app \in {ms, <<>>} :
           /\ Moves(s, xnet[s], app) /\ app \in Seq(XMsg) /\ Cut(xnet[s], xnet[s])
           /\ IF MaySend(s) /\ xside[Opposite(s)].phase = "run" THEN app = ms ELSE app = <<>>
<1>1. PICK t : t = Opposite(s) /\ t \in XSides /\ t # s
  BY SidesOpposite
<1>2. xnet[s] \in Seq(XMsg) /\ xnet[t] \in Seq(XMsg) /\ DOMAIN xnet = XSides /\ <<>> \in Seq(XMsg) /\ xnet = [x \in XSides |-> xnet[x]]
  BY <1>1 DEF XTypes
<1>3. xnet[t] \o <<>> = xnet[t]
  BY <1>2
<1>4. CASE MaySend(s) /\ xside[t].phase = "run"
  <2>1. xnet' = [xnet EXCEPT ![t] = @ \o ms]
    BY <1>1, <1>4 DEF Sends, Deliver
  <2>2. [xnet EXCEPT ![t] = @ \o ms] = [xnet EXCEPT ![s] = xnet[s], ![t] = @ \o ms]
    BY <1>1, <1>2
  <2> QED BY <1>1, <1>4, <2>1, <2>2 DEF Moves, Cut
<1>5. CASE ~(MaySend(s) /\ xside[t].phase = "run")
  <2>1. xnet' = xnet
    BY <1>1, <1>5 DEF Sends, Deliver
  <2>2. xnet = [xnet EXCEPT ![s] = xnet[s], ![t] = @ \o <<>>]
    BY <1>1, <1>2, <1>3
  <2> QED BY <1>1, <1>2, <1>5, <2>1, <2>2 DEF Moves, Cut
<1> QED BY <1>4, <1>5

LEMMA TakeMoves ==
  ASSUME XTypes, NEW s \in XSides, NEW ms \in Seq(XMsg), xnet[s] # <<>>, TakeAnd(s, ms)
  PROVE  \E app \in {ms, <<>>} : Moves(s, Tail(xnet[s]), app) /\ app \in Seq(XMsg) /\ Cut(Tail(xnet[s]), xnet[s])
<1>1. PICK t : t = Opposite(s) /\ t \in XSides /\ t # s
  BY SidesOpposite
<1>2. xnet[s] \in Seq(XMsg) /\ xnet[t] \in Seq(XMsg) /\ DOMAIN xnet = XSides /\ <<>> \in Seq(XMsg) /\ xnet = [x \in XSides |-> xnet[x]]
  BY <1>1 DEF XTypes
<1>3. xnet[t] \o <<>> = xnet[t]
  BY <1>2
<1>4. CASE MaySend(s) /\ xside[t].phase = "run"
  <2>1. xnet' = [[xnet EXCEPT ![s] = Tail(@)] EXCEPT ![t] = @ \o ms]
    BY <1>1, <1>4 DEF TakeAnd, Deliver
  <2>2. xnet' = [xnet EXCEPT ![s] = Tail(xnet[s]), ![t] = @ \o ms]
    BY <1>1, <1>2, <2>1
  <2> QED BY <1>1, <2>2 DEF Moves, Cut
<1>5. CASE ~(MaySend(s) /\ xside[t].phase = "run")
  <2>1. xnet' = [xnet EXCEPT ![s] = Tail(@)]
    BY <1>1, <1>5 DEF TakeAnd, Deliver
  <2>2. xnet' = [xnet EXCEPT ![s] = Tail(xnet[s]), ![t] = @ \o <<>>]
    BY <1>1, <1>2, <1>3, <2>1
  <2> QED BY <1>1, <1>2, <2>2 DEF Moves, Cut
<1> QED BY <1>4, <1>5

LEMMA LastMoves ==
  ASSUME XTypes, NEW s \in XSides, NEW ms \in Seq(XMsg), LastAnd(s, ms)
  PROVE  \E app \in {ms, <<>>} : Moves(s, <<>>, app) /\ app \in Seq(XMsg) /\ Cut(<<>>, xnet[s])
<1>1. PICK t : t = Opposite(s) /\ t \in XSides /\ t # s
  BY SidesOpposite
<1>2. xnet[s] \in Seq(XMsg) /\ xnet[t] \in Seq(XMsg) /\ DOMAIN xnet = XSides /\ <<>> \in Seq(XMsg) /\ xnet = [x \in XSides |-> xnet[x]]
  BY <1>1 DEF XTypes
<1>3. xnet[t] \o <<>> = xnet[t]
  BY <1>2
<1>4. CASE MaySend(s) /\ xside[t].phase = "run"
  <2>1. xnet' = [[xnet EXCEPT ![s] = <<>>] EXCEPT ![t] = @ \o ms]
    BY <1>1, <1>4 DEF LastAnd, Deliver
  <2>2. xnet' = [xnet EXCEPT ![s] = <<>>, ![t] = @ \o ms]
    BY <1>1, <1>2, <2>1
  <2> QED BY <1>1, <2>2 DEF Moves, Cut
<1>5. CASE ~(MaySend(s) /\ xside[t].phase = "run")
  <2>1. xnet' = [xnet EXCEPT ![s] = <<>>]
    BY <1>1, <1>5 DEF LastAnd, Deliver
  <2>2. xnet' = [xnet EXCEPT ![s] = <<>>, ![t] = @ \o <<>>]
    BY <1>1, <1>2, <1>3, <2>1
  <2> QED BY <1>1, <1>2, <2>2 DEF Moves, Cut
<1> QED BY <1>4, <1>5

-----------------------------------------------------------------------------
(* What a step leaves alone. *)

IdsKept ==
  \A o \in XObjects : (xline[o].id # 0 => xline'[o].id = xline[o].id) /\ (xline[o].thr # "none" => xline'[o].thr # "none")
Gentle(c) ==
  /\ xline[Asker(c)].pc = "wait" => xline'[Asker(c)].pc = "wait"
  /\ xline[Asked(c)].pc = "none" => xline'[Asked(c)].pc = "none"
  /\ xline[Asked(c)].pc \notin Undecided => xline'[Asked(c)].pc \notin Undecided

(* A message stays true of the lines while ids are kept and no undecided connection is disturbed. *)
LEMMA MessageKept ==
  ASSUME XInv, IdsKept, NEW s \in XSides, NEW m, MessageOk(s, m), m.op \in Deciding /\ m.conn \in 1..XConnects => Gentle(m.conn)
  PROVE  MessageOk(s, m)'
<1>1. ASSUME NEW c \in 1..XConnects
      PROVE  /\ xline[Asker(c)].pc = "wait" => xline'[Asker(c)].id = xline[Asker(c)].id
             /\ xline[Asked(c)].id # 0 => xline'[Asked(c)].id = xline[Asked(c)].id
  <2>1. Asker(c) \in XObjects /\ Asked(c) \in XObjects
    BY EndsOf
  <2>2. StageOf(Asker(c), xline[Asker(c)])
    BY <2>1 DEF XInv, LineStage
  <2>3. xline[Asker(c)].pc = "wait" => xline[Asker(c)].id # 0
    BY <2>2 DEF StageOf, Registered
  <2> QED BY <2>1, <2>3 DEF IdsKept
<1>2. ConnectOk(s, m)'
  <2> SUFFICES ASSUME m.op = "connect" PROVE ConnectOk(s, m)'
    BY DEF ConnectOk
  <2>1. /\ s = "B" /\ m.conn \in 1..XConnects /\ m.win = XWindow
        /\ xline[Asker(m.conn)].pc = "wait" /\ xline[Asker(m.conn)].id = m.from /\ xline[Asked(m.conn)].pc = "none"
    BY DEF MessageOk, ConnectOk
  <2>2. Gentle(m.conn)
    BY <2>1 DEF Deciding
  <2> QED BY <2>1, <2>2, <1>1 DEF ConnectOk, Gentle
<1>3. DecisionOk(s, m)'
  <2> SUFFICES ASSUME m.op \in {"established", "refused"} PROVE DecisionOk(s, m)'
    BY DEF DecisionOk
  <2>1. /\ s = "A" /\ m.conn \in 1..XConnects
        /\ xline[Asker(m.conn)].pc = "wait" /\ xline[Asker(m.conn)].id = m.to /\ xline[Asked(m.conn)].pc \notin Undecided
        /\ m.op = "established" => m.from = xline[Asked(m.conn)].id /\ m.from # 0 /\ m.win = XWindow
    BY DEF MessageOk, DecisionOk
  <2>2. Gentle(m.conn)
    BY <2>1 DEF Deciding
  <2> QED BY <2>1, <2>2, <1>1 DEF DecisionOk, Gentle
<1>4. \A c \in 1..XConnects : <<s, c>> \in XObjects /\ <<Opposite(s), c>> \in XObjects
  BY SidesOpposite DEF XObjects
<1>5. DataOk(s, m)'
  BY <1>4 DEF MessageOk, DataOk, IdsKept
<1>6. ReadOk(s, m)'
  <2> SUFFICES ASSUME m.op = "read"
               PROVE  \E c \in 1..XConnects : m.to = xline'[<<s, c>>].id /\ m.to # 0 /\ xline'[<<Opposite(s), c>>].thr # "none"
    BY DEF ReadOk
  <2>1. PICK c \in 1..XConnects : m.to = xline[<<s, c>>].id /\ m.to # 0 /\ xline[<<Opposite(s), c>>].thr # "none"
    BY DEF MessageOk, ReadOk
  <2> QED BY <2>1, <1>4 DEF IdsKept
<1> QED BY <1>2, <1>3, <1>5, <1>6 DEF MessageOk

LEMMA MessagesStep ==
  ASSUME XInv, IdsKept, NEW s \in XSides, NEW new, Cut(new, xnet[s]), NEW app \in Seq(XMsg), Moves(s, new, app),
         \A m \in Members(new) \cup Members(xnet[Opposite(s)]) : m.op \in Deciding /\ m.conn \in 1..XConnects => Gentle(m.conn),
         \A m \in Members(app) : MessageOk(Opposite(s), m)'
  PROVE  MessagesOk'
<1>1. XTypes /\ MessagesOk
  BY DEF XInv
<1>2. PICK t : t = Opposite(s) /\ t \in XSides /\ \A u \in XSides : u = s \/ u = t
  BY SidesOpposite DEF XSides
<1>3. xnet'[s] = new /\ Members(new) \subseteq Members(xnet[s]) /\ Members(xnet'[t]) = Members(xnet[t]) \cup Members(app)
  BY <1>1, <1>2, MoveNets
<1>4. ASSUME NEW m \in Members(xnet'[s]) PROVE MessageOk(s, m)'
  <2>1. MessageOk(s, m)
    BY <1>1, <1>3 DEF MessagesOk
  <2> QED BY <2>1, <1>3, MessageKept
<1>5. ASSUME NEW m \in Members(xnet'[t]) PROVE MessageOk(t, m)'
  <2>1. CASE m \in Members(app)
    BY <2>1, <1>2
  <2>2. CASE m \in Members(xnet[t])
    <3>1. MessageOk(t, m)
      BY <2>2, <1>1, <1>2 DEF MessagesOk
    <3> QED BY <3>1, <2>2, <1>2, MessageKept
  <2> QED BY <2>1, <2>2, <1>3
<1> QED BY <1>2, <1>4, <1>5 DEF MessagesOk

(* One decision per connection, when what is added decides another one. *)
LEMMA DecisionStep ==
  ASSUME XTypes, OneDecision, NEW s \in XSides, NEW new, Cut(new, xnet[s]), NEW app \in Seq(XMsg), Moves(s, new, app), Once(app),
         \A x \in Members(new) \cup Members(xnet[Opposite(s)]), y \in Members(app) :
           x.op \in Deciding /\ y.op \in Deciding => x.conn # y.conn
  PROVE  OneDecision'
<1>1. PICK t : t = Opposite(s) /\ t \in XSides /\ s # t
  BY SidesOpposite
<1>2. xnet'[s] = new /\ new \in Seq(XMsg) /\ Members(new) \subseteq Members(xnet[s])
  BY MoveNets
<1>3. xnet'[t] = xnet[t] \o app /\ Members(xnet'[t]) = Members(xnet[t]) \cup Members(app)
  BY <1>1, MoveNets
<1>4. xnet[s] \in Seq(XMsg) /\ xnet[t] \in Seq(XMsg)
  BY <1>1 DEF XTypes
<1>5. Once(xnet[s]) /\ Once(xnet[t])
  BY <1>1 DEF OneDecision, XSides
<1>6. Once(new)
  <2>1. CASE xnet[s] # <<>> /\ new = Tail(xnet[s])
    BY <2>1, <1>4, <1>5, OnceTail
  <2>2. CASE new = <<>>
    <3>1. Len(<<>>) = 0 /\ 1..0 = {}
      OBVIOUS
    <3> QED BY <2>2, <3>1 DEF Once
  <2> QED BY <2>1, <2>2, <1>5 DEF Cut
<1>7. Once(xnet[t] \o app)
  BY <1>1, <1>4, <1>5, OnceJoin
<1>8. \A x \in Members(xnet[s]), y \in Members(xnet[t]) : x.op \in Deciding /\ y.op \in Deciding => x.conn # y.conn
  BY <1>1 DEF OneDecision, XSides, Opposite
<1>9. \A x \in Members(xnet'[s]), y \in Members(xnet'[t]) : x.op \in Deciding /\ y.op \in Deciding => x.conn # y.conn
  BY <1>1, <1>2, <1>3, <1>8
<1>10. Once(xnet'[s]) /\ Once(xnet'[t])
  BY <1>2, <1>3, <1>6, <1>7
<1>11. (s = "A" /\ t = "B") \/ (s = "B" /\ t = "A")
  BY <1>1 DEF XSides, Opposite
<1> QED BY <1>9, <1>10, <1>11 DEF OneDecision

(* A step that brings no decision, and disturbs none. *)
LEMMA NoDecisionStep ==
  ASSUME XInv, IdsKept, NEW s \in XSides, NEW new, Cut(new, xnet[s]), NEW app \in Seq(XMsg), Moves(s, new, app),
         \A c \in 1..XConnects : Gentle(c),
         \A m \in Members(app) : m.op \notin Deciding /\ MessageOk(Opposite(s), m)'
  PROVE  MessagesOk' /\ OneDecision'
<1>1. XTypes /\ OneDecision
  BY DEF XInv
<1>2. Once(app)
  <2>1. \A k \in 1..Len(app) : app[k] \in Members(app)
    BY DEF Members
  <2> QED BY <2>1 DEF Once
<1>3. OneDecision'
  BY <1>1, <1>2, DecisionStep
<1>4. MessagesOk'
  BY MessagesStep
<1> QED BY <1>3, <1>4

(* The map, and the flags of a side, of a step that enters and removes no line. *)
LEMMA MapFrame ==
  ASSUME MapExact, FirstOfId, UNCHANGED <<xmap, xused>>,
         \A o \in XObjects : xline'[o].id = xline[o].id /\ xline'[o].again = xline[o].again /\ (InMap(o)' <=> InMap(o))
  PROVE  MapExact' /\ FirstOfId'
<1>1. MapExact'
  BY DEF MapExact
<1>2. FirstOfId'
  BY DEF FirstOfId
<1> QED BY <1>1, <1>2

LEMMA PhaseFrame ==
  ASSUME NEW s, SidePhase(s), UNCHANGED <<xmap, xempty>>, xside'[s].phase = xside[s].phase, xside'[s].nosend = xside[s].nosend,
         xside'[s].nonew = xside[s].nonew, xside'[s].missed = xside[s].missed,
         \A o \in XObjects : o[1] = s /\ xside[s].phase = "greet" => xline'[o].pc = xline[o].pc
  PROVE  SidePhase(s)'
BY DEF SidePhase

-----------------------------------------------------------------------------
(* Flow and window of a line that a step does not touch. *)

LineSame(o) ==
  InMap(o)' => /\ InMap(o) /\ xline'[o].id = xline[o].id /\ FlattenSeq(xline'[o].buf) = FlattenSeq(xline[o].buf)
               /\ xline'[o].got = xline[o].got /\ (xline'[o].thr # "out" => xline[o].thr # "out")
SenderSame(p) ==
  InMap(p)' /\ xside'[p[1]].phase = "run" =>
    /\ InMap(p) /\ xline'[p].id = xline[p].id
    /\ xline[p].unproc + xline[p].piece <= xline'[p].unproc + xline'[p].piece
NothingTo(m, o) == BytesFor(m, xline[o].id) = <<>> /\ AcksFor(m, xline[o].id) = <<>>
NothingLost(s, new, o) ==
  \/ new = xnet[s]
  \/ xnet[s] # <<>> /\ new = Tail(xnet[s]) /\ NothingTo(Head(xnet[s]), o)
  \/ new = <<>> /\ xside'[s].phase # "run"
Reaches(s, new, app, x) ==
  /\ x[1] = s => NothingLost(s, new, x)
  /\ x[1] # s => \A m \in Members(app) : NothingTo(m, x)
ReachesEnds(s, new, app, o) == InMap(o) /\ FreshIds(o) => \A x \in {o, OtherEnd(o)} : InMap(x) => Reaches(s, new, app, x)
StopsOnly == \A t \in XSides : xside'[t].phase = "run" => xside[t].phase = "run"
FreshKept(o) == FreshIds(o)' => FreshIds(o)
CarriedSame(o) ==
  \/ Carried(xnet'[o[1]], xline[o].id) = Carried(xnet[o[1]], xline[o].id)
  \/ Carried(xnet'[o[1]], xline[o].id) = <<>> /\ xside'[o[1]].phase # "run"
AckedSame(p) == Acked(xnet'[p[1]], xline[p].id) = Acked(xnet[p[1]], xline[p].id) \/ xside'[p[1]].phase # "run"

(* Then the line has as many bytes and acknowledgements on their way to it as before. *)
LEMMA ReachSame ==
  ASSUME XInv, NEW s \in XSides, NEW new, Cut(new, xnet[s]), NEW app \in Seq(XMsg), Moves(s, new, app),
         NEW x \in XObjects, Reaches(s, new, app, x)
  PROVE  CarriedSame(x) /\ AckedSame(x)
<1>1. XTypes /\ x[1] \in XSides
  BY Pairs DEF XInv
<1>2. xnet'[s] = new /\ xnet'[Opposite(s)] = xnet[Opposite(s)] \o app /\ new \in Seq(XMsg)
  BY <1>1, MoveNets
<1>3. SUFFICES \/ /\ Carried(xnet'[x[1]], xline[x].id) = Carried(xnet[x[1]], xline[x].id)
                  /\ Acked(xnet'[x[1]], xline[x].id) = Acked(xnet[x[1]], xline[x].id)
               \/ Carried(xnet'[x[1]], xline[x].id) = <<>> /\ xside'[x[1]].phase # "run"
  BY DEF CarriedSame, AckedSame
<1>4. CASE x[1] = s
  <2>1. CASE new = xnet[s]
    BY <2>1, <1>4, <1>2
  <2>2. CASE new = <<>> /\ xside'[s].phase # "run"
    BY <2>2, <1>4, <1>2, CarriedEmpty
  <2>3. CASE xnet[s] # <<>> /\ new = Tail(xnet[s]) /\ NothingTo(Head(xnet[s]), x)
    <3>1. xnet[s] \in Seq(XMsg)
      BY <1>1 DEF XTypes
    <3>2. PICK i : i = xline[x].id
      OBVIOUS
    <3>3. /\ Carried(xnet[s], i) = BytesFor(Head(xnet[s]), i) \o Carried(new, i)
          /\ Acked(xnet[s], i) = AcksFor(Head(xnet[s]), i) \o Acked(new, i)
      BY <3>1, <2>3, CarriedHead
    <3>4. BytesFor(Head(xnet[s]), i) = <<>> /\ AcksFor(Head(xnet[s]), i) = <<>>
      BY <2>3, <3>2 DEF NothingTo
    <3>5. Carried(new, i) \in Seq(XByte) /\ Acked(new, i) \in Seq({0})
      BY <1>2, CarriedTyped
    <3>6. Carried(xnet[s], i) = Carried(new, i) /\ Acked(xnet[s], i) = Acked(new, i)
      BY <3>3, <3>4, <3>5
    <3> QED BY <3>2, <3>6, <1>4, <1>2
  <2> QED BY <1>4, <2>1, <2>2, <2>3 DEF Reaches, NothingLost
<1>5. CASE x[1] # s
  <2>1. x[1] = Opposite(s) /\ xnet[x[1]] \in Seq(XMsg)
    BY <1>5, <1>1 DEF XSides, Opposite, XTypes
  <2>2. PICK i : i = xline[x].id
    OBVIOUS
  <2>3. Carried(app, i) = <<>> /\ Acked(app, i) = <<>>
    BY <1>5, <2>2, CarriedNone DEF NothingTo, Reaches
  <2>4. /\ Carried(xnet'[x[1]], i) = Carried(xnet[x[1]], i) \o <<>>
        /\ Acked(xnet'[x[1]], i) = Acked(xnet[x[1]], i) \o <<>>
    <3>1. PICK w \in Seq(XMsg) : w = xnet[x[1]]
      BY <2>1
    <3>2. xnet'[x[1]] = w \o app
      BY <2>1, <3>1, <1>2
    <3>3. Carried(w \o app, i) = Carried(w, i) \o Carried(app, i) /\ Acked(w \o app, i) = Acked(w, i) \o Acked(app, i)
      BY CarriedJoin
    <3> QED BY <3>1, <3>2, <3>3, <2>3, Zenon
  <2>5. Carried(xnet[x[1]], i) \in Seq(XByte) /\ Acked(xnet[x[1]], i) \in Seq({0})
    BY <2>1, CarriedTyped
  <2> QED BY <2>2, <2>4, <2>5
<1> QED BY <1>4, <1>5

(* What a connection carries to a line, and what the line has, are sequences. *)
LEMMA CarriedLine ==
  ASSUME XTypes, NEW o \in XObjects
  PROVE  /\ Carried(xnet[o[1]], xline[o].id) \in Seq(XByte) /\ Acked(xnet[o[1]], xline[o].id) \in Seq({0})
         /\ FlattenSeq(xline[o].buf) \in Seq(XByte) /\ xline[o].got \in Seq(XByte) /\ xnet[o[1]] \in Seq(XMsg)
         /\ Outstanding(o) \in Nat /\ Acks(o) \in Nat
<1>1. xnet[o[1]] \in Seq(XMsg)
  BY Pairs DEF XTypes
<1>2. /\ Carried(xnet[o[1]], xline[o].id) \in Seq(XByte) /\ Acked(xnet[o[1]], xline[o].id) \in Seq({0})
      /\ FlattenSeq(xline[o].buf) \in Seq(XByte) /\ xline[o].got \in Seq(XByte)
  BY <1>1, CarriedTyped, LineTyped
<1> QED BY <1>1, <1>2 DEF Outstanding, Acks

(* The flow to a line, and its window, when the line and what is on its way are as before. *)
LEMMA FlowBy ==
  ASSUME XInv, XTypes', NEW o \in XObjects, LineSame(o), FreshKept(o), StopsOnly,
         xline[OtherEnd(o)].given = xline'[OtherEnd(o)].given, InMap(o) /\ FreshIds(o) => CarriedSame(o)
  PROVE  Flow(o)'
<1>1. SUFFICES ASSUME InMap(o)', FreshIds(o)', xline'[o].thr # "out" PROVE Flow(o)'
  BY DEF Flow
<1>2. PICK p : p = OtherEnd(o) /\ p \in XObjects /\ o[1] \in XSides
  BY Pairs
<1>3. /\ InMap(o) /\ xline'[o].id = xline[o].id /\ FlattenSeq(xline'[o].buf) = FlattenSeq(xline[o].buf) /\ FreshIds(o)
      /\ xline'[o].got = xline[o].got /\ xline[o].thr # "out" /\ CarriedSame(o)
  BY <1>1 DEF LineSame, FreshKept
<1>5. XTypes /\ Flow(o) /\ xline[p].given \in Nat
  BY <1>2, LineTyped DEF XInv
<1>8. PICK c, c2, f, g : /\ c = Carried(xnet[o[1]], xline[o].id) /\ c2 = Carried(xnet'[o[1]], xline[o].id)
                         /\ f = FlattenSeq(xline[o].buf) /\ g = xline[o].got
  OBVIOUS
<1>9. c2 = c \/ (c2 = <<>> /\ xside'[o[1]].phase # "run")
  BY <1>3, <1>8 DEF CarriedSame
<1>10. c \in Seq(XByte) /\ f \in Seq(XByte) /\ g \in Seq(XByte)
  BY <1>5, <1>8, CarriedLine
<1> SUFFICES FlowOk(p, g \o (f \o c2), xline[p].given, xside'[o[1]].phase = "run")
  BY <1>2, <1>3, <1>8 DEF Flow
<1>11. FlowOk(p, g \o (f \o c), xline[p].given, xside[o[1]].phase = "run")
  BY <1>2, <1>3, <1>5, <1>8 DEF Flow
<1>12. CASE c2 = c
  BY <1>11, <1>12, <1>2 DEF FlowOk, StopsOnly
<1>13. CASE c2 = <<>> /\ xside'[o[1]].phase # "run"
  <2>1. PICK u, v : u = g \o (f \o c) /\ v = g \o (f \o c2)
    OBVIOUS
  <2>2. Len(v) <= Len(u) /\ Len(v) \in Nat /\ Len(u) \in Nat /\ \A k \in 1..Len(v) : v[k] = u[k]
    <3>1. v = g \o f
      BY <1>13, <2>1, <1>10
    <3>2. v \in Seq(XByte)
      BY <3>1, <1>10
    <3>3. u = v \o c
      <4>1. g \o (f \o c) = (g \o f) \o c
        BY <1>10, SeqAssoc
      <4> QED BY <3>1, <2>1, <4>1, Zenon
    <3> QED BY <3>2, <3>3, <1>10
  <2>4. Len(u) <= xline[p].given /\ \A k \in 1..Len(u) : u[k] = <<p, k>>
    BY <1>11, <2>1 DEF FlowOk
  <2>5. Len(v) <= xline[p].given /\ \A k \in 1..Len(v) : v[k] = <<p, k>>
    BY <2>2, <1>5, <2>4
  <2> QED BY <1>13, <2>1, <2>5 DEF FlowOk
<1> QED BY <1>9, <1>12, <1>13

LEMMA WindowBy ==
  ASSUME XInv, XTypes', NEW o \in XObjects, LineSame(o), FreshKept(o), StopsOnly, SenderSame(OtherEnd(o)),
         InMap(o) /\ FreshIds(o) => CarriedSame(o), InMap(o) /\ FreshIds(o) /\ InMap(OtherEnd(o)) => AckedSame(OtherEnd(o))
  PROVE  Window(o)'
<1>1. SUFFICES ASSUME InMap(o)', FreshIds(o)' PROVE Window(o)'
  BY DEF Window
<1>2. PICK p : p = OtherEnd(o) /\ p \in XObjects /\ p[1] \in XSides
  BY Pairs
<1>3. /\ InMap(o) /\ xline'[o].id = xline[o].id /\ FlattenSeq(xline'[o].buf) = FlattenSeq(xline[o].buf) /\ FreshIds(o)
      /\ CarriedSame(o)
  BY <1>1 DEF LineSame, FreshKept
<1>4. XTypes /\ Window(o)
  BY DEF XInv
<1>5. PICK c, c2, f : /\ c = Carried(xnet[o[1]], xline[o].id) /\ c2 = Carried(xnet'[o[1]], xline[o].id)
                      /\ f = FlattenSeq(xline[o].buf)
  OBVIOUS
<1>6. c2 = c \/ c2 = <<>>
  BY <1>3, <1>5 DEF CarriedSame
<1>7. c \in Seq(XByte) /\ f \in Seq(XByte)
  BY <1>4, <1>5, CarriedLine
<1>8. Len(c2) <= Len(c) /\ Len(c) \in Nat /\ Len(c2) \in Nat /\ Len(f) \in Nat
  BY <1>6, <1>7
<1>9. Outstanding(o) = Len(c) + Len(f) /\ Outstanding(o)' = Len(c2) + Len(f)
  BY <1>3, <1>5 DEF Outstanding
<1>10. Outstanding(o) <= XWindow /\ XWindow \in Nat
  BY <1>3, <1>4, XSizes DEF Window
<1>11. ASSUME InMap(p)', xside'[p[1]].phase = "run"
       PROVE  Outstanding(o)' + Acks(p)' <= xline'[p].unproc + xline'[p].piece
  <2>1. InMap(p) /\ xline'[p].id = xline[p].id /\ xline[p].unproc + xline[p].piece <= xline'[p].unproc + xline'[p].piece
    BY <1>11, <1>2 DEF SenderSame
  <2>2. xside[p[1]].phase = "run"
    BY <1>11, <1>2 DEF StopsOnly
  <2>3. Outstanding(o) + Acks(p) <= xline[p].unproc + xline[p].piece
    BY <2>1, <2>2, <1>2, <1>3, <1>4 DEF Window
  <2>4. Acks(p)' = Acks(p) /\ Acks(p) \in Nat
    BY <2>1, <1>2, <1>3, <1>4, <1>11, CarriedLine DEF Acks, AckedSame
  <2>5. /\ xline[p].unproc \in Nat /\ xline[p].piece \in Nat /\ xline'[p].unproc \in Nat /\ xline'[p].piece \in Nat
    BY <1>2, <1>4, LineTyped DEF XTypes, XLine
  <2>6. PICK k \in Nat : k = Acks(p) /\ k = Acks(p)'
    BY <2>4
  <2>7. Len(c) + Len(f) + k <= xline[p].unproc + xline[p].piece
    BY <1>9, <2>3, <2>6, Zenon
  <2>8. Len(c2) + Len(f) + k <= xline'[p].unproc + xline'[p].piece
    <3>1. ASSUME NEW a \in Nat, NEW b \in Nat, NEW d \in Nat, NEW h \in Nat, NEW u \in Nat, NEW v \in Nat,
                 a <= b, b + d + h <= u, u <= v
          PROVE  a + d + h <= v
      BY <3>1
    <3>2. xline[p].unproc + xline[p].piece \in Nat /\ xline'[p].unproc + xline'[p].piece \in Nat
      BY <2>5
    <3> QED BY <3>1, <3>2, <1>8, <2>1, <2>7
  <2> QED BY <1>9, <2>6, <2>8, Zenon
<1>12. Outstanding(o)' <= XWindow
  BY <1>8, <1>9, <1>10
<1> QED BY <1>11, <1>12, <1>2 DEF Window

(* Both, from what the step takes and adds. *)
LEMMA FlowKeptAt ==
  ASSUME XInv, XTypes', NEW s \in XSides, NEW new, Cut(new, xnet[s]), NEW app \in Seq(XMsg), Moves(s, new, app),
         NEW o \in XObjects, LineSame(o), SenderSame(OtherEnd(o)), xline[OtherEnd(o)].given = xline'[OtherEnd(o)].given,
         FreshKept(o), StopsOnly, ReachesEnds(s, new, app, o)
  PROVE  Flow(o)' /\ Window(o)'
<1>1. OtherEnd(o) \in XObjects
  BY Pairs
<1>2. ASSUME InMap(o), FreshIds(o), NEW x \in {o, OtherEnd(o)}, InMap(x) PROVE CarriedSame(x) /\ AckedSame(x)
  <2>1. Reaches(s, new, app, x) /\ x \in XObjects
    BY <1>1, <1>2 DEF ReachesEnds
  <2> QED BY <2>1, ReachSame
<1>3. InMap(o) /\ FreshIds(o) => CarriedSame(o)
  BY <1>2
<1>4. InMap(o) /\ FreshIds(o) /\ InMap(OtherEnd(o)) => AckedSame(OtherEnd(o))
  BY <1>2
<1> QED BY <1>3, <1>4, FlowBy, WindowBy

(* What a line has written stays what the other end read. *)
LEMMA GotKept ==
  ASSUME XInv, XTypes', NEW o \in XObjects, xline'[o].got = xline[o].got, xline[OtherEnd(o)].given <= xline'[OtherEnd(o)].given,
         FreshKept(o)
  PROVE  GotInOrder(o)'
<1>1. PICK p : p = OtherEnd(o) /\ p \in XObjects
  BY Pairs
<1>2. xline[p].given \in Nat /\ xline[o].got \in Seq(XByte) /\ xline'[p].given \in Nat
  BY <1>1, LineTyped DEF XInv, XTypes, XLine
<1>3. FreshIds(o) => Len(xline[o].got) <= xline[p].given /\ \A k \in 1..Len(xline[o].got) : xline[o].got[k] = <<p, k>>
  BY <1>1 DEF XInv, GotInOrder
<1>4. Len(xline[o].got) \in Nat
  BY <1>2
<1>5. FreshIds(o)' => Len(xline'[o].got) <= xline'[p].given /\ \A k \in 1..Len(xline'[o].got) : xline'[o].got[k] = <<p, k>>
  BY <1>1, <1>2, <1>3, <1>4 DEF FreshKept
<1> QED BY <1>1, <1>5 DEF GotInOrder

-----------------------------------------------------------------------------
(* A message that carries nothing to any line. *)
Silent(m) == m.op # "read" /\ (m.op = "data" => m.bytes = <<>>)

LEMMA SilentNothing ==
  ASSUME NEW m, Silent(m) PROVE \A o : NothingTo(m, o)
BY DEF Silent, NothingTo, BytesFor, AcksFor

(* A step that changes no flag of a side. *)
SidesKept ==
  /\ xside' \in [XSides -> XSideState]
  /\ \A t \in XSides : /\ xside'[t].phase = xside[t].phase /\ xside'[t].nosend = xside[t].nosend
                       /\ xside'[t].nonew = xside[t].nonew /\ xside'[t].missed = xside[t].missed

(* A step that changes one registered line, or one that is about to be. *)
LineKeeps(q, l) ==
  /\ l.id = xline[q].id /\ l.again = xline[q].again /\ l.ufin = xline[q].ufin
  /\ (l.pc \in Registered <=> xline[q].pc \in Registered) /\ StageOf(q, l) /\ xside[q[1]].phase # "greet"

LEMMA OneLine ==
  ASSUME XInv, NEW q \in XObjects, NEW l \in XLine, Change(q, l), UNCHANGED <<xup, xmap, xempty, xused>>, SidesKept,
         xnet' \in [XSides -> Seq(XMsg)], LineKeeps(q, l)
  PROVE  /\ XTypes' /\ MapExact' /\ FirstOfId' /\ (\A s \in XSides : SidePhase(s)') /\ (\A o \in XObjects : LineStage(o)')
         /\ xline'[q] = l /\ \A o \in XObjects : o # q => xline'[o] = xline[o]
<1>1. XTypes /\ MapExact /\ FirstOfId
  BY DEF XInv
<1>2. xline' \in [XObjects -> XLine] /\ xline'[q] = l /\ \A o \in XObjects : o # q => xline'[o] = xline[o]
  BY <1>1, LineStep DEF Change
<1>3. XTypes'
  BY <1>1, <1>2 DEF XTypes, SidesKept
<1>4. \A o \in XObjects : xline'[o].id = xline[o].id /\ xline'[o].again = xline[o].again /\ (InMap(o)' <=> InMap(o))
  BY <1>2 DEF LineKeeps, InMap
<1>5. MapExact' /\ FirstOfId'
  BY <1>1, <1>4, MapFrame
<1>6. ASSUME NEW s \in XSides PROVE SidePhase(s)'
  <2>1. SidePhase(s)
    BY DEF XInv
  <2>2. \A o \in XObjects : o[1] = s /\ xside[s].phase = "greet" => xline'[o].pc = xline[o].pc
    BY <1>2 DEF LineKeeps
  <2> QED BY <2>1, <2>2, PhaseFrame DEF SidesKept
<1>7. ASSUME NEW o \in XObjects PROVE LineStage(o)'
  <2>1. LineStage(o) /\ o[1] \in XSides
    BY Pairs DEF XInv
  <2>2. StageOf(o, xline'[o]) /\ xline'[o].ufin = xline[o].ufin
    BY <2>1, <1>2 DEF LineKeeps, LineStage
  <2> QED BY <2>1, <2>2 DEF LineStage, SidesKept
<1> QED BY <1>2, <1>3, <1>5, <1>6, <1>7

(* A change of a line that its other end does not notice. *)
CalmPartner(q, l) ==
  /\ l.remote = xline[q].remote /\ l.rwin = xline[q].rwin /\ xline[q].pc # "none" /\ l.pc # "none"
  /\ l.thr # "none" \/ l.pc = "callback" => xline[q].thr # "none" \/ xline[q].pc = "callback"
  /\ l.pc \in Undecided => xline[q].pc \in Undecided
  /\ q[1] = "A" /\ xline[q].pc = "wait" => l.pc = "wait"
  /\ xline[q].thr # "none" => l.thr # "none"

LEMMA OtherPartners ==
  ASSUME NEW q \in XObjects, \A o \in XObjects : o # q => xline'[o] = xline[o],
         NEW c \in 1..XConnects, Partners(c), c # q[2]
  PROVE  Partners(c)' /\ Gentle(c)
<1>1. Asker(c) \in XObjects /\ Asked(c) \in XObjects /\ Asker(c) # q /\ Asked(c) # q
  BY EndsOf
<1>2. xline'[Asker(c)] = xline[Asker(c)] /\ xline'[Asked(c)] = xline[Asked(c)]
  BY <1>1
<1> QED BY <1>2 DEF Partners, Gentle

LEMMA CalmLine ==
  ASSUME XInv, NEW q \in XObjects, NEW l, xline'[q] = l, \A o \in XObjects : o # q => xline'[o] = xline[o],
         l.id = xline[q].id, CalmPartner(q, l)
  PROVE  (\A c \in 1..XConnects : Partners(c)' /\ Gentle(c)) /\ IdsKept
<1>1. IdsKept
  BY DEF IdsKept, CalmPartner
<1>2. q[1] \in {"A", "B"} /\ q[2] \in 1..XConnects /\ q = <<q[1], q[2]>>
  BY Pairs DEF XSides
<1>3. PICK c \in 1..XConnects : c = q[2]
  BY <1>2
<1>4. Partners(c)
  BY DEF XInv
<1>5. Partners(c)' /\ Gentle(c)
  <2>0. Asker(c) \in XObjects /\ Asked(c) \in XObjects /\ Asker(c) # Asked(c)
    BY EndsOf
  <2>1. CASE q[1] = "A"
    <3>1. q = Asker(c)
      BY <2>1, <1>2, <1>3 DEF Asker
    <3>2. xline'[Asker(c)] = l /\ xline'[Asked(c)] = xline[Asked(c)]
      BY <3>1, <2>0
    <3> QED BY <3>1, <3>2, <2>1, <1>4 DEF Partners, Gentle, CalmPartner
  <2>2. CASE q[1] = "B"
    <3>1. q = Asked(c)
      BY <2>2, <1>2, <1>3 DEF Asked
    <3>2. xline'[Asked(c)] = l /\ xline'[Asker(c)] = xline[Asker(c)]
      BY <3>1, <2>0
    <3> QED BY <3>1, <3>2, <2>2, <1>4 DEF Partners, Gentle, CalmPartner
  <2> QED BY <2>1, <2>2, <1>2
<1>6. ASSUME NEW d \in 1..XConnects, d # c PROVE Partners(d)' /\ Gentle(d)
  <2>1. Partners(d)
    BY DEF XInv
  <2> QED BY <2>1, <1>3, <1>6, OtherPartners
<1> QED BY <1>1, <1>5, <1>6

-----------------------------------------------------------------------------
(* What reaches a registered line, and what does not. *)
LEMMA Addressed ==
  ASSUME XInv, NEW q \in XObjects, NEW x \in XObjects, x[1] = Opposite(q[1]), InMap(x), ~xline[x].again,
         xline[x].id = xline[q].remote
  PROVE  x = OtherEnd(q)
<1>1. PICK p : p = OtherEnd(q) /\ p \in XObjects /\ p[1] = x[1] /\ q[1] \in {"A", "B"} /\ q[2] \in 1..XConnects /\ q = <<q[1], q[2]>>
  BY Pairs DEF XSides
<1>2. PICK c \in 1..XConnects : c = q[2]
  BY <1>1
<1>3. xline[x].id # 0
  BY DEF XInv, LineStage, StageOf, InMap
<1>4. Partners(c) /\ StageOf(q, xline[q])
  BY DEF XInv, LineStage
<1>5. xline[q].remote = xline[p].id
  <2>1. CASE q[1] = "A"
    <3>1. q = Asker(c) /\ p = Asked(c)
      BY <2>1, <1>1, <1>2, EndsOf DEF Asker
    <3> QED BY <3>1, <1>3, <1>4 DEF Partners
  <2>2. CASE q[1] = "B"
    <3>1. q = Asked(c) /\ p = Asker(c)
      BY <2>2, <1>1, <1>2, EndsOf DEF Asked
    <3>2. xline[q].pc # "none"
      BY <1>3, <1>4 DEF StageOf
    <3> QED BY <3>1, <3>2, <1>4 DEF Partners
  <2> QED BY <2>1, <2>2, <1>1
<1>6. FirstOfId
  BY DEF XInv
<1> QED BY <1>1, <1>5, <1>6 DEF FirstOfId

(* A registered line is found under its id, and only registered lines are found. *)
LEMMA InMapKnown ==
  ASSUME XInv, NEW x \in XObjects, InMap(x)
  PROVE  KnownLine(x[1], xline[x].id) /\ xmap[x[1]][xline[x].id] = x /\ xline[x].id # 0
BY DEF XInv, MapExact, KnownLine, LineStage, StageOf, InMap

LEMMA KnownInMap ==
  ASSUME XInv, NEW s \in XSides, NEW i, KnownLine(s, i)
  PROVE  xmap[s][i] \in XObjects /\ xmap[s][i][1] = s /\ xline[xmap[s][i]].id = i /\ InMap(xmap[s][i])
BY DEF XInv, MapExact, KnownLine

(* A message to an id that is not in the map carries nothing to a registered line. *)
LEMMA UnknownNothing ==
  ASSUME XInv, NEW x \in XObjects, InMap(x), NEW m, ~KnownLine(x[1], m.to)
  PROVE  NothingTo(m, x)
<1>1. KnownLine(x[1], xline[x].id)
  BY InMapKnown
<1>2. m.to # xline[x].id
  BY <1>1
<1> QED BY <1>2 DEF NothingTo, BytesFor, AcksFor

-----------------------------------------------------------------------------
(* A step that changes no line. *)
LEMMA NetOnly ==
  ASSUME XInv, UNCHANGED <<xmap, xempty, xused, xline>>, xup' \in BOOLEAN, xside' \in [XSides -> XSideState],
         \A t \in XSides : SidePhase(t)', StopsOnly,
         NEW s \in XSides, NEW new, Cut(new, xnet[s]), NEW app \in Seq(XMsg), Moves(s, new, app),
         \A x \in XObjects : InMap(x) => Reaches(s, new, app, x), MessagesOk', OneDecision'
  PROVE  XInv'
<1>1. XTypes
  BY DEF XInv
<1>2. xnet' \in [XSides -> Seq(XMsg)]
  BY <1>1, MoveNets
<1>3. XTypes'
  BY <1>1, <1>2 DEF XTypes
<1>4. MapExact' /\ FirstOfId'
  BY DEF XInv, MapExact, FirstOfId, InMap
<1>5. ASSUME NEW o \in XObjects PROVE LineStage(o)'
  <2>1. o[1] \in XSides /\ LineStage(o)
    BY Pairs DEF XInv
  <2> QED BY <2>1 DEF LineStage, StopsOnly
<1>6. ASSUME NEW c \in 1..XConnects PROVE Partners(c)'
  BY DEF XInv, Partners
<1>7. ASSUME NEW o \in XObjects PROVE Flow(o)' /\ Window(o)' /\ GotInOrder(o)'
  <2>1. OtherEnd(o) \in XObjects
    BY Pairs
  <2>2. /\ xline'[o] = xline[o] /\ xline'[OtherEnd(o)] = xline[OtherEnd(o)] /\ (FreshIds(o)' <=> FreshIds(o))
        /\ (InMap(o)' <=> InMap(o)) /\ (InMap(OtherEnd(o))' <=> InMap(OtherEnd(o)))
    BY DEF FreshIds, InMap
  <2>3. LineSame(o)
    BY <2>2 DEF LineSame
  <2>3a. /\ xline[OtherEnd(o)].unproc \in Nat /\ xline[OtherEnd(o)].piece \in Nat /\ xline[OtherEnd(o)].given \in Nat
    BY <1>1, <2>1, LineTyped
  <2>4. /\ SenderSame(OtherEnd(o)) /\ xline[OtherEnd(o)].given <= xline'[OtherEnd(o)].given
        /\ xline[OtherEnd(o)].given = xline'[OtherEnd(o)].given
    BY <2>2, <2>3a DEF SenderSame
  <2>5. ReachesEnds(s, new, app, o) /\ FreshKept(o)
    BY <2>1, <2>2 DEF ReachesEnds, FreshKept
  <2>6. Flow(o)' /\ Window(o)'
    BY <2>3, <2>4, <2>5, <1>3, FlowKeptAt
  <2>7. GotInOrder(o)'
    BY <2>2, <2>4, <2>5, <1>3, GotKept
  <2> QED BY <2>6, <2>7
<1> QED BY <1>3, <1>4, <1>5, <1>6, <1>7 DEF XInv

-----------------------------------------------------------------------------
(* The messages. *)
LEMMA AnswerMade ==
  ASSUME NEW to \in XIdOr0, NEW from \in XIdOr0, NEW op \in XOps, NEW win \in Nat, NEW c \in 0..XConnects, NEW a,
         a = Answer(to, from, op, win, c)
  PROVE  a \in XMsg /\ a.op = op /\ a.to = to /\ a.from = from /\ a.win = win /\ a.conn = c /\ a.bytes = <<>>
<1>1. <<>> \in Seq(XByte)
  OBVIOUS
<1> QED BY <1>1 DEF Answer, XMsg

LEMMA AnswerTyped ==
  ASSUME NEW to \in XIdOr0, NEW from \in XIdOr0, NEW op \in XOps, NEW win \in Nat, NEW c \in 0..XConnects
  PROVE  /\ Answer(to, from, op, win, c) \in XMsg /\ Answer(to, from, op, win, c).op = op /\ Answer(to, from, op, win, c).to = to
         /\ Answer(to, from, op, win, c).from = from /\ Answer(to, from, op, win, c).win = win
         /\ Answer(to, from, op, win, c).conn = c /\ Answer(to, from, op, win, c).bytes = <<>>
<1>1. <<>> \in Seq(XByte)
  OBVIOUS
<1> QED BY <1>1 DEF Answer, XMsg

LEMMA LineDataTyped ==
  ASSUME NEW l, l.remote \in XIdOr0, l.id \in XIdOr0, NEW b \in Seq(XByte)
  PROVE  LineData(l, b) \in XMsg /\ LineData(l, b).op = "data" /\ LineData(l, b).to = l.remote /\ LineData(l, b).bytes = b
<1>1. 0 \in 0..XConnects /\ 0 \in Nat
  BY XSizes
<1> QED BY <1>1 DEF LineData, XMsg, XOps, Deciding

LEMMA ReadenTyped ==
  ASSUME NEW l, l.remote \in XIdOr0, l.id \in XIdOr0, NEW n \in Nat
  PROVE  ReadenBytes(l, n) \in XMsg /\ ReadenBytes(l, n).op = "read" /\ ReadenBytes(l, n).to = l.remote /\ ReadenBytes(l, n).win = n
<1>1. 0 \in 0..XConnects /\ <<>> \in Seq(XByte)
  BY XSizes
<1> QED BY <1>1 DEF ReadenBytes, XMsg, XOps, Deciding

(* A message that decides nothing and carries nothing. *)
Harmless(m) == m.op \notin Deciding /\ Silent(m)

(* Such a message is about no line: the signals, a termination. *)
LEMMA HarmlessOk ==
  ASSUME NEW m, Harmless(m) PROVE \A s : MessageOk(s, m)'
BY DEF Harmless, Silent, MessageOk, ConnectOk, DecisionOk, DataOk, ReadOk, Deciding

LEMMA SignalHarmless ==
  ASSUME NEW op \in {"close", "ack1", "ack2", "threaded"}, NEW to \in XIdOr0
  PROVE  Answer(to, 0, op, 0, 0) \in XMsg /\ Harmless(Answer(to, 0, op, 0, 0)) /\ Signal(op) \in XMsg /\ Harmless(Signal(op))
<1>1. 0 \in 0..XConnects /\ 0 \in XIdOr0 /\ 0 \in Nat /\ op \in XOps
  BY XSizes DEF XIdOr0, XOps
<1>2. Answer(to, 0, op, 0, 0) \in XMsg /\ Answer(to, 0, op, 0, 0).op = op
  BY <1>1, AnswerTyped
<1>3. Signal(op) \in XMsg /\ Signal(op).op = op
  BY <1>1, AnswerTyped DEF Signal
<1> QED BY <1>2, <1>3 DEF Harmless, Silent, Deciding

LEMMA TerminationHarmless ==
  ASSUME NEW m \in XMsg PROVE Termination(m) \in XMsg /\ Harmless(Termination(m))
<1>1. PICK l : l = [remote |-> m.from, id |-> m.to]
  OBVIOUS
<1>2. l.remote \in XIdOr0 /\ l.id \in XIdOr0 /\ <<>> \in Seq(XByte)
  BY <1>1 DEF XMsg
<1>3. LineData(l, <<>>) \in XMsg /\ LineData(l, <<>>).op = "data" /\ LineData(l, <<>>).bytes = <<>>
  BY <1>2, LineDataTyped
<1>4. Termination(m) = LineData(l, <<>>)
  BY <1>1 DEF Termination
<1> QED BY <1>3, <1>4 DEF Harmless, Silent, Deciding

(* What is delivered, and what is not. *)
LEMMA DeliverMoves ==
  ASSUME XTypes, NEW s \in XSides, NEW ms \in Seq(XMsg), xnet' = Deliver(xnet, s, ms)
  PROVE  \E app \in {ms, <<>>} : Moves(s, xnet[s], app) /\ app \in Seq(XMsg) /\ Cut(xnet[s], xnet[s])
<1>1. PICK t : t = Opposite(s) /\ t \in XSides /\ t # s
  BY SidesOpposite
<1>2. xnet[s] \in Seq(XMsg) /\ xnet[t] \in Seq(XMsg) /\ DOMAIN xnet = XSides /\ <<>> \in Seq(XMsg) /\ xnet = [x \in XSides |-> xnet[x]]
  BY <1>1 DEF XTypes
<1>3. xnet[t] \o <<>> = xnet[t]
  BY <1>2
<1>4. CASE xside[t].phase = "run"
  <2>1. xnet' = [xnet EXCEPT ![t] = @ \o ms]
    BY <1>1, <1>4 DEF Deliver
  <2>2. [xnet EXCEPT ![t] = @ \o ms] = [xnet EXCEPT ![s] = xnet[s], ![t] = @ \o ms]
    BY <1>1, <1>2
  <2> QED BY <1>1, <2>1, <2>2 DEF Moves, Cut
<1>5. CASE xside[t].phase # "run"
  <2>1. xnet' = xnet
    BY <1>1, <1>5 DEF Deliver
  <2>2. xnet = [xnet EXCEPT ![s] = xnet[s], ![t] = @ \o <<>>]
    BY <1>1, <1>2, <1>3
  <2> QED BY <1>1, <1>2, <2>1, <2>2 DEF Moves, Cut
<1> QED BY <1>4, <1>5

LEMMA StillMoves ==
  ASSUME XTypes, NEW s \in XSides, UNCHANGED xnet
  PROVE  Moves(s, xnet[s], <<>>) /\ <<>> \in Seq(XMsg) /\ Cut(xnet[s], xnet[s])
<1>1. PICK t : t = Opposite(s) /\ t \in XSides /\ t # s
  BY SidesOpposite
<1>2. xnet[t] \in Seq(XMsg) /\ DOMAIN xnet = XSides /\ <<>> \in Seq(XMsg) /\ xnet = [x \in XSides |-> xnet[x]]
  BY <1>1 DEF XTypes
<1>3. xnet[t] \o <<>> = xnet[t]
  BY <1>2
<1>4. xnet = [xnet EXCEPT ![s] = xnet[s], ![t] = @ \o <<>>]
  BY <1>1, <1>2, <1>3
<1> QED BY <1>1, <1>2, <1>4 DEF Moves, Cut

-----------------------------------------------------------------------------
(* Steps that change no line and add messages that carry nothing. *)
SidesMove == xside' \in [XSides -> XSideState] /\ StopsOnly /\ \A t \in XSides : SidePhase(t)'
HarmlessApp(app) == \A m \in Members(app) : Harmless(m)

(* They keep the invariant. *)
LEMMA HarmlessNet ==
  ASSUME XInv, UNCHANGED <<xmap, xempty, xused, xline>>, xup' \in BOOLEAN, SidesMove,
         NEW s \in XSides, NEW new, Cut(new, xnet[s]), NEW app \in Seq(XMsg), Moves(s, new, app), HarmlessApp(app),
         \A x \in XObjects : InMap(x) /\ x[1] = s => NothingLost(s, new, x)
  PROVE  XInv'
<1>1. IdsKept /\ \A c \in 1..XConnects : Gentle(c)
  BY DEF IdsKept, Gentle
<1>2. \A m \in Members(app) : m.op \notin Deciding /\ MessageOk(Opposite(s), m)'
  BY HarmlessOk DEF HarmlessApp, Harmless
<1>3. MessagesOk' /\ OneDecision'
  BY <1>1, <1>2, NoDecisionStep
<1>4. \A x \in XObjects : InMap(x) => Reaches(s, new, app, x)
  BY SilentNothing DEF Reaches, HarmlessApp, Harmless
<1> QED BY <1>3, <1>4, NetOnly DEF SidesMove

LEMMA SidesStay ==
  ASSUME XInv, UNCHANGED <<xmap, xempty, xline>>, SidesKept PROVE SidesMove
<1>1. ASSUME NEW t \in XSides PROVE SidePhase(t)'
  <2>1. SidePhase(t)
    BY DEF XInv
  <2> QED BY <2>1, PhaseFrame DEF SidesKept
<1> QED BY <1>1 DEF SidesKept, SidesMove, StopsOnly

LEMMA SidesSame == ASSUME XTypes, UNCHANGED xside PROVE SidesKept
BY DEF XTypes, SidesKept

(* The reader's loop ends. *)
LEMMA EndedMove ==
  ASSUME XInv, UNCHANGED <<xmap, xempty, xline>>, NEW s \in XSides, xside[s].phase = "run", Ended(s)
  PROVE  SidesMove /\ xside'[s].phase = "ended"
<1>1. xside \in [XSides -> XSideState]
  BY DEF XInv, XTypes
<1>2. PICK v : v = [xside[s] EXCEPT !.phase = "ended", !.nosend = TRUE]
  OBVIOUS
<1>3. v \in XSideState /\ v.phase = "ended" /\ v.nosend = TRUE /\ v.nonew = xside[s].nonew /\ v.missed = xside[s].missed
  BY <1>1, <1>2 DEF XSideState
<1>4. xside' = [xside EXCEPT ![s] = v]
  BY <1>1, <1>2 DEF Ended
<1>5. xside' \in [XSides -> XSideState] /\ xside'[s] = v /\ \A t \in XSides : t # s => xside'[t] = xside[t]
  BY <1>1, <1>3, <1>4
<1>6. ASSUME NEW t \in XSides PROVE SidePhase(t)'
  <2>1. SidePhase(t)
    BY DEF XInv
  <2>2. CASE t = s
    BY <2>1, <2>2, <1>3, <1>5 DEF SidePhase
  <2>3. CASE t # s
    BY <2>1, <2>3, <1>5 DEF SidePhase
  <2> QED BY <2>2, <2>3
<1> QED BY <1>3, <1>5, <1>6 DEF SidesMove, StopsOnly

LEMMA FewHarmless ==
  /\ HarmlessApp(<<>>)
  /\ \A m \in XMsg : Harmless(m) => HarmlessApp(<<m>>) /\ <<m>> \in Seq(XMsg)
BY FewMembers DEF HarmlessApp

-----------------------------------------------------------------------------
(* run: the greeting. *)
LEMMA GreetStep == ASSUME XInv, Greet PROVE XInv'
<1>1. XTypes /\ \A s \in XSides : xside[s].phase = "greet" /\ SidePhase(s)
  BY DEF XInv, Greet
<1>2. \A o \in XObjects : xline[o].pc = "none" /\ o[1] \in XSides
  BY <1>1, Pairs DEF SidePhase
<1>3. \A o \in XObjects : ~InMap(o) /\ ~InMap(o)'
  BY <1>2 DEF InMap, Registered, Greet
<1>4. ASSUME NEW s \in XSides
      PROVE  /\ xside'[s] \in XSideState /\ xside'[s].phase = "run" /\ xside'[s].nosend = FALSE /\ xside'[s].nonew = FALSE
             /\ xside'[s].missed = xside[s].missed
  <2>1. PICK v : v = [xside[s] EXCEPT !.phase = "run", !.nosend = FALSE, !.nonew = FALSE]
    OBVIOUS
  <2>2. xside[s] \in XSideState
    BY <1>1 DEF XTypes
  <2>3. v \in XSideState /\ v.phase = "run" /\ v.nosend = FALSE /\ v.nonew = FALSE /\ v.missed = xside[s].missed
    BY <2>1, <2>2 DEF XSideState
  <2>4. xside'[s] = v
    BY <2>1 DEF Greet
  <2> QED BY <2>3, <2>4
<1>5. xside' \in [XSides -> XSideState]
  <2>1. xside' = [s \in XSides |-> xside'[s]]
    BY DEF Greet
  <2> QED BY <2>1, <1>4
<1>6. XTypes'
  BY <1>1, <1>5 DEF XTypes, Greet
<1>7. MapExact' /\ FirstOfId'
  <2>1. \A o \in XObjects : xline'[o].id = xline[o].id /\ xline'[o].again = xline[o].again /\ (InMap(o)' <=> InMap(o))
    BY <1>3 DEF Greet
  <2>2. MapExact /\ FirstOfId /\ UNCHANGED <<xmap, xused>>
    BY DEF XInv, Greet
  <2> QED BY <2>1, <2>2, MapFrame
<1>8. ASSUME NEW s \in XSides PROVE SidePhase(s)'
  BY <1>1, <1>4 DEF SidePhase, Greet
<1>9. ASSUME NEW o \in XObjects PROVE LineStage(o)'
  <2>1. StageOf(o, xline[o])
    BY DEF XInv, LineStage
  <2>2. ~xline[o].ufin /\ xline'[o] = xline[o]
    BY <2>1, <1>2 DEF StageOf, Greet
  <2> QED BY <2>1, <2>2 DEF LineStage
<1>10. ASSUME NEW c \in 1..XConnects PROVE Partners(c)'
  BY DEF XInv, Partners, Greet
<1>11. MessagesOk' /\ OneDecision'
  <2>1. UNCHANGED <<xnet, xline>> /\ MessagesOk /\ OneDecision
    BY DEF XInv, Greet
  <2>2. OneDecision'
    BY <2>1 DEF OneDecision
  <2>3. MessagesOk'
    BY <2>1 DEF MessagesOk, MessageOk, ConnectOk, DecisionOk, DataOk, ReadOk
  <2> QED BY <2>2, <2>3
<1>12. ASSUME NEW o \in XObjects PROVE Flow(o)' /\ Window(o)' /\ GotInOrder(o)'
  <2>1. GotInOrder(o)'
    BY DEF XInv, GotInOrder, FreshIds, Greet
  <2> QED BY <2>1, <1>3 DEF Flow, Window
<1> QED BY <1>6, <1>7, <1>8, <1>9, <1>10, <1>11, <1>12 DEF XInv

(* A step that leaves the multiplexers alone. *)
LEMMA FinishedStep ==
  ASSUME XInv, UNCHANGED <<xside, xnet, xmap, xempty, xline, xused>>, xup' \in BOOLEAN PROVE XInv'
<1>1. PICK s : s \in XSides
  BY DEF XSides
<1>2. XTypes
  BY DEF XInv
<1>3. SidesMove
  BY <1>2, SidesSame, SidesStay
<1>4. Moves(s, xnet[s], <<>>) /\ <<>> \in Seq(XMsg) /\ Cut(xnet[s], xnet[s])
  BY <1>1, <1>2, StillMoves
<1>5. \A x \in XObjects : NothingLost(s, xnet[s], x)
  BY DEF NothingLost
<1> QED BY <1>1, <1>3, <1>4, <1>5, FewHarmless, HarmlessNet

(* close(). *)
LEMMA CloseStep == ASSUME XInv, XClose PROVE XInv'
<1>1. "A" \in XSides /\ XTypes
  BY DEF XSides, XInv
<1>2. Signal("close") \in XMsg /\ Harmless(Signal("close"))
  <2>1. "close" \in {"close", "ack1", "ack2", "threaded"} /\ 0 \in XIdOr0
    BY DEF XIdOr0
  <2> QED BY <2>1, SignalHarmless
<1>3. <<Signal("close")>> \in Seq(XMsg) /\ HarmlessApp(<<Signal("close")>>) /\ HarmlessApp(<<>>)
  BY <1>2, FewHarmless
<1>4. PICK app \in {<<Signal("close")>>, <<>>} : Moves("A", xnet["A"], app) /\ app \in Seq(XMsg) /\ Cut(xnet["A"], xnet["A"])
  BY <1>1, <1>3, DeliverMoves DEF XClose
<1>5. SidesMove
  BY <1>1, SidesSame, SidesStay DEF XClose
<1>6. \A x \in XObjects : NothingLost("A", xnet["A"], x)
  BY DEF NothingLost
<1>7. UNCHANGED <<xmap, xempty, xused, xline>> /\ xup' \in BOOLEAN
  BY <1>1 DEF XClose, XTypes
<1> QED BY <1>1, <1>3, <1>4, <1>5, <1>6, <1>7, HarmlessNet

(* The signals, and a connection that fails. *)
LEMMA SignalStep == ASSUME XInv, NEW s \in XSides, ReadSignal(s) PROVE XInv'
<1>1. XTypes /\ UNCHANGED <<xmap, xempty, xused, xline>> /\ xup' \in BOOLEAN /\ xside[s].phase = "run" /\ xnet[s] # <<>>
  BY DEF XInv, ReadSignal, XTypes, Receives
<1>2. PICK a1, a2 : a1 = <<Signal("ack1")>> /\ a2 = <<Signal("ack2")>>
  OBVIOUS
<1>3. a1 \in Seq(XMsg) /\ HarmlessApp(a1) /\ a2 \in Seq(XMsg) /\ HarmlessApp(a2) /\ HarmlessApp(<<>>) /\ <<>> \in Seq(XMsg)
  <2>1. "ack1" \in {"close", "ack1", "ack2", "threaded"} /\ "ack2" \in {"close", "ack1", "ack2", "threaded"} /\ 0 \in XIdOr0
    BY DEF XIdOr0
  <2>2. Signal("ack1") \in XMsg /\ Harmless(Signal("ack1")) /\ Signal("ack2") \in XMsg /\ Harmless(Signal("ack2"))
    BY <2>1, SignalHarmless
  <2> QED BY <2>2, <1>2, FewHarmless
<1>4. CASE Receives(s, "close") /\ MaySend(s) /\ TakeAnd(s, a1) /\ UNCHANGED xside
  <2>1. PICK app \in {a1, <<>>} : Moves(s, Tail(xnet[s]), app) /\ app \in Seq(XMsg) /\ Cut(Tail(xnet[s]), xnet[s])
    BY <1>1, <1>3, <1>4, TakeMoves
  <2>2. Silent(Head(xnet[s]))
    BY <1>4 DEF Receives, Silent
  <2>3. \A x \in XObjects : NothingLost(s, Tail(xnet[s]), x)
    BY <1>1, <2>2, SilentNothing DEF NothingLost
  <2>4. SidesMove
    BY <1>1, <1>4, SidesSame, SidesStay
  <2> QED BY <1>1, <1>3, <2>1, <2>3, <2>4, HarmlessNet
<1>5. ASSUME NEW ms \in {a2, <<>>}, LastAnd(s, ms), Ended(s) PROVE XInv'
  <2>1. PICK app \in {ms, <<>>} : Moves(s, <<>>, app) /\ app \in Seq(XMsg) /\ Cut(<<>>, xnet[s])
    BY <1>1, <1>3, <1>5, LastMoves
  <2>2. SidesMove /\ xside'[s].phase = "ended"
    BY <1>1, <1>5, EndedMove
  <2>3. \A x \in XObjects : NothingLost(s, <<>>, x)
    BY <2>2 DEF NothingLost
  <2>4. HarmlessApp(app)
    BY <1>3, <2>1
  <2> QED BY <1>1, <2>1, <2>2, <2>3, <2>4, HarmlessNet
<1> QED BY <1>2, <1>4, <1>5 DEF ReadSignal

LEMMA FailsStep == ASSUME XInv, NEW s \in XSides, ReadFails(s) PROVE XInv'
<1>1. XTypes /\ UNCHANGED <<xnet, xmap, xempty, xused, xline>> /\ xup' \in BOOLEAN /\ xside[s].phase = "run" /\ Ended(s)
  BY DEF XInv, ReadFails, XTypes
<1>2. Moves(s, xnet[s], <<>>) /\ <<>> \in Seq(XMsg) /\ Cut(xnet[s], xnet[s])
  BY <1>1, StillMoves
<1>3. SidesMove
  BY <1>1, EndedMove
<1>4. \A x \in XObjects : NothingLost(s, xnet[s], x)
  BY DEF NothingLost
<1> QED BY <1>1, <1>2, <1>3, <1>4, FewHarmless, HarmlessNet

(* The reader's own answer carries nothing, whatever the deleted parameters held. *)
LEMMA ThreadedStep == ASSUME XInv, NEW s \in XSides, AnswerThreaded(s) PROVE XInv'
<1>1. XTypes /\ UNCHANGED <<xmap, xempty, xused, xline>> /\ xup' \in BOOLEAN /\ xside \in [XSides -> XSideState]
  BY DEF XInv, AnswerThreaded, XTypes
<1>2. PICK c : c = xside[s].threaded /\ c # 0
  BY DEF AnswerThreaded
<1>3. c \in 1..XConnects
  <2>1. c \in 0..XConnects
    BY <1>1, <1>2 DEF XSideState
  <2> QED BY <2>1, <1>2, XSizes
<1>4. xline[<<s, c>>].remote \in XIdOr0
  <2>1. <<s, c>> \in XObjects
    BY <1>3 DEF XObjects
  <2> QED BY <2>1, <1>1, LineTyped
<1>5. PICK to \in XIdOr0 : Sends(s, <<Answer(to, 0, "threaded", 0, 0)>>)
  BY <1>2, <1>4 DEF AnswerThreaded, XIdOr0
<1>6. PICK a : a = <<Answer(to, 0, "threaded", 0, 0)>>
  OBVIOUS
<1>7. a \in Seq(XMsg) /\ HarmlessApp(a)
  <2>1. "threaded" \in {"close", "ack1", "ack2", "threaded"}
    OBVIOUS
  <2> QED BY <2>1, <1>6, SignalHarmless, FewHarmless
<1>8a. Sends(s, a)
  BY <1>5, <1>6
<1>8. PICK app \in {a, <<>>} : Moves(s, xnet[s], app) /\ app \in Seq(XMsg) /\ Cut(xnet[s], xnet[s])
  BY <1>1, <1>7, <1>8a, SendsMoves
<1>9. SidesKept
  <2>1. PICK v : v = [xside[s] EXCEPT !.threaded = 0]
    OBVIOUS
  <2>2. 0 \in 0..XConnects
    BY XSizes
  <2>3. /\ v \in XSideState /\ v.phase = xside[s].phase /\ v.nosend = xside[s].nosend /\ v.nonew = xside[s].nonew
        /\ v.missed = xside[s].missed
    BY <1>1, <2>1, <2>2 DEF XSideState
  <2>4. xside' = [xside EXCEPT ![s] = v]
    BY <1>1, <2>1 DEF AnswerThreaded
  <2> QED BY <2>3, <2>4, <1>1 DEF SidesKept
<1>10. SidesMove
  BY <1>1, <1>9, SidesStay
<1>11. \A x \in XObjects : NothingLost(s, xnet[s], x)
  BY DEF NothingLost
<1>12. HarmlessApp(app)
  BY <1>7, <1>8, FewHarmless
<1> QED BY <1>1, <1>8, <1>10, <1>11, <1>12, HarmlessNet

(* run() ends when the mutex is free: no line is left unless a search gave up. *)
LEMMA WaitStep == ASSUME XInv, NEW s \in XSides, WaitForEveryLine(s) PROVE XInv'
<1>1. XTypes /\ UNCHANGED <<xnet, xmap, xempty, xused, xline>> /\ xup' \in BOOLEAN /\ xside \in [XSides -> XSideState]
  BY DEF XInv, WaitForEveryLine, XTypes
<1>2. PICK v : v = [xside[s] EXCEPT !.phase = "gone"]
  OBVIOUS
<1>3. v \in XSideState /\ v.phase = "gone" /\ v.nosend = xside[s].nosend /\ v.nonew = xside[s].nonew /\ v.missed = xside[s].missed
  BY <1>1, <1>2 DEF XSideState
<1>4. xside' = [xside EXCEPT ![s] = v]
  BY <1>1, <1>2 DEF WaitForEveryLine
<1>5. xside' \in [XSides -> XSideState] /\ xside'[s] = v /\ \A t \in XSides : t # s => xside'[t] = xside[t]
  BY <1>1, <1>3, <1>4
<1>6. ASSUME NEW t \in XSides PROVE SidePhase(t)'
  <2>1. SidePhase(t)
    BY DEF XInv
  <2>2. CASE t = s
    <3>1. xside[s].phase = "waiting" /\ ~xempty[s]
      BY DEF WaitForEveryLine
    <3> QED BY <2>1, <2>2, <3>1, <1>1, <1>3, <1>5 DEF SidePhase
  <2>3. CASE t # s
    BY <2>1, <2>3, <1>1, <1>5 DEF SidePhase
  <2> QED BY <2>2, <2>3
<1>7. SidesMove
  BY <1>3, <1>5, <1>6 DEF SidesMove, StopsOnly
<1>8. Moves(s, xnet[s], <<>>) /\ <<>> \in Seq(XMsg) /\ Cut(xnet[s], xnet[s])
  BY <1>1, StillMoves
<1>9. \A x \in XObjects : NothingLost(s, xnet[s], x)
  BY DEF NothingLost
<1> QED BY <1>1, <1>7, <1>8, <1>9, FewHarmless, HarmlessNet

(* A message that is taken from the connection and reaches no line. *)
LEMMA TakenStep ==
  ASSUME XInv, NEW s \in XSides, xnet[s] # <<>>, UNCHANGED <<xside, xup, xmap, xempty, xused, xline>>,
         NEW ms \in Seq(XMsg), HarmlessApp(ms), TakeAnd(s, ms), Silent(Head(xnet[s])) \/ ~KnownLine(s, Head(xnet[s]).to)
  PROVE  XInv'
<1>1. XTypes /\ xup' \in BOOLEAN
  BY DEF XInv, XTypes
<1>2. PICK app \in {ms, <<>>} : Moves(s, Tail(xnet[s]), app) /\ app \in Seq(XMsg) /\ Cut(Tail(xnet[s]), xnet[s])
  BY <1>1, TakeMoves
<1>3. ASSUME NEW x \in XObjects, InMap(x), x[1] = s PROVE NothingLost(s, Tail(xnet[s]), x)
  <2>1. NothingTo(Head(xnet[s]), x)
    BY <1>3, SilentNothing, UnknownNothing
  <2> QED BY <2>1 DEF NothingLost
<1>4. SidesMove
  BY <1>1, SidesSame, SidesStay
<1>5. HarmlessApp(app)
  BY <1>2, FewHarmless
<1> QED BY <1>1, <1>2, <1>3, <1>4, <1>5, HarmlessNet

(* The message that is read. *)
LEMMA HeadOk ==
  ASSUME XInv, NEW s \in XSides, xnet[s] # <<>>
  PROVE  /\ Head(xnet[s]) \in XMsg /\ Head(xnet[s]) \in Members(xnet[s]) /\ MessageOk(s, Head(xnet[s]))
         /\ Members(Tail(xnet[s])) \subseteq Members(xnet[s])
<1>1. xnet[s] \in Seq(XMsg)
  BY DEF XInv, XTypes
<1>2. /\ Head(xnet[s]) \in XMsg /\ Head(xnet[s]) \in Members(xnet[s]) /\ Members(Tail(xnet[s])) \subseteq Members(xnet[s])
  BY <1>1, TailMembers
<1> QED BY <1>2 DEF XInv, MessagesOk

(* The message that decides a connection is the only one. *)
LEMMA HeadDecides ==
  ASSUME XInv, NEW s \in XSides, xnet[s] # <<>>, Head(xnet[s]).op \in Deciding
  PROVE  /\ \A x \in Members(Tail(xnet[s])) : x.op \in Deciding => x.conn # Head(xnet[s]).conn
         /\ \A x \in Members(xnet[Opposite(s)]) : x.op \in Deciding => x.conn # Head(xnet[s]).conn
<1>1. xnet[s] \in Seq(XMsg) /\ OneDecision
  BY DEF XInv, XTypes
<1>2. Once(xnet[s]) /\ Head(xnet[s]) \in Members(xnet[s])
  BY <1>1, HeadOk DEF OneDecision, XSides
<1>3. \A x \in Members(Tail(xnet[s])) : x.op \in Deciding => x.conn # Head(xnet[s]).conn
  BY <1>1, <1>2, OnceTail
<1>4. (s = "A" /\ Opposite(s) = "B") \/ (s = "B" /\ Opposite(s) = "A")
  BY DEF XSides, Opposite
<1>5. \A x \in Members(xnet[Opposite(s)]) : x.op \in Deciding => x.conn # Head(xnet[s]).conn
  BY <1>1, <1>2, <1>4 DEF OneDecision
<1> QED BY <1>3, <1>5

(* Line_Connect when a plugin refuses. *)
LEMMA ConnectRefusedStep ==
  ASSUME XInv, NEW s \in XSides, Receives(s, "connect"), UNCHANGED <<xup, xmap, xempty, xused, xline>>, Ended(s),
         LastAnd(s, <<Answer(Head(xnet[s]).from, 0, "refused", 0, Head(xnet[s]).conn)>>)
  PROVE  XInv'
<1>1. XTypes /\ OneDecision /\ xup' \in BOOLEAN /\ xnet[s] # <<>> /\ xside[s].phase = "run" /\ Head(xnet[s]).op = "connect"
  BY DEF XInv, XTypes, Receives
<1>2. PICK m \in XMsg : m = Head(xnet[s]) /\ m \in Members(xnet[s]) /\ MessageOk(s, m)
  BY <1>1, HeadOk
<1>3. /\ s = "B" /\ m.conn \in 1..XConnects /\ m.win = XWindow
      /\ xline[Asker(m.conn)].pc = "wait" /\ xline[Asker(m.conn)].id = m.from /\ xline[Asked(m.conn)].pc = "none"
  BY <1>1, <1>2 DEF MessageOk, ConnectOk
<1>4. PICK a : a = Answer(m.from, 0, "refused", 0, m.conn)
  OBVIOUS
<1>5. a \in XMsg /\ a.op = "refused" /\ a.to = m.from /\ a.conn = m.conn
  <2>1. m.from \in XIdOr0 /\ 0 \in XIdOr0 /\ m.conn \in 0..XConnects /\ "refused" \in XOps
    BY DEF XMsg, XIdOr0, XOps, Deciding
  <2> QED BY <1>4, <2>1, AnswerTyped
<1>6. <<a>> \in Seq(XMsg) /\ Members(<<a>>) = {a} /\ Members(<<>>) = {}
  BY <1>5, FewMembers
<1>7a. LastAnd(s, <<a>>)
  BY <1>2, <1>4
<1>7. PICK app \in {<<a>>, <<>>} : Moves(s, <<>>, app) /\ app \in Seq(XMsg) /\ Cut(<<>>, xnet[s])
  BY <1>1, <1>6, <1>7a, LastMoves
<1>8. SidesMove /\ xside'[s].phase = "ended"
  BY <1>1, EndedMove
<1>9. Members(app) \subseteq {a}
  BY <1>6, <1>7
<1>10. IdsKept /\ \A c \in 1..XConnects : Gentle(c)
  BY DEF IdsKept, Gentle
<1>11. MessageOk(Opposite(s), a)'
  <2>1. Opposite(s) = "A"
    BY <1>3 DEF Opposite
  <2>2. DecisionOk("A", a)'
    BY <1>3, <1>5 DEF DecisionOk, Undecided
  <2>3. ConnectOk("A", a)' /\ DataOk("A", a)' /\ ReadOk("A", a)'
    BY <1>5 DEF ConnectOk, DataOk, ReadOk
  <2> QED BY <2>1, <2>2, <2>3 DEF MessageOk
<1>12. MessagesOk'
  BY <1>7, <1>9, <1>10, <1>11, MessagesStep
<1>13. OneDecision'
  <2>1. Once(app)
    <3>1. CASE app = <<a>>
      <4>1. Len(<<a>>) = 1 /\ 1..1 = {1}
        OBVIOUS
      <4> QED BY <3>1, <4>1 DEF Once
    <3>2. CASE app = <<>>
      <4>1. Len(<<>>) = 0 /\ 1..0 = {}
        OBVIOUS
      <4> QED BY <3>2, <4>1 DEF Once
    <3> QED BY <3>1, <3>2, <1>7
  <2>2. \A x \in Members(xnet[Opposite(s)]) : x.op \in Deciding => x.conn # m.conn
    BY <1>1, <1>2, HeadDecides DEF Deciding
  <2>3. \A x \in Members(<<>>) \cup Members(xnet[Opposite(s)]), y \in Members(app) :
           x.op \in Deciding /\ y.op \in Deciding => x.conn # y.conn
    BY <2>2, <1>5, <1>6, <1>9
  <2> QED BY <1>1, <1>7, <2>1, <2>3, DecisionStep
<1>14. ASSUME NEW x \in XObjects, InMap(x) PROVE Reaches(s, <<>>, app, x)
  <2>1. Silent(a)
    BY <1>5 DEF Silent
  <2>2. NothingLost(s, <<>>, x)
    BY <1>8 DEF NothingLost
  <2> QED BY <2>1, <2>2, <1>9, SilentNothing DEF Reaches
<1> QED BY <1>1, <1>7, <1>8, <1>12, <1>13, <1>14, NetOnly DEF SidesMove

-----------------------------------------------------------------------------
(* A step of one line that leaves alone what it has received and what it has counted. *)
CalmFlow(q, l) ==
  /\ FlattenSeq(l.buf) = FlattenSeq(xline[q].buf) /\ l.got = xline[q].got /\ l.given = xline[q].given /\ (l.thr # "out" => xline[q].thr # "out")
  /\ xline[q].unproc + xline[q].piece <= l.unproc + l.piece
OnlyLine(q, l) == xline'[q] = l /\ \A o \in XObjects : o # q => xline'[o] = xline[o]
SameName(q, l) == l.id = xline[q].id /\ l.again = xline[q].again /\ (l.pc \in Registered => xline[q].pc \in Registered)

(* It disturbs no flow and no window. *)
LEMMA FlowCalm ==
  ASSUME XInv, XTypes', NEW q \in XObjects, NEW l, OnlyLine(q, l), SameName(q, l), CalmFlow(q, l), StopsOnly,
         NEW s \in XSides, NEW new, Cut(new, xnet[s]), NEW app \in Seq(XMsg), Moves(s, new, app),
         NEW o \in XObjects, ReachesEnds(s, new, app, o)
  PROVE  Flow(o)' /\ Window(o)' /\ GotInOrder(o)'
<1>1. PICK p : p = OtherEnd(o) /\ p \in XObjects
  BY Pairs
<1>2. XTypes /\ xline[p].unproc \in Nat /\ xline[p].piece \in Nat /\ xline[p].given \in Nat
  BY <1>1, LineTyped DEF XInv
<1>3. LineSame(o)
  BY DEF LineSame, OnlyLine, SameName, CalmFlow, InMap
<1>4. SenderSame(p) /\ xline[p].given <= xline'[p].given /\ xline[p].given = xline'[p].given /\ xline'[o].got = xline[o].got
  <2>3. xline'[o].got = xline[o].got
    BY DEF OnlyLine, CalmFlow
  <2>1. CASE p = q
    BY <2>1, <2>3, <1>2 DEF SenderSame, OnlyLine, SameName, CalmFlow, InMap
  <2>2. CASE p # q
    <3>1. xline'[p] = xline[p]
      BY <2>2, <1>1 DEF OnlyLine
    <3> QED BY <3>1, <2>3, <1>2 DEF SenderSame, InMap
  <2> QED BY <2>1, <2>2
<1>5. FreshKept(o)
  BY <1>1 DEF FreshKept, FreshIds, OnlyLine, SameName
<1>6. /\ SenderSame(OtherEnd(o)) /\ xline[OtherEnd(o)].given <= xline'[OtherEnd(o)].given
      /\ xline[OtherEnd(o)].given = xline'[OtherEnd(o)].given
  BY <1>1, <1>4
<1>7. Flow(o)' /\ Window(o)'
  BY <1>3, <1>5, <1>6, FlowKeptAt
<1>8. GotInOrder(o)'
  BY <1>4, <1>5, <1>6, GotKept
<1> QED BY <1>7, <1>8

(* Such a step as a whole. *)
LEMMA CalmStep ==
  ASSUME XInv, NEW q \in XObjects, NEW l \in XLine, Change(q, l), UNCHANGED <<xup, xmap, xempty, xused>>, SidesKept,
         LineKeeps(q, l), CalmFlow(q, l), \A c \in 1..XConnects : Partners(c)', MessagesOk', OneDecision',
         NEW s \in XSides, NEW new, Cut(new, xnet[s]), NEW app \in Seq(XMsg), Moves(s, new, app),
         \A x \in XObjects : InMap(x) => Reaches(s, new, app, x)
  PROVE  XInv'
<1>1. XTypes
  BY DEF XInv
<1>2. xnet' \in [XSides -> Seq(XMsg)]
  BY <1>1, MoveNets
<1>3. /\ XTypes' /\ MapExact' /\ FirstOfId' /\ (\A t \in XSides : SidePhase(t)') /\ (\A o \in XObjects : LineStage(o)')
      /\ OnlyLine(q, l)
  BY <1>2, OneLine DEF OnlyLine
<1>4. StopsOnly /\ SameName(q, l)
  BY DEF StopsOnly, SidesKept, SameName, LineKeeps
<1>5. ASSUME NEW o \in XObjects PROVE Flow(o)' /\ Window(o)' /\ GotInOrder(o)'
  <2>1. ReachesEnds(s, new, app, o)
    BY Pairs DEF ReachesEnds
  <2> QED BY <2>1, <1>3, <1>4, FlowCalm
<1> QED BY <1>3, <1>5 DEF XInv

LEMMA NotGreet ==
  ASSUME XInv, NEW q \in XObjects, xline[q].pc # "none" PROVE xside[q[1]].phase # "greet"
BY Pairs DEF XInv, SidePhase

LEMMA LineNow ==
  ASSUME XInv, NEW q \in XObjects, NEW l \in XLine, Change(q, l) PROVE OnlyLine(q, l)
BY LineStep DEF XInv, Change, OnlyLine

(* The decision about a connection is sent when it is made. *)
LEMMA DecisionSent ==
  ASSUME XInv, NEW c \in 1..XConnects, xline[Asked(c)].pc \in Undecided, IdsKept, \A d \in 1..XConnects : Gentle(d),
         xline'[Asker(c)] = xline[Asker(c)], xline'[Asked(c)].pc \notin Undecided,
         NEW a \in XMsg, a.op \in {"established", "refused"}, a.to = xline[Asked(c)].remote, a.conn = c,
         a.op = "established" => a.from = xline'[Asked(c)].id /\ a.from # 0 /\ a.win = XWindow,
         NEW app \in {<<a>>, <<>>}, Moves("B", xnet["B"], app)
  PROVE  MessagesOk' /\ OneDecision' /\ (\A x : Reaches("B", xnet["B"], app, x)) /\ app \in Seq(XMsg)
<1>1. XTypes /\ OneDecision /\ MessagesOk /\ Partners(c) /\ "B" \in XSides /\ "A" \in XSides /\ Opposite("B") = "A"
  BY DEF XInv, XSides, Opposite
<1>2. xline[Asker(c)].pc = "wait" /\ xline[Asker(c)].id = a.to
  BY <1>1 DEF Partners, Undecided
<1>3. <<a>> \in Seq(XMsg) /\ Members(<<a>>) = {a} /\ Members(<<>>) = {} /\ <<>> \in Seq(XMsg)
  BY FewMembers
<1>4. app \in Seq(XMsg) /\ Members(app) \subseteq {a} /\ Cut(xnet["B"], xnet["B"])
  BY <1>3 DEF Cut
<1>5. MessageOk("A", a)'
  <2>2. DecisionOk("A", a)'
    BY <1>2 DEF DecisionOk
  <2>3. ConnectOk("A", a)' /\ DataOk("A", a)' /\ ReadOk("A", a)'
    BY DEF ConnectOk, DataOk, ReadOk
  <2> QED BY <2>2, <2>3 DEF MessageOk
<1>6. MessagesOk'
  BY <1>1, <1>4, <1>5, MessagesStep
<1>7. ASSUME NEW t \in XSides, NEW x \in Members(xnet[t]), x.op \in Deciding PROVE x.conn # c
  <2>1. MessageOk(t, x)
    BY <1>1 DEF MessagesOk
  <2>2. CASE x.op = "connect"
    BY <2>1, <2>2 DEF MessageOk, ConnectOk, Undecided
  <2>3. CASE x.op \in {"established", "refused"}
    BY <2>1, <2>3 DEF MessageOk, DecisionOk
  <2> QED BY <1>7, <2>2, <2>3 DEF Deciding
<1>8. OneDecision'
  <2>1. Once(app)
    <3>1. CASE app = <<a>>
      <4>1. Len(<<a>>) = 1 /\ 1..1 = {1}
        OBVIOUS
      <4> QED BY <3>1, <4>1 DEF Once
    <3>2. CASE app = <<>>
      <4>1. Len(<<>>) = 0 /\ 1..0 = {}
        OBVIOUS
      <4> QED BY <3>2, <4>1 DEF Once
    <3> QED BY <3>1, <3>2
  <2>2. \A x \in Members(xnet["B"]) \cup Members(xnet[Opposite("B")]), y \in Members(app) :
           x.op \in Deciding /\ y.op \in Deciding => x.conn # y.conn
    BY <1>1, <1>4, <1>7
  <2> QED BY <1>1, <1>4, <2>1, <2>2, DecisionStep
<1>9. ASSUME NEW x PROVE Reaches("B", xnet["B"], app, x)
  <2>1. Silent(a)
    BY DEF Silent
  <2> QED BY <2>1, <1>4, SilentNothing DEF Reaches, NothingLost
<1> QED BY <1>4, <1>6, <1>8, <1>9

(* Line_Connect when no plugin refuses: the other end is known, and still waits. *)
LEMMA AcceptConnect ==
  ASSUME XInv, NEW s \in XSides, Receives(s, "connect"), UNCHANGED <<xup, xmap, xempty, xused>>, TakeAnd(s, <<>>),
         xside' = [xside EXCEPT ![s].threaded = Head(xnet[s]).conn],
         Change(<<s, Head(xnet[s]).conn>>, [xline[<<s, Head(xnet[s]).conn>>] EXCEPT !.pc = "accept", !.remote = Head(xnet[s]).from,
                                                                                    !.rwin = Head(xnet[s]).win])
  PROVE  XInv'
<1>1. XTypes /\ OneDecision /\ xnet[s] # <<>> /\ xside[s].phase = "run" /\ Head(xnet[s]).op = "connect" /\ xside \in [XSides -> XSideState]
  BY DEF XInv, XTypes, Receives
<1>2. PICK m \in XMsg : m = Head(xnet[s]) /\ m \in Members(xnet[s]) /\ MessageOk(s, m)
  BY <1>1, HeadOk
<1>3. /\ s = "B" /\ m.conn \in 1..XConnects /\ m.win = XWindow
      /\ xline[Asker(m.conn)].pc = "wait" /\ xline[Asker(m.conn)].id = m.from /\ xline[Asked(m.conn)].pc = "none"
  BY <1>1, <1>2 DEF MessageOk, ConnectOk
<1>4. PICK c \in 1..XConnects : c = m.conn
  BY <1>3
<1>5. PICK q \in XObjects : q = Asked(c) /\ q = <<s, m.conn>> /\ q[1] = "B" /\ q[2] = c
  BY <1>3, <1>4, EndsOf DEF Asked
<1>6. PICK l : l = [xline[q] EXCEPT !.pc = "accept", !.remote = m.from, !.rwin = m.win]
  OBVIOUS
<1>7. xline[q] \in XLine /\ StageOf(q, xline[q]) /\ Partners(c)
  BY <1>1 DEF XTypes, XInv, LineStage
<1>8. /\ l \in XLine /\ l.pc = "accept" /\ l.remote = m.from /\ l.rwin = m.win /\ l.id = xline[q].id /\ l.again = xline[q].again
      /\ l.ufin = xline[q].ufin /\ l.thr = xline[q].thr /\ l.buf = xline[q].buf /\ l.got = xline[q].got /\ l.given = xline[q].given
      /\ l.unproc = xline[q].unproc /\ l.piece = xline[q].piece
  <2>1. m.from \in XIdOr0 /\ m.win \in Nat
    BY DEF XMsg
  <2> QED BY <1>6, <1>7, <2>1 DEF XLine
<1>9. Change(q, l)
  BY <1>2, <1>5, <1>6
<1>10. OnlyLine(q, l)
  BY <1>8, <1>9, LineNow
<1>11. StageOf(q, l)
  BY <1>3, <1>4, <1>5, <1>7, <1>8 DEF StageOf, Registered
<1>12. LineKeeps(q, l)
  BY <1>1, <1>3, <1>4, <1>5, <1>8, <1>11 DEF LineKeeps, Registered
<1>13. CalmFlow(q, l)
  <2>1. xline[q].unproc \in Nat /\ xline[q].piece \in Nat
    BY <1>1, LineTyped
  <2> QED BY <1>8, <2>1 DEF CalmFlow
<1>14. SidesKept
  <2>1. PICK v : v = [xside[s] EXCEPT !.threaded = m.conn]
    OBVIOUS
  <2>2. m.conn \in 0..XConnects
    BY DEF XMsg
  <2>3. /\ v \in XSideState /\ v.phase = xside[s].phase /\ v.nosend = xside[s].nosend /\ v.nonew = xside[s].nonew
        /\ v.missed = xside[s].missed
    BY <1>1, <2>1, <2>2 DEF XSideState
  <2>4. xside' = [xside EXCEPT ![s] = v]
    BY <1>1, <1>2, <2>1
  <2> QED BY <2>3, <2>4, <1>1 DEF SidesKept
<1>15. IdsKept
  BY <1>8, <1>10 DEF IdsKept, OnlyLine
<1>16. ASSUME NEW d \in 1..XConnects, d # c PROVE Partners(d)' /\ Gentle(d)
  <2>1. Partners(d)
    BY DEF XInv
  <2> QED BY <2>1, <1>5, <1>10, <1>16, OtherPartners DEF OnlyLine
<1>17. Partners(c)'
  <2>1. Asker(c) \in XObjects /\ Asker(c) # q /\ xline[Asker(c)].id # 0
    <3>1. Asker(c) \in XObjects /\ Asker(c) # q
      BY <1>5, EndsOf
    <3>2. StageOf(Asker(c), xline[Asker(c)])
      BY <3>1 DEF XInv, LineStage
    <3> QED BY <3>1, <3>2, <1>3, <1>4 DEF StageOf, Registered
  <2>2. xline'[Asker(c)] = xline[Asker(c)] /\ xline'[Asked(c)] = l
    BY <2>1, <1>5, <1>10 DEF OnlyLine
  <2> QED BY <2>1, <2>2, <1>3, <1>4, <1>5, <1>7, <1>8 DEF Partners
<1>18. <<>> \in Seq(XMsg) /\ Members(<<>>) = {}
  BY FewMembers
<1>19. Moves(s, Tail(xnet[s]), <<>>) /\ Cut(Tail(xnet[s]), xnet[s])
  BY <1>1, <1>18, TakeMoves
<1>20. \A x \in Members(Tail(xnet[s])) \cup Members(xnet[Opposite(s)]) : x.op \in Deciding => x.conn # c
  BY <1>1, <1>2, <1>4, HeadDecides DEF Deciding
<1>21. MessagesOk'
  BY <1>15, <1>16, <1>18, <1>19, <1>20, MessagesStep
<1>22. OneDecision'
  <2>1. Once(<<>>)
    <3>1. Len(<<>>) = 0 /\ 1..0 = {}
      OBVIOUS
    <3> QED BY <3>1 DEF Once
  <2> QED BY <1>1, <1>18, <1>19, <2>1, DecisionStep
<1>23. ASSUME NEW x \in XObjects PROVE Reaches(s, Tail(xnet[s]), <<>>, x)
  <2>1. Silent(Head(xnet[s]))
    BY <1>1 DEF Silent
  <2> QED BY <2>1, <1>1, <1>18, SilentNothing DEF Reaches, NothingLost
<1>24. \A d \in 1..XConnects : Partners(d)'
  BY <1>16, <1>17
<1> QED BY <1>8, <1>9, <1>12, <1>13, <1>14, <1>18, <1>19, <1>21, <1>22, <1>23, <1>24, CalmStep

(* Line_Connect. *)
LEMMA ConnectStep == ASSUME XInv, NEW s \in XSides, LineConnect(s) PROVE XInv'
BY AcceptConnect, ConnectRefusedStep DEF LineConnect

-----------------------------------------------------------------------------
(* A decision that meets the line that asked. *)
LEMMA AnsweredStep ==
  ASSUME XInv, NEW s \in XSides, xnet[s] # <<>>, NEW m \in XMsg, m = Head(xnet[s]), m.op \in {"established", "refused"},
         xside[s].phase = "run", KnownLine(s, m.to), UNCHANGED <<xside, xup, xmap, xempty, xused>>, TakeAnd(s, <<>>),
         NEW l \in XLine, Change(xmap[s][m.to], l),
         LET q == xmap[s][m.to]
         IN /\ l.id = xline[q].id /\ l.again = xline[q].again /\ l.ufin = xline[q].ufin /\ l.thr = xline[q].thr
            /\ l.buf = xline[q].buf /\ l.got = xline[q].got /\ l.given = xline[q].given
            /\ l.unproc = xline[q].unproc /\ l.piece = xline[q].piece
            /\ \/ m.op = "established" /\ l.pc = "callback" /\ l.remote = m.from /\ l.rwin = m.win
               \/ l.pc \in {"remove", "left"} /\ l.remote = xline[q].remote /\ l.rwin = xline[q].rwin
  PROVE  XInv'
<1>1. XTypes /\ OneDecision /\ m.op \in Deciding
  BY DEF XInv, Deciding
<1>2. MessageOk(s, m)
  BY HeadOk
<1>3. /\ s = "A" /\ m.conn \in 1..XConnects
      /\ xline[Asker(m.conn)].pc = "wait" /\ xline[Asker(m.conn)].id = m.to /\ xline[Asked(m.conn)].pc \notin Undecided
      /\ m.op = "established" => m.from = xline[Asked(m.conn)].id /\ m.from # 0 /\ m.win = XWindow
  BY <1>2 DEF MessageOk, DecisionOk
<1>4. PICK c \in 1..XConnects : c = m.conn
  BY <1>3
<1>5. PICK q \in XObjects : q = Asker(c) /\ q[1] = "A" /\ q[2] = c /\ q = xmap[s][m.to] /\ q # Asked(c) /\ Asked(c) \in XObjects
  <2>1. Asker(c) \in XObjects /\ Asker(c)[1] = "A" /\ Asker(c)[2] = c /\ Asker(c) # Asked(c) /\ Asked(c) \in XObjects
    BY EndsOf
  <2>2. InMap(Asker(c))
    BY <1>3, <1>4 DEF InMap, Registered
  <2>4. xmap[Asker(c)[1]][xline[Asker(c)].id] = Asker(c)
    BY <2>1, <2>2, InMapKnown
  <2>3. xmap["A"][m.to] = Asker(c)
    BY <2>1, <2>4, <1>3, <1>4
  <2> QED BY <2>1, <2>3, <1>3
<1>6. Change(q, l)
  BY <1>5
<1>7. /\ l.id = xline[q].id /\ l.again = xline[q].again /\ l.ufin = xline[q].ufin /\ l.thr = xline[q].thr
      /\ l.buf = xline[q].buf /\ l.got = xline[q].got /\ l.given = xline[q].given
      /\ l.unproc = xline[q].unproc /\ l.piece = xline[q].piece
      /\ \/ m.op = "established" /\ l.pc = "callback" /\ l.remote = m.from /\ l.rwin = m.win
         \/ l.pc \in {"remove", "left"} /\ l.remote = xline[q].remote /\ l.rwin = xline[q].rwin
  BY <1>5
<1>8. xline[q].pc = "wait" /\ StageOf(q, xline[q]) /\ Partners(c)
  BY <1>3, <1>4, <1>5 DEF XInv, LineStage
<1>9. OnlyLine(q, l)
  BY <1>6, LineNow
<1>10. StageOf(q, l)
  BY <1>5, <1>7, <1>8, Zenon DEF StageOf, Registered
<1>11. LineKeeps(q, l)
  <2>1. l.pc \in Registered /\ xline[q].pc \in Registered
    BY <1>7, <1>8 DEF Registered
  <2>2. xside[q[1]].phase # "greet"
    BY <1>3, <1>5
  <2> QED BY <2>1, <2>2, <1>7, <1>10 DEF LineKeeps
<1>12. CalmFlow(q, l)
  <2>1. xline[q].unproc \in Nat /\ xline[q].piece \in Nat
    BY <1>1, LineTyped
  <2> QED BY <1>7, <2>1 DEF CalmFlow
<1>13. SidesKept
  BY <1>1, SidesSame
<1>14. IdsKept
  BY <1>7, <1>9 DEF IdsKept, OnlyLine
<1>15. ASSUME NEW d \in 1..XConnects, d # c PROVE Partners(d)' /\ Gentle(d)
  <2>1. Partners(d)
    BY DEF XInv
  <2> QED BY <2>1, <1>5, <1>9, <1>15, OtherPartners DEF OnlyLine
<1>16. Partners(c)'
  <2>1. xline'[Asker(c)] = l /\ xline'[Asked(c)] = xline[Asked(c)]
    BY <1>5, <1>9 DEF OnlyLine
  <2>4. PICK a, b : a = xline[q] /\ b = xline[Asked(c)]
    OBVIOUS
  <2>5. /\ b.pc # "none" => a.id # 0 /\ b.remote = a.id /\ b.rwin = XWindow
        /\ a.remote # 0 => a.remote = b.id /\ a.rwin = XWindow
        /\ a.thr # "none" \/ a.pc = "callback" => a.remote # 0
    BY <1>5, <1>8, <2>4 DEF Partners
  <2>6. b.pc \notin Undecided /\ (m.op = "established" => m.from = b.id /\ m.from # 0 /\ m.win = XWindow)
    BY <1>3, <1>4, <2>4
  <2>7. l.id = a.id /\ l.thr = a.thr
    BY <1>7, <2>4
  <2>8. SUFFICES /\ b.pc # "none" => l.id # 0 /\ b.remote = l.id /\ b.rwin = XWindow
                 /\ l.remote # 0 => l.remote = b.id /\ l.rwin = XWindow
                 /\ l.thr # "none" \/ l.pc = "callback" => l.remote # 0
    BY <2>1, <2>4, <2>6 DEF Partners
  <2>2. CASE m.op = "established" /\ l.pc = "callback" /\ l.remote = m.from /\ l.rwin = m.win
    BY <2>2, <2>5, <2>6, <2>7
  <2>3. CASE l.pc \in {"remove", "left"} /\ l.remote = xline[q].remote /\ l.rwin = xline[q].rwin
    BY <2>3, <2>4, <2>5, <2>7
  <2> QED BY <2>2, <2>3, <1>7
<1>17. <<>> \in Seq(XMsg) /\ Members(<<>>) = {}
  BY FewMembers
<1>18. Moves(s, Tail(xnet[s]), <<>>) /\ Cut(Tail(xnet[s]), xnet[s])
  BY <1>1, <1>17, TakeMoves
<1>19. \A x \in Members(Tail(xnet[s])) \cup Members(xnet[Opposite(s)]) : x.op \in Deciding => x.conn # c
  BY <1>1, <1>4, HeadDecides
<1>20. MessagesOk'
  BY <1>14, <1>15, <1>17, <1>18, <1>19, MessagesStep
<1>21. OneDecision'
  <2>1. Once(<<>>)
    <3>1. Len(<<>>) = 0 /\ 1..0 = {}
      OBVIOUS
    <3> QED BY <3>1 DEF Once
  <2> QED BY <1>1, <1>17, <1>18, <2>1, DecisionStep
<1>22. ASSUME NEW x \in XObjects PROVE Reaches(s, Tail(xnet[s]), <<>>, x)
  <2>1. Silent(Head(xnet[s]))
    BY DEF Silent
  <2> QED BY <2>1, <1>17, SilentNothing DEF Reaches, NothingLost
<1>23. \A d \in 1..XConnects : Partners(d)'
  BY <1>15, <1>16
<1> QED BY <1>6, <1>11, <1>12, <1>13, <1>17, <1>18, <1>20, <1>21, <1>22, <1>23, CalmStep

(* Line_ConnectionAnswer. *)
LEMMA ConnectionAnswerStep == ASSUME XInv, NEW s \in XSides, ConnectionAnswer(s) PROVE XInv'
<1>1. PICK m : m = Head(xnet[s])
  OBVIOUS
<1>2. xnet[s] # <<>> /\ xside[s].phase = "run" /\ m.op \in {"threaded", "established", "refused"} /\ XTypes
  BY <1>1 DEF ConnectionAnswer, Receives, XInv
<1>3. m \in XMsg /\ UNCHANGED <<xside, xup, xmap, xempty, xused>> /\ Silent(m)
  BY <1>1, <1>2, HeadOk DEF ConnectionAnswer, Silent
<1>4. CASE ~KnownLine(s, m.to)
  <2>1. TakeAnd(s, <<Termination(m)>>) /\ UNCHANGED xline
    BY <1>1, <1>4 DEF ConnectionAnswer
  <2>2. <<Termination(m)>> \in Seq(XMsg) /\ HarmlessApp(<<Termination(m)>>)
    BY <1>3, TerminationHarmless, FewHarmless
  <2> QED BY <2>1, <2>2, <1>1, <1>2, <1>3, TakenStep
<1>5. CASE KnownLine(s, m.to) /\ m.op = "threaded" /\ UNCHANGED xline
  <2>1. TakeAnd(s, <<>>)
    BY <1>1, <1>5 DEF ConnectionAnswer
  <2> QED BY <2>1, <1>1, <1>2, <1>3, <1>5, FewMembers, FewHarmless, TakenStep
<1>6. CASE KnownLine(s, m.to) /\ ~(m.op = "threaded" /\ UNCHANGED xline)
  <2>1. TakeAnd(s, <<>>)
    BY <1>1, <1>6 DEF ConnectionAnswer
  <2>2. PICK q \in XObjects : q = xmap[s][m.to]
    BY <1>6, KnownInMap
  <2>3. xline[q] \in XLine
    BY <1>2 DEF XTypes
  <2>4. CASE m.op = "established" /\ Change(q, [xline[q] EXCEPT !.pc = "callback", !.remote = m.from, !.rwin = m.win])
    <3>1. PICK l : l = [xline[q] EXCEPT !.pc = "callback", !.remote = m.from, !.rwin = m.win]
      OBVIOUS
    <3>2. m.from \in XIdOr0 /\ m.win \in Nat
      BY <1>3 DEF XMsg
    <3>3. /\ l \in XLine /\ l.id = xline[q].id /\ l.again = xline[q].again /\ l.ufin = xline[q].ufin /\ l.thr = xline[q].thr
          /\ l.buf = xline[q].buf /\ l.got = xline[q].got /\ l.given = xline[q].given
          /\ l.unproc = xline[q].unproc /\ l.piece = xline[q].piece /\ l.pc = "callback" /\ l.remote = m.from /\ l.rwin = m.win
      BY <2>3, <3>1, <3>2 DEF XLine, Registered
    <3>4. Change(q, l)
      BY <2>4, <3>1
    <3> QED BY <1>1, <1>2, <1>3, <1>6, <2>1, <2>2, <2>4, <3>3, <3>4, AnsweredStep
  <2>5. ASSUME NEW pc \in {"remove", "left"}, m.op = "refused", Change(q, [xline[q] EXCEPT !.pc = pc]) PROVE XInv'
    <3>1. PICK l : l = [xline[q] EXCEPT !.pc = pc]
      OBVIOUS
    <3>3. /\ l \in XLine /\ l.id = xline[q].id /\ l.again = xline[q].again /\ l.ufin = xline[q].ufin /\ l.thr = xline[q].thr
          /\ l.buf = xline[q].buf /\ l.got = xline[q].got /\ l.given = xline[q].given
          /\ l.unproc = xline[q].unproc /\ l.piece = xline[q].piece /\ l.pc \in {"remove", "left"}
          /\ l.remote = xline[q].remote /\ l.rwin = xline[q].rwin
      BY <2>3, <3>1 DEF XLine, Registered
    <3>4. Change(q, l)
      BY <2>5, <3>1
    <3> QED BY <1>1, <1>2, <1>3, <1>6, <2>1, <2>2, <2>5, <3>3, <3>4, AnsweredStep
  <2>6. \/ m.op = "established" /\ Change(q, [xline[q] EXCEPT !.pc = "callback", !.remote = m.from, !.rwin = m.win])
        \/ m.op = "refused" /\ Change(q, [xline[q] EXCEPT !.pc = IF "failed" \in XCallbacks THEN "remove" ELSE "left"])
    BY <1>1, <1>6, <2>2 DEF ConnectionAnswer
  <2> QED BY <2>4, <2>5, <2>6
<1> QED BY <1>4, <1>5, <1>6

(* The callbacks and the end of a line's handler. *)
LEMMA CalmHarmless ==
  ASSUME XInv, NEW q \in XObjects, NEW l \in XLine, Change(q, l), UNCHANGED <<xside, xup, xmap, xempty, xused>>,
         LineKeeps(q, l), CalmFlow(q, l), CalmPartner(q, l),
         NEW app \in Seq(XMsg), HarmlessApp(app), Moves(q[1], xnet[q[1]], app)
  PROVE  XInv'
<1>1. XTypes /\ q[1] \in XSides /\ Cut(xnet[q[1]], xnet[q[1]])
  BY Pairs DEF XInv, Cut
<1>2. OnlyLine(q, l)
  BY LineNow
<1>3. (\A c \in 1..XConnects : Partners(c)' /\ Gentle(c)) /\ IdsKept
  BY <1>2, CalmLine DEF OnlyLine, LineKeeps
<1>4. \A m \in Members(app) : m.op \notin Deciding /\ MessageOk(Opposite(q[1]), m)'
  BY HarmlessOk DEF HarmlessApp, Harmless
<1>5. MessagesOk' /\ OneDecision'
  BY <1>1, <1>3, <1>4, NoDecisionStep
<1>6. \A x \in XObjects : InMap(x) => Reaches(q[1], xnet[q[1]], app, x)
  BY SilentNothing DEF Reaches, HarmlessApp, Harmless, NothingLost
<1>7. SidesKept
  BY <1>1, SidesSame
<1> QED BY <1>1, <1>3, <1>5, <1>6, <1>7, CalmStep

LEMMA HandlerStep == ASSUME XInv, NEW q \in XObjects, HandlerConnection(q) PROVE XInv'
<1>1. XTypes /\ q[1] = "A" /\ q[1] \in XSides /\ xline[q].pc = "callback" /\ UNCHANGED <<xside, xnet, xup, xmap, xempty, xused>>
  BY Pairs DEF XInv, HandlerConnection, At
<1>2. xline[q] \in XLine /\ StageOf(q, xline[q]) /\ xside[q[1]].phase # "greet" /\ xline[q].unproc \in Nat /\ xline[q].piece \in Nat
  BY <1>1, NotGreet, LineTyped DEF XInv, LineStage
<1>3. PICK l1, l2 : l1 = [xline[q] EXCEPT !.pc = "window", !.thr = "pop"] /\ l2 = xline'[q]
  OBVIOUS
<1>4. ASSUME NEW pc \in {"left", "term"}, NEW l, l = [xline[q] EXCEPT !.pc = pc] PROVE l \in XLine /\ LineKeeps(q, l) /\ CalmFlow(q, l) /\ CalmPartner(q, l)
  <2>1. /\ l \in XLine /\ l.pc = pc /\ l.id = xline[q].id /\ l.again = xline[q].again /\ l.ufin = xline[q].ufin /\ l.thr = xline[q].thr
        /\ l.buf = xline[q].buf /\ l.got = xline[q].got /\ l.given = xline[q].given /\ l.remote = xline[q].remote
        /\ l.rwin = xline[q].rwin /\ l.unproc = xline[q].unproc /\ l.piece = xline[q].piece
    BY <1>2, <1>4 DEF XLine, Registered
  <2>2. StageOf(q, l)
    BY <1>1, <1>2, <2>1 DEF StageOf, Registered
  <2>3. LineKeeps(q, l)
    BY <1>1, <1>2, <2>1, <2>2 DEF LineKeeps, Registered
  <2>4. CalmFlow(q, l)
    BY <1>2, <2>1 DEF CalmFlow
  <2>5. CalmPartner(q, l)
    BY <1>1, <2>1 DEF CalmPartner, Undecided
  <2> QED BY <2>1, <2>3, <2>4, <2>5
<1>5. ASSUME NEW l, l = [xline[q] EXCEPT !.pc = "window", !.thr = "pop"] PROVE l \in XLine /\ LineKeeps(q, l) /\ CalmFlow(q, l) /\ CalmPartner(q, l)
  <2>1. /\ l \in XLine /\ l.pc = "window" /\ l.id = xline[q].id /\ l.again = xline[q].again /\ l.ufin = xline[q].ufin /\ l.thr = "pop"
        /\ l.buf = xline[q].buf /\ l.got = xline[q].got /\ l.given = xline[q].given /\ l.remote = xline[q].remote
        /\ l.rwin = xline[q].rwin /\ l.unproc = xline[q].unproc /\ l.piece = xline[q].piece
    BY <1>2, <1>5 DEF XLine, Registered
  <2>2. StageOf(q, l)
    BY <1>1, <1>2, <2>1 DEF StageOf, Registered
  <2>3. LineKeeps(q, l)
    BY <1>1, <1>2, <2>1, <2>2 DEF LineKeeps, Registered
  <2>4. CalmFlow(q, l)
    <3>1. xline[q].thr # "out"
      BY <1>1, <1>2 DEF StageOf
    <3> QED BY <1>2, <2>1, <3>1 DEF CalmFlow
  <2>5. CalmPartner(q, l)
    BY <1>1, <2>1 DEF CalmPartner, Undecided
  <2> QED BY <2>1, <2>3, <2>4, <2>5
<1>6. \E l : l \in XLine /\ LineKeeps(q, l) /\ CalmFlow(q, l) /\ CalmPartner(q, l) /\ Change(q, l)
  <2>1. \/ Change(q, [xline[q] EXCEPT !.pc = "left"]) \/ Change(q, [xline[q] EXCEPT !.pc = "term"])
        \/ Change(q, [xline[q] EXCEPT !.pc = "window", !.thr = "pop"])
    BY DEF HandlerConnection
  <2> QED BY <2>1, <1>4, <1>5
<1>7. PICK l \in XLine : LineKeeps(q, l) /\ CalmFlow(q, l) /\ CalmPartner(q, l) /\ Change(q, l)
  BY <1>6
<1>8. Moves(q[1], xnet[q[1]], <<>>) /\ <<>> \in Seq(XMsg)
  BY <1>1, StillMoves
<1> QED BY <1>1, <1>7, <1>8, FewHarmless, CalmHarmless

LEMMA CountStep == ASSUME XInv, NEW q \in XObjects, CountSent(q) PROVE XInv'
<1>1. XTypes /\ q[1] \in XSides /\ xline[q].pc = "sent" /\ UNCHANGED <<xside, xnet, xup, xmap, xempty, xused>>
  BY Pairs DEF XInv, CountSent, At
<1>2. xline[q] \in XLine /\ StageOf(q, xline[q]) /\ xside[q[1]].phase # "greet" /\ xline[q].unproc \in Nat /\ xline[q].piece \in Nat
  BY <1>1, NotGreet, LineTyped DEF XInv, LineStage
<1>2a. PICK n : n = xline[q].unproc + xline[q].piece
  OBVIOUS
<1>2b. n \in Nat
  BY <1>2, <1>2a
<1>3. PICK l : l = [xline[q] EXCEPT !.pc = "window", !.unproc = n, !.piece = 0]
  OBVIOUS
<1>4. /\ l \in XLine /\ l.pc = "window" /\ l.id = xline[q].id /\ l.again = xline[q].again /\ l.ufin = xline[q].ufin /\ l.thr = xline[q].thr
      /\ l.buf = xline[q].buf /\ l.got = xline[q].got /\ l.given = xline[q].given /\ l.remote = xline[q].remote
      /\ l.rwin = xline[q].rwin /\ l.unproc = n /\ l.piece = 0
  BY <1>2, <1>2b, <1>3 DEF XLine, Registered
<1>5. StageOf(q, l)
  BY <1>1, <1>2, <1>4 DEF StageOf, Registered
<1>6. LineKeeps(q, l)
  BY <1>1, <1>2, <1>4, <1>5 DEF LineKeeps, Registered
<1>7. CalmFlow(q, l)
  BY <1>2, <1>2a, <1>4 DEF CalmFlow
<1>8. CalmPartner(q, l)
  BY <1>1, <1>4 DEF CalmPartner, Undecided
<1>9. Change(q, l)
  BY <1>2a, <1>3 DEF CountSent
<1>10. Moves(q[1], xnet[q[1]], <<>>) /\ <<>> \in Seq(XMsg)
  BY <1>1, StillMoves
<1> QED BY <1>1, <1>4, <1>6, <1>7, <1>8, <1>9, <1>10, FewHarmless, CalmHarmless

LEMMA TerminationStep == ASSUME XInv, NEW q \in XObjects, SendTermination(q) PROVE XInv'
<1>1. /\ XTypes /\ q[1] \in XSides /\ (xline[q].pc = "term" \/ (xline[q].pc = "join" /\ xline[q].thr = "out"))
      /\ UNCHANGED <<xside, xup, xmap, xempty, xused>>
  BY Pairs DEF XInv, SendTermination, At
<1>2. xline[q] \in XLine /\ StageOf(q, xline[q]) /\ xside[q[1]].phase # "greet" /\ xline[q].unproc \in Nat /\ xline[q].piece \in Nat
      /\ xline[q].remote \in XIdOr0 /\ xline[q].id \in XIdOr0
  BY <1>1, NotGreet, LineTyped DEF XInv, LineStage
<1>3. PICK l : l = [xline[q] EXCEPT !.pc = "remove"]
  OBVIOUS
<1>4. /\ l \in XLine /\ l.pc = "remove" /\ l.id = xline[q].id /\ l.again = xline[q].again /\ l.ufin = xline[q].ufin /\ l.thr = xline[q].thr
      /\ l.buf = xline[q].buf /\ l.got = xline[q].got /\ l.given = xline[q].given /\ l.remote = xline[q].remote
      /\ l.rwin = xline[q].rwin /\ l.unproc = xline[q].unproc /\ l.piece = xline[q].piece
  BY <1>2, <1>3 DEF XLine, Registered
<1>5. StageOf(q, l)
  BY <1>1, <1>2, <1>4 DEF StageOf, Registered
<1>6. LineKeeps(q, l)
  BY <1>1, <1>2, <1>4, <1>5 DEF LineKeeps, Registered
<1>7. CalmFlow(q, l)
  BY <1>2, <1>4 DEF CalmFlow
<1>8. CalmPartner(q, l)
  BY <1>1, <1>4 DEF CalmPartner, Undecided
<1>9. Change(q, l)
  BY <1>3 DEF SendTermination
<1>10. PICK a : a = <<LineData(xline[q], <<>>)>>
  OBVIOUS
<1>11. a \in Seq(XMsg) /\ HarmlessApp(a)
  <2>1. <<>> \in Seq(XByte)
    OBVIOUS
  <2>2. LineData(xline[q], <<>>) \in XMsg /\ LineData(xline[q], <<>>).op = "data" /\ LineData(xline[q], <<>>).bytes = <<>>
    BY <2>1, <1>2, LineDataTyped
  <2>3. Harmless(LineData(xline[q], <<>>))
    BY <2>2 DEF Harmless, Silent, Deciding
  <2> QED BY <2>2, <2>3, <1>10, FewHarmless
<1>12. Sends(q[1], a)
  BY <1>10 DEF SendTermination
<1>13. PICK app \in {a, <<>>} : Moves(q[1], xnet[q[1]], app) /\ app \in Seq(XMsg)
  BY <1>1, <1>11, <1>12, SendsMoves
<1>14. HarmlessApp(app)
  BY <1>11, <1>13, FewHarmless
<1> QED BY <1>1, <1>4, <1>6, <1>7, <1>8, <1>9, <1>13, <1>14, CalmHarmless

LEMMA CallbackStep == ASSUME XInv, NEW q \in XObjects, AcceptCallback(q) PROVE XInv'
<1>1. XTypes /\ q[1] = "B" /\ q[1] \in XSides /\ xline[q].pc = "callback" /\ UNCHANGED <<xside, xup, xmap, xempty, xused>>
  BY Pairs DEF XInv, AcceptCallback, At
<1>2. xline[q] \in XLine /\ StageOf(q, xline[q]) /\ xside[q[1]].phase # "greet" /\ xline[q].unproc \in Nat /\ xline[q].piece \in Nat
      /\ xline[q].remote \in XIdOr0 /\ xline[q].id \in XIdOr0
  BY <1>1, NotGreet, LineTyped DEF XInv, LineStage
<1>3. PICK c \in 1..XConnects : c = q[2] /\ q = Asked(c) /\ Asker(c) \in XObjects /\ Asker(c) # q
  <2>1. q[2] \in 1..XConnects /\ q = <<q[1], q[2]>>
    BY Pairs
  <2>2. PICK c \in 1..XConnects : c = q[2]
    BY <2>1
  <2> QED BY <2>1, <2>2, <1>1, EndsOf DEF Asked
<1>4. ASSUME NEW l \in XLine, Change(q, l), LineKeeps(q, l), CalmFlow(q, l), CalmPartner(q, l), l.pc \notin Undecided,
             NEW op \in {"established", "refused"}, NEW from \in XIdOr0, NEW win \in Nat,
             op = "established" => from = l.id /\ from # 0 /\ win = XWindow,
             Sends("B", <<Answer(xline[q].remote, from, op, win, c)>>)
      PROVE  XInv'
  <2>1. PICK a : a = Answer(xline[q].remote, from, op, win, c)
    OBVIOUS
  <2>2. a \in XMsg /\ a.op = op /\ a.to = xline[q].remote /\ a.conn = c /\ a.from = from /\ a.win = win
    <3>1. c \in 0..XConnects /\ op \in XOps
      BY XSizes DEF XOps, Deciding
    <3> QED BY <2>1, <3>1, <1>2, AnswerTyped
  <2>3. <<a>> \in Seq(XMsg) /\ Sends("B", <<a>>) /\ "B" \in XSides
    BY <2>1, <2>2, <1>1, <1>4, FewMembers
  <2>3a. PICK ms : ms = <<a>>
    OBVIOUS
  <2>3c. ms \in Seq(XMsg) /\ Sends(q[1], ms)
    BY <2>3, <2>3a, <1>1
  <2>3d. \E app \in {ms, <<>>} : Moves(q[1], xnet[q[1]], app) /\ app \in Seq(XMsg) /\ Cut(xnet[q[1]], xnet[q[1]])
    BY <2>3c, <1>1, SendsMoves
  <2>3b. \E app \in {ms, <<>>} : Moves("B", xnet["B"], app) /\ app \in Seq(XMsg) /\ Cut(xnet["B"], xnet["B"])
    BY <2>3d, <1>1
  <2>4. PICK app \in {<<a>>, <<>>} : Moves("B", xnet["B"], app) /\ Cut(xnet["B"], xnet["B"])
    BY <2>3a, <2>3b
  <2>5. OnlyLine(q, l)
    BY <1>4, LineNow
  <2>6. (\A d \in 1..XConnects : Partners(d)' /\ Gentle(d)) /\ IdsKept
    BY <1>4, <2>5, CalmLine DEF OnlyLine, LineKeeps
  <2>7. xline'[Asker(c)] = xline[Asker(c)] /\ xline'[Asked(c)] = l /\ xline[Asked(c)].pc \in Undecided
    BY <2>5, <1>1, <1>3 DEF OnlyLine, Undecided
  <2>8. MessagesOk' /\ OneDecision' /\ (\A x : Reaches("B", xnet["B"], app, x)) /\ app \in Seq(XMsg)
    BY <2>2, <2>4, <2>6, <2>7, <1>3, <1>4, DecisionSent
  <2>9. SidesKept
    BY <1>1, SidesSame
  <2> QED BY <2>3, <2>4, <2>6, <2>8, <2>9, <1>1, <1>4, CalmStep
<1>5. CASE /\ Change(q, [xline[q] EXCEPT !.pc = "window", !.thr = "pop"])
           /\ Sends("B", <<Answer(xline[q].remote, xline[q].id, "established", XWindow, q[2])>>)
  <2>0. PICK l : l = [xline[q] EXCEPT !.pc = "window", !.thr = "pop"]
    OBVIOUS
  <2>1. /\ l \in XLine /\ l.pc = "window" /\ l.id = xline[q].id /\ l.again = xline[q].again /\ l.ufin = xline[q].ufin /\ l.thr = "pop"
        /\ l.buf = xline[q].buf /\ l.got = xline[q].got /\ l.given = xline[q].given /\ l.remote = xline[q].remote
        /\ l.rwin = xline[q].rwin /\ l.unproc = xline[q].unproc /\ l.piece = xline[q].piece
    BY <1>2, <2>0 DEF XLine, Registered
  <2>2. StageOf(q, l)
    BY <1>1, <1>2, <2>1 DEF StageOf, Registered
  <2>3. LineKeeps(q, l)
    BY <1>1, <1>2, <2>1, <2>2 DEF LineKeeps, Registered
  <2>4. CalmFlow(q, l)
    <3>1. xline[q].thr # "out"
      BY <1>1, <1>2 DEF StageOf
    <3> QED BY <1>2, <2>1, <3>1 DEF CalmFlow
  <2>5. CalmPartner(q, l)
    BY <1>1, <2>1 DEF CalmPartner, Undecided
  <2>6. l.pc \notin Undecided /\ Change(q, l) /\ xline[q].id = l.id /\ l.id # 0 /\ XWindow \in Nat
    BY <2>0, <2>1, <2>2, <1>5, XSizes DEF Undecided, StageOf, Registered
  <2>7. Sends("B", <<Answer(xline[q].remote, xline[q].id, "established", XWindow, c)>>)
    BY <1>3, <1>5
  <2> QED BY <2>1, <2>3, <2>4, <2>5, <2>6, <2>7, <1>2, <1>4
<1>6. CASE /\ Change(q, [xline[q] EXCEPT !.pc = "remove"])
           /\ Sends("B", <<Answer(xline[q].remote, 0, "refused", 0, q[2])>>)
  <2>0. PICK l : l = [xline[q] EXCEPT !.pc = "remove"]
    OBVIOUS
  <2>1. /\ l \in XLine /\ l.pc = "remove" /\ l.id = xline[q].id /\ l.again = xline[q].again /\ l.ufin = xline[q].ufin /\ l.thr = xline[q].thr
        /\ l.buf = xline[q].buf /\ l.got = xline[q].got /\ l.given = xline[q].given /\ l.remote = xline[q].remote
        /\ l.rwin = xline[q].rwin /\ l.unproc = xline[q].unproc /\ l.piece = xline[q].piece
    BY <1>2, <2>0 DEF XLine, Registered
  <2>2. StageOf(q, l)
    BY <1>1, <1>2, <2>1 DEF StageOf, Registered
  <2>3. LineKeeps(q, l)
    BY <1>1, <1>2, <2>1, <2>2 DEF LineKeeps, Registered
  <2>4. CalmFlow(q, l)
    BY <1>2, <2>1 DEF CalmFlow
  <2>5. CalmPartner(q, l)
    BY <1>1, <2>1 DEF CalmPartner, Undecided
  <2>6. l.pc \notin Undecided /\ Change(q, l) /\ 0 \in XIdOr0 /\ 0 \in Nat
    BY <2>0, <2>1, <1>6 DEF Undecided, XIdOr0
  <2>7. Sends("B", <<Answer(xline[q].remote, 0, "refused", 0, c)>>)
    BY <1>3, <1>6
  <2> QED BY <2>1, <2>3, <2>4, <2>5, <2>6, <2>7, <1>2, <1>4
<1> QED BY <1>5, <1>6 DEF AcceptCallback

-----------------------------------------------------------------------------
(* Steps that move bytes: one line changes, and what another line has or is sent is not touched. *)

(* Flow and window of a line that is neither end of the one that changes. *)
LEMMA FlowOther ==
  ASSUME XInv, XTypes', NEW q \in XObjects, NEW l, OnlyLine(q, l), StopsOnly,
         NEW s \in XSides, NEW new, Cut(new, xnet[s]), NEW app \in Seq(XMsg), Moves(s, new, app),
         NEW o \in XObjects, o # q, o # OtherEnd(q), ReachesEnds(s, new, app, o)
  PROVE  Flow(o)' /\ Window(o)'
<1>1. PICK p : p = OtherEnd(o) /\ p \in XObjects /\ p # q
  BY Pairs
<1>2. xline'[o] = xline[o] /\ xline'[p] = xline[p]
  BY <1>1 DEF OnlyLine
<1>3. XTypes /\ xline[p].unproc \in Nat /\ xline[p].piece \in Nat
  BY <1>1, LineTyped DEF XInv
<1>4. LineSame(o)
  BY <1>2 DEF LineSame, InMap
<1>5. SenderSame(p)
  BY <1>2, <1>3 DEF SenderSame, InMap
<1>6. FreshKept(o)
  BY <1>1, <1>2 DEF FreshKept, FreshIds
<1> QED BY <1>1, <1>2, <1>4, <1>5, <1>6, FlowKeptAt

LEMMA BusyFacts ==
  ASSUME XInv, NEW q \in XObjects, NEW l \in XLine, Change(q, l), UNCHANGED <<xside, xup, xmap, xempty, xused>>, LineKeeps(q, l),
         NEW s \in XSides, NEW new, Cut(new, xnet[s]), NEW app \in Seq(XMsg), Moves(s, new, app)
  PROVE  /\ XTypes /\ XTypes' /\ OnlyLine(q, l) /\ StopsOnly /\ SidesKept /\ (\A o \in XObjects : FreshKept(o))
         /\ MapExact' /\ FirstOfId' /\ (\A t \in XSides : SidePhase(t)') /\ (\A o \in XObjects : LineStage(o)')
<1>1. XTypes
  BY DEF XInv
<1>2. SidesKept /\ StopsOnly
  BY <1>1, SidesSame DEF StopsOnly
<1>3. xnet' \in [XSides -> Seq(XMsg)]
  BY <1>1, MoveNets
<1>4. XTypes' /\ OnlyLine(q, l) /\ MapExact' /\ FirstOfId' /\ (\A t \in XSides : SidePhase(t)') /\ (\A o \in XObjects : LineStage(o)')
  BY <1>2, <1>3, OneLine DEF OnlyLine
<1>5. ASSUME NEW o \in XObjects PROVE FreshKept(o)
  <2>1. OtherEnd(o) \in XObjects
    BY Pairs
  <2> QED BY <2>1, <1>4 DEF FreshKept, FreshIds, OnlyLine, LineKeeps
<1> QED BY <1>1, <1>2, <1>4, <1>5

(* Such a step keeps the invariant when both ends of its own connection keep theirs. *)
LEMMA BusyStep ==
  ASSUME XInv, NEW q \in XObjects, NEW l \in XLine, Change(q, l), UNCHANGED <<xside, xup, xmap, xempty, xused>>,
         LineKeeps(q, l), CalmPartner(q, l),
         NEW s \in XSides, NEW new, Cut(new, xnet[s]), NEW app \in Seq(XMsg), Moves(s, new, app),
         \A m \in Members(app) : m.op \notin Deciding /\ MessageOk(Opposite(s), m)',
         \A o \in XObjects : o # q /\ o # OtherEnd(q) => ReachesEnds(s, new, app, o),
         \A o \in XObjects : GotInOrder(o)', Flow(q)' /\ Window(q)', Flow(OtherEnd(q))' /\ Window(OtherEnd(q))'
  PROVE  XInv'
<1>1. /\ XTypes /\ XTypes' /\ OnlyLine(q, l) /\ StopsOnly
      /\ MapExact' /\ FirstOfId' /\ (\A t \in XSides : SidePhase(t)') /\ (\A o \in XObjects : LineStage(o)')
  BY BusyFacts
<1>2. (\A c \in 1..XConnects : Partners(c)' /\ Gentle(c)) /\ IdsKept
  BY <1>1, CalmLine DEF OnlyLine, LineKeeps
<1>3. MessagesOk' /\ OneDecision'
  BY <1>2, NoDecisionStep
<1>4. ASSUME NEW o \in XObjects PROVE Flow(o)' /\ Window(o)'
  <2>1. CASE o = q
    BY <2>1
  <2>2. CASE o = OtherEnd(q)
    BY <2>2
  <2>3. CASE o # q /\ o # OtherEnd(q)
    BY <2>3, <1>1, FlowOther
  <2> QED BY <2>1, <2>2, <2>3
<1> QED BY <1>1, <1>2, <1>3, <1>4 DEF XInv

(* The other end is known once a line has a thread. *)
LEMMA RemoteKnown ==
  ASSUME XInv, NEW q \in XObjects, xline[q].thr # "none"
  PROVE  xline[q].remote = xline[OtherEnd(q)].id /\ xline[q].remote # 0 /\ xline[q].rwin = XWindow
<1>1. q[1] \in {"A", "B"} /\ q[2] \in 1..XConnects /\ q = <<q[1], q[2]>>
  BY Pairs DEF XSides
<1>2. PICK c \in 1..XConnects : c = q[2]
  BY <1>1
<1>3. Partners(c) /\ StageOf(q, xline[q])
  BY DEF XInv, LineStage
<1>4. CASE q[1] = "A"
  <2>1. q = Asker(c) /\ OtherEnd(q) = Asked(c)
    BY <1>1, <1>2, <1>4, EndsOf DEF Asker
  <2> QED BY <2>1, <1>3 DEF Partners
<1>5. CASE q[1] = "B"
  <2>1. q = Asked(c) /\ OtherEnd(q) = Asker(c)
    BY <1>1, <1>2, <1>5, EndsOf DEF Asked
  <2>2. xline[q].pc # "none"
    BY <1>3 DEF StageOf
  <2> QED BY <2>1, <2>2, <1>3 DEF Partners
<1> QED BY <1>1, <1>4, <1>5

(* What a line sends to its other end reaches no other line. *)
LEMMA SentOthers ==
  ASSUME XInv, NEW q \in XObjects, NEW app, \A m \in Members(app) : m.to = xline[q].remote,
         NEW o \in XObjects, o # q, o # OtherEnd(q)
  PROVE  ReachesEnds(q[1], xnet[q[1]], app, o)
<1>1. SUFFICES ASSUME FreshIds(o), NEW x \in {o, OtherEnd(o)}, InMap(x) PROVE Reaches(q[1], xnet[q[1]], app, x)
  BY DEF ReachesEnds
<1>2. x \in XObjects /\ x # OtherEnd(q) /\ ~xline[x].again /\ x[1] \in XSides /\ q[1] \in XSides
  BY <1>1, Pairs DEF FreshIds
<1>3. NothingLost(q[1], xnet[q[1]], x)
  BY DEF NothingLost
<1>4. ASSUME x[1] # q[1], NEW m \in Members(app) PROVE NothingTo(m, x)
  <2>1. x[1] = Opposite(q[1])
    BY <1>2, <1>4 DEF XSides, Opposite
  <2>2. xline[x].id # m.to
    BY <2>1, <1>1, <1>2, Addressed
  <2> QED BY <2>2 DEF NothingTo, BytesFor, AcksFor
<1> QED BY <1>3, <1>4 DEF Reaches

(* What is taken for a registered line was for no other line. *)
LEMMA TakenOthers ==
  ASSUME XInv, NEW s \in XSides, xnet[s] # <<>>, NEW q \in XObjects, KnownLine(s, Head(xnet[s]).to), q = xmap[s][Head(xnet[s]).to],
         NEW o \in XObjects, o # q, o # OtherEnd(q)
  PROVE  ReachesEnds(s, Tail(xnet[s]), <<>>, o)
<1>1. SUFFICES ASSUME NEW x \in {o, OtherEnd(o)}, InMap(x) PROVE Reaches(s, Tail(xnet[s]), <<>>, x)
  BY DEF ReachesEnds
<1>2. x \in XObjects /\ x # q
  BY <1>1, Pairs
<1>3. x[1] = s => xline[x].id # Head(xnet[s]).to
  BY <1>1, <1>2, InMapKnown
<1>4. x[1] = s => NothingTo(Head(xnet[s]), x)
  BY <1>3 DEF NothingTo, BytesFor, AcksFor
<1> QED BY <1>4, FewMembers DEF Reaches, NothingLost

(* While the flow holds, what is written comes from it. *)
LEMMA GotAll ==
  ASSUME XInv, XTypes', NEW q \in XObjects, NEW l, OnlyLine(q, l), \A o \in XObjects : FreshKept(o), xline[q].given <= l.given,
         NEW o \in XObjects, o # q \/ l.got = xline[q].got
  PROVE  GotInOrder(o)'
<1>1. PICK p : p = OtherEnd(o) /\ p \in XObjects
  BY Pairs
<1>2. XTypes /\ xline[p].given \in Nat
  BY <1>1, LineTyped DEF XInv
<1>3. xline'[o].got = xline[o].got
  BY DEF OnlyLine
<1>4. xline[p].given <= xline'[p].given
  <2>1. CASE p = q
    BY <2>1 DEF OnlyLine
  <2>2. CASE p # q
    BY <2>2, <1>1, <1>2 DEF OnlyLine
  <2> QED BY <2>1, <2>2
<1> QED BY <1>1, <1>3, <1>4, GotKept

(* What a line has received or will. *)
Pending(o) == xline[o].got \o (FlattenSeq(xline[o].buf) \o Carried(xnet[o[1]], xline[o].id))

(* The same bytes, written, in the buffer or on their way: the same flow. *)
LEMMA FlowEq ==
  ASSUME XInv, NEW o \in XObjects, InMap(o)' => InMap(o), xline'[o].thr # "out" => xline[o].thr # "out", FreshKept(o), StopsOnly,
         xline[OtherEnd(o)].given = xline'[OtherEnd(o)].given, xline'[o].thr # "out" => Pending(o)' = Pending(o)
  PROVE  Flow(o)'
<1>1. SUFFICES ASSUME InMap(o)', FreshIds(o)', xline'[o].thr # "out" PROVE Flow(o)'
  BY DEF Flow
<1>2. InMap(o) /\ FreshIds(o) /\ xline[o].thr # "out" /\ Flow(o) /\ o[1] \in XSides
  BY <1>1, Pairs DEF FreshKept, XInv
<1>3. FlowOk(OtherEnd(o), Pending(o), xline[OtherEnd(o)].given, xside[o[1]].phase = "run")
  BY <1>2 DEF Flow, Pending
<1>4. FlowOk(OtherEnd(o), Pending(o)', xline'[OtherEnd(o)].given, xside'[o[1]].phase = "run")
  BY <1>1, <1>2, <1>3 DEF FlowOk, StopsOnly
<1> QED BY <1>4 DEF Flow, Pending

(* A window that lets go as much as it is told. *)
LEMMA WindowEq ==
  ASSUME XInv, XTypes', NEW o \in XObjects, InMap(o)' => InMap(o), FreshKept(o), StopsOnly, SenderSame(OtherEnd(o)),
         Outstanding(o)' <= Outstanding(o), Outstanding(o)' + Acks(OtherEnd(o))' <= Outstanding(o) + Acks(OtherEnd(o))
  PROVE  Window(o)'
<1>1. SUFFICES ASSUME InMap(o)', FreshIds(o)' PROVE Window(o)'
  BY DEF Window
<1>2. PICK p : p = OtherEnd(o) /\ p \in XObjects /\ p[1] \in XSides
  BY Pairs
<1>3. XTypes /\ InMap(o) /\ FreshIds(o) /\ Window(o)
  BY <1>1 DEF FreshKept, XInv
<1>4. Outstanding(o) \in Nat /\ Acks(p) \in Nat
  BY <1>2, <1>3, CarriedLine
<1>5. Outstanding(o)' \in Nat /\ Acks(p)' \in Nat
  <2>1. xnet' \in [XSides -> Seq(XMsg)] /\ xline' \in [XObjects -> XLine] /\ o[1] \in XSides
    BY Pairs DEF XTypes
  <2>2. xnet'[o[1]] \in Seq(XMsg) /\ xnet'[p[1]] \in Seq(XMsg) /\ xline'[o].buf \in Seq(Seq(XByte))
    BY <2>1, <1>2 DEF XLine
  <2>3. Carried(xnet'[o[1]], xline'[o].id) \in Seq(XByte) /\ Acked(xnet'[p[1]], xline'[p].id) \in Seq({0})
    BY <2>2, CarriedTyped
  <2>4. FlattenSeq(xline'[o].buf) \in Seq(XByte)
    BY <2>2, FlattenInSeq
  <2> QED BY <2>3, <2>4 DEF Outstanding, Acks
<1>6. Outstanding(o) <= XWindow /\ XWindow \in Nat
  BY <1>3, XSizes DEF Window
<1>7. ASSUME InMap(p)', xside'[p[1]].phase = "run"
      PROVE  Outstanding(o)' + Acks(p)' <= xline'[p].unproc + xline'[p].piece
  <2>1. InMap(p) /\ xline[p].unproc + xline[p].piece <= xline'[p].unproc + xline'[p].piece /\ xside[p[1]].phase = "run"
    BY <1>2, <1>7 DEF SenderSame, StopsOnly
  <2>2. Outstanding(o) + Acks(p) <= xline[p].unproc + xline[p].piece
    BY <2>1, <1>2, <1>3 DEF Window
  <2>3. /\ xline[p].unproc \in Nat /\ xline[p].piece \in Nat /\ xline'[p].unproc \in Nat /\ xline'[p].piece \in Nat
    BY <1>2, <1>3, LineTyped DEF XTypes, XLine
  <2>4. Outstanding(o)' + Acks(p)' <= Outstanding(o) + Acks(p)
    BY <1>2
  <2>5. ASSUME NEW a \in Nat, NEW b \in Nat, NEW u \in Nat, NEW v \in Nat, a <= b, b <= u, u <= v PROVE a <= v
    BY <2>5
  <2>6. /\ Outstanding(o)' + Acks(p)' \in Nat /\ Outstanding(o) + Acks(p) \in Nat
        /\ xline[p].unproc + xline[p].piece \in Nat /\ xline'[p].unproc + xline'[p].piece \in Nat
    BY <1>4, <1>5, <2>3
  <2> QED BY <2>1, <2>2, <2>4, <2>5, <2>6
<1>8. Outstanding(o)' <= XWindow
  BY <1>4, <1>5, <1>6
<1> QED BY <1>2, <1>7, <1>8 DEF Window

(* The other end of a line that a step changes. *)
LEMMA FlowPartner ==
  ASSUME XInv, XTypes', NEW q \in XObjects, NEW l, OnlyLine(q, l), \A o \in XObjects : FreshKept(o), StopsOnly,
         l.given = xline[q].given, CarriedSame(OtherEnd(q))
  PROVE  Flow(OtherEnd(q))'
<1>1. PICK p : p = OtherEnd(q) /\ p \in XObjects /\ p # q /\ OtherEnd(p) = q
  BY Pairs
<1>2. xline'[p] = xline[p] /\ xline'[q] = l
  BY <1>1 DEF OnlyLine
<1>3. LineSame(p)
  BY <1>2 DEF LineSame, InMap
<1>4. xline[OtherEnd(p)].given = xline'[OtherEnd(p)].given /\ FreshKept(p) /\ CarriedSame(p)
  BY <1>1, <1>2
<1>5. Flow(p)'
  BY <1>1, <1>3, <1>4, FlowBy
<1> QED BY <1>1, <1>5

LEMMA WindowPartner ==
  ASSUME XInv, XTypes', NEW q \in XObjects, NEW l, OnlyLine(q, l), \A o \in XObjects : FreshKept(o), StopsOnly,
         SenderSame(q), CarriedSame(OtherEnd(q)), InMap(q) => AckedSame(q)
  PROVE  Window(OtherEnd(q))'
<1>1. PICK p : p = OtherEnd(q) /\ p \in XObjects /\ p # q /\ OtherEnd(p) = q
  BY Pairs
<1>2. xline'[p] = xline[p] /\ xline'[q] = l
  BY <1>1 DEF OnlyLine
<1>3. LineSame(p)
  BY <1>2 DEF LineSame, InMap
<1>4. SenderSame(OtherEnd(p)) /\ FreshKept(p) /\ CarriedSame(p) /\ (InMap(p) /\ FreshIds(p) /\ InMap(OtherEnd(p)) => AckedSame(OtherEnd(p)))
  BY <1>1
<1>5. InMap(p) /\ FreshIds(p) => CarriedSame(p)
  BY <1>4
<1>6. Window(p)'
  BY <1>1, <1>3, <1>4, <1>5, WindowBy
<1> QED BY <1>1, <1>6

-----------------------------------------------------------------------------
(* Line_Data for a registered line. *)
For(s, m, q) == m = Head(xnet[s]) /\ KnownLine(s, m.to) /\ q = xmap[s][m.to]
ChangeBuf(q, bytes) == Change(q, [xline[q] EXCEPT !.buf = Append(xline[q].buf, bytes)])

LEMMA ForLine ==
  ASSUME XInv, NEW s \in XSides, xnet[s] # <<>>, NEW m, NEW q, For(s, m, q)
  PROVE  /\ q \in XObjects /\ q[1] = s /\ xline[q].id = m.to /\ InMap(q) /\ m \in XMsg
         /\ KnownLine(s, Head(xnet[s]).to) /\ q = xmap[s][Head(xnet[s]).to] /\ MessageOk(s, m) /\ m \in Members(xnet[s])
BY KnownInMap, HeadOk DEF For

(* The piece moves from the connection to the buffer. *)
LEMMA DataTaken ==
  ASSUME XInv, NEW s \in XSides, Receives(s, "data"), NEW m, NEW q \in XObjects, For(s, m, q), ChangeBuf(q, m.bytes), TakeAnd(s, <<>>),
         UNCHANGED <<xside, xup, xmap, xempty, xused>>
  PROVE  XInv'
<1>0. xnet[s] # <<>> /\ m = Head(xnet[s])
  BY DEF Receives, For
<1>1. xnet[s] # <<>> /\ m.op = "data" /\ xside[s].phase = "run" /\ XTypes /\ m \in XMsg /\ m.bytes \in Seq(XByte)
  BY <1>0, HeadOk DEF Receives, XInv, XMsg
<1>2. q \in XObjects /\ q[1] = s /\ xline[q].id = m.to /\ InMap(q)
  BY <1>1, ForLine
<1>3. PICK p : p = OtherEnd(q) /\ p \in XObjects /\ p # q /\ p[1] = Opposite(s) /\ p[1] # s /\ OtherEnd(p) = q
  BY <1>2, Pairs
<1>4. /\ xline[q] \in XLine /\ StageOf(q, xline[q]) /\ xline[q].pc \in Registered /\ xline[q].pc # "none" /\ xline[q].unproc \in Nat
      /\ xline[q].piece \in Nat /\ xline[q].buf \in Seq(Seq(XByte)) /\ xline[q].given \in Nat
  BY <1>1, <1>2, LineTyped DEF XInv, LineStage, InMap, Registered
<1>5. xside[q[1]].phase # "greet"
  BY <1>4, NotGreet
<1>6a. Append(xline[q].buf, m.bytes) \in Seq(Seq(XByte))
  BY <1>1, <1>4
<1>6. PICK b : b = Append(xline[q].buf, m.bytes) /\ b \in Seq(Seq(XByte))
  BY <1>6a, Zenon
<1>7. PICK l : l = [xline[q] EXCEPT !.buf = b]
  OBVIOUS
<1>8. /\ l \in XLine /\ l.pc = xline[q].pc /\ l.id = xline[q].id /\ l.again = xline[q].again /\ l.ufin = xline[q].ufin
      /\ l.thr = xline[q].thr /\ l.buf = b /\ l.got = xline[q].got /\ l.given = xline[q].given /\ l.remote = xline[q].remote
      /\ l.rwin = xline[q].rwin /\ l.unproc = xline[q].unproc /\ l.piece = xline[q].piece
  BY <1>4, <1>6, <1>7 DEF XLine
<1>9. StageOf(q, l)
  <2>1. l.id # 0
    BY <1>4, <1>8 DEF StageOf
  <2> QED BY <2>1, <1>4, <1>8 DEF StageOf
<1>10. LineKeeps(q, l) /\ CalmPartner(q, l)
  BY <1>4, <1>5, <1>8, <1>9 DEF LineKeeps, CalmPartner
<1>11. Change(q, l)
  BY <1>6, <1>7 DEF ChangeBuf
<1>12. <<>> \in Seq(XMsg) /\ Members(<<>>) = {}
  BY FewMembers
<1>13. Moves(s, Tail(xnet[s]), <<>>) /\ Cut(Tail(xnet[s]), xnet[s])
  BY <1>1, <1>12, TakeMoves
<1>14. XTypes' /\ OnlyLine(q, l) /\ StopsOnly /\ (\A o \in XObjects : FreshKept(o))
  BY <1>8, <1>10, <1>11, <1>12, <1>13, BusyFacts
<1>15. xnet'[s] = Tail(xnet[s]) /\ xnet[s] \in Seq(XMsg) /\ Tail(xnet[s]) \in Seq(XMsg)
  BY <1>1, <1>12, <1>13, MoveNets DEF XTypes
<1>16. /\ Carried(xnet[s], m.to) = m.bytes \o Carried(Tail(xnet[s]), m.to) /\ Acked(xnet[s], m.to) = <<>> \o Acked(Tail(xnet[s]), m.to)
  <2>1. BytesFor(m, m.to) = m.bytes /\ AcksFor(m, m.to) = <<>>
    BY <1>1 DEF BytesFor, AcksFor
  <2>2. PICK i : i = m.to
    OBVIOUS
  <2>3. /\ Carried(xnet[s], i) = BytesFor(Head(xnet[s]), i) \o Carried(Tail(xnet[s]), i)
        /\ Acked(xnet[s], i) = AcksFor(Head(xnet[s]), i) \o Acked(Tail(xnet[s]), i)
    BY <1>1, <1>15, CarriedHead
  <2> QED BY <2>1, <2>2, <2>3, <1>0
<1>17. PICK c2, a2, f : c2 = Carried(Tail(xnet[s]), m.to) /\ a2 = Acked(Tail(xnet[s]), m.to) /\ f = FlattenSeq(xline[q].buf)
  OBVIOUS
<1>18. c2 \in Seq(XByte) /\ a2 \in Seq({0}) /\ f \in Seq(XByte) /\ xline[q].got \in Seq(XByte)
  BY <1>1, <1>15, <1>17, CarriedTyped, LineTyped
<1>19. FlattenSeq(b) = f \o m.bytes
  BY <1>1, <1>4, <1>6, <1>17, FlattenAppend
<1>20. Acked(xnet'[s], xline[q].id) = Acked(xnet[s], xline[q].id)
  BY <1>2, <1>15, <1>16, <1>17, <1>18
<1>21. AckedSame(q) /\ SenderSame(q)
  BY <1>2, <1>4, <1>8, <1>14, <1>20 DEF AckedSame, SenderSame, OnlyLine, InMap
<1>22. Reaches(s, Tail(xnet[s]), <<>>, p)
  BY <1>3, <1>12 DEF Reaches
<1>23. CarriedSame(p) /\ AckedSame(p)
  BY <1>3, <1>12, <1>13, <1>22, ReachSame
<1>24. Flow(p)' /\ Window(p)'
  BY <1>3, <1>8, <1>14, <1>21, <1>23, FlowPartner, WindowPartner
<1>25. f \o (m.bytes \o c2) = (f \o m.bytes) \o c2
  <2>1. PICK y \in Seq(XByte) : y = m.bytes
    BY <1>1
  <2>2. f \o (y \o c2) = (f \o y) \o c2
    BY <1>18, SeqAssoc
  <2> QED BY <2>1, <2>2
<1>26. xline'[q] = l /\ xline'[p] = xline[p]
  BY <1>3, <1>14 DEF OnlyLine
<1>27. Flow(q)'
  <2>1. Pending(q) = xline[q].got \o (f \o (m.bytes \o c2))
    BY <1>2, <1>16, <1>17 DEF Pending
  <2>2. Pending(q)' = xline[q].got \o ((f \o m.bytes) \o c2)
    BY <1>2, <1>8, <1>15, <1>17, <1>19, <1>26 DEF Pending
  <2>3. InMap(q)' => InMap(q)
    BY <1>2
  <2>4. xline[OtherEnd(q)].given = xline'[OtherEnd(q)].given
    BY <1>3, <1>26
  <2>5. Pending(q)' = Pending(q)
    BY <2>1, <2>2, <1>25
  <2>6. xline'[q].thr # "out" => xline[q].thr # "out"
    BY <1>8, <1>26
  <2> QED BY <2>3, <2>4, <2>5, <2>6, <1>14, FlowEq
<1>28. Window(q)'
  <2>1. Outstanding(q) = Len(m.bytes \o c2) + Len(f)
    BY <1>2, <1>16, <1>17 DEF Outstanding
  <2>2. Outstanding(q)' = Len(c2) + Len(f \o m.bytes)
    BY <1>2, <1>8, <1>15, <1>17, <1>19, <1>26 DEF Outstanding
  <2>3. Len(m.bytes \o c2) = Len(m.bytes) + Len(c2) /\ Len(f \o m.bytes) = Len(f) + Len(m.bytes) /\ Len(f) \in Nat
        /\ Len(m.bytes) \in Nat /\ Len(c2) \in Nat
    BY <1>1, <1>18
  <2>4. Outstanding(q)' = Outstanding(q) /\ Outstanding(q) \in Nat
    BY <2>1, <2>2, <2>3
  <2>5. Acks(p)' = Acks(p) /\ Acks(p) \in Nat
    <3>1. xside'[p[1]] = xside[p[1]] /\ Acks(p) \in Nat
      BY <1>1, <1>3, CarriedLine
    <3>2. xnet'[p[1]] = xnet[p[1]]
      <4>0. xnet'[Opposite(s)] = xnet[Opposite(s)] \o <<>>
        BY <1>1, <1>12, <1>13, MoveNets
      <4>1. xnet'[p[1]] = xnet[p[1]] \o <<>> /\ xnet[p[1]] \in Seq(XMsg)
        BY <1>1, <1>3, <4>0, SidesOpposite DEF XTypes
      <4> QED BY <4>1
    <3> QED BY <3>1, <3>2, <1>26 DEF Acks
  <2>6. SenderSame(p)
    <3>1. xline[p].unproc \in Nat /\ xline[p].piece \in Nat
      BY <1>1, <1>3, LineTyped
    <3> QED BY <1>26, <3>1 DEF SenderSame, InMap
  <2>7. Outstanding(q)' <= Outstanding(q) /\ Outstanding(q)' + Acks(p)' <= Outstanding(q) + Acks(p)
    BY <2>4, <2>5
  <2>8. InMap(q)' => InMap(q)
    BY <1>2
  <2> QED BY <2>6, <2>7, <2>8, <1>3, <1>14, WindowEq
<1>29. \A o \in XObjects : GotInOrder(o)'
  <2>1. xline[q].given <= l.given
    BY <1>4, <1>8
  <2> QED BY <2>1, <1>8, <1>14, GotAll
<1>30. \A o \in XObjects : o # q /\ o # OtherEnd(q) => ReachesEnds(s, Tail(xnet[s]), <<>>, o)
  BY <1>1, <1>2, ForLine, TakenOthers
<1> QED BY <1>3, <1>8, <1>10, <1>11, <1>12, <1>13, <1>24, <1>27, <1>28, <1>29, <1>30, BusyStep

(* Line_Data. *)
LEMMA ArrivesStep == ASSUME XInv, NEW s \in XSides, LineDataArrives(s) PROVE XInv'
<1>1. PICK m : m = Head(xnet[s])
  OBVIOUS
<1>2. xnet[s] # <<>> /\ Receives(s, "data") /\ UNCHANGED <<xside, xup, xmap, xempty, xused>>
  BY DEF LineDataArrives, Receives
<1>3. m \in XMsg
  BY <1>1, <1>2, HeadOk
<1>4. CASE KnownLine(s, m.to) /\ Change(xmap[s][m.to], [xline[xmap[s][m.to]] EXCEPT !.buf = Append(@, m.bytes)]) /\ TakeAnd(s, <<>>)
  <2>1. PICK q \in XObjects : q = xmap[s][m.to]
    BY <1>4, KnownInMap
  <2>2. For(s, m, q) /\ ChangeBuf(q, m.bytes)
    BY <2>1, <1>1, <1>4 DEF For, ChangeBuf
  <2> QED BY <2>2, <1>2, <1>4, DataTaken
<1>5. CASE ~KnownLine(s, m.to) /\ TakeAnd(s, IF m.bytes = <<>> THEN <<>> ELSE <<Termination(m)>>) /\ UNCHANGED xline
  <2>1. PICK ms : ms = IF m.bytes = <<>> THEN <<>> ELSE <<Termination(m)>>
    OBVIOUS
  <2>2. ms \in Seq(XMsg) /\ HarmlessApp(ms)
    <3>1. <<Termination(m)>> \in Seq(XMsg) /\ HarmlessApp(<<Termination(m)>>) /\ <<>> \in Seq(XMsg) /\ HarmlessApp(<<>>)
      BY <1>3, TerminationHarmless, FewHarmless, FewMembers
    <3> QED BY <2>1, <3>1
  <2>3. TakeAnd(s, ms)
    BY <1>5, <2>1
  <2> QED BY <2>2, <2>3, <1>1, <1>2, <1>5, TakenStep
<1> QED BY <1>1, <1>4, <1>5 DEF LineDataArrives

-----------------------------------------------------------------------------
(* UpdateReadenBytes for a registered line. *)
LEMMA ReadTaken ==
  ASSUME XInv, NEW s \in XSides, Receives(s, "read"), NEW m, NEW q \in XObjects, For(s, m, q), TakeAnd(s, <<>>),
         Change(q, [xline[q] EXCEPT !.unproc = AddProcessedBytes(xline[q], m.win)]),
         UNCHANGED <<xside, xup, xmap, xempty, xused>>
  PROVE  XInv'
<1>0. xnet[s] # <<>> /\ m = Head(xnet[s])
  BY DEF Receives, For
<1>1. xnet[s] # <<>> /\ m.op = "read" /\ xside[s].phase = "run" /\ XTypes /\ m \in XMsg /\ m.win \in Nat
  BY <1>0, HeadOk DEF Receives, XInv, XMsg
<1>2. q[1] = s /\ xline[q].id = m.to /\ InMap(q)
  BY <1>1, ForLine
<1>3. PICK p : p = OtherEnd(q) /\ p \in XObjects /\ p # q /\ p[1] = Opposite(s) /\ p[1] # s /\ OtherEnd(p) = q /\ p[1] \in XSides
  BY <1>2, Pairs
<1>4. /\ xline[q] \in XLine /\ StageOf(q, xline[q]) /\ xline[q].pc \in Registered /\ xline[q].pc # "none" /\ xline[q].unproc \in Nat
      /\ xline[q].piece \in Nat /\ xline[q].given \in Nat /\ ~xline[q].ufin
  BY <1>1, <1>2, LineTyped DEF XInv, LineStage, InMap, Registered
<1>5. xside[q[1]].phase # "greet"
  BY <1>4, NotGreet
<1>6. PICK u : u = AddProcessedBytes(xline[q], m.win)
  OBVIOUS
<1>6a. u \in Nat /\ ((u = 0 /\ m.win > xline[q].unproc) \/ (m.win <= xline[q].unproc /\ u = xline[q].unproc - m.win))
  BY <1>1, <1>4, <1>6 DEF AddProcessedBytes
<1>7. PICK l : l = [xline[q] EXCEPT !.unproc = u]
  OBVIOUS
<1>8. /\ l \in XLine /\ l.pc = xline[q].pc /\ l.id = xline[q].id /\ l.again = xline[q].again /\ l.ufin = xline[q].ufin
      /\ l.thr = xline[q].thr /\ l.buf = xline[q].buf /\ l.got = xline[q].got /\ l.given = xline[q].given /\ l.remote = xline[q].remote
      /\ l.rwin = xline[q].rwin /\ l.unproc = u /\ l.piece = xline[q].piece
  BY <1>4, <1>6a, <1>7 DEF XLine
<1>9. StageOf(q, l)
  <2>1. l.thr = "none" => l.unproc = 0
    <3>1. xline[q].thr = "none" => xline[q].unproc = 0
      BY <1>4 DEF StageOf
    <3> QED BY <3>1, <1>1, <1>6a, <1>8
  <2> QED BY <2>1, <1>4, <1>8 DEF StageOf
<1>10. LineKeeps(q, l) /\ CalmPartner(q, l)
  BY <1>4, <1>5, <1>8, <1>9 DEF LineKeeps, CalmPartner
<1>11. Change(q, l)
  BY <1>6, <1>7
<1>12. <<>> \in Seq(XMsg) /\ Members(<<>>) = {}
  BY FewMembers
<1>13. Moves(s, Tail(xnet[s]), <<>>) /\ Cut(Tail(xnet[s]), xnet[s])
  BY <1>1, <1>12, TakeMoves
<1>14. XTypes' /\ OnlyLine(q, l) /\ StopsOnly /\ (\A o \in XObjects : FreshKept(o))
  BY <1>8, <1>10, <1>11, <1>12, <1>13, BusyFacts
<1>15. xnet'[s] = Tail(xnet[s]) /\ xnet[s] \in Seq(XMsg) /\ Tail(xnet[s]) \in Seq(XMsg)
  BY <1>1, <1>12, <1>13, MoveNets DEF XTypes
<1>16. PICK c2, a, a2 : /\ c2 = Carried(Tail(xnet[s]), m.to) /\ a2 = Acked(Tail(xnet[s]), m.to) /\ a = AcksFor(m, m.to)
  OBVIOUS
<1>17. Carried(xnet[s], m.to) = <<>> \o c2 /\ Acked(xnet[s], m.to) = a \o a2
  <2>1. BytesFor(m, m.to) = <<>>
    BY <1>1 DEF BytesFor
  <2>2. PICK i : i = m.to
    OBVIOUS
  <2>3. /\ Carried(xnet[s], i) = BytesFor(Head(xnet[s]), i) \o Carried(Tail(xnet[s]), i)
        /\ Acked(xnet[s], i) = AcksFor(Head(xnet[s]), i) \o Acked(Tail(xnet[s]), i)
    BY <1>1, <1>15, CarriedHead
  <2> QED BY <2>1, <2>2, <2>3, <1>0, <1>16
<1>18. c2 \in Seq(XByte) /\ a2 \in Seq({0}) /\ a \in Seq({0}) /\ Len(a) = m.win
  <2>1. c2 \in Seq(XByte) /\ a2 \in Seq({0})
    BY <1>15, <1>16, CarriedTyped
  <2>2. a = [j \in 1..m.win |-> 0]
    BY <1>1, <1>16 DEF AcksFor
  <2>3. a \in Seq({0}) /\ Len(a) = m.win
    BY <2>2, <1>1
  <2> QED BY <2>1, <2>3
<1>19. xline'[q] = l /\ xline'[p] = xline[p]
  BY <1>3, <1>14 DEF OnlyLine
<1>20. CarriedSame(q)
  BY <1>2, <1>15, <1>16, <1>17, <1>18 DEF CarriedSame
<1>21. Reaches(s, Tail(xnet[s]), <<>>, p)
  BY <1>3, <1>12 DEF Reaches
<1>22. CarriedSame(p) /\ AckedSame(p)
  BY <1>3, <1>12, <1>13, <1>21, ReachSame
<1>23. Flow(q)' /\ Window(q)'
  <2>1. LineSame(q)
    BY <1>8, <1>19 DEF LineSame, InMap
  <2>2. SenderSame(p) /\ xline[p].given = xline'[p].given
    <3>1. xline[p].unproc \in Nat /\ xline[p].piece \in Nat
      BY <1>1, <1>3, LineTyped
    <3> QED BY <1>19, <3>1 DEF SenderSame, InMap
  <2>3. SenderSame(OtherEnd(q)) /\ xline[OtherEnd(q)].given = xline'[OtherEnd(q)].given /\ AckedSame(OtherEnd(q))
    BY <2>2, <1>3, <1>22
  <2>4. InMap(q) /\ FreshIds(q) => CarriedSame(q)
    BY <1>20
  <2>5. InMap(q) /\ FreshIds(q) /\ InMap(OtherEnd(q)) => AckedSame(OtherEnd(q))
    BY <2>3
  <2> QED BY <2>1, <2>3, <2>4, <2>5, <1>14, FlowBy, WindowBy
<1>24. Flow(p)'
  BY <1>3, <1>8, <1>14, <1>22, FlowPartner
<1>25. Window(p)'
  <2> SUFFICES ASSUME InMap(p)', FreshIds(p)' PROVE Window(p)'
    BY DEF Window
  <2>1. InMap(p) /\ FreshIds(p) /\ Window(p)
    BY <1>3, <1>14, <1>19 DEF InMap, FreshKept, XInv
  <2>2. Outstanding(p)' = Outstanding(p) /\ Outstanding(p) \in Nat
    <3>1. xnet'[p[1]] = xnet[p[1]]
      <4>0. xnet'[Opposite(s)] = xnet[Opposite(s)] \o <<>>
        BY <1>1, <1>12, <1>13, MoveNets
      <4>1. xnet'[p[1]] = xnet[p[1]] \o <<>> /\ xnet[p[1]] \in Seq(XMsg)
        BY <1>1, <1>3, <4>0 DEF XTypes
      <4> QED BY <4>1
    <3>2. Outstanding(p) \in Nat
      BY <1>1, <1>3, CarriedLine
    <3> QED BY <3>1, <3>2, <1>19 DEF Outstanding
  <2>3. Acks(q) = Len(a \o a2) /\ Acks(q)' = Len(a2)
    BY <1>2, <1>8, <1>15, <1>16, <1>17, <1>19 DEF Acks
  <2>4. Len(a \o a2) = m.win + Len(a2) /\ Len(a2) \in Nat
    BY <1>18
  <2>5. Outstanding(p) <= XWindow /\ Outstanding(p) + Acks(q) <= xline[q].unproc + xline[q].piece
    BY <2>1, <1>1, <1>2, <1>3 DEF Window
  <2>6. PICK w \in Nat, n \in Nat : w = Outstanding(p) /\ n = Len(a2)
    BY <2>2, <2>4
  <2>7. w + (m.win + n) <= xline[q].unproc + xline[q].piece
    BY <2>3, <2>4, <2>5, <2>6
  <2>8. w + n <= u + xline[q].piece
    <3>1. ASSUME NEW k \in Nat, NEW v \in Nat, NEW z \in Nat, NEW y \in Nat, w + (k + n) <= v + z,
                 (y = 0 /\ k > v) \/ (k <= v /\ y = v - k)
          PROVE  w + n <= y + z
      BY <3>1
    <3> QED BY <3>1, <2>7, <1>1, <1>4, <1>6a
  <2>9. Outstanding(p)' + Acks(q)' <= xline'[q].unproc + xline'[q].piece
    BY <2>2, <2>3, <2>6, <2>8, <1>8, <1>19
  <2>10. Outstanding(p)' <= XWindow
    BY <2>2, <2>5
  <2> QED BY <2>9, <2>10, <1>3 DEF Window
<1>29. \A o \in XObjects : GotInOrder(o)'
  <2>1. xline[q].given <= l.given
    BY <1>4, <1>8
  <2> QED BY <2>1, <1>8, <1>14, GotAll
<1>30. \A o \in XObjects : o # q /\ o # OtherEnd(q) => ReachesEnds(s, Tail(xnet[s]), <<>>, o)
  BY <1>1, <1>2, ForLine, TakenOthers
<1> QED BY <1>3, <1>8, <1>10, <1>11, <1>12, <1>13, <1>23, <1>24, <1>25, <1>29, <1>30, BusyStep

(* UpdateReadenBytes. *)
LEMMA ReadenStep == ASSUME XInv, NEW s \in XSides, UpdateReadenBytes(s) PROVE XInv'
<1>1. PICK m : m = Head(xnet[s])
  OBVIOUS
<1>2. xnet[s] # <<>> /\ Receives(s, "read") /\ UNCHANGED <<xside, xup, xmap, xempty, xused>>
  BY DEF UpdateReadenBytes, Receives
<1>3. m \in XMsg
  BY <1>1, <1>2, HeadOk
<1>4. CASE /\ KnownLine(s, m.to) /\ TakeAnd(s, <<>>)
           /\ Change(xmap[s][m.to], [xline[xmap[s][m.to]] EXCEPT !.unproc = AddProcessedBytes(xline[xmap[s][m.to]], m.win)])
  <2>1. PICK q \in XObjects : q = xmap[s][m.to]
    BY <1>4, KnownInMap
  <2>2. For(s, m, q) /\ Change(q, [xline[q] EXCEPT !.unproc = AddProcessedBytes(xline[q], m.win)])
    BY <2>1, <1>1, <1>4 DEF For
  <2> QED BY <2>2, <1>2, <1>4, ReadTaken
<1>5. CASE ~KnownLine(s, m.to) /\ TakeAnd(s, <<Termination(m)>>) /\ UNCHANGED xline
  <2>1. <<Termination(m)>> \in Seq(XMsg) /\ HarmlessApp(<<Termination(m)>>)
    BY <1>3, TerminationHarmless, FewHarmless
  <2> QED BY <2>1, <1>1, <1>2, <1>5, TakenStep
<1> QED BY <1>1, <1>4, <1>5 DEF UpdateReadenBytes

-----------------------------------------------------------------------------
(* What a step adds to the other direction of the connection. *)
LEMMA SentCarried ==
  ASSUME XInv, NEW q \in XObjects, NEW app \in Seq(XMsg), Moves(q[1], xnet[q[1]], app), NEW i
  PROVE  /\ xnet'[q[1]] = xnet[q[1]]
         /\ Carried(xnet'[OtherEnd(q)[1]], i) = Carried(xnet[OtherEnd(q)[1]], i) \o Carried(app, i)
         /\ Acked(xnet'[OtherEnd(q)[1]], i) = Acked(xnet[OtherEnd(q)[1]], i) \o Acked(app, i)
<1>1. XTypes /\ q[1] \in XSides /\ OtherEnd(q)[1] = Opposite(q[1]) /\ OtherEnd(q)[1] \in XSides /\ Cut(xnet[q[1]], xnet[q[1]])
  BY Pairs DEF XInv, Cut
<1>2. xnet'[q[1]] = xnet[q[1]] /\ xnet'[Opposite(q[1])] = xnet[Opposite(q[1])] \o app
  <2>1. PICK s \in XSides : s = q[1]
    BY <1>1
  <2>2. Moves(s, xnet[s], app) /\ Cut(xnet[s], xnet[s]) /\ XTypes
    BY <2>1, <1>1
  <2>3. xnet'[s] = xnet[s] /\ xnet'[Opposite(s)] = xnet[Opposite(s)] \o app
    BY <2>2, MoveNets
  <2> QED BY <2>1, <2>3
<1>3. PICK w \in Seq(XMsg) : w = xnet[OtherEnd(q)[1]]
  BY <1>1 DEF XTypes
<1>4. xnet'[OtherEnd(q)[1]] = w \o app
  BY <1>1, <1>2, <1>3
<1>5. Carried(w \o app, i) = Carried(w, i) \o Carried(app, i) /\ Acked(w \o app, i) = Acked(w, i) \o Acked(app, i)
  BY CarriedJoin
<1> QED BY <1>2, <1>3, <1>4, <1>5, Zenon

(* An acknowledgement to the other end of a line that has a thread. *)
LEMMA ReadSentOk ==
  ASSUME XInv, NEW q \in XObjects, xline[q].thr # "none", IdsKept, NEW m, m.op = "read", m.to = xline[q].remote
  PROVE  MessageOk(OtherEnd(q)[1], m)'
<1>1. PICK p : p = OtherEnd(q) /\ p \in XObjects /\ p = <<p[1], p[2]>> /\ p[2] \in 1..XConnects /\ q = <<Opposite(p[1]), p[2]>>
  <2>1. OtherEnd(q) \in XObjects /\ OtherEnd(OtherEnd(q)) = q
    BY Pairs
  <2> QED BY <2>1, Pairs DEF OtherEnd
<1>2. m.to = xline[p].id /\ m.to # 0
  BY <1>1, RemoteKnown
<1>3. xline'[p].id = m.to /\ xline'[q].thr # "none"
  BY <1>1, <1>2 DEF IdsKept
<1>4. ReadOk(p[1], m)'
  BY <1>1, <1>2, <1>3 DEF ReadOk
<1>5. ConnectOk(p[1], m)' /\ DecisionOk(p[1], m)' /\ DataOk(p[1], m)'
  BY DEF ConnectOk, DecisionOk, DataOk
<1> QED BY <1>1, <1>4, <1>5 DEF MessageOk

LEMMA DataSentOk ==
  ASSUME XInv, NEW q \in XObjects, xline[q].thr # "none", IdsKept, NEW m, m.op = "data", m.to = xline[q].remote
  PROVE  MessageOk(OtherEnd(q)[1], m)'
<1>1. PICK p : p = OtherEnd(q) /\ p \in XObjects /\ p = <<p[1], p[2]>> /\ p[2] \in 1..XConnects
  BY Pairs
<1>2. m.to = xline[p].id /\ m.to # 0
  BY <1>1, RemoteKnown
<1>3. xline'[p].id = m.to
  BY <1>1, <1>2 DEF IdsKept
<1>4. DataOk(p[1], m)'
  BY <1>1, <1>2, <1>3 DEF DataOk
<1>5. ConnectOk(p[1], m)' /\ DecisionOk(p[1], m)' /\ ReadOk(p[1], m)'
  BY DEF ConnectOk, DecisionOk, ReadOk
<1> QED BY <1>1, <1>4, <1>5 DEF MessageOk

-----------------------------------------------------------------------------
(* processBuffer takes a piece: written to the socket, or dropped when the line ends. *)
Taken(q, l, b) ==
  /\ l.buf = Tail(xline[q].buf)
  /\ (l.thr = "out" /\ l.got = xline[q].got) \/ (l.thr = "pop" /\ l.got = xline[q].got \o b)
  /\ l.pc = xline[q].pc /\ l.id = xline[q].id /\ l.again = xline[q].again /\ l.ufin = xline[q].ufin /\ l.given = xline[q].given
  /\ l.remote = xline[q].remote /\ l.rwin = xline[q].rwin /\ l.unproc = xline[q].unproc /\ l.piece = xline[q].piece

(* The first bytes of a flow are a flow. *)
LEMMA FlowPrefix ==
  ASSUME NEW S, NEW g \in Seq(S), NEW b \in Seq(S), NEW f \in Seq(S), NEW c \in Seq(S), NEW p, NEW n \in Nat,
         FlowOk(p, g \o ((b \o f) \o c), n, FALSE)
  PROVE  FlowOk(p, g \o b, n, FALSE)
<1>1. (b \o f) \o c = b \o (f \o c) /\ f \o c \in Seq(S) /\ g \o b \in Seq(S)
  BY SeqAssoc
<1>4. \A y \in Seq(S) : g \o (b \o y) = (g \o b) \o y
  BY SeqAssoc
<1>2. PICK e \in Seq(S) : e = f \o c
  BY <1>1
<1>3. PICK x \in Seq(S) : x = g \o b
  BY <1>1
<1>5. g \o ((b \o f) \o c) = x \o e
  BY <1>1, <1>2, <1>3, <1>4
<1>6. FlowOk(p, x \o e, n, FALSE)
  BY <1>5
<1>7. Len(x \o e) <= n /\ \A k \in 1..Len(x \o e) : (x \o e)[k] = <<p, k>>
  BY <1>6 DEF FlowOk
<1>8. Len(x) \in Nat /\ Len(x) <= Len(x \o e) /\ Len(x \o e) \in Nat /\ \A k \in 1..Len(x) : (x \o e)[k] = x[k]
  OBVIOUS
<1>9. Len(x) <= n
  BY <1>7, <1>8
<1>10. ASSUME NEW k \in 1..Len(x) PROVE x[k] = <<p, k>>
  <2>1. k \in 1..Len(x \o e)
    BY <1>8
  <2> QED BY <2>1, <1>7, <1>8
<1> QED BY <1>3, <1>9, <1>10 DEF FlowOk

FirstPiece(q, b) == xline[q].buf # <<>> /\ b = Head(xline[q].buf)
Tells(q, b, app) == app = <<>> \/ app = <<ReadenBytes(xline[q], Len(b))>>

(* The piece leaves the buffer and as much is acknowledged. *)
LEMMA PopStep ==
  ASSUME XInv, NEW q \in XObjects, xline[q].thr = "pop", NEW b \in Seq(XByte), FirstPiece(q, b), NEW l \in XLine, Taken(q, l, b),
         Change(q, l), UNCHANGED <<xside, xup, xmap, xempty, xused>>,
         NEW app \in Seq(XMsg), Moves(q[1], xnet[q[1]], app), Tells(q, b, app)
  PROVE  XInv'
<1>1. XTypes /\ q[1] \in XSides /\ Cut(xnet[q[1]], xnet[q[1]])
  BY Pairs DEF XInv, Cut
<1>2. PICK p : p = OtherEnd(q) /\ p \in XObjects /\ p # q /\ p[1] = Opposite(q[1]) /\ p[1] # q[1] /\ OtherEnd(p) = q /\ p[1] \in XSides
  BY Pairs
<1>3. /\ xline[q] \in XLine /\ StageOf(q, xline[q]) /\ xline[q].unproc \in Nat /\ xline[q].remote \in XIdOr0 /\ xline[q].id \in XIdOr0
      /\ xline[q].piece \in Nat /\ xline[q].given \in Nat /\ xline[q].buf \in Seq(Seq(XByte)) /\ xline[q].got \in Seq(XByte)
  BY <1>1, LineTyped DEF XInv, LineStage
<1>4. xline[q].pc \in {"window", "sent", "join"} /\ InMap(q) /\ xline[q].id # 0
  BY <1>3 DEF StageOf, InMap, Registered
<1>5. xside[q[1]].phase # "greet"
  BY <1>4, NotGreet
<1>6. b \in Seq(XByte) /\ Len(b) \in Nat
  OBVIOUS
<1>6a. Tail(xline[q].buf) \in Seq(Seq(XByte))
  BY <1>3 DEF FirstPiece
<1>7. StageOf(q, l)
  BY <1>3, <1>4 DEF StageOf, Taken, Registered
<1>8. LineKeeps(q, l) /\ CalmPartner(q, l)
  BY <1>4, <1>5, <1>7 DEF LineKeeps, CalmPartner, Taken, Undecided
<1>9. XTypes' /\ OnlyLine(q, l) /\ StopsOnly /\ (\A o \in XObjects : FreshKept(o))
  BY <1>1, <1>8, BusyFacts
<1>10. xline'[q] = l /\ xline'[p] = xline[p]
  BY <1>2, <1>9 DEF OnlyLine
<1>11. IdsKept
  BY <1>9 DEF IdsKept, OnlyLine, Taken
<1>12. PICK m \in XMsg : m = ReadenBytes(xline[q], Len(b)) /\ m.op = "read" /\ m.to = xline[q].remote /\ m.win = Len(b)
  BY <1>3, <1>6, ReadenTyped
<1>13a. app = <<>> \/ app = <<m>>
  BY <1>12 DEF Tells
<1>13. Members(app) \subseteq {m}
  BY <1>13a, FewMembers
<1>14. \A x \in Members(app) : x.op \notin Deciding /\ MessageOk(Opposite(q[1]), x)'
  BY <1>2, <1>11, <1>12, <1>13, ReadSentOk DEF Deciding
<1>15. \A o \in XObjects : o # q /\ o # OtherEnd(q) => ReachesEnds(q[1], xnet[q[1]], app, o)
  BY <1>12, <1>13, SentOthers
<1>16. PICK i : i = xline[p].id
  OBVIOUS
<1>17. Carried(app, i) = <<>> /\ Acked(app, i) \in Seq({0}) /\ Len(Acked(app, i)) \in Nat /\ Len(Acked(app, i)) <= Len(b)
  <2>1. CASE app = <<>>
    <3>1. Acked(app, i) = <<>> /\ Carried(app, i) = <<>>
      BY <2>1, CarriedEmpty
    <3> QED BY <3>1, <1>6
  <2>2. CASE app = <<m>>
    <3>1. Acked(app, i) = AcksFor(m, i) /\ Carried(app, i) = BytesFor(m, i)
      BY <2>2, CarriedOne
    <3>2. BytesFor(m, i) = <<>>
      BY <1>12 DEF BytesFor
    <3>3. AcksFor(m, i) = [j \in 1..Len(b) |-> 0] \/ AcksFor(m, i) = <<>>
      <4>1. CASE m.to = i
        BY <4>1, <1>12 DEF AcksFor
      <4>2. CASE m.to # i
        BY <4>2, <1>12 DEF AcksFor
      <4> QED BY <4>1, <4>2
    <3>4. [j \in 1..Len(b) |-> 0] \in Seq({0}) /\ Len([j \in 1..Len(b) |-> 0]) = Len(b)
      BY <1>6
    <3>5. CASE AcksFor(m, i) = [j \in 1..Len(b) |-> 0]
      <4>1. PICK z : z = [j \in 1..Len(b) |-> 0] /\ z \in Seq({0}) /\ Len(z) = Len(b)
        BY <3>4
      <4>2. Acked(app, i) = z
        BY <4>1, <3>1, <3>5
      <4> QED BY <4>1, <4>2, <3>1, <3>2, <1>6
    <3>6. CASE AcksFor(m, i) = <<>>
      BY <3>1, <3>2, <3>6, <1>6
    <3> QED BY <3>3, <3>5, <3>6
  <2> QED BY <2>1, <2>2, <1>13a
<1>18. /\ xnet'[q[1]] = xnet[q[1]] /\ Carried(xnet'[p[1]], i) = Carried(xnet[p[1]], i) \o Carried(app, i)
       /\ Acked(xnet'[p[1]], i) = Acked(xnet[p[1]], i) \o Acked(app, i)
  BY <1>2, SentCarried
<1>19. Carried(xnet[p[1]], i) \in Seq(XByte) /\ Acked(xnet[p[1]], i) \in Seq({0})
  BY <1>1, <1>2, <1>16, CarriedLine
<1>20. CarriedSame(p)
  BY <1>16, <1>17, <1>18, <1>19 DEF CarriedSame
<1>21. AckedSame(q) /\ SenderSame(q)
  BY <1>3, <1>10, <1>18 DEF AckedSame, SenderSame, InMap, Taken
<1>22. Flow(p)' /\ Window(p)'
  <2>1. l.given = xline[q].given /\ CarriedSame(OtherEnd(q))
    BY <1>2, <1>20 DEF Taken
  <2>2. Flow(OtherEnd(q))' /\ Window(OtherEnd(q))'
    BY <2>1, <1>9, <1>21, FlowPartner, WindowPartner
  <2> QED BY <2>2, <1>2
<1>23. PICK c, f, f2 : c = Carried(xnet[q[1]], xline[q].id) /\ f = FlattenSeq(xline[q].buf) /\ f2 = FlattenSeq(Tail(xline[q].buf))
  OBVIOUS
<1>24. f = b \o f2 /\ c \in Seq(XByte) /\ f \in Seq(XByte) /\ f2 \in Seq(XByte)
  <2>1. f = b \o f2
    BY <1>3, <1>23, FlattenHead DEF FirstPiece
  <2> QED BY <2>1, <1>1, <1>3, <1>6a, <1>23, CarriedLine, FlattenInSeq
<1>25. c = Carried(xnet'[q[1]], xline'[q].id) /\ f2 = FlattenSeq(xline'[q].buf)
  BY <1>10, <1>18, <1>23 DEF Taken
<1>26. Flow(q)'
  <2>1. InMap(q)' => InMap(q)
    BY <1>4
  <2>2. xline[OtherEnd(q)].given = xline'[OtherEnd(q)].given
    BY <1>2, <1>10
  <2>3. ASSUME xline'[q].thr # "out" PROVE Pending(q)' = Pending(q)
    <3>1. xline'[q].got = xline[q].got \o b
      BY <2>3, <1>10 DEF Taken
    <3>2. Pending(q) = xline[q].got \o ((b \o f2) \o c) /\ Pending(q)' = (xline[q].got \o b) \o (f2 \o c)
      BY <3>1, <1>23, <1>24, <1>25 DEF Pending
    <3>3. PICK g \in Seq(XByte) : g = xline[q].got
      BY <1>3
    <3>4. (b \o f2) \o c = b \o (f2 \o c) /\ f2 \o c \in Seq(XByte)
      BY <1>6, <1>24, SeqAssoc
    <3>5. PICK e \in Seq(XByte) : e = f2 \o c
      BY <3>4
    <3>6. g \o (b \o e) = (g \o b) \o e
      BY <1>6, SeqAssoc
    <3> QED BY <3>2, <3>3, <3>4, <3>5, <3>6
  <2> QED BY <2>1, <2>2, <2>3, <1>9, FlowEq
<1>27. Window(q)'
  <2>1. Outstanding(q) = Len(c) + Len(b \o f2) /\ Outstanding(q)' = Len(c) + Len(f2)
    BY <1>23, <1>24, <1>25 DEF Outstanding
  <2>2. Acks(p) = Len(Acked(xnet[p[1]], i)) /\ Acks(p)' = Len(Acked(xnet[p[1]], i) \o Acked(app, i))
    BY <1>10, <1>16, <1>18 DEF Acks
  <2>3. Len(b \o f2) = Len(b) + Len(f2) /\ Len(f2) \in Nat /\ Len(c) \in Nat
    BY <1>6, <1>24
  <2>4. PICK a, a2 : a = Acked(xnet[p[1]], i) /\ a2 = Acked(app, i)
    OBVIOUS
  <2>5. a \in Seq({0}) /\ a2 \in Seq({0}) /\ Len(a2) <= Len(b)
    BY <2>4, <1>17, <1>19
  <2>6. Len(a \o a2) = Len(a) + Len(a2) /\ Len(a) \in Nat /\ Len(a2) \in Nat
    BY <2>5
  <2>7. Len(c) + Len(f2) <= Len(c) + (Len(b) + Len(f2)) /\ (Len(c) + Len(f2)) + (Len(a) + Len(a2)) <= (Len(c) + (Len(b) + Len(f2))) + Len(a)
    BY <2>3, <2>5, <2>6, <1>6
  <2>8. Outstanding(q)' <= Outstanding(q) /\ Outstanding(q)' + Acks(p)' <= Outstanding(q) + Acks(p)
    BY <2>1, <2>2, <2>3, <2>4, <2>6, <2>7
  <2>9. SenderSame(p)
    <3>1. xline[p].unproc \in Nat /\ xline[p].piece \in Nat
      BY <1>1, <1>2, LineTyped
    <3> QED BY <1>10, <3>1 DEF SenderSame, InMap
  <2>10. InMap(q)' => InMap(q)
    BY <1>4
  <2> QED BY <2>8, <2>9, <2>10, <1>2, <1>9, WindowEq
<1>28. ASSUME NEW o \in XObjects PROVE GotInOrder(o)'
  <2>1. xline[q].given <= l.given
    BY <1>3 DEF Taken
  <2>2. CASE o # q \/ l.got = xline[q].got
    BY <2>1, <2>2, <1>9, GotAll
  <2>3. CASE o = q /\ l.got = xline[q].got \o b
    <3> SUFFICES ASSUME FreshIds(q)'
                 PROVE  Len(l.got) <= xline[p].given /\ \A k \in 1..Len(l.got) : l.got[k] = <<p, k>>
      BY <2>3, <1>2, <1>10 DEF GotInOrder
    <3>1. FreshIds(q) /\ Flow(q)
      BY <1>9 DEF FreshKept, XInv
    <3>2. FlowOk(p, Pending(q), xline[p].given, xside[q[1]].phase = "run")
      BY <3>1, <1>2, <1>4 DEF Flow, Pending
    <3>3. Pending(q) = xline[q].got \o ((b \o f2) \o c)
      BY <1>23, <1>24 DEF Pending
    <3>4. xline[p].given \in Nat
      BY <1>1, <1>2, LineTyped
    <3>5. PICK g \in Seq(XByte) : g = xline[q].got
      BY <1>3
    <3>6. PICK n \in Nat : n = xline[p].given
      BY <3>4
    <3>6a. FlowOk(p, Pending(q), xline[p].given, FALSE)
      BY <3>2 DEF FlowOk
    <3>6b. FlowOk(p, g \o ((b \o f2) \o c), n, FALSE)
      BY <3>6a, <3>3, <3>5, <3>6
    <3>6c. f2 \in Seq(XByte) /\ c \in Seq(XByte)
      BY <1>24
    <3>7. FlowOk(p, g \o b, n, FALSE)
      BY <3>6b, <3>6c, FlowPrefix
    <3> QED BY <3>5, <3>6, <3>7, <2>3 DEF FlowOk
  <2> QED BY <2>2, <2>3 DEF Taken
<1> QED BY <1>1, <1>2, <1>8, <1>14, <1>15, <1>22, <1>26, <1>27, <1>28, BusyStep

(* processBuffer. *)
LEMMA BufferStep == ASSUME XInv, NEW q \in XObjects, ProcessBuffer(q) PROVE XInv'
<1>1. XTypes /\ q[1] \in XSides /\ xline[q].thr = "pop" /\ xline[q].buf # <<>> /\ UNCHANGED <<xside, xup, xmap, xempty, xused>>
  BY Pairs DEF XInv, ProcessBuffer
<1>2. /\ xline[q] \in XLine /\ xline[q].buf \in Seq(Seq(XByte)) /\ xline[q].got \in Seq(XByte) /\ xline[q].remote \in XIdOr0
      /\ xline[q].id \in XIdOr0
  BY <1>1, LineTyped
<1>3. Head(xline[q].buf) \in Seq(XByte) /\ Tail(xline[q].buf) \in Seq(Seq(XByte))
  BY <1>1, <1>2
<1>4. PICK b \in Seq(XByte), t \in Seq(Seq(XByte)) : b = Head(xline[q].buf) /\ t = Tail(xline[q].buf)
  BY <1>3, Zenon
<1>5. FirstPiece(q, b)
  BY <1>1, <1>4 DEF FirstPiece
<1>6. PICK l \in XLine : Change(q, l) /\ Taken(q, l, b)
  <2>1. CASE Change(q, [xline[q] EXCEPT !.buf = Tail(xline[q].buf), !.thr = "out", !.shut = TRUE])
    <3>1. PICK l : l = [xline[q] EXCEPT !.buf = t, !.thr = "out", !.shut = TRUE]
      OBVIOUS
    <3>2. /\ l \in XLine /\ l.pc = xline[q].pc /\ l.id = xline[q].id /\ l.again = xline[q].again /\ l.ufin = xline[q].ufin
          /\ l.thr = "out" /\ l.buf = t /\ l.got = xline[q].got /\ l.given = xline[q].given /\ l.remote = xline[q].remote
          /\ l.rwin = xline[q].rwin /\ l.unproc = xline[q].unproc /\ l.piece = xline[q].piece
      BY <3>1, <1>2 DEF XLine
    <3>3. Taken(q, l, b)
      BY <3>2, <1>4 DEF Taken
    <3>4. Change(q, l)
      BY <2>1, <3>1, <1>4
    <3> QED BY <3>2, <3>3, <3>4
  <2>2. CASE Change(q, [xline[q] EXCEPT !.buf = Tail(xline[q].buf), !.got = xline[q].got \o b])
    <3>0. xline[q].got \o b \in Seq(XByte)
      BY <1>2
    <3>0a. PICK g \in Seq(XByte) : g = xline[q].got \o b
      BY <3>0
    <3>1. PICK l : l = [xline[q] EXCEPT !.buf = t, !.got = g]
      OBVIOUS
    <3>2. /\ l \in XLine /\ l.pc = xline[q].pc /\ l.id = xline[q].id /\ l.again = xline[q].again /\ l.ufin = xline[q].ufin
          /\ l.thr = xline[q].thr /\ l.buf = t /\ l.got = g /\ l.given = xline[q].given /\ l.remote = xline[q].remote
          /\ l.rwin = xline[q].rwin /\ l.unproc = xline[q].unproc /\ l.piece = xline[q].piece
      BY <3>1, <1>2 DEF XLine
    <3>3. Taken(q, l, b)
      BY <3>0a, <3>2, <1>1, <1>4 DEF Taken
    <3>4. Change(q, l)
      BY <2>2, <3>0a, <3>1, <1>4
    <3> QED BY <3>2, <3>3, <3>4
  <2>3. \/ Change(q, [xline[q] EXCEPT !.buf = Tail(xline[q].buf), !.thr = "out", !.shut = TRUE])
        \/ Change(q, [xline[q] EXCEPT !.buf = Tail(xline[q].buf), !.got = xline[q].got \o b])
    BY <1>4 DEF ProcessBuffer
  <2> QED BY <2>1, <2>2, <2>3
<1>7. PICK ms : ms = IF b = <<>> THEN <<>> ELSE <<ReadenBytes(xline[q], Len(b))>>
  OBVIOUS
<1>8. ms \in Seq(XMsg) /\ Sends(q[1], ms)
  <2>1. Len(b) \in Nat
    OBVIOUS
  <2>2. ReadenBytes(xline[q], Len(b)) \in XMsg
    BY <2>1, <1>2, ReadenTyped
  <2>3. <<ReadenBytes(xline[q], Len(b))>> \in Seq(XMsg) /\ <<>> \in Seq(XMsg)
    BY <2>2, FewMembers
  <2>4. ms \in Seq(XMsg)
    BY <2>3, <1>7
  <2> QED BY <2>4, <1>4, <1>7 DEF ProcessBuffer
<1>9. \E app \in {ms, <<>>} : Moves(q[1], xnet[q[1]], app) /\ app \in Seq(XMsg)
  BY <1>1, <1>8, SendsMoves
<1>10. PICK app \in Seq(XMsg) : Moves(q[1], xnet[q[1]], app) /\ (app = ms \/ app = <<>>)
  BY <1>9
<1>11. Tells(q, b, app)
  BY <1>7, <1>10 DEF Tells
<1> QED BY <1>1, <1>5, <1>6, <1>10, <1>11, PopStep

-----------------------------------------------------------------------------
(* processLine: what was read from the attached socket is sent. *)
LEMMA SeqAssoc3 ==
  ASSUME NEW S, NEW a \in Seq(S), NEW b \in Seq(S), NEW c \in Seq(S), NEW d \in Seq(S)
  PROVE  a \o (b \o (c \o d)) = (a \o (b \o c)) \o d /\ a \o (b \o c) \in Seq(S)
<1>1. b \o (c \o d) = (b \o c) \o d /\ b \o c \in Seq(S)
  BY SeqAssoc
<1>2. \A y \in Seq(S) : a \o (y \o d) = (a \o y) \o d /\ a \o y \in Seq(S)
  BY SeqAssoc
<1> QED BY <1>1, <1>2

LEMMA JoinPlaces ==
  ASSUME NEW S, NEW x \in Seq(S), NEW y \in Seq(S)
  PROVE  Len(x \o y) = Len(x) + Len(y) /\ \A k \in 1..(Len(x) + Len(y)) : (x \o y)[k] = IF k <= Len(x) THEN x[k] ELSE y[k - Len(x)]
OBVIOUS

(* What the sender reads next is what the receiver lacks next. *)
LEMMA FlowGrows ==
  ASSUME NEW S, NEW x \in Seq(S), NEW q, NEW given \in Nat, NEW n \in Nat, FlowOk(q, x, given, TRUE), NEW y \in Seq(S), Len(y) = n,
         \A k \in 1..n : y[k] = <<q, given + k>>
  PROVE  FlowOk(q, x \o y, given + n, TRUE)
<1>1. Len(x) = given /\ \A k \in 1..given : x[k] = <<q, k>>
  BY DEF FlowOk
<1>2. PICK w : w = x \o y
  OBVIOUS
<1>2a. Len(w) = Len(x) + Len(y) /\ \A k \in 1..(Len(x) + Len(y)) : w[k] = IF k <= Len(x) THEN x[k] ELSE y[k - Len(x)]
  BY <1>2, JoinPlaces
<1>3. Len(w) = given + n /\ \A k \in 1..(given + n) : w[k] = IF k <= given THEN x[k] ELSE y[k - given]
  BY <1>1, <1>2a
<1>4. ASSUME NEW k \in 1..(given + n) PROVE w[k] = <<q, k>>
  <2>1. CASE k <= given
    BY <2>1, <1>1, <1>3
  <2>2. CASE ~(k <= given)
    <3>1. k - given \in 1..n /\ given + (k - given) = k
      BY <2>2
    <3>2. y[k - given] = <<q, given + (k - given)>>
      BY <3>1
    <3> QED BY <3>1, <3>2, <2>2, <1>3
  <2> QED BY <2>1, <2>2
<1>5. Len(w) <= given + n
  BY <1>3
<1> QED BY <1>2, <1>3, <1>4, <1>5 DEF FlowOk

Gave(q, l, n) ==
  /\ l.pc = "sent" /\ l.piece = n /\ l.given = xline[q].given + n /\ n + xline[q].unproc <= xline[q].rwin
  /\ l.id = xline[q].id /\ l.again = xline[q].again /\ l.ufin = xline[q].ufin /\ l.thr = xline[q].thr /\ l.buf = xline[q].buf
  /\ l.got = xline[q].got /\ l.remote = xline[q].remote /\ l.rwin = xline[q].rwin /\ l.unproc = xline[q].unproc
Passes(q, m, app) == IF xside[OtherEnd(q)[1]].phase = "run" THEN app = <<m>> ELSE app = <<>>
IsSaid(q, m, n) == m.op = "data" /\ m.to = xline[q].remote /\ m.bytes = Said(q, n)

LEMMA SaidTyped ==
  ASSUME XTypes, NEW q \in XObjects, NEW n \in Nat
  PROVE  Said(q, n) \in Seq(XByte) /\ Len(Said(q, n)) = n /\ \A k \in 1..n : Said(q, n)[k] = <<q, xline[q].given + k>>
<1>1. PICK g \in Nat : g = xline[q].given
  BY LineTyped
<1>2. \A k \in 1..n : <<q, g + k>> \in XByte
  <2>1. ASSUME NEW k \in 1..n PROVE g + k \in Nat \ {0}
    OBVIOUS
  <2> QED BY <2>1 DEF XByte
<1>3. PICK y : y = [k \in 1..n |-> <<q, g + k>>]
  OBVIOUS
<1>4. y \in [1..n -> XByte] /\ \A k \in 1..n : y[k] = <<q, g + k>>
  BY <1>2, <1>3
<1>5. y \in Seq(XByte) /\ Len(y) = n
  BY <1>4
<1>6. y = Said(q, n)
  BY <1>1, <1>3 DEF Said
<1> QED BY <1>1, <1>4, <1>5, <1>6

(* The piece fits the window, and the flow grows by it. *)
LEMMA GaveStep ==
  ASSUME XInv, NEW q \in XObjects, xline[q].pc = "window", NEW n \in Nat, NEW l \in XLine, Gave(q, l, n), xside[q[1]].phase = "run",
         Change(q, l), UNCHANGED <<xside, xup, xmap, xempty, xused>>,
         NEW m \in XMsg, IsSaid(q, m, n), NEW app \in Seq(XMsg), Moves(q[1], xnet[q[1]], app), Passes(q, m, app)
  PROVE  XInv'
<1>1. XTypes /\ q[1] \in XSides /\ Cut(xnet[q[1]], xnet[q[1]])
  BY Pairs DEF XInv, Cut
<1>2. PICK p : p = OtherEnd(q) /\ p \in XObjects /\ p # q /\ p[1] = Opposite(q[1]) /\ p[1] # q[1] /\ OtherEnd(p) = q /\ p[1] \in XSides
  BY Pairs
<1>3. /\ xline[q] \in XLine /\ StageOf(q, xline[q]) /\ xline[q].unproc \in Nat /\ xline[q].remote \in XIdOr0 /\ xline[q].id \in XIdOr0
      /\ xline[q].piece \in Nat /\ xline[q].given \in Nat /\ xline[q].buf \in Seq(Seq(XByte)) /\ xline[q].got \in Seq(XByte)
  BY <1>1, LineTyped DEF XInv, LineStage
<1>4. InMap(q) /\ xline[q].id # 0 /\ xline[q].thr # "none" /\ xline[q].piece = 0
  BY <1>3 DEF StageOf, InMap, Registered
<1>5. xline[q].remote = xline[p].id /\ xline[q].rwin = XWindow
  BY <1>2, <1>4, RemoteKnown
<1>7. StageOf(q, l)
  BY <1>3, <1>4 DEF StageOf, Gave, Registered
<1>8. LineKeeps(q, l) /\ CalmPartner(q, l)
  BY <1>4, <1>7 DEF LineKeeps, CalmPartner, Gave, Undecided, Registered
<1>9. XTypes' /\ OnlyLine(q, l) /\ StopsOnly /\ (\A o \in XObjects : FreshKept(o))
  BY <1>1, <1>8, BusyFacts
<1>10. xline'[q] = l /\ xline'[p] = xline[p]
  BY <1>2, <1>9 DEF OnlyLine
<1>11. IdsKept
  BY <1>9 DEF IdsKept, OnlyLine, Gave
<1>12. m.op = "data" /\ m.to = xline[q].remote /\ m.bytes = Said(q, n)
  BY DEF IsSaid
<1>13a. app = <<>> \/ app = <<m>>
  BY DEF Passes
<1>13. Members(app) \subseteq {m}
  BY <1>13a, FewMembers
<1>14. \A x \in Members(app) : x.op \notin Deciding /\ MessageOk(Opposite(q[1]), x)'
  <2>1. MessageOk(OtherEnd(q)[1], m)'
    BY <1>4, <1>11, <1>12, DataSentOk
  <2> QED BY <2>1, <1>2, <1>12, <1>13 DEF Deciding
<1>15. \A o \in XObjects : o # q /\ o # OtherEnd(q) => ReachesEnds(q[1], xnet[q[1]], app, o)
  BY <1>12, <1>13, SentOthers
<1>16. PICK i : i = xline[p].id
  OBVIOUS
<1>17. PICK y \in Seq(XByte) : y = Said(q, n) /\ Len(y) = n /\ \A k \in 1..n : y[k] = <<q, xline[q].given + k>>
  BY <1>1, SaidTyped
<1>18. /\ xnet'[q[1]] = xnet[q[1]] /\ Carried(xnet'[p[1]], i) = Carried(xnet[p[1]], i) \o Carried(app, i)
       /\ Acked(xnet'[p[1]], i) = Acked(xnet[p[1]], i) \o Acked(app, i)
  BY <1>2, SentCarried
<1>19. Carried(xnet[p[1]], i) \in Seq(XByte) /\ Acked(xnet[p[1]], i) \in Seq({0})
  BY <1>1, <1>2, <1>16, CarriedLine
<1>20. Acked(app, i) = <<>> /\ Carried(app, i) = (IF xside[p[1]].phase = "run" THEN y ELSE <<>>)
  <2>1. CASE xside[p[1]].phase = "run"
    <3>1. app = <<m>>
      BY <2>1, <1>2 DEF Passes
    <3>2. Carried(app, i) = BytesFor(m, i) /\ Acked(app, i) = AcksFor(m, i)
      BY <3>1, CarriedOne
    <3>3. BytesFor(m, i) = m.bytes /\ AcksFor(m, i) = <<>>
      BY <1>5, <1>12, <1>16 DEF BytesFor, AcksFor
    <3> QED BY <2>1, <3>2, <3>3, <1>12, <1>17
  <2>2. CASE xside[p[1]].phase # "run"
    <3>1. app = <<>>
      BY <2>2, <1>2 DEF Passes
    <3> QED BY <2>2, <3>1, CarriedEmpty
  <2> QED BY <2>1, <2>2
<1>21. CarriedSame(q) /\ AckedSame(p) /\ SenderSame(p) /\ LineSame(q)
  <2>1. xline[p].unproc \in Nat /\ xline[p].piece \in Nat
    BY <1>1, <1>2, LineTyped
  <2>2. CarriedSame(q)
    BY <1>18 DEF CarriedSame
  <2>3. AckedSame(p)
    BY <1>16, <1>18, <1>19, <1>20 DEF AckedSame
  <2>4. SenderSame(p)
    BY <2>1, <1>10 DEF SenderSame, InMap
  <2>5. LineSame(q)
    BY <1>4, <1>10 DEF LineSame, InMap, Gave
  <2> QED BY <2>2, <2>3, <2>4, <2>5
<1>22. Flow(q)' /\ Window(q)'
  <2>1. xline[OtherEnd(q)].given = xline'[OtherEnd(q)].given /\ SenderSame(OtherEnd(q)) /\ AckedSame(OtherEnd(q))
    BY <1>2, <1>10, <1>21
  <2>2. InMap(q) /\ FreshIds(q) => CarriedSame(q)
    BY <1>21
  <2>3. InMap(q) /\ FreshIds(q) /\ InMap(OtherEnd(q)) => AckedSame(OtherEnd(q))
    BY <2>1
  <2> QED BY <2>1, <2>2, <2>3, <1>9, <1>21, FlowBy, WindowBy
<1>23. PICK c, f, g : c = Carried(xnet[p[1]], i) /\ f = FlattenSeq(xline[p].buf) /\ g = xline[p].got
  OBVIOUS
<1>24. c \in Seq(XByte) /\ f \in Seq(XByte) /\ g \in Seq(XByte)
  BY <1>1, <1>2, <1>19, <1>23, CarriedLine
<1>25. PICK d \in Seq(XByte) : d = Carried(app, i)
  <2>1. Carried(app, i) \in Seq(XByte)
    BY CarriedTyped
  <2> QED BY <2>1
<1>25a. g \o (f \o (c \o d)) = (g \o (f \o c)) \o d /\ g \o (f \o c) \in Seq(XByte)
  BY <1>24, SeqAssoc3
<1>26. Flow(p)'
  <2> SUFFICES ASSUME InMap(p)', FreshIds(p)', xline'[p].thr # "out" PROVE Flow(p)'
    BY DEF Flow
  <2>1. InMap(p) /\ FreshIds(p) /\ xline[p].thr # "out" /\ Flow(p)
    BY <1>2, <1>9, <1>10 DEF InMap, FreshKept, XInv
  <2>2. FlowOk(q, Pending(p), xline[q].given, xside[p[1]].phase = "run")
    BY <2>1, <1>2 DEF Flow, Pending
  <2>3. Pending(p) = g \o (f \o c) /\ Pending(p)' = g \o (f \o (c \o d))
    BY <1>10, <1>16, <1>18, <1>23, <1>25 DEF Pending
  <2>7. Pending(p)' = Pending(p) \o d
    BY <2>3, <1>25a
  <2>8. Pending(p) \in Seq(XByte)
    BY <2>3, <1>25a
  <2>9. PICK x \in Seq(XByte) : x = Pending(p)
    BY <2>8
  <2>10. CASE xside[p[1]].phase = "run"
    <3>1. d = y
      BY <2>10, <1>20, <1>25
    <3>2. PICK v \in Nat : v = xline[q].given
      BY <1>3
    <3>3. FlowOk(q, x, v, TRUE)
      BY <2>2, <2>9, <2>10, <3>2 DEF FlowOk
    <3>4. \A k \in 1..n : y[k] = <<q, v + k>>
      BY <1>17, <3>2
    <3>5. FlowOk(q, x \o y, v + n, TRUE)
      BY <3>3, <3>4, <1>17, FlowGrows
    <3>6. FlowOk(q, Pending(p)', xline'[q].given, TRUE)
      BY <2>7, <2>9, <3>1, <3>2, <3>5, <1>10 DEF Gave
    <3>7. FlowOk(q, Pending(p)', xline'[q].given, xside'[p[1]].phase = "run")
      BY <3>6 DEF FlowOk
    <3> QED BY <3>7, <1>2 DEF Flow, Pending
  <2>11. CASE xside[p[1]].phase # "run"
    <3>1. d = <<>>
      BY <2>11, <1>20, <1>25
    <3>2. x \o <<>> = x /\ Len(x) \in Nat
      OBVIOUS
    <3>3. Pending(p)' = x
      BY <2>7, <2>9, <3>1, <3>2
    <3>4. FlowOk(q, x, xline[q].given, xside[p[1]].phase = "run")
      BY <2>2, <2>9
    <3>5. xline'[q].given = xline[q].given + n
      BY <1>10 DEF Gave
    <3>6. FlowOk(q, x, xline'[q].given, xside'[p[1]].phase = "run")
      BY <3>2, <3>4, <3>5, <2>11, <1>3 DEF FlowOk
    <3> QED BY <3>3, <3>6, <1>2 DEF Flow, Pending
  <2> QED BY <2>10, <2>11
<1>27. Window(p)'
  <2> SUFFICES ASSUME InMap(p)', FreshIds(p)' PROVE Window(p)'
    BY DEF Window
  <2>1. InMap(p) /\ FreshIds(p) /\ Window(p)
    BY <1>2, <1>9, <1>10 DEF InMap, FreshKept, XInv
  <2>2. Outstanding(p) = Len(c) + Len(f) /\ Outstanding(p)' = Len(c \o d) + Len(f)
    BY <1>10, <1>16, <1>18, <1>23, <1>25 DEF Outstanding
  <2>3. Len(c \o d) = Len(c) + Len(d) /\ Len(c) \in Nat /\ Len(f) \in Nat /\ Len(d) \in Nat
    BY <1>24
  <2>3a. Len(d) <= n
    BY <1>17, <1>20, <1>25
  <2>4. Acks(q)' = Acks(q) /\ Acks(q) \in Nat
    <3>1. xline'[q].id = xline[q].id
      BY <1>10 DEF Gave
    <3>2. Acks(q) \in Nat
      BY <1>1, CarriedLine
    <3> QED BY <3>1, <3>2, <1>18 DEF Acks
  <2>5. Outstanding(p) + Acks(q) <= xline[q].unproc + xline[q].piece
    BY <2>1, <1>2, <1>4 DEF Window
  <2>6. n + xline[q].unproc <= XWindow /\ xline'[q].unproc = xline[q].unproc /\ xline'[q].piece = n /\ XWindow \in Nat
    BY <1>5, <1>10, XSizes DEF Gave
  <2>7. PICK a \in Nat, u \in Nat, h \in Nat, j \in Nat, k \in Nat : a = Acks(q) /\ u = xline[q].unproc /\ h = Len(c) /\ j = Len(f) /\ k = Len(d)
    BY <2>3, <2>4, <1>3, Zenon
  <2>8. (h + j) + a <= u /\ k <= n /\ n + u <= XWindow
    BY <2>2, <2>3a, <2>5, <2>6, <2>7, <1>4
  <2>9. (h + k) + j <= XWindow /\ ((h + k) + j) + a <= u + n
    BY <2>6, <2>8
  <2>10. Outstanding(p)' <= XWindow /\ Outstanding(p)' + Acks(q)' <= xline'[q].unproc + xline'[q].piece
    BY <2>2, <2>3, <2>4, <2>6, <2>7, <2>9
  <2> QED BY <2>10, <1>2 DEF Window
<1>28. \A o \in XObjects : GotInOrder(o)'
  <2>1. xline[q].given <= l.given /\ l.got = xline[q].got
    BY <1>3 DEF Gave
  <2> QED BY <2>1, <1>9, GotAll
<1> QED BY <1>1, <1>2, <1>8, <1>14, <1>15, <1>22, <1>26, <1>27, <1>28, BusyStep

(* The attached socket has nothing more, or the connection is down. *)
LEMMA EndStep ==
  ASSUME XInv, NEW q \in XObjects, xline[q].pc = "window", Change(q, EndOfLine(xline[q])), UNCHANGED <<xside, xnet, xup, xmap, xempty, xused>>
  PROVE  XInv'
<1>1. XTypes /\ q[1] \in XSides
  BY Pairs DEF XInv
<1>2. xline[q] \in XLine /\ StageOf(q, xline[q]) /\ xside[q[1]].phase # "greet" /\ xline[q].unproc \in Nat /\ xline[q].piece \in Nat
      /\ xline[q].buf \in Seq(Seq(XByte)) /\ FlattenSeq(xline[q].buf) \in Seq(XByte)
  BY <1>1, NotGreet, LineTyped DEF XInv, LineStage
<1>3. <<>> \in Seq(XByte) /\ Append(xline[q].buf, <<>>) \in Seq(Seq(XByte))
  BY <1>2
<1>4. PICK b \in Seq(Seq(XByte)) : b = Append(xline[q].buf, <<>>)
  BY <1>3
<1>5. FlattenSeq(b) = FlattenSeq(xline[q].buf)
  <2>1. FlattenSeq(b) = FlattenSeq(xline[q].buf) \o <<>>
    BY <1>2, <1>3, <1>4, FlattenAppend
  <2> QED BY <2>1, <1>2
<1>6. PICK l : l = [xline[q] EXCEPT !.pc = "join", !.shut = TRUE, !.buf = b]
  OBVIOUS
<1>7. /\ l \in XLine /\ l.pc = "join" /\ l.id = xline[q].id /\ l.again = xline[q].again /\ l.ufin = xline[q].ufin /\ l.thr = xline[q].thr
      /\ l.buf = b /\ l.got = xline[q].got /\ l.given = xline[q].given /\ l.remote = xline[q].remote
      /\ l.rwin = xline[q].rwin /\ l.unproc = xline[q].unproc /\ l.piece = xline[q].piece
  BY <1>2, <1>6 DEF XLine, Registered
<1>8. StageOf(q, l)
  BY <1>2, <1>7 DEF StageOf, Registered
<1>9. LineKeeps(q, l)
  BY <1>2, <1>7, <1>8 DEF LineKeeps, Registered
<1>10. CalmFlow(q, l)
  BY <1>2, <1>5, <1>7 DEF CalmFlow
<1>11. CalmPartner(q, l)
  <2>1. xline[q].thr # "none"
    BY <1>2 DEF StageOf
  <2> QED BY <2>1, <1>7 DEF CalmPartner, Undecided
<1>12. Change(q, l)
  BY <1>4, <1>6 DEF EndOfLine
<1>13. Moves(q[1], xnet[q[1]], <<>>) /\ <<>> \in Seq(XMsg)
  BY <1>1, StillMoves
<1> QED BY <1>1, <1>7, <1>9, <1>10, <1>11, <1>12, <1>13, FewHarmless, CalmHarmless

(* processLine. *)
LEMMA AttachedStep == ASSUME XInv, NEW q \in XObjects, ReadAttached(q) PROVE XInv'
<1>1. XTypes /\ q[1] \in XSides /\ xline[q].pc = "window" /\ UNCHANGED <<xside, xup, xmap, xempty, xused>>
  BY Pairs DEF XInv, ReadAttached, At
<1>2. /\ xline[q] \in XLine /\ xline[q].unproc \in Nat /\ xline[q].rwin \in Nat /\ xline[q].given \in Nat /\ xline[q].remote \in XIdOr0
      /\ xline[q].id \in XIdOr0 /\ SidePhase(q[1])
  BY <1>1, LineTyped DEF XInv
<1>3. CASE Change(q, EndOfLine(xline[q])) /\ UNCHANGED xnet
  BY <1>1, <1>3, EndStep
<1>4. ASSUME NEW n \in 1..XSendBuf, n <= RemoteAvailable(xline[q]), Sends(q[1], <<LineData(xline[q], Said(q, n))>>),
             Change(q, IF MaySend(q[1]) THEN [xline[q] EXCEPT !.pc = "sent", !.piece = n, !.given = @ + n] ELSE EndOfLine(xline[q]))
      PROVE  XInv'
  <2>1. CASE ~MaySend(q[1])
    <3>1. UNCHANGED xnet
      BY <2>1, <1>4 DEF Sends
    <3> QED BY <2>1, <3>1, <1>1, <1>4, EndStep
  <2>2. CASE MaySend(q[1])
    <3>1. n \in Nat /\ xline[q].given + n \in Nat
      BY <1>2, XSizes
    <3>2. PICK v \in Nat : v = xline[q].given + n
      BY <3>1
    <3>3. PICK l : l = [xline[q] EXCEPT !.pc = "sent", !.piece = n, !.given = v]
      OBVIOUS
    <3>4. /\ l \in XLine /\ l.pc = "sent" /\ l.id = xline[q].id /\ l.again = xline[q].again /\ l.ufin = xline[q].ufin /\ l.thr = xline[q].thr
          /\ l.buf = xline[q].buf /\ l.got = xline[q].got /\ l.given = v /\ l.remote = xline[q].remote
          /\ l.rwin = xline[q].rwin /\ l.unproc = xline[q].unproc /\ l.piece = n
      BY <1>2, <3>1, <3>2, <3>3 DEF XLine, Registered
    <3>5. n + xline[q].unproc <= xline[q].rwin
      BY <3>1, <1>2, <1>4 DEF RemoteAvailable
    <3>6. Gave(q, l, n)
      BY <3>2, <3>4, <3>5 DEF Gave
    <3>7. Change(q, l)
      BY <2>2, <3>2, <3>3, <1>4
    <3>8. xside[q[1]].phase = "run"
      BY <2>2, <1>2 DEF MaySend, SidePhase
    <3>9. PICK m : m = LineData(xline[q], Said(q, n))
      OBVIOUS
    <3>10. m \in XMsg /\ IsSaid(q, m, n)
      BY <3>1, <3>9, <1>1, <1>2, SaidTyped, LineDataTyped DEF IsSaid
    <3>11. PICK ms \in Seq(XMsg) : ms = <<m>>
      BY <3>10, FewMembers
    <3>12. Sends(q[1], ms)
      BY <3>9, <3>11, <1>4
    <3>13. PICK app \in {ms, <<>>} : /\ Moves(q[1], xnet[q[1]], app) /\ app \in Seq(XMsg)
                                     /\ IF MaySend(q[1]) /\ xside[Opposite(q[1])].phase = "run" THEN app = ms ELSE app = <<>>
      BY <1>1, <3>12, SendsMoves
    <3>14. OtherEnd(q)[1] = Opposite(q[1])
      BY Pairs
    <3>15. Passes(q, m, app)
      BY <2>2, <3>11, <3>13, <3>14 DEF Passes
    <3> QED BY <3>1, <3>4, <3>6, <3>7, <3>8, <3>10, <3>13, <3>15, <1>1, GaveStep
  <2> QED BY <2>1, <2>2
<1> QED BY <1>3, <1>4 DEF ReadAttached

-----------------------------------------------------------------------------
(* The end of run(). *)
LEMMA CloseLinesStep == ASSUME XInv, NEW s \in XSides, CloseEveryLine(s) PROVE XInv'
<1>1. /\ XTypes /\ xside[s].phase = "ended" /\ xside' = [xside EXCEPT ![s].phase = "waiting", ![s].nonew = TRUE]
      /\ UNCHANGED <<xnet, xup, xmap, xempty, xused>> /\ xside \in [XSides -> XSideState]
      /\ xline' = [o \in XObjects |-> IF \E i \in DOMAIN xmap[s] : xmap[s][i] = o
                     THEN [xline[o] EXCEPT !.shut = @ \/ xline[o].thr # "none", !.unproc = 0, !.ufin = TRUE] ELSE xline[o]]
  BY DEF XInv, XTypes, CloseEveryLine
<1>2. PICK v : v = [xside[s] EXCEPT !.phase = "waiting", !.nonew = TRUE]
  OBVIOUS
<1>3. v \in XSideState /\ v.phase = "waiting" /\ v.nonew /\ v.nosend = xside[s].nosend /\ v.missed = xside[s].missed
  BY <1>1, <1>2 DEF XSideState
<1>4. xside' = [xside EXCEPT ![s] = v]
  BY <1>1, <1>2
<1>5. /\ xside' \in [XSides -> XSideState] /\ xside'[s] = v /\ \A t \in XSides : t # s => xside'[t] = xside[t]
  BY <1>1, <1>3, <1>4
<1>6. StopsOnly
  BY <1>3, <1>5 DEF StopsOnly
<1>7. ASSUME NEW o \in XObjects
      PROVE  /\ xline'[o] \in XLine /\ xline'[o].pc = xline[o].pc /\ xline'[o].id = xline[o].id /\ xline'[o].again = xline[o].again
             /\ xline'[o].thr = xline[o].thr /\ xline'[o].buf = xline[o].buf /\ xline'[o].got = xline[o].got
             /\ xline'[o].given = xline[o].given /\ xline'[o].remote = xline[o].remote /\ xline'[o].rwin = xline[o].rwin
             /\ xline'[o].piece = xline[o].piece
             /\ \/ xline'[o].unproc = xline[o].unproc /\ xline'[o].ufin = xline[o].ufin
                \/ xline'[o].unproc = 0 /\ o[1] = s /\ InMap(o)
  <2>1. xline[o] \in XLine
    BY <1>1 DEF XTypes
  <2>2. CASE \E i \in DOMAIN xmap[s] : xmap[s][i] = o
    <3>1. PICK i \in DOMAIN xmap[s] : xmap[s][i] = o
      BY <2>2
    <3>2. o[1] = s /\ InMap(o)
      BY <3>1, KnownInMap DEF KnownLine
    <3>3. PICK h \in BOOLEAN : h = (xline[o].shut \/ xline[o].thr # "none")
      OBVIOUS
    <3>4. xline'[o] = [xline[o] EXCEPT !.shut = h, !.unproc = 0, !.ufin = TRUE]
      BY <2>2, <3>3, <1>1
    <3>5. PICK l : l = [xline[o] EXCEPT !.shut = h, !.unproc = 0, !.ufin = TRUE]
      OBVIOUS
    <3>6. /\ l \in XLine /\ l.pc = xline[o].pc /\ l.id = xline[o].id /\ l.again = xline[o].again
          /\ l.thr = xline[o].thr /\ l.buf = xline[o].buf /\ l.got = xline[o].got
          /\ l.given = xline[o].given /\ l.remote = xline[o].remote /\ l.rwin = xline[o].rwin
          /\ l.piece = xline[o].piece /\ l.unproc = 0
      BY <2>1, <3>5 DEF XLine
    <3> QED BY <3>2, <3>4, <3>5, <3>6
  <2>3. CASE ~(\E i \in DOMAIN xmap[s] : xmap[s][i] = o)
    <3>1. xline'[o] = xline[o]
      BY <2>3, <1>1
    <3> QED BY <2>1, <3>1
  <2> QED BY <2>2, <2>3
<1>8. XTypes'
  <2>1. xline' \in [XObjects -> XLine]
    BY <1>1, <1>7
  <2> QED BY <2>1, <1>1, <1>5 DEF XTypes
<1>9. MapExact' /\ FirstOfId'
  <2>1. \A o \in XObjects : xline'[o].id = xline[o].id /\ xline'[o].again = xline[o].again /\ (InMap(o)' <=> InMap(o))
    BY <1>7 DEF InMap
  <2> QED BY <2>1, <1>1, MapFrame DEF XInv
<1>10. ASSUME NEW t \in XSides PROVE SidePhase(t)'
  <2>1. SidePhase(t) /\ \A o \in XObjects : xline'[o].pc = xline[o].pc
    BY <1>7 DEF XInv
  <2>2. CASE t = s
    BY <2>1, <2>2, <1>1, <1>3, <1>5 DEF SidePhase
  <2>3. CASE t # s
    <3>1. xside'[t] = xside[t]
      BY <2>3, <1>5
    <3> QED BY <2>1, <3>1, <1>1, PhaseFrame
  <2> QED BY <2>2, <2>3
<1>11. ASSUME NEW o \in XObjects PROVE LineStage(o)'
  <2>1. StageOf(o, xline[o]) /\ (xline[o].ufin => xside[o[1]].phase # "run") /\ o[1] \in XSides
    BY Pairs DEF XInv, LineStage
  <2>2. StageOf(o, xline'[o])
    <3>1. xline'[o].pc = "none" => ~xline'[o].ufin
      BY <2>1, <1>7 DEF StageOf, InMap, Registered
    <3>2. xline'[o].thr = "none" => xline'[o].unproc = 0
      BY <2>1, <1>7 DEF StageOf
    <3> QED BY <2>1, <3>1, <3>2, <1>7 DEF StageOf
  <2>3. xline'[o].ufin => xside'[o[1]].phase # "run"
    BY <2>1, <1>3, <1>5, <1>6, <1>7 DEF StopsOnly
  <2> QED BY <2>2, <2>3 DEF LineStage
<1>12. ASSUME NEW c \in 1..XConnects PROVE Partners(c)' /\ Gentle(c)
  <2>1. Partners(c) /\ Asker(c) \in XObjects /\ Asked(c) \in XObjects
    BY EndsOf DEF XInv
  <2>2. /\ xline'[Asker(c)].pc = xline[Asker(c)].pc /\ xline'[Asker(c)].id = xline[Asker(c)].id /\ xline'[Asker(c)].thr = xline[Asker(c)].thr
        /\ xline'[Asker(c)].remote = xline[Asker(c)].remote /\ xline'[Asker(c)].rwin = xline[Asker(c)].rwin
        /\ xline'[Asked(c)].pc = xline[Asked(c)].pc /\ xline'[Asked(c)].id = xline[Asked(c)].id
        /\ xline'[Asked(c)].remote = xline[Asked(c)].remote /\ xline'[Asked(c)].rwin = xline[Asked(c)].rwin
    BY <2>1, <1>7
  <2> QED BY <2>1, <2>2 DEF Partners, Gentle
<1>13. IdsKept
  BY <1>7 DEF IdsKept
<1>14. Moves(s, xnet[s], <<>>) /\ <<>> \in Seq(XMsg) /\ Cut(xnet[s], xnet[s]) /\ Members(<<>>) = {}
  BY <1>1, StillMoves, FewMembers
<1>15. MessagesOk' /\ OneDecision'
  BY <1>12, <1>13, <1>14, NoDecisionStep
<1>16. ASSUME NEW o \in XObjects PROVE Flow(o)' /\ Window(o)' /\ GotInOrder(o)'
  <2>1. PICK p : p = OtherEnd(o) /\ p \in XObjects /\ p[1] \in XSides
    BY Pairs
  <2>2. LineSame(o)
    BY <1>7 DEF LineSame, InMap
  <2>3. SenderSame(p)
    <3>1. SUFFICES ASSUME InMap(p)', xside'[p[1]].phase = "run"
                   PROVE  InMap(p) /\ xline'[p].id = xline[p].id /\ xline[p].unproc + xline[p].piece <= xline'[p].unproc + xline'[p].piece
      BY DEF SenderSame
    <3>2. xline'[p].unproc = xline[p].unproc /\ xline'[p].piece = xline[p].piece
      BY <2>1, <3>1, <1>3, <1>5, <1>7
    <3>3. xline[p].unproc \in Nat /\ xline[p].piece \in Nat
      BY <2>1, <1>1, LineTyped
    <3> QED BY <2>1, <3>1, <3>2, <3>3, <1>7 DEF InMap
  <2>4. CarriedSame(o) /\ AckedSame(p)
    BY <1>1 DEF CarriedSame, AckedSame
  <2>5. FreshKept(o)
    BY <2>1, <1>7 DEF FreshKept, FreshIds
  <2>6. xline[OtherEnd(o)].given = xline'[OtherEnd(o)].given /\ xline'[o].got = xline[o].got /\ SenderSame(OtherEnd(o))
    BY <2>1, <2>3, <1>7
  <2>7. xline[OtherEnd(o)].given <= xline'[OtherEnd(o)].given
    <3>1. xline[p].given \in Nat
      BY <2>1, <1>1, LineTyped
    <3> QED BY <2>1, <2>6, <3>1
  <2>8. InMap(o) /\ FreshIds(o) => CarriedSame(o)
    BY <2>4
  <2>9. InMap(o) /\ FreshIds(o) /\ InMap(OtherEnd(o)) => AckedSame(OtherEnd(o))
    BY <2>1, <2>4
  <2>10. Flow(o)'
    BY <2>2, <2>5, <2>6, <2>8, <1>6, <1>8, FlowBy
  <2>11. Window(o)'
    BY <2>2, <2>5, <2>6, <2>8, <2>9, <1>6, <1>8, WindowBy
  <2>12. GotInOrder(o)'
    BY <2>5, <2>6, <2>7, <1>8, GotKept
  <2> QED BY <2>10, <2>11, <2>12
<1> QED BY <1>8, <1>9, <1>10, <1>11, <1>12, <1>15, <1>16 DEF XInv

-----------------------------------------------------------------------------
(* stopAndRemoveLine. *)
LEMMA LeftTyped ==
  ASSUME NEW l, l.remote \in XIdOr0, l.id \in XIdOr0, l.buf \in Seq(Seq(XByte))
  PROVE  LeftInBuffer(l) \in Seq(XMsg) /\ \A m \in Members(LeftInBuffer(l)) : m.op = "read" /\ m.to = l.remote
<1>1. PICK T : T = {m \in XMsg : m.op = "read" /\ m.to = l.remote}
  OBVIOUS
<1>2. PICK n \in Nat : n = Len(l.buf) /\ DOMAIN l.buf = 1..n /\ \A k \in 1..n : l.buf[k] \in Seq(XByte)
  OBVIOUS
<1>3. ASSUME NEW k \in 1..n PROVE (IF l.buf[k] = <<>> THEN <<>> ELSE <<ReadenBytes(l, Len(l.buf[k]))>>) \in Seq(T)
  <2>1. Len(l.buf[k]) \in Nat
    BY <1>2
  <2>2. ReadenBytes(l, Len(l.buf[k])) \in T
    BY <2>1, <1>1, ReadenTyped
  <2> QED BY <2>2
<1>4. PICK f : f = [k \in DOMAIN l.buf |-> IF l.buf[k] = <<>> THEN <<>> ELSE <<ReadenBytes(l, Len(l.buf[k]))>>]
  OBVIOUS
<1>5. f \in [1..n -> Seq(T)]
  BY <1>2, <1>3, <1>4, Zenon
<1>6. f \in Seq(Seq(T))
  BY <1>5
<1>7. PICK r : r = FlattenSeq(f) /\ r \in Seq(T)
  BY <1>6, FlattenInSeq
<1>8. r \in Seq(XMsg)
  BY <1>1, <1>7
<1>9. \A m \in Members(r) : m \in T
  BY <1>7 DEF Members
<1> QED BY <1>1, <1>4, <1>7, <1>8, <1>9 DEF LeftInBuffer

Leaves(q, l) ==
  /\ l.pc = "done" /\ l.buf = <<>> /\ l.id = xline[q].id /\ l.again = xline[q].again /\ l.ufin = xline[q].ufin /\ l.thr = xline[q].thr
  /\ l.got = xline[q].got /\ l.given = xline[q].given /\ l.remote = xline[q].remote /\ l.rwin = xline[q].rwin
  /\ l.unproc = xline[q].unproc /\ l.piece = xline[q].piece
Told(q, app) == \A m \in Members(app) : m.op = "read" /\ m.to = xline[q].remote /\ xline[q].thr # "none"

(* The map without the line. *)
LEMMA RemovedMap ==
  ASSUME XInv, NEW q \in XObjects, InMap(q), RemoveLine(q[1], xline[q].id)
  PROVE  /\ DOMAIN xmap' = XSides /\ xempty' \in [XSides -> BOOLEAN]
         /\ \A t \in XSides : t # q[1] => xmap'[t] = xmap[t] /\ xempty'[t] = xempty[t]
         /\ DOMAIN xmap'[q[1]] = DOMAIN xmap[q[1]] \ {xline[q].id}
         /\ \A i \in DOMAIN xmap'[q[1]] : xmap'[q[1]][i] = xmap[q[1]][i]
         /\ xempty'[q[1]] <=> xempty[q[1]] /\ DOMAIN xmap'[q[1]] # {}
<1>1. PICK s \in XSides : s = q[1]
  BY Pairs
<1>2. PICK left : left = [j \in DOMAIN xmap[s] \ {xline[q].id} |-> xmap[s][j]]
  OBVIOUS
<1>3. DOMAIN xmap = XSides /\ xempty \in [XSides -> BOOLEAN]
  BY DEF XInv, XTypes
<1>4. xmap' = [xmap EXCEPT ![s] = left] /\ xempty' = [xempty EXCEPT ![s] = @ /\ DOMAIN left # {}]
  BY <1>1, <1>2 DEF RemoveLine
<1>5. xmap'[s] = left /\ DOMAIN xmap' = XSides /\ \A t \in XSides : t # s => xmap'[t] = xmap[t]
  BY <1>3, <1>4
<1>6. DOMAIN left = DOMAIN xmap[s] \ {xline[q].id} /\ \A i \in DOMAIN left : left[i] = xmap[s][i]
  BY <1>2
<1>7. PICK e \in BOOLEAN : e = (xempty[s] /\ DOMAIN left # {})
  OBVIOUS
<1>8. xempty' = [xempty EXCEPT ![s] = e]
  BY <1>4, <1>7
<1>9. xempty' \in [XSides -> BOOLEAN] /\ xempty'[s] = e /\ \A t \in XSides : t # s => xempty'[t] = xempty[t]
  BY <1>3, <1>8
<1> QED BY <1>1, <1>5, <1>6, <1>7, <1>9

(* The line leaves, the other end is told no more than it counted. *)
LEMMA LeaveStep ==
  ASSUME XInv, NEW q \in XObjects, xline[q].pc = "remove", NEW l \in XLine, Leaves(q, l), RemoveLine(q[1], xline[q].id),
         Change(q, l), UNCHANGED <<xside, xup, xused>>, NEW app \in Seq(XMsg), Moves(q[1], xnet[q[1]], app), Told(q, app)
  PROVE  XInv'
<1>1. XTypes /\ q[1] \in XSides /\ Cut(xnet[q[1]], xnet[q[1]])
  BY Pairs DEF XInv, Cut
<1>2. PICK p : p = OtherEnd(q) /\ p \in XObjects /\ p # q /\ p[1] = Opposite(q[1]) /\ p[1] # q[1] /\ OtherEnd(p) = q /\ p[1] \in XSides
  BY Pairs
<1>3. xline[q] \in XLine /\ StageOf(q, xline[q]) /\ xline[q].given \in Nat
  BY <1>1, LineTyped DEF XInv, LineStage
<1>4. InMap(q) /\ xline[q].id # 0 /\ xside[q[1]].phase # "greet"
  BY <1>3, NotGreet DEF StageOf, InMap, Registered
<1>5. OnlyLine(q, l)
  BY LineNow
<1>6. ASSUME NEW o \in XObjects
      PROVE  /\ xline'[o].id = xline[o].id /\ xline'[o].again = xline[o].again /\ (o # q => xline'[o] = xline[o])
             /\ (InMap(o)' <=> InMap(o) /\ o # q)
  BY <1>5 DEF OnlyLine, Leaves, InMap, Registered
<1>7. /\ DOMAIN xmap' = XSides /\ xempty' \in [XSides -> BOOLEAN]
      /\ \A t \in XSides : t # q[1] => xmap'[t] = xmap[t] /\ xempty'[t] = xempty[t]
      /\ DOMAIN xmap'[q[1]] = DOMAIN xmap[q[1]] \ {xline[q].id}
      /\ \A i \in DOMAIN xmap'[q[1]] : xmap'[q[1]][i] = xmap[q[1]][i]
      /\ xempty'[q[1]] <=> xempty[q[1]] /\ DOMAIN xmap'[q[1]] # {}
  BY <1>4, RemovedMap
<1>8. XTypes'
  <2>1. xnet' \in [XSides -> Seq(XMsg)]
    BY <1>1, MoveNets
  <2>2. xline' \in [XObjects -> XLine]
    BY <1>1, LineStep DEF Change
  <2> QED BY <2>1, <2>2, <1>1, <1>7 DEF XTypes
<1>9. MapExact'
  <2>1. ASSUME NEW t \in XSides, NEW i \in DOMAIN xmap'[t]
        PROVE  i \in xused'[t] /\ xmap'[t][i] \in XObjects /\ xmap'[t][i][1] = t /\ xline'[xmap'[t][i]].id = i
               /\ xline'[xmap'[t][i]].pc \in Registered
    <3>1. i \in DOMAIN xmap[t] /\ xmap'[t][i] = xmap[t][i] /\ (t = q[1] => i # xline[q].id)
      BY <2>1, <1>7
    <3>2. i \in xused[t] /\ xmap[t][i] \in XObjects /\ xmap[t][i][1] = t /\ xline[xmap[t][i]].id = i /\ InMap(xmap[t][i])
      BY <3>1 DEF XInv, MapExact
    <3>3. xmap[t][i] # q
      BY <3>1, <3>2
    <3>4. PICK o \in XObjects : o = xmap[t][i]
      BY <3>2
    <3>5. xline'[o] = xline[o]
      BY <3>3, <3>4, <1>6
    <3> QED BY <3>1, <3>2, <3>4, <3>5 DEF InMap
  <2>2. ASSUME NEW o \in XObjects, InMap(o)' PROVE xline'[o].id \in DOMAIN xmap'[o[1]] /\ xmap'[o[1]][xline'[o].id] = o
    <3>1. InMap(o) /\ o # q /\ xline'[o].id = xline[o].id /\ o[1] \in XSides
      BY <2>2, <1>6, Pairs
    <3>2. xline[o].id \in DOMAIN xmap[o[1]] /\ xmap[o[1]][xline[o].id] = o /\ xmap[q[1]][xline[q].id] = q
      BY <3>1, <1>4 DEF XInv, MapExact
    <3>3. o[1] = q[1] => xline[o].id # xline[q].id
      BY <3>1, <3>2
    <3> QED BY <3>1, <3>2, <3>3, <1>7
  <2>3. ASSUME NEW o \in XObjects, xline'[o].id # 0 PROVE xline'[o].id \in xused'[o[1]]
    BY <2>3, <1>6 DEF XInv, MapExact
  <2> QED BY <2>1, <2>2, <2>3 DEF MapExact, InMap
<1>10. FirstOfId'
  BY <1>6 DEF XInv, FirstOfId
<1>11. ASSUME NEW t \in XSides PROVE SidePhase(t)'
  <2>1. SidePhase(t)
    BY DEF XInv
  <2>2. \A o \in XObjects : o[1] = t /\ xside[t].phase = "greet" => xline'[o].pc = xline[o].pc
    BY <1>4, <1>6
  <2>3. CASE t = q[1]
    BY <2>1, <2>2, <2>3, <1>4, <1>7 DEF SidePhase
  <2>4. CASE t # q[1]
    BY <2>1, <2>2, <2>4, <1>7 DEF SidePhase
  <2> QED BY <2>3, <2>4
<1>12. ASSUME NEW o \in XObjects PROVE LineStage(o)'
  <2>1. LineStage(o)
    BY DEF XInv
  <2>2. CASE o = q
    <3>1. StageOf(q, l)
      BY <1>3, <1>4 DEF StageOf, Leaves, Registered
    <3> QED BY <2>1, <2>2, <3>1, <1>5 DEF LineStage, OnlyLine, Leaves
  <2>3. CASE o # q
    BY <2>1, <2>3, <1>6 DEF LineStage
  <2> QED BY <2>2, <2>3
<1>13. (\A c \in 1..XConnects : Partners(c)' /\ Gentle(c)) /\ IdsKept
  <2>1. CalmPartner(q, l)
    BY DEF CalmPartner, Leaves, Undecided
  <2> QED BY <2>1, <1>5, CalmLine DEF OnlyLine, Leaves
<1>14. \A m \in Members(app) : m.op \notin Deciding /\ MessageOk(Opposite(q[1]), m)'
  <2>1. ASSUME NEW m \in Members(app) PROVE m.op \notin Deciding /\ MessageOk(Opposite(q[1]), m)'
    <3>1. m.op = "read" /\ m.to = xline[q].remote /\ xline[q].thr # "none"
      BY <2>1 DEF Told
    <3>2. MessageOk(OtherEnd(q)[1], m)'
      BY <3>1, <1>13, ReadSentOk
    <3> QED BY <3>1, <3>2, <1>2 DEF Deciding
  <2> QED BY <2>1
<1>15. MessagesOk' /\ OneDecision'
  BY <1>1, <1>13, <1>14, NoDecisionStep
<1>16. StopsOnly /\ \A o \in XObjects : FreshKept(o)
  <2>1. \A o \in XObjects : OtherEnd(o) \in XObjects
    BY Pairs
  <2> QED BY <2>1, <1>6 DEF StopsOnly, FreshKept, FreshIds
<1>17. xnet'[q[1]] = xnet[q[1]] /\ CarriedSame(p)
  <2>1. PICK i : i = xline[p].id
    OBVIOUS
  <2>2. /\ xnet'[q[1]] = xnet[q[1]] /\ Carried(xnet'[p[1]], i) = Carried(xnet[p[1]], i) \o Carried(app, i)
    BY <1>2, SentCarried
  <2>3. \A m \in Members(app) : BytesFor(m, i) = <<>>
    BY DEF Told, BytesFor
  <2>4. Carried(app, i) = <<>> /\ Carried(xnet[p[1]], i) \in Seq(XByte)
    BY <2>1, <2>3, <1>1, <1>2, CarriedNone, CarriedLine
  <2> QED BY <2>1, <2>2, <2>4 DEF CarriedSame
<1>18. ASSUME NEW o \in XObjects PROVE Flow(o)' /\ Window(o)'
  <2>1. CASE o = q
    <3>1. ~InMap(q)'
      BY <1>6
    <3> QED BY <2>1, <3>1 DEF Flow, Window
  <2>2. CASE o = p
    <3>1. ~InMap(q)'
      BY <1>6
    <3>2. l.given = xline[q].given /\ SenderSame(q) /\ AckedSame(q) /\ CarriedSame(OtherEnd(q))
      BY <3>1, <1>2, <1>17 DEF Leaves, SenderSame, AckedSame
    <3> QED BY <2>2, <3>2, <1>2, <1>5, <1>8, <1>16, FlowPartner, WindowPartner
  <2>3. CASE o # q /\ o # p
    <3>1. \A m \in Members(app) : m.to = xline[q].remote
      BY DEF Told
    <3>2. ReachesEnds(q[1], xnet[q[1]], app, o)
      BY <2>3, <3>1, <1>2, SentOthers
    <3> QED BY <2>3, <3>2, <1>1, <1>2, <1>5, <1>8, <1>16, FlowOther
  <2> QED BY <2>1, <2>2, <2>3
<1>19. \A o \in XObjects : GotInOrder(o)'
  <2>1. xline[q].given <= l.given /\ l.got = xline[q].got
    BY <1>3 DEF Leaves
  <2> QED BY <2>1, <1>5, <1>8, <1>16, GotAll
<1> QED BY <1>8, <1>9, <1>10, <1>11, <1>12, <1>13, <1>15, <1>18, <1>19 DEF XInv

LEMMA RemoveStep == ASSUME XInv, NEW q \in XObjects, StopAndRemoveLine(q) PROVE XInv'
<1>1. XTypes /\ q[1] \in XSides /\ xline[q].pc = "remove" /\ UNCHANGED <<xside, xup, xused>> /\ RemoveLine(q[1], xline[q].id)
  BY Pairs DEF XInv, StopAndRemoveLine, At
<1>2. xline[q] \in XLine /\ xline[q].buf \in Seq(Seq(XByte)) /\ xline[q].remote \in XIdOr0 /\ xline[q].id \in XIdOr0
  BY <1>1, LineTyped
<1>3. PICK l : l = [xline[q] EXCEPT !.pc = "done", !.buf = <<>>]
  OBVIOUS
<1>4. l \in XLine /\ Leaves(q, l)
  <2>1. <<>> \in Seq(Seq(XByte))
    OBVIOUS
  <2> QED BY <2>1, <1>2, <1>3 DEF XLine, Leaves
<1>5. Change(q, l)
  BY <1>3 DEF StopAndRemoveLine
<1>6. PICK ms : ms = IF xline[q].thr = "none" THEN <<>> ELSE LeftInBuffer(xline[q])
  OBVIOUS
<1>7. ms \in Seq(XMsg) /\ Told(q, ms)
  <2>1. CASE xline[q].thr = "none"
    BY <2>1, <1>6, FewMembers DEF Told
  <2>2. CASE xline[q].thr # "none"
    BY <2>2, <1>2, <1>6, LeftTyped DEF Told
  <2> QED BY <2>1, <2>2
<1>8. Sends(q[1], ms)
  BY <1>6 DEF StopAndRemoveLine
<1>9. PICK app \in {ms, <<>>} : Moves(q[1], xnet[q[1]], app) /\ app \in Seq(XMsg)
  BY <1>1, <1>7, <1>8, SendsMoves
<1>10. Told(q, app)
  BY <1>7, <1>9, FewMembers DEF Told
<1> QED BY <1>1, <1>4, <1>5, <1>9, <1>10, LeaveStep

-----------------------------------------------------------------------------
(* registerLine. *)
Unnamed(q) == xline[q].pc \in {"none", "accept"} /\ xside[q[1]].phase # "greet"
SameRest(q, l) ==
  /\ l.ufin = xline[q].ufin /\ l.thr = xline[q].thr /\ l.buf = xline[q].buf /\ l.got = xline[q].got /\ l.given = xline[q].given
  /\ l.remote = xline[q].remote /\ l.rwin = xline[q].rwin /\ l.unproc = xline[q].unproc /\ l.piece = xline[q].piece
Named(q, l, i) ==
  /\ l.id = i /\ (l.again <=> i \in xused[q[1]]) /\ SameRest(q, l)
  /\ l.pc \in {"wait", "remove", "callback"} /\ (l.pc = "wait" => q[1] = "A")
Enters(q, i) ==
  /\ xmap' = [xmap EXCEPT ![q[1]] = [j \in DOMAIN @ \cup {i} |-> IF j = i THEN q ELSE @[j]]]
  /\ xempty' = [xempty EXCEPT ![q[1]] = TRUE] /\ xused' = [xused EXCEPT ![q[1]] = @ \cup {i}] /\ UNCHANGED xside

(* A line that is not registered yet has no id, and the id it is given is not in the map. *)
LEMMA UnnamedLine ==
  ASSUME XInv, NEW q \in XObjects, Unnamed(q)
  PROVE  /\ xline[q].id = 0 /\ xline[q].thr = "none" /\ xline[q].buf = <<>> /\ ~xline[q].again /\ xline[q].given = 0 /\ xline[q].got = <<>>
         /\ xline[q].unproc = 0 /\ xline[q].piece = 0 /\ ~InMap(q) /\ StageOf(q, xline[q]) /\ LineStage(q)
         /\ (xline[q].pc = "accept" => q[1] = "B") /\ (xline[q].pc = "none" => xline[q].remote = 0 /\ ~xline[q].ufin)
<1>1. LineStage(q) /\ StageOf(q, xline[q])
  BY DEF XInv, LineStage
<1> QED BY <1>1 DEF StageOf, Unnamed, InMap, Registered

LEMMA NewSlot ==
  ASSUME XInv, NEW s \in XSides, NEW i \in FindLocalAvailableSlot(s)
  PROVE  i \in XIds /\ i # 0 /\ i \notin DOMAIN xmap[s]
<1>1. DOMAIN xmap[s] \subseteq xused[s] /\ xused[s] \subseteq XIds
  BY DEF XInv, XTypes, MapExact
<1> QED BY <1>1, XSizes DEF FindLocalAvailableSlot

(* The map with the line. *)
LEMMA EnteredMap ==
  ASSUME XInv, NEW q \in XObjects, NEW i, Enters(q, i)
  PROVE  /\ DOMAIN xmap' = XSides /\ xempty' \in [XSides -> BOOLEAN] /\ xused' = [xused EXCEPT ![q[1]] = @ \cup {i}] /\ UNCHANGED xside
         /\ \A t \in XSides : t # q[1] => xmap'[t] = xmap[t] /\ xempty'[t] = xempty[t] /\ xused'[t] = xused[t]
         /\ DOMAIN xmap'[q[1]] = DOMAIN xmap[q[1]] \cup {i} /\ xmap'[q[1]][i] = q
         /\ \A j \in DOMAIN xmap[q[1]] : j # i => xmap'[q[1]][j] = xmap[q[1]][j]
         /\ xempty'[q[1]] /\ xused'[q[1]] = xused[q[1]] \cup {i}
<1>1. PICK s \in XSides : s = q[1]
  BY Pairs
<1>2. PICK new : new = [j \in DOMAIN xmap[s] \cup {i} |-> IF j = i THEN q ELSE xmap[s][j]]
  OBVIOUS
<1>3. DOMAIN xmap = XSides /\ xempty \in [XSides -> BOOLEAN] /\ xused \in [XSides -> SUBSET XIds]
  BY DEF XInv, XTypes
<1>4. /\ xmap' = [xmap EXCEPT ![s] = new] /\ xempty' = [xempty EXCEPT ![s] = TRUE] /\ UNCHANGED xside
      /\ xused' = [xused EXCEPT ![s] = @ \cup {i}]
  BY <1>1, <1>2 DEF Enters
<1>5. xmap'[s] = new /\ DOMAIN xmap' = XSides /\ \A t \in XSides : t # s => xmap'[t] = xmap[t]
  BY <1>3, <1>4
<1>6. DOMAIN new = DOMAIN xmap[s] \cup {i} /\ new[i] = q /\ \A j \in DOMAIN xmap[s] : j # i => new[j] = xmap[s][j]
  BY <1>2
<1>7. xempty' \in [XSides -> BOOLEAN] /\ xempty'[s] = TRUE /\ \A t \in XSides : t # s => xempty'[t] = xempty[t]
  BY <1>3, <1>4
<1>8. xused'[s] = xused[s] \cup {i} /\ \A t \in XSides : t # s => xused'[t] = xused[t]
  BY <1>3, <1>4
<1> QED BY <1>1, <1>4, <1>5, <1>6, <1>7, <1>8

(* Everything but the messages, once it is entered. *)
LEMMA EnteredState ==
  ASSUME XInv, NEW q \in XObjects, Unnamed(q), NEW i \in XIds, i # 0, i \notin DOMAIN xmap[q[1]], NEW l \in XLine, Named(q, l, i),
         ~xside[q[1]].nonew, Change(q, l), Enters(q, i), UNCHANGED xup, xnet' \in [XSides -> Seq(XMsg)]
  PROVE  XTypes' /\ MapExact' /\ FirstOfId' /\ (\A t \in XSides : SidePhase(t)') /\ (\A o \in XObjects : LineStage(o)') /\ OnlyLine(q, l)
<1>1. XTypes /\ q[1] \in XSides /\ MapExact /\ FirstOfId
  BY Pairs DEF XInv
<1>2. OnlyLine(q, l) /\ xline' \in [XObjects -> XLine]
  BY <1>1, LineNow, LineStep DEF Change
<1>3. /\ DOMAIN xmap' = XSides /\ xempty' \in [XSides -> BOOLEAN] /\ xused' = [xused EXCEPT ![q[1]] = @ \cup {i}] /\ UNCHANGED xside
      /\ \A t \in XSides : t # q[1] => xmap'[t] = xmap[t] /\ xempty'[t] = xempty[t] /\ xused'[t] = xused[t]
      /\ DOMAIN xmap'[q[1]] = DOMAIN xmap[q[1]] \cup {i} /\ xmap'[q[1]][i] = q
      /\ \A j \in DOMAIN xmap[q[1]] : j # i => xmap'[q[1]][j] = xmap[q[1]][j]
      /\ xempty'[q[1]] /\ xused'[q[1]] = xused[q[1]] \cup {i}
  BY EnteredMap
<1>4. /\ xline[q].id = 0 /\ xline[q].thr = "none" /\ xline[q].buf = <<>> /\ ~xline[q].again /\ xline[q].given = 0 /\ xline[q].got = <<>>
      /\ xline[q].unproc = 0 /\ xline[q].piece = 0 /\ ~InMap(q) /\ LineStage(q)
  BY UnnamedLine
<1>5. l.pc \in Registered /\ l.id = i /\ xline'[q] = l /\ \A o \in XObjects : o # q => xline'[o] = xline[o]
  BY <1>2 DEF Named, Registered, OnlyLine
<1>6. XTypes'
  <2>1. xused' \in [XSides -> SUBSET XIds]
    BY <1>1, <1>3 DEF XTypes
  <2> QED BY <2>1, <1>1, <1>2, <1>3 DEF XTypes
<1>7. MapExact'
  <2>1. ASSUME NEW t \in XSides, NEW j \in DOMAIN xmap'[t]
        PROVE  j \in xused'[t] /\ xmap'[t][j] \in XObjects /\ xmap'[t][j][1] = t /\ xline'[xmap'[t][j]].id = j
               /\ xline'[xmap'[t][j]].pc \in Registered
    <3>1. CASE t = q[1] /\ j = i
      BY <3>1, <1>3, <1>5
    <3>2. CASE ~(t = q[1] /\ j = i)
      <4>1. j \in DOMAIN xmap[t] /\ xmap'[t][j] = xmap[t][j] /\ xused[t] \subseteq xused'[t]
        <5>1. CASE t = q[1]
          BY <5>1, <3>2, <2>1, <1>3
        <5>2. CASE t # q[1]
          BY <5>2, <2>1, <1>3
        <5> QED BY <5>1, <5>2
      <4>2. j \in xused[t] /\ xmap[t][j] \in XObjects /\ xmap[t][j][1] = t /\ xline[xmap[t][j]].id = j /\ InMap(xmap[t][j])
        BY <4>1, <1>1 DEF MapExact
      <4>3. PICK o \in XObjects : o = xmap[t][j]
        BY <4>2
      <4>4. o # q
        BY <4>2, <4>3, <1>4
      <4> QED BY <4>1, <4>2, <4>3, <4>4, <1>5 DEF InMap
    <3> QED BY <3>1, <3>2
  <2>2. ASSUME NEW o \in XObjects, xline'[o].pc \in Registered PROVE xline'[o].id \in DOMAIN xmap'[o[1]] /\ xmap'[o[1]][xline'[o].id] = o
    <3>1. CASE o = q
      BY <3>1, <1>3, <1>5
    <3>2. CASE o # q
      <4>1. InMap(o) /\ xline'[o].id = xline[o].id /\ o[1] \in XSides
        BY <2>2, <3>2, <1>5, Pairs DEF InMap
      <4>2. xline[o].id \in DOMAIN xmap[o[1]] /\ xmap[o[1]][xline[o].id] = o
        BY <4>1, <1>1 DEF MapExact
      <4>3. CASE o[1] = q[1]
        <5>1. PICK j : j = xline[o].id
          OBVIOUS
        <5>2. j \in DOMAIN xmap[q[1]] /\ j # i /\ xmap[q[1]][j] = o
          BY <4>2, <4>3, <5>1
        <5> QED BY <4>1, <4>3, <5>1, <5>2, <1>3
      <4>4. CASE o[1] # q[1]
        BY <4>1, <4>2, <4>4, <1>3
      <4> QED BY <4>3, <4>4
    <3> QED BY <3>1, <3>2
  <2>3. ASSUME NEW o \in XObjects, xline'[o].id # 0 PROVE xline'[o].id \in xused'[o[1]]
    <3>1. CASE o = q
      BY <3>1, <1>3, <1>5
    <3>2. CASE o # q
      <4>1. xline'[o].id = xline[o].id /\ o[1] \in XSides /\ xline[o].id \in xused[o[1]]
        BY <2>3, <3>2, <1>1, <1>5, Pairs DEF MapExact
      <4> QED BY <4>1, <1>3
    <3> QED BY <3>1, <3>2
  <2> QED BY <2>1, <2>2, <2>3 DEF MapExact, InMap
<1>8. FirstOfId'
  <2>1. SUFFICES ASSUME NEW o \in XObjects, NEW r \in XObjects, o[1] = r[1], xline'[o].id = xline'[r].id, xline'[o].pc \in Registered,
                        ~xline'[o].again
                 PROVE  o = r
    BY DEF FirstOfId, InMap
  <2>2. CASE o = q /\ r # q
    <3>1. i \notin xused[q[1]] /\ xline[r].id = i
      BY <2>1, <2>2, <1>5 DEF Named
    <3> QED BY <2>1, <2>2, <3>1, <1>1 DEF MapExact
  <2>3. CASE o # q /\ r = q
    <3>1. InMap(o) /\ xline[o].id = i
      BY <2>1, <2>3, <1>5 DEF InMap
    <3> QED BY <2>1, <2>3, <3>1, <1>1 DEF MapExact
  <2>4. CASE o # q /\ r # q
    BY <2>1, <2>4, <1>1, <1>5 DEF FirstOfId, InMap
  <2> QED BY <2>2, <2>3, <2>4
<1>9. ASSUME NEW t \in XSides PROVE SidePhase(t)'
  <2>1. SidePhase(t)
    BY DEF XInv
  <2>2. xside'[t] = xside[t]
    BY <1>3
  <2>3. CASE t = q[1]
    <3>1. xside[t].phase # "greet" /\ DOMAIN xmap'[t] # {} /\ xempty'[t]
      BY <2>3, <1>3 DEF Unnamed
    <3>2. xside[t].phase # "gone"
      BY <2>1, <2>3 DEF SidePhase
    <3> QED BY <2>1, <2>2, <3>1, <3>2 DEF SidePhase
  <2>4. CASE t # q[1]
    <3>1. xmap'[t] = xmap[t] /\ xempty'[t] = xempty[t] /\ \A o \in XObjects : o[1] = t => xline'[o] = xline[o]
      BY <2>4, <1>3, <1>5
    <3> QED BY <2>1, <2>2, <3>1 DEF SidePhase
  <2> QED BY <2>3, <2>4
<1>10. ASSUME NEW o \in XObjects PROVE LineStage(o)'
  <2>1. LineStage(o)
    BY DEF XInv
  <2>2. CASE o = q
    <3>1. StageOf(q, l)
      BY <1>4, <1>5 DEF StageOf, LineStage, Named, SameRest
    <3> QED BY <2>1, <2>2, <3>1, <1>3, <1>5 DEF LineStage, Named, SameRest
  <2>3. CASE o # q
    BY <2>1, <2>3, <1>3, <1>5 DEF LineStage
  <2> QED BY <2>2, <2>3
<1> QED BY <1>2, <1>6, <1>7, <1>8, <1>9, <1>10

LEMMA ObjectOf ==
  ASSUME NEW s \in XSides, NEW c \in 1..XConnects PROVE <<s, c>> \in XObjects /\ <<s, c>>[1] = s /\ <<s, c>>[2] = c
BY DEF XObjects

(* Nothing is on its way to an id that was never used. *)
LEMMA NothingSent ==
  ASSUME XInv, NEW s \in XSides, NEW i, i \notin xused[s], i # 0
  PROVE  Carried(xnet[s], i) = <<>> /\ Acked(xnet[s], i) = <<>>
<1>1. xnet[s] \in Seq(XMsg)
  BY DEF XInv, XTypes
<1>2. \A c \in 1..XConnects : xline[<<s, c>>].id # i
  <2>1. ASSUME NEW c \in 1..XConnects PROVE xline[<<s, c>>].id # i
    <3>1. PICK o \in XObjects : o = <<s, c>> /\ o[1] = s
      BY ObjectOf
    <3>2. xline[o].id # 0 => xline[o].id \in xused[o[1]]
      BY DEF XInv, MapExact
    <3> QED BY <3>1, <3>2
  <2> QED BY <2>1
<1>3. ASSUME NEW m \in Members(xnet[s]) PROVE BytesFor(m, i) = <<>> /\ AcksFor(m, i) = <<>>
  <2>1. DataOk(s, m) /\ ReadOk(s, m)
    BY DEF XInv, MessagesOk, MessageOk
  <2>2. m.op = "data" /\ m.to = i => m.bytes = <<>>
    BY <2>1, <1>2 DEF DataOk
  <2>3. ~(m.op = "read" /\ m.to = i)
    BY <2>1, <1>2 DEF ReadOk
  <2> QED BY <2>2, <2>3 DEF BytesFor, AcksFor
<1> QED BY <1>1, <1>3, CarriedNone

(* The other end of a line that is about to be registered has neither sent nor been acknowledged anything. *)
LEMMA PartnerOfNew ==
  ASSUME XInv, NEW q \in XObjects, Unnamed(q)
  PROVE  /\ xline[OtherEnd(q)].thr = "none" /\ xline[OtherEnd(q)].given = 0
         /\ InMap(OtherEnd(q)) /\ ~xline[OtherEnd(q)].again =>
              Acked(xnet[OtherEnd(q)[1]], xline[OtherEnd(q)].id) = <<>>
<1>1. q[1] \in {"A", "B"} /\ q[2] \in 1..XConnects /\ q = <<q[1], q[2]>>
  BY Pairs DEF XSides
<1>2. PICK c \in 1..XConnects : c = q[2]
  BY <1>1
<1>3. PICK p \in XObjects : p = OtherEnd(q) /\ p[1] \in XSides /\ p[2] = c /\ p = <<p[1], c>> /\ q = <<Opposite(p[1]), c>>
  <2>1. OtherEnd(q) \in XObjects /\ OtherEnd(q)[1] \in XSides /\ OtherEnd(q)[2] = q[2] /\ Opposite(OtherEnd(q)[1]) = q[1]
        /\ OtherEnd(q) = <<OtherEnd(q)[1], OtherEnd(q)[2]>>
    BY Pairs
  <2> QED BY <2>1, <1>1, <1>2
<1>4. Partners(c) /\ StageOf(p, xline[p]) /\ xline[q].id = 0 /\ xline[q].thr = "none" /\ (xline[q].pc = "accept" => q[1] = "B")
  BY UnnamedLine DEF XInv, LineStage
<1>5. xline[p].thr = "none"
  <2>1. CASE q[1] = "A"
    <3>1. q = Asker(c) /\ p = Asked(c)
      BY <2>1, <1>1, <1>2, <1>3, EndsOf DEF Asker
    <3>2. xline[p].pc = "none"
      BY <3>1, <1>4 DEF Partners
    <3> QED BY <3>2, <1>4 DEF StageOf
  <2>2. CASE q[1] = "B"
    <3>1. q = Asked(c) /\ p = Asker(c)
      BY <2>2, <1>1, <1>2, <1>3, EndsOf DEF Asked
    <3>2. CASE xline[q].pc = "accept"
      <4>1. xline[p].pc = "wait"
        BY <3>1, <3>2, <1>4 DEF Partners, Undecided
      <4>2. xline[p].thr \in {"none", "pop", "out"}
        BY LineTyped DEF XInv, XLine
      <4> QED BY <4>1, <4>2, <1>4 DEF StageOf
    <3>3. CASE xline[q].pc = "none"
      <4>1. xline[p].remote # 0 => xline[p].remote = xline[q].id
        BY <3>1, <1>4 DEF Partners
      <4> QED BY <3>1, <4>1, <1>4 DEF Partners
    <3> QED BY <3>2, <3>3 DEF Unnamed
  <2> QED BY <2>1, <2>2, <1>1
<1>6. xline[p].given = 0
  BY <1>4, <1>5 DEF StageOf
<1>7. ASSUME InMap(p), ~xline[p].again PROVE Acked(xnet[p[1]], xline[p].id) = <<>>
  <2>1. xnet[p[1]] \in Seq(XMsg)
    BY <1>3 DEF XInv, XTypes
  <2>2. ASSUME NEW m \in Members(xnet[p[1]]) PROVE AcksFor(m, xline[p].id) = <<>>
    <3>1. ReadOk(p[1], m)
      BY <1>3 DEF XInv, MessagesOk, MessageOk
    <3>2. ASSUME m.op = "read", m.to = xline[p].id PROVE FALSE
      <4>1. PICK d \in 1..XConnects : m.to = xline[<<p[1], d>>].id /\ xline[<<Opposite(p[1]), d>>].thr # "none"
        BY <3>1, <3>2 DEF ReadOk
      <4>2. PICK o \in XObjects : o = <<p[1], d>> /\ o[1] = p[1] /\ o[2] = d
        BY <1>3, ObjectOf
      <4>3. o = p
        BY <3>2, <4>1, <4>2, <1>7 DEF XInv, FirstOfId
      <4>4. d = c
        BY <4>2, <4>3, <1>3
      <4> QED BY <4>1, <4>4, <1>3, <1>4
    <3> QED BY <3>2 DEF AcksFor
  <2> QED BY <2>1, <2>2, CarriedNone
<1> QED BY <1>3, <1>5, <1>6, <1>7

SilentApp(app) == \A m \in Members(app) : Silent(m)

(* A line with a new id starts with nothing received and nothing on its way. *)
LEMMA EnteredFlow ==
  ASSUME XInv, XTypes', NEW q \in XObjects, Unnamed(q), NEW i, i # 0, NEW l, Named(q, l, i), OnlyLine(q, l), UNCHANGED xside,
         NEW app \in Seq(XMsg), Moves(q[1], xnet[q[1]], app), SilentApp(app), NEW o \in XObjects
  PROVE  Flow(o)' /\ Window(o)' /\ GotInOrder(o)'
<1>1. XTypes /\ q[1] \in XSides /\ Cut(xnet[q[1]], xnet[q[1]]) /\ StopsOnly
  BY Pairs DEF XInv, Cut, StopsOnly
<1>2. PICK p : p = OtherEnd(q) /\ p \in XObjects /\ p # q /\ p[1] = Opposite(q[1]) /\ p[1] # q[1] /\ OtherEnd(p) = q /\ p[1] \in XSides
  BY Pairs
<1>3. /\ xline[q].id = 0 /\ xline[q].thr = "none" /\ xline[q].buf = <<>> /\ ~xline[q].again /\ xline[q].given = 0 /\ xline[q].got = <<>>
      /\ xline[q].unproc = 0 /\ xline[q].piece = 0 /\ ~InMap(q)
  BY UnnamedLine
<1>4. /\ l.id = i /\ (l.again <=> i \in xused[q[1]]) /\ l.thr = "none" /\ l.buf = <<>> /\ l.given = 0 /\ l.got = <<>>
      /\ l.unproc = 0 /\ l.piece = 0
  BY <1>3 DEF Named, SameRest
<1>5. xline'[q] = l /\ xline'[p] = xline[p]
  BY <1>2 DEF OnlyLine
<1>6. \A x \in XObjects : FreshKept(x)
  <2>1. \A x \in XObjects : OtherEnd(x) \in XObjects
    BY Pairs
  <2> QED BY <2>1, <1>3 DEF FreshKept, FreshIds, OnlyLine
<1>7. \A x \in XObjects : Reaches(q[1], xnet[q[1]], app, x)
  BY SilentNothing DEF Reaches, SilentApp, NothingLost
<1>8. CarriedSame(p) /\ AckedSame(p) /\ CarriedSame(q) /\ AckedSame(q)
  BY <1>1, <1>2, <1>7, ReachSame
<1>9. xnet'[q[1]] = xnet[q[1]]
  BY SentCarried
<1>10. /\ xline[p].thr = "none" /\ xline[p].given = 0
       /\ InMap(p) /\ ~xline[p].again => Acked(xnet[p[1]], xline[p].id) = <<>>
  BY <1>2, PartnerOfNew
<1>11. /\ StageOf(p, xline[p]) /\ xline[p].unproc = 0 /\ xline[p].piece = 0
  BY <1>2, <1>10 DEF XInv, LineStage, StageOf
<1>12. FreshIds(q)' => Carried(xnet[q[1]], i) = <<>> /\ Acked(xnet[q[1]], i) = <<>>
  BY <1>1, <1>4, <1>5, NothingSent DEF FreshIds
<1>13. FreshIds(q)' <=> FreshIds(p)'
  BY <1>2 DEF FreshIds
<1>14. FlattenSeq(<<>>) = <<>>
  BY FlattenEmpty
<1>15. CASE o = q
  <2> SUFFICES ASSUME FreshIds(q)' PROVE Flow(q)' /\ Window(q)' /\ GotInOrder(q)'
    BY <1>15 DEF Flow, Window, GotInOrder
  <2>1. Carried(xnet'[q[1]], xline'[q].id) = <<>> /\ FlattenSeq(xline'[q].buf) = <<>> /\ xline'[q].got = <<>>
    BY <1>4, <1>5, <1>9, <1>12, <1>14
  <2>2. <<>> \o (<<>> \o <<>>) = <<>> /\ Len(<<>>) = 0 /\ 1..0 = {}
    OBVIOUS
  <2>3. xline'[OtherEnd(q)].given = 0
    BY <1>2, <1>5, <1>10
  <2>4. FlowOk(OtherEnd(q), <<>>, 0, xside'[q[1]].phase = "run")
    BY <2>2 DEF FlowOk
  <2>5. Flow(q)'
    BY <2>1, <2>2, <2>3, <2>4 DEF Flow
  <2>6. GotInOrder(q)'
    BY <2>1, <2>2, <2>3 DEF GotInOrder
  <2>7. Outstanding(q)' = 0
    BY <2>1, <2>2 DEF Outstanding
  <2>8. InMap(p)' /\ xside'[p[1]].phase = "run" => Acks(p)' = 0
    <3>1. SUFFICES ASSUME InMap(p)', xside'[p[1]].phase = "run" PROVE Acks(p)' = 0
      OBVIOUS
    <3>2. InMap(p) /\ ~xline[p].again
      BY <3>1, <1>2, <1>5 DEF InMap, FreshIds
    <3>3. Acked(xnet'[p[1]], xline[p].id) = <<>>
      BY <3>1, <3>2, <1>8, <1>10 DEF AckedSame
    <3> QED BY <3>3, <2>2, <1>5 DEF Acks
  <2>9. xline'[p].unproc + xline'[p].piece = 0 /\ XWindow \in Nat
    BY <1>5, <1>11, XSizes
  <2>10. Window(q)'
    BY <2>7, <2>8, <2>9, <1>2 DEF Window
  <2> QED BY <2>5, <2>6, <2>10
<1>16. CASE o = p
  <2>1. l.given = xline[q].given /\ CarriedSame(OtherEnd(q))
    BY <1>2, <1>3, <1>4, <1>8
  <2>2. Flow(OtherEnd(q))'
    BY <2>1, <1>1, <1>6, FlowPartner
  <2>3. GotInOrder(p)'
    <3>1. xline[OtherEnd(p)].given <= xline'[OtherEnd(p)].given
      BY <1>2, <1>3, <1>4, <1>5
    <3> QED BY <3>1, <1>2, <1>5, <1>6, GotKept
  <2>4. Window(p)'
    <3> SUFFICES ASSUME InMap(p)', FreshIds(p)' PROVE Window(p)'
      BY DEF Window
    <3>1. InMap(p) /\ FreshIds(p) /\ Flow(p)
      BY <1>2, <1>5, <1>6 DEF InMap, FreshKept, XInv
    <3>2. PICK c, f, g : c = Carried(xnet[p[1]], xline[p].id) /\ f = FlattenSeq(xline[p].buf) /\ g = xline[p].got
      OBVIOUS
    <3>3. c \in Seq(XByte) /\ f \in Seq(XByte) /\ g \in Seq(XByte)
      BY <3>2, <1>1, <1>2, CarriedLine
    <3>4. Len(g \o (f \o c)) <= 0
      BY <3>1, <3>2, <1>2, <1>3, <1>10 DEF Flow, FlowOk
    <3>5. Len(c) = 0 /\ Len(f) = 0
      BY <3>3, <3>4
    <3>6. c = <<>> /\ f = <<>>
      BY <3>3, <3>5
    <3>7. Len(<<>>) = 0
      OBVIOUS
    <3>8. Outstanding(p)' = 0
      <4>1. Carried(xnet'[p[1]], xline[p].id) = <<>>
        BY <3>2, <3>6, <1>8 DEF CarriedSame
      <4>2. Carried(xnet'[p[1]], xline'[p].id) = <<>> /\ FlattenSeq(xline'[p].buf) = <<>>
        BY <4>1, <3>2, <3>6, <1>5
      <4>3. Outstanding(p)' = Len(<<>>) + Len(<<>>)
        BY <4>2 DEF Outstanding
      <4> QED BY <4>3, <3>7
    <3>9. Acks(q)' = 0
      BY <3>7, <1>4, <1>5, <1>9, <1>12, <1>13 DEF Acks
    <3>10. xline'[q].unproc + xline'[q].piece = 0 /\ XWindow \in Nat
      BY <1>4, <1>5, XSizes
    <3> QED BY <3>8, <3>9, <3>10, <1>2 DEF Window
  <2> QED BY <2>2, <2>3, <2>4, <1>2, <1>16
<1>17. CASE o # q /\ o # p
  <2>1. ReachesEnds(q[1], xnet[q[1]], app, o)
    <3>1. OtherEnd(o) \in XObjects
      BY Pairs
    <3> QED BY <3>1, <1>7 DEF ReachesEnds
  <2>2. Flow(o)' /\ Window(o)'
    BY <2>1, <1>1, <1>2, <1>17, FlowOther
  <2>3. GotInOrder(o)'
    <3>1. xline[q].given <= l.given
      BY <1>3, <1>4
    <3> QED BY <3>1, <1>6, <1>17, GotAll
  <2> QED BY <2>2, <2>3
<1> QED BY <1>15, <1>16, <1>17

(* A search for an id that gives up, and a multiplexer that takes no new lines. *)
Denied(q, l) == l.pc = "done" /\ l.id = xline[q].id /\ l.again = xline[q].again /\ SameRest(q, l)
SearchFails(s) ==
  \/ UNCHANGED <<xmap, xempty, xused, xside>>
  \/ /\ xempty' = [xempty EXCEPT ![s] = FALSE] /\ xside' = [xside EXCEPT ![s].missed = TRUE]
     /\ UNCHANGED <<xmap, xused>>

(* No line is entered then. *)
LEMMA SearchSides ==
  ASSUME XInv, NEW s \in XSides, SearchFails(s)
  PROVE  /\ xempty' \in [XSides -> BOOLEAN] /\ xside' \in [XSides -> XSideState] /\ UNCHANGED <<xmap, xused>> /\ StopsOnly
         /\ \A t \in XSides : /\ xside'[t].phase = xside[t].phase /\ xside'[t].nosend = xside[t].nosend /\ xside'[t].nonew = xside[t].nonew
                              /\ \/ xside'[t].missed = xside[t].missed /\ xempty'[t] = xempty[t]
                                 \/ xside'[t].missed
<1>1. XTypes /\ xempty \in [XSides -> BOOLEAN] /\ xside \in [XSides -> XSideState]
  BY DEF XInv, XTypes
<1>2. CASE UNCHANGED <<xmap, xempty, xused, xside>>
  BY <1>1, <1>2 DEF StopsOnly
<1>3. CASE /\ xempty' = [xempty EXCEPT ![s] = FALSE] /\ xside' = [xside EXCEPT ![s].missed = TRUE]
           /\ UNCHANGED <<xmap, xused>>
  <2>1. PICK v : v = [xside[s] EXCEPT !.missed = TRUE]
    OBVIOUS
  <2>2. v \in XSideState /\ v.phase = xside[s].phase /\ v.nosend = xside[s].nosend /\ v.nonew = xside[s].nonew /\ v.missed
    BY <1>1, <2>1 DEF XSideState
  <2>3. xside' = [xside EXCEPT ![s] = v]
    BY <1>3, <2>1
  <2>4. xside' \in [XSides -> XSideState] /\ xside'[s] = v /\ \A t \in XSides : t # s => xside'[t] = xside[t]
    BY <2>2, <2>3, <1>1
  <2>5. xempty' \in [XSides -> BOOLEAN] /\ \A t \in XSides : t # s => xempty'[t] = xempty[t]
    BY <1>1, <1>3
  <2> QED BY <2>2, <2>4, <2>5, <1>3 DEF StopsOnly
<1> QED BY <1>2, <1>3 DEF SearchFails

LEMMA DeniedState ==
  ASSUME XInv, NEW q \in XObjects, Unnamed(q), NEW l \in XLine, Denied(q, l), Change(q, l), SearchFails(q[1]), UNCHANGED xup,
         xnet' \in [XSides -> Seq(XMsg)]
  PROVE  XTypes' /\ MapExact' /\ FirstOfId' /\ (\A t \in XSides : SidePhase(t)') /\ (\A o \in XObjects : LineStage(o)')
<1>1. XTypes /\ q[1] \in XSides /\ MapExact /\ FirstOfId
  BY Pairs DEF XInv
<1>2. OnlyLine(q, l) /\ xline' \in [XObjects -> XLine]
  BY <1>1, LineNow, LineStep DEF Change
<1>3. /\ xempty' \in [XSides -> BOOLEAN] /\ xside' \in [XSides -> XSideState] /\ UNCHANGED <<xmap, xused>>
      /\ \A t \in XSides : /\ xside'[t].phase = xside[t].phase /\ xside'[t].nosend = xside[t].nosend /\ xside'[t].nonew = xside[t].nonew
                           /\ \/ xside'[t].missed = xside[t].missed /\ xempty'[t] = xempty[t]
                              \/ xside'[t].missed
  BY <1>1, SearchSides
<1>4. ~InMap(q) /\ LineStage(q) /\ StageOf(q, xline[q]) /\ xline[q].id = 0
  BY UnnamedLine
<1>5. XTypes'
  BY <1>1, <1>2, <1>3 DEF XTypes
<1>6. ASSUME NEW o \in XObjects
      PROVE  xline'[o].id = xline[o].id /\ xline'[o].again = xline[o].again /\ (InMap(o)' <=> InMap(o))
  BY <1>2, <1>4 DEF OnlyLine, Denied, InMap, Registered
<1>7. MapExact' /\ FirstOfId'
  BY <1>1, <1>3, <1>6, MapFrame
<1>8. ASSUME NEW t \in XSides PROVE SidePhase(t)'
  <2>1. SidePhase(t)
    BY DEF XInv
  <2>2. xside[t].phase = "greet" => \A o \in XObjects : o[1] = t => xline'[o].pc = "none"
    <3>1. CASE t = q[1]
      BY <3>1 DEF Unnamed
    <3>2. CASE t # q[1]
      BY <3>2, <2>1, <1>2 DEF OnlyLine, SidePhase
    <3> QED BY <3>1, <3>2
  <2>3. /\ xside'[t].phase = xside[t].phase /\ xside'[t].nosend = xside[t].nosend /\ xside'[t].nonew = xside[t].nonew
        /\ \/ xside'[t].missed = xside[t].missed /\ xempty'[t] = xempty[t]
           \/ xside'[t].missed
    BY <1>3
  <2>4. CASE xside'[t].missed
    BY <2>1, <2>2, <2>3, <2>4, <1>3 DEF SidePhase
  <2>5. CASE xside'[t].missed = xside[t].missed /\ xempty'[t] = xempty[t]
    BY <2>1, <2>2, <2>3, <2>5, <1>3 DEF SidePhase
  <2> QED BY <2>3, <2>4, <2>5
<1>9. ASSUME NEW o \in XObjects PROVE LineStage(o)'
  <2>1. LineStage(o) /\ o[1] \in XSides
    BY Pairs DEF XInv
  <2>2. CASE o = q
    <3>1. StageOf(q, l)
      BY <1>4 DEF StageOf, Denied, SameRest, Registered, Unnamed
    <3>2. xline'[q] = l /\ l.ufin = xline[q].ufin
      BY <1>2 DEF OnlyLine, Denied, SameRest
    <3> QED BY <2>1, <2>2, <3>1, <3>2, <1>3 DEF LineStage
  <2>3. CASE o # q
    BY <2>1, <2>3, <1>2, <1>3 DEF LineStage, OnlyLine
  <2> QED BY <2>2, <2>3
<1> QED BY <1>5, <1>7, <1>8, <1>9

LEMMA DeniedFlow ==
  ASSUME XInv, XTypes', NEW q \in XObjects, Unnamed(q), NEW l, Denied(q, l), OnlyLine(q, l), StopsOnly,
         NEW app \in Seq(XMsg), Moves(q[1], xnet[q[1]], app), SilentApp(app), NEW o \in XObjects
  PROVE  Flow(o)' /\ Window(o)' /\ GotInOrder(o)'
<1>1. q[1] \in XSides /\ Cut(xnet[q[1]], xnet[q[1]])
  BY Pairs DEF Cut
<1>2. xline[q].unproc = 0 /\ xline[q].piece = 0 /\ xline[q].thr = "none"
  BY UnnamedLine
<1>3. SameName(q, l) /\ CalmFlow(q, l)
  BY <1>2 DEF SameName, CalmFlow, Denied, SameRest, Registered
<1>4. ReachesEnds(q[1], xnet[q[1]], app, o)
  BY SilentNothing DEF ReachesEnds, Reaches, SilentApp, NothingLost
<1> QED BY <1>1, <1>3, <1>4, FlowCalm

-----------------------------------------------------------------------------
(* registerLine as a whole. *)
NewName(q, pc, l) == SameRest(q, l) /\ ((l.pc = pc /\ l.id # 0) \/ (l.pc = "done" /\ l.id = 0))

LEMMA Truth == ASSUME NEW i, NEW S PROVE \E h \in BOOLEAN : h = (i \in S)
<1>1. CASE i \in S
  <2>1. TRUE = (i \in S)
    BY <1>1
  <2> QED BY <2>1
<1>2. CASE i \notin S
  <2>1. FALSE = (i \in S)
    BY <1>2
  <2> QED BY <2>1
<1> QED BY <1>1, <1>2

(* Its three outcomes. *)
LEMMA RegisterCases ==
  ASSUME XInv, NEW q \in XObjects, Unnamed(q), NEW pc \in {"wait", "remove", "callback"}, pc = "wait" => q[1] = "A", RegisterLine(q, pc)
  PROVE  \E l \in XLine :
           /\ Change(q, l) /\ NewName(q, pc, l)
           /\ \/ \E i \in XIds : i # 0 /\ i \notin DOMAIN xmap[q[1]] /\ Named(q, l, i) /\ Enters(q, i) /\ ~xside[q[1]].nonew
              \/ Denied(q, l) /\ SearchFails(q[1])
<1>1. q[1] \in XSides /\ XTypes /\ xline[q] \in XLine /\ xline[q].id = 0
  BY Pairs, UnnamedLine DEF XInv, XTypes
<1>2. ASSUME NEW i \in FindLocalAvailableSlot(q[1]), ~xside[q[1]].nonew,
             Change(q, [xline[q] EXCEPT !.pc = pc, !.id = i, !.again = i \in xused[q[1]]]), Enters(q, i)
      PROVE  \E l \in XLine : /\ Change(q, l) /\ NewName(q, pc, l)
                              /\ \E j \in XIds : j # 0 /\ j \notin DOMAIN xmap[q[1]] /\ Named(q, l, j) /\ Enters(q, j) /\ ~xside[q[1]].nonew
  <2>1. i \in XIds /\ i # 0 /\ i \notin DOMAIN xmap[q[1]]
    BY <1>1, NewSlot
  <2>2. PICK h \in BOOLEAN : h = (i \in xused[q[1]])
    BY Truth
  <2>3. PICK l : l = [xline[q] EXCEPT !.pc = pc, !.id = i, !.again = h]
    OBVIOUS
  <2>4. l \in XLine /\ l.pc = pc /\ l.id = i /\ l.again = h /\ SameRest(q, l)
    BY <1>1, <2>1, <2>3 DEF XLine, Registered, XIdOr0, SameRest
  <2>5. Named(q, l, i) /\ NewName(q, pc, l)
    BY <2>1, <2>2, <2>4 DEF Named, NewName
  <2>6. Change(q, l)
    BY <2>2, <2>3, <1>2
  <2> QED BY <2>1, <2>4, <2>5, <2>6, <1>2
<1>3. ASSUME Change(q, [xline[q] EXCEPT !.pc = "done"]), SearchFails(q[1])
      PROVE  \E l \in XLine : Change(q, l) /\ NewName(q, pc, l) /\ Denied(q, l) /\ SearchFails(q[1])
  <2>1. PICK l : l = [xline[q] EXCEPT !.pc = "done"]
    OBVIOUS
  <2>2. l \in XLine /\ l.pc = "done" /\ l.id = xline[q].id /\ l.again = xline[q].again /\ SameRest(q, l)
    BY <1>1, <2>1 DEF XLine, SameRest
  <2>3. Denied(q, l) /\ NewName(q, pc, l)
    BY <2>2, <1>1 DEF Denied, NewName
  <2>4. Change(q, l)
    BY <2>1, <1>3
  <2> QED BY <2>2, <2>3, <2>4, <1>3
<1>4. \/ \E i \in FindLocalAvailableSlot(q[1]) : /\ ~xside[q[1]].nonew /\ Enters(q, i)
                                                 /\ Change(q, [xline[q] EXCEPT !.pc = pc, !.id = i, !.again = i \in xused[q[1]]])
      \/ Change(q, [xline[q] EXCEPT !.pc = "done"]) /\ SearchFails(q[1])
  BY DEF RegisterLine, Enters, SearchFails
<1> QED BY <1>2, <1>3, <1>4

LEMMA RegisterStep ==
  ASSUME XInv, NEW q \in XObjects, Unnamed(q), NEW l \in XLine, Change(q, l), UNCHANGED xup,
         \/ \E i \in XIds : i # 0 /\ i \notin DOMAIN xmap[q[1]] /\ Named(q, l, i) /\ Enters(q, i) /\ ~xside[q[1]].nonew
         \/ Denied(q, l) /\ SearchFails(q[1]),
         NEW app \in Seq(XMsg), Moves(q[1], xnet[q[1]], app), SilentApp(app),
         \A c \in 1..XConnects : Partners(c)', MessagesOk', OneDecision'
  PROVE  XInv'
<1>1. XTypes /\ q[1] \in XSides /\ Cut(xnet[q[1]], xnet[q[1]])
  BY Pairs DEF XInv, Cut
<1>2. xnet' \in [XSides -> Seq(XMsg)]
  BY <1>1, MoveNets
<1>3. OnlyLine(q, l)
  BY LineNow
<1>4. ASSUME NEW i \in XIds, i # 0, i \notin DOMAIN xmap[q[1]], Named(q, l, i), Enters(q, i), ~xside[q[1]].nonew PROVE XInv'
  <2>1. XTypes' /\ MapExact' /\ FirstOfId' /\ (\A t \in XSides : SidePhase(t)') /\ (\A o \in XObjects : LineStage(o)')
    BY <1>2, <1>4, EnteredState
  <2>2. UNCHANGED xside
    BY <1>4 DEF Enters
  <2>3. \A o \in XObjects : Flow(o)' /\ Window(o)' /\ GotInOrder(o)'
    BY <2>1, <2>2, <1>3, <1>4, EnteredFlow
  <2> QED BY <2>1, <2>3 DEF XInv
<1>5. ASSUME Denied(q, l), SearchFails(q[1]) PROVE XInv'
  <2>1. XTypes' /\ MapExact' /\ FirstOfId' /\ (\A t \in XSides : SidePhase(t)') /\ (\A o \in XObjects : LineStage(o)')
    BY <1>2, <1>5, DeniedState
  <2>2. StopsOnly
    BY <1>1, <1>5, SearchSides
  <2>3. \A o \in XObjects : Flow(o)' /\ Window(o)' /\ GotInOrder(o)'
    BY <2>1, <2>2, <1>3, <1>5, DeniedFlow
  <2> QED BY <2>1, <2>3 DEF XInv
<1> QED BY <1>4, <1>5

LEMMA RefusalMade ==
  ASSUME NEW to \in XIdOr0, NEW c \in 1..XConnects, NEW a, a = Answer(to, 0, "refused", 0, c)
  PROVE  a \in XMsg /\ a.op = "refused" /\ a.to = to /\ a.conn = c
<1>1. 0 \in XIdOr0 /\ "refused" \in XOps /\ 0 \in Nat /\ c \in 0..XConnects /\ <<>> \in Seq(XByte)
  BY XSizes DEF XIdOr0, XOps, Deciding
<1> QED BY <1>1 DEF Answer, XMsg

(* A line that had no id disturbs no message. *)
LEMMA NewIds ==
  ASSUME XInv, NEW q \in XObjects, Unnamed(q), NEW l, OnlyLine(q, l)
  PROVE  /\ IdsKept
         /\ \A c \in 1..XConnects : c # q[2] => Partners(c)' /\ Gentle(c)
<1>1. xline[q].id = 0 /\ xline[q].thr = "none"
  BY UnnamedLine
<1>2. IdsKept
  BY <1>1 DEF IdsKept, OnlyLine
<1>3. ASSUME NEW c \in 1..XConnects, c # q[2] PROVE Partners(c)' /\ Gentle(c)
  <2>1. Partners(c)
    BY DEF XInv
  <2> QED BY <2>1, <1>3, OtherPartners DEF OnlyLine
<1> QED BY <1>2, <1>3

(* connect(). *)
LEMMA ConnectCallStep == ASSUME XInv, NEW q \in XObjects, XConnect(q) PROVE XInv'
<1>1. XTypes /\ OneDecision /\ q[1] = "A" /\ xline[q].pc = "none" /\ Unnamed(q) /\ UNCHANGED xup /\ "A" \in XSides
  BY DEF XInv, XConnect, At, Unnamed, XSides
<1>2. PICK c \in 1..XConnects : c = q[2] /\ q = Asker(c)
  <2>1. q[2] \in 1..XConnects /\ q = <<q[1], q[2]>>
    BY Pairs
  <2> QED BY <2>1, <1>1 DEF Asker
<1>3. /\ Asked(c) \in XObjects /\ Asked(c) # q /\ Partners(c)
  BY <1>2, EndsOf DEF XInv
<1>4. PICK pc \in {"wait", "remove", "callback"} : pc = IF xup THEN "wait" ELSE "remove"
  OBVIOUS
<1>5. RegisterLine(q, pc)
  BY <1>4 DEF XConnect
<1>6. PICK l \in XLine :
           /\ Change(q, l) /\ NewName(q, pc, l)
           /\ \/ \E i \in XIds : i # 0 /\ i \notin DOMAIN xmap[q[1]] /\ Named(q, l, i) /\ Enters(q, i) /\ ~xside[q[1]].nonew
              \/ Denied(q, l) /\ SearchFails(q[1])
  BY <1>1, <1>4, <1>5, RegisterCases
<1>7. OnlyLine(q, l)
  BY <1>6, LineNow
<1>8. xline[q].id = 0 /\ xline[q].remote = 0 /\ xline[q].thr = "none"
  BY <1>1, UnnamedLine
<1>9. xline[Asked(c)].pc = "none" /\ xline'[Asked(c)] = xline[Asked(c)] /\ xline'[q] = l
  BY <1>2, <1>3, <1>7, <1>8 DEF Partners, OnlyLine
<1>10. l.remote = 0 /\ l.thr = "none" /\ l.pc # "callback"
  BY <1>4, <1>6, <1>8 DEF NewName, SameRest
<1>11. IdsKept /\ \A d \in 1..XConnects : d # c => Partners(d)' /\ Gentle(d)
  BY <1>1, <1>2, <1>7, NewIds
<1>12. Partners(c)' /\ Gentle(c)
  BY <1>1, <1>2, <1>9, <1>10 DEF Partners, Gentle, Undecided
<1>13. \A d \in 1..XConnects : Partners(d)' /\ Gentle(d)
  BY <1>11, <1>12
<1>14. CASE xup /\ l.pc = "wait"
  <2>1. PICK m : m = Answer(0, l.id, "connect", XWindow, c)
    OBVIOUS
  <2>2. m \in XMsg /\ m.op = "connect" /\ m.from = l.id /\ m.win = XWindow /\ m.conn = c
    <3>1. 0 \in XIdOr0 /\ l.id \in XIdOr0 /\ "connect" \in XOps /\ XWindow \in Nat /\ c \in 0..XConnects
      BY XSizes DEF XIdOr0, XOps, Deciding, XLine
    <3> QED BY <2>1, <3>1, AnswerMade
  <2>3. PICK ms \in Seq(XMsg) : ms = <<m>> /\ Members(ms) = {m}
    BY <2>2, FewMembers
  <2>4. xnet' = Deliver(xnet, q[1], ms)
    BY <2>1, <2>3, <1>1, <1>2, <1>9, <1>14 DEF XConnect
  <2>5. PICK app \in {ms, <<>>} : Moves(q[1], xnet[q[1]], app) /\ app \in Seq(XMsg) /\ Cut(xnet[q[1]], xnet[q[1]])
    BY <2>4, <1>1, DeliverMoves
  <2>6. Members(app) \subseteq {m}
    BY <2>3, <2>5, FewMembers
  <2>7. SilentApp(app)
    BY <2>2, <2>6 DEF SilentApp, Silent
  <2>8. MessageOk("B", m)'
    <3>1. ConnectOk("B", m)'
      BY <2>2, <1>2, <1>9, <1>14 DEF ConnectOk
    <3>2. DecisionOk("B", m)' /\ DataOk("B", m)' /\ ReadOk("B", m)'
      BY <2>2 DEF DecisionOk, DataOk, ReadOk
    <3> QED BY <3>1, <3>2 DEF MessageOk
  <2>9. \A x \in Members(app) : MessageOk(Opposite(q[1]), x)'
    BY <2>6, <2>8, <1>1 DEF Opposite
  <2>10. MessagesOk'
    BY <2>5, <2>9, <1>1, <1>11, <1>13, MessagesStep
  <2>11. \A x \in Members(xnet[q[1]]) \cup Members(xnet[Opposite(q[1])]) : x.op \in Deciding => x.conn # c
    <3>1. ASSUME NEW s \in XSides, NEW x \in Members(xnet[s]), x.op \in Deciding PROVE x.conn # c
      <4>1. MessageOk(s, x)
        BY DEF XInv, MessagesOk
      <4>2. xline[Asker(x.conn)].pc = "wait"
        BY <4>1, <3>1 DEF MessageOk, ConnectOk, DecisionOk, Deciding
      <4> QED BY <4>2, <1>1, <1>2
    <3>2. q[1] \in XSides /\ Opposite(q[1]) \in XSides
      BY <1>1, SidesOpposite
    <3> QED BY <3>1, <3>2
  <2>12. Once(app)
    <3>1. Len(<<>>) = 0 /\ Len(<<m>>) = 1 /\ 1..0 = {} /\ 1..1 = {1}
      OBVIOUS
    <3> QED BY <3>1, <2>3, <2>5 DEF Once
  <2>13. OneDecision'
    <3>1. \A x \in Members(xnet[q[1]]) \cup Members(xnet[Opposite(q[1])]), y \in Members(app) :
            x.op \in Deciding /\ y.op \in Deciding => x.conn # y.conn
      BY <2>2, <2>6, <2>11
    <3> QED BY <3>1, <2>5, <2>12, <1>1, DecisionStep
  <2> QED BY <2>5, <2>7, <2>10, <2>13, <1>1, <1>6, <1>13, RegisterStep
<1>15. CASE ~(xup /\ l.pc = "wait")
  <2>1. UNCHANGED xnet
    BY <1>9, <1>15 DEF XConnect
  <2>2. Moves(q[1], xnet[q[1]], <<>>) /\ <<>> \in Seq(XMsg) /\ Cut(xnet[q[1]], xnet[q[1]]) /\ Members(<<>>) = {}
    BY <2>1, <1>1, StillMoves, FewMembers
  <2>3. MessagesOk' /\ OneDecision'
    BY <2>2, <1>1, <1>11, <1>13, NoDecisionStep
  <2>4. SilentApp(<<>>)
    BY <2>2 DEF SilentApp
  <2> QED BY <2>2, <2>3, <2>4, <1>1, <1>6, <1>13, RegisterStep
<1> QED BY <1>14, <1>15

(* server_AcceptConnection_Callback. *)
LEMMA AcceptStep == ASSUME XInv, NEW q \in XObjects, AcceptLine(q) PROVE XInv'
<1>1. XTypes /\ xline[q].pc = "accept" /\ UNCHANGED xup /\ RegisterLine(q, "callback") /\ xside[q[1]].phase # "greet"
  BY NotGreet DEF XInv, AcceptLine, At
<1>2. Unnamed(q)
  BY <1>1 DEF Unnamed
<1>3. q[1] = "B" /\ q[1] \in XSides /\ xline[q].id = 0 /\ xline[q].remote \in XIdOr0
  BY <1>1, <1>2, UnnamedLine, LineTyped, Pairs
<1>4. PICK c \in 1..XConnects : c = q[2] /\ q = Asked(c)
  <2>1. q[2] \in 1..XConnects /\ q = <<q[1], q[2]>>
    BY Pairs
  <2> QED BY <2>1, <1>3 DEF Asked
<1>5. Asker(c) \in XObjects /\ Asker(c) # q /\ Partners(c)
  BY <1>4, EndsOf DEF XInv
<1>6. PICK l \in XLine :
           /\ Change(q, l) /\ NewName(q, "callback", l)
           /\ \/ \E i \in XIds : i # 0 /\ i \notin DOMAIN xmap[q[1]] /\ Named(q, l, i) /\ Enters(q, i) /\ ~xside[q[1]].nonew
              \/ Denied(q, l) /\ SearchFails(q[1])
  BY <1>1, <1>2, RegisterCases
<1>7. OnlyLine(q, l)
  BY <1>6, LineNow
<1>8. xline'[q] = l /\ xline'[Asker(c)] = xline[Asker(c)]
  BY <1>5, <1>7 DEF OnlyLine
<1>9. l.remote = xline[q].remote /\ l.rwin = xline[q].rwin /\ l.pc \in {"callback", "done"}
  BY <1>6 DEF NewName, SameRest
<1>10. IdsKept /\ \A d \in 1..XConnects : d # c => Partners(d)' /\ Gentle(d)
  BY <1>2, <1>4, <1>7, NewIds
<1>11. Partners(c)' /\ Gentle(c)
  <2>1. xline[Asker(c)].remote = 0
    BY <1>3, <1>4, <1>5 DEF Partners
  <2>2. Gentle(c)
    BY <1>1, <1>4, <1>8 DEF Gentle, Undecided
  <2>3. Partners(c)'
    BY <2>1, <1>1, <1>4, <1>5, <1>8, <1>9 DEF Partners, Undecided
  <2> QED BY <2>2, <2>3
<1>12. \A d \in 1..XConnects : Partners(d)' /\ Gentle(d)
  BY <1>10, <1>11
<1>13. CASE l.pc = "done"
  <2>1. PICK a : a = Answer(xline[q].remote, 0, "refused", 0, c)
    OBVIOUS
  <2>2. a \in XMsg /\ a.op = "refused" /\ a.to = xline[q].remote /\ a.conn = c
    <3>1. PICK to \in XIdOr0 : to = xline[q].remote
      BY <1>3
    <3> QED BY <2>1, <3>1, RefusalMade
  <2>3. PICK ms \in Seq(XMsg) : ms = <<a>> /\ Members(ms) = {a}
    BY <2>2, FewMembers
  <2>4. Sends(q[1], ms)
    BY <2>1, <2>3, <1>4, <1>8, <1>13 DEF AcceptLine
  <2>5. \E app \in {ms, <<>>} : Moves(q[1], xnet[q[1]], app) /\ app \in Seq(XMsg)
    BY <2>4, <1>1, <1>3, SendsMoves
  <2>6. PICK app \in {<<a>>, <<>>} : Moves(q[1], xnet[q[1]], app) /\ app \in Seq(XMsg)
    BY <2>3, <2>5
  <2>7. Moves("B", xnet["B"], app)
    BY <2>6, <1>3
  <2>8. MessagesOk' /\ OneDecision'
    <3>1. xline[Asked(c)].pc \in Undecided /\ xline'[Asked(c)].pc \notin Undecided /\ a.to = xline[Asked(c)].remote
      BY <2>2, <1>1, <1>4, <1>8, <1>13 DEF Undecided
    <3> QED BY <2>2, <2>6, <2>7, <3>1, <1>8, <1>10, <1>12, DecisionSent
  <2>9. SilentApp(app)
    <3>1. Members(app) \subseteq {a}
      BY <2>2, <2>6, FewMembers
    <3> QED BY <3>1, <2>2 DEF SilentApp, Silent
  <2> QED BY <2>6, <2>8, <2>9, <1>1, <1>2, <1>6, <1>12, RegisterStep
<1>14. CASE l.pc # "done"
  <2>1. UNCHANGED xnet
    BY <1>8, <1>14 DEF AcceptLine
  <2>2. Moves(q[1], xnet[q[1]], <<>>) /\ <<>> \in Seq(XMsg) /\ Cut(xnet[q[1]], xnet[q[1]]) /\ Members(<<>>) = {}
    BY <2>1, <1>1, <1>3, StillMoves, FewMembers
  <2>3. MessagesOk' /\ OneDecision'
    BY <2>2, <1>3, <1>10, <1>12, NoDecisionStep
  <2>4. SilentApp(<<>>)
    BY <2>2 DEF SilentApp
  <2> QED BY <2>2, <2>3, <2>4, <1>1, <1>2, <1>6, <1>12, RegisterStep
<1> QED BY <1>13, <1>14

(* The start, every step, and what the invariant means. *)
LEMMA NewLineTyped ==
  ASSUME NEW o
  PROVE  /\ NewLine(o) \in XLine /\ StageOf(o, NewLine(o)) /\ NewLine(o).pc = "none" /\ NewLine(o).id = 0 /\ NewLine(o).remote = 0
         /\ NewLine(o).thr = "none" /\ NewLine(o).got = <<>> /\ NewLine(o).given = 0 /\ ~NewLine(o).ufin
<1>1. 0 \in XIdOr0 /\ 0 \in Nat /\ <<>> \in Seq(Seq(XByte)) /\ <<>> \in Seq(XByte)
  BY DEF XIdOr0
<1>2. NewLine(o) \in XLine
  BY <1>1 DEF NewLine, XLine
<1>3. StageOf(o, NewLine(o))
  BY DEF NewLine, StageOf, Registered
<1>4. /\ NewLine(o).pc = "none" /\ NewLine(o).id = 0 /\ NewLine(o).remote = 0
      /\ NewLine(o).thr = "none" /\ NewLine(o).got = <<>> /\ NewLine(o).given = 0 /\ ~NewLine(o).ufin
  BY DEF NewLine
<1> QED BY <1>2, <1>3, <1>4

LEMMA XStart == ASSUME XInit PROVE XInv
<1>1. \A s \in XSides : xnet[s] = <<>> /\ DOMAIN xmap[s] = {} /\ xused[s] = {} /\ xempty[s] = FALSE
  BY DEF XInit
<1>2. \A s \in XSides : /\ xside[s].phase = "greet" /\ xside[s].nosend = TRUE /\ xside[s].nonew = TRUE /\ xside[s].threaded = 0
                        /\ xside[s].missed = FALSE
  BY DEF XInit
<1>3. \A o \in XObjects : xline[o] = NewLine(o)
  BY DEF XInit
<1>4. \A o \in XObjects : /\ xline[o] \in XLine /\ StageOf(o, xline[o]) /\ xline[o].pc = "none" /\ xline[o].id = 0 /\ xline[o].remote = 0
                          /\ xline[o].thr = "none" /\ xline[o].got = <<>> /\ xline[o].given = 0 /\ ~xline[o].ufin
  BY <1>3, NewLineTyped
<1>5. \A o \in XObjects : ~InMap(o)
  BY <1>4 DEF InMap, Registered
<1>6. XTypes
  <2>1. XConnects \in Nat /\ 0 \in 0..XConnects
    BY XSizes
  <2>2. xside \in [XSides -> XSideState]
    BY <2>1 DEF XInit, XSideState
  <2>3. xnet \in [XSides -> Seq(XMsg)]
    BY FewMembers DEF XInit
  <2>4. xline \in [XObjects -> XLine]
    <3>1. \A o \in XObjects : NewLine(o) \in XLine
      BY NewLineTyped
    <3> QED BY <3>1, Zenon DEF XInit
  <2>5. xup \in BOOLEAN /\ xempty \in [XSides -> BOOLEAN] /\ xused \in [XSides -> SUBSET XIds] /\ DOMAIN xmap = XSides
    BY DEF XInit
  <2> QED BY <2>2, <2>3, <2>4, <2>5 DEF XTypes
<1>7. MapExact /\ FirstOfId
  BY <1>1, <1>4, <1>5 DEF MapExact, FirstOfId
<1>8. \A s \in XSides : SidePhase(s)
  BY <1>1, <1>2, <1>4 DEF SidePhase
<1>9. \A o \in XObjects : LineStage(o)
  BY <1>4 DEF LineStage
<1>10. \A c \in 1..XConnects : Partners(c)
  <2> SUFFICES ASSUME NEW c \in 1..XConnects PROVE Partners(c)
    OBVIOUS
  <2>1. Asker(c) \in XObjects /\ Asked(c) \in XObjects
    BY EndsOf
  <2> QED BY <2>1, <1>4 DEF Partners, Undecided
<1>11. MessagesOk
  BY <1>1, FewMembers DEF MessagesOk
<1>12. OneDecision
  <2>1. xnet["A"] = <<>> /\ xnet["B"] = <<>> /\ Members(<<>>) = {}
    BY <1>1, FewMembers DEF XSides
  <2>2. Len(<<>>) = 0 /\ 1..0 = {}
    OBVIOUS
  <2>3. Once(<<>>)
    BY <2>2 DEF Once
  <2> QED BY <2>1, <2>3 DEF OneDecision
<1>13. ASSUME NEW o \in XObjects PROVE Flow(o) /\ Window(o) /\ GotInOrder(o)
  <2>1. Flow(o) /\ Window(o)
    BY <1>5 DEF Flow, Window
  <2>2. OtherEnd(o) \in XObjects
    BY Pairs
  <2>3. xline[o].got = <<>> /\ xline[OtherEnd(o)].given = 0 /\ Len(<<>>) = 0 /\ 1..0 = {}
    BY <2>2, <1>4
  <2>4. GotInOrder(o)
    BY <2>3 DEF GotInOrder
  <2> QED BY <2>1, <2>4
<1> QED BY <1>6, <1>7, <1>8, <1>9, <1>10, <1>11, <1>12, <1>13 DEF XInv

LEMMA XStep == ASSUME XInv, [XNext]_xVars PROVE XInv'
<1>1. CASE UNCHANGED xVars
  <2>1. xup \in BOOLEAN
    BY DEF XInv, XTypes
  <2> QED BY <1>1, <2>1, FinishedStep DEF xVars
<1>2. CASE Greet
  BY <1>2, GreetStep
<1>3. CASE LineFinished
  <2>1. xup \in BOOLEAN
    BY DEF XInv, XTypes
  <2> QED BY <1>3, <2>1, FinishedStep DEF LineFinished
<1>4. CASE XClose
  BY <1>4, CloseStep
<1>5. CASE ForceClose
  BY <1>5, FinishedStep DEF ForceClose
<1>6. CASE \E o \in XObjects : XConnect(o)
  BY <1>6, ConnectCallStep
<1>7. CASE LineNext
  <2>1. CASE \E s \in XSides : \/ ReadSignal(s) \/ ReadFails(s) \/ LineConnect(s) \/ AnswerThreaded(s) \/ ConnectionAnswer(s)
                               \/ LineDataArrives(s) \/ UpdateReadenBytes(s) \/ CloseEveryLine(s) \/ WaitForEveryLine(s)
    BY <2>1, SignalStep, FailsStep, ConnectStep, ThreadedStep, ConnectionAnswerStep, ArrivesStep, ReadenStep, CloseLinesStep, WaitStep
  <2>2. CASE \E o \in XObjects : \/ AcceptLine(o) \/ AcceptCallback(o) \/ HandlerConnection(o) \/ ReadAttached(o)
                                 \/ CountSent(o) \/ SendTermination(o) \/ StopAndRemoveLine(o) \/ ProcessBuffer(o)
    BY <2>2, AcceptStep, CallbackStep, HandlerStep, AttachedStep, CountStep, TerminationStep, RemoveStep, BufferStep
  <2> QED BY <1>7, <2>1, <2>2 DEF LineNext
<1> QED BY <1>1, <1>2, <1>3, <1>4, <1>5, <1>6, <1>7 DEF XNext

LEMMA XSound == ASSUME XInv PROVE MultiplexerSound
<1>0. XTypes /\ MapExact
  BY DEF XInv
<1>1. InOrder
  <2> SUFFICES ASSUME NEW o \in XObjects, FreshIds(o)
               PROVE  /\ Len(xline[o].got) <= xline[OtherEnd(o)].given
                      /\ \A k \in DOMAIN xline[o].got : xline[o].got[k] = <<OtherEnd(o), k>>
    BY DEF InOrder
  <2>1. GotInOrder(o) /\ xline[o].got \in Seq(XByte)
    BY <1>0, LineTyped DEF XInv
  <2>2. DOMAIN xline[o].got = 1..Len(xline[o].got)
    BY <2>1
  <2> QED BY <2>1, <2>2 DEF GotInOrder
<1>2. WindowKept
  <2> SUFFICES ASSUME NEW o \in XObjects, FreshIds(o), KnownLine(o[1], xline[o].id), xmap[o[1]][xline[o].id] = o
               PROVE  Len(OnTheWay(o)) + BufferedBytes(xline[o]) <= XWindow
    BY DEF WindowKept
  <2>1. o[1] \in XSides /\ Window(o)
    BY Pairs DEF XInv
  <2>2. InMap(o)
    BY <2>1, KnownInMap
  <2>3. Outstanding(o) <= XWindow
    BY <2>1, <2>2 DEF Window
  <2>4. xnet[o[1]] \in Seq(XMsg)
    BY <1>0, CarriedLine
  <2>5. DOMAIN xnet[o[1]] = 1..Len(xnet[o[1]])
    BY <2>4
  <2>6. OnTheWay(o) = Carried(xnet[o[1]], xline[o].id)
    BY <2>5 DEF OnTheWay, Carried, BytesFor
  <2> QED BY <2>3, <2>6 DEF Outstanding, BufferedBytes
<1>3. AnswerMeetsItsLine
  <2> SUFFICES ASSUME NEW i \in DOMAIN xnet["A"], NEW m, m = xnet["A"][i], m.op \in {"established", "refused"}, KnownLine("A", m.to)
               PROVE  xmap["A"][m.to] = <<"A", m.conn>> /\ At(xmap["A"][m.to], "wait")
    BY DEF AnswerMeetsItsLine
  <2>1. "A" \in XSides /\ xnet["A"] \in Seq(XMsg)
    BY <1>0 DEF XTypes, XSides
  <2>2. i \in 1..Len(xnet["A"])
    BY <2>1
  <2>3. m \in Members(xnet["A"])
    BY <2>2 DEF Members
  <2>4. MessagesOk
    BY DEF XInv
  <2>5. DecisionOk("A", m)
    BY <2>1, <2>3, <2>4 DEF MessagesOk, MessageOk
  <2>6. PICK c \in 1..XConnects : c = m.conn /\ xline[Asker(c)].pc = "wait" /\ xline[Asker(c)].id = m.to
    BY <2>5 DEF DecisionOk
  <2>7. Asker(c) \in XObjects /\ Asker(c)[1] = "A" /\ InMap(Asker(c))
    BY <2>6, EndsOf DEF InMap, Registered
  <2>8. xmap["A"][m.to] = Asker(c)
    BY <2>6, <2>7, InMapKnown
  <2> QED BY <2>6, <2>8 DEF Asker, At
<1>4. RunOutlivesLines
  <2> SUFFICES ASSUME NEW s \in XSides, xside[s].phase = "gone", ~xside[s].missed, NEW o \in XObjects, o[1] = s
               PROVE  xline[o].pc \in {"none", "accept", "done"} /\ xline[o].thr \in {"none", "out"}
    BY DEF RunOutlivesLines
  <2>1. DOMAIN xmap[s] = {}
    BY DEF XInv, SidePhase
  <2>2. ~InMap(o)
    BY <2>1, <1>0 DEF MapExact
  <2>3. xline[o].pc \in Registered \cup {"none", "accept", "done"} /\ xline[o].thr \in {"none", "pop", "out"}
    BY <1>0, LineTyped DEF XLine
  <2>4. xline[o].pc \in {"none", "accept", "done"}
    BY <2>2, <2>3 DEF InMap
  <2>5. StageOf(o, xline[o])
    BY DEF XInv, LineStage
  <2>6. xline[o].thr # "pop"
    BY <2>4, <2>5 DEF StageOf
  <2> QED BY <2>3, <2>4, <2>6
<1> QED BY <1>1, <1>2, <1>3, <1>4 DEF MultiplexerSound

(* Whatever the ids, the sizes of windows and pieces, the calls of connect(), close() and forceClose() and what the attached *)
(* sockets say: the two Socket_Multiplexers deliver what a line reads in order while ids are not reused, a registered line  *)
(* never has more than a window on its way or in its buffer, an answer meets the line that waits for it, and run() outlives *)
(* its lines unless a search for an id gave up. *)
THEOREM MultiplexerIsSound == XSpec => []MultiplexerSound
<1>1. XInit => XInv
  BY XStart
<1>2. XInv /\ [XNext]_xVars => XInv'
  BY XStep
<1>3. XInv => MultiplexerSound
  BY XSound
<1> QED BY <1>1, <1>2, <1>3, PTL DEF XSpec
=============================================================================
