----------------------------- MODULE SocketStream -----------------------------
(***************************************************************************)
(* What two Socket_Streams exchange: integers, blocks and strings with     *)
(* their length before them, blocks up to a delimiter and, through a       *)
(* BufferedReader, lines.  The connection takes and gives any number of    *)
(* bytes at a time and may end anywhere.  A byte is a number below SBase,  *)
(* so an integer of one byte is below SBase and one of two below SBase^2;  *)
(* the delimiter is the sequence SDelim, its last byte ends a line.        *)
(***************************************************************************)
EXTENDS Naturals, Sequences, FiniteSets

CONSTANTS SBase,       \* a byte is in 0..SBase-1
          SDelim,      \* the delimiter
          SBlock,      \* what read64KBlockDelim reads at most
          SChunk,      \* mChunkSize
          SLineBuffer, \* the size of the BufferedReader
          CPlans       \* what the writer writes and how the reader reads it

(* What a plan may be.  The two ends agree on it; an integer and the length of a block fit
   their types, a delimiter ends its block and nothing before, a line has no line end, and
   what follows a line is read through the same BufferedReader. *)
WireItem(x) ==
  /\ x.op \in {"u", "block", "exact", "string", "delim", "line"}
  /\ x.op = "u" => x.width \in {1, 2} /\ x.data \in 0..(IF x.width = 1 THEN SBase - 1 ELSE SBase * SBase - 1)
  /\ x.op # "u" => x.data \in Seq(0..(SBase - 1))
  /\ x.op \in {"block", "exact", "string"} => x.width \in {1, 2} /\ x.max \in Nat
  /\ x.op \in {"block", "exact"} => Len(x.data) < IF x.width = 1 THEN SBase ELSE SBase * SBase
  /\ x.op = "delim" => /\ x.max \in Nat
                       /\ \A k \in Len(SDelim)..(Len(x.data) + Len(SDelim) - 1) :
                            SubSeq(x.data \o SDelim, k - Len(SDelim) + 1, k) # SDelim
  /\ x.op = "line" => \A k \in 1..Len(x.data) : x.data[k] # SDelim[Len(SDelim)]

ASSUME WireAssumption ==
  /\ SBase \in Nat \ {0} /\ SBlock \in Nat \ {0} /\ SChunk \in Nat /\ SLineBuffer \in Nat
  /\ SDelim \in Seq(0..(SBase - 1)) /\ SDelim # <<>>
  /\ \A p \in CPlans :
       /\ p \in Seq({p[i] : i \in DOMAIN p})
       /\ \A i \in 1..Len(p) : WireItem(p[i])
       /\ \A i, j \in 1..Len(p) : i < j /\ p[i].op = "line" => p[j].op = "line"

VARIABLES cplan,  \* sequence of [op, width, data, max]; empty before it is known
          cout,   \* writeFull: the bytes left of this call
          cwrote, \* history: the items handed over completely
          cwshut, crshut, \* the writer, the reader has shut the connection down
          cwire,  \* bytes on their way
          cread,  \* the call of the reader: stage, bytes it has, bytes it needs
          cbuf,   \* BufferedReader::m_buffer, up to m_currentBufferSize
          cgot    \* what the calls of the reader returned: [ok, data]

wireVars == <<cplan, cout, cwrote, cwshut, crshut, cwire, cread, cbuf, cgot>>

NoRead == [at |-> "idle", have |-> <<>>, need |-> 0]

WireInit ==
  /\ cplan = <<>> /\ cout = <<>> /\ cwrote = 0 /\ cwshut = FALSE /\ crshut = FALSE
  /\ cwire = <<>> /\ cread = NoRead /\ cbuf = <<>> /\ cgot = <<>>

GetSocketPair(p) ==
  /\ cplan = <<>> /\ cplan' = p
  /\ UNCHANGED <<cout, cwrote, cwshut, crshut, cwire, cread, cbuf, cgot>>

-----------------------------------------------------------------------------
(* The writer.                                                             *)

\* Big-endian, as htons, htonl and htonll make it; a length is cut to its type.
Encoded(n, width) ==
  IF width = 1 THEN <<n % SBase>> ELSE <<(n \div SBase) % SBase, n % SBase>>
MaxOf(width) == IF width = 1 THEN SBase - 1 ELSE SBase * SBase - 1

WriteU(x) == Encoded(x.data, x.width)
WriteBlockEx(x) == Encoded(Len(x.data), x.width) \o x.data
\* writeStringEx refuses what is as long as its type can tell.
StringTooLong(x) == x.op = "string" /\ Len(x.data) > MaxOf(x.width) - 1
BytesOf(x) ==
  CASE x.op = "u" -> WriteU(x)
    [] x.op \in {"block", "exact", "string"} -> WriteBlockEx(x)
    [] x.op = "delim" -> x.data \o SDelim
    [] x.op = "line" -> Append(x.data, SDelim[Len(SDelim)])

ToWrite == cplan[cwrote + 1]
StartWrite ==
  /\ cwrote < Len(cplan) /\ cout = <<>> /\ ~cwshut
  /\ IF StringTooLong(ToWrite) THEN cwshut' = TRUE /\ UNCHANGED cout     \* writeDeSync
     ELSE cout' = BytesOf(ToWrite) /\ UNCHANGED cwshut
  /\ UNCHANGED <<cplan, cwrote, crshut, cwire, cread, cbuf, cgot>>

\* One partialWrite of writeFull: some of at most a chunk.  The call ends with its last
\* byte; a failure shuts the connection down in both directions.
PartialWrite(n) ==
  /\ cout # <<>> /\ ~cwshut /\ n <= Len(cout) /\ n <= SChunk
  /\ cwire' = cwire \o SubSeq(cout, 1, n) /\ cout' = SubSeq(cout, n + 1, Len(cout))
  /\ cwrote' = IF n = Len(cout) THEN cwrote + 1 ELSE cwrote
  /\ UNCHANGED <<cplan, cwshut, crshut, cread, cbuf, cgot>>
WireWriteFails ==
  /\ cout # <<>> /\ ~cwshut /\ cwshut' = TRUE /\ cout' = <<>>
  /\ UNCHANGED <<cplan, cwrote, crshut, cwire, cread, cbuf, cgot>>
\* The peer closes: what is on its way still arrives.
WriterCloses ==
  /\ cplan # <<>> /\ cout = <<>> /\ ~cwshut /\ cwshut' = TRUE
  /\ UNCHANGED <<cplan, cout, cwrote, crshut, cwire, cread, cbuf, cgot>>

-----------------------------------------------------------------------------
(* The reader.                                                             *)

Wanted == cplan[Len(cgot) + 1]
ReaderStopped == \E i \in 1..Len(cgot) : ~cgot[i].ok

\* A caller stops at the first failure.
StartRead ==
  /\ Len(cgot) < Len(cplan) /\ ~ReaderStopped /\ cread.at = "idle"
  /\ cread' = CASE Wanted.op = "u" -> [NoRead EXCEPT !.at = "value", !.need = Wanted.width]
                [] Wanted.op \in {"block", "exact", "string"} ->
                     [NoRead EXCEPT !.at = "length", !.need = Wanted.width]
                [] Wanted.op = "delim" -> [NoRead EXCEPT !.at = "delim", !.need = 1]
                [] Wanted.op = "line" -> [NoRead EXCEPT !.at = "line"]
  /\ UNCHANGED <<cplan, cout, cwrote, cwshut, crshut, cwire, cbuf, cgot>>

ReturnRead(ok, data) ==
  cgot' = Append(cgot, [ok |-> ok, data |-> data]) /\ cread' = NoRead

\* readFull: up to a chunk at a time until there is enough; the end of the stream
\* before that is a failure.
FullRead(n) == n >= 1 /\ n <= Len(cwire) /\ n <= SChunk /\ n <= cread.need
TakeBytes(n) ==
  cwire' = SubSeq(cwire, n + 1, Len(cwire))
HaveNow(n) == cread.have \o SubSeq(cwire, 1, n)
\* Mutant: no ntohs.
DecodedULittle(b) == IF Len(b) = 1 THEN b[1] ELSE b[1] + b[2] * SBase
DecodedU(b) == IF Len(b) = 1 THEN b[1] ELSE b[1] * SBase + b[2]

MoreToRead(n) ==
  /\ cread.at \in {"value", "length", "data"} /\ FullRead(n) /\ n < cread.need /\ TakeBytes(n)
  /\ cread' = [cread EXCEPT !.have = HaveNow(n), !.need = @ - n]
  /\ UNCHANGED <<cplan, cout, cwrote, cwshut, crshut, cbuf, cgot>>

\* The last bytes of an integer, of a length, of the data.
ReadUDone(n) ==
  /\ cread.at = "value" /\ FullRead(n) /\ n >= cread.need /\ TakeBytes(n)
  /\ ReturnRead(TRUE, DecodedU(HaveNow(n))) /\ UNCHANGED <<cplan, cout, cwrote, cwshut, crshut, cbuf>>

\* A length over the limit of the caller, or another one than it asked for, shuts the
\* connection down.
LengthAllowed(len) == IF Wanted.op = "exact" THEN len = Wanted.max ELSE len <= Wanted.max
ReadLength(n) ==
  /\ cread.at = "length" /\ FullRead(n) /\ n >= cread.need /\ TakeBytes(n)
  /\ LET len == DecodedU(HaveNow(n))
     IN IF ~LengthAllowed(len) THEN crshut' = TRUE /\ ReturnRead(FALSE, <<>>)
        ELSE IF len = 0 THEN ReturnRead(TRUE, <<>>) /\ UNCHANGED crshut
        ELSE /\ cread' = [at |-> "data", have |-> <<>>, need |-> len]
             /\ UNCHANGED <<cgot, crshut>>
  /\ UNCHANGED <<cplan, cout, cwrote, cwshut, cbuf>>
ReadData(n) ==
  /\ cread.at = "data" /\ FullRead(n) /\ n >= cread.need /\ TakeBytes(n)
  /\ ReturnRead(TRUE, HaveNow(n)) /\ UNCHANGED <<cplan, cout, cwrote, cwshut, crshut, cbuf>>

\* readBlock32WAllocAndDelim: byte by byte; the end of the data is compared wherever
\* the delimiter may lie, also over the border of two blocks; a full block without it
\* is followed by another one if the limit allows it.
EndsWith(s, d) == Len(s) >= Len(d) /\ SubSeq(s, Len(s) - Len(d) + 1, Len(s)) = d
ReadDelim ==
  /\ cread.at = "delim" /\ cwire # <<>> /\ TakeBytes(1)
  /\ LET all == HaveNow(1)
     IN IF EndsWith(all, SDelim) THEN ReturnRead(TRUE, all)
        ELSE IF Len(all) % SBlock = 0 /\ Len(all) + SBlock > Wanted.max THEN ReturnRead(FALSE, <<>>)
        ELSE cread' = [cread EXCEPT !.have = all] /\ UNCHANGED cgot
  /\ UNCHANGED <<cplan, cout, cwrote, cwshut, crshut, cbuf>>

\* BufferedReader: a line in the buffer, or more bytes, or no room for them.
LineEnds == {i \in 1..Len(cbuf) : cbuf[i] = SDelim[Len(SDelim)]}
BufferedReadUntil ==
  /\ cread.at = "line" /\ LineEnds # {}
  /\ LET i == CHOOSE k \in LineEnds : \A l \in LineEnds : k <= l
     IN ReturnRead(TRUE, SubSeq(cbuf, 1, i - 1)) /\ cbuf' = SubSeq(cbuf, i + 1, Len(cbuf))
  /\ UNCHANGED <<cplan, cout, cwrote, cwshut, crshut, cwire>>
RefillBuffer(n) ==
  /\ cread.at = "line" /\ LineEnds = {} /\ Len(cbuf) < SLineBuffer
  /\ n >= 1 /\ n <= Len(cwire) /\ n <= SLineBuffer - Len(cbuf) /\ TakeBytes(n)
  /\ cbuf' = cbuf \o SubSeq(cwire, 1, n)
  /\ UNCHANGED <<cplan, cout, cwrote, cwshut, crshut, cread, cgot>>
BufferFull ==
  /\ cread.at = "line" /\ LineEnds = {} /\ Len(cbuf) >= SLineBuffer /\ ReturnRead(FALSE, <<>>)
  /\ UNCHANGED <<cplan, cout, cwrote, cwshut, crshut, cwire, cbuf>>

\* partialRead returns 0 when the writer has shut down and all has arrived: the call
\* fails, and an integer or an allocated block shuts the reader's side down too.
EndOfStream ==
  /\ cread.at # "idle" /\ cwire = <<>> /\ cwshut /\ (cread.at = "line" => LineEnds = {})
  /\ (cread.at = "line" => Len(cbuf) < SLineBuffer)
  /\ ReturnRead(FALSE, <<>>)
  /\ crshut' = (crshut \/ cread.at \in {"value", "length"} \/ (cread.at = "data" /\ Wanted.op = "string"))
  /\ UNCHANGED <<cplan, cout, cwrote, cwshut, cwire, cbuf>>

WireNext ==
  \/ \E p \in CPlans : GetSocketPair(p)
  \/ StartWrite \/ WireWriteFails \/ WriterCloses \/ StartRead
  \/ \E n \in 1..SChunk : PartialWrite(n) \/ MoreToRead(n) \/ ReadUDone(n) \/ ReadLength(n) \/ ReadData(n)
  \/ ReadDelim \/ BufferedReadUntil \/ BufferFull \/ EndOfStream
  \/ \E n \in 1..SLineBuffer : RefillBuffer(n)

WireSpec == WireInit /\ [][WireNext]_wireVars

-----------------------------------------------------------------------------
(* Properties.                                                             *)

\* However the bytes are cut on their way and wherever the connection ends, a call of
\* the reader that succeeds returns what the call of the writer at its place was given,
\* whole.
Handed(i) == IF cplan[i].op = "delim" THEN cplan[i].data \o SDelim ELSE cplan[i].data
DeliveredInOrder == \A i \in 1..Len(cgot) : cgot[i].ok => cgot[i].data = Handed(i)

\* Nothing is returned that was not written completely, and nothing over the limit of
\* the caller.
DeliveredWasWritten ==
  \A i \in 1..Len(cgot) : cgot[i].ok =>
    /\ i <= cwrote
    /\ cplan[i].op \in {"block", "exact", "string"} => Len(cgot[i].data) <= cplan[i].max

\* While the connection lasts a reader fails only at what its limits exclude: a length,
\* a block without delimiter, a line longer than the buffer.
FailsOnlyAtLimits ==
  \A i \in 1..Len(cgot) : ~cgot[i].ok =>
    \/ cwshut
    \/ cplan[i].op \in {"block", "string"} /\ Len(cplan[i].data) > cplan[i].max
    \/ cplan[i].op = "exact" /\ Len(cplan[i].data) # cplan[i].max
    \/ cplan[i].op = "delim" /\ Len(cplan[i].data) + Len(SDelim) > cplan[i].max - (cplan[i].max % SBlock)
    \/ cplan[i].op = "line" /\ Len(cplan[i].data) + 1 > SLineBuffer

StreamSound == DeliveredInOrder /\ DeliveredWasWritten /\ FailsOnlyAtLimits
=============================================================================
