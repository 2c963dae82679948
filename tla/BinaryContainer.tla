--------------------------- MODULE BinaryContainer ---------------------------
(***************************************************************************)
(* The binary containers of Memory: B_Chunks (a vector of chunks, each     *)
(* with its offset, that moves to a mapped file when it grows too large),  *)
(* the reader B_Ref on it, and B_MMAP/B_MEM/FileMap behind the file.  A    *)
(* container is a record; the operators are the methods, so that the       *)
(* stream parsers use them too.  Positions count from 0 as in the code.    *)
(* Memory is never exhausted; the file may fail to open.                   *)
(***************************************************************************)
EXTENDS Integers, Sequences, SequencesExt, FiniteSetsExt

CONSTANTS
  MaxChunkSize,  \* m_maxChunkSize
  MaxChunks,     \* m_maxChunks
  BInputs,       \* what is appended and prepended
  BMax,          \* the container's maximum size
  BInMemory      \* m_maxSizeInMemoryBeforeMovingToDisk, 0 for never

None == -1                \* std::nullopt, of a size or a position
NoBytes == <<"nullopt">>  \* ... of bytes

\* A chunk: its bytes and its offset in the container.  A file: its bytes, and
\* how many of them the B_MEM in front of it shows.
NoFile == [open |-> FALSE, data |-> <<>>, view |-> 0]
EmptyContainer(max) ==
  [chunks |-> <<>>, bytes |-> 0, max |-> max, file |-> NoFile, crashed |-> FALSE]

\* B_Chunks::size and getSizeLeft.
Size(c) == IF c.file.open THEN c.file.view ELSE c.bytes
SizeLeft(c) == Max({0, c.max - Size(c)})

NextOffset(k) == k.offset + Len(k.data)
ContainsOffset(k, o) == k.offset <= o /\ o < NextOffset(k)

Concat(chunks) == FlattenSeq([i \in DOMAIN chunks |-> chunks[i].data])
SumOfSizes(chunks) == Len(Concat(chunks))

\* What a reader that walks over the chunks, or over the view of the file, sees.
Visible(c) == IF c.file.open THEN SubSeq(c.file.data, 1, c.file.view) ELSE Concat(c.chunks)

\* recalcChunkOffsets: the pointer of the loop stays at the first chunk.
RecalcChunkOffsets(chunks) ==
  IF chunks = <<>> THEN chunks
  ELSE [chunks EXCEPT ![1].offset = (Len(chunks) - 1) * Len(chunks[1].data)]

\* The chunk that holds an offset by the binary search of
\* I_Chunk_GetPosForOffset, or None.
Middle(lo, hi) == IF lo = hi THEN lo ELSE lo + (hi + 1 - lo) \div 2 - ((hi - lo) % 2)

GetPosForOffset(chunks, o) ==
  LET n == Len(chunks)
      search[r \in (0..n) \X (0..n) \X (0..n)] ==
        LET pos == r[1] lo == r[2] hi == r[3] k == chunks[pos + 1]
        IN IF ContainsOffset(k, o) THEN pos
           ELSE IF o < k.offset
           THEN IF pos = lo THEN None ELSE search[<<Middle(lo, pos - 1), lo, pos - 1>>]
           ELSE IF pos = hi THEN None ELSE search[<<Middle(pos + 1, hi), pos + 1, hi>>]
  IN IF n = 0 THEN None
     ELSE search[<<IF n = 1 THEN 0 ELSE n \div 2 - 1, 0, n - 1>>]

-----------------------------------------------------------------------------
\* The pieces of at most MaxChunkSize into which append2 cuts its data, as many
\* as there is room for.
Pieces(d, room) ==
  LET n == (Len(d) + MaxChunkSize - 1) \div MaxChunkSize
  IN [i \in 1..Min({n, Max({0, room})}) |->
        SubSeq(d, (i - 1) * MaxChunkSize + 1, Min({Len(d), i * MaxChunkSize}))]

AppendPiece(chunks, p) ==
  Append(chunks, [data |-> p, offset |-> IF chunks = <<>> THEN 0 ELSE NextOffset(Last(chunks))])

\* Every piece goes to the front in turn; the offsets are recomputed unless the
\* vector was full.
PrependPiece(chunks, p) == <<[data |-> p, offset |-> 0]>> \o chunks

\* B_MMAP::append2 with mmapAppend: the file grows, but the B_MEM is referenced
\* again with its own size.
FileAppend(f, d) == [f EXCEPT !.data = @ \o d]

\* copyToFS: the chunks are streamed into a new file.
CopyToFS(c) == FileAppend([open |-> TRUE, data |-> <<>>, view |-> 0], Concat(c.chunks))

\* The append or prepend of a container that is in a file.  mmapPrepend copies
\* with memcpy64, which counts every block twice and never ends.
InFile(c, d, atFront) ==
  IF atFront THEN [c EXCEPT !.crashed = TRUE] ELSE [c EXCEPT !.file = FileAppend(@, d)]

\* append2 (B_Chunks): the container and the number of bytes taken.
Append2(c, d, atFront, inMemory) ==
  IF c.file.open THEN [c |-> InFile(c, d, atFront), n |-> Len(d)]
  ELSE IF inMemory # 0 /\ Len(d) + c.bytes > inMemory
  THEN [c |-> InFile([c EXCEPT !.file = CopyToFS(c), !.chunks = <<>>], d, atFront), n |-> Len(d)]
  ELSE LET ps == Pieces(d, MaxChunks - Len(c.chunks))
           taken == Len(FlattenSeq(ps))
           added == IF atFront THEN FoldLeft(PrependPiece, c.chunks, ps)
                    ELSE FoldLeft(AppendPiece, c.chunks, ps)
       IN [c |-> [c EXCEPT !.chunks = IF atFront /\ taken = Len(d) THEN RecalcChunkOffsets(added) ELSE added,
                           !.bytes = @ + taken],
           n |-> taken]

\* B_Base::append and prepend: None, and nothing done, when the maximum would be
\* exceeded; an empty append fails, an empty prepend does nothing.
AppendTo(c, d, inMemory) ==
  IF Len(d) + Size(c) > c.max \/ d = <<>> THEN [c |-> c, n |-> None]
  ELSE Append2(c, d, FALSE, inMemory)

PrependTo(c, d, inMemory) ==
  IF Len(d) + Size(c) > c.max THEN [c |-> c, n |-> None]
  ELSE IF d = <<>> THEN [c |-> c, n |-> 0]
  ELSE Append2(c, d, TRUE, inMemory)

\* displace2: whole chunks go, the next one loses its first bytes, and the offsets
\* are recomputed - also when nothing was displaced.  In a file the data moves to
\* the front and the file shrinks, the view keeps its size.
DisplaceChunks(chunks, n) ==
  LET gone == Max({i \in 0..Len(chunks) : SumOfSizes(SubSeq(chunks, 1, i)) <= n})
      rest == SubSeq(chunks, gone + 1, Len(chunks))
      cut == n - SumOfSizes(SubSeq(chunks, 1, gone))
  IN RecalcChunkOffsets(IF cut = 0 THEN rest
                        ELSE [rest EXCEPT ![1].data = SubSeq(@, cut + 1, Len(@))])

Displace(c, bytes) ==
  LET n == Min({bytes, Size(c)})
  IN IF c.file.open THEN [c EXCEPT !.file.data = SubSeq(@, n + 1, Len(@))]
     ELSE [c EXCEPT !.chunks = DisplaceChunks(@, n), !.bytes = @ - n]

\* truncate2: cuts the chunk that the search finds, or drops it when the cut is at
\* its offset.  BinaryContainerChunk::truncate leaves a chunk alone when it is
\* told to cut at zero or past its end.
TruncateChunk(k, n) ==
  IF n >= NextOffset(k) \/ n = 0 \/ n = k.offset THEN k
  ELSE [k EXCEPT !.data = SubSeq(@, 1, n - k.offset)]

\* Mutant: the chunk the cut falls into goes with the rest.
TruncateLessOne(c, n) ==
  IF n >= Size(c) \/ c.file.open THEN c
  ELSE LET i == GetPosForOffset(c.chunks, n)
       IN IF i = None THEN c
          ELSE [c EXCEPT !.chunks = SubSeq(@, 1, i), !.bytes = n]

Truncate(c, n) ==
  IF n >= Size(c) \/ c.file.open THEN c
  ELSE LET i == GetPosForOffset(c.chunks, n)
       IN IF i = None THEN c
          ELSE LET keep == IF c.chunks[i + 1].offset = n THEN SubSeq(c.chunks, 1, i)
                           ELSE Append(SubSeq(c.chunks, 1, i), TruncateChunk(c.chunks[i + 1], n))
               IN [c EXCEPT !.chunks = keep, !.bytes = n]

Clear(c) == [c EXCEPT !.chunks = <<>>, !.bytes = 0, !.file = NoFile]

-----------------------------------------------------------------------------
\* copyToBuffer2: from the chunk that the search finds, chunk after chunk to the
\* end of the vector.
CopyOut(c, n, o) ==
  IF n = 0 THEN <<>>
  ELSE IF o + n > Size(c) THEN NoBytes
  ELSE IF c.file.open THEN SubSeq(Visible(c), o + 1, o + n)
  ELSE LET i == GetPosForOffset(c.chunks, o)
       IN IF i = None THEN NoBytes
          ELSE LET k == c.chunks[i + 1]
                   rest == SubSeq(k.data, o - k.offset + 1, Len(k.data))
                           \o Concat(SubSeq(c.chunks, i + 2, Len(c.chunks)))
               IN SubSeq(rest, 1, Min({n, Len(rest)}))

\* appendTo (copyToStreamableObject2) and copyToStream2 walk over the chunks.
CopyTo(c, n, o) == IF o > Size(c) THEN NoBytes ELSE SubSeq(Visible(c), o + 1, Min({o + n, Size(c)}))

Fold(b) == IF b = "A" THEN "a" ELSE b      \* Mem::m_cmpMatrix
SameBytes(x, y, cs) == x = y \/ (~cs /\ Len(x) = Len(y) /\ \A i \in DOMAIN x : Fold(x[i]) = Fold(y[i]))

\* compare2: in a file it ends in B_Base::compare, which is always true.
Compare2(c, d, cs, o) ==
  \/ c.file.open
  \/ o + Len(d) <= Size(c) /\ SameBytes(SubSeq(Visible(c), o + 1, o + Len(d)), d, cs)

\* findChar: B_Chunks takes both cases of a letter when it is told to mind the
\* case and only the given one otherwise, and fails when the search space goes
\* beyond the container.  In a file both cases count, and there is no limit.
CharMatches(c, b, x, cs) == IF cs \/ c.file.open THEN Fold(x) = Fold(b) ELSE x = b

FindChar(c, b, o, space, cs) ==
  LET end == IF c.file.open THEN Size(c) ELSE o + space
      at == {p \in o..(Min({end, Size(c)}) - 1) : CharMatches(c, b, Visible(c)[p + 1], cs)}
  IN IF end > Size(c) \/ at = {} THEN None ELSE Min(at)

\* find: the first position of the first byte at which the rest compares; the
\* search space 0 is all there is.
FindFrom(c, d, cs, o, limit) ==
  LET space == IF limit = 0 THEN Size(c) - o ELSE limit
      at == {p \in o..(o + space - 1) :
               FindChar(c, d[1], p, o + space - p, cs) = p /\ Compare2(c, d, cs, p)}
  IN IF o > Size(c) \/ space = 0 \/ space < Len(d) THEN None
     ELSE IF d = <<>> THEN 0
     ELSE IF at = {} THEN None ELSE Min(at)

FindIn(c, d) == FindFrom(c, d, TRUE, 0, 0)

\* find of a list: the first needle of the list that is anywhere.
FindAny(c, needles) ==
  LET hits == {i \in DOMAIN needles : FindIn(c, needles[i]) # None}
  IN IF hits = {} THEN [pos |-> None, needle |-> <<>>]
     ELSE [pos |-> FindIn(c, needles[Min(hits)]), needle |-> needles[Min(hits)]]

\* B_Ref: a window on a container, limited by max bytes (None for no limit).
RefSize(c, o, max) == IF max = None \/ max > Size(c) - o THEN Size(c) - o ELSE max
RefCopyOut(c, o, max, n, at) ==
  IF at > RefSize(c, o, max) THEN NoBytes ELSE CopyOut(c, Min({n, RefSize(c, o, max) - at}), o + at)
RefContent(c, o, max) == CopyTo(c, RefSize(c, o, max), o)

\* copyUntil: -1 without the needle, -2 beyond the maximum; displaceUntil then
\* drops as many bytes as the destination has, and the needle.
CopyUntil(c, dest, d, maxCopy, removeNeedle) ==
  LET at == FindFrom(c, d, FALSE, 0, maxCopy)
      n == IF removeNeedle THEN at ELSE at + Len(d)
  IN IF at = None THEN [r |-> -1, dest |-> dest]
     ELSE IF n > maxCopy THEN [r |-> -2, dest |-> dest]
     ELSE [r |-> 0, dest |-> dest \o SubSeq(Visible(c), 1, n)]

DisplaceUntil(c, dest, d, maxCopy, removeNeedle) ==
  LET u == CopyUntil(c, dest, d, maxCopy, removeNeedle)
  IN [r |-> u.r, dest |-> u.dest,
      c |-> IF u.r < 0 THEN c
            ELSE Displace(c, Len(u.dest) + IF removeNeedle THEN Len(d) ELSE 0)]

-----------------------------------------------------------------------------
VARIABLES
  bc,        \* the container
  bcontent,  \* the bytes a correct container would hold
  btrusted   \* no operation was applied that loses the order or the chunk bounds

containerVars == <<bc, bcontent, btrusted>>

ContainerInit ==
  /\ bc = EmptyContainer(BMax)
  /\ bcontent = <<>>
  /\ btrusted = TRUE

\* The offsets of the chunks are those that append gave them.
OffsetsExact(c) ==
  \A i \in DOMAIN c.chunks : c.chunks[i].offset = SumOfSizes(SubSeq(c.chunks, 1, i - 1))

\* The offsets that displace leaves behind grow from append to append, and in a
\* file size() stays 0 so that the maximum stops nothing: BMax bounds the model.
BAppend ==
  \E d \in BInputs :
    LET r == AppendTo(bc, d, BInMemory)
    IN /\ Len(bc.file.data) <= BMax
       /\ \A i \in DOMAIN bc.chunks : bc.chunks[i].offset <= BMax
       /\ bc' = r.c
       /\ bcontent' = IF r.n = None THEN bcontent ELSE bcontent \o SubSeq(d, 1, r.n)
       /\ UNCHANGED btrusted

\* A prepend in several pieces ends up in the reverse order of the pieces.
BPrepend ==
  \E d \in BInputs :
    LET r == PrependTo(bc, d, BInMemory)
    IN /\ bc' = r.c
       /\ bcontent' = IF r.n = None THEN bcontent ELSE SubSeq(d, 1, r.n) \o bcontent
       /\ btrusted' = (btrusted /\ r.n <= MaxChunkSize /\ ~r.c.file.open)

BDisplace ==
  \E n \in 0..BMax :
    /\ bc' = Displace(bc, n)
    /\ bcontent' = SubSeq(bcontent, Min({n, Len(bcontent)}) + 1, Len(bcontent))
    /\ btrusted' = (btrusted /\ ~bc.file.open)

\* A truncation looks for its chunk by the offsets.
BTruncate ==
  \E n \in 0..BMax :
    /\ bc' = Truncate(bc, n)
    /\ bcontent' = SubSeq(bcontent, 1, Min({n, Len(bcontent)}))
    /\ btrusted' = (btrusted /\ OffsetsExact(bc) /\ ~bc.file.open)

BClear ==
  /\ bc' = Clear(bc) /\ bcontent' = <<>> /\ btrusted' = TRUE

\* displaceUntil into an empty string, for the needle <<b>>.
BDisplaceUntil ==
  \E b \in {"a", "b"}, remove \in BOOLEAN :
    LET u == DisplaceUntil(bc, <<>>, <<b>>, Size(bc), remove)
    IN /\ ~bc.file.open
       /\ bc' = u.c
       /\ bcontent' = IF u.r < 0 THEN bcontent
                      ELSE SubSeq(bcontent, SelectInSeq(bcontent, LAMBDA x : x = b) + 1, Len(bcontent))
       /\ UNCHANGED btrusted

ReduceMaxSizeBy ==
  /\ bc.max > 2
  /\ bc' = [bc EXCEPT !.max = @ - 1]
  /\ UNCHANGED <<bcontent, btrusted>>

\* A container that lost its order or its bounds is not followed further, except
\* for the clear that makes it good again.
ContainerNext ==
  \/ ~bc.crashed /\ BClear
  \/ btrusted /\ (BAppend \/ BPrepend \/ BDisplace \/ BTruncate \/ BDisplaceUntil \/ ReduceMaxSizeBy)

-----------------------------------------------------------------------------
(* What the container holds is what was appended and prepended minus what was
   displaced and truncated, across the bounds of the chunks: the counter of bytes
   agrees with the chunks and is never raised beyond the maximum, no chunk is
   empty, and the vector keeps its limit. *)
HoldsItsContent ==
  btrusted /\ ~bc.file.open =>
    /\ Concat(bc.chunks) = bcontent
    /\ bc.bytes = Len(bcontent)
    /\ Len(bc.chunks) <= MaxChunks
    /\ \A i \in DOMAIN bc.chunks : Len(bc.chunks[i].data) \in 1..MaxChunkSize

(* While the offsets are those of append, the binary search finds the chunk of
   every offset: copyOut returns any range of the content. *)
RangesExact ==
  btrusted /\ ~bc.file.open /\ OffsetsExact(bc) =>
    \A o \in 0..Len(bcontent) : \A n \in 0..(Len(bcontent) - o) :
      CopyOut(bc, n, o) = SubSeq(bcontent, o + 1, o + n)

(* find, minding the case, returns the first place of the needle and nothing else,
   although findChar has the two cases the other way round; not minding it, it
   returns a place of the needle or misses it. *)
IsAt(d, p, cs) == p + Len(d) <= Len(bcontent) /\ SameBytes(SubSeq(bcontent, p + 1, p + Len(d)), d, cs)
FindExact ==
  btrusted /\ ~bc.file.open =>
    \A d \in BInputs :
      LET at == {p \in 0..Len(bcontent) : IsAt(d, p, TRUE)}
          found == FindFrom(bc, d, FALSE, 0, 0)
      IN /\ FindIn(bc, d) = IF at = {} THEN None ELSE Min(at)
         /\ found # None => IsAt(d, found, FALSE)

(* A container that moved to disk loses no byte that is appended to it. *)
FileKeepsAll == btrusted /\ bc.file.open => bc.file.data = bcontent

ContainerSound == HoldsItsContent /\ RangesExact /\ FindExact /\ FileKeepsAll
=============================================================================
