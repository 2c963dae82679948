---------------------------- MODULE StreamParser ----------------------------
(***************************************************************************)
(* Memory::Streams::Parser and SubParser: a stream arrives in writes of    *)
(* any size, each write is given to the current sub-parser, which buffers  *)
(* it in a B_Chunks until its strategy (delimiter, list of delimiters,     *)
(* size, end of connection, direct, direct up to a delimiter) lets it      *)
(* parse a piece.  A plan is the sequence of sub-parsers of a protocol;    *)
(* LineRecv and URLVars are the two protocols that reuse one sub-parser.   *)
(* One level of the recursion of parseData is one step.  A piece is known  *)
(* by its bytes as received; the URL decoding of names and values, which   *)
(* goes piece by piece, is left out.                                       *)
(***************************************************************************)
EXTENDS BinaryContainer

CONSTANTS
  SPlans,        \* [kind, stages, input]: the protocols and the streams
  SPMaxTTL,      \* m_maxTTL
  SPMaxVars      \* URLVars::m_maxVarsCount

VARIABLES
  splan,         \* the plan of this stream
  sunsent,       \* the bytes that have not arrived yet
  swrite,        \* what is left of the current write; <<"EOF">> for a write of 0 bytes
  sttl,          \* the counter of the current write
  sstage,        \* the current sub-parser, 0 for nullptr
  sbuf,          \* its unparsed buffer
  sended,        \* its m_streamEnded
  sfound,        \* its m_delimiterFound
  surl,          \* URLVars: m_currentStat, m_currentVarName, m_vars
  sstatus,       \* "new", "idle", "writing", "failed", "finished", "ended"
  spieces,       \* history: <<stage, bytes>> of every call of parse()
  sexact         \* history: the offsets of the buffers were always exact

streamVars == <<splan, sunsent, swrite, sttl, sstage, sbuf, sended, sfound, surl, sstatus, spieces, sexact>>

EOF == <<"EOF">>
SPBytes(d) == IF d = EOF THEN <<>> ELSE d
NoPlan == [kind |-> "none", stages |-> <<>>, input |-> <<>>]

StreamInit ==
  /\ splan = NoPlan /\ sunsent = <<>> /\ swrite = <<>> /\ sttl = 0
  /\ sstage = 0 /\ sbuf = EmptyContainer(0) /\ sended = FALSE /\ sfound = <<>>
  /\ surl = [stat |-> "NAME", name |-> <<>>, vars |-> <<>>]
  /\ sstatus = "new" /\ spieces = <<>> /\ sexact = TRUE

Conf == splan.stages[sstage]

\* URLVarContent::setVarType and LineRecv_SubParser's delimiters are those of the
\* plan; the value of a URL variable has the last delimiter only.
Delimiters == IF splan.kind = "url" /\ surl.stat = "CONTENT" THEN <<Last(Conf.delims)>> ELSE Conf.delims

\* The constructor of a protocol: its first sub-parser is the current one.
OpenStream ==
  /\ sstatus = "new"
  /\ \E p \in SPlans :
       /\ splan' = p /\ sunsent' = p.input
       /\ sbuf' = EmptyContainer(p.stages[1].max)
  /\ sstage' = 1 /\ sstatus' = "idle"
  /\ UNCHANGED <<swrite, sttl, sended, sfound, surl, spieces, sexact>>

\* Parser::write: a new counter for each write; at the end of the stream, 0 bytes.
WriteStream ==
  /\ sstatus = "idle"
  /\ \/ \E n \in 1..Len(sunsent) :
          swrite' = SubSeq(sunsent, 1, n) /\ sunsent' = SubSeq(sunsent, n + 1, Len(sunsent))
     \/ sunsent = <<>> /\ swrite' = EOF /\ UNCHANGED sunsent
  /\ sttl' = 0 /\ sstatus' = "writing"
  /\ UNCHANGED <<splan, sstage, sbuf, sended, sfound, surl, spieces, sexact>>

-----------------------------------------------------------------------------
\* The outcome of writeIntoSubParser: the bytes taken (None for an error), the
\* buffer left, the delimiter found, and the piece that parse() gets, if any.
Outcome(n, buf, found, piece) == [n |-> n, buf |-> buf, found |-> found, piece |-> piece]
NoPiece == <<"no piece">>
WriteError == Outcome(None, sbuf, sfound, NoPiece)

\* appendToUnparsedBuffer: as much as the buffer has room for.
AppendToUnparsed(d) ==
  LET r == AppendTo(sbuf, SubSeq(d, 1, Min({Len(d), SizeLeft(sbuf)})), 0)
  IN IF d = <<>> THEN [c |-> sbuf, n |-> 0]
     ELSE IF SizeLeft(sbuf) = 0 \/ r.n # Min({Len(d), SizeLeft(sbuf)}) THEN [c |-> sbuf, n |-> None]
     ELSE r

\* parseByMultiDelimiter and parseByDelimiter: the whole buffer is searched.  A
\* piece is the prefix, or everything at the end of the stream.
ParseByDelimiter(d, eof) ==
  LET a == AppendToUnparsed(d)
      f == FindAny(a.c, Delimiters)
  IN IF a.n = None THEN WriteError
     ELSE IF f.pos # None
     THEN Outcome(f.pos + Len(f.needle) - Size(sbuf), Clear(a.c), f.needle, RefContent(a.c, 0, f.pos))
     ELSE IF sended \/ eof
     THEN Outcome(a.n, Clear(a.c), f.needle, RefContent(a.c, 0, None))
     ELSE Outcome(a.n, a.c, f.needle, NoPiece)

ParseBySize(d, eof) ==
  LET a == AppendToUnparsed(d)
  IN IF eof THEN Outcome(0, Clear(sbuf), sfound, NoPiece)
     ELSE IF a.n = None THEN WriteError
     ELSE IF SizeLeft(a.c) = 0 THEN Outcome(a.n, Clear(a.c), sfound, RefContent(a.c, 0, None))
     ELSE Outcome(a.n, a.c, sfound, NoPiece)

ParseByConnectionEnd(d, eof) ==
  LET a == AppendToUnparsed(d)
  IN IF a.n = None THEN WriteError
     ELSE IF eof THEN Outcome(0, Clear(a.c), sfound, RefContent(a.c, 0, None))
     ELSE Outcome(a.n, a.c, sfound, NoPiece)

ParseDirect(d) ==
  LET a == AppendToUnparsed(d)
  IN IF a.n = None THEN WriteError
     ELSE Outcome(a.n, [Clear(a.c) EXCEPT !.max = @ - Size(a.c)], sfound, RefContent(a.c, 0, None))

\* getLastBytesInCommon: the longest end of the buffer that begins the delimiter.
\* The bytes are copied by their offset; what copyOut does not fill is compared
\* uninitialized and may or may not match.
LastBytes(c, v) == RefCopyOut(c, Size(c) - v, None, v, 0)
MayMatch(c, v, delim) ==
  LET b == LastBytes(c, v) IN b = NoBytes \/ (\A i \in DOMAIN b : b[i] = delim[i])
MustMatch(c, v, delim) == LastBytes(c, v) = SubSeq(delim, 1, v)
LastBytesInCommon(c, delim) ==
  LET most == Min({Size(c), Len(delim) - 1})
  IN {v \in 0..most : /\ v = 0 \/ MayMatch(c, v, delim)
                      /\ \A w \in (v + 1)..most : ~MustMatch(c, w, delim)}

\* Mutant: all the bytes go to parse() when the delimiter is not complete.
ParseDirectDelimiterEager(d) ==
  LET a == AppendToUnparsed(d)
      at == FindIn(a.c, Delimiters[1])
  IN IF a.n = None THEN {WriteError}
     ELSE IF at # None
     THEN {Outcome(at + Len(Delimiters[1]) - Size(sbuf), Clear(a.c), Delimiters[1], RefContent(a.c, 0, at))}
     ELSE {Outcome(a.n, Clear(a.c), <<>>, RefContent(a.c, 0, None))}

\* parseDirectDelimiter: without the delimiter everything but its possible
\* beginning is parsed and displaced.
ParseDirectDelimiter(d) ==
  LET a == AppendToUnparsed(d)
      at == FindIn(a.c, Delimiters[1])
  IN IF a.n = None THEN {WriteError}
     ELSE IF at # None
     THEN {Outcome(at + Len(Delimiters[1]) - Size(sbuf), Clear(a.c), Delimiters[1], RefContent(a.c, 0, at))}
     ELSE {IF v = 0 THEN Outcome(a.n, Clear(a.c), <<>>, RefContent(a.c, 0, None))
           ELSE Outcome(a.n, Displace(a.c, Size(a.c) - v), <<>>, RefContent(a.c, 0, Size(a.c) - v))
             : v \in LastBytesInCommon(a.c, Delimiters[1])}

\* writeIntoSubParser: the strategies; a validator is not implemented.
WriteIntoSubParser(d, eof) ==
  CASE Conf.mode \in {"DELIMITER", "MULTIDELIMITER"} -> {ParseByDelimiter(d, eof)}
    [] Conf.mode = "SIZE" -> {ParseBySize(d, eof)}
    [] Conf.mode = "CONNECTION_END" -> {ParseByConnectionEnd(d, eof)}
    [] Conf.mode = "DIRECT" -> {ParseDirect(d)}
    [] Conf.mode = "DIRECT_DELIMITER" -> ParseDirectDelimiter(d)
    [] OTHER -> {WriteError}

-----------------------------------------------------------------------------
\* What parse() and writeIntoSubParser leave as the parse status.  A direct parser
\* goes on until its delimiter; URLVarContent asks for more when its piece is
\* empty; parseBySize gives up at the end of the stream.
ParseStatus(o, eof) ==
  IF o.piece = NoPiece THEN IF Conf.mode = "SIZE" /\ eof THEN "NEXT" ELSE "MORE"
  ELSE IF Conf.mode = "DIRECT" THEN "MORE"
  ELSE IF Conf.mode = "DIRECT_DELIMITER" THEN IF o.found = <<>> THEN "MORE" ELSE "NEXT"
  ELSE IF splan.kind = "url" /\ o.piece = <<>> THEN "MORE"
  ELSE "NEXT"

\* URLVars::addVar: without a name, or with the list full, the parser fails.
AddVar(vars, name, value) == IF name # <<>> /\ Len(vars) < SPMaxVars THEN Append(vars, <<name, value>>) ELSE <<>>

\* URLVars::changeToNextParser, on the piece in m_pData; vars = <<>> is a failure.
NextURLVar(o, eof) ==
  IF surl.stat = "CONTENT" THEN [surl EXCEPT !.stat = "NAME", !.vars = AddVar(@, surl.name, o.piece)]
  ELSE IF o.found = Last(Conf.delims) \/ sended \/ eof
  THEN [surl EXCEPT !.name = o.piece, !.vars = AddVar(@, o.piece, <<>>)]
  ELSE [surl EXCEPT !.name = o.piece, !.stat = "CONTENT"]

\* changeToNextParser: the next sub-parser of the plan and its buffer, 0 after the
\* last one; a protocol with one sub-parser starts it again.  LineRecv stops when
\* its line is refused.
NextStage == IF splan.kind # "plan" THEN 1 ELSE IF sstage < Len(splan.stages) THEN sstage + 1 ELSE 0

\* A full level of parseData: the sub-parser, its status, the next sub-parser.
Taken(o, eof) ==
  LET rest == IF eof THEN <<>> ELSE SubSeq(swrite, o.n + 1, Len(swrite))
  IN /\ swrite' = rest
     /\ sstatus' = IF sstage' = 0 THEN "finished"
                   ELSE IF eof THEN "ended"
                   ELSE IF rest = <<>> THEN "idle" ELSE "writing"

ParseData(o, eof) ==
  /\ sexact' = (sexact /\ OffsetsExact(o.buf))
  /\ sttl' = sttl + 1 /\ sended' = (sended \/ eof) /\ sfound' = o.found
  /\ spieces' = IF o.piece = NoPiece THEN spieces ELSE Append(spieces, <<sstage, o.piece>>)
  /\ IF ParseStatus(o, eof) = "NEXT"
     THEN /\ sstage' = NextStage
          /\ sbuf' = IF NextStage = 0 THEN o.buf ELSE EmptyContainer(splan.stages[NextStage].max)
          /\ surl' = IF splan.kind = "url" THEN NextURLVar(o, eof) ELSE surl
     ELSE UNCHANGED <<sstage, surl>> /\ sbuf' = o.buf

\* An error of the sub-parser, too many levels, or changeToNextParser refuses.
ParseFails ==
  /\ sstatus' = "failed"
  /\ UNCHANGED <<splan, sunsent, swrite, sttl, sstage, sbuf, sended, sfound, surl, spieces, sexact>>

ParseStep ==
  /\ sstatus = "writing"
  /\ LET eof == swrite = EOF
     IN \/ sttl > SPMaxTTL /\ ParseFails
        \/ /\ sttl <= SPMaxTTL
           /\ \E o \in WriteIntoSubParser(SPBytes(swrite), eof) :
                LET next == ParseStatus(o, eof) = "NEXT"
                    refused == next /\ splan.kind = "url" /\ NextURLVar(o, eof).vars = <<>>
                                    /\ NextURLVar(o, eof).stat = "NAME"
                IN \/ (o.n = None \/ refused) /\ ParseFails
                   \/ next /\ splan.kind = "line" /\ o.n # None /\ ParseFails
                   \/ /\ o.n # None /\ ~refused
                      /\ ParseData(o, eof) /\ Taken(o, eof)
                      /\ UNCHANGED <<splan, sunsent>>

StreamNext == OpenStream \/ WriteStream \/ ParseStep

-----------------------------------------------------------------------------
\* What a plan makes of its stream in one piece: the bytes of each stage and what
\* follows.  The first delimiter of the stream counts, whatever its place in the list.
FirstOf(s, delims) ==
  LET at == {p \in 0..Len(s) : \E i \in DOMAIN delims : IsPrefix(delims[i], SubSeq(s, p + 1, Len(s)))}
  IN IF at = {} THEN None ELSE Min(at)

StagePiece(k, s) ==
  LET p == FirstOf(s, k.delims)
  IN CASE k.mode \in {"DELIMITER", "MULTIDELIMITER", "DIRECT_DELIMITER"} ->
            IF p = None THEN [got |-> s, rest |-> <<>>]
            ELSE [got |-> SubSeq(s, 1, p), rest |-> SubSeq(s, p + 1 + Len(k.delims[1]), Len(s))]
       [] k.mode = "SIZE" -> [got |-> SubSeq(s, 1, Min({k.max, Len(s)})),
                              rest |-> SubSeq(s, Min({k.max, Len(s)}) + 1, Len(s))]
       [] OTHER -> [got |-> s, rest |-> <<>>]

Reference(p) ==
  LET ref[i \in 1..(Len(p.input) + 2), s \in {SubSeq(p.input, j, Len(p.input)) : j \in 1..(Len(p.input) + 1)}] ==
        IF p.kind = "plan" /\ i > Len(p.stages) THEN <<>>
        ELSE LET t == StagePiece(p.stages[IF p.kind = "plan" THEN i ELSE 1], s)
             IN IF s = <<>> THEN <<>> ELSE <<t.got>> \o ref[i + 1, t.rest]
  IN ref[1, p.input]

\* The pieces as the protocol keeps them: what a direct parser got is one piece.
Delivered(i) == FlattenSeq([k \in DOMAIN SelectSeq(spieces, LAMBDA x : x[1] = i) |->
                              SelectSeq(spieces, LAMBDA x : x[1] = i)[k][2]])
Lines == [k \in DOMAIN spieces |-> spieces[k][2]]

(* Where the stream is cut into writes makes no difference: the stages of a plan
   get the bytes they would get from one write of the whole stream, in any state a
   part of them.  The one exception is a direct parser whose held back bytes lie in
   two chunks: displace has then lost the offsets of the buffer, the comparison of
   its end reads the wrong bytes, and the delimiter may be missed. *)
SplitIndependent ==
  splan.kind = "plan" /\ sexact =>
    \A i \in 1..Len(splan.stages) :
      LET want == IF i <= Len(Reference(splan)) THEN Reference(splan)[i] ELSE <<>>
      IN IsPrefix(Delivered(i), want)

Letters(s) == SelectSeq(s, LAMBDA b : \A i \in DOMAIN Conf.delims : b # Conf.delims[i][1])
(* However the bytes arrive, LineRecv reports all of them in order, and no line
   holds the delimiter that comes first in its list.  (It may hold the second one:
   the list is tried in its order over the whole buffer, so \r\n in one write ends
   a line with \r, and in two writes gives an empty line.) *)
LinesInOrder ==
  splan.kind = "line" /\ sstage # 0 =>
    /\ IsPrefix(Letters(FlattenSeq(Lines)), Letters(splan.input))
    /\ \A k \in DOMAIN Lines : ~Contains(Lines[k], Conf.delims[1][1])

(* A query string in which every variable has a name, an equals sign and a value
   gives these variables, however it arrives. *)
Delims(s) == SelectSeq(s, LAMBDA b : b \in {"=", "&"})
Regular(p) ==
  /\ \A k \in DOMAIN Delims(p.input) : Delims(p.input)[k] = IF k % 2 = 1 THEN "=" ELSE "&"
  /\ \A k \in DOMAIN Reference(p) : Reference(p)[k] # <<>>
VariablesAsSent ==
  splan.kind = "url" /\ Regular(splan) =>
    /\ IsPrefix(Lines, Reference(splan))
    /\ \A k \in DOMAIN surl.vars : surl.vars[k] = <<Reference(splan)[2*k - 1], Reference(splan)[2*k]>>
    /\ sstatus # "failed"

StreamsCutAnywhere == SplitIndependent /\ LinesInOrder /\ VariablesAsSent
=============================================================================
