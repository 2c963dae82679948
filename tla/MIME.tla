-------------------------------- MODULE MIME --------------------------------
(* Protocol_MIME: MIME_Message reads a multipart message piece by piece, each piece cut by the sub-parser in turn (how a    *)
(* stream is cut is StreamParser's matter), and writes one. A text is a sequence of atoms: "CRLF", "--B" (the boundary),    *)
(* "--", the marks : ; = " of headers, " ", and letters.                                                                    *)
EXTENDS Integers, Sequences, FiniteSets, SequencesExt

CONSTANTS MIMEMessages,   \* what arrives: a preamble, parts of header lines and a content, and an end
          MMaxVars, MMaxOptions, MMaxSubs,
          MBase           \* the base in which snprintf writes a number

VARIABLES mtext, mstatus, mheader, mlast, mparts, mnames, mgiven, mtimes
mimeVars == <<mtext, mstatus, mheader, mlast, mparts, mnames, mgiven, mtimes>>

NoHeader == <<>>
MIMEInit == mtext = <<>> /\ mstatus = "new" /\ mheader = NoHeader /\ mlast = 0 /\ mparts = <<>> /\ mnames = <<>> /\ mgiven = <<>> /\ mtimes = 0

-----------------------------------------------------------------------------
(* Texts. *)
FindText(s, t) == LET at == {i \in 1..(Len(s) - Len(t) + 1) : SubSeq(s, i, i + Len(t) - 1) = t}
                  IN IF at = {} THEN 0 ELSE CHOOSE i \in at : \A j \in at : i <= j
Trim(s) == LET ink == {i \in DOMAIN s : s[i] # " "}
           IN IF ink = {} THEN <<>> ELSE SubSeq(s, CHOOSE i \in ink : \A j \in ink : i <= j, CHOOSE i \in ink : \A j \in ink : j <= i)
ReplaceText(s, t, by) ==
  LET r[i \in 1..(Len(s) + 1)] == IF i > Len(s) THEN <<>>
                                  ELSE IF i + Len(t) - 1 <= Len(s) /\ SubSeq(s, i, i + Len(t) - 1) = t THEN by \o r[i + Len(t)]
                                  ELSE <<s[i]>> \o r[i + 1]
  IN r[1]
SplitAt(s, ends) == LET cut == <<0>> \o SetToSortSeq(ends, <) \o <<Len(s) + 1>>
                    IN [k \in 1..(Len(cut) - 1) |-> SubSeq(s, cut[k] + 1, cut[k + 1] - 1)]

(* MIME_Sub_Header::parseSubValues. Quoted texts are put aside one after the other, each for all its occurrences, with a    *)
(* numbered mark in their place; what is left is cut at the semicolons (several count as one) and at the first equals sign, *)
(* and the marks are replaced, in the order of their numbers. *)
Digit(n) == <<"0", "1", "2", "3", "4", "5", "6", "7", "8", "9">>[n + 1]
QuotedMark(i) == LET d[n \in 0..i] == IF n < MBase THEN <<Digit(n)>> ELSE Append(d[n \div MBase], Digit(n % MBase)) IN <<"_STATIC_">> \o d[i]
PutAside(s) ==
  LET q == {p \in (DOMAIN s.text) \X (DOMAIN s.text) : p[1] < p[2] /\ s.text[p[1]] = "q" /\ s.text[p[2]] = "q"
                                                       /\ \A k \in (p[1] + 1)..(p[2] - 1) : s.text[k] # "q"}
      p == CHOOSE x \in q : \A y \in q : x[1] <= y[1]
      quoted == SubSeq(s.text, p[1], p[2])
  IN IF q = {} THEN s ELSE [text |-> ReplaceText(s.text, quoted, QuotedMark(Len(s.aside))),
                            aside |-> Append(s.aside, SubSeq(quoted, 2, Len(quoted) - 1))]
PutAllAside(v) == LET f[n \in 0..Len(v)] == IF n = 0 THEN [text |-> v, aside |-> <<>>] ELSE PutAside(f[n - 1]) IN f[Len(v)]
PutBack(s, aside) == LET f[n \in 0..Len(aside)] == IF n = 0 THEN s ELSE ReplaceText(f[n - 1], QuotedMark(n - 1), aside[n]) IN f[Len(aside)]
Permitted(s) == "8bit" \notin {s[i] : i \in DOMAIN s}
SubValues(v) ==
  LET s == PutAllAside(Trim(v))
      semi == {i \in DOMAIN s.text : s.text[i] = ";" /\ (i = 1 \/ s.text[i - 1] # ";")}
      cut == SplitAt(s.text, semi)
      piece == [k \in DOMAIN cut |-> SelectSeq(cut[k], LAMBDA a : a # ";")]
      eq(k) == FindText(piece[k], <<"=">>)
      back(t) == PutBack(Trim(t), s.aside)
  IN [k \in DOMAIN piece |-> IF eq(k) = 0 THEN <<back(piece[k]), <<>>>>
                             ELSE <<back(SubSeq(piece[k], 1, eq(k) - 1)), back(SubSeq(piece[k], eq(k) + 1, Len(piece[k])))>>]
(* addSubVar: neither empty, over the number, nor of other characters. *)
AddSubVars(subs, new) == FoldLeft(LAMBDA acc, p : IF p = <<<<>>, <<>>>> \/ Len(acc) >= MMaxSubs \/ ~Permitted(p[1]) \/ ~Permitted(p[2])
                                                    THEN acc ELSE Append(acc, p), subs, new)
GetSubVar(o, name) == LET at == {i \in DOMAIN o.subs : o.subs[i][1] = name}
                      IN IF at = {} THEN <<>> ELSE o.subs[CHOOSE i \in at : \A j \in at : i <= j][2]

-----------------------------------------------------------------------------
(* MIME_Sub_Header (the order of the options is left out): a line that begins with a space adds to the option before it and takes the place of its raw value. *)
AddOption(h, name, value) == IF Len(h) = MMaxOptions THEN h ELSE Append(h, [name |-> name, raw |-> value, subs |-> AddSubVars(<<>>, SubValues(value))])
ParseOptionValue(line) ==
  LET c == FindText(line, <<":", " ">>) IN
  IF Head(line) = " "
    THEN /\ mheader' = IF mlast = 0 THEN mheader
                       ELSE [mheader EXCEPT ![mlast] = [@ EXCEPT !.raw = line, !.subs = AddSubVars(@, SubValues(line))]]
         /\ UNCHANGED mlast
    ELSE /\ mheader' = IF c = 0 THEN mheader ELSE AddOption(mheader, SubSeq(line, 1, c - 1), SubSeq(line, c + 2, Len(line)))
         /\ mlast' = IF c = 0 \/ Len(mheader) = MMaxOptions THEN mlast ELSE Len(mheader) + 1
OptionByName(h, name) == LET at == {i \in DOMAIN h : h[i].name = name} IN IF at = {} THEN 0 ELSE CHOOSE i \in at : \A j \in at : i <= j
PartName(h) == LET i == OptionByName(h, <<"disposition">>) IN IF i = 0 THEN <<>> ELSE GetSubVar(h[i], <<"name">>)

(* addMultiPartMessage: a part without a name is kept, and refused. *)
AddPart(p) == LET full == Len(mparts) >= MMaxVars name == PartName(p.header) IN
              /\ mparts' = IF full THEN mparts ELSE Append(mparts, p)
              /\ mnames' = IF full \/ name = <<>> THEN mnames ELSE Append(mnames, <<name, Len(mparts) + 1>>)
Accepted(p) == Len(mparts) < MMaxVars /\ PartName(p.header) # <<>>
RenewCurrentPart == mheader' = NoHeader /\ mlast' = 0

(* The sub-parsers: each takes the text up to its delimiter. The end of the text before a delimiter is a failure. *)
TakesTo(d) == /\ FindText(mtext, d) # 0 /\ mtext' = SubSeq(mtext, FindText(mtext, d) + Len(d), Len(mtext))
TextTaken(d) == SubSeq(mtext, 1, FindText(mtext, d) - 1)
FirstBoundary == /\ mstatus = "FIRST_BOUNDARY" /\ TakesTo(<<"--B", "CRLF">>) /\ mstatus' = "HEADERS"
                 /\ UNCHANGED <<mheader, mlast, mparts, mnames, mgiven, mtimes>>
HeaderLine == /\ mstatus = "HEADERS" /\ TakesTo(<<"CRLF">>)
              /\ IF TextTaken(<<"CRLF">>) = <<>> THEN mstatus' = "CONTENT" /\ UNCHANGED <<mheader, mlast>>
                                             ELSE ParseOptionValue(TextTaken(<<"CRLF">>)) /\ UNCHANGED mstatus
              /\ UNCHANGED <<mparts, mnames, mgiven, mtimes>>
MIMEContent == LET p == [header |-> mheader, content |-> TextTaken(<<"CRLF", "--B">>)] IN
           /\ mstatus = "CONTENT" /\ TakesTo(<<"CRLF", "--B">>) /\ AddPart(p) /\ RenewCurrentPart
           /\ mstatus' = (IF Accepted(p) THEN "ENDPOINT" ELSE "failed") /\ UNCHANGED <<mgiven, mtimes>>
Endpoint ==
  LET last == FindText(mtext, <<"--", "CRLF">>) more == FindText(mtext, <<"CRLF">>) IN
  /\ mstatus = "ENDPOINT"
  /\ \/ last # 0 /\ last < more /\ TakesTo(<<"--", "CRLF">>) /\ mstatus' = "done"
     \/ more # 0 /\ (last = 0 \/ more < last) /\ TakesTo(<<"CRLF">>) /\ mstatus' = "HEADERS"
  /\ UNCHANGED <<mheader, mlast, mparts, mnames, mgiven, mtimes>>
Delimiter == CASE mstatus = "FIRST_BOUNDARY" -> <<"--B", "CRLF">> [] mstatus = "CONTENT" -> <<"CRLF", "--B">> [] OTHER -> <<"CRLF">>
TextEnds == /\ mstatus \in {"FIRST_BOUNDARY", "HEADERS", "CONTENT", "ENDPOINT"} /\ FindText(mtext, Delimiter) = 0
            /\ mstatus' = "failed" /\ mtext' = <<>> /\ UNCHANGED <<mheader, mlast, mparts, mnames, mgiven, mtimes>>

(* A message arrives: the peer's text of it. *)
Flat(seqs) == FlattenSeq(seqs)
PeerText(msg) == msg.preamble \o <<"--B">>
                 \o Flat([i \in DOMAIN msg.parts |-> <<"CRLF">> \o Flat([k \in DOMAIN msg.parts[i].lines |-> Append(msg.parts[i].lines[k], "CRLF")])
                                                    \o <<"CRLF">> \o msg.parts[i].content \o <<"CRLF", "--B">>])
                 \o msg.end
Arrives == \E msg \in MIMEMessages :
  /\ mstatus = "new" /\ mtext' = PeerText(msg) /\ mstatus' = "FIRST_BOUNDARY" /\ mgiven' = msg.parts
  /\ UNCHANGED <<mheader, mlast, mparts, mnames, mtimes>>
(* addStringVar and addStreamableObjectContainer: the name is an option of its own. *)
AddStringVar == \E value \in {<<"v">>} :
  LET h == AddOption(AddOption(NoHeader, <<"disposition">>, <<"form">>), <<"name">>, <<"n">>) IN
  /\ mstatus \in {"new", "built"} /\ Len(mparts) < MMaxVars /\ AddPart([header |-> h, content |-> value]) /\ RenewCurrentPart
  /\ mstatus' = "built" /\ UNCHANGED <<mtext, mgiven, mtimes>>
(* streamTo, read again by a new MIME_Message. The boundary is written by the content and by the message. *)
LineOf(o) == o.name \o <<":", " ">> \o o.raw \o <<"CRLF">>
StreamTo == <<"--B">> \o Flat([i \in DOMAIN mparts |-> <<"CRLF">> \o Flat([k \in DOMAIN mparts[i].header |-> LineOf(mparts[i].header[k])])
                                                    \o <<"CRLF">> \o mparts[i].content \o <<"CRLF", "--B", "--B">>]) \o <<"--", "CRLF">>
ReadAgain == /\ mstatus \in {"done", "built"} /\ mtimes = 0 /\ mtext' = StreamTo /\ mstatus' = "FIRST_BOUNDARY" /\ mtimes' = 1
             /\ mgiven' = [i \in DOMAIN mparts |-> [content |-> mparts[i].content, name |-> PartName(mparts[i].header)]]
             /\ mheader' = NoHeader /\ mlast' = 0 /\ mparts' = <<>> /\ mnames' = <<>>

MIMENext == Arrives \/ FirstBoundary \/ HeaderLine \/ MIMEContent \/ Endpoint \/ TextEnds \/ AddStringVar \/ ReadAgain

-----------------------------------------------------------------------------
(* A message that was read to its end has the parts that were sent, in order and with their contents whole, whatever they   *)
(* contain; every one of them has a name and is found by it, and by no other. *)
PartsAsSent == mstatus = "done" =>
  /\ Len(mparts) = Len(mgiven) /\ \A i \in DOMAIN mparts : mparts[i].content = mgiven[i].content
  /\ [k \in DOMAIN mnames |-> mnames[k][2]] = [i \in DOMAIN mparts |-> i]
  /\ \A k \in DOMAIN mnames : mnames[k][1] = mgiven[k].name
(* No message, however long, holds more than the limits, whole or failed. *)
WithinLimits == /\ Len(mparts) <= MMaxVars /\ Len(mheader) <= MMaxOptions
                /\ \A i \in DOMAIN mheader : Len(mheader[i].subs) <= MMaxSubs
                /\ mstatus = "failed" /\ mtimes = 1 => \E i \in DOMAIN mgiven : mgiven[i].name = <<>>
(* A value of a header means what its quotes say: it is cut only outside of them, and they are gone. More quoted texts than *)
(* the base has digits are left out: the mark of the eleventh begins with the mark of the second. *)
Quotes(s, n) == Cardinality({i \in 1..n : s[i] = "q"})
Outside(s, a) == {i \in DOMAIN s : s[i] = a /\ Quotes(s, i) % 2 = 0}
Meaning(v) ==
  LET s == Trim(v) cut == SplitAt(s, Outside(s, ";"))
      bare(t) == SelectSeq(Trim(t), LAMBDA a : a # "q")
      first(t) == CHOOSE i \in Outside(t, "=") : \A j \in Outside(t, "=") : i <= j
      pair(t) == IF Outside(t, "=") = {} THEN <<bare(t), <<>>>> ELSE <<bare(SubSeq(t, 1, first(t) - 1)), bare(SubSeq(t, first(t) + 1, Len(t)))>>
  IN AddSubVars(<<>>, [k \in DOMAIN cut |-> pair(cut[k])])
QuotesKept == \A i \in DOMAIN mheader : LET v == mheader[i].raw IN
  Quotes(v, Len(v)) <= 2 * MBase /\ Head(v) # " " => mheader[i].subs = Meaning(v)

MIMESound == PartsAsSent /\ WithinLimits /\ QuotesKept
=============================================================================
