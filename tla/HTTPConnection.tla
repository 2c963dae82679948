--------------------------- MODULE HTTPConnection ---------------------------
(***************************************************************************)
(* HTTPv1_Server and HTTPv1_Client on one connection.  The server reads    *)
(* pipelined requests (request line, headers, content), asks its consumer, *)
(* answers each one, and starts again or ends; a request may ask for a     *)
(* WebSocket instead (WebSocket goes on from there).  HTTPv1_Client sends  *)
(* one request and reads one answer, by its length, its chunks or the end  *)
(* of the connection, which may be cut anywhere.  A field of the request   *)
(* or the response that a handler sees is known by the request it is from. *)
(***************************************************************************)
EXTENDS Integers, Sequences, SequencesExt, FiniteSets

CONSTANTS
  HPlans,        \* [client, requests, answer]: who calls, what it sends, what it is answered
  HMaxPost,      \* m_securityMaxPostDataSize
  HMaxChunk      \* m_securityMaxHttpChunkSize

\* A request: what its headers say (len is the Content-Length) and the bytes that follow.
HRequest ==
  [id : Nat \ {0}, major : Nat, minor : Nat, host : BOOLEAN, auth : {"none", "basic", "other"},
   agent : BOOLEAN, len : Nat, body : Nat, known : BOOLEAN, conn : {"", "close", "upgrade"},
   ws : {"none", "good", "bad key", "bad version"}]
\* The content of an answer: a write of no bytes is the end of the chunks.
HContent ==
  [mode : {"CONTENT_LENGTH", "CHUNKS", "CONNECTION_CLOSE"}, writes : Seq(Nat \ {0}), known : BOOLEAN]

\* A content has the length its request says, or none is said; HTTPv1_Client sends a plain
\* request.
HPlan(p) ==
  /\ p.client \in BOOLEAN /\ p.requests \in Seq(HRequest) /\ p.answer \in HContent
  /\ p.client => p.requests # <<>> /\ p.requests[1].ws = "none"
  /\ \A i \in 1..Len(p.requests) : p.requests[i].len \in {0, p.requests[i].body}

ASSUME HTTPAssumption ==
  HMaxPost \in Nat /\ HMaxChunk \in Nat /\ \A p \in HPlans : HPlan(p)

VARIABLES
  hplan,         \* the plan of this connection
  hin,           \* what the server has not read: <<"line" | "headers" | "byte", request>>
  hsub,          \* its m_currentSubParser
  hcont,         \* connectionContinue
  hprohibit,     \* prohibitConnectionUpgrade
  hreq,          \* clientRequest
  hrsp,          \* serverResponse
  hstatus,       \* "reading", "failed" when the parser returned false
  hanswers,      \* history: the answers of the server
  hseen,         \* history: <<request, clientRequest>> at the last call of the consumer
  hwire,         \* what HTTPv1_Client has not read
  hcut,          \* the connection has ended: nothing more arrives
  hclient        \* HTTPv1_Client: sub-parser, mode, what its content waits for and got; its result

httpVars == <<hplan, hin, hsub, hcont, hprohibit, hreq, hrsp, hstatus, hanswers, hseen, hwire, hcut, hclient>>

NoPlanH == [client |-> FALSE, requests |-> <<>>, answer |-> [mode |-> "CONTENT_LENGTH", writes |-> <<>>, known |-> TRUE]]
EmptyRequest == [line |-> 0, minor |-> 0, conn |-> "", host |-> 0, auth |-> 0, enabled |-> FALSE, agent |-> 0, length |-> 0, got |-> 0]
EmptyResponse == [code |-> 200, immutable |-> FALSE, cookie |-> 0, defaults |-> FALSE]
NewClient == [sub |-> "status", mode |-> "CONTENT_LENGTH", want |-> 0, total |-> 0, got |-> 0, result |-> "none"]

\* The constructor: a conservative cache policy, which is a member of the response.
HTTPInit ==
  /\ hplan = NoPlanH /\ hin = <<>> /\ hsub = "requestLine" /\ hcont = TRUE /\ hprohibit = FALSE
  /\ hreq = EmptyRequest /\ hrsp = [EmptyResponse EXCEPT !.defaults = TRUE] /\ hstatus = "new"
  /\ hanswers = <<>> /\ hseen = <<>> /\ hwire = <<>> /\ hcut = FALSE /\ hclient = NewClient

\* RequestLine, headers and content as they go over the connection.  A peer that
\* uses a transfer encoding sends bytes without a Content-Length.
Streamed(r) == << <<"line", r>>, <<"headers", r>> >> \o [i \in 1..r.body |-> <<"byte", r>>]

\* HTTPv1_Client::initProtocol: the content has a Content-Length, or there is none;
\* a stream of unknown size is refused after the request line.  The credentials are
\* put in a header that the server does not read.
StreamClientHeaders(r) ==
  IF ~r.known THEN <<Streamed(r)[1]>>
  ELSE Streamed([r EXCEPT !.len = r.body, !.auth = "none", !.agent = TRUE])

OpenHTTP ==
  /\ hstatus = "new"
  /\ \E p \in HPlans :
       /\ hplan' = p
       /\ hin' = IF p.client THEN StreamClientHeaders(p.requests[1])
                 ELSE FlattenSeq([i \in DOMAIN p.requests |-> Streamed(p.requests[i])])
  /\ hstatus' = "reading"
  /\ UNCHANGED <<hsub, hcont, hprohibit, hreq, hrsp, hanswers, hseen, hwire, hcut, hclient>>

-----------------------------------------------------------------------------
(* The answer. *)

\* sendHTTPHeadersResponse: the size of the content if it is known.  An unknown one
\* ends with the connection, or is in chunks if the mode says so; what the content
\* is written as depends on the mode alone.
Framing(a) == IF a.known THEN "length" ELSE IF a.mode = "CHUNKS" THEN "chunked" ELSE "close"
Total(ns) ==
  LET total[i \in 0..Len(ns)] == IF i = 0 THEN 0 ELSE total[i - 1] + ns[i]
  IN total[Len(ns)]
AnswerSize(a) == Total(a.writes)

\* ContentChunkedTransformer: a size line, the bytes and a line end for each write,
\* and a chunk of size 0 when the transformer is destroyed.
WireBytes(n) == [i \in 1..n |-> <<"byte", 0>>]
Chunked(a) ==
  FlattenSeq([i \in DOMAIN a.writes |-> << <<"size", a.writes[i]>> >> \o WireBytes(a.writes[i]) \o << <<"crlf", 0>> >>])
    \o << <<"size", 0>>, <<"crlf", 0>> >>
ContentOnWire(a) == IF a.mode = "CHUNKS" THEN Chunked(a) ELSE WireBytes(AnswerSize(a))

\* What reached the wire when the status, the headers or the content fail.
WrittenAs(code, a, fate) ==
  LET status == << <<"status", code>> >>
      headers == << <<"headers", [framing |-> Framing(a), size |-> AnswerSize(a)]>> >>
  IN CASE fate = "status fails" -> <<>>
       [] fate = "headers fail" -> status
       [] fate = "content fails" -> status \o headers
       [] OTHER -> status \o headers \o ContentOnWire(a)

\* The answer to an error has no content of the consumer.
NoContent == [mode |-> "CONNECTION_CLOSE", writes |-> <<>>, known |-> TRUE]

\* Mutant: the request survives the answer.
ResetKeepsRequest(c, s) == hreq' = c /\ hrsp' = EmptyResponse

\* reset(): new objects; the defaults of the constructor are not among them.
Reset(c, s) == hreq' = EmptyRequest /\ hrsp' = EmptyResponse

\* sendFullHTTPResponse for the request c and the response s.  Keep-alive is decided
\* first; a failure ends the connection; reset follows unless it is to end.
SendFullHTTPResponse(c, s, cont, a) ==
  \E fate \in {"ok", "status fails", "headers fail", "content fails"} :
    LET keep == cont /\ c.conn # "close"
    IN /\ hsub' = IF keep /\ fate = "ok" THEN "requestLine" ELSE "nullptr"
       /\ hprohibit' = (hprohibit \/ keep)
       /\ hcont' = cont
       /\ hanswers' = Append(hanswers, [req |-> c.line, code |-> s.code, close |-> ~keep \/ Framing(a) = "close" \/ Framing(a) = "chunked",
                                        kept |-> keep, cookie |-> s.cookie, fate |-> fate])
       /\ hwire' = IF hplan.client /\ ~hcut THEN hwire \o WrittenAs(s.code, a, fate) ELSE hwire
       /\ hstatus' = IF fate = "ok" THEN "reading" ELSE "failed"
       /\ IF cont /\ fate \in {"ok", "content fails"} THEN Reset(c, s) ELSE hreq' = c /\ hrsp' = s

\* An error of the protocol: the answer with its code is the last one.
Refuse(c, code) == SendFullHTTPResponse(c, [hrsp EXCEPT !.code = code], FALSE, NoContent)

\* The consumer, or the protocol, drops the connection without an answer.
Drop(c, result) ==
  /\ hsub' = "nullptr" /\ hreq' = c /\ hstatus' = result
  /\ UNCHANGED <<hcont, hprohibit, hrsp, hanswers, hwire>>

GoTo(sub, c) == hsub' = sub /\ hreq' = c /\ UNCHANGED <<hcont, hprohibit, hrsp, hanswers, hwire, hstatus>>

\* changeToNextParserFromClientContentData: the consumer answers with a code and
\* perhaps a cookie, and may have asked for the end of the connection.
ContentReceived(c, r) ==
  /\ hseen' = <<r, c>>
  /\ \E code \in {200, 404}, cookie \in {0, r.id}, cont \in {hcont, FALSE} :
       SendFullHTTPResponse(c, [hrsp EXCEPT !.code = code, !.cookie = IF cookie = 0 THEN @ ELSE cookie], cont, hplan.answer)

-----------------------------------------------------------------------------
(* The request. *)
Reads(sub) == hstatus = "reading" /\ hsub = sub /\ hin # <<>>

\* RequestLine::parse and changeToNextParserFromClientRequestLine.  A line of one
\* word (the size of a chunk) is an error of the sub-parser.
ReadRequestLine ==
  /\ Reads("requestLine")
  /\ hin' = Tail(hin)
  /\ LET r == Head(hin)[2]
         c == [hreq EXCEPT !.line = r.id, !.minor = r.minor]
     IN IF Head(hin)[1] # "line" THEN Drop(hreq, "failed")
        ELSE IF r.major # 1 THEN Refuse(c, 505)
        ELSE GoTo("headers", c) \/ Drop(c, "reading")       \* onHTTPClientURIReceived
  /\ UNCHANGED <<hplan, hseen, hcut, hclient>>

\* parseAllClientHeaders: Host, Authorization (a Basic one with a colon) and agent.
ParseAllClientHeaders(c, r) ==
  [c EXCEPT !.conn = r.conn,
            !.host = IF r.host THEN r.id ELSE @,
            !.auth = IF r.auth = "basic" THEN r.id ELSE @,
            !.enabled = (r.auth = "basic"),
            !.agent = IF r.agent THEN r.id ELSE @]

\* setupContentHandling: without a length there is no content, whatever else the
\* headers say of it.
SetupContentHandling(c, r) == [c EXCEPT !.length = IF r.len > HMaxPost THEN 0 ELSE r.len, !.got = 0]

\* setupAndSendWebSocketHeaderResponse: a bad key or version is answered; else only
\* the headers are sent, not the status line.
UpgradeToWebSocket(c, r) ==
  CASE r.ws = "bad key" -> Refuse(c, 400)
    [] r.ws = "bad version" -> Refuse(c, 426)
    [] OTHER -> \/ /\ hsub' = "websocket" /\ hreq' = c
                   /\ hrsp' = [hrsp EXCEPT !.code = 101, !.immutable = TRUE]
                   /\ UNCHANGED <<hcont, hprohibit, hanswers, hwire, hstatus>>
                \/ Drop(c, "failed")

\* changeToNextParserFromClientHeaders, for the headers of r.
HeadersReceived(r) ==
  LET p == ParseAllClientHeaders(hreq, r)
      c == SetupContentHandling(p, r)
  IN \/ p.minor >= 1 /\ p.host = 0 /\ Refuse(p, 400) /\ UNCHANGED hseen
     \/ /\ p.minor = 0 \/ p.host # 0
        /\ \/ r.len > HMaxPost /\ Refuse(c, 413) /\ UNCHANGED hseen
           \/ /\ r.len <= HMaxPost /\ r.ws = "none"
              /\ \/ Drop(c, "reading") /\ UNCHANGED hseen    \* onHTTPClientHeadersReceived
                 \/ r.len = 0 /\ ContentReceived(c, r)
                 \/ r.len > 0 /\ GoTo("content", c) /\ UNCHANGED hseen
           \/ /\ r.len <= HMaxPost /\ r.ws # "none" /\ UNCHANGED hseen
              /\ \/ hprohibit /\ Drop(c, "failed")
                 \/ ~hprohibit /\ Refuse(c, 404)             \* onWebSocketHTTPClientHeadersReceived
                 \/ ~hprohibit /\ UpgradeToWebSocket(c, r)

ReadHeaders ==
  /\ Reads("headers")
  /\ hin' = Tail(hin)
  /\ HeadersReceived(Head(hin)[2])
  /\ UNCHANGED <<hplan, hcut, hclient>>

\* Content::parse by CONTENT_LENGTH: until nothing is left to parse.
ReadContent ==
  /\ Reads("content")
  /\ hin' = Tail(hin)
  /\ LET c == [hreq EXCEPT !.got = @ + 1]
     IN IF c.got = c.length THEN ContentReceived(c, Head(hin)[2])
        ELSE GoTo("content", c) /\ UNCHANGED hseen
  /\ UNCHANGED <<hplan, hcut, hclient>>

-----------------------------------------------------------------------------
(* HTTPv1_Client. *)

\* The connection ends; what was not read may be lost on both sides.
CutConnection ==
  /\ hstatus # "new" /\ ~hcut
  /\ hcut' = TRUE
  /\ \E n \in 0..Len(hin), k \in 0..Len(hwire) :
       hin' = SubSeq(hin, 1, n) /\ hwire' = SubSeq(hwire, 1, k)
  /\ UNCHANGED <<hplan, hsub, hcont, hprohibit, hreq, hrsp, hstatus, hanswers, hseen, hclient>>

\* setTransmissionMode and parseHeaders2TransmissionMode: nothing follows a length of
\* 0 or one that is too large.
TransmissionMode(h) ==
  CASE h.framing = "length" ->
         IF h.size = 0 \/ h.size > HMaxPost THEN [hclient EXCEPT !.sub = "nullptr", !.mode = "CONTENT_LENGTH"]
         ELSE [hclient EXCEPT !.sub = "content", !.mode = "CONTENT_LENGTH", !.want = h.size]
    [] h.framing = "chunked" -> [hclient EXCEPT !.sub = "content", !.mode = "CHUNK_SIZE"]
    [] OTHER -> [hclient EXCEPT !.sub = "content", !.mode = "CONNECTION_CLOSE", !.want = HMaxPost]

\* parseHttpChunkSize: the limits of a chunk and of all of them.
ChunkAllowed(n) == n <= HMaxChunk /\ hclient.total <= HMaxPost /\ n <= HMaxPost - hclient.total

\* Content::parse, one size line, byte or line end at a time; a size line that is
\* not a number, or is not allowed, is an error.
ParseContent(t) ==
  CASE hclient.mode = "CHUNK_CLOSE" -> [hclient EXCEPT !.sub = "nullptr"]
    [] hclient.mode = "CHUNK_SIZE" ->
         IF t[1] # "size" \/ ~ChunkAllowed(t[2]) THEN [hclient EXCEPT !.sub = "failed"]
         ELSE IF t[2] > 0 THEN [hclient EXCEPT !.mode = "CHUNK_DATA", !.want = t[2], !.total = @ + t[2]]
         ELSE [hclient EXCEPT !.mode = "CHUNK_CLOSE"]
    [] hclient.mode = "CHUNK_DATA" ->
         [hclient EXCEPT !.got = @ + 1, !.want = @ - 1, !.mode = IF hclient.want = 1 THEN "CHUNK_CRLF" ELSE @]
    [] hclient.mode = "CHUNK_CRLF" -> [hclient EXCEPT !.mode = "CHUNK_SIZE"]
    [] hclient.mode = "CONTENT_LENGTH" ->
         [hclient EXCEPT !.got = @ + 1, !.want = @ - 1, !.sub = IF hclient.want = 1 THEN "nullptr" ELSE @]
    [] OTHER -> IF hclient.want = 0 THEN [hclient EXCEPT !.sub = "failed"]
                ELSE [hclient EXCEPT !.got = @ + 1, !.want = @ - 1]

\* HTTPv1_Client::changeToNextParser.
ClientReads ==
  /\ hclient.sub \notin {"nullptr", "failed"} /\ hclient.result = "none" /\ hwire # <<>>
  /\ hwire' = Tail(hwire)
  /\ hclient' = CASE hclient.sub = "status" -> [hclient EXCEPT !.sub = "headers"]
                  [] hclient.sub = "headers" -> TransmissionMode(Head(hwire)[2])
                  [] OTHER -> ParseContent(Head(hwire))
  /\ UNCHANGED <<hplan, hin, hsub, hcont, hprohibit, hreq, hrsp, hstatus, hanswers, hseen, hcut>>

\* Socket_Stream::streamTo ends with the connection and writes no end into the parser,
\* so what parseObject returns does not say where the answer was cut, and a content
\* by connection is never marked as finished.
ClientEnds ==
  /\ hplan.client /\ hclient.result = "none"
  /\ \/ hclient.sub \in {"nullptr", "failed"}
     \/ hwire = <<>> /\ (hcut \/ hstatus = "failed" \/ hsub = "nullptr")
  /\ hclient' = [hclient EXCEPT !.result = IF hclient.sub = "failed" THEN "ERR_PARSING" ELSE "SUCCEED"]
  /\ UNCHANGED <<hplan, hin, hsub, hcont, hprohibit, hreq, hrsp, hstatus, hanswers, hseen, hwire, hcut>>

HTTPNext ==
  \/ OpenHTTP \/ ReadRequestLine \/ ReadHeaders \/ ReadContent
  \/ CutConnection \/ ClientReads \/ ClientEnds

HTTPSpec == HTTPInit /\ [][HTTPNext]_httpVars

-----------------------------------------------------------------------------
\* Nothing of an earlier request of the connection reaches the consumer with a later
\* one: not its host, its credentials, its agent or its content; nor do its cookies
\* go out with a later answer.
OwnRequestOnly ==
  /\ hseen # <<>> =>
       LET r == hseen[1]
           c == hseen[2]
       IN /\ c.line = r.id /\ {c.host, c.auth, c.agent} \subseteq {0, r.id}
          /\ c.enabled = (r.auth = "basic") /\ c.got = r.len
  /\ \A i \in DOMAIN hanswers : hanswers[i].cookie \in {0, hanswers[i].req}

\* The requests are answered in their order, each at most once, and none after an
\* answer that ended the connection; only the first may become a WebSocket.
AnsweredInOrder ==
  /\ \A i \in DOMAIN hanswers : hanswers[i].req = hplan.requests[i].id
  /\ \A i \in 1..(Len(hanswers) - 1) : hanswers[i].kept /\ hanswers[i].fate = "ok"
  /\ hsub = "websocket" => hanswers = <<>>

\* HTTPv1_Client finishes an answer only if it has all the content.  Out of this are an
\* answer too large for the client, which ends without its content, and one of known
\* size sent in chunks, whose length counts none of the chunks' own bytes.
AnswerIsWhole ==
  LET a == hplan.answer
  IN /\ hclient.sub = "nullptr" /\ hanswers[1].code \in {200, 404}
     /\ ~(a.known /\ (a.mode = "CHUNKS" \/ AnswerSize(a) > HMaxPost))
     => hclient.got = AnswerSize(a)

(* A connection keeps its requests apart, answers them in order, and its client
   never takes a part of an answer for the whole. *)
HTTPSound == OwnRequestOnly /\ AnsweredInOrder /\ AnswerIsWhole
=============================================================================
