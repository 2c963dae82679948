---------------------------- MODULE MCComponents ----------------------------
(***************************************************************************)
(* The sequential components and the ones with one lock, one behaviour each. *)
(***************************************************************************)
EXTENDS FastRPC3, SQLQuery, BinaryContainer, StreamParser, HTTPConnection,
        WebSocket, WebRequest, Socket, SocketStream, TLSSocket,
        Multiplexer, MIME, Chain, JSONEval, TLC

VARIABLE component     \* the component this behaviour is about

CONSTANTS c1, c2, q1

MCRows == {<<>>, <<"a", "null", "b">>, <<"a", "empty">>, <<"null", "a">>}
MCSQLKeys == {<<1>>, <<1, 2>>, <<2>>, <<1, 2, 1>>}

MCBInputs == {<<"a">>, <<"b", "A">>, <<"a", "b", "a">>}
MCStage(m, d, n) == [mode |-> m, delims |-> d, max |-> n]
MCPlans ==
  { [kind |-> "plan", input |-> <<"a", "r", "n", "b", "b", "a", "a">>,
     stages |-> <<MCStage("DELIMITER", << <<"r", "n">> >>, 4), MCStage("SIZE", <<>>, 2),
                  MCStage("CONNECTION_END", <<>>, 2)>>],
    [kind |-> "plan", input |-> <<"a", "r", "r", "n", "b", "a", "a">>,
     stages |-> <<MCStage("DIRECT_DELIMITER", << <<"r", "n", "b", "a">> >>, 6),
                  MCStage("DIRECT", <<>>, 9)>>],
    [kind |-> "plan", input |-> <<"a", "r", "b">>, stages |-> <<MCStage("VALIDATOR", <<>>, 2)>>],
    [kind |-> "line", input |-> <<"a", "n", "b", "r", "n", "a">>,
     stages |-> <<MCStage("MULTIDELIMITER", << <<"n">>, <<"r">> >>, 3)>>] }
  \cup { [kind |-> "url", input |-> i,
          stages |-> <<MCStage("MULTIDELIMITER", << <<"=">>, <<"&">> >>, 3)>>] :
          i \in {<<"a", "=", "b", "&", "b", "=", "a">>, <<"a", "=", "&", "b", "=", "a">>,
                 <<"a", "&", "b", "=", "a">>} }

MCReq(id, minor, host, auth, len, body, conn, ws) ==
  [id |-> id, major |-> 1, minor |-> minor, host |-> host, auth |-> auth, agent |-> id = 1,
   len |-> len, body |-> body, known |-> body # 3, conn |-> conn, ws |-> ws]
MCPlain(id, auth, len, body) == MCReq(id, 1, TRUE, auth, len, body, "", "none")
MCUpgrade(id, ws) == MCReq(id, 1, TRUE, "none", 0, 0, "upgrade", ws)
MCAnswer(m, w, k) == [mode |-> m, writes |-> w, known |-> k]
MCPipelines ==
  { <<MCPlain(1, "basic", 2, 2), MCReq(2, 0, FALSE, "other", 0, 0, "", "none"),
      MCReq(3, 1, FALSE, "none", 0, 0, "", "none")>>,
    <<MCPlain(1, "none", 0, 1), MCPlain(2, "none", 0, 0)>>,
    <<MCPlain(1, "none", 9, 9)>>,
    <<[MCPlain(1, "none", 0, 0) EXCEPT !.major = 2]>>,
    <<MCPlain(1, "basic", 0, 0), MCUpgrade(2, "good")>>,
    <<MCUpgrade(1, "good")>>, <<MCUpgrade(1, "bad key")>>, <<MCUpgrade(1, "bad version")>>,
    <<[MCPlain(1, "none", 1, 1) EXCEPT !.conn = "close"], MCPlain(2, "none", 0, 0)>> }
MCHPlans ==
  { [client |-> FALSE, requests |-> rs, answer |-> MCAnswer("CONNECTION_CLOSE", <<1>>, TRUE)] :
    rs \in MCPipelines }
  \cup { [client |-> TRUE, requests |-> <<MCPlain(1, "basic", 0, b)>>, answer |-> MCAnswer(m, w, k)] :
         b \in {1, 3, 9}, m \in {"CHUNKS", "CONNECTION_CLOSE"},
         w \in {<<>>, <<1, 2>>, <<3, 2>>, <<4, 4>>}, k \in BOOLEAN }

MCFrame(fin, op, data) ==
  [fin |-> fin, rsv |-> FALSE, op |-> op, masked |-> TRUE, key |-> <<1, 2>>, size |-> Len(data), data |-> data]
MCWSFrames ==
  { MCFrame(fin, op, d) : fin \in BOOLEAN, op \in {"CONTINUATION", "TEXT", "PING"},
                          d \in {<<>>, <<1, 2, 3>>, <<2, 2>>} }
  \cup { [MCFrame(TRUE, "TEXT", <<1>>) EXCEPT !.rsv = TRUE],
         [MCFrame(TRUE, "TEXT", <<1>>) EXCEPT !.masked = FALSE],
         [MCFrame(TRUE, "TEXT", <<>>) EXCEPT !.size = 126] }
MCWSLengths == {0, 1, 125, 126, 65535, 65536, 131070, 131071}

MCTok(u, v, app, scopes, admin) ==
  [user |-> u, signed |-> TRUE, valid |-> v, app |-> app, access |-> TRUE, scopes |-> scopes,
   roles |-> {}, admin |-> admin]
MCGoodTok == MCTok("u", TRUE, TRUE, {"s"}, FALSE)
MCToks == {MCGoodTok, MCTok("v", TRUE, FALSE, {"s", "z"}, FALSE), MCTok("u", FALSE, TRUE, {"s"}, FALSE),
  [MCTok("a", TRUE, TRUE, {}, TRUE) EXCEPT !.roles = {"r"}],
  [MCTok("w", TRUE, TRUE, {"s"}, TRUE) EXCEPT !.signed = FALSE]}
MCEp(h, c, s, sess) == [header |-> h, cookie |-> c, scopes |-> s, roles |-> {"r"}, session |-> sess]
MCEndpoints ==
  [e \in {<<1, "GET", "open">>, <<1, "POST", "header">>, <<1, "PUT", "cookie">>, <<1, "GET", "login">>} |->
     CASE e[3] \in {"open", "login"} -> MCEp(FALSE, FALSE, {}, FALSE)
       [] e[3] = "header" -> MCEp(TRUE, FALSE, {"s"}, TRUE)
       [] OTHER -> MCEp(FALSE, TRUE, {"s", "r"}, TRUE)]
MCPath(k, f, mm) == [kind |-> k, file |-> f, mime |-> mm]
MCDisk == [p \in {<<"root", "/a", ".html">>, <<"root", "/d", "">>, <<"root", "/x", "">>, <<"over", "/b", "">>,
                  <<"over", "/a", ".html">>, <<"root", "/p", "">>} |->
   CASE p[2] = "/a" -> MCPath("file", IF p[1] = "root" THEN "a" ELSE "b", "page")
     [] p[2] = "/d" -> MCPath("dir", "d", "")
     [] p[2] = "/x" -> MCPath("outside", "x", "page")
     [] p[2] = "/b" -> MCPath("file", "b", "plain")
     [] OTHER -> MCPath("file", "p", "plain")]
MCTag(t, op, n) == [t |-> t, op |-> op, name |-> n]
MCPages == [f \in {"a", "b"} |->
   IF f = "a" THEN <<MCTag("include", "", "b"), MCTag("js", "GETVAR", "q"), MCTag("html", "FUNC", <<1, "GET", "open">>),
                     MCTag("include", "", "b"), MCTag("include", "", "lost")>>
   ELSE <<MCTag("js", "FUNC", <<1, "POST", "header">>), MCTag("html", "VAR", "n")>>]
MCBase == [agent |-> TRUE, uri |-> "/api", shape |-> "call", call |-> <<1, "GET", "open">>, origin |-> "",
  header |-> NoTok, cookie |-> NoTok, session |-> "none", json |-> "none", overlaps |-> <<>>,
  vars |-> [v \in {} |-> 0]]
MCWRequests ==
  { [MCBase EXCEPT !.header = t, !.session = "found", !.call = c] : t \in MCToks, c \in DOMAIN MCEndpoints }
  \cup { [MCBase EXCEPT !.cookie = t, !.call = c] : t \in MCToks, c \in {<<1, "PUT", "cookie">>} }
  \cup { [MCBase EXCEPT !.call = c, !.json = j, !.origin = o] : j \in {"ok", "bad"}, o \in {"", "good", "evil"},
         c \in {<<1, "GET", "open">>, <<1, "POST", "header">>, <<1, "OPTIONS", "open">>, <<2, "GET", "open">>,
                <<1, "HEAD", "open">>, <<1, "GET", "gone">>, <<1, "GET", "login">>} }
  \cup { [MCBase EXCEPT !.agent = FALSE], [MCBase EXCEPT !.session = "refused"], [MCBase EXCEPT !.uri = "/old"],
         [MCBase EXCEPT !.shape = "auth"], [MCBase EXCEPT !.shape = "info"], [MCBase EXCEPT !.shape = "route"],
         [MCBase EXCEPT !.shape = "other"] }
  \cup { [MCBase EXCEPT !.shape = "file", !.uri = u, !.overlaps = o, !.header = t, !.session = IF t = NoTok THEN "none" ELSE "found",
                        !.vars = [v \in {"q"} |-> MCTag("html", "FUNC", <<1, "GET", "login">>)]] :
         u \in {"/a", "/b", "/d", "/x", "/p"}, o \in {<<>>, <<"over">>}, t \in {NoTok, MCGoodTok} }
MCFilter(f, sess, act) == [scopes |-> {}, noScopes |-> {}, roles |-> {}, noRoles |-> {}, session |-> sess, noSession |-> FALSE,
   match |-> f, action |-> act]
MCCfg(rest, val, eng, filters) ==
  [rest |-> rest, checks |-> 200, redirects |-> {"/old"}, validator |-> val, options |-> TRUE, login |-> "login",
   loginOrigins |-> {"good"}, origins |-> {"good"}, engine |-> eng, docroot |-> TRUE, on404 |-> eng, filters |-> filters]
MCWConfigs ==
  { MCCfg(TRUE, v, e, <<MCFilter({"a", "b"}, TRUE, "ACCEPT"), [MCFilter({"a"}, FALSE, "DENY") EXCEPT !.noScopes = {"z"}], MCFilter({"b"}, FALSE, "REDIRECT")>>) :
      v \in {"none", "own", "dynamic"}, e \in BOOLEAN }
  \cup {MCCfg(FALSE, "none", TRUE, <<>>), [MCCfg(FALSE, "none", FALSE, <<>>) EXCEPT !.docroot = FALSE],
        [MCCfg(TRUE, "own", FALSE, <<>>) EXCEPT !.checks = 503]}

MCSNames == {<<4>>, <<6, 4>>, <<4, 4>>}
MCItem(op, w, d, mx) == [op |-> op, width |-> w, data |-> d, max |-> mx]
MCSDelim == <<2, 3>>
MCCPlans ==
  { <<MCItem("u", 2, 9, 0), MCItem("string", 1, <<1, 2>>, 2), MCItem("block", 2, <<3, 3, 3, 0, 1>>, 5), MCItem("u", 1, 3, 0)>>,
    <<MCItem("block", 1, <<1, 2, 3>>, 2), MCItem("u", 1, 1, 0)>>,
    <<MCItem("string", 1, <<>>, 2), MCItem("string", 1, <<1, 2, 3>>, 2)>>,
    <<MCItem("exact", 1, <<1>>, 2)>>, <<MCItem("exact", 1, <<1, 2>>, 2), MCItem("block", 2, <<>>, 4)>>,
    <<MCItem("delim", 0, <<1>>, 4), MCItem("delim", 0, <<2, 1>>, 4), MCItem("delim", 0, <<2, 2, 1>>, 4)>>,
    <<MCItem("delim", 0, <<1, 2, 2>>, 6), MCItem("delim", 0, <<>>, 2)>>,
    <<MCItem("line", 0, <<1>>, 0), MCItem("line", 0, <<>>, 0), MCItem("line", 0, <<2, 2>>, 0), MCItem("line", 0, <<1, 2, 1>>, 0)>> }
MCPeer(c, id, k) == [cert |-> c, id |-> id, psk |-> k]
MCTSetup(role, psk, ca, opt, peer) == [role |-> role, psk |-> psk, ca |-> ca, sys |-> FALSE, cert |-> <<"good", "missing">>, key |-> <<"bad", "good">>, option |-> opt, peer |-> peer]
MCTSetups ==
  { MCTSetup("server", "none", FALSE, "VALIDATE", MCPeer("none", "i1", "k1")),
    MCTSetup("server", "none", FALSE, "VALIDATE", MCPeer("none", "i2", "k2")),
    MCTSetup("client", "k1", TRUE, "VALIDATE", MCPeer("none", "i1", "k2")),
    MCTSetup("client", "none", FALSE, "VALIDATE", MCPeer("untrusted", "", "")),
    MCTSetup("client", "none", TRUE, "CHECKANDPASS", MCPeer("untrusted", "", "")),
    [MCTSetup("client", "none", TRUE, "VALIDATE", MCPeer("trusted", "", "")) EXCEPT !.key = <<"good", "bad">>] }
MCTParent == [i \in {"i1", "i2"} |-> IF i = "i1" THEN "k1" ELSE "k2"]

MCXBytes == [o \in {"A", "B"} \X (1..2) |-> CASE o = <<"B", 1>> -> 2 [] o = <<"B", 2>> -> -1 [] OTHER -> 0]
MCXPlans == {<<"connect", "wait", "connect">>, <<"connect", "close">>, <<"connect", "forceClose">>, <<"close", "connect">>}
MCDisp(v) == <<"disposition", ":", " ", "form", ";", " ", "name", "=">> \o v
MCMPart(lines, c, n) == [lines |-> lines, content |-> c, name |-> n]
MCMQ(s) == <<"q">> \o s \o <<"q">>
MCMParts == {
  MCMPart(<<MCDisp(MCMQ(<<"a">>))>>, <<"x", "--", "CRLF", "y">>, <<"a">>),
  MCMPart(<<MCDisp(MCMQ(<<"a", ";", "=">>)), <<"junk">>, <<"type", ":", " ", "t">>>>, <<>>, <<"a", ";", "=">>),
  MCMPart(<<<<" ", "lost">>, <<"disposition", ":", " ", "form">>, <<" ", "name", "=", "b", ";", "z">>>>, <<"CRLF", "CRLF">>, <<"b">>),
  MCMPart(<<<<"type", ":", " ", "t", ";", "u", "=", "8bit">>, <<"other", ":", " ", "o">>, MCDisp(<<"c">>)>>, <<"y">>, <<>>),
  MCMPart(<<MCDisp(MCMQ(<<"a">>) \o <<";", "f", "=">> \o MCMQ(<<";">>) \o <<";", ";", "g", "=">> \o MCMQ(<<"c">>))>>, <<"y">>, <<"a">>),
  MCMPart(<<<<"type", ":", " ", "t">>>>, <<"y">>, <<>>)}
MCMIMEMessages ==
  {[preamble |-> pre, parts |-> <<p>>, end |-> <<"--", "CRLF">>] : p \in MCMParts, pre \in {<<>>, <<"pre", "CRLF">>}} \cup
  {[preamble |-> <<>>, parts |-> <<p, r>>, end |-> e] : p \in MCMParts, r \in MCMParts, e \in {<<"--", "CRLF">>, <<"--">>, <<"junk", "CRLF">>}} \cup
  {[preamble |-> <<>>, parts |-> <<p, p, p>>, end |-> <<"--", "CRLF">>] : p \in MCMParts} 
MCChLayer(proto, key, block, end) == [proto |-> proto, key |-> key, block |-> block, endpoint |-> end]
MCChPlan(a, b, na, nb) == [layers |-> [s \in {"A", "B"} |-> IF s = "A" THEN a ELSE b],
                           send |-> [s \in {"A", "B"} |-> IF s = "A" THEN na ELSE nb]]
MCAES(key) == MCChLayer("AES", key, 2, FALSE)
MCXOR == MCChLayer("XOR", "x", 0, FALSE)
MCXORLast == MCChLayer("XOR", "x", 0, TRUE)
MCChPlans == {MCChPlan(<<MCAES("k")>>, <<MCAES("k")>>, 3, 0),
              MCChPlan(<<MCAES("k")>>, <<MCAES("j")>>, 1, 0),
              MCChPlan(<<MCXOR, MCAES("k")>>, <<MCXOR, MCAES("k")>>, 2, 0),
              MCChPlan(<<MCXORLast, MCAES("k")>>, <<MCXORLast, MCAES("k")>>, 2, 1)}
MCJePath(p) == [type |-> "path", path |-> p, text |-> <<>>]
MCJeText(t) == [type |-> "text", path |-> "", text |-> t]
MCJeFunction(op, icase, left, right) == [op |-> op, icase |-> icase, left |-> left, right |-> right]
MCJex == <<<<"x", FALSE>>>>
MCJeX == <<<<"x", TRUE>>>>
MCJexy == <<<<"x", FALSE>>, <<"y", TRUE>>>>
MCJeFunctions == [
  eq |-> MCJeFunction("IS_EQUAL", TRUE, MCJePath("p"), MCJeText(MCJeX)),
  pre |-> MCJeFunction("STARTS_WITH", FALSE, MCJePath("q"), MCJePath("p")),
  suf |-> MCJeFunction("ENDS_WITH", TRUE, MCJePath("q"), MCJeText(<<<<"y", FALSE>>>>)),
  has |-> MCJeFunction("CONTAINS", FALSE, MCJePath("q"), MCJeText(MCJex)),
  reg |-> MCJeFunction("REGEX_MATCH", FALSE, MCJePath("q"), MCJeText(MCJexy)),
  null |-> MCJeFunction("IS_NULL", FALSE, MCJePath("p"), [type |-> "void", path |-> "", text |-> <<>>]),
  odd |-> MCJeFunction("IS_EQUAL", FALSE, MCJePath("p"), [type |-> "bad", path |-> "", text |-> <<>>])]
MCJeNode(op, neg, parts) == [op |-> op, neg |-> neg, name |-> "", parts |-> parts]
MCJeAtom(name, neg) == [op |-> "atom", neg |-> neg, name |-> name, parts |-> <<>>]
MCJeInner == {MCJeAtom("eq", FALSE), MCJeAtom("pre", TRUE)}
MCJeAtoms == {MCJeAtom(n, FALSE) : n \in {"eq", "suf", "has", "reg"}} \cup {MCJeAtom("null", TRUE)}
MCJeOne == {MCJeNode(op, neg, parts) : op \in {"&", "|"}, neg \in BOOLEAN,
              parts \in {<<a, b>> : a, b \in MCJeInner} \cup {<<a>> : a \in MCJeInner}}
MCJeTwo == {MCJeNode(op, neg, <<a, b>>) : op \in {"&", "|"}, neg \in BOOLEAN,
              a \in {MCJeNode("|", TRUE, <<MCJeAtom("eq", FALSE)>>)} \cup MCJeInner,
              b \in {MCJeNode("&", FALSE, <<MCJeAtom("has", FALSE), MCJeAtom("eq", TRUE)>>)}}
MCJeTrees == {MCJeNode(op, FALSE, <<a, b>>) : op \in {"&", "|"}, a \in MCJeOne \cup MCJeTwo,
                b \in MCJeTwo \cup MCJeAtoms} \cup {MCJeNode("|", FALSE, <<t>>) : t \in MCJeOne}
MCJeTexts == {<<"eq", "(", ")", "&", "eq", "(", ")", "|", "eq", "(", ")">>, <<")">>, <<"(">>, <<"&">>,
              <<"eq", "(", ")", ")">>, <<"(", "eq", "(", ")">>, <<"eq">>, <<"odd", "(", ")">>, <<>>,
              <<"!", "!", "(", "eq", "(", ")", ")">>, <<"quote">>, <<"sub1">>, <<"(", "eq", "(", ")", "&", ")">>,
              <<"eq", "(", ")", "&">>}
MCJeKinds ==
  [{"p"} -> {[kind |-> "array", items |-> <<MCJex>>], [kind |-> "single", items |-> <<>>],
             [kind |-> "empty", items |-> <<>>]}]
MCJeDocs == {[p |-> d["p"], q |-> [kind |-> "array", items |-> <<i, MCJeX>>]] : d \in MCJeKinds, i \in {MCJex, MCJexy}}

allVars == <<component, vars, queryVars, containerVars, streamVars,
             httpVars, wsVars, webVars, sockVars, wireVars, tlsVars, xVars,
             mimeVars, chainVars, jeVars>>

Components == {"rpc3", "query", "container", "stream", "http", "websocket",
               "web", "socket", "wire", "tls", "mux", "mime", "chain",
               "eval"}

MCInit ==
  /\ component \in Components
  /\ Init /\ QueryInit /\ ContainerInit /\ StreamInit /\ HTTPInit /\ WSInit
  /\ WebInit /\ SockInit /\ WireInit /\ TLSInit /\ XInit /\ MIMEInit
  /\ ChainInit /\ JeInit

\* The steps of one component leave the state of the others alone.
MCNext ==
  \/ component = "rpc3" /\ RPC3Next
       /\ UNCHANGED <<component, queryVars, containerVars, streamVars,
                      httpVars, wsVars, webVars, sockVars, wireVars,
                      tlsVars, xVars, mimeVars, chainVars, jeVars>>
  \/ component = "query" /\ QueryNext
       /\ UNCHANGED <<component, vars, containerVars, streamVars, httpVars,
                      wsVars, webVars, sockVars, wireVars, tlsVars, xVars,
                      mimeVars, chainVars, jeVars>>
  \/ component = "container" /\ ContainerNext
       /\ UNCHANGED <<component, vars, queryVars, streamVars, httpVars,
                      wsVars, webVars, sockVars, wireVars, tlsVars, xVars,
                      mimeVars, chainVars, jeVars>>
  \/ component = "stream" /\ StreamNext
       /\ UNCHANGED <<component, vars, queryVars, containerVars, httpVars,
                      wsVars, webVars, sockVars, wireVars, tlsVars, xVars,
                      mimeVars, chainVars, jeVars>>
  \/ component = "http" /\ HTTPNext
       /\ UNCHANGED <<component, vars, queryVars, containerVars,
                      streamVars, wsVars, webVars, sockVars, wireVars,
                      tlsVars, xVars, mimeVars, chainVars, jeVars>>
  \/ component = "websocket" /\ WSNext
       /\ UNCHANGED <<component, vars, queryVars, containerVars,
                      streamVars, httpVars, webVars, sockVars, wireVars,
                      tlsVars, xVars, mimeVars, chainVars, jeVars>>
  \/ component = "web" /\ WebNext
       /\ UNCHANGED <<component, vars, queryVars, containerVars,
                      streamVars, httpVars, wsVars, sockVars, wireVars,
                      tlsVars, xVars, mimeVars, chainVars, jeVars>>
  \/ component = "socket" /\ SockNext
       /\ UNCHANGED <<component, vars, queryVars, containerVars,
                      streamVars, httpVars, wsVars, webVars, wireVars,
                      tlsVars, xVars, mimeVars, chainVars, jeVars>>
  \/ component = "wire" /\ WireNext
       /\ UNCHANGED <<component, vars, queryVars, containerVars,
                      streamVars, httpVars, wsVars, webVars, sockVars,
                      tlsVars, xVars, mimeVars, chainVars, jeVars>>
  \/ component = "tls" /\ TLSNext
       /\ UNCHANGED <<component, vars, queryVars, containerVars,
                      streamVars, httpVars, wsVars, webVars, sockVars,
                      wireVars, xVars, mimeVars, chainVars, jeVars>>
  \/ component = "mux" /\ XNext
       /\ UNCHANGED <<component, vars, queryVars, containerVars,
                      streamVars, httpVars, wsVars, webVars, sockVars,
                      wireVars, tlsVars, mimeVars, chainVars, jeVars>>
  \/ component = "mime" /\ MIMENext
       /\ UNCHANGED <<component, vars, queryVars, containerVars,
                      streamVars, httpVars, wsVars, webVars, sockVars,
                      wireVars, tlsVars, xVars, chainVars, jeVars>>
  \/ component = "chain" /\ ChainNext
       /\ UNCHANGED <<component, vars, queryVars, containerVars,
                      streamVars, httpVars, wsVars, webVars, sockVars,
                      wireVars, tlsVars, xVars, mimeVars, jeVars>>
  \/ component = "eval" /\ JeNext
       /\ UNCHANGED <<component, vars, queryVars, containerVars,
                      streamVars, httpVars, wsVars, webVars, sockVars,
                      wireVars, tlsVars, xVars, mimeVars, chainVars>>

MCSpec == MCInit /\ [][MCNext]_allVars

(* What is written comes out as it was: whatever the cuts of the writes, a stream parser yields
   what was sent and the layers of a chain deliver it; the parts of a MIME message arrive as they
   were sent; a filter expression means what was written. *)
ParsersSound == StreamsCutAnywhere /\ MIMESound /\ JSONEvalSound /\ ChainSound
=============================================================================
