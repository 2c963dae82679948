------------------------------ MODULE WebSocket ------------------------------
(***************************************************************************)
(* The frames of a WebSocket on HTTPv1_Server, after the upgrade: what     *)
(* FrameHeader and FrameContent make of the frames of the peer, and the    *)
(* frames that sendWebSocketData and sendWebSocketPing send.  A payload is *)
(* a sequence of bytes, small numbers; masking is an exclusive or with the *)
(* key, here a sum modulo WSByte.                                          *)
(***************************************************************************)
EXTENDS HTTPConnection

CONSTANTS
  WSFrames,      \* the frames the peer may send: [fin, rsv, op, masked, key, size, data]
  WSMaxFrames,   \* how many frames a peer sends
  WSByte,        \* the number of bytes
  WSMaxPayload,  \* FrameHeader::m_maxPayloadSize
  WSLengths,     \* the lengths of the messages the program sends
  WSMaxFrameSize \* MAX_FRAME_SIZE

\* A payload of up to 125 bytes is as long as its frame says.
ASSUME WSAssumption ==
  /\ WSMaxFrameSize \in Nat \ {0} /\ WSByte \in Nat \ {0} /\ WSLengths \subseteq Nat
  /\ \A f \in WSFrames :
       /\ f.fin \in BOOLEAN /\ f.size \in Nat /\ f.key \in Seq(Nat) \ {<<>>}
       /\ f.size <= 125 => f.data \in [1..f.size -> Nat]

VARIABLES
  wsub,          \* m_currentSubParser: "header", "content", "nullptr", "thrown"
  wframe,        \* the frame being read, its payload length as parsed
  wfirst,        \* FrameContent::m_isFirstFrame
  wtype,         \* frameType
  wcontent,      \* FrameContent::m_content
  wreceived,     \* history: the frames whose payload went into wcontent
  wcount,        \* how many frames were read
  wsent          \* the frames sent for the last message, and the message

wsVars == <<wsub, wframe, wfirst, wtype, wcontent, wreceived, wcount, wsent>>

NoFrame == [fin |-> FALSE, rsv |-> FALSE, op |-> "CONTINUATION", masked |-> FALSE, key |-> <<>>, size |-> 0, data |-> <<>>]
ControlOps == {"CLOSE", "PING", "PONG"}

\* The members of a new connection: the content is not at its first frame, since its
\* reset has not been called, and the type is the default one.
WSInit ==
  /\ wsub = "header" /\ wframe = NoFrame /\ wfirst = FALSE /\ wtype = "CONTINUATION"
  /\ wcontent = <<>> /\ wreceived = <<>> /\ wcount = 0 /\ wsent = [len |-> 0, op |-> "none", frames |-> <<>>]

-----------------------------------------------------------------------------
(* FrameHeader. *)

\* parseFirstByte and parseSecondByte; a server requires masking.
HeaderBytesValid(f) ==
  /\ ~f.rsv /\ f.op \in {"CONTINUATION", "TEXT", "BINARY"} \cup ControlOps
  /\ f.op \in ControlOps => f.fin
  /\ f.masked
  /\ f.op \in ControlOps => f.size <= 125

\* parse: up to 125 bytes the length is in the header and the key follows.  A longer
\* frame is an error: parseExtendedLength reads behind its array; with two bytes the
\* length may be anything, and the key is then taken from two bytes where four are
\* needed; with eight the length is shifted by two bytes and exceeds the maximum.
HeaderParsed(f) == HeaderBytesValid(f) /\ f.size <= 125 /\ f.size <= WSMaxPayload

\* FrameHeader::reset is part of every way back to the header.
FrameFails == wsub' = "nullptr" /\ UNCHANGED <<wframe, wfirst, wtype, wcontent, wreceived>>

\* callOnFinalFragmentReceived: a callback for each type and both parts reset; a
\* close and a failed pong end the connection; a continuation is an exception.
CallOnFinalFragment(type, content) ==
  /\ wtype' = type
  /\ \/ type = "CONTINUATION" /\ wsub' = "thrown" /\ wcontent' = content /\ UNCHANGED <<wframe, wfirst>>
     \/ /\ type # "CONTINUATION"
        /\ wfirst' = TRUE /\ wcontent' = <<>> /\ wframe' = NoFrame
        /\ \/ type # "CLOSE" /\ wsub' = "header"
           \/ type \in {"CLOSE", "PING"} /\ wsub' = "nullptr"

\* changeToNextParserFromWebSocketFrameHeader.
ReadFrameHeader ==
  /\ wsub = "header" /\ wcount < WSMaxFrames
  /\ wcount' = wcount + 1
  /\ \E f \in WSFrames :
       LET type == IF wfirst THEN f.op ELSE wtype
       IN \/ ~HeaderParsed(f) /\ FrameFails
          \/ HeaderParsed(f) /\ wfirst /\ f.op = "CONTINUATION" /\ FrameFails
          \/ /\ HeaderParsed(f) /\ ~(wfirst /\ f.op = "CONTINUATION")
             /\ \/ /\ f.size > 0
                   /\ wsub' = "content" /\ wframe' = f /\ wtype' = type /\ wfirst' = FALSE
                   /\ UNCHANGED <<wcontent, wreceived>>
                \/ f.size = 0 /\ CallOnFinalFragment(type, wcontent) /\ UNCHANGED wreceived
  /\ UNCHANGED wsent

\* unmaskData: the key starts again with every frame.
UnmaskData(f) == [i \in 1..f.size |-> (f.data[i] + f.key[((i - 1) % Len(f.key)) + 1]) % WSByte]

\* FrameContent::parse and changeToNextParserFromWebSocketFrameContent.  The UTF-8 of
\* a text is not validated, since m_isComplete is never set.
ReadFrameContent ==
  /\ wsub = "content"
  /\ wreceived' = Append(wreceived, wframe)
  /\ LET content == wcontent \o UnmaskData(wframe)
     IN \/ wframe.fin /\ CallOnFinalFragment(wtype, content)
        \/ ~wframe.fin /\ wsub' = "header" /\ wframe' = NoFrame /\ wcontent' = content /\ UNCHANGED <<wfirst, wtype>>
  /\ UNCHANGED <<wcount, wsent>>

-----------------------------------------------------------------------------
(* What the server sends. *)

\* streamToUpstream: how the length goes into the header.
MaxUInt16 == 65535
LengthField(n) == IF n <= 125 THEN n ELSE IF n <= MaxUInt16 THEN 126 ELSE 127

SentFrame(fin, op, n) == [fin |-> fin, op |-> op, size |-> n, field |-> LengthField(n)]

\* sendWebSocketData: frames of MAX_FRAME_SIZE; an empty message is one frame.
DataFrames(op, len) ==
  LET count == IF len = 0 THEN 1 ELSE (len + WSMaxFrameSize - 1) \div WSMaxFrameSize
  IN [i \in 1..count |->
        LET sent == (i - 1) * WSMaxFrameSize
            size == IF len - sent > WSMaxFrameSize THEN WSMaxFrameSize ELSE len - sent
        IN SentFrame(sent + size >= len, IF i = 1 THEN op ELSE "CONTINUATION", size)]

\* sendWebSocketPing: at most 125 bytes.
SendWebSocket ==
  /\ wsub \in {"header", "content"}
  /\ \E len \in WSLengths, op \in {"TEXT", "BINARY", "PING"} :
       wsent' = [len |-> len, op |-> op,
                 frames |-> IF op = "PING" THEN <<SentFrame(TRUE, op, IF len > 125 THEN 125 ELSE len)>> ELSE DataFrames(op, len)]
  /\ UNCHANGED <<wsub, wframe, wfirst, wtype, wcontent, wreceived, wcount>>

WSNext == ReadFrameHeader \/ ReadFrameContent \/ SendWebSocket

WSSpec == WSInit /\ [][WSNext]_wsVars

-----------------------------------------------------------------------------
\* The content is what the peer masked, frame by frame, whatever the keys are.
ContentAsSent ==
  wsub \in {"header", "content"} /\ ~wfirst =>
    wcontent = FlattenSeq([i \in DOMAIN wreceived |->
      [k \in 1..wreceived[i].size |-> (wreceived[i].data[k] + wreceived[i].key[((k - 1) % Len(wreceived[i].key)) + 1]) % WSByte]])

\* A message goes out whole: one typed frame, then continuations, the last of them
\* final, no control frame longer than 125 bytes, and a length that its field can hold.
MessagesAsFrames ==
  LET f == wsent.frames
  IN f # <<>> =>
       /\ f[1].op = wsent.op /\ \A i \in 2..Len(f) : f[i].op = "CONTINUATION"
       /\ \A i \in DOMAIN f : f[i].fin <=> i = Len(f)
       /\ wsent.op # "PING" => Total([i \in DOMAIN f |-> f[i].size]) = wsent.len
       /\ \A i \in DOMAIN f : /\ f[i].op \in ControlOps => f[i].size <= 125
                              /\ f[i].field < 126 => f[i].size = f[i].field
                              /\ f[i].field = 126 => f[i].size \in 126..MaxUInt16

(* What is received is unmasked frame by frame and what is sent is framed whole. *)
WebSocketSound == ContentAsSent /\ MessagesAsFrames

=============================================================================
