------------------------------- MODULE WsReceive -------------------------------
(***************************************************************************)
(* How libwebsockets receives WebSocket frames: the byte-wise parsers      *)
(* lws_rx_sm (parsers.c, server) and lws_client_rx_sm (client-parser.c),   *)
(* the bulk copy of payload, the flow control of input with its buffer,    *)
(* and the answers to ping and close (service.c).                          *)
(*                                                                         *)
(* A byte of the wire is a record that says what it is for a receiver that *)
(* is in step: an opcode, a length, a digit of an extended length, a byte  *)
(* of the key, or payload and the byte of the key it is masked with.  A    *)
(* receiver out of step reads garbage.                                     *)
(*                                                                         *)
(* Extensions are not negotiated (WebSockerServer.m passes none), and the  *)
(* validation of UTF-8 is not asked for; both are left out.                *)
(*                                                                         *)
(* The names of the specification begin with Ws, as MCLibrary extends this *)
(* module beside HttpClient.                                               *)
(***************************************************************************)
EXTENDS Naturals, Sequences, SequencesExt, FiniteSets

CONSTANTS
    Short,      \* largest length that fits the first length byte: 125
    Radix,      \* values of a byte: 256
    RxBuffer,   \* rx_buffer_size of the protocol
    Scripts,    \* what the peer may send: [role, closes, frames]
    MaxRead,    \* bound: bytes one read returns
    MaxStops    \* bound: times the user stops the flow

VARIABLES
    script,     \* the role of the receiver and the frames of its peer
    wire,       \* bytes the receiver has not read yet
    buf,        \* bytes of this read it has not used yet
    reading,    \* "no", or where buf is from: "net" or "flow"
    flow, pos,  \* rxflow_buffer (<<>> for NULL) and rxflow_pos
    allow,      \* LWS_RXFLOW_ALLOW in rxflow_change_to
    change,     \* LWS_RXFLOW_PENDING_CHANGE in rxflow_change_to
    pollin,     \* the pollfd asks for POLLIN
    pollout,    \* and for POLLOUT
    state,      \* LWSS_ESTABLISHED, AWAITING_CLOSE_ACK, RETURNED_CLOSE_ALREADY
    rx,         \* the parser
    pong,       \* ping_payload_buf, and what it is for
    received,   \* callbacks LWS_CALLBACK_RECEIVE and _RECEIVE_PONG so far
    replies,    \* control frames written so far
    stops       \* times the user has stopped the flow

inputVars == <<wire, buf, reading, flow, pos>>
flowVars  == <<allow, change, pollin>>
wsVars == <<script, inputVars, flowVars, pollout, state, rx, pong, received, replies, stops>>

-----------------------------------------------------------------------------
(* The wire *)

Data    == {"text", "binary", "cont"}
Control == {"ping", "pong", "close"}

Server == script.role = "server"   \* what receives; its peer masks its frames
Frames == script.frames

KeyByte(f, i) == IF Server /\ ~Frames[f].zero THEN <<f, i % 4>> ELSE <<>>

\* A length without its last k digits, and how many digits follow its byte.
Quotient(len) == LET q[k \in 0..8] == IF k = 0 THEN len ELSE q[k - 1] \div Radix IN q
Extended(len) == IF len <= Short THEN 0 ELSE IF Quotient(len)[2] = 0 THEN 2 ELSE 8

\* The digits of a length, most significant first.
LengthDigits(len, n) == [i \in 1..n |-> [digit |-> Quotient(len)[n - i] % Radix]]

\* A frame of the protocol: its length fits in eight digits.  zero is of its
\* key; bad, of a close: its first two bytes are a code that nobody may send.
Frame == {f \in [op : Data \cup Control, len : Nat, fin : BOOLEAN, zero : BOOLEAN,
                 bad : BOOLEAN] :
             Quotient(f.len)[8] = 0}

\* What a control frame may hold fits the buffer (rx_buffer_size is 1 MB,
\* WebSockerServer.m:147).
ASSUME WsReceiveAssumption ==
    /\ Short \in Nat /\ Radix \in Nat \ {0} /\ RxBuffer \in Nat \ {0} /\ Short <= RxBuffer
    /\ Scripts \subseteq [role : {"server", "client"}, closes : BOOLEAN, frames : Seq(Frame)]

EncodeFrame(f) ==
    LET len == Frames[f].len
        ext == Extended(len)
    IN  << [op |-> Frames[f].op, fin |-> Frames[f].fin] >>
        \o << [masked |-> Server, len |-> IF ext = 0 THEN len ELSE 0, ext |-> ext] >>
        \o LengthDigits(len, ext)
        \o (IF Server THEN [i \in 1..4 |-> [key |-> KeyByte(f, i - 1)]] ELSE <<>>)
        \o [i \in 1..len |-> [v |-> <<f, i>>, by |-> KeyByte(f, i - 1)]]

\* All that the peer sends
Whole == FlattenSeq([f \in 1..Len(Frames) |-> EncodeFrame(f)])

NewParser ==
    [at |-> "op", op |-> "none", masked |-> FALSE, left |-> 0, digits |-> 0,
     mask |-> <<>>, idx |-> 0, zero |-> FALSE, ubuf |-> <<>>,
     binary |-> FALSE, more |-> FALSE, owed |-> FALSE]

AtStart ==
    /\ wire = Whole
    /\ buf = <<>> /\ reading = "no" /\ flow = <<>> /\ pos = 0
    /\ allow = TRUE /\ change = FALSE /\ pollin = TRUE /\ pollout = FALSE
    /\ state = "open"
    /\ rx = NewParser
    /\ pong = [pending |-> FALSE, close |-> FALSE, data |-> <<>>]
    /\ received = <<>> /\ replies = <<>> /\ stops = 0

WsInit == script \in Scripts /\ AtStart

\* lws_close_free_wsi without a reason
CloseFree ==
    /\ state' = "closed"
    /\ buf' = <<>> /\ reading' = "no" /\ flow' = <<>> /\ pos' = 0

-----------------------------------------------------------------------------
(* Flow control *)

\* _lws_rx_flow_control.  A change that is pending reaches the pollfd, unless
\* input is still buffered: a writable callback will then get it going.
FlowControl(on, pending, held) ==
    /\ allow' = on /\ change' = (pending /\ held)
    /\ pollin' = IF pending /\ ~held THEN on ELSE pollin

Held == flow # <<>>

\* The user's callback may stop the flow (lws_rx_flow_control), and then asks
\* to be called back when he can write.  A server then makes the change; a
\* client calls the user and no more (client-parser.c:546), and the change stays
\* pending.
UserReceives ==
    \/ /\ UNCHANGED stops
       /\ IF Server THEN /\ FlowControl(allow, change, Held)
                         /\ pollout' = (pollout \/ (change /\ Held))
          ELSE UNCHANGED <<flowVars, pollout>>
    \/ /\ allow /\ stops < MaxStops /\ stops' = stops + 1 /\ pollout' = TRUE
       /\ IF Server THEN FlowControl(FALSE, TRUE, Held)
          ELSE allow' = FALSE /\ change' = TRUE /\ UNCHANGED pollin

\* When he can write he lets it flow again, if he had stopped it.
UserWrites ==
    LET pending == change \/ ~allow
    IN  FlowControl(TRUE, pending, Held) /\ pollout' = (pending /\ Held)

\* lws_rxflow_cache: what is left of a read is kept, or stays where it is kept.
RxflowCache ==
    /\ reading # "no" /\ buf # <<>> /\ ~allow
    /\ IF Held THEN UNCHANGED <<flow, pos>> ELSE flow' = buf /\ pos' = 0
    /\ buf' = <<>> /\ reading' = "no"
    /\ UNCHANGED <<script, wire, flowVars, pollout, state, rx, pong, received, replies, stops>>

-----------------------------------------------------------------------------
(* The parser *)

Quiet == UNCHANGED <<flowVars, pollout, state, pong, received, replies, stops>>

ForgetPos(n) ==     \* rxflow_pos does not follow
    buf' = SubSeq(buf, n + 1, Len(buf)) /\ UNCHANGED <<wire, reading, flow, pos>>

\* n bytes of the read are used; rxflow_pos follows if they are from the buffer.
Use(n) ==
    /\ buf' = SubSeq(buf, n + 1, Len(buf))
    /\ pos' = IF Held THEN pos + n ELSE pos
    /\ UNCHANGED <<wire, reading, flow>>

\* A violation of the protocol closes the connection.
Illegal == CloseFree /\ UNCHANGED <<wire, flowVars, pollout, rx, pong, received, replies, stops>>

\* A peer that wants to be a client checks the order of fragments.
ClientRefuses(b) ==
    /\ ~Server
    /\ \/ b.op = "cont" /\ ~rx.more
       \/ b.op \in {"text", "binary"} /\ rx.owed
       \/ b.op \in Control /\ ~b.fin

Opcode(b) ==
    IF ClientRefuses(b) THEN Illegal
    ELSE /\ rx' = [rx EXCEPT !.at = "len", !.op = b.op, !.zero = Server \/ @,
                      !.binary = IF b.op \in {"text", "binary"} THEN b.op = "binary" ELSE @,
                      !.more = IF b.op \in Data THEN ~b.fin ELSE @,
                      !.owed = IF b.op \in Data THEN ~b.fin ELSE @]
         /\ Use(1) /\ Quiet

\* What follows a length that is complete.  A server that is sent an extended
\* length without a key does not ask whether it is zero.
AfterLength(p, extended) ==
    IF p.masked THEN "key"
    ELSE IF p.left > 0 \/ (Server /\ extended) THEN "payload" ELSE "spill"

-----------------------------------------------------------------------------
(* A frame, or a full buffer of one, is spilled.  p is the parser then. *)

Emptied(p) == [p EXCEPT !.ubuf = <<>>, !.at = IF @ = "spill" THEN "op" ELSE @]

\* ping, and close as one: the payload is stashed, and sent as soon as possible.
Stash(p, isClose) ==
    /\ pong' = [pending |-> TRUE, close |-> isClose, data |-> p.ubuf]
    /\ pollout' = TRUE /\ rx' = Emptied(p)
    /\ UNCHANGED <<flowVars, received, stops>>

\* LWS_CLOSE_STATUS_PROTOCOL_ERR, as the two bytes of 1002
ProtocolErr == << <<"0x03">>, <<"0xea">> >>

BadCode(data) ==
    /\ Len(data) >= 2
    /\ \E f \in 1..Len(Frames) : Frames[f].bad /\ data[1] = <<f, 1>> /\ data[2] = <<f, 2>>

\* A code that nobody may send is overwritten with that of a protocol error;
\* what follows it stays.
CloseCode(data) ==
    IF BadCode(data) THEN ProtocolErr \o SubSeq(data, 3, Len(data)) ELSE data

\* A client parrots the payload back, and closes at once.
ClientSpillClose(p) ==
    /\ replies' = Append(replies, [op |-> "close", data |-> CloseCode(p.ubuf)])
    /\ CloseFree /\ UNCHANGED <<wire, flowVars, pollout, rx, pong, received, stops>>

\* The peer's answer to our close, or a second close, ends the connection.
SpillClose(p) ==
    IF state # "open" THEN Illegal
    ELSE IF ~Server THEN ClientSpillClose(p)
    ELSE state' = "returned" /\ Stash(p, TRUE) /\ Use(1) /\ UNCHANGED replies

SpillPing(p) ==
    IF pong.pending
    THEN rx' = Emptied(p) /\ Use(1) /\ Quiet    \* dropped since one is pending
    ELSE Stash(p, FALSE) /\ Use(1) /\ UNCHANGED <<state, replies>>

\* A server does not report an empty message, a client does; neither reports
\* what follows a close.
Reported(p) == state = "open" /\ (p.ubuf # <<>> \/ p.op = "pong" \/ ~Server)

SpillData(p) ==
    /\ rx' = Emptied(p) /\ Use(1) /\ UNCHANGED <<state, pong, replies>>
    /\ IF ~Reported(p) THEN UNCHANGED <<flowVars, pollout, received, stops>>
       ELSE /\ received' = Append(received,
                   [op |-> IF p.op = "pong" THEN "pong" ELSE "data", binary |-> p.binary,
                    data |-> p.ubuf, more |-> p.left > 0])
            /\ UserReceives

Spill(p) ==
    CASE p.op = "close" -> SpillClose(p)
      [] p.op = "ping"  -> SpillPing(p)
      [] OTHER          -> SpillData(p)

\* The parser goes on with p, or spills if p is complete.
Continue(p) == IF p.at = "spill" THEN Spill(p) ELSE rx' = p /\ Use(1) /\ Quiet

Length(b) ==
    LET p == [rx EXCEPT !.masked = b.masked, !.left = b.len, !.digits = b.ext]
    IN  IF b.ext > 0 /\ rx.op \in Control THEN Illegal
        ELSE Continue([p EXCEPT !.at = IF b.ext > 0 THEN "ext" ELSE AfterLength(p, FALSE)])

ExtendedLength(b) ==
    LET p == [rx EXCEPT !.left = @ * Radix + b.digit, !.digits = @ - 1]
    IN  Continue([p EXCEPT !.at = IF p.digits > 0 THEN "ext" ELSE AfterLength(p, TRUE)])

KeepIndex(b) ==     \* mask_idx goes on from the frame before
    LET p == [rx EXCEPT !.mask = IF Len(@) = 4 THEN <<b.key>> ELSE Append(@, b.key),
                        !.zero = @ /\ b.key = <<>>]
    IN  Continue([p EXCEPT !.at = IF Len(p.mask) < 4 THEN "key"
                                  ELSE IF p.left > 0 THEN "payload" ELSE "spill"])

\* The key of a frame, and its index, which starts over.
Key(b) ==
    LET p == [rx EXCEPT !.mask = IF Len(@) = 4 THEN <<b.key>> ELSE Append(@, b.key),
                        !.idx = IF Server THEN 0 ELSE @, !.zero = @ /\ b.key = <<>>]
    IN  Continue([p EXCEPT !.at = IF Len(p.mask) < 4 THEN "key"
                                  ELSE IF p.left > 0 THEN "payload" ELSE "spill"])

\* A payload byte, unmasked with the byte i of the key.
Plain == rx.zero \/ ~rx.masked
Unmasked(b, i) ==
    IF b.by = (IF Plain THEN <<>> ELSE rx.mask[(i % 4) + 1]) THEN b.v ELSE <<"garbage">>

Payload(b) ==
    LET p == [rx EXCEPT !.ubuf = Append(@, Unmasked(b, rx.idx)), !.left = @ - 1,
                        !.idx = IF Plain THEN @ ELSE (@ + 1) % 4]
    IN  IF p.left = 0 THEN Spill([p EXCEPT !.at = "spill"])
        ELSE IF Len(p.ubuf) = RxBuffer THEN Spill(p)
        ELSE Continue(p)

\* lws_payload_until_length_exhausted copies payload in bulk, but for the last
\* byte, which lws_rx_sm then deals with.
BulkLength ==
    LET avail == CHOOSE n \in {RxBuffer - Len(rx.ubuf), rx.left, Len(buf)} :
                    \A m \in {RxBuffer - Len(rx.ubuf), rx.left, Len(buf)} : n <= m
    IN  IF avail <= 1 THEN 0 ELSE avail - 1

ByteReady(at) == reading # "no" /\ buf # <<>> /\ allow /\ rx.at = at

\* The byte is what the parser takes it for.
InStep(b) == (IF rx.at = "len" THEN "masked" ELSE IF rx.at = "ext" THEN "digit"
              ELSE IF rx.at = "payload" THEN "v" ELSE rx.at) \in DOMAIN b

PayloadUntilLengthExhausted ==
    /\ ByteReady("payload") /\ Server /\ BulkLength > 0
    /\ \A i \in 1..BulkLength : InStep(buf[i])
    /\ rx' = [rx EXCEPT
                !.ubuf = @ \o [i \in 1..BulkLength |-> Unmasked(buf[i], rx.idx + i - 1)],
                !.left = @ - BulkLength,
                !.idx = IF Plain THEN @ ELSE (@ + BulkLength) % 4]
    /\ Use(BulkLength) /\ Quiet /\ UNCHANGED script

\* lws_rx_sm and lws_client_rx_sm, for one byte
RxSm ==
    /\ UNCHANGED script /\ ByteReady(rx.at) /\ InStep(buf[1])
    /\ \/ rx.at = "op"  /\ Opcode(buf[1])
       \/ rx.at = "len" /\ Length(buf[1])
       \/ rx.at = "ext" /\ ExtendedLength(buf[1])
       \/ rx.at = "key" /\ Key(buf[1])
       \/ rx.at = "payload" /\ (~Server \/ BulkLength = 0) /\ Payload(buf[1])

-----------------------------------------------------------------------------
(* The service of the connection *)

KeepPending ==      \* the flag of a pong that was sent stays
    /\ state = "open" /\ pong.pending
    /\ replies' = Append(replies, [op |-> "pong", data |-> pong.data])
    /\ reading' = "served"
    /\ UNCHANGED <<wire, buf, flow, pos, flowVars, pollout, state, pong>>

ClearAfterPong ==   \* POLLOUT is cleared although the user has not written
    \/ /\ state = "open" /\ pong.pending
       /\ replies' = Append(replies, [op |-> "pong", data |-> pong.data])
       /\ pong' = [pong EXCEPT !.pending = FALSE] /\ pollout' = FALSE
       /\ reading' = "served" /\ UNCHANGED <<wire, buf, flow, pos, flowVars, state>>
    \/ /\ state = "open" /\ ~pong.pending /\ UserWrites
       /\ reading' = "served" /\ UNCHANGED <<wire, buf, flow, pos, state, pong, replies>>

\* lws_handle_POLLOUT_event: a pong or a close that is pending goes first, then
\* the user may write.
HandlePollout ==
    \/ /\ state = "open" /\ pong.pending
       /\ replies' = Append(replies, [op |-> "pong", data |-> pong.data])
       /\ pong' = [pong EXCEPT !.pending = FALSE]
       /\ reading' = "served" /\ UNCHANGED <<wire, buf, flow, pos, flowVars, pollout, state>>
    \/ /\ state = "returned"
       /\ replies' = Append(replies, [op |-> "close", data |-> pong.data])
       /\ CloseFree /\ UNCHANGED <<wire, flowVars, pollout, pong>>
    \/ /\ state = "open" /\ ~pong.pending /\ UserWrites
       /\ reading' = "served" /\ UNCHANGED <<wire, buf, flow, pos, state, pong, replies>>

\* poll() returns for this connection: what may be written goes first.
Serve ==
    /\ reading = "no" /\ UNCHANGED <<script, rx, received, stops>>
    /\ \/ pollout /\ HandlePollout
       \/ /\ pollin /\ wire # <<>> /\ state # "closed" /\ reading' = "served"
          /\ UNCHANGED <<wire, buf, flow, pos, flowVars, pollout, state, pong, replies>>

\* Then what is buffered is drained, or else what has arrived is read.  Input
\* that follows a close is of no interest (lws_read, "Unhandled state").
ReadOn(on) ==
    \/ /\ ~on /\ reading' = "no" /\ UNCHANGED <<wire, buf, flow, pos>>
    \/ /\ on /\ Held /\ reading' = "flow"
       /\ buf' = SubSeq(flow, pos + 1, Len(flow)) /\ UNCHANGED <<wire, flow, pos>>
    \/ /\ on /\ ~Held /\ pollin /\ wire # <<>>
       /\ \E n \in 1..Len(wire) :
            /\ n <= MaxRead \/ n = Len(wire)
            /\ wire' = SubSeq(wire, n + 1, Len(wire))
            /\ IF state = "returned" THEN reading' = "no" /\ UNCHANGED buf
               ELSE reading' = "net" /\ buf' = SubSeq(wire, 1, n)
       /\ UNCHANGED <<flow, pos>>
    \/ /\ on /\ ~Held /\ ~(pollin /\ wire # <<>>) /\ reading' = "no"
       /\ UNCHANGED <<wire, buf, flow, pos>>

\* A connection that is closing has its flow control forced off.
Read ==
    /\ reading = "served"
    /\ LET forced == state # "open" /\ ~allow IN
       /\ allow' = (allow \/ forced) /\ change' = (change \/ forced)
       /\ ReadOn(allow')
    /\ UNCHANGED <<script, pollin, pollout, state, rx, pong, received, replies, stops>>

\* All of the read is used.  A buffer that is drained is freed, and a pending
\* change of the flow can be made.
EndRead ==
    /\ reading \in {"net", "flow"} /\ buf = <<>> /\ reading' = "no"
    /\ IF reading = "flow" /\ pos = Len(flow)
       THEN flow' = <<>> /\ pos' = 0 /\ FlowControl(allow, change, FALSE)
       ELSE UNCHANGED <<flow, pos, flowVars>>
    /\ UNCHANGED <<script, wire, buf, pollout, state, rx, pong, received, replies, stops>>

\* The program closes first: lws_close_free_wsi sends a close frame, and waits
\* for that of the peer.
CloseFirst ==
    /\ reading = "no" /\ state = "open" /\ script.closes
    /\ state' = "awaiting" /\ replies' = Append(replies, [op |-> "close", data |-> <<>>])
    /\ UNCHANGED <<script, inputVars, flowVars, pollout, rx, pong, received, stops>>

Parse == RxSm \/ PayloadUntilLengthExhausted \/ RxflowCache

WsNext == Serve \/ Read \/ Parse \/ EndRead \/ CloseFirst

\* The service thread goes round, and sockets become writable.
WsFairness ==
    /\ WF_wsVars(Serve) /\ WF_wsVars(Read \/ Parse \/ EndRead)
    /\ SF_wsVars(Serve /\ pollout /\ HandlePollout)

WsSpec == WsInit /\ [][WsNext]_wsVars /\ WsFairness

-----------------------------------------------------------------------------
(* Properties *)

FrameData(f) == [i \in 1..Frames[f].len |-> <<f, i>>]

\* The frames the user is told of: not those after a close, and a server does
\* not report an empty message.
Told(f) ==
    /\ Frames[f].op \in Data \cup {"pong"}
    /\ \A g \in 1..f : Frames[g].op # "close"
    /\ Frames[f].len > 0 \/ ~Server \/ Frames[f].op = "pong"

IsBinary(f) ==
    LET starts == {g \in 1..f : Frames[g].op \in {"text", "binary"}}
    IN  starts # {} /\ Frames[CHOOSE g \in starts : \A h \in starts : h <= g].op = "binary"

\* A callback byte by byte, with the end of its frame
Bytewise(c) == [i \in 1..Len(c.data) |-> <<c.data[i], c.op, c.binary>>]
               \o (IF c.more THEN <<>> ELSE << <<"end">> >>)

\* What is delivered, byte by byte, with the ends of the frames.
Flat(d) == FlattenSeq([k \in 1..Len(d) |-> Bytewise(d[k])])

\* What the user is to hear of a frame, and of all of them
Owed(f) == IF Told(f) THEN Bytewise([op |-> IF Frames[f].op = "pong" THEN "pong" ELSE "data",
                                     binary |-> IsBinary(f), data |-> FrameData(f), more |-> FALSE])
           ELSE <<>>
Expected == FlattenSeq([f \in 1..Len(Frames) |-> Owed(f)])

\* However the network cuts the bytes, whatever is copied in bulk, and wherever
\* the flow is stopped, the user receives the payload of the frames, unmasked,
\* in order, once, with their ends, and a fragment with the kind of its message
\* (parsers.c:1222, :1455, service.c:395).
DeliveredInOrder == IsPrefix(Flat(received), Expected)

\* What a close is to be answered with: itself, but a client says that the
\* protocol was violated where the code is one that nobody may send.
CloseAnswer(f) ==
    IF ~Server /\ Frames[f].bad /\ Frames[f].len >= 2
    THEN ProtocolErr \o SubSeq(FrameData(f), 3, Frames[f].len) ELSE FrameData(f)

\* Every pong echoes a ping, each ping is answered at most once, in order; a
\* close is answered with itself, or by a client with 1002 in place of a code
\* that nobody may send, and nothing is written after a close.  from[i] is the
\* frame that the reply i answers.
RepliesEcho ==
    \E from \in [1..Len(replies) -> 0..Len(Frames)] : \A i \in 1..Len(replies) :
        LET Answers(op, data) == from[i] # 0 /\ Frames[from[i]].op = op /\ replies[i].data = data
        IN  /\ replies[i].op = "pong" =>
                /\ Answers("ping", FrameData(from[i]))
                /\ \A j \in 1..i-1 : replies[j].op = "pong" /\ from[j] < from[i]
            /\ replies[i].op = "close" =>
                i = Len(replies) /\ (script.closes \/ Answers("close", CloseAnswer(from[i])))

\* Input whose flow was stopped goes on when the user can write again, until
\* all of it was delivered, unless the connection closes.
FlowResumes == <>(Flat(received) = Expected \/ state # "open")
=============================================================================
