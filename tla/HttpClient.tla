------------------------------ MODULE HttpClient ------------------------------
(***************************************************************************)
(* One client connection of libwebsockets, from                            *)
(* lws_client_connect_via_info to the end of its socket: waiting for a     *)
(* header table, connecting, also through a proxy, the handshake, the      *)
(* reply of the server, for HTTP and for WebSocket, redirects, and the     *)
(* body of an HTTP reply, which the user reads with lws_http_client_read.  *)
(*                                                                         *)
(* The network decides how each call on the socket ends.  The headers of a *)
(* reply are abstracted to what lws_client_interpret_server_handshake      *)
(* finds in them; its body is taken apart byte by byte.  Frames after a    *)
(* WebSocket handshake are the matter of WsReceive.                        *)
(***************************************************************************)
EXTENDS Naturals, Integers, Sequences, SequencesExt, FiniteSets

CONSTANTS
    Calls,      \* what the user asks for, and what the server answers:
                \* [doWs, proxy, posts, status, http11, headers, sizing, data, chunks]
    Room,       \* bytes of the buffer the user reads into
    Half        \* numbers an int can hold that are not negative: 2^31

VARIABLES
    call,       \* the call at hand
    wsi,        \* the connection, with the callbacks its user has heard
    arriving,   \* the body, as far as the user has not read it
    delivered   \* the data of the callbacks RECEIVE_CLIENT_HTTP_READ

vars == <<call, wsi, arriving, delivered>>

-----------------------------------------------------------------------------
(* The server writes its body as it is, or in chunks.  A chunk is given by its *)
(* size, in hexadecimal digits, and by where in the data it ends; the last one *)
(* is empty.                                                                   *)

CR == 16
LF == 17

Begin(c, k)     == IF k = 1 THEN 0 ELSE c.chunks[k - 1].end
ChunkSize(c, k) == c.chunks[k].end - Begin(c, k)

EncodeChunk(c, k) ==
    c.chunks[k].digits \o <<CR, LF>>
    \o SubSeq(c.data, Begin(c, k) + 1, c.chunks[k].end) \o <<CR, LF>>

Encode(c) ==
    IF c.sizing = "chunked" THEN FlattenSeq([k \in 1..Len(c.chunks) |-> EncodeChunk(c, k)])
    ELSE c.data

\* The number that the first i of some digits say
Number(digits) ==
    LET first[i \in 0..Len(digits)] == IF i = 0 THEN 0 ELSE first[i - 1] * 16 + digits[i]
    IN  first

WellChunked(c) ==
    LET n == Len(c.chunks)
    IN  /\ n # 0 /\ c.chunks[n].end = Len(c.data)
        /\ \A k \in 1..n :
            /\ Number(c.chunks[k].digits)[Len(c.chunks[k].digits)] = ChunkSize(c, k)
            /\ IF k = n THEN ChunkSize(c, k) = 0 ELSE ChunkSize(c, k) \in 1..Half - 1

\* What a length says fits an int, as do the sizes of chunks.
ASSUME HttpClientAssumption ==
    /\ Room \in Nat /\ Half \in Nat \ {0}
    /\ \A c \in Calls :
        /\ c.data \in Seq(0..LF) /\ c.sizing \in {"none", "length", "chunked"}
        /\ c.chunks \in Seq([digits : Seq(0..15), end : Nat])
        /\ c.sizing = "length" => Len(c.data) < Half
        /\ c.sizing = "chunked" => WellChunked(c)

-----------------------------------------------------------------------------
(* The connection *)

\* lws_client_connect_via_info: no table and no socket yet.  state_pre_close is
\* LWSS_HTTP, as the memory is zeroed.
NewWsi ==
    [mode |-> "client", state |-> "unconnected", pre |-> "http", socket |-> FALSE,
     usable |-> TRUE, timeout |-> FALSE, pollIn |-> TRUE, avail |-> FALSE, freed |-> FALSE,
     didCce |-> FALSE, keepAlive |-> TRUE, parser |-> "none", chunkRemaining |-> 0,
     contentLength |-> 0, contentRemain |-> 0, heard |-> <<>>]

Init ==
    /\ call \in Calls /\ wsi = NewWsi /\ arriving = Encode(call) /\ delivered = <<>>

Hear(s, callback) == [s EXCEPT !.heard = Append(@, callback)]

ClosedIfState(s) == \* what the state was is not known after a violent death
    IF s.pre = "established" THEN Hear(s, "CLOSED")
    ELSE IF s.mode \in {"waitReply", "waitConnect"} /\ ~s.didCce THEN Hear(s, "ERROR") ELSE s

\* The end of lws_close_free_wsi, whom it tells.
LastWords(s) ==
    IF s.pre = "established" \/ (s.mode = "ws" /\ s.pre = "http") THEN Hear(s, "CLOSED")
    ELSE IF s.mode \in {"waitReply", "waitConnect"} /\ ~s.didCce THEN Hear(s, "ERROR") ELSE s

\* just_kill_connection: the socket is shut down first, unless it is not
\* connected, and the connection waits in LWSS_SHUTDOWN for the peer.
JustKill(s) ==
    IF s.state \notin {"shutdown", "unconnected"} /\ s.usable
    THEN [s EXCEPT !.state = "shutdown", !.pollIn = TRUE, !.timeout = TRUE]
    ELSE [Hear(LastWords(s), "DESTROY") EXCEPT !.state = "dead", !.socket = FALSE,
                                              !.freed = TRUE, !.timeout = FALSE]

\* lws_close_free_wsi.  Every mode of a client but that of an established
\* WebSocket has LWSCM_FLAG_IMPLIES_CALLBACK_CLOSED_CLIENT_HTTP.
Close(s) ==
    IF ~s.usable \/ s.state = "shutdown" THEN JustKill(s)
    ELSE LET p == [s EXCEPT !.pre = s.state]
         IN  IF s.mode \in {"waitConnect", "ws"} THEN JustKill(p)
             ELSE JustKill(Hear(p, "CLOSED_HTTP"))

\* bail2 and bail3: the user hears of the error, then the connection is closed.
Bail(s) == Close([Hear(s, "ERROR") EXCEPT !.didCce = TRUE])

-----------------------------------------------------------------------------
(* Connecting *)

\* LWSCM_WSCL_ISSUE_HANDSHAKE and LWSCM_WSCL_ISSUE_HANDSHAKE2 are passed in one
\* call: the request is sent.
IssueHandshake(s, sent) ==
    LET h == [s EXCEPT !.mode = "handshake2", !.timeout = TRUE]
    IN  IF ~sent THEN Close(h)
        ELSE [h EXCEPT !.mode = IF call.posts THEN "issueBody" ELSE "waitReply"]

\* oom4, and failed if the connection is in the poll already
CannotConnect(s) ==
    IF s.socket THEN Close(s)
    ELSE [(IF s.mode = "client" THEN Hear(s, "ERROR") ELSE s) EXCEPT !.freed = TRUE]

OpenSocket(s) ==
    IF s.socket THEN s
    ELSE Hear([s EXCEPT !.socket = TRUE, !.mode = "waitConnect", !.timeout = TRUE], "CREATE")

\* lws_client_connect_2.  How the network does: the address is not found, the
\* connection is refused, is under way, is up, is up but what is sent fails.
Networks == {"noAddress", "refused", "underWay", "up", "upNoSend"}

Connected(s) ==         \* to the server, or to the proxy
    IF call.proxy THEN [s EXCEPT !.mode = "waitProxy", !.timeout = TRUE]
    ELSE IssueHandshake([s EXCEPT !.mode = "handshake", !.timeout = TRUE], TRUE)

ConnectSocket(s, net) ==
    CASE net = "underWay" -> s
      [] net = "up" -> Connected(s)
      [] net = "upNoSend" /\ ~call.proxy ->
            IssueHandshake([s EXCEPT !.mode = "handshake", !.timeout = TRUE], FALSE)
      [] OTHER -> Close(s)

Connect2(s, net) ==
    IF net = "noAddress" THEN CannotConnect(s) ELSE ConnectSocket(OpenSocket(s), net)

\* lws_header_table_attach, now or when another connection gives up its table:
\* lws_client_connect_via_info2.
Attach == \E net \in Networks :
    /\ wsi.mode = "client" /\ ~wsi.freed
    /\ wsi' = Connect2(wsi, net) /\ UNCHANGED <<call, arriving, delivered>>

WaitingConnect == \E net \in Networks :
    /\ wsi.mode = "waitConnect" /\ ~wsi.freed
    /\ wsi' = Connect2(wsi, net) /\ UNCHANGED <<call, arriving, delivered>>

WaitingProxyReply == \E good, sent \in BOOLEAN :
    /\ wsi.mode = "waitProxy" /\ ~wsi.freed
    /\ wsi' = IF good THEN IssueHandshake([wsi EXCEPT !.timeout = FALSE], sent) ELSE Close(wsi)
    /\ UNCHANGED <<call, arriving, delivered>>

\* The user writes the body when it is writable, and says if more will come.
IssueHttpBody == \E more \in BOOLEAN :
    /\ wsi.mode = "issueBody" /\ ~wsi.freed
    /\ wsi' = IF more THEN wsi ELSE [wsi EXCEPT !.mode = "waitReply"]
    /\ UNCHANGED <<call, arriving, delivered>>

-----------------------------------------------------------------------------
(* The reply *)

\* lws_client_reset, and what is made of its result: a connection to the new
\* server is taken for a failure, a failure for success (a server that wants
\* ssl, for one, is left without an answer).
Redirect(s, net) ==
    LET r == Connect2([s EXCEPT !.socket = FALSE, !.state = "unconnected", !.timeout = FALSE],
                      net)
    IN  IF r.freed THEN r ELSE Bail(r)

\* The user may refuse before it is established, or when it is.
HttpReply(s, accepts) ==
    LET sized == [s EXCEPT
            !.parser = IF call.sizing = "chunked" THEN "HEX" ELSE "none",
            !.contentLength = IF call.sizing = "length" THEN Len(call.data) ELSE 0,
            !.contentRemain = IF call.sizing = "length" THEN Len(call.data) ELSE 0,
            !.keepAlive = @ /\ call.sizing # "none"]
        up == Hear([sized EXCEPT !.timeout = FALSE], "ESTABLISHED_HTTP")
    IN  IF call.status # 200 \/ accepts = "never" THEN Bail(sized)
        ELSE IF accepts = "early" THEN Bail(up) ELSE up

\* 101, an upgrade to websocket, and a protocol that was offered and exists
UpgradeAgreed == call.status = 101 /\ call.headers # "noUpgrade"

\* Extensions that are known and take their options, and the accept token that
\* was computed
ExtensionsAgreed == call.headers # "badExtension"

WsReply(s, accepts) ==
    LET up == Hear([s EXCEPT !.mode = "ws", !.state = "established", !.timeout = FALSE],
                   "ESTABLISHED")
    IN  IF ~UpgradeAgreed \/ ~ExtensionsAgreed \/ accepts = "never" THEN Bail(s)
        ELSE IF accepts = "early" THEN Bail(up) ELSE up

\* lws_client_interpret_server_handshake
Interpret(s, accepts, net) ==
    LET t == [s EXCEPT !.mode = IF call.doWs THEN @ ELSE "http",
                       !.state = IF call.doWs THEN @ ELSE "httpEstablished",
                       !.keepAlive = call.http11]
    IN  IF call.doWs /\ ~call.http11 THEN Bail(t)
        ELSE IF call.status = 302
             THEN CASE call.headers = "good" -> Redirect(t, net)
                    [] call.headers = "ssl" -> t
                    [] OTHER -> Bail(t)
        ELSE IF call.doWs THEN WsReply(t, accepts) ELSE HttpReply(t, accepts)

\* With a redirect whose request cannot be sent, the connection is freed and
\* then used: not modelled.
ServerReply == \E accepts \in {"always", "early", "never"}, net \in Networks \ {"upNoSend"} :
    /\ wsi.mode = "waitReply" /\ ~wsi.freed
    /\ wsi' = Interpret(wsi, accepts, net) /\ UNCHANGED <<call, arriving, delivered>>

\* The peer hung up, the read failed, or the reply cannot be parsed.
BadReply ==
    /\ wsi.mode = "waitReply" /\ ~wsi.freed
    /\ wsi' = Bail(wsi) /\ UNCHANGED <<call, arriving, delivered>>

-----------------------------------------------------------------------------
(* The body *)

\* LWS_CALLBACK_RECEIVE_CLIENT_HTTP: the user is told, and POLLIN is off until
\* it has read.
Receive ==
    /\ wsi.mode = "http" /\ wsi.state = "httpEstablished" /\ wsi.pollIn /\ arriving # <<>>
    /\ wsi' = [wsi EXCEPT !.avail = TRUE, !.pollIn = FALSE]
    /\ UNCHANGED <<call, arriving, delivered>>

SizeFollows(r, b) ==        \* the line end after the data is not expected
    [r EXCEPT !.parser = IF r.remaining = 1 THEN "HEX" ELSE "CONTENT",
              !.remaining = @ - 1, !.out = Append(@, b)]

Content(r, b) ==
    [r EXCEPT !.parser = IF r.remaining = 1 THEN "POST_CR" ELSE "CONTENT",
              !.remaining = @ - 1, !.out = Append(@, b)]

\* chunk_parser.  What follows the last chunk in the buffer is not looked at.
ChunkByte(r, b) ==
    CASE r.parser = "HEX" /\ b = CR -> [r EXCEPT !.parser = "CR"]
      [] r.parser = "HEX" /\ b < 16 -> [r EXCEPT !.remaining = @ * 16 + b]
      [] r.parser = "CR" /\ b = LF  ->
            [r EXCEPT !.parser = IF r.remaining = 0 THEN "completed" ELSE "CONTENT"]
      [] r.parser = "CONTENT" -> Content(r, b)
      [] r.parser = "POST_CR" /\ b = CR -> [r EXCEPT !.parser = "POST_LF"]
      [] r.parser = "POST_LF" /\ b = LF -> [r EXCEPT !.parser = "HEX", !.remaining = 0]
      [] r.parser = "completed" -> r
      [] OTHER -> [r EXCEPT !.parser = "broken"]

\* content_remain is unsigned, and compared as an int.
Wrapped(n) == IF n < 0 THEN n + 2 * Half ELSE n
Signed(n)  == IF n >= Half THEN n - 2 * Half ELSE n

\* What is taken of in: the next state of the parser, what remains, the data of
\* the callback, or "broken" where its length is negative.
TakeChunks(in) ==
    LET start == [parser |-> wsi.parser, remaining |-> wsi.chunkRemaining,
                  content |-> 0, out |-> <<>>]
        after[i \in 0..Len(in)] == IF i = 0 THEN start ELSE ChunkByte(after[i - 1], in[i])
    IN  after[Len(in)]

TakeContent(in) ==
    LET n == IF wsi.contentRemain # 0 /\ Signed(wsi.contentRemain) < Len(in)
             THEN Signed(wsi.contentRemain) ELSE Len(in)
        left == Wrapped(wsi.contentRemain - n)
    IN  [parser |-> IF n < 0 THEN "broken"
                    ELSE IF left = 0 /\ wsi.contentLength # 0 THEN "completed" ELSE "none",
         remaining |-> 0, content |-> left, out |-> SubSeq(in, 1, n)]

\* Nothing is taken of what follows the last chunk; nothing follows a body of
\* known length.
Take(in) ==
    IF wsi.parser = "completed"
    THEN [parser |-> "completed", remaining |-> 0, content |-> 0, out |-> <<>>]
    ELSE IF wsi.parser = "none" THEN TakeContent(in) ELSE TakeChunks(in)

\* lws_http_client_read, from a callback that closes if it fails, also because
\* the transaction is over and lws_http_transaction_completed_client does not
\* keep the connection.
HttpClientRead == \E n \in 1..Room :
    /\ wsi.avail /\ wsi.state = "httpEstablished" /\ ~wsi.freed
    /\ n <= Len(arriving) /\ arriving' = SubSeq(arriving, n + 1, Len(arriving))
    /\ LET r == Take(SubSeq(arriving, 1, n))
           s == [wsi EXCEPT !.avail = FALSE, !.pollIn = TRUE, !.parser = r.parser,
                            !.chunkRemaining = r.remaining, !.contentRemain = r.content]
       IN  /\ delivered' = delivered \o r.out
           /\ wsi' = CASE r.parser = "broken" -> Close(s)
                       [] r.parser = "completed" /\ wsi.parser # "completed" ->
                            LET c == Hear(s, "COMPLETED")
                            IN  IF s.keepAlive THEN c ELSE Close(c)
                       [] OTHER -> s
    /\ UNCHANGED call

-----------------------------------------------------------------------------
(* The end *)

\* lws_service_timeout_check, and a POLLHUP without POLLIN: the socket is
\* permanently unusable.
ViolentDeath == Close([wsi EXCEPT !.usable = FALSE])

Timeout ==
    /\ wsi.timeout /\ ~wsi.freed
    /\ wsi' = ViolentDeath /\ UNCHANGED <<call, arriving, delivered>>

HangUp ==
    /\ wsi.socket /\ ~wsi.freed
    /\ wsi' = ViolentDeath /\ UNCHANGED <<call, arriving, delivered>>

\* The peer of a WebSocket, or of a socket that was shut down, sends its FIN.
ZeroRead ==
    /\ wsi.socket /\ ~wsi.freed /\ (wsi.mode = "ws" \/ wsi.state = "shutdown")
    /\ wsi' = Close(wsi) /\ UNCHANGED <<call, arriving, delivered>>

Next == Attach \/ WaitingConnect \/ WaitingProxyReply \/ IssueHttpBody \/ ServerReply
        \/ BadReply \/ Receive \/ HttpClientRead \/ Timeout \/ HangUp \/ ZeroRead

Spec == Init /\ [][Next]_vars

-----------------------------------------------------------------------------
(* Properties *)

Heard(callback) == \E i \in DOMAIN wsi.heard : wsi.heard[i] = callback
Times(callback) == Cardinality({i \in DOMAIN wsi.heard : wsi.heard[i] = callback})
Before(a, b) == \A j \in DOMAIN wsi.heard :
    wsi.heard[j] = b => \E i \in 1..j - 1 : wsi.heard[i] = a

\* The callbacks of a connection tell one story, though it may be closed in any
\* state, in two steps, by its own callbacks and by a timeout in between
\* (libwebsockets.c:214): nothing is told twice, CLOSED is for a connection that
\* was established and is not forgotten for one, and nothing follows the end.
OneStory ==
    /\ \A c \in {"ERROR", "ESTABLISHED", "ESTABLISHED_HTTP", "COMPLETED", "CLOSED",
                 "CLOSED_HTTP", "DESTROY"} : Times(c) <= 1
    /\ Before("ESTABLISHED", "CLOSED") /\ Before("ESTABLISHED_HTTP", "COMPLETED")
    /\ ~(Heard("ESTABLISHED") /\ Heard("CLOSED_HTTP"))
    /\ wsi.freed /\ Heard("ESTABLISHED") => Heard("CLOSED")
    /\ Heard("DESTROY") => wsi.freed /\ Last(wsi.heard) = "DESTROY"

\* The length of the body is known or it comes in one byte: content_remain goes
\* round when more than one read finds no length.  What comes with a redirect is
\* left as it is.
Promised == call.status # 302 /\ (call.sizing # "none" \/ Len(call.data) <= 1)

\* Wherever the reads cut the body, and whatever its bytes are, the user gets
\* the data and nothing else, and hears that it is complete, once it is
\* (service.c:560).  A body of known length zero is never complete, as nothing
\* comes that would be read.
BodyDelivered == Promised =>
    /\ IsPrefix(delivered, call.data) /\ wsi.parser # "broken"
    /\ Heard("COMPLETED") => delivered = call.data
    /\ wsi.state = "httpEstablished" /\ arriving = <<>> /\ call.sizing # "none"
       /\ call.data # <<>> => Heard("COMPLETED")
=============================================================================
