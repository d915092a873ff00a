------------------------------ MODULE Connections ------------------------------
(***************************************************************************)
(* The life of the connections of a libwebsockets server: the listening    *)
(* socket and the table of pollfds, the pool of header tables ("ah") and   *)
(* the list of those who wait for one, HTTP requests and the upgrade to    *)
(* WebSocket, the stages of a close, and the timeouts (server.c, parsers.c,*)
(* service.c, libwebsockets.c).                                            *)
(*                                                                         *)
(* What a peer sends is cut into tokens: a part of a header set, a request *)
(* or an upgrade that completes one, a unit of a body, a WebSocket message,*)
(* a close frame, or a violation of the protocol.  The server of           *)
(* WebSockerServer.m mounts nothing and its callback_http answers nothing, *)
(* and it never closes a connection with a reason.  Allocations succeed.   *)
(*                                                                         *)
(* Every step of the service thread runs to its end before the next; its   *)
(* effect is written as a function of the state s of the library.          *)
(***************************************************************************)
EXTENDS Naturals, Sequences, SequencesExt, FiniteSets

CONSTANTS
    Conns,      \* connections: struct lws, each used once
    Tables,     \* max_http_header_pool header tables
    Slots,      \* connections the table of pollfds has room for
    MaxSent     \* bound: tokens each peer sends

NoTable == "none"
NoConn == "none"

ASSUME ConnectionsAssumption ==
    Slots \in Nat \ {0} /\ NoTable \notin Tables /\ NoConn \notin Conns

VARIABLES
    conn,       \* the connections
    pool,       \* the header tables: their owner, and input not yet parsed
    waiting,    \* ah_wait_list, the latest first
    fds,        \* the table of pollfds
    listen,     \* the listening socket is polled
    sent        \* tokens the peers have sent

vars == <<conn, pool, waiting, fds, listen, sent>>

-----------------------------------------------------------------------------
(* The state of the library, and parts of it *)

Library == [conn |-> conn, pool |-> pool, waiting |-> waiting, fds |-> fds, listen |-> listen]

Becomes(state) ==
    \E s \in {state} :
        /\ conn' = s.conn /\ pool' = s.pool /\ waiting' = s.waiting
        /\ fds' = s.fds /\ listen' = s.listen /\ sent' = sent

\* lws_create_new_server_wsi, for a peer that has connected
NewConn ==
    [net |-> "up", wire |-> <<>>, upgraded |-> FALSE,
     mode |-> "http", state |-> "backlog", pre |-> "http", unusable |-> FALSE,
     shut |-> FALSE, timer |-> "none", hdr |-> FALSE, remain |-> 0,
     pollin |-> FALSE, pollout |-> FALSE, trunc |-> FALSE,
     ah |-> NoTable, pos |-> 0, est |-> 0, closed |-> 0]

FreeTable == [wsi |-> NoConn, rx |-> <<>>]

Init ==
    /\ conn = [w \in Conns |-> NewConn]
    /\ pool = [t \in Tables |-> FreeTable]
    /\ waiting = <<>> /\ fds = <<>> /\ listen = TRUE /\ sent = [w \in Conns |-> 0]

\* The state after Op, run in the state s.
Then(s, Op(_)) == CHOOSE r \in {Op(x) : x \in {s}} : TRUE

Set(s, w, c) == [s EXCEPT !.conn[w] = c]

Served(w) == conn[w].state \notin {"backlog", "dead"}
Rx(s, w) == IF s.conn[w].ah = NoTable THEN <<>> ELSE s.pool[s.conn[w].ah].rx
SetRx(s, w, rx) ==
    IF s.conn[w].ah = NoTable THEN s ELSE [s EXCEPT !.pool[s.conn[w].ah].rx = rx]

-----------------------------------------------------------------------------
(* Header tables *)

\* lws_header_table_attach.  One that finds none joins the list, and is not
\* polled for input until it has one.
Attach(s, w) ==
    LET free == {t \in Tables : s.pool[t].wsi = NoConn}
        t    == CHOOSE t \in free : TRUE
    IN  IF free = {}
        THEN [s EXCEPT !.waiting = IF Contains(@, w) THEN @ ELSE <<w>> \o @,
                       !.conn[w].pollin = FALSE]
        ELSE [s EXCEPT !.pool[t] = [wsi |-> w, rx |-> <<>>], !.waiting = RemoveFirst(@, w),
                       !.conn[w] = [@ EXCEPT !.ah = t, !.pollin = TRUE]]

DetachOwner(s, w) ==    \* a waiter that closes is not taken off the list
    IF s.conn[w].ah = NoTable THEN s
    ELSE [s EXCEPT !.pool[s.conn[w].ah] = FreeTable, !.conn[w].ah = NoTable]

\* lws_header_table_detach: not while it holds input.  The one who has waited
\* longest gets it, and is polled for input again.
Detach(s, w) ==
    LET t == s.conn[w].ah
        v == Last(s.waiting)
        given == Set(Set(s, w, [s.conn[w] EXCEPT !.ah = NoTable]), v,
                     [s.conn[v] EXCEPT !.ah = t, !.pollin = TRUE])
    IN  IF t = NoTable THEN [s EXCEPT !.waiting = RemoveFirst(@, w)]
        ELSE IF s.pool[t].rx # <<>> THEN s
        ELSE IF s.waiting = <<>>
             THEN [s EXCEPT !.pool[t] = FreeTable, !.conn[w].ah = NoTable]
             ELSE [given EXCEPT !.pool[t].wsi = v, !.waiting = Front(@)]

\* The header information is dropped with whatever was read after it.
NukeAh(s, w) == Then(SetRx(s, w, <<>>), LAMBDA x : Detach(x, w))

-----------------------------------------------------------------------------
(* The end of a connection *)

\* _lws_change_pollfd of the listening socket: whether connections are accepted
PollListening(s, on) == [s EXCEPT !.listen = on]

KeepEntry(s, w) ==      \* the position of the entry that moves is not updated
    LET p == s.conn[w].pos
        v == Last(s.fds)
    IN  PollListening([s EXCEPT !.fds = Front([@ EXCEPT ![p] = v]), !.conn[w].pos = 0], TRUE)

\* remove_wsi_socket_from_fds: the last entry takes the slot, and there is room
\* for another connection.
RemoveFromFds(s, w) ==
    LET p == s.conn[w].pos
        v == Last(s.fds)
        moved == [s EXCEPT !.conn[v].pos = p, !.fds = Front([@ EXCEPT ![p] = v])]
    IN  PollListening([moved EXCEPT !.conn[w].pos = 0], TRUE)

\* The states whose connection is told LWS_CALLBACK_CLOSED.
TellsClosed(c) ==
    c.pre \in {"established", "returned", "flushing"} \/ (c.mode = "ws" /\ c.pre = "http")

\* The rest of lws_close_free_wsi, and lws_free_wsi.
Free(s, w) ==
    LET c == s.conn[w]
        dead == [NewConn EXCEPT !.net = "fin", !.mode = c.mode, !.state = "dead",
                                !.ah = c.ah, !.pos = c.pos, !.est = c.est,
                                !.closed = c.closed + IF TellsClosed(c) THEN 1 ELSE 0]
    IN  Then(Then(Set(s, w, dead), LAMBDA x : RemoveFromFds(x, w)),
             LAMBDA x : Detach(x, w))

NoDeadline(s, w) ==     \* a shutdown that waits for the peer without a timeout
    IF s.conn[w].state # "shutdown" /\ ~s.conn[w].unusable
    THEN Set(s, w, [s.conn[w] EXCEPT !.state = "shutdown", !.shut = TRUE, !.timer = "none",
                                     !.pollout = FALSE, !.pollin = TRUE])
    ELSE Free(s, w)

\* just_kill_connection: a socket that is usable is shut down first.
JustKill(s, w) ==
    IF s.conn[w].state # "shutdown" /\ ~s.conn[w].unusable
    THEN Set(s, w, [s.conn[w] EXCEPT !.state = "shutdown", !.shut = TRUE, !.timer = "shutdown_flush",
                                     !.pollout = FALSE, !.pollin = TRUE])
    ELSE Free(s, w)

CloseOverPre(s, w) ==   \* the state before the close is that of the last call
    Then([s EXCEPT !.conn[w].pre = s.conn[w].state], LAMBDA x : JustKill(x, w))

\* A send that is stored is flushed first.
PoliteClose(s, w) ==
    LET c == s.conn[w]
    IN  IF c.unusable \/ c.state = "shutdown" THEN JustKill(s, w)
        ELSE IF ~c.trunc
        THEN Then([s EXCEPT !.conn[w].pre = c.state], LAMBDA x : JustKill(x, w))
        ELSE IF c.state = "flushing"
        THEN Set(s, w, [c EXCEPT !.pre = c.state, !.pollout = TRUE])
        ELSE Set(s, w, [c EXCEPT !.pre = c.state, !.state = "flushing",
                                 !.timer = "flush_stored_send"])

\* lws_close_free_wsi without a reason.  Input that was not parsed is lost.
Close(s, w) == Then(SetRx(s, w, <<>>), LAMBDA x : PoliteClose(x, w))

Unusable(s, w) == [s EXCEPT !.conn[w].unusable = TRUE]

-----------------------------------------------------------------------------
(* New connections *)

\* insert_wsi_socket_into_fds: with the last slot taken, accepts are defeated.
InsertIntoFds(s, w) ==
    LET x == [s EXCEPT !.fds = Append(@, w),
                       !.conn[w] = [@ EXCEPT !.pos = Len(s.fds) + 1, !.pollin = TRUE]]
    IN  IF Len(x.fds) < Slots THEN x ELSE PollListening(x, FALSE)

\* lws_adopt_socket_vhost
Adopt(s, w) ==
    LET new == [s.conn[w] EXCEPT !.state = "http", !.timer = "establish"]
    IN  Then(InsertIntoFds(Set(s, w, new), w), LAMBDA x : Attach(x, w))

Accept(w) ==
    /\ conn[w].state = "backlog" /\ listen
    /\ Becomes(Adopt(Library, w))

-----------------------------------------------------------------------------
(* HTTP *)

\* lws_http_action: content is waited for; the callback answers nothing, and with a
\* content length a body is read.
HttpAction(c, body) ==
    [c EXCEPT !.mode = "accepted", !.timer = "content", !.state = IF body THEN "body" ELSE "http"]

Get(s, w, rest) == SetRx(Set(s, w, HttpAction(s.conn[w], FALSE)), w, rest)

\* A body that is complete ends the timeout; nobody ends the transaction.
Post(s, w, rest) ==
    LET c == HttpAction(s.conn[w], TRUE)
    IN  IF rest = <<>>
        THEN SetRx(Set(s, w, [c EXCEPT !.remain = 1]), w, <<>>)
        ELSE SetRx(Set(s, w, [c EXCEPT !.remain = 0, !.timer = "none"]), w, Tail(rest))

\* bail_nuke_ah, and the close that follows it
Refuse(s, w) == Then(Then(s, LAMBDA x : NukeAh(x, w)), LAMBDA x : Close(x, w))

\* The end of upgrade_ws: the connection is announced to the user.  Input that
\* came with the request stays in the header table, which the connection keeps.
Establish(s, w, rest) ==
    LET up == Set(s, w, [s.conn[w] EXCEPT !.mode = "ws", !.state = "established",
                                          !.timer = "none", !.est = @ + 1])
    IN  Then(up, LAMBDA x : IF rest = <<>> THEN NukeAh(x, w) ELSE SetRx(x, w, rest))

\* handshake_0405: out is what becomes of the response.
Upgrade(s, w, rest, out) ==
    IF out = "error"
    THEN Refuse(Set(s, w, [s.conn[w] EXCEPT !.mode = "pre_ws", !.unusable = TRUE]), w)
    ELSE Then(Set(s, w, [s.conn[w] EXCEPT !.trunc = (out = "part"), !.pollout = (out = "part")]),
              LAMBDA x : Establish(x, w, rest))

\* lws_handshake_server: the input of the header table, up to the first header
\* set that is complete.
Handshake(s0, w, out) ==
    LET rx   == Rx(s0, w)
        ends == {i \in DOMAIN rx : rx[i] # "part"}
        i    == CHOOSE i \in ends : \A j \in ends : i <= j
        s    == Set(s0, w, [s0.conn[w] EXCEPT !.state = "headers",
                                              !.hdr = s0.conn[w].state # "http" /\ @])
        whole == Set(s, w, [s.conn[w] EXCEPT !.hdr = TRUE])
        rest == SubSeq(rx, i + 1, Len(rx))
    IN  IF ends = {} THEN SetRx(s, w, <<>>)
        ELSE CASE rx[i] = "get"     -> Get(whole, w, rest)
               [] rx[i] = "post"    -> Post(whole, w, rest)
               [] rx[i] = "upgrade" -> Upgrade(whole, w, rest, out)
               [] rx[i] = "deny"    ->
                    Refuse(Set(s, w, [s.conn[w] EXCEPT !.hdr = TRUE, !.mode = "pre_ws",
                                                       !.timer = "none"]), w)
               [] OTHER             -> Refuse(s, w)

Fails(s, w) == s.conn[w].wire = <<>>     \* a read that returns zero, or an error
Taken(s, w, n) == [s EXCEPT !.conn[w].wire = SubSeq(@, n + 1, Len(@))]

\* Header states: what the table holds is parsed, or else what has arrived.
ReadHeaders(s, w, n, out) ==
    IF s.conn[w].ah = NoTable THEN s
    ELSE IF Rx(s, w) # <<>> THEN Handshake(s, w, out)
    ELSE IF Fails(s, w) THEN Close(s, w)
    ELSE Then(SetRx(Taken(s, w, n), w, SubSeq(s.conn[w].wire, 1, n)),
              LAMBDA x : Handshake(x, w, out))

ServeHeaders(s, w, n, out) ==
    IF s.conn[w].ah # NoTable THEN ReadHeaders(s, w, n, out)
    ELSE Then(Attach(s, w), LAMBDA x : ReadHeaders(x, w, n, out))

\* Other states of HTTP.  What is not body is lost.
ServeBody(s, w, n) ==
    IF Fails(s, w) THEN Close(s, w)
    ELSE IF s.conn[w].state = "body" /\ s.conn[w].remain > 0
    THEN Then(Taken(s, w, n), LAMBDA x : Set(x, w, [x.conn[w] EXCEPT !.remain = 0,
                                                                     !.timer = "none"]))
    ELSE Taken(s, w, n)

\* lws_server_socket_service
ServeHttp(s, w, n, out) ==
    IF s.conn[w].state \in {"http", "headers"} THEN ServeHeaders(s, w, n, out)
    ELSE ServeBody(s, w, n)

-----------------------------------------------------------------------------
(* WebSocket *)

\* lws_issue_raw: the socket takes all, a part, or fails, as it must when shut.
Issue(s, w, out) ==
    IF out = "error" \/ s.conn[w].shut THEN Unusable(s, w)
    ELSE Set(s, w, [s.conn[w] EXCEPT !.trunc = (out = "part"),
                                     !.pollout = @ \/ out = "part" \/ s.conn[w].trunc])

\* lws_handle_POLLOUT_event, for a stored send, a close that is to be answered,
\* or the user, who may write.
AfterSend(s, w, out) ==
    LET c == s.conn[w]
    IN  IF c.state = "returned"
        THEN Then([s EXCEPT !.conn[w].state = "flushing"], LAMBDA x : Close(x, w))
        ELSE IF c.unusable \/ (c.state = "flushing" /\ ~c.trunc) THEN Close(s, w)
        ELSE s

Pollout(s, w, out) ==
    LET c == s.conn[w]
    IN  IF c.trunc \/ c.state = "returned"
        THEN Then(Issue(s, w, out), LAMBDA x : AfterSend(x, w, out))
        ELSE IF c.state = "flushing" THEN Close(s, w)
        ELSE Then(Issue(s, w, out), LAMBDA x : [x EXCEPT !.conn[w].pollout = (out = "part")])

\* lws_interpret_incoming_packet.  The second close ends the connection, and so
\* does one that comes while a send is stored.
Interpret(s, w, tokens) ==
    LET ends == {i \in DOMAIN tokens : tokens[i] # "data"}
        i    == CHOOSE i \in ends : \A j \in ends : i <= j
        back == Set(s, w, [s.conn[w] EXCEPT !.state = "returned", !.pollout = TRUE])
    IN  IF ends = {} THEN s
        ELSE IF tokens[i] # "close" THEN Close(s, w)
        ELSE IF s.conn[w].trunc THEN Close(Unusable(s, w), w)
        ELSE IF ends = {i} THEN back ELSE Close(back, w)

\* lws_read: other states have no interest in input.
ReadWs(s, w, tokens) ==
    IF s.conn[w].state \in {"established", "shutdown"} THEN Interpret(s, w, tokens) ELSE s

\* What came with the upgrade is first; the table that held it is given back.
ReceiveWs(s, w, n) ==
    IF s.conn[w].ah # NoTable
    THEN Then(ReadWs(s, w, Rx(s, w)), LAMBDA x : NukeAh(x, w))
    ELSE IF Fails(s, w) THEN Close(s, w)
    ELSE Then(Taken(s, w, n), LAMBDA x : ReadWs(x, w, SubSeq(s.conn[w].wire, 1, n)))

\* A connection that the first half closes is not read from.
ServeWs(s, w, n, pollin, pollout, out) ==
    LET first(x) == IF pollout /\ s.conn[w].state \in {"established", "returned", "flushing"}
                    THEN Pollout(x, w, out) ELSE x
        then(x)  == IF pollin /\ x.conn[w].state = s.conn[w].state
                    THEN ReceiveWs(x, w, n) ELSE x
    IN  Then(Then(s, first), then)

-----------------------------------------------------------------------------
(* The service thread *)

Results == {"all", "part", "error"}

\* lws_service_flag_pending: a header table holds the start of a header set.
Forced(w) == Rx(Library, w) # <<>> /\ ~conn[w].hdr

Readable(w) == conn[w].pollin /\ (conn[w].wire # <<>> \/ conn[w].net # "up" \/ Forced(w))

Reads(w) == IF conn[w].wire = <<>> THEN {0} ELSE 1..Len(conn[w].wire)

\* lws_service_fd_tsi.  A connection whose upgrade was refused is in no mode
\* that is served.
Service(w) ==
    /\ Served(w)
    /\ \E pollin \in {Readable(w)}, pollout \in {FALSE, conn[w].pollout},
          n \in Reads(w), out \in Results :
        /\ pollin \/ pollout
        /\ \/ /\ conn[w].mode = "ws"
              /\ Becomes(ServeWs(Library, w, n, pollin, pollout, out))
           \/ /\ conn[w].mode \in {"http", "accepted"} /\ pollin
              /\ Becomes(ServeHttp(Library, w, n, out))

\* A hangup is noticed when no input is asked for.
HangUp(w) ==
    /\ Served(w) /\ conn[w].net = "rst" /\ ~conn[w].pollin
    /\ Becomes(Close(Unusable(Library, w), w))

\* lws_service_timeout_check: a violent death
TimeOut(w) ==
    /\ Served(w) /\ conn[w].timer # "none"
    /\ Becomes(Close(Unusable(Library, w), w))

\* lws_callback_on_writable, for a user that broadcasts
Ask(w) ==
    /\ conn[w].mode = "ws" /\ conn[w].state \in {"established", "returned", "flushing"}
    /\ ~conn[w].unusable /\ ~conn[w].pollout
    /\ conn' = [conn EXCEPT ![w].pollout = TRUE]
    /\ UNCHANGED <<pool, waiting, fds, listen, sent>>

-----------------------------------------------------------------------------
(* The peers *)

Says(w) == IF conn[w].upgraded THEN {"data", "close", "bad"}
           ELSE {"part", "get", "post", "bad", "upgrade", "deny"}

PeerSends(w) ==
    /\ conn[w].net = "up" /\ conn[w].state # "dead" /\ sent[w] < MaxSent[w]
    /\ sent' = [sent EXCEPT ![w] = @ + 1]
    /\ \E token \in Says(w) :
         conn' = [conn EXCEPT ![w] = [conn[w] EXCEPT !.wire = Append(@, token),
                                                     !.upgraded = @ \/ token = "upgrade"]]
    /\ UNCHANGED <<pool, waiting, fds, listen>>

PeerLeaves(w) ==
    /\ conn[w].net = "up" /\ conn[w].state # "dead"
    /\ \/ conn' = [conn EXCEPT ![w].net = "fin"]
       \/ conn' = [conn EXCEPT ![w] = [@ EXCEPT !.net = "rst", !.wire = <<>>]]
    /\ UNCHANGED <<pool, waiting, fds, listen, sent>>

Next ==
    \E w \in Conns :
        Accept(w) \/ Service(w) \/ HangUp(w) \/ TimeOut(w) \/ Ask(w) \/ PeerSends(w) \/ PeerLeaves(w)

\* The thread serves who has input or hung up, and time passes.  Nothing is
\* assumed of the peers, nor that a socket becomes writable, nor that what is
\* due to a connection happens in some order.
Fairness ==
    \A w \in Conns :
        WF_vars(Accept(w) \/ HangUp(w) \/ TimeOut(w) \/ (Readable(w) /\ Service(w)))

Spec == Init /\ [][Next]_vars /\ Fairness

-----------------------------------------------------------------------------
(* Properties *)

\* A header table has one owner, who knows it; who waits for one is served, has
\* none and is on the list once; and nobody waits while a table is free
\* (parsers.c:119, :238; the assertions there).
HeaderTables ==
    /\ \A w \in Conns, t \in Tables : conn[w].ah = t <=> pool[t].wsi = w
    /\ \A t \in Tables : pool[t].wsi = NoConn => pool[t].rx = <<>> /\ waiting = <<>>
    /\ IsInjective(waiting)
    /\ \A i \in DOMAIN waiting : Served(waiting[i]) /\ conn[waiting[i]].ah = NoTable

\* The entries of the pollfd table and the positions the connections remember
\* agree, and accepts are off just when the table is full (pollfd.c:172, :261).
FdsConsistent ==
    /\ \A w \in Conns : Served(w) <=> conn[w].pos # 0
    /\ \A i \in DOMAIN fds : conn[fds[i]].pos = i
    /\ Len(fds) <= Slots /\ (listen <=> Len(fds) < Slots)

\* The protocol is told of an end exactly once for each connection it was told
\* is established, by the time the connection is freed, whatever stages the
\* close went through (libwebsockets.c:214, :440).
CallbacksPaired ==
    \A w \in Conns : conn[w].closed <= 1 /\
        (conn[w].mode = "ws" => conn[w].est = 1 /\ (conn[w].closed = 1 <=> conn[w].state = "dead"))

\* A connection whose peer is gone, or that is being closed, is freed in the
\* end, whatever the others do, but for one: when the answer to a close could
\* only be sent in part, the state is set to flushing without the timeout of
\* the flush (service.c:848), and the connection stays until the peer reads.
\* Nobody waits for a header table for ever (libwebsockets.c:118, service.c:690).
Closing(w) == conn[w].state \in {"flushing", "shutdown"} \/ conn[w].net # "up"
Untimed(w) == conn[w].state = "flushing" /\ conn[w].timer = "none"
Waits(w) == Contains(waiting, w)
EndsInTime ==
    \A w \in Conns :
        /\ (Served(w) /\ Closing(w)) ~> (conn[w].state = "dead" \/ Untimed(w))
        /\ Waits(w) ~> ~Waits(w)
=============================================================================
