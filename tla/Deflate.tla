------------------------------- MODULE Deflate -------------------------------
(***************************************************************************)
(* Messages that are sent compressed: lws_write (output.c) cuts what       *)
(* permessage-deflate (extension-permessage-deflate.c) makes of the user's *)
(* fragments into frames, and the parser of the peer gives the frames to   *)
(* the same extension, which inflates them.  Either side may have more     *)
(* than fits its buffer, and is then drained: a turn of its own, before    *)
(* anything else is written or read.                                       *)
(*                                                                         *)
(* zlib is external.  deflate() with a sync flush turns Ratio units of     *)
(* input into one token, marks the last, and adds a trailer of four        *)
(* tokens (00 00 FF FF), which the sender strips from the end of a message *)
(* and the receiver puts back.  As zlib.h warns, a flush that filled the   *)
(* output is repeated by the next call; one that did not is not.  Room in  *)
(* the buffers is counted in tokens and units.  A socket takes what is     *)
(* written to it: partial sends are the matter of WebSocketServer.         *)
(***************************************************************************)
EXTENDS Naturals, Sequences, SequencesExt, FiniteSets

CONSTANTS
    Ratio,      \* units a token stands for
    TxRoom,     \* 1 << args[PMD_TX_BUF_PWR2]: more than 6, as zlib.h asks
    RxRoom,     \* 1 << args[PMD_RX_BUF_PWR2]
    Scripts,    \* what is sent: [receiver, rxBuffer, fresh, messages]
    MaxPings    \* bound: pings that come due

VARIABLES
    script,     \* the peer, the rx_buffer_size of its protocol, if a message
                \* ends its stream (NO_CONTEXT_TAKEOVER), and the messages, each
                \* the sizes of its fragments
    next,       \* the message and the fragment the user writes next
    tx,         \* the sender's extension and its state in u.ws
    wire,       \* frames sent and not yet received
    rx,         \* the receiver's parser, and its extension
    delivered,  \* what the receiving user was called with
    pings,      \* pings that came due
    checkPing   \* send_check_ping

vars == <<script, next, tx, wire, rx, delivered, pings, checkPing>>

-----------------------------------------------------------------------------
(* zlib *)

\* A token: the units it stands for and its mark, 0 for data, 5 for data that
\* a flush ended, 1 to 4 for the bytes of the trailer.
Token(units, mark) == [units |-> units, mark |-> mark]
Trailer == [i \in 1..4 |-> Token(<<>>, i)]
Least(a, b) == IF a < b THEN a ELSE b
First(s, n) == SubSeq(s, 1, Least(n, Len(s)))
After(s, n) == SubSeq(s, n + 1, Len(s))

Compressed(in) ==
    LET n == (Len(in) + Ratio - 1) \div Ratio
    IN  IF in = <<>> THEN <<Token(<<>>, 5)>>
        ELSE [i \in 1..n |-> Token(SubSeq(in, (i - 1) * Ratio + 1, Least(i * Ratio, Len(in))),
                                   IF i = n THEN 5 ELSE 0)]

NewZ == [pending |-> <<>>, flushed |-> FALSE]

\* deflate(Z_SYNC_FLUSH) into TxRoom: the output and the stream after it
DeflateZ(z, in) ==
    LET all == IF z.pending # <<>> /\ Len(z.pending) >= TxRoom THEN z.pending
               ELSE IF in = <<>> /\ z.pending = <<>> /\ z.flushed THEN <<>>
               ELSE z.pending \o Compressed(in) \o Trailer
    IN  [out |-> First(all, TxRoom),
         z |-> [pending |-> After(all, TxRoom), flushed |-> Len(all) < TxRoom]]

\* What inflate expects: 0 the data of a block, 1 to 4 the trailer, 5 a block
\* that a trailer out of place has begun, 6 nothing: Z_DATA_ERROR.
Expects(e, t) ==
    CASE e = 0 /\ t.mark = 0 -> 0
      [] e = 0 /\ t.mark = 5 -> 1
      [] e = 0 /\ t.mark = 1 -> 5
      [] e \in 1..4 /\ t.mark = e -> (e + 1) % 5
      [] e = 5 /\ t.mark \in 1..4 -> 5
      [] OTHER -> 6

\* inflate() of i.in into room units: a token is read while the output of those
\* before fits, and what does not fit stays in the window.
InflateZ(i, room) ==
    LET units(n) == i.window \o FlattenSeq([k \in 1..n |-> i.in[k].units])
        used == Cardinality({n \in 0..Len(i.in) - 1 : Len(units(n)) <= room})
    IN  [out |-> First(units(used), room), room |-> room - Least(room, Len(units(used))),
         i |-> [window |-> After(units(used), room), in |-> After(i.in, used),
                expects |-> FoldLeft(Expects, i.expects, SubSeq(i.in, 1, used))]]

NewI == [window |-> <<>>, in |-> <<>>, expects |-> 0]

-----------------------------------------------------------------------------
(* The sender *)

NewRx == [i |-> NewI, held |-> <<>>, draining |-> FALSE, final |-> FALSE,
          left |-> <<>>, pings |-> 0, inStep |-> TRUE]

Init ==
    /\ script \in Scripts /\ next = <<1, 1>>
    /\ tx = [z |-> NewZ, held |-> <<>>, draining |-> FALSE, stashedNoFin |-> FALSE,
             stashedType |-> "none"]
    /\ wire = <<>> /\ rx = NewRx /\ delivered = <<>> /\ pings = 0 /\ checkPing = FALSE

StripWhileMore(in, noFin) ==        \* though what ends the output is no trailer
    LET d == DeflateZ(tx.z, in)
        token == tx.held \o d.out
        extra == IF noFin THEN 1 ELSE 0
        n == IF Len(token) >= 4 + extra THEN Len(token) - 4 - extra ELSE Len(token)
    IN  [out |-> First(token, n), more |-> Len(d.out) = TxRoom, z |-> d.z,
         held |-> IF noFin THEN After(token, n) ELSE <<>>]

\* LWS_EXT_CB_PAYLOAD_TX.  The trailer is held back, with the byte before it
\* unless this ends the message.  What was held goes first: all of it, or only
\* the byte before the trailer if deflate made nothing to follow.
PayloadTx(in, noFin) ==
    LET d == DeflateZ(tx.z, in)
        more == Len(d.out) = TxRoom
        token == (IF d.out = <<>> THEN First(tx.held, 1) ELSE tx.held) \o d.out
        extra == IF noFin \/ more THEN 1 ELSE 0
        n == IF Len(token) >= 4 + extra THEN Len(token) - 4 - extra ELSE Len(token)
    IN  [out |-> First(token, n), more |-> more, z |-> d.z,
         held |-> IF extra = 1 THEN After(token, n) ELSE <<>>]

\* LWS_EXT_CB_PACKET_TX_PRESEND: RSV1 on the first frame of a message, which
\* tells that it is compressed.
Rsv(op) == op \in {"text", "binary"}

Frame(op, fin, data) == [op |-> op, fin |-> fin, rsv |-> Rsv(op), data |-> data]

\* lws_issue_raw_ext_access
Issue(frame) == wire' = Append(wire, frame)

\* lws_write of data.  A frame has no FIN while the extension has more, and the
\* opcode of the first fragment that the extension swallowed.
WriteData(type, noFin, in) ==
    \E p \in {PayloadTx(in, noFin)} :
    LET drain == p.more /\ p.out # <<>>
        eaten == in # <<>> /\ p.out = <<>>
        op    == IF p.out # <<>> /\ tx.stashedType # "none" THEN tx.stashedType ELSE type
        fin   == ~noFin /\ ~drain
    IN  /\ tx' = [z |-> IF fin /\ ~eaten /\ script.fresh THEN NewZ ELSE p.z,
                  held |-> p.held, draining |-> drain,
                  stashedNoFin |-> IF drain THEN noFin ELSE tx.stashedNoFin,
                  stashedType |-> CASE eaten /\ tx.stashedType = "none" -> type
                                    [] ~eaten /\ p.out # <<>> -> "none"
                                    [] OTHER -> tx.stashedType]
        /\ IF eaten THEN UNCHANGED wire ELSE Issue(Frame(op, fin, p.out))

WritePing == Issue(Frame("ping", TRUE, <<>>)) /\ UNCHANGED tx

\* A sender that is to be drained is drained by whatever is written.
LwsWrite(type, noFin, in) ==
    IF tx.draining THEN WriteData("cont", tx.stashedNoFin, in)
    ELSE IF type = "ping" THEN WritePing
    ELSE WriteData(type, noFin, in)

Receiver == <<rx, delivered>>

\* lws_service_timeout_check finds the connection idle.
PingComesDue ==
    /\ pings < MaxPings /\ ~checkPing
    /\ pings' = pings + 1 /\ checkPing' = TRUE
    /\ UNCHANGED <<script, next, tx, wire, Receiver>>

\* lws_handle_POLLOUT_event: a ping first, then the extension, then the user.
SendPing ==
    /\ checkPing /\ checkPing' = FALSE /\ LwsWrite("ping", FALSE, <<>>)
    /\ UNCHANGED <<script, next, Receiver, pings>>

Drain ==
    /\ ~checkPing /\ tx.draining /\ LwsWrite("cont", FALSE, <<>>)
    /\ UNCHANGED <<script, next, Receiver, pings, checkPing>>

Messages == script.messages
Before(m, f) == FoldLeft(LAMBDA a, b : a + b, 0, SubSeq(Messages[m], 1, f - 1))

Write ==
    LET m == next[1]
        f == next[2]
        noFin == f < Len(Messages[m])
    IN  /\ ~checkPing /\ ~tx.draining /\ m <= Len(Messages)
        /\ LwsWrite(IF f = 1 THEN "text" ELSE "cont", noFin,
                    [i \in 1..Messages[m][f] |-> <<m, Before(m, f) + i>>])
        /\ next' = IF noFin THEN <<m, f + 1>> ELSE <<m + 1, 1>>
        /\ UNCHANGED <<script, Receiver, pings, checkPing>>

-----------------------------------------------------------------------------
(* The receiver *)

\* LWS_EXT_CB_PAYLOAD_RX.  When a message has no more input, the trailer that
\* was stripped is appended: at once, or by a second call of inflate after what
\* the window still held.
Inflate(chunk, last) ==
    LET in    == IF chunk # <<>> THEN chunk ELSE rx.i.in
        early == in = <<>> /\ last
    IN  [over |-> early,
         z |-> InflateZ([rx.i EXCEPT !.in = IF early THEN Trailer ELSE in], RxRoom - Len(rx.held))]

InflateTrailer(one, last) ==
    IF ~one.over /\ one.z.i.in = <<>> /\ last /\ one.z.room > 0
    THEN [over |-> TRUE, z |-> InflateZ([one.z.i EXCEPT !.in = Trailer], one.z.room)]
    ELSE [one EXCEPT !.z.out = <<>>]

\* A buffer that is exactly full keeps its last unit, so that there is more.
PayloadRx(one, two) ==
    LET all  == rx.held \o one.z.out \o two.z.out
        full == two.z.room = 0
    IN  [out  |-> First(all, Len(all) - IF full THEN 1 ELSE 0),
         held |-> IF full THEN <<Last(all)>> ELSE <<>>,
         i    |-> IF two.over /\ script.fresh /\ two.z.i.expects # 6 THEN NewI ELSE two.z.i]

\* The payload goes through the extension to the user.  A drain that gives
\* nothing is not reported, and a server reports nothing that is empty.
\* lws_is_final_fragment: the last of the frame, of a final frame, and not to
\* be drained.
Pass(chunk, final, left, drain) ==
    LET last == final /\ left = <<>> IN
    \E one \in {Inflate(chunk, last)} : \E two \in {InflateTrailer(one, last)} :
    \E p \in {PayloadRx(one, two)} :
    LET more   == p.held # <<>> /\ p.out # <<>>
        silent == p.out = <<>> /\ (drain \/ script.receiver = "server")
    IN  /\ rx' = [rx EXCEPT !.i = p.i, !.held = p.held, !.draining = more, !.final = final,
                            !.left = left]
        /\ delivered' = IF silent \/ p.i.expects = 6 THEN delivered
                        ELSE Append(delivered, [data |-> p.out, final |-> last /\ ~more])

Sender == <<script, next, tx, pings, checkPing>>
Alive == rx.i.expects # 6 /\ rx.inStep  \* not dropped, nor out of step

MidFrame == script.receiver = "server" /\ rx.left # <<>>

\* lws_service_fd_tsi: the extension is drained before anything is read.
DrainRx ==
    /\ Alive /\ rx.draining /\ ~MidFrame /\ UNCHANGED <<Sender, wire>>
    /\ Pass(<<>>, rx.final, rx.left, TRUE)

\* The parser of a server looks for this only between frames.  In a frame it
\* takes the byte it is given, 0, for payload, until the frame is full of them:
\* inflate refuses them, or makes something of them, and what the frame really
\* held is then read as the next frame.  It is not followed any further.
DrainMidFrame ==
    /\ Alive /\ rx.draining /\ MidFrame /\ UNCHANGED <<Sender, wire>>
    /\ rx' = [rx EXCEPT !.inStep = FALSE]
    /\ \/ UNCHANGED delivered
       \/ delivered' = Append(delivered, [data |-> << <<"garbage">> >>, final |-> FALSE])

\* lws_rx_sm and lws_client_rx_sm spill a frame, or as much as fits rx_ubuf.
ReceivePing ==
    /\ Alive /\ ~rx.draining /\ rx.left = <<>> /\ wire # <<>> /\ Head(wire).op = "ping"
    /\ rx' = [rx EXCEPT !.pings = @ + 1, !.final = TRUE] /\ wire' = Tail(wire)
    /\ UNCHANGED <<Sender, delivered>>

ReceiveFrame ==
    /\ Alive /\ ~rx.draining /\ rx.left = <<>> /\ wire # <<>> /\ Head(wire).op # "ping"
    /\ LET f == Head(wire) IN
       Pass(First(f.data, script.rxBuffer), f.fin, After(f.data, script.rxBuffer), FALSE)
    /\ wire' = Tail(wire) /\ UNCHANGED Sender

ReceiveMore ==
    /\ Alive /\ ~rx.draining /\ rx.left # <<>> /\ UNCHANGED <<Sender, wire>>
    /\ Pass(First(rx.left, script.rxBuffer), rx.final, After(rx.left, script.rxBuffer), FALSE)

Next == PingComesDue \/ SendPing \/ Drain \/ Write \/ DrainRx \/ DrainMidFrame \/ ReceivePing
        \/ ReceiveFrame \/ ReceiveMore

Spec == Init /\ [][Next]_vars

-----------------------------------------------------------------------------
(* Properties *)

\* What is delivered, unit by unit, with the ends of the messages.
End == <<>>
Ended(d) == FlattenSeq([k \in DOMAIN d |->
    d[k].data \o (IF d[k].final THEN <<End>> ELSE <<>>)])

Sent == Ended([m \in DOMAIN Messages |->
    [data |-> [i \in 1..Before(m, Len(Messages[m]) + 1) |-> <<m, i>>], final |-> TRUE]])

\* A server does not report a last part that turns out to be empty, and with it
\* does not report the end.
Told(units) == IF script.receiver = "client" THEN units
               ELSE SelectSeq(units, LAMBDA u : u # End)

Done == /\ next[1] > Len(Messages) /\ ~tx.draining /\ ~checkPing
        /\ Alive => wire = <<>> /\ rx.left = <<>> /\ ~rx.draining

\* Whatever fits the buffers of the two sides, the user gets what was sent, in
\* order, and hears that a message is over with the last of it, once
\* (extension-permessage-deflate.c:398, libwebsockets.c:1071).  It is false of a
\* server whose rx_buffer_size is less than a frame, and whose inflate has more
\* than fits its buffer: it is drained within the frame (parsers.c:950).
RoundTripAnyBuffer ==
    /\ IsPrefix(Told(Ended(delivered)), Told(Sent))
    /\ Done => Told(Ended(delivered)) = Told(Sent)

\* As RoundTripAnyBuffer, unless a server was drained within a frame.
RoundTrip == rx.inStep => RoundTripAnyBuffer

\* A ping that came due is sent, also while the extension is drained: "since
\* they are always complete fragments control packets can interleave OK"
\* (service.c:166).
PingsArrive == Done /\ Alive => rx.pings = pings
=============================================================================
