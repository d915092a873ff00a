--------------------------- MODULE HttpClientProofs ---------------------------
(***************************************************************************)
(* Two proofs about a client connection, for any calls and any buffer.     *)
(*                                                                         *)
(* Its callbacks tell one story: however the network fails, the functions  *)
(* that close a connection find it in a state in which what they tell its  *)
(* user was not told before.                                               *)
(*                                                                         *)
(* Its user gets the body: wherever the reads cut it, what chunk_parser    *)
(* and content_remain say is what the bytes read so far call for.  The     *)
(* lemmas about sequences are those of WsReceiveProofs, which takes a      *)
(* stream of frames apart in the same way.                                 *)
(***************************************************************************)
EXTENDS HttpClient, WsReceiveProofs, FiniteSetTheorems, SequenceTheorems, TLAPS

-----------------------------------------------------------------------------
(* What the user of a connection has heard *)

ClientCallbacks == {"CREATE", "ERROR", "ESTABLISHED", "ESTABLISHED_HTTP", "COMPLETED", "CLOSED",
              "CLOSED_HTTP", "DESTROY"}

AllHeard(s) == {s.heard[i] : i \in DOMAIN s.heard}

\* A redirect creates a socket again; all else is heard once, in order.
Tidy(h) ==
    /\ h \in Seq(ClientCallbacks)
    /\ \A i, j \in DOMAIN h : h[i] = h[j] /\ h[i] # "CREATE" => i = j
    /\ \A j \in DOMAIN h : h[j] = "CLOSED" => \E i \in 1..j - 1 : h[i] = "ESTABLISHED"
    /\ \A j \in DOMAIN h : h[j] = "COMPLETED" => \E i \in 1..j - 1 : h[i] = "ESTABLISHED_HTTP"
    /\ \A j \in DOMAIN h : h[j] = "DESTROY" => j = Len(h)

\* What may be told after what was told.
Fits(told, c) ==
    /\ c \in ClientCallbacks /\ "DESTROY" \notin told
    /\ c # "CREATE" => c \notin told
    /\ c = "CLOSED" => "ESTABLISHED" \in told
    /\ c = "COMPLETED" => "ESTABLISHED_HTTP" \in told

Fields == {"mode", "state", "pre", "socket", "usable", "timeout", "pollIn", "avail", "freed",
           "didCce", "keepAlive", "parser", "chunkRemaining", "contentLength",
           "contentRemain", "heard"}

Form(s) ==
    /\ DOMAIN s = Fields /\ s = [f \in Fields |-> s[f]]
    /\ s.usable \in BOOLEAN /\ s.freed \in BOOLEAN /\ s.didCce \in BOOLEAN
    /\ Tidy(s.heard)

-----------------------------------------------------------------------------
(* The stages of a connection *)

\* Before its reply
Early == {"client", "waitConnect", "waitProxy", "handshake", "handshake2", "issueBody",
          "waitReply"}

Connecting(s, more) ==
    /\ s.state = "unconnected" /\ s.mode \in Early /\ s.pre = "http"
    /\ AllHeard(s) \subseteq {"CREATE"} \cup more
    /\ s.contentLength = 0 /\ s.parser = "none"

Served(s, more) ==
    /\ s.state = "httpEstablished" /\ s.mode = "http" /\ s.pre = "http"
    /\ AllHeard(s) \subseteq {"CREATE", "ESTABLISHED_HTTP", "COMPLETED"} \cup more

\* A body is read once its user has heard of the reply, and is complete once.
Reading(s) ==
    /\ "COMPLETED" \in AllHeard(s) => s.parser = "completed"
    /\ s.contentLength # 0 \/ s.parser # "none" \/ "COMPLETED" \in AllHeard(s)
         => "ESTABLISHED_HTTP" \in AllHeard(s)

Upgraded(s, more) ==
    /\ s.state = "established" /\ s.mode = "ws" /\ s.pre = "http"
    /\ "ESTABLISHED" \in AllHeard(s) /\ AllHeard(s) \subseteq {"CREATE", "ESTABLISHED"} \cup more

\* Shut down, and not yet closed by the peer
Leaves(s) ==
    \/ /\ s.mode = "http" /\ s.pre = "httpEstablished"
       /\ AllHeard(s) \subseteq {"CREATE", "ESTABLISHED_HTTP", "COMPLETED", "ERROR", "CLOSED_HTTP"}
    \/ /\ s.mode = "ws" /\ s.pre = "established"
       /\ "ESTABLISHED" \in AllHeard(s) /\ AllHeard(s) \subseteq {"CREATE", "ESTABLISHED", "ERROR"}
Leaving(s) == s.state = "shutdown" /\ Leaves(s)

\* Its user does not know of an error.
Sane(s) == ~s.didCce /\ (Connecting(s, {}) \/ Served(s, {}) \/ Upgraded(s, {}))

Alive(s) ==
    /\ s.usable
    /\ \/ Sane(s) /\ (Served(s, {}) => Reading(s))
       \/ Leaving(s)

\* Nothing of the story is missing at the end.
Over(s) ==
    /\ "ESTABLISHED" \in AllHeard(s) => "CLOSED" \in AllHeard(s)
    /\ ~("ESTABLISHED" \in AllHeard(s) /\ "CLOSED_HTTP" \in AllHeard(s))

Story(s) == Form(s) /\ IF s.freed THEN Over(s) ELSE Alive(s)

\* In any of them a connection may be closed, also when its user knows of an error.
Closable(s) ==
    /\ ~s.freed /\ ("ERROR" \in AllHeard(s) /\ s.state # "shutdown" => s.didCce)
    /\ \/ Connecting(s, {"ERROR"}) \/ Served(s, {"ERROR"}) \/ Upgraded(s, {"ERROR"})
       \/ Leaving(s)

-----------------------------------------------------------------------------
(* Telling *)

\* What fits is told in order.
LEMMA TellOne ==
    ASSUME NEW h, Tidy(h), NEW c, Fits({h[i] : i \in DOMAIN h}, c)
    PROVE  /\ Tidy(Append(h, c))
           /\ {Append(h, c)[i] : i \in DOMAIN Append(h, c)} = {h[i] : i \in DOMAIN h} \cup {c}
<1> DEFINE a == Append(h, c)
<1>1. /\ h \in Seq(ClientCallbacks) /\ Len(h) \in Nat /\ DOMAIN h = 1..Len(h)
      /\ c \in ClientCallbacks
  BY DEF Tidy, Fits
<1>2. /\ a \in Seq(ClientCallbacks) /\ Len(a) = Len(h) + 1 /\ DOMAIN a = 1..(Len(h) + 1)
      /\ a[Len(h) + 1] = c /\ \A i \in DOMAIN h : a[i] = h[i]
  BY <1>1
<1>3. \A i \in DOMAIN a : i \in DOMAIN h \/ i = Len(h) + 1
  BY <1>1, <1>2
<1>4. \A i \in DOMAIN h : h[i] # "DESTROY" /\ (c # "CREATE" => h[i] # c)
  BY DEF Fits
<1>5. c = "CLOSED" => \E i \in DOMAIN h : h[i] = "ESTABLISHED"
  BY DEF Fits
<1>6. c = "COMPLETED" => \E i \in DOMAIN h : h[i] = "ESTABLISHED_HTTP"
  BY DEF Fits
<1>7. \A i \in DOMAIN h : i \in 1..(Len(h) + 1) - 1 /\ i # Len(h) + 1
  BY <1>1
<1>8. \A j \in DOMAIN h : \A i \in 1..j - 1 : i \in DOMAIN h
  BY <1>1
<1> HIDE DEF a
<1>9. \A i, j \in DOMAIN a : a[i] = a[j] /\ a[i] # "CREATE" => i = j
  BY <1>2, <1>3, <1>4, <1>7 DEF Tidy
<1>10. \A j \in DOMAIN a : a[j] = "CLOSED" => \E i \in 1..j - 1 : a[i] = "ESTABLISHED"
  <2> SUFFICES ASSUME NEW j \in DOMAIN a, a[j] = "CLOSED"
               PROVE  \E i \in 1..j - 1 : a[i] = "ESTABLISHED"
    OBVIOUS
  <2>1. CASE j \in DOMAIN h
    <3>1. PICK i \in 1..j - 1 : h[i] = "ESTABLISHED"
      BY <1>2, <2>1 DEF Tidy
    <3> QED BY <1>2, <1>8, <2>1, <3>1
  <2>2. CASE j = Len(h) + 1
    BY <1>2, <1>5, <1>7, <2>2
  <2> QED BY <1>3, <2>1, <2>2
<1>11. \A j \in DOMAIN a : a[j] = "COMPLETED" => \E i \in 1..j - 1 : a[i] = "ESTABLISHED_HTTP"
  <2> SUFFICES ASSUME NEW j \in DOMAIN a, a[j] = "COMPLETED"
               PROVE  \E i \in 1..j - 1 : a[i] = "ESTABLISHED_HTTP"
    OBVIOUS
  <2>1. CASE j \in DOMAIN h
    <3>1. PICK i \in 1..j - 1 : h[i] = "ESTABLISHED_HTTP"
      BY <1>2, <2>1 DEF Tidy
    <3> QED BY <1>2, <1>8, <2>1, <3>1
  <2>2. CASE j = Len(h) + 1
    BY <1>2, <1>6, <1>7, <2>2
  <2> QED BY <1>3, <2>1, <2>2
<1>12. \A j \in DOMAIN a : a[j] = "DESTROY" => j = Len(a)
  BY <1>2, <1>3, <1>4
<1>13. Tidy(a)
  BY <1>2, <1>9, <1>10, <1>11, <1>12 DEF Tidy
<1>14. {a[i] : i \in DOMAIN a} = {h[i] : i \in DOMAIN h} \cup {c}
  <2>1. Len(h) + 1 \in DOMAIN a /\ \A i \in DOMAIN h : i \in DOMAIN a
    BY <1>1, <1>2
  <2> QED BY <1>2, <1>3, <2>1
<1> QED BY <1>13, <1>14 DEF a

\* A callback changes nothing else.
LEMMA HearIs ==
    ASSUME NEW s, Form(s), NEW c, Fits(AllHeard(s), c)
    PROVE  /\ Form(Hear(s, c)) /\ AllHeard(Hear(s, c)) = AllHeard(s) \cup {c}
           /\ \A f \in Fields \ {"heard"} : Hear(s, c)[f] = s[f]
<1> DEFINE t == Hear(s, c)
<1>1. /\ t = [f \in Fields |-> IF f = "heard" THEN Append(s.heard, c) ELSE s[f]]
  BY DEF Hear, Form, Fields
<1>2. /\ DOMAIN t = Fields /\ t.heard = Append(s.heard, c)
      /\ \A f \in Fields \ {"heard"} : t[f] = s[f]
  BY <1>1 DEF Fields
<1>3. t = [f \in Fields |-> t[f]]
  BY <1>1
<1> HIDE DEF t
<1>4. Tidy(t.heard) /\ AllHeard(t) = AllHeard(s) \cup {c}
  <2>1. Tidy(s.heard) /\ Fits({s.heard[i] : i \in DOMAIN s.heard}, c)
    BY DEF Form, AllHeard
  <2>2. /\ Tidy(Append(s.heard, c))
        /\ {Append(s.heard, c)[i] : i \in DOMAIN Append(s.heard, c)}
             = {s.heard[i] : i \in DOMAIN s.heard} \cup {c}
    BY <2>1, TellOne
  <2> QED BY <1>2, <2>2 DEF AllHeard
<1>5. t.usable = s.usable /\ t.freed = s.freed /\ t.didCce = s.didCce
  BY <1>2 DEF Fields
<1> QED BY <1>2, <1>3, <1>4, <1>5 DEF Form, t

\* A change that nobody hears of.
LEMMA Unheard ==
    ASSUME NEW s, Form(s), NEW t, DOMAIN t = Fields, t = [f \in Fields |-> t[f]],
           t.heard = s.heard, t.usable \in BOOLEAN, t.freed \in BOOLEAN, t.didCce \in BOOLEAN
    PROVE  Form(t) /\ AllHeard(t) = AllHeard(s)
BY DEF Form, AllHeard

-----------------------------------------------------------------------------
(* The end of a connection *)

\* Who may be killed: a WebSocket whose user has not heard of its end, or what
\* is none and whose user knows of an error if lws_close_free_wsi is told so.
Doomed(s) ==
    /\ "CLOSED" \notin AllHeard(s) /\ "DESTROY" \notin AllHeard(s)
    /\ IF s.mode = "ws"
       THEN /\ s.pre \in {"established", "http"}
            /\ "ESTABLISHED" \in AllHeard(s) /\ "CLOSED_HTTP" \notin AllHeard(s)
       ELSE /\ s.pre # "established" /\ "ESTABLISHED" \notin AllHeard(s)
            /\ "ERROR" \in AllHeard(s) /\ s.mode \in {"waitReply", "waitConnect"} => s.didCce

LEMMA LastWordsSound ==
    ASSUME NEW s, Form(s), Doomed(s)
    PROVE  LET d == LastWords(s) IN
           /\ Form(d) /\ Over(d) /\ "DESTROY" \notin AllHeard(d)
           /\ \A f \in Fields \ {"heard"} : d[f] = s[f]
<1>1. CASE s.mode = "ws"
  <2>1. Fits(AllHeard(s), "CLOSED") /\ LastWords(s) = Hear(s, "CLOSED")
    BY <1>1 DEF Doomed, Fits, LastWords, ClientCallbacks
  <2> QED BY <1>1, <2>1, HearIs DEF Doomed, Over
<1>2. CASE s.mode \in {"waitReply", "waitConnect"} /\ ~s.didCce
  <2>1. Fits(AllHeard(s), "ERROR") /\ LastWords(s) = Hear(s, "ERROR")
    BY <1>2 DEF Doomed, Fits, LastWords, ClientCallbacks
  <2> QED BY <1>2, <2>1, HearIs DEF Doomed, Over
<1>3. CASE s.mode # "ws" /\ ~(s.mode \in {"waitReply", "waitConnect"} /\ ~s.didCce)
  <2>1. LastWords(s) = s
    BY <1>3 DEF Doomed, LastWords
  <2> QED BY <1>3, <2>1 DEF Doomed, Over
<1> QED BY <1>1, <1>2, <1>3

LEMMA JustKillSound ==
    ASSUME NEW s, Form(s), Doomed(s), ~s.freed,
           s.state \notin {"shutdown", "unconnected"} /\ s.usable => Leaves(s)
    PROVE  Story(JustKill(s)) /\ (s.state = "unconnected" => JustKill(s).freed)
<1>1. CASE s.state \notin {"shutdown", "unconnected"} /\ s.usable
  <2> DEFINE t == [s EXCEPT !.state = "shutdown", !.pollIn = TRUE, !.timeout = TRUE]
  <2>1. JustKill(s) = t
    BY <1>1 DEF JustKill
  <2>2. /\ DOMAIN t = Fields /\ t = [f \in Fields |-> t[f]] /\ t.heard = s.heard
        /\ t.usable = s.usable /\ t.freed = s.freed /\ t.didCce = s.didCce
        /\ t.state = "shutdown" /\ t.mode = s.mode /\ t.pre = s.pre
    BY DEF Form, Fields
  <2> HIDE DEF t
  <2>3. Form(t) /\ AllHeard(t) = AllHeard(s)
    BY <2>2, Unheard DEF Form
  <2> QED BY <1>1, <2>1, <2>2, <2>3 DEF Story, Alive, Leaving, Leaves
<1>2. CASE ~(s.state \notin {"shutdown", "unconnected"} /\ s.usable)
  <2> DEFINE d == LastWords(s)
             e == Hear(d, "DESTROY")
             t == [e EXCEPT !.state = "dead", !.socket = FALSE, !.freed = TRUE,
                            !.timeout = FALSE]
  <2>1. JustKill(s) = t
    BY <1>2 DEF JustKill
  <2>2. /\ Form(d) /\ Over(d) /\ "DESTROY" \notin AllHeard(d)
        /\ \A f \in Fields \ {"heard"} : d[f] = s[f]
    BY LastWordsSound
  <2> HIDE DEF d
  <2>3. Form(e) /\ AllHeard(e) = AllHeard(d) \cup {"DESTROY"}
    <3>1. Fits(AllHeard(d), "DESTROY")
      BY <2>2 DEF Fits, ClientCallbacks
    <3> QED BY <2>2, <3>1, HearIs
  <2> HIDE DEF e
  <2>4. /\ DOMAIN t = Fields /\ t = [f \in Fields |-> t[f]] /\ t.heard = e.heard
        /\ t.usable = e.usable /\ t.freed = TRUE /\ t.didCce = e.didCce
    BY <2>3 DEF Form, Fields
  <2> HIDE DEF t
  <2>5. Form(t) /\ AllHeard(t) = AllHeard(e)
    BY <2>3, <2>4, Unheard DEF Form
  <2> QED BY <2>1, <2>2, <2>3, <2>4, <2>5 DEF Story, Over
<1> QED BY <1>1, <1>2

\* lws_close_free_wsi
LEMMA CloseSound ==
    ASSUME NEW s, Form(s), Closable(s)
    PROVE  Story(Close(s)) /\ (s.state = "unconnected" => Close(s).freed)
<1>1. CASE ~s.usable \/ s.state = "shutdown"
  <2>1. Close(s) = JustKill(s)
    BY <1>1 DEF Close
  <2>2. Doomed(s)
    BY DEF Closable, Doomed, Connecting, Early, Served, Upgraded, Leaving, Leaves
  <2> QED BY <1>1, <2>1, <2>2, JustKillSound DEF Closable
<1>2. CASE s.usable /\ s.state # "shutdown"
  <2> DEFINE p == [s EXCEPT !.pre = s.state]
  <2>1. Close(s) = IF p.mode \in {"waitConnect", "ws"} THEN JustKill(p)
                   ELSE JustKill(Hear(p, "CLOSED_HTTP"))
    BY <1>2 DEF Close, Form, Fields
  <2>2. /\ DOMAIN p = Fields /\ p = [f \in Fields |-> p[f]] /\ p.heard = s.heard
        /\ p.usable = s.usable /\ p.freed = s.freed /\ p.didCce = s.didCce
        /\ p.state = s.state /\ p.mode = s.mode /\ p.pre = s.state
    BY DEF Form, Fields
  <2> HIDE DEF p
  <2>3. Form(p) /\ AllHeard(p) = AllHeard(s)
    BY <2>2, Unheard DEF Form
  <2>4. CASE s.mode \in {"waitConnect", "ws"}
    <3>1. Doomed(p) /\ ~p.freed /\ (p.state # "unconnected" => Leaves(p))
      BY <1>2, <2>2, <2>3, <2>4 DEF Closable, Doomed, Connecting, Early, Served, Upgraded,
         Leaving, Leaves
    <3> QED BY <2>1, <2>2, <2>3, <2>4, <3>1, JustKillSound
  <2>5. CASE s.mode \notin {"waitConnect", "ws"}
    <3> DEFINE h == Hear(p, "CLOSED_HTTP")
    <3>1. Fits(AllHeard(p), "CLOSED_HTTP")
      BY <1>2, <2>3, <2>5 DEF Closable, Fits, ClientCallbacks, Connecting, Served, Upgraded, Leaving
    <3>2. /\ Form(h) /\ AllHeard(h) = AllHeard(p) \cup {"CLOSED_HTTP"}
          /\ \A f \in Fields \ {"heard"} : h[f] = p[f]
      BY <2>3, <3>1, HearIs
    <3> HIDE DEF h
    <3>3. /\ h.mode = s.mode /\ h.pre = s.state /\ h.state = s.state
          /\ h.didCce = s.didCce /\ h.freed = s.freed
      BY <2>2, <3>2 DEF Fields
    <3>4. Doomed(h) /\ ~h.freed /\ (h.state # "unconnected" => Leaves(h))
      BY <1>2, <2>3, <2>5, <3>2, <3>3
         DEF Closable, Doomed, Connecting, Served, Upgraded, Leaving, Leaves
    <3>5. Close(s) = JustKill(h)
      BY <2>1, <2>2, <2>5 DEF h
    <3> QED BY <3>2, <3>3, <3>4, <3>5, JustKillSound
  <2> QED BY <2>4, <2>5
<1> QED BY <1>1, <1>2 DEF Form

\* bail2 and bail3
LEMMA BailSound ==
    ASSUME NEW s, Form(s), ~s.freed, Sane(s)
    PROVE  Story(Bail(s))
<1> DEFINE h == Hear(s, "ERROR")
           t == [h EXCEPT !.didCce = TRUE]
<1>1. Fits(AllHeard(s), "ERROR")
  BY DEF Sane, Fits, ClientCallbacks, Connecting, Served, Upgraded
<1>2. /\ Form(h) /\ AllHeard(h) = AllHeard(s) \cup {"ERROR"}
      /\ \A f \in Fields \ {"heard"} : h[f] = s[f]
  BY <1>1, HearIs
<1> HIDE DEF h
<1>3. /\ DOMAIN t = Fields /\ t = [f \in Fields |-> t[f]] /\ t.heard = h.heard
      /\ t.usable = s.usable /\ t.freed = s.freed /\ t.didCce = TRUE
      /\ t.state = s.state /\ t.mode = s.mode /\ t.pre = s.pre /\ t.parser = s.parser
      /\ t.contentLength = s.contentLength
  BY <1>2 DEF Form, Fields
<1>4. Bail(s) = Close(t)
  BY DEF Bail, h
<1> HIDE DEF t
<1>5. Form(t) /\ AllHeard(t) = AllHeard(s) \cup {"ERROR"}
  BY <1>2, <1>3, Unheard DEF Form
<1>6. Closable(t)
  BY <1>3, <1>5 DEF Closable, Sane, Connecting, Served, Upgraded
<1> QED BY <1>4, <1>5, <1>6, CloseSound

\* Whoever is alive may be closed.
LEMMA CloseAlive ==
    ASSUME NEW s, Form(s), ~s.freed, Alive(s)
    PROVE  Story(Close(s))
<1>1. Closable(s)
  BY DEF Closable, Alive, Sane, Connecting, Served, Upgraded, Leaving
<1> QED BY <1>1, CloseSound

-----------------------------------------------------------------------------
(* Connecting *)

\* A connection that has not been replied to
Young(s) == Form(s) /\ ~s.freed /\ s.usable /\ ~s.didCce /\ Connecting(s, {})

LEMMA YoungIs ==
    ASSUME NEW s, Young(s)
    PROVE  Story(s) /\ Story(Bail(s))
<1>1. Form(s) /\ ~s.freed /\ Sane(s) /\ Alive(s)
  BY DEF Young, Sane, Alive, Connecting, Served
<1> QED BY <1>1, BailSound DEF Story

\* It goes on connecting.
LEMMA GoesOn ==
    ASSUME NEW s, Young(s), NEW m \in Early, NEW timer, NEW t,
           t = [s EXCEPT !.mode = m, !.timeout = timer]
    PROVE  Young(t)
<1>1. /\ DOMAIN t = Fields /\ t = [f \in Fields |-> t[f]] /\ t.heard = s.heard
      /\ t.usable = s.usable /\ t.freed = s.freed /\ t.didCce = s.didCce
      /\ t.state = s.state /\ t.mode = m /\ t.pre = s.pre /\ t.parser = s.parser
      /\ t.contentLength = s.contentLength
  BY DEF Young, Form, Fields
<1>2. Form(t) /\ AllHeard(t) = AllHeard(s)
  BY <1>1, Unheard DEF Young, Form
<1> QED BY <1>1, <1>2 DEF Young, Connecting

\* Either it goes on connecting, or its story is over.
YoungOrOver(s) == Young(s) \/ (s.freed /\ Story(s))

LEMMA ClosesYoung ==
    ASSUME NEW s, Young(s) PROVE YoungOrOver(Close(s))
<1>1. Closable(s) /\ s.state = "unconnected"
  BY DEF Young, Closable, Connecting
<1> QED BY <1>1, CloseSound DEF Young, YoungOrOver

LEMMA IssueHandshakeSound ==
    ASSUME NEW s, Young(s), NEW sent
    PROVE  YoungOrOver(IssueHandshake(s, sent))
<1> DEFINE h == [s EXCEPT !.mode = "handshake2", !.timeout = TRUE]
<1>1. Young(h)
  BY GoesOn DEF Early
<1>2. CASE ~sent
  BY <1>1, <1>2, ClosesYoung DEF IssueHandshake
<1>3. CASE sent
  <2> DEFINE m == IF call.posts THEN "issueBody" ELSE "waitReply"
             t == [h EXCEPT !.mode = m]
  <2>1. m \in Early
    BY DEF Early
  <2>2. IssueHandshake(s, sent) = t
    BY <1>3 DEF IssueHandshake
  <2> HIDE DEF h, m
  <2>3. t = [h EXCEPT !.mode = m, !.timeout = h.timeout]
    BY <1>1 DEF Young, Form, Fields
  <2> HIDE DEF t
  <2>4. Young(t)
    BY <1>1, <2>1, <2>3, GoesOn
  <2> QED BY <2>2, <2>4 DEF YoungOrOver
<1> QED BY <1>2, <1>3

LEMMA ConnectedSound ==
    ASSUME NEW s, Young(s) PROVE YoungOrOver(Connected(s))
<1>1. CASE call.proxy
  <2>1. Young([s EXCEPT !.mode = "waitProxy", !.timeout = TRUE])
    BY GoesOn DEF Early
  <2> QED BY <1>1, <2>1 DEF Connected, YoungOrOver
<1>2. CASE ~call.proxy
  <2>1. Young([s EXCEPT !.mode = "handshake", !.timeout = TRUE])
    BY GoesOn DEF Early
  <2> QED BY <1>2, <2>1, IssueHandshakeSound DEF Connected
<1> QED BY <1>1, <1>2

LEMMA ConnectSocketSound ==
    ASSUME NEW s, Young(s), NEW net PROVE YoungOrOver(ConnectSocket(s, net))
<1>1. CASE net = "underWay"
  BY <1>1 DEF ConnectSocket, YoungOrOver
<1>2. CASE net = "up"
  BY <1>2, ConnectedSound DEF ConnectSocket
<1>3. CASE net = "upNoSend" /\ ~call.proxy
  <2>1. Young([s EXCEPT !.mode = "handshake", !.timeout = TRUE])
    BY GoesOn DEF Early
  <2>2. ConnectSocket(s, net)
          = IssueHandshake([s EXCEPT !.mode = "handshake", !.timeout = TRUE], FALSE)
    BY <1>3 DEF ConnectSocket
  <2> QED BY <2>1, <2>2, IssueHandshakeSound
<1>4. CASE net # "underWay" /\ net # "up" /\ ~(net = "upNoSend" /\ ~call.proxy)
  <2>1. ConnectSocket(s, net) = Close(s)
    BY <1>4 DEF ConnectSocket
  <2> QED BY <2>1, ClosesYoung
<1> QED BY <1>1, <1>2, <1>3, <1>4

\* A connection without a socket, also one that is redirected, which then may
\* have the mode of an HTTP connection.
Socketless(s) ==
    /\ Form(s) /\ ~s.freed /\ s.usable /\ ~s.didCce /\ ~s.socket
    /\ s.state = "unconnected" /\ s.pre = "http" /\ AllHeard(s) \subseteq {"CREATE"}
    /\ s.contentLength = 0 /\ s.parser = "none"

LEMMA Connect2Sound ==
    ASSUME NEW s, NEW net, Socketless(s) \/ Young(s)
    PROVE  YoungOrOver(Connect2(s, net))
<1>0. ~s.socket /\ Young(s) => Socketless(s)
  BY DEF Young, Connecting, Socketless
<1>1. CASE Young(s) /\ s.socket
  <2>1. CannotConnect(s) = Close(s) /\ OpenSocket(s) = s
    BY <1>1 DEF CannotConnect, OpenSocket
  <2> QED BY <1>1, <2>1, ClosesYoung, ConnectSocketSound DEF Connect2
<1>2. CASE Socketless(s) /\ net # "noAddress"
  <2> DEFINE t == [s EXCEPT !.socket = TRUE, !.mode = "waitConnect", !.timeout = TRUE]
             h == Hear(t, "CREATE")
  <2>1. /\ DOMAIN t = Fields /\ t = [f \in Fields |-> t[f]] /\ t.heard = s.heard
        /\ t.usable = s.usable /\ t.freed = s.freed /\ t.didCce = s.didCce
        /\ t.state = s.state /\ t.mode = "waitConnect" /\ t.pre = s.pre
        /\ t.parser = s.parser /\ t.contentLength = s.contentLength
    BY <1>2 DEF Socketless, Form, Fields
  <2>2. OpenSocket(s) = h
    BY <1>2 DEF Socketless, OpenSocket
  <2> HIDE DEF t
  <2>3. Form(t) /\ AllHeard(t) = AllHeard(s)
    BY <1>2, <2>1, Unheard DEF Socketless, Form
  <2>4. Fits(AllHeard(t), "CREATE")
    BY <1>2, <2>3 DEF Socketless, Fits, ClientCallbacks
  <2>5. /\ Form(h) /\ AllHeard(h) = AllHeard(t) \cup {"CREATE"}
        /\ \A f \in Fields \ {"heard"} : h[f] = t[f]
    BY <2>3, <2>4, HearIs
  <2> HIDE DEF h
  <2>6. Young(h)
    <3>1. /\ h.usable = s.usable /\ h.freed = s.freed /\ h.didCce = s.didCce
          /\ h.state = s.state /\ h.mode = "waitConnect" /\ h.pre = s.pre
          /\ h.parser = s.parser /\ h.contentLength = s.contentLength
      BY <2>1, <2>5 DEF Fields
    <3>2. AllHeard(h) \subseteq {"CREATE"}
      BY <1>2, <2>3, <2>5 DEF Socketless
    <3> QED BY <1>2, <2>5, <3>1, <3>2 DEF Young, Connecting, Socketless, Early
  <2> QED BY <1>2, <2>2, <2>6, ConnectSocketSound DEF Connect2
<1>3. CASE Socketless(s) /\ net = "noAddress"
  <2> DEFINE e == IF s.mode = "client" THEN Hear(s, "ERROR") ELSE s
             t == [e EXCEPT !.freed = TRUE]
  <2>1. Connect2(s, net) = t
    BY <1>3 DEF Socketless, Connect2, CannotConnect
  <2>2. /\ Form(e) /\ AllHeard(e) \subseteq {"CREATE", "ERROR"}
        /\ e.usable = s.usable /\ e.didCce = s.didCce
    <3>1. Fits(AllHeard(s), "ERROR")
      BY <1>3 DEF Socketless, Fits, ClientCallbacks
    <3> DEFINE h == Hear(s, "ERROR")
    <3>2. /\ Form(h) /\ AllHeard(h) = AllHeard(s) \cup {"ERROR"}
          /\ \A f \in Fields \ {"heard"} : h[f] = s[f]
      BY <1>3, <3>1, HearIs DEF Socketless
    <3> HIDE DEF h
    <3>3. h.usable = s.usable /\ h.didCce = s.didCce
      BY <3>2 DEF Fields
    <3>4. e = IF s.mode = "client" THEN h ELSE s
      BY DEF h
    <3> HIDE DEF e
    <3> QED BY <1>3, <3>2, <3>3, <3>4 DEF Socketless
  <2> HIDE DEF e
  <2>3. /\ DOMAIN t = Fields /\ t = [f \in Fields |-> t[f]] /\ t.heard = e.heard
        /\ t.usable = e.usable /\ t.freed = TRUE /\ t.didCce = e.didCce
    BY <2>2 DEF Form, Fields
  <2> HIDE DEF t
  <2>4. Form(t) /\ AllHeard(t) = AllHeard(e)
    BY <2>2, <2>3, Unheard DEF Form
  <2> QED BY <2>1, <2>2, <2>3, <2>4 DEF YoungOrOver, Story, Over
<1> QED BY <1>0, <1>1, <1>2, <1>3

-----------------------------------------------------------------------------
(* The reply *)

\* A redirect is taken for a failure unless it was one.
LEMMA RedirectSound ==
    ASSUME NEW s, NEW net, Form(s), ~s.freed, s.usable, ~s.didCce, s.pre = "http",
           AllHeard(s) \subseteq {"CREATE"}, s.contentLength = 0, s.parser = "none"
    PROVE  Story(Redirect(s, net))
<1> DEFINE t == [s EXCEPT !.socket = FALSE, !.state = "unconnected", !.timeout = FALSE]
           r == Connect2(t, net)
<1>1. /\ DOMAIN t = Fields /\ t = [f \in Fields |-> t[f]] /\ t.heard = s.heard
      /\ t.usable = s.usable /\ t.freed = s.freed /\ t.didCce = s.didCce
      /\ t.state = "unconnected" /\ t.pre = s.pre /\ t.socket = FALSE
      /\ t.parser = s.parser /\ t.contentLength = s.contentLength
  BY DEF Form, Fields
<1>2. Redirect(s, net) = IF r.freed THEN r ELSE Bail(r)
  BY DEF Redirect
<1> HIDE DEF t
<1>3. Form(t) /\ AllHeard(t) = AllHeard(s)
  BY <1>1, Unheard DEF Form
<1>4. Socketless(t)
  BY <1>1, <1>3 DEF Socketless
<1>5. YoungOrOver(r)
  BY <1>4, Connect2Sound
<1> HIDE DEF r
<1> QED BY <1>2, <1>5, YoungIs DEF YoungOrOver, Young

LEMMA HttpReplySound ==
    ASSUME NEW s, NEW accepts, Form(s), ~s.freed, s.usable, ~s.didCce, s.pre = "http",
           s.mode = "http", s.state = "httpEstablished", AllHeard(s) \subseteq {"CREATE"},
           s.contentLength = 0, s.parser = "none"
    PROVE  Story(HttpReply(s, accepts))
<1> DEFINE length == IF call.sizing = "length" THEN Len(call.data) ELSE 0
           sized == [s EXCEPT !.parser = IF call.sizing = "chunked" THEN "HEX" ELSE "none",
                              !.contentLength = length, !.contentRemain = length,
                              !.keepAlive = @ /\ call.sizing # "none"]
           t == [sized EXCEPT !.timeout = FALSE]
           up == Hear(t, "ESTABLISHED_HTTP")
<1>1. HttpReply(s, accepts) =
        IF call.status # 200 \/ accepts = "never" THEN Bail(sized)
        ELSE IF accepts = "early" THEN Bail(up) ELSE up
  BY DEF HttpReply
<1>2. /\ DOMAIN sized = Fields /\ sized = [f \in Fields |-> sized[f]]
      /\ sized.heard = s.heard /\ sized.usable = s.usable /\ sized.freed = s.freed
      /\ sized.didCce = s.didCce /\ sized.state = s.state /\ sized.pre = s.pre
      /\ sized.mode = s.mode
  BY DEF Form, Fields
<1>3. /\ DOMAIN t = Fields /\ t = [f \in Fields |-> t[f]] /\ t.heard = s.heard
      /\ t.usable = s.usable /\ t.freed = s.freed /\ t.didCce = s.didCce
      /\ t.state = s.state /\ t.pre = s.pre /\ t.mode = s.mode
  <2> HIDE DEF sized
  <2> QED BY <1>2 DEF Fields
<1> HIDE DEF sized
<1> HIDE DEF t
<1>4. Form(sized) /\ AllHeard(sized) = AllHeard(s) /\ Form(t) /\ AllHeard(t) = AllHeard(s)
  BY <1>2, <1>3, Unheard DEF Form
<1>5. /\ Form(up) /\ AllHeard(up) = AllHeard(s) \cup {"ESTABLISHED_HTTP"}
      /\ \A f \in Fields \ {"heard"} : up[f] = t[f]
  <2>1. Fits(AllHeard(t), "ESTABLISHED_HTTP")
    BY <1>4 DEF Fits, ClientCallbacks
  <2> QED BY <1>4, <2>1, HearIs
<1> HIDE DEF up
<1>6. Sane(sized)
  BY <1>2, <1>4 DEF Sane, Served
<1>7. ~up.freed /\ up.usable /\ Sane(up) /\ Reading(up)
  BY <1>3, <1>5 DEF Sane, Served, Reading, Fields
<1>8. Story(up) /\ Story(Bail(up)) /\ Story(Bail(sized))
  BY <1>2, <1>4, <1>5, <1>6, <1>7, BailSound DEF Story, Alive
<1> QED BY <1>1, <1>8

\* A WebSocket, or what remains of one that was not agreed on
LEMMA WsReplySound ==
    ASSUME NEW s, NEW accepts, Young(s)
    PROVE  Story(WsReply(s, accepts))
<1> DEFINE t == [s EXCEPT !.mode = "ws", !.state = "established", !.timeout = FALSE]
           up == Hear(t, "ESTABLISHED")
<1>1. WsReply(s, accepts) =
        IF ~UpgradeAgreed \/ ~ExtensionsAgreed \/ accepts = "never" THEN Bail(s)
        ELSE IF accepts = "early" THEN Bail(up) ELSE up
  BY DEF WsReply
<1>2. /\ DOMAIN t = Fields /\ t = [f \in Fields |-> t[f]] /\ t.heard = s.heard
      /\ t.usable = s.usable /\ t.freed = s.freed /\ t.didCce = s.didCce
      /\ t.state = "established" /\ t.pre = s.pre /\ t.mode = "ws"
  BY DEF Young, Form, Fields
<1> HIDE DEF t
<1>3. Form(t) /\ AllHeard(t) = AllHeard(s)
  BY <1>2, Unheard DEF Young, Form
<1>4. /\ Form(up) /\ AllHeard(up) = AllHeard(s) \cup {"ESTABLISHED"}
      /\ \A f \in Fields \ {"heard"} : up[f] = t[f]
  <2>1. Fits(AllHeard(t), "ESTABLISHED")
    BY <1>3 DEF Fits, ClientCallbacks, Young, Connecting
  <2> QED BY <1>3, <2>1, HearIs
<1> HIDE DEF up
<1>5. ~up.freed /\ up.usable /\ Sane(up) /\ up.state = "established"
  BY <1>2, <1>4 DEF Sane, Upgraded, Young, Connecting, Fields
<1>6. Story(up) /\ Story(Bail(up))
  BY <1>4, <1>5, BailSound DEF Story, Alive, Served
<1> QED BY <1>1, <1>6, YoungIs

LEMMA InterpretSound ==
    ASSUME NEW s, NEW accepts, NEW net, Young(s)
    PROVE  Story(Interpret(s, accepts, net))
<1> DEFINE t == [s EXCEPT !.mode = IF call.doWs THEN @ ELSE "http",
                          !.state = IF call.doWs THEN @ ELSE "httpEstablished",
                          !.keepAlive = call.http11]
<1>1. Interpret(s, accepts, net) =
        IF call.doWs /\ ~call.http11 THEN Bail(t)
        ELSE IF call.status = 302
             THEN CASE call.headers = "good" -> Redirect(t, net)
                    [] call.headers = "ssl" -> t
                    [] OTHER -> Bail(t)
        ELSE IF call.doWs THEN WsReply(t, accepts) ELSE HttpReply(t, accepts)
  BY DEF Interpret
<1>2. /\ DOMAIN t = Fields /\ t = [f \in Fields |-> t[f]] /\ t.heard = s.heard
      /\ t.usable = s.usable /\ t.freed = s.freed /\ t.didCce = s.didCce
      /\ t.pre = s.pre /\ t.parser = s.parser /\ t.contentLength = s.contentLength
      /\ t.mode = (IF call.doWs THEN s.mode ELSE "http")
      /\ t.state = (IF call.doWs THEN s.state ELSE "httpEstablished")
  BY DEF Young, Form, Fields
<1> HIDE DEF t
<1>3. Form(t) /\ AllHeard(t) = AllHeard(s)
  BY <1>2, Unheard DEF Young, Form
<1>4. Story(Redirect(t, net))
  BY <1>2, <1>3, RedirectSound DEF Young, Connecting
<1>5. CASE call.doWs
  <2>1. Young(t)
    BY <1>2, <1>3, <1>5 DEF Young, Connecting
  <2> QED BY <1>1, <1>4, <1>5, <2>1, YoungIs, WsReplySound
<1>6. CASE ~call.doWs
  <2>1. Sane(t) /\ Reading(t) /\ ~t.freed /\ t.usable
    <3>1. ~t.freed /\ t.usable /\ ~t.didCce /\ AllHeard(t) \subseteq {"CREATE"}
      BY <1>2, <1>3 DEF Young, Connecting
    <3>2. Served(t, {})
      BY <1>2, <1>6, <3>1 DEF Served, Young, Connecting
    <3>3. Reading(t)
      BY <1>2, <3>1 DEF Reading, Young, Connecting
    <3> QED BY <3>1, <3>2, <3>3 DEF Sane
  <2>2. Story(t) /\ Story(Bail(t))
    BY <1>3, <2>1, BailSound DEF Story, Alive
  <2>3. Story(HttpReply(t, accepts))
    BY <1>2, <1>3, <1>6, HttpReplySound DEF Young, Connecting
  <2> QED BY <1>1, <1>4, <1>6, <2>2, <2>3
<1> QED BY <1>5, <1>6

-----------------------------------------------------------------------------
(* The body *)

\* A body that is complete stays so, and one without chunks is only complete if
\* it has a length.
LEMMA TakeIs ==
    ASSUME NEW in
    PROVE  /\ wsi.parser = "completed" => Take(in).parser = "completed"
           /\ wsi.parser = "none" =>
                /\ Take(in).parser \in {"broken", "completed", "none"}
                /\ Take(in).parser = "completed" => wsi.contentLength # 0
<1>1. CASE wsi.parser = "completed"
  BY <1>1 DEF Take
<1>2. CASE wsi.parser = "none"
  <2>1. Take(in) = TakeContent(in)
    BY <1>2 DEF Take
  <2>2. \E n, left : TakeContent(in).parser =
          IF n < 0 THEN "broken"
          ELSE IF left = 0 /\ wsi.contentLength # 0 THEN "completed" ELSE "none"
    BY DEF TakeContent
  <2> QED BY <1>2, <2>1, <2>2
<1> QED BY <1>1, <1>2

LEMMA ReadSound ==
    ASSUME Story(wsi), HttpClientRead
    PROVE  Story(wsi)'
<1>1. PICK n \in 1..Room :
        LET r == Take(SubSeq(arriving, 1, n))
            s == [wsi EXCEPT !.avail = FALSE, !.pollIn = TRUE, !.parser = r.parser,
                             !.chunkRemaining = r.remaining, !.contentRemain = r.content]
        IN  wsi' = CASE r.parser = "broken" -> Close(s)
                     [] r.parser = "completed" /\ wsi.parser # "completed" ->
                          LET c == Hear(s, "COMPLETED")
                          IN  IF s.keepAlive THEN c ELSE Close(c)
                     [] OTHER -> s
  BY DEF HttpClientRead
<1> DEFINE r == Take(SubSeq(arriving, 1, n))
           s == [wsi EXCEPT !.avail = FALSE, !.pollIn = TRUE, !.parser = r.parser,
                            !.chunkRemaining = r.remaining, !.contentRemain = r.content]
           c == Hear(s, "COMPLETED")
<1>2. /\ wsi.parser = "completed" => r.parser = "completed"
      /\ wsi.parser = "none" =>
           /\ r.parser \in {"broken", "completed", "none"}
           /\ r.parser = "completed" => wsi.contentLength # 0
  BY TakeIs
<1>3. wsi' = CASE r.parser = "broken" -> Close(s)
               [] r.parser = "completed" /\ wsi.parser # "completed" ->
                    IF s.keepAlive THEN c ELSE Close(c)
               [] OTHER -> s
  BY <1>1
<1> HIDE DEF r
<1>4. /\ Form(wsi) /\ ~wsi.freed /\ wsi.usable /\ ~wsi.didCce
      /\ Served(wsi, {}) /\ Reading(wsi)
  BY DEF HttpClientRead, Story, Alive, Sane, Connecting, Served, Upgraded, Leaving
<1>5. /\ DOMAIN s = Fields /\ s = [f \in Fields |-> s[f]] /\ s.heard = wsi.heard
      /\ s.usable = wsi.usable /\ s.freed = wsi.freed /\ s.didCce = wsi.didCce
      /\ s.mode = wsi.mode /\ s.state = wsi.state /\ s.pre = wsi.pre
      /\ s.contentLength = wsi.contentLength /\ s.parser = r.parser
  BY <1>4 DEF Form, Fields
<1> HIDE DEF s
<1>6. Form(s) /\ AllHeard(s) = AllHeard(wsi) /\ Sane(s)
  <2>1. Form(s) /\ AllHeard(s) = AllHeard(wsi)
    BY <1>4, <1>5, Unheard DEF Form
  <2> QED BY <1>4, <1>5, <2>1 DEF Sane, Served
<1>7. CASE r.parser = "broken"
  <2>1. Closable(s)
    BY <1>4, <1>5, <1>6 DEF Closable, Sane, Connecting, Served, Upgraded
  <2> QED BY <1>3, <1>6, <1>7, <2>1, CloseSound
<1>8. CASE r.parser = "completed" /\ wsi.parser # "completed"
  <2>1. "ESTABLISHED_HTTP" \in AllHeard(s) /\ Fits(AllHeard(s), "COMPLETED")
    BY <1>2, <1>4, <1>6, <1>8 DEF Reading, Served, Fits, ClientCallbacks
  <2>2. /\ Form(c) /\ AllHeard(c) = AllHeard(s) \cup {"COMPLETED"}
        /\ \A f \in Fields \ {"heard"} : c[f] = s[f]
    BY <1>6, <2>1, HearIs
  <2> HIDE DEF c
  <2>3. /\ c.freed = s.freed /\ c.usable = s.usable /\ c.didCce = s.didCce
        /\ c.mode = s.mode /\ c.state = s.state /\ c.pre = s.pre /\ c.parser = s.parser
    BY <2>2 DEF Fields
  <2>4. Served(c, {})
    BY <1>4, <1>5, <1>6, <2>2, <2>3 DEF Served
  <2>5. Reading(c)
    BY <1>5, <1>8, <2>1, <2>2, <2>3 DEF Reading
  <2>6. ~c.freed /\ Alive(c)
    BY <1>4, <1>5, <2>3, <2>4, <2>5 DEF Alive, Sane
  <2> QED BY <1>3, <1>8, <2>2, <2>6, CloseAlive DEF Story
<1>9. CASE r.parser # "broken" /\ ~(r.parser = "completed" /\ wsi.parser # "completed")
  <2>1. Reading(s)
    <3>1. "COMPLETED" \in AllHeard(s) => s.parser = "completed"
      BY <1>2, <1>4, <1>5, <1>6 DEF Reading
    <3>2. s.parser # "none" => wsi.parser # "none"
      BY <1>2, <1>5, <1>9
    <3>3. s.contentLength # 0 \/ s.parser # "none" \/ "COMPLETED" \in AllHeard(s)
            => "ESTABLISHED_HTTP" \in AllHeard(s)
      BY <1>4, <1>5, <1>6, <3>2 DEF Reading
    <3> QED BY <3>1, <3>3 DEF Reading
  <2>2. Story(s)
    BY <1>4, <1>5, <1>6, <2>1 DEF Story, Alive
  <2>3. wsi' = s
    BY <1>3, <1>9
  <2> QED BY <2>2, <2>3
<1> QED BY <1>7, <1>8, <1>9

-----------------------------------------------------------------------------
(* The theorem *)

LEMMA NewStory == Story(NewWsi)
<1>1. /\ DOMAIN NewWsi = Fields /\ NewWsi = [f \in Fields |-> NewWsi[f]]
      /\ NewWsi.heard = <<>> /\ AllHeard(NewWsi) = {}
  BY DEF NewWsi, Fields, AllHeard
<1>2. Tidy(<<>>)
  BY DEF Tidy
<1> QED BY <1>1, <1>2 DEF NewWsi, Story, Form, Alive, Sane, Connecting, Served, Early

LEMMA StoryStep == Story(wsi) /\ [Next]_vars => Story(wsi)'
<1> SUFFICES ASSUME Story(wsi), [Next]_vars PROVE Story(wsi)'
  OBVIOUS
<1>1. ASSUME wsi.mode \in {"client", "waitConnect", "waitProxy", "issueBody", "waitReply"},
             ~wsi.freed
      PROVE  Young(wsi) /\ Sane(wsi)
  BY <1>1 DEF Story, Alive, Sane, Served, Upgraded, Leaving, Leaves, Young
<1>2. \A r : YoungOrOver(r) => Story(r)
  BY YoungIs DEF YoungOrOver
<1>3. ASSUME Attach \/ WaitingConnect PROVE Story(wsi)'
  <2>1. PICK net \in Networks : /\ wsi.mode \in {"client", "waitConnect"} /\ ~wsi.freed
                               /\ wsi' = Connect2(wsi, net)
    BY <1>3 DEF Attach, WaitingConnect
  <2>2. YoungOrOver(Connect2(wsi, net))
    BY <1>1, <2>1, Connect2Sound
  <2> QED BY <1>2, <2>1, <2>2
<1>4. ASSUME WaitingProxyReply PROVE Story(wsi)'
  <2> DEFINE t == [wsi EXCEPT !.timeout = FALSE]
  <2>1. PICK good, sent \in BOOLEAN :
          /\ wsi.mode = "waitProxy" /\ ~wsi.freed
          /\ wsi' = IF good THEN IssueHandshake(t, sent) ELSE Close(wsi)
    BY <1>4 DEF WaitingProxyReply
  <2>2. Young(wsi) /\ wsi.mode \in Early
    BY <1>1, <2>1 DEF Early
  <2>3. t = [wsi EXCEPT !.mode = wsi.mode, !.timeout = FALSE]
    BY <2>2 DEF Young, Form, Fields
  <2> HIDE DEF t
  <2>4. Young(t)
    BY <2>2, <2>3, GoesOn
  <2>5. YoungOrOver(IssueHandshake(t, sent)) /\ YoungOrOver(Close(wsi))
    BY <2>2, <2>4, ClosesYoung, IssueHandshakeSound
  <2> QED BY <1>2, <2>1, <2>5
<1>5. ASSUME IssueHttpBody PROVE Story(wsi)'
  <2> DEFINE t == [wsi EXCEPT !.mode = "waitReply"]
  <2>1. wsi.mode = "issueBody" /\ ~wsi.freed /\ wsi' \in {wsi, t}
    BY <1>5 DEF IssueHttpBody
  <2>2. Young(wsi)
    BY <1>1, <2>1
  <2>3. t = [wsi EXCEPT !.mode = "waitReply", !.timeout = wsi.timeout]
    BY <2>2 DEF Young, Form, Fields
  <2> HIDE DEF t
  <2>4. Young(t)
    BY <2>2, <2>3, GoesOn DEF Early
  <2> QED BY <1>2, <2>1, <2>2, <2>4 DEF YoungOrOver
<1>6. ASSUME ServerReply PROVE Story(wsi)'
  <2>1. PICK accepts, net : /\ wsi.mode = "waitReply" /\ ~wsi.freed
                            /\ wsi' = Interpret(wsi, accepts, net)
    BY <1>6 DEF ServerReply
  <2> QED BY <1>1, <2>1, InterpretSound
<1>7. ASSUME BadReply PROVE Story(wsi)'
  BY <1>1, <1>7, YoungIs DEF BadReply
<1>8. ASSUME Receive PROVE Story(wsi)'
  <2>1. wsi' = [wsi EXCEPT !.avail = TRUE, !.pollIn = FALSE]
    BY <1>8 DEF Receive
  <2>2. /\ DOMAIN wsi' = Fields /\ wsi' = [f \in Fields |-> wsi'[f]]
        /\ \A f \in Fields \ {"avail", "pollIn"} : wsi'[f] = wsi[f]
    BY <2>1 DEF Story, Form, Fields
  <2>3. /\ wsi'.heard = wsi.heard /\ wsi'.usable = wsi.usable /\ wsi'.freed = wsi.freed
        /\ wsi'.didCce = wsi.didCce /\ wsi'.mode = wsi.mode /\ wsi'.state = wsi.state
        /\ wsi'.pre = wsi.pre /\ wsi'.parser = wsi.parser
        /\ wsi'.contentLength = wsi.contentLength
    BY <2>2 DEF Fields
  <2>4. Form(wsi') /\ AllHeard(wsi') = AllHeard(wsi)
    BY <2>2, <2>3, Unheard DEF Story, Form
  <2>5. Alive(wsi) => Alive(wsi')
    BY <2>3, <2>4 DEF Alive, Sane, Connecting, Served, Reading, Upgraded, Leaving, Leaves
  <2> QED BY <2>3, <2>4, <2>5 DEF Story, Over
<1>9. ASSUME HttpClientRead PROVE Story(wsi)'
  BY <1>9, ReadSound
<1>10. ASSUME Timeout \/ HangUp PROVE Story(wsi)'
  <2> DEFINE t == [wsi EXCEPT !.usable = FALSE]
  <2>1. ~wsi.freed /\ wsi' = Close(t)
    BY <1>10 DEF Timeout, HangUp, ViolentDeath
  <2>2. /\ DOMAIN t = Fields /\ t = [f \in Fields |-> t[f]] /\ t.heard = wsi.heard
        /\ t.usable = FALSE /\ t.freed = wsi.freed /\ t.didCce = wsi.didCce
        /\ t.mode = wsi.mode /\ t.state = wsi.state /\ t.pre = wsi.pre
        /\ t.parser = wsi.parser /\ t.contentLength = wsi.contentLength
    BY DEF Story, Form, Fields
  <2> HIDE DEF t
  <2>3. Form(t) /\ AllHeard(t) = AllHeard(wsi)
    BY <2>2, Unheard DEF Story, Form
  <2>4. Closable(t)
    BY <2>1, <2>2, <2>3
       DEF Story, Closable, Alive, Sane, Connecting, Served, Upgraded, Leaving, Leaves
  <2> QED BY <2>1, <2>3, <2>4, CloseSound
<1>11. ASSUME ZeroRead PROVE Story(wsi)'
  BY <1>11, CloseAlive DEF ZeroRead, Story
<1>12. CASE UNCHANGED vars
  BY <1>12 DEF vars
<1> QED BY <1>3, <1>4, <1>5, <1>6, <1>7, <1>8, <1>9, <1>10, <1>11, <1>12 DEF Next

\* Of what is heard once there is at most one.
LEMMA AtMostOne ==
    ASSUME NEW S, \A i, j \in S : i = j
    PROVE  Cardinality(S) <= 1
<1>1. CASE S = {}
  BY <1>1, FS_EmptySet
<1>2. CASE S # {}
  <2>1. PICK x : S = {x}
    BY <1>2
  <2> QED BY <2>1, FS_Singleton
<1> QED BY <1>1, <1>2

LEMMA StoryIsOne == Story(wsi) => OneStory
<1> SUFFICES ASSUME Story(wsi) PROVE OneStory
  OBVIOUS
<1>1. Tidy(wsi.heard) /\ \A c : Heard(c) <=> c \in AllHeard(wsi)
  BY DEF Story, Form, Heard, AllHeard
<1>2. ASSUME NEW c, c # "CREATE" PROVE Times(c) <= 1
  <2> DEFINE S == {i \in DOMAIN wsi.heard : wsi.heard[i] = c}
  <2>1. \A i, j \in S : i = j
    BY <1>1, <1>2 DEF Tidy
  <2> HIDE DEF S
  <2>2. Cardinality(S) <= 1
    BY <2>1, AtMostOne
  <2> QED BY <2>2 DEF S, Times
<1>3. Before("ESTABLISHED", "CLOSED") /\ Before("ESTABLISHED_HTTP", "COMPLETED")
  BY <1>1 DEF Tidy, Before
<1>4. ~(Heard("ESTABLISHED") /\ Heard("CLOSED_HTTP"))
  BY <1>1 DEF Story, Over, Alive, Sane, Connecting, Served, Upgraded, Leaving, Leaves
<1>5. wsi.freed /\ Heard("ESTABLISHED") => Heard("CLOSED")
  BY <1>1 DEF Story, Over
<1>6. Heard("DESTROY") => wsi.freed
  BY <1>1 DEF Story, Alive, Sane, Connecting, Served, Upgraded, Leaving, Leaves
<1>7. Heard("DESTROY") => Last(wsi.heard) = "DESTROY"
  BY <1>1 DEF Heard, Tidy, Last
<1> QED BY <1>2, <1>3, <1>4, <1>5, <1>6, <1>7 DEF OneStory

\* The callbacks of a connection tell one story: nothing is told twice, CLOSED
\* is for a connection that was established and is not forgotten for one, and
\* nothing follows the end (libwebsockets.c:214).
THEOREM StoryHolds == Spec => []OneStory
<1>1. Init => Story(wsi)
  BY NewStory DEF Init
<1> QED BY <1>1, StoryStep, StoryIsOne, PTL DEF Spec

-----------------------------------------------------------------------------
(* The body.  Nothing but the reply and a read touches what is known of it.    *)

Full(s) ==
    /\ DOMAIN s = Fields /\ s = [f \in Fields |-> s[f]]
    /\ s.heard \in Seq(ClientCallbacks)

Completed(s) == "COMPLETED" \in AllHeard(s)

\* t has what s has of the body, and is not established if s is not.
Keeps(s, t) ==
    /\ Full(t)
    /\ t.parser = s.parser /\ t.chunkRemaining = s.chunkRemaining
    /\ t.contentLength = s.contentLength /\ t.contentRemain = s.contentRemain
    /\ Completed(t) <=> Completed(s)
    /\ t.state = "httpEstablished" => s.state = "httpEstablished"

Stays(s, t) == Keeps(s, t) /\ t.mode = s.mode

LEMMA KeepsOn ==
    ASSUME NEW s, NEW t, NEW u
    PROVE  /\ Full(s) => Stays(s, s)
           /\ Keeps(s, t) => Full(t)
           /\ Keeps(s, t) /\ Keeps(t, u) => Keeps(s, u)
           /\ Stays(s, t) /\ Stays(t, u) => Stays(s, u)
BY DEF Stays, Keeps

\* What is not of the body may change.
LEMMA ElseChanges ==
    ASSUME NEW s, Full(s), NEW t, DOMAIN t = Fields, t = [f \in Fields |-> t[f]],
           t.heard = s.heard, t.parser = s.parser, t.chunkRemaining = s.chunkRemaining,
           t.contentLength = s.contentLength, t.contentRemain = s.contentRemain,
           t.state = "httpEstablished" => s.state = "httpEstablished"
    PROVE  Keeps(s, t)
BY DEF Keeps, Full, Completed, AllHeard

\* A callback is told after the others.
LEMMA ToldAfter ==
    ASSUME NEW h \in Seq(ClientCallbacks), NEW c \in ClientCallbacks
    PROVE  /\ Append(h, c) \in Seq(ClientCallbacks)
           /\ {Append(h, c)[i] : i \in DOMAIN Append(h, c)} = {h[i] : i \in DOMAIN h} \cup {c}
<1> DEFINE a == Append(h, c)
<1>1. Len(h) \in Nat /\ DOMAIN h = 1..Len(h)
  OBVIOUS
<1>2. /\ a \in Seq(ClientCallbacks) /\ DOMAIN a = 1..(Len(h) + 1)
      /\ a[Len(h) + 1] = c /\ \A i \in DOMAIN h : a[i] = h[i]
  BY <1>1
<1>3. \A i \in DOMAIN a : i \in DOMAIN h \/ i = Len(h) + 1
  BY <1>1, <1>2
<1>4. Len(h) + 1 \in DOMAIN a /\ \A i \in DOMAIN h : i \in DOMAIN a
  BY <1>1, <1>2
<1> HIDE DEF a
<1>5. {a[i] : i \in DOMAIN a} = {h[i] : i \in DOMAIN h} \cup {c}
  BY <1>2, <1>3, <1>4
<1> QED BY <1>2, <1>5 DEF a

LEMMA Hears ==
    ASSUME NEW s, Full(s), NEW c \in ClientCallbacks
    PROVE  /\ Full(Hear(s, c)) /\ \A f \in Fields \ {"heard"} : Hear(s, c)[f] = s[f]
           /\ Completed(Hear(s, c)) <=> Completed(s) \/ c = "COMPLETED"
           /\ c # "COMPLETED" => Stays(s, Hear(s, c))
<1> DEFINE t == Hear(s, c)
<1>1. /\ DOMAIN t = Fields /\ t = [f \in Fields |-> t[f]]
      /\ t.heard = Append(s.heard, c) /\ \A f \in Fields \ {"heard"} : t[f] = s[f]
  BY DEF Hear, Full, Fields
<1> HIDE DEF t
<1>2. t.heard \in Seq(ClientCallbacks) /\ AllHeard(t) = AllHeard(s) \cup {c}
  <2> DEFINE h == s.heard
  <2>1. h \in Seq(ClientCallbacks) /\ t.heard = Append(h, c)
    BY <1>1 DEF Full
  <2>2. AllHeard(t) = {Append(h, c)[i] : i \in DOMAIN Append(h, c)}
    BY <2>1 DEF AllHeard
  <2>3. AllHeard(s) = {h[i] : i \in DOMAIN h}
    BY DEF AllHeard
  <2> HIDE DEF h
  <2> QED BY <2>1, <2>2, <2>3, ToldAfter
<1>3. /\ t.parser = s.parser /\ t.chunkRemaining = s.chunkRemaining /\ t.mode = s.mode
      /\ t.contentLength = s.contentLength /\ t.contentRemain = s.contentRemain
      /\ t.state = s.state
  BY <1>1 DEF Fields
<1> QED BY <1>1, <1>2, <1>3 DEF Full, Completed, Stays, Keeps, t

LEMMA LastWordsKeep ==
    ASSUME NEW s, Full(s)
    PROVE  Stays(s, LastWords(s))
BY Hears, KeepsOn DEF LastWords, ClientCallbacks

LEMMA JustKillKeeps ==
    ASSUME NEW s, Full(s)
    PROVE  Stays(s, JustKill(s))
<1> DEFINE t == [s EXCEPT !.state = "shutdown", !.pollIn = TRUE, !.timeout = TRUE]
           w == Hear(LastWords(s), "DESTROY")
           u == [w EXCEPT !.state = "dead", !.socket = FALSE, !.freed = TRUE, !.timeout = FALSE]
<1>1. Stays(s, w) /\ Full(w)
  BY LastWordsKeep, Hears, KeepsOn DEF ClientCallbacks, Stays, Keeps
<1>2. Stays(s, t)
  <2>1. /\ DOMAIN t = Fields /\ t = [f \in Fields |-> t[f]] /\ t.heard = s.heard
        /\ t.parser = s.parser /\ t.chunkRemaining = s.chunkRemaining /\ t.mode = s.mode
        /\ t.contentLength = s.contentLength /\ t.contentRemain = s.contentRemain
        /\ t.state = "shutdown"
    BY DEF Full, Fields
  <2> QED BY <2>1, ElseChanges DEF Stays
<1>3. Stays(w, u)
  <2> HIDE DEF w
  <2>1. /\ DOMAIN u = Fields /\ u = [f \in Fields |-> u[f]] /\ u.heard = w.heard
        /\ u.parser = w.parser /\ u.chunkRemaining = w.chunkRemaining /\ u.mode = w.mode
        /\ u.contentLength = w.contentLength /\ u.contentRemain = w.contentRemain
        /\ u.state = "dead"
    BY <1>1 DEF Full, Fields
  <2> QED BY <1>1, <2>1, ElseChanges DEF Stays
<1>4. JustKill(s) = IF s.state \notin {"shutdown", "unconnected"} /\ s.usable THEN t ELSE u
  BY DEF JustKill
<1> QED BY <1>1, <1>2, <1>3, <1>4, KeepsOn

LEMMA CloseKeeps ==
    ASSUME NEW s, Full(s)
    PROVE  Stays(s, Close(s))
<1> DEFINE p == [s EXCEPT !.pre = s.state]
           c == Hear(p, "CLOSED_HTTP")
<1>1. Stays(s, p) /\ Full(p)
  <2>1. /\ DOMAIN p = Fields /\ p = [f \in Fields |-> p[f]] /\ p.heard = s.heard
        /\ p.parser = s.parser /\ p.chunkRemaining = s.chunkRemaining /\ p.mode = s.mode
        /\ p.contentLength = s.contentLength /\ p.contentRemain = s.contentRemain
        /\ p.state = s.state
    BY DEF Full, Fields
  <2> QED BY <2>1, ElseChanges DEF Stays, Keeps
<1> HIDE DEF p
<1>2. Stays(p, c) /\ Full(c)
  BY <1>1, Hears DEF ClientCallbacks
<1>3. Close(s) \in {JustKill(s), JustKill(p), JustKill(c)}
  BY DEF Close, p
<1> HIDE DEF c
<1>4. Stays(s, JustKill(s)) /\ Stays(s, JustKill(p)) /\ Stays(s, JustKill(c))
  BY <1>1, <1>2, JustKillKeeps, KeepsOn
<1> QED BY <1>3, <1>4

LEMMA BailKeeps ==
    ASSUME NEW s, Full(s)
    PROVE  Stays(s, Bail(s))
<1> DEFINE h == Hear(s, "ERROR")
           t == [h EXCEPT !.didCce = TRUE]
<1>1. Stays(s, h) /\ Full(h)
  BY Hears DEF ClientCallbacks
<1> HIDE DEF h
<1>2. Stays(h, t) /\ Full(t)
  <2>1. /\ DOMAIN t = Fields /\ t = [f \in Fields |-> t[f]] /\ t.heard = h.heard
        /\ t.parser = h.parser /\ t.chunkRemaining = h.chunkRemaining /\ t.mode = h.mode
        /\ t.contentLength = h.contentLength /\ t.contentRemain = h.contentRemain
        /\ t.state = h.state
    BY <1>1 DEF Full, Fields
  <2> HIDE DEF t
  <2>2. Keeps(h, t)
    BY <1>1, <2>1, ElseChanges
  <2> QED BY <2>1, <2>2 DEF Stays, Keeps
<1>3. Bail(s) = Close(t)
  BY DEF Bail, h
<1> HIDE DEF t
<1> QED BY <1>1, <1>2, <1>3, CloseKeeps, KeepsOn

\* The mode, the socket and the timer are not of the body.
LEMMA ModeChanges ==
    ASSUME NEW s, Full(s), NEW m, NEW b
    PROVE  /\ Keeps(s, [s EXCEPT !.mode = m]) /\ Keeps(s, [s EXCEPT !.timeout = b])
           /\ Keeps(s, [s EXCEPT !.mode = m, !.timeout = b])
           /\ Keeps(s, [s EXCEPT !.freed = b])
           /\ Keeps(s, [s EXCEPT !.socket = TRUE, !.mode = m, !.timeout = b])
<1> DEFINE t1 == [s EXCEPT !.mode = m]
           t2 == [s EXCEPT !.timeout = b]
           t3 == [s EXCEPT !.mode = m, !.timeout = b]
           t4 == [s EXCEPT !.freed = b]
           t5 == [s EXCEPT !.socket = TRUE, !.mode = m, !.timeout = b]
<1>1. ASSUME NEW t \in {t1, t2, t3, t4, t5} PROVE Keeps(s, t)
  <2>1. /\ DOMAIN t = Fields /\ t = [f \in Fields |-> t[f]] /\ t.heard = s.heard
        /\ t.parser = s.parser /\ t.chunkRemaining = s.chunkRemaining
        /\ t.contentLength = s.contentLength /\ t.contentRemain = s.contentRemain
        /\ t.state = s.state
    BY <1>1 DEF Full, Fields
  <2> QED BY <2>1, ElseChanges
<1> QED BY <1>1

LEMMA IssueHandshakeKeeps ==
    ASSUME NEW s, Full(s), NEW sent
    PROVE  Keeps(s, IssueHandshake(s, sent))
<1> DEFINE h == [s EXCEPT !.mode = "handshake2", !.timeout = TRUE]
           m == IF call.posts THEN "issueBody" ELSE "waitReply"
<1>1. Keeps(s, h)
  BY ModeChanges
<1>2. IssueHandshake(s, sent) = IF ~sent THEN Close(h) ELSE [h EXCEPT !.mode = m]
  BY DEF IssueHandshake
<1> HIDE DEF h, m
<1>3. Full(h)
  BY <1>1, KeepsOn
<1>4. Keeps(h, Close(h)) /\ Keeps(h, [h EXCEPT !.mode = m])
  BY <1>3, CloseKeeps, ModeChanges DEF Stays
<1> QED BY <1>1, <1>2, <1>4, KeepsOn

LEMMA ConnectedKeeps ==
    ASSUME NEW s, Full(s)
    PROVE  Keeps(s, Connected(s))
<1> DEFINE h == [s EXCEPT !.mode = "handshake", !.timeout = TRUE]
<1>1. Keeps(s, h) /\ Keeps(s, [s EXCEPT !.mode = "waitProxy", !.timeout = TRUE])
  BY ModeChanges
<1>2. Connected(s) = IF call.proxy THEN [s EXCEPT !.mode = "waitProxy", !.timeout = TRUE]
                     ELSE IssueHandshake(h, TRUE)
  BY DEF Connected
<1> HIDE DEF h
<1>3. Keeps(s, IssueHandshake(h, TRUE))
  BY <1>1, IssueHandshakeKeeps, KeepsOn
<1> QED BY <1>1, <1>2, <1>3

LEMMA ConnectSocketKeeps ==
    ASSUME NEW s, Full(s), NEW net
    PROVE  Keeps(s, ConnectSocket(s, net))
<1> DEFINE h == [s EXCEPT !.mode = "handshake", !.timeout = TRUE]
<1>1. Keeps(s, h)
  BY ModeChanges
<1>2. ConnectSocket(s, net) \in {s, Connected(s), IssueHandshake(h, FALSE), Close(s)}
  BY DEF ConnectSocket
<1> HIDE DEF h
<1>3. Keeps(s, IssueHandshake(h, FALSE))
  BY <1>1, IssueHandshakeKeeps, KeepsOn
<1>4. Keeps(s, s) /\ Keeps(s, Connected(s)) /\ Keeps(s, Close(s))
  BY ConnectedKeeps, CloseKeeps, KeepsOn DEF Stays
<1> QED BY <1>2, <1>3, <1>4

LEMMA Connect2Keeps ==
    ASSUME NEW s, Full(s), NEW net
    PROVE  Keeps(s, Connect2(s, net))
<1>1. Keeps(s, CannotConnect(s))
  <2> DEFINE h == IF s.mode = "client" THEN Hear(s, "ERROR") ELSE s
  <2>1. Keeps(s, h) /\ Full(h)
    BY Hears, KeepsOn DEF ClientCallbacks, Stays
  <2>2. CannotConnect(s) = IF s.socket THEN Close(s) ELSE [h EXCEPT !.freed = TRUE]
    BY DEF CannotConnect
  <2> HIDE DEF h
  <2>3. Keeps(s, [h EXCEPT !.freed = TRUE])
    BY <2>1, ModeChanges, KeepsOn
  <2> QED BY <2>2, <2>3, CloseKeeps DEF Stays
<1>2. Keeps(s, OpenSocket(s)) /\ Full(OpenSocket(s))
  <2> DEFINE h == [s EXCEPT !.socket = TRUE, !.mode = "waitConnect", !.timeout = TRUE]
  <2>1. Keeps(s, h)
    BY ModeChanges
  <2>2. OpenSocket(s) = IF s.socket THEN s ELSE Hear(h, "CREATE")
    BY DEF OpenSocket
  <2> HIDE DEF h
  <2>3. Keeps(s, Hear(h, "CREATE"))
    BY <2>1, Hears, KeepsOn DEF ClientCallbacks, Stays
  <2> QED BY <2>2, <2>3, KeepsOn DEF Stays, Keeps
<1>3. Keeps(s, ConnectSocket(OpenSocket(s), net))
  BY <1>2, ConnectSocketKeeps, KeepsOn
<1> QED BY <1>1, <1>3 DEF Connect2

LEMMA WsReplyKeeps ==
    ASSUME NEW s, Full(s), NEW accepts
    PROVE  Keeps(s, WsReply(s, accepts))
<1> DEFINE t == [s EXCEPT !.mode = "ws", !.state = "established", !.timeout = FALSE]
           up == Hear(t, "ESTABLISHED")
<1>1. Keeps(s, t) /\ Full(t)
  <2>1. /\ DOMAIN t = Fields /\ t = [f \in Fields |-> t[f]] /\ t.heard = s.heard
        /\ t.parser = s.parser /\ t.chunkRemaining = s.chunkRemaining
        /\ t.contentLength = s.contentLength /\ t.contentRemain = s.contentRemain
        /\ t.state = "established"
    BY DEF Full, Fields
  <2> HIDE DEF t
  <2>2. Keeps(s, t)
    BY <2>1, ElseChanges
  <2> QED BY <2>2 DEF Keeps
<1> HIDE DEF t
<1>2. Keeps(s, up) /\ Full(up)
  BY <1>1, Hears, KeepsOn DEF ClientCallbacks, Stays
<1>3. WsReply(s, accepts) \in {Bail(s), Bail(up), up}
  BY DEF WsReply, t
<1> HIDE DEF up
<1>4. Keeps(s, Bail(s)) /\ Keeps(s, Bail(up))
  BY <1>2, BailKeeps, KeepsOn DEF Stays
<1> QED BY <1>2, <1>3, <1>4

-----------------------------------------------------------------------------
(* What is defined by recursion: the number that digits say, and what chunk_parser *)
(* makes of the bytes of a read.                                                   *)

IsNumber(g, d, n) == g = [i \in 0..n |-> IF i = 0 THEN 0 ELSE g[i - 1] * 16 + d[i]]

LEMMA NumberExists ==
    ASSUME NEW d, NEW N \in Nat
    PROVE  \E g : IsNumber(g, d, N)
<1> DEFINE good == {m \in Nat : \E g : IsNumber(g, d, m)}
<1>1. 0 \in good
  <2> DEFINE g == [i \in 0..0 |-> 0]
  <2>1. g = [i \in 0..0 |-> IF i = 0 THEN 0 ELSE g[i - 1] * 16 + d[i]]
    <3>1. \A i \in 0..0 : i = 0
      OBVIOUS
    <3> QED BY <3>1
  <2> HIDE DEF g
  <2>2. IsNumber(g, d, 0)
    BY <2>1 DEF IsNumber
  <2> QED BY <2>2
<1>2. ASSUME NEW m \in 1..N, m - 1 \in good PROVE m \in good
  <2>1. PICK g : IsNumber(g, d, m - 1)
    BY <1>2
  <2> DEFINE h == [i \in 0..m |-> IF i = m THEN g[m - 1] * 16 + d[m] ELSE g[i]]
  <2>2. ASSUME NEW i \in 0..m
        PROVE  h[i] = IF i = 0 THEN 0 ELSE h[i - 1] * 16 + d[i]
    <3>1. i # 0 => i - 1 \in 0..m /\ i - 1 # m
      OBVIOUS
    <3>2. i # 0 => h[i - 1] = g[i - 1]
      BY <3>1
    <3>3. CASE i = m
      BY <3>2, <3>3
    <3>4. CASE i # m
      <4>1. i \in 0..(m - 1) /\ h[i] = g[i]
        BY <3>4
      <4>2. g[i] = IF i = 0 THEN 0 ELSE g[i - 1] * 16 + d[i]
        BY <2>1, <4>1 DEF IsNumber
      <4> HIDE DEF h
      <4> QED BY <3>2, <4>1, <4>2
    <3> QED BY <3>3, <3>4
  <2>3. h = [i \in 0..m |-> h[i]]
    OBVIOUS
  <2> HIDE DEF h
  <2>4. IsNumber(h, d, m)
    BY <2>2, <2>3 DEF IsNumber
  <2> QED BY <2>4
<1> HIDE DEF good
<1>3. \A n \in 0..N : n \in good
  BY <1>1, <1>2, Steps
<1> QED BY <1>3 DEF good

LEMMA NumberIs ==
    ASSUME NEW d, Len(d) \in Nat
    PROVE  /\ Number(d)[0] = 0
           /\ \A i \in 1..Len(d) : Number(d)[i] = Number(d)[i - 1] * 16 + d[i]
<1> DEFINE n == Len(d)
           g == CHOOSE first : first = [i \in 0..n |-> IF i = 0 THEN 0 ELSE first[i - 1] * 16 + d[i]]
<1>1. IsNumber(g, d, n)
  BY NumberExists DEF IsNumber
<1>2. Number(d) = g
  BY DEF Number
<1> HIDE DEF g
<1>3. n \in Nat
  OBVIOUS
<1> HIDE DEF n
<1>4. g[0] = 0
  <2>1. 0 \in 0..n
    BY <1>3
  <2> QED BY <1>1, <2>1 DEF IsNumber
<1>5. ASSUME NEW i \in 1..n PROVE g[i] = g[i - 1] * 16 + d[i]
  <2>1. i \in 0..n /\ i # 0
    BY <1>3
  <2> QED BY <1>1, <2>1 DEF IsNumber
<1> QED BY <1>2, <1>4, <1>5 DEF n

IsTaken(g, a, in, n) ==
    g = [i \in 0..n |-> IF i = 0 THEN a ELSE ChunkByte(g[i - 1], in[i])]

LEMMA TakenExists ==
    ASSUME NEW a, NEW in, NEW N \in Nat
    PROVE  \E g : IsTaken(g, a, in, N)
<1> DEFINE good == {m \in Nat : \E g : IsTaken(g, a, in, m)}
<1>1. 0 \in good
  <2> DEFINE g == [i \in 0..0 |-> a]
  <2>1. g = [i \in 0..0 |-> IF i = 0 THEN a ELSE ChunkByte(g[i - 1], in[i])]
    <3>1. \A i \in 0..0 : i = 0
      OBVIOUS
    <3> QED BY <3>1
  <2> HIDE DEF g
  <2>2. IsTaken(g, a, in, 0)
    BY <2>1 DEF IsTaken
  <2> QED BY <2>2
<1>2. ASSUME NEW m \in 1..N, m - 1 \in good PROVE m \in good
  <2>1. PICK g : IsTaken(g, a, in, m - 1)
    BY <1>2
  <2> DEFINE h == [i \in 0..m |-> IF i = m THEN ChunkByte(g[m - 1], in[m]) ELSE g[i]]
  <2>2. ASSUME NEW i \in 0..m
        PROVE  h[i] = IF i = 0 THEN a ELSE ChunkByte(h[i - 1], in[i])
    <3>1. i # 0 => i - 1 \in 0..m /\ i - 1 # m
      OBVIOUS
    <3>2. i # 0 => h[i - 1] = g[i - 1]
      BY <3>1
    <3>3. CASE i = m
      BY <3>2, <3>3
    <3>4. CASE i # m
      <4>1. i \in 0..(m - 1) /\ h[i] = g[i]
        BY <3>4
      <4>2. g[i] = IF i = 0 THEN a ELSE ChunkByte(g[i - 1], in[i])
        BY <2>1, <4>1 DEF IsTaken
      <4> HIDE DEF h
      <4> QED BY <3>2, <4>1, <4>2
    <3> QED BY <3>3, <3>4
  <2>3. h = [i \in 0..m |-> h[i]]
    OBVIOUS
  <2> HIDE DEF h
  <2>4. IsTaken(h, a, in, m)
    BY <2>2, <2>3 DEF IsTaken
  <2> QED BY <2>4
<1> HIDE DEF good
<1>3. \A n \in 0..N : n \in good
  BY <1>1, <1>2, Steps
<1> QED BY <1>3 DEF good

LEMMA TakeChunksIs ==
    ASSUME NEW in, Len(in) \in Nat
    PROVE  \E g : /\ g[0] = [parser |-> wsi.parser, remaining |-> wsi.chunkRemaining,
                             content |-> 0, out |-> <<>>]
                  /\ \A i \in 1..Len(in) : g[i] = ChunkByte(g[i - 1], in[i])
                  /\ TakeChunks(in) = g[Len(in)]
<1> DEFINE n == Len(in)
           a == [parser |-> wsi.parser, remaining |-> wsi.chunkRemaining,
                 content |-> 0, out |-> <<>>]
           g == CHOOSE after :
                  after = [i \in 0..n |-> IF i = 0 THEN a ELSE ChunkByte(after[i - 1], in[i])]
<1>1. IsTaken(g, a, in, n)
  <2> HIDE DEF a
  <2> QED BY TakenExists DEF IsTaken
<1>2. TakeChunks(in) = g[n]
  BY DEF TakeChunks
<1> HIDE DEF g, a
<1>3. n \in Nat
  OBVIOUS
<1> HIDE DEF n
<1>4. g[0] = a
  <2>1. 0 \in 0..n
    BY <1>3
  <2> QED BY <1>1, <2>1 DEF IsTaken
<1>5. ASSUME NEW i \in 1..n PROVE g[i] = ChunkByte(g[i - 1], in[i])
  <2>1. i \in 0..n /\ i # 0
    BY <1>3
  <2> QED BY <1>1, <2>1 DEF IsTaken
<1> QED BY <1>2, <1>4, <1>5 DEF n, a

-----------------------------------------------------------------------------
(* Where the bytes of a body in chunks are *)

Pieces == [k \in 1..Len(call.chunks) |-> EncodeChunk(call, k)]

Digits(k) == Len(call.chunks[k].digits)

\* The sizes of chunks add up to the data.
LEMMA ChunksFit ==
    ASSUME call \in Calls, call.sizing = "chunked"
    PROVE  /\ Len(call.chunks) \in Nat \ {0} /\ Len(call.data) \in Nat /\ IsSeq(call.data)
           /\ \A k \in 1..Len(call.chunks) :
                /\ IsSeq(call.chunks[k].digits) /\ Digits(k) \in Nat
                /\ \A i \in 1..Digits(k) : call.chunks[k].digits[i] \in 0..15
                /\ Number(call.chunks[k].digits)[Digits(k)] = ChunkSize(call, k)
                /\ Begin(call, k) \in Nat /\ ChunkSize(call, k) \in Nat
                /\ Begin(call, k) + ChunkSize(call, k) = call.chunks[k].end
                /\ call.chunks[k].end \in Nat
                /\ call.chunks[k].end <= Len(call.data)
                /\ ChunkSize(call, k) = 0 <=> k = Len(call.chunks)
           /\ call.chunks[Len(call.chunks)].end = Len(call.data)
<1> DEFINE n == Len(call.chunks)
           len == Len(call.data)
<1>1. /\ call.data \in Seq(0..LF) /\ call.chunks \in Seq([digits : Seq(0..15), end : Nat])
      /\ WellChunked(call)
  BY HttpClientAssumption
<1>2. n \in Nat \ {0} /\ len \in Nat /\ IsSeq(call.data) /\ call.chunks[n].end = len
  BY <1>1, OfSeq DEF WellChunked
<1>3. ASSUME NEW k \in 1..n
      PROVE  /\ call.chunks[k].digits \in Seq(0..15) /\ call.chunks[k].end \in Nat
             /\ Number(call.chunks[k].digits)[Digits(k)] = ChunkSize(call, k)
             /\ IF k = n THEN ChunkSize(call, k) = 0 ELSE ChunkSize(call, k) \in 1..Half - 1
  <2>1. call.chunks[k] \in [digits : Seq(0..15), end : Nat]
    BY <1>1, <1>2, ElementOfSeq
  <2>2. /\ Number(call.chunks[k].digits)[Len(call.chunks[k].digits)] = ChunkSize(call, k)
        /\ IF k = n THEN ChunkSize(call, k) = 0 ELSE ChunkSize(call, k) \in 1..Half - 1
    BY <1>1 DEF WellChunked
  <2> QED BY <2>1, <2>2 DEF Digits
<1>4. ASSUME NEW k \in 1..n
      PROVE  /\ IsSeq(call.chunks[k].digits) /\ Digits(k) \in Nat
             /\ \A i \in 1..Digits(k) : call.chunks[k].digits[i] \in 0..15
  <2>1. call.chunks[k].digits \in Seq(0..15)
    BY <1>3
  <2> QED BY <2>1, OfSeq DEF Digits
<1>5. ASSUME NEW k \in 1..n
      PROVE  /\ Begin(call, k) \in Nat /\ ChunkSize(call, k) \in Nat
             /\ Begin(call, k) + ChunkSize(call, k) = call.chunks[k].end
             /\ ChunkSize(call, k) = 0 <=> k = n
  <2>1. Half \in Nat \ {0}
    BY HttpClientAssumption
  <2>2. k # 1 => k - 1 \in 1..n
    BY <1>2
  <2>3. Begin(call, k) \in Nat /\ call.chunks[k].end \in Nat
    BY <1>3, <2>2 DEF Begin
  <2>4. ChunkSize(call, k) = call.chunks[k].end - Begin(call, k)
    BY DEF ChunkSize
  <2>5. IF k = n THEN ChunkSize(call, k) = 0 ELSE ChunkSize(call, k) \in 1..Half - 1
    BY <1>3
  <2>6. ASSUME NEW e \in Nat, NEW b \in Nat, NEW z, z = e - b, NEW last \in BOOLEAN,
               IF last THEN z = 0 ELSE z \in 1..Half - 1
        PROVE  z \in Nat /\ b + z = e /\ (z = 0 <=> last)
    BY ONLY <2>1, <2>6
  <2> HIDE DEF n
  <2>7. (k = n) \in BOOLEAN
    OBVIOUS
  <2> QED BY <2>3, <2>4, <2>5, <2>6, <2>7
<1>6. ASSUME NEW k \in 1..n PROVE call.chunks[k].end <= len
  <2> DEFINE good == {m \in 0..(n - 1) : call.chunks[n - m].end <= len}
  <2>1. 0 \in good
    BY <1>2
  <2>2. ASSUME NEW m \in 1..(n - 1), m - 1 \in good PROVE m \in good
    <3>1. n - (m - 1) \in 1..n /\ n - (m - 1) # 1 /\ (n - (m - 1)) - 1 = n - m /\ n - m \in 1..n
      BY <1>2
    <3>2. Begin(call, n - (m - 1)) = call.chunks[n - m].end
      BY <3>1 DEF Begin
    <3>3. call.chunks[n - (m - 1)].end <= len
      BY <2>2
    <3>4. /\ Begin(call, n - (m - 1)) \in Nat /\ ChunkSize(call, n - (m - 1)) \in Nat
          /\ Begin(call, n - (m - 1)) + ChunkSize(call, n - (m - 1)) = call.chunks[n - (m - 1)].end
      BY <1>5, <3>1
    <3>5. call.chunks[n - m].end <= len
      BY ONLY <1>2, <3>2, <3>3, <3>4
    <3> QED BY <3>1, <3>5
  <2> HIDE DEF good
  <2>3. \A m \in 0..(n - 1) : m \in good
    <3>1. n - 1 \in Nat
      BY <1>2
    <3> HIDE DEF n
    <3> QED BY <2>1, <2>2, <3>1, Steps
  <2>4. n - k \in 0..(n - 1) /\ n - (n - k) = k
    BY <1>2
  <2> QED BY <2>3, <2>4 DEF good
<1> QED BY <1>2, <1>3, <1>4, <1>5, <1>6

\* A chunk, byte by byte
LEMMA PieceIs ==
    ASSUME call \in Calls, call.sizing = "chunked", NEW k \in 1..Len(call.chunks)
    PROVE  LET n == Digits(k)
               z == ChunkSize(call, k)
               p == EncodeChunk(call, k)
           IN  /\ IsSeq(p) /\ Len(p) = n + z + 4
               /\ \A i \in 1..n : p[i] = call.chunks[k].digits[i]
               /\ p[n + 1] = CR /\ p[n + 2] = LF
               /\ \A i \in 1..z : p[n + 2 + i] = call.data[Begin(call, k) + i]
               /\ p[n + z + 3] = CR /\ p[n + z + 4] = LF
<1> DEFINE n == Digits(k)
           z == ChunkSize(call, k)
           b == Begin(call, k)
           d == call.chunks[k].digits
           l == <<CR, LF>>
           s == SubSeq(call.data, b + 1, call.chunks[k].end)
<1>1. /\ IsSeq(d) /\ Len(d) = n /\ n \in Nat /\ b \in Nat /\ z \in Nat
      /\ b + z = call.chunks[k].end /\ b + z <= Len(call.data) /\ Len(call.data) \in Nat
      /\ IsSeq(call.data)
  BY ChunksFit DEF Digits
<1>2. IsSeq(l) /\ Len(l) = 2 /\ l[1] = CR /\ l[2] = LF
  <2>1. l \in Seq(Nat)
    BY DEF CR, LF
  <2> QED BY <2>1, OfSeq
<1>3. IsSeq(s) /\ Len(s) = z /\ \A i \in 1..z : s[i] = call.data[b + i]
  <2>1. b + 1 \in Nat \ {0} /\ b + z \in 0..Len(call.data)
    BY ONLY <1>1
  <2>0. s = SubSeq(call.data, b + 1, b + z)
    BY <1>1
  <2> HIDE DEF s, b, z
  <2>2. /\ IsSeq(s)
        /\ Len(s) = IF b + 1 <= b + z THEN b + z - (b + 1) + 1 ELSE 0
        /\ \A i \in 1..(b + z - (b + 1) + 1) : s[i] = call.data[b + 1 + i - 1]
    BY <1>1, <2>0, <2>1, Part
  <2>3. (IF b + 1 <= b + z THEN b + z - (b + 1) + 1 ELSE 0) = z /\ b + z - (b + 1) + 1 = z
    BY ONLY <1>1
  <2>4. \A i \in 1..z : b + 1 + i - 1 = b + i
    BY ONLY <1>1
  <2> QED BY <2>2, <2>3, <2>4
<1>4. EncodeChunk(call, k) = d \o l \o s \o l
  BY DEF EncodeChunk
<1> DEFINE p2 == d \o l
           p3 == p2 \o s
           p4 == p3 \o l
<1> HIDE DEF n, z, b, d, l, s
<1>5. /\ IsSeq(p2) /\ Len(p2) = n + 2
      /\ \A i \in 1..(n + 2) : p2[i] = IF i <= n THEN d[i] ELSE l[i - n]
  <2>1. /\ IsSeq(p2) /\ Len(p2) = Len(d) + Len(l)
        /\ \A i \in 1..(Len(d) + Len(l)) : p2[i] = IF i <= Len(d) THEN d[i] ELSE l[i - Len(d)]
    BY <1>1, <1>2, Joined
  <2> HIDE DEF p2
  <2> QED BY <1>1, <1>2, <2>1
<1> HIDE DEF p2
<1>6. /\ IsSeq(p3) /\ Len(p3) = n + 2 + z
      /\ \A i \in 1..(n + 2 + z) : p3[i] = IF i <= n + 2 THEN p2[i] ELSE s[i - (n + 2)]
  <2>1. /\ IsSeq(p3) /\ Len(p3) = Len(p2) + Len(s)
        /\ \A i \in 1..(Len(p2) + Len(s)) : p3[i] = IF i <= Len(p2) THEN p2[i] ELSE s[i - Len(p2)]
    BY <1>3, <1>5, Joined
  <2> HIDE DEF p3
  <2> QED BY <1>3, <1>5, <2>1
<1> HIDE DEF p3
<1>7. /\ IsSeq(p4) /\ Len(p4) = n + 2 + z + 2
      /\ \A i \in 1..(n + 2 + z + 2) : p4[i] = IF i <= n + 2 + z THEN p3[i] ELSE l[i - (n + 2 + z)]
  <2>1. /\ IsSeq(p4) /\ Len(p4) = Len(p3) + Len(l)
        /\ \A i \in 1..(Len(p3) + Len(l)) : p4[i] = IF i <= Len(p3) THEN p3[i] ELSE l[i - Len(p3)]
    BY <1>2, <1>6, Joined
  <2> HIDE DEF p4
  <2> QED BY <1>2, <1>6, <2>1
<1> HIDE DEF p4
<1>8. ASSUME NEW i \in 1..n PROVE p4[i] = d[i]
  <2>1. /\ i \in 1..(n + 2) /\ i <= n /\ i \in 1..(n + 2 + z) /\ i <= n + 2
        /\ i \in 1..(n + 2 + z + 2) /\ i <= n + 2 + z
    BY ONLY <1>1, i \in 1..n
  <2> QED BY <1>5, <1>6, <1>7, <2>1
<1>9. ASSUME NEW i \in 1..2 PROVE p4[n + i] = l[i]
  <2>1. PICK x : x = n + i
    OBVIOUS
  <2>2. /\ x \in 1..(n + 2) /\ ~(x <= n) /\ x \in 1..(n + 2 + z) /\ x <= n + 2
        /\ x \in 1..(n + 2 + z + 2) /\ x <= n + 2 + z /\ x - n = i
    BY ONLY <1>1, <2>1, i \in 1..2
  <2>3. p4[x] = p3[x] /\ p3[x] = p2[x]
    BY ONLY <1>6, <1>7, <2>2
  <2>4. p2[x] = l[i]
    BY ONLY <1>5, <2>2
  <2> QED BY ONLY <2>1, <2>3, <2>4
<1>10. ASSUME NEW i \in 1..z PROVE p4[n + 2 + i] = s[i]
  <2>1. PICK x : x = n + 2 + i
    OBVIOUS
  <2>2. /\ x \in 1..(n + 2 + z) /\ ~(x <= n + 2) /\ x - (n + 2) = i
        /\ x \in 1..(n + 2 + z + 2) /\ x <= n + 2 + z
    BY ONLY <1>1, <2>1, i \in 1..z
  <2>3. p4[x] = p3[x]
    BY ONLY <1>7, <2>2
  <2>4. p3[x] = s[i]
    BY ONLY <1>6, <2>2
  <2> QED BY ONLY <2>1, <2>3, <2>4
<1>11. p4[n + z + 3] = l[1] /\ p4[n + z + 4] = l[2]
  <2>1. PICK x, y : x = n + z + 3 /\ y = n + z + 4
    OBVIOUS
  <2>2. /\ x \in 1..(n + 2 + z + 2) /\ ~(x <= n + 2 + z) /\ x - (n + 2 + z) = 1
        /\ y \in 1..(n + 2 + z + 2) /\ ~(y <= n + 2 + z) /\ y - (n + 2 + z) = 2
    BY ONLY <1>1, <2>1
  <2>3. p4[x] = l[1] /\ p4[y] = l[2]
    BY ONLY <1>7, <2>2
  <2> QED BY ONLY <2>1, <2>3
<1>12. n + 2 + z + 2 = n + z + 4
  BY ONLY <1>1
<1>13. 1 \in 1..2 /\ 2 \in 1..2
  OBVIOUS
<1>14. EncodeChunk(call, k) = p4
  BY <1>4 DEF p4, p3, p2
<1>15. /\ IsSeq(p4) /\ Len(p4) = n + z + 4
       /\ \A i \in 1..n : p4[i] = d[i]
       /\ p4[n + 1] = CR /\ p4[n + 2] = LF
       /\ \A i \in 1..z : p4[n + 2 + i] = call.data[b + i]
       /\ p4[n + z + 3] = CR /\ p4[n + z + 4] = LF
  BY <1>2, <1>3, <1>7, <1>8, <1>9, <1>10, <1>11, <1>12, <1>13
<1> QED BY <1>14, <1>15 DEF n, z, b, d

\* The chunks, end to end
LEMMA PiecesLaid ==
    ASSUME call \in Calls, call.sizing = "chunked"
    PROVE  /\ Len(Pieces) = Len(call.chunks) /\ Len(Pieces) \in Nat \ {0}
           /\ IsSeq(Encode(call)) /\ Encode(call) = FlattenSeq(Pieces)
           /\ \A k \in 1..Len(Pieces) : Pieces[k] = EncodeChunk(call, k) /\ Len(Pieces[k]) \in Nat
           /\ \A k \in 0..Len(Pieces) :
                Starts(Pieces, k) \in Nat /\ Starts(Pieces, k) <= Len(Encode(call))
           /\ Starts(Pieces, 0) = 0 /\ Starts(Pieces, Len(Pieces)) = Len(Encode(call))
           /\ \A k \in 1..Len(Pieces) :
                Starts(Pieces, k) = Starts(Pieces, k - 1) + Len(Pieces[k])
           /\ \A k \in 1..Len(Pieces) : \A i \in 1..Len(Pieces[k]) :
                Encode(call)[Starts(Pieces, k - 1) + i] = Pieces[k][i]
<1>1. Len(call.chunks) \in Nat \ {0}
  BY ChunksFit
<1>2. /\ IsSeq(Pieces) /\ Len(Pieces) = Len(call.chunks)
      /\ \A k \in 1..Len(call.chunks) : Pieces[k] = EncodeChunk(call, k)
  <2>1. Pieces = [k \in 1..Len(call.chunks) |-> Pieces[k]]
    BY DEF Pieces
  <2>2. \A k \in 1..Len(call.chunks) : Pieces[k] = EncodeChunk(call, k)
    BY DEF Pieces
  <2> QED BY <1>1, <2>1, <2>2, Built
<1>3. \A k \in 1..Len(call.chunks) : IsSeq(EncodeChunk(call, k))
  BY PieceIs
<1>4. All(Pieces) /\ \A k \in 1..Len(Pieces) : Len(Pieces[k]) \in Nat
  BY <1>2, <1>3 DEF All, IsSeq
<1>5. Encode(call) = FlattenSeq(Pieces)
  BY DEF Encode, Pieces
<1> HIDE DEF Pieces
<1> QED BY <1>1, <1>2, <1>4, <1>5, Laid

-----------------------------------------------------------------------------
(* Where the parser is in a body in chunks *)

\* After j bytes of chunk k the user has the first g of the data.
ChunkAt(p, left, k, j, g) ==
    LET n == Digits(k)
        z == ChunkSize(call, k)
        b == Begin(call, k)
    IN  \/ j \in 0..n /\ p = "HEX" /\ left = Number(call.chunks[k].digits)[j] /\ g = b
        \/ j = n + 1 /\ p = "CR" /\ left = z /\ g = b
        \/ \E i \in 0..z - 1 : j = n + 2 + i /\ p = "CONTENT" /\ left = z - i /\ g = b + i
        \/ z # 0 /\ j = n + z + 2 /\ p = "POST_CR" /\ left = 0 /\ g = b + z
        \/ z # 0 /\ j = n + z + 3 /\ p = "POST_LF" /\ left = 0 /\ g = b + z
        \/ z = 0 /\ j \in n + 2..n + 4 /\ p = "completed" /\ left = 0 /\ g = b

\* After o bytes of the body
ChunkedAt(p, left, o, g) ==
    \E k \in 1..Len(call.chunks), j \in Nat :
        o = Starts(Pieces, k - 1) + j /\ ChunkAt(p, left, k, j, g)

\* The next byte of the body, and what chunk_parser is to make of it
NextByte(p, left, b, o, g) ==
    \/ p = "HEX" /\ b \in 0..15 /\ ChunkedAt("HEX", left * 16 + b, o, g)
    \/ p = "HEX" /\ b = CR /\ ChunkedAt("CR", left, o, g)
    \/ p = "CR" /\ b = LF /\ ChunkedAt(IF left = 0 THEN "completed" ELSE "CONTENT", left, o, g)
    \/ /\ p = "CONTENT" /\ left # 0 /\ g < Len(call.data) /\ b = call.data[g + 1]
       /\ ChunkedAt(IF left = 1 THEN "POST_CR" ELSE "CONTENT", left - 1, o, g + 1)
    \/ p = "POST_CR" /\ b = CR /\ ChunkedAt("POST_LF", left, o, g)
    \/ p = "POST_LF" /\ b = LF /\ ChunkedAt("HEX", 0, o, g)
    \/ p = "completed" /\ ChunkedAt("completed", left, o, g)

LEMMA ChunkAtNat ==
    ASSUME call \in Calls, call.sizing = "chunked", NEW p, NEW left, NEW o, NEW g,
           ChunkedAt(p, left, o, g)
    PROVE  /\ g \in 0..Len(call.data) /\ o \in Nat
           /\ p \in {"HEX", "CR", "CONTENT", "POST_CR", "POST_LF", "completed"}
           /\ p = "completed" => g = Len(call.data) /\ left = 0
<1>1. PICK k \in 1..Len(call.chunks), j \in Nat :
        o = Starts(Pieces, k - 1) + j /\ ChunkAt(p, left, k, j, g)
  BY DEF ChunkedAt
<1> DEFINE z == ChunkSize(call, k)
           b == Begin(call, k)
<1>2. /\ z \in Nat /\ b \in Nat /\ b + z <= Len(call.data) /\ Len(call.data) \in Nat
      /\ z = 0 => b + z = Len(call.data)
  BY ChunksFit
<1>3. /\ g = b \/ g = b + z \/ \E i \in 0..z - 1 : g = b + i
      /\ p \in {"HEX", "CR", "CONTENT", "POST_CR", "POST_LF", "completed"}
      /\ p = "completed" => z = 0 /\ g = b /\ left = 0
  BY <1>1 DEF ChunkAt
<1> HIDE DEF z, b
<1>4. g \in 0..Len(call.data) /\ (p = "completed" => g = Len(call.data) /\ left = 0)
  BY <1>2, <1>3
<1>5. o \in Nat
  <2>1. k - 1 \in 0..Len(Pieces)
    BY PiecesLaid
  <2> QED BY <1>1, <2>1, PiecesLaid
<1> QED BY <1>3, <1>4, <1>5

LEMMA NextByteIs ==
    ASSUME call \in Calls, call.sizing = "chunked", NEW p, NEW left, NEW o, NEW g,
           o < Len(Encode(call)), ChunkedAt(p, left, o, g)
    PROVE  NextByte(p, left, Encode(call)[o + 1], o + 1, g)
<1>1. PICK k \in 1..Len(call.chunks), j \in Nat :
        o = Starts(Pieces, k - 1) + j /\ ChunkAt(p, left, k, j, g)
  BY DEF ChunkedAt
<1> DEFINE N == Len(call.chunks)
           n == Digits(k)
           z == ChunkSize(call, k)
           b == Begin(call, k)
           d == call.chunks[k].digits
           w == EncodeChunk(call, k)
           x == Encode(call)[o + 1]
           a == Starts(Pieces, k - 1)
<1>2. /\ N \in Nat \ {0} /\ n \in Nat /\ z \in Nat /\ b \in Nat /\ b + z <= Len(call.data)
      /\ Len(call.data) \in Nat /\ (z = 0 <=> k = N)
      /\ \A i \in 1..n : d[i] \in 0..15
      /\ Number(d)[n] = z /\ b + z = call.chunks[k].end
  BY ChunksFit
<1>3. /\ Len(w) = n + z + 4
      /\ \A i \in 1..n : w[i] = d[i]
      /\ w[n + 1] = CR /\ w[n + 2] = LF
      /\ \A i \in 1..z : w[n + 2 + i] = call.data[b + i]
      /\ w[n + z + 3] = CR /\ w[n + z + 4] = LF
  BY PieceIs
<1>4. /\ a \in Nat /\ Starts(Pieces, k) = a + Len(w) /\ Starts(Pieces, k) <= Len(Encode(call))
      /\ \A i \in 1..Len(w) : Encode(call)[a + i] = w[i]
      /\ k = N => Starts(Pieces, k) = Len(Encode(call))
  <2>1. k - 1 \in 0..Len(Pieces) /\ k \in 0..Len(Pieces) /\ k \in 1..Len(Pieces)
    BY PiecesLaid
  <2>2. Pieces[k] = w
    BY <2>1, PiecesLaid
  <2> QED BY <2>1, <2>2, PiecesLaid
<1>5. \A i \in 1..n : Number(d)[i] = Number(d)[i - 1] * 16 + d[i]
  <2>1. Len(d) = n /\ Len(d) \in Nat
    BY <1>2 DEF Digits
  <2> QED BY <2>1, NumberIs
<1>6. o = a + j /\ o + 1 = a + (j + 1) /\ j + 1 \in Nat /\ o + 1 \in Nat
  BY <1>1, <1>4
<1>7. ASSUME j < Len(w) PROVE x = w[j + 1]
  <2>1. j + 1 \in 1..Len(w)
    BY <1>2, <1>3, <1>7
  <2> HIDE DEF w, a
  <2> QED BY <1>4, <1>6, <2>1
<1>8. ASSUME NEW q, NEW l, NEW h, ChunkAt(q, l, k, j + 1, h)
      PROVE  ChunkedAt(q, l, o + 1, h)
  BY <1>6, <1>8 DEF ChunkedAt
<1>9. \/ j \in 0..n /\ p = "HEX" /\ left = Number(d)[j] /\ g = b
      \/ j = n + 1 /\ p = "CR" /\ left = z /\ g = b
      \/ \E i \in 0..z - 1 : j = n + 2 + i /\ p = "CONTENT" /\ left = z - i /\ g = b + i
      \/ z # 0 /\ j = n + z + 2 /\ p = "POST_CR" /\ left = 0 /\ g = b + z
      \/ z # 0 /\ j = n + z + 3 /\ p = "POST_LF" /\ left = 0 /\ g = b + z
      \/ z = 0 /\ j \in n + 2..n + 4 /\ p = "completed" /\ left = 0 /\ g = b
  BY <1>1 DEF ChunkAt
<1>10. \A q, l, h :
         \/ j + 1 \in 0..n /\ q = "HEX" /\ l = Number(d)[j + 1] /\ h = b
         \/ j + 1 = n + 1 /\ q = "CR" /\ l = z /\ h = b
         \/ \E i \in 0..z - 1 : j + 1 = n + 2 + i /\ q = "CONTENT" /\ l = z - i /\ h = b + i
         \/ z # 0 /\ j + 1 = n + z + 2 /\ q = "POST_CR" /\ l = 0 /\ h = b + z
         \/ z # 0 /\ j + 1 = n + z + 3 /\ q = "POST_LF" /\ l = 0 /\ h = b + z
         \/ z = 0 /\ j + 1 \in n + 2..n + 4 /\ q = "completed" /\ l = 0 /\ h = b
         => ChunkedAt(q, l, o + 1, h)
  BY <1>8 DEF ChunkAt
<1> HIDE DEF N, n, z, b, d, w, x, a
<1>11. CASE j \in 0..n /\ p = "HEX" /\ left = Number(d)[j] /\ g = b
  <2>1. CASE j < n
    <3>0. n \in Nat /\ z \in Nat /\ Len(w) = n + z + 4
      BY <1>2, <1>3
    <3>1. j + 1 \in 1..n /\ (j + 1) - 1 = j /\ j < Len(w) /\ j + 1 \in 0..n
      BY ONLY <2>1, <3>0, j \in Nat
    <3>2. x = d[j + 1] /\ x \in 0..15
      BY <1>2, <1>3, <1>7, <3>1
    <3>3. Number(d)[j + 1] = left * 16 + x
      BY <1>5, <1>11, <3>1, <3>2
    <3>4. ChunkedAt("HEX", left * 16 + x, o + 1, g)
      BY <1>10, <1>11, <3>1, <3>3
    <3> QED BY <1>11, <3>2, <3>4 DEF NextByte, x
  <2>2. CASE ~(j < n)
    <3>1. j = n /\ j < Len(w) /\ j + 1 = n + 1
      BY <1>2, <1>3, <1>11, <2>2
    <3>2. x = CR
      BY <1>3, <1>7, <3>1
    <3>3. left = z
      BY <1>2, <1>11, <3>1
    <3>4. ChunkedAt("CR", left, o + 1, g)
      BY <1>10, <1>11, <3>1, <3>3
    <3> QED BY <1>11, <3>2, <3>4 DEF NextByte, x
  <2> QED BY <2>1, <2>2
<1>12. CASE j = n + 1 /\ p = "CR" /\ left = z /\ g = b
  <2>0. n \in Nat /\ z \in Nat /\ Len(w) = n + z + 4 /\ j = n + 1
    BY <1>2, <1>3, <1>12
  <2>1. j < Len(w) /\ j + 1 = n + 2
    BY ONLY <2>0
  <2>2. x = LF
    BY <1>3, <1>7, <2>1
  <2>3. ChunkedAt(IF left = 0 THEN "completed" ELSE "CONTENT", left, o + 1, g)
    <3>1. CASE left = 0
      <4>1. j + 1 \in n + 2..n + 4
        BY <1>2, <2>1
      <4>2. ChunkedAt("completed", left, o + 1, g)
        BY <1>10, <1>12, <3>1, <4>1
      <4> QED BY <3>1, <4>2
    <3>2. CASE left # 0
      <4>1. 0 \in 0..z - 1 /\ j + 1 = n + 2 + 0 /\ left = z - 0 /\ g = b + 0
        BY <1>2, <1>12, <2>1, <3>2
      <4>2. ChunkedAt("CONTENT", left, o + 1, g)
        BY <1>10, <4>1
      <4> QED BY <3>2, <4>2
    <3> QED BY <3>1, <3>2
  <2> QED BY <1>12, <2>2, <2>3 DEF NextByte, x
<1>13. CASE \E i \in 0..z - 1 : j = n + 2 + i /\ p = "CONTENT" /\ left = z - i /\ g = b + i
  <2>1. PICK i \in 0..z - 1 : j = n + 2 + i /\ p = "CONTENT" /\ left = z - i /\ g = b + i
    BY <1>13
  <2>2. /\ j < Len(w) /\ i + 1 \in 1..z /\ j + 1 = n + 2 + (i + 1) /\ b + (i + 1) = g + 1
        /\ left # 0 /\ g < Len(call.data) /\ g + 1 = b + (i + 1) /\ left - 1 = z - (i + 1)
    BY <1>2, <1>3, <2>1
  <2>3. x = call.data[g + 1]
    <3>1. x = w[n + 2 + (i + 1)] /\ w[n + 2 + (i + 1)] = call.data[b + (i + 1)]
      BY <1>3, <1>7, <2>2
    <3> QED BY <2>2, <3>1
  <2>4. ChunkedAt(IF left = 1 THEN "POST_CR" ELSE "CONTENT", left - 1, o + 1, g + 1)
    <3>1. CASE left = 1
      <4>1. z # 0 /\ j + 1 = n + z + 2 /\ left - 1 = 0 /\ g + 1 = b + z
        BY <1>2, <2>1, <3>1
      <4>2. ChunkedAt("POST_CR", left - 1, o + 1, g + 1)
        BY <1>10, <4>1
      <4> QED BY <3>1, <4>2
    <3>2. CASE left # 1
      <4>1. i + 1 \in 0..z - 1
        BY <1>2, <2>1, <3>2
      <4>2. ChunkedAt("CONTENT", left - 1, o + 1, g + 1)
        BY <1>10, <2>2, <4>1
      <4> QED BY <3>2, <4>2
    <3> QED BY <3>1, <3>2
  <2> QED BY <2>1, <2>2, <2>3, <2>4 DEF NextByte, x
<1>14. CASE z # 0 /\ j = n + z + 2 /\ p = "POST_CR" /\ left = 0 /\ g = b + z
  <2>1. j < Len(w) /\ j + 1 = n + z + 3
    BY <1>2, <1>3, <1>14
  <2>2. x = CR
    BY <1>3, <1>7, <2>1
  <2>3. ChunkedAt("POST_LF", left, o + 1, g)
    BY <1>10, <1>14, <2>1
  <2> QED BY <1>14, <2>2, <2>3 DEF NextByte, x
<1>15. CASE z # 0 /\ j = n + z + 3 /\ p = "POST_LF" /\ left = 0 /\ g = b + z
  <2>1. j < Len(w) /\ j + 1 = n + z + 4 /\ j + 1 = Len(w)
    BY <1>2, <1>3, <1>15
  <2>2. x = LF
    BY <1>3, <1>7, <2>1
  <2>3. k + 1 \in 1..N /\ (k + 1) - 1 = k /\ k + 1 # 1 /\ 0 \in Nat
    BY <1>2, <1>15 DEF N
  <2>4. o + 1 = Starts(Pieces, (k + 1) - 1) + 0
    BY <1>4, <1>6, <2>1, <2>3
  <2>5. ChunkAt("HEX", 0, k + 1, 0, g)
    <3>1. Begin(call, k + 1) = g
      BY <1>2, <1>15, <2>3 DEF Begin
    <3>2. Digits(k + 1) \in Nat
      BY <2>3, ChunksFit DEF N
    <3>3. Number(call.chunks[k + 1].digits)[0] = 0
      BY <3>2, NumberIs DEF Digits
    <3>4. 0 \in 0..Digits(k + 1)
      BY <3>2
    <3> QED BY <3>1, <3>3, <3>4 DEF ChunkAt
  <2>6. ChunkedAt("HEX", 0, o + 1, g)
    BY <2>3, <2>4, <2>5 DEF ChunkedAt, N
  <2> QED BY <1>15, <2>2, <2>6 DEF NextByte, x
<1>16. CASE z = 0 /\ j \in n + 2..n + 4 /\ p = "completed" /\ left = 0 /\ g = b
  <2>1. Len(Encode(call)) = a + Len(w)
    BY <1>2, <1>4, <1>16
  <2>2. j + 1 \in n + 2..n + 4
    BY <1>2, <1>3, <1>4, <1>6, <1>16, <2>1
  <2>3. ChunkedAt("completed", left, o + 1, g)
    BY <1>10, <1>16, <2>2
  <2> QED BY <1>16, <2>3 DEF NextByte
<1> QED BY <1>9, <1>11, <1>12, <1>13, <1>14, <1>15, <1>16

-----------------------------------------------------------------------------
(* A read *)

LEMMA GotMore ==
    ASSUME NEW t, IsSeq(t), NEW g \in Nat, g < Len(t), NEW s, IsSeq(s), NEW u, IsSeq(u),
           s \o u = SubSeq(t, 1, g)
    PROVE  s \o Append(u, t[g + 1]) = SubSeq(t, 1, g + 1)
<1> DEFINE e == t[g + 1]
           v == Append(u, e)
           m == Len(s)
           n == Len(u)
<1>1. m \in Nat /\ n \in Nat /\ Len(t) \in Nat
  BY DEF IsSeq
<1>2. /\ Len(s \o u) = m + n
      /\ \A i \in 1..(m + n) : (s \o u)[i] = IF i <= m THEN s[i] ELSE u[i - m]
  BY Joined
<1>3. /\ Len(SubSeq(t, 1, g)) = g /\ \A i \in 1..g : SubSeq(t, 1, g)[i] = t[i]
  <2>1. 1 \in Nat \ {0} /\ g \in 0..Len(t)
    BY <1>1
  <2>2. /\ Len(SubSeq(t, 1, g)) = IF 1 <= g THEN g - 1 + 1 ELSE 0
        /\ \A i \in 1..(g - 1 + 1) : SubSeq(t, 1, g)[i] = t[1 + i - 1]
    BY <2>1, Part
  <2>3. (IF 1 <= g THEN g - 1 + 1 ELSE 0) = g /\ g - 1 + 1 = g /\ \A i \in 1..g : 1 + i - 1 = i
    BY ONLY g \in Nat
  <2> QED BY <2>2, <2>3
<1>4. /\ IsSeq(SubSeq(t, 1, g + 1)) /\ Len(SubSeq(t, 1, g + 1)) = g + 1
      /\ \A i \in 1..(g + 1) : SubSeq(t, 1, g + 1)[i] = t[i]
  <2>1. 1 \in Nat \ {0} /\ g + 1 \in 0..Len(t)
    BY <1>1
  <2>2. /\ IsSeq(SubSeq(t, 1, g + 1))
        /\ Len(SubSeq(t, 1, g + 1)) = IF 1 <= g + 1 THEN g + 1 - 1 + 1 ELSE 0
        /\ \A i \in 1..(g + 1 - 1 + 1) : SubSeq(t, 1, g + 1)[i] = t[1 + i - 1]
    BY <2>1, Part
  <2>3. /\ (IF 1 <= g + 1 THEN g + 1 - 1 + 1 ELSE 0) = g + 1 /\ g + 1 - 1 + 1 = g + 1
        /\ \A i \in 1..(g + 1) : 1 + i - 1 = i
    BY ONLY g \in Nat
  <2> QED BY <2>2, <2>3
<1>5. /\ IsSeq(v) /\ Len(v) = n + 1 /\ \A i \in 1..n : v[i] = u[i]
      /\ v[n + 1] = e
  BY Added
<1>6. /\ IsSeq(s \o v) /\ Len(s \o v) = m + (n + 1)
      /\ \A i \in 1..(m + (n + 1)) : (s \o v)[i] = IF i <= m THEN s[i] ELSE v[i - m]
  BY <1>5, Joined
<1>7. g = m + n
  BY <1>2, <1>3
<1> HIDE DEF v, m, n, e
<1>8. ASSUME NEW i \in 1..(g + 1) PROVE (s \o v)[i] = SubSeq(t, 1, g + 1)[i]
  <2>1. i \in 1..(m + (n + 1))
    BY <1>1, <1>7
  <2>2. CASE i = g + 1
    <3>1. ~(i <= m) /\ i - m = n + 1
      BY <1>1, <1>7, <2>2
    <3> QED BY <1>4, <1>5, <1>6, <2>1, <2>2, <3>1 DEF e
  <2>3. CASE i # g + 1
    <3>1. i \in 1..g /\ i \in 1..(m + n) /\ (i <= m \/ i - m \in 1..n)
      BY <1>1, <1>7, <2>3
    <3>2. (s \o v)[i] = (s \o u)[i]
      BY <1>2, <1>5, <1>6, <2>1, <3>1
    <3> QED BY <1>3, <1>4, <3>1, <3>2
  <2> QED BY <2>2, <2>3
<1>9. Len(s \o v) = Len(SubSeq(t, 1, g + 1)) /\ Len(s \o v) = g + 1
  BY <1>1, <1>4, <1>6, <1>7
<1> QED BY <1>4, <1>6, <1>8, <1>9, SameSeq DEF v, e

\* After o bytes of the body, in the course of a read
ReadAt(r, o) ==
    /\ r = [parser |-> r.parser, remaining |-> r.remaining, content |-> 0, out |-> r.out]
    /\ IsSeq(r.out)
    /\ \E g : /\ ChunkedAt(r.parser, r.remaining, o, g)
              /\ delivered \o r.out = SubSeq(call.data, 1, g)

LEMMA ReadOne ==
    ASSUME call \in Calls, call.sizing = "chunked", IsSeq(delivered), NEW r, NEW o,
           ReadAt(r, o), o < Len(Encode(call))
    PROVE  ReadAt(ChunkByte(r, Encode(call)[o + 1]), o + 1)
<1> DEFINE x == Encode(call)[o + 1]
           t == ChunkByte(r, x)
<1> SUFFICES ReadAt(t, o + 1)
  OBVIOUS
<1>1. PICK g : /\ ChunkedAt(r.parser, r.remaining, o, g)
               /\ delivered \o r.out = SubSeq(call.data, 1, g)
  BY DEF ReadAt
<1>2. NextByte(r.parser, r.remaining, x, o + 1, g)
  BY <1>1, NextByteIs
<1>3. g \in 0..Len(call.data) /\ Len(call.data) \in Nat /\ IsSeq(call.data) /\ g \in Nat
  BY <1>1, ChunkAtNat, ChunksFit
<1>4. /\ r = [parser |-> r.parser, remaining |-> r.remaining, content |-> 0, out |-> r.out]
      /\ IsSeq(r.out)
  BY DEF ReadAt
<1> HIDE DEF x, t
<1>5. ASSUME NEW p, NEW left, ChunkedAt(p, left, o + 1, g),
             t = [parser |-> p, remaining |-> left, content |-> 0, out |-> r.out]
      PROVE  ReadAt(t, o + 1)
  <2>1. t.parser = p /\ t.remaining = left /\ t.out = r.out
    BY <1>5
  <2> QED BY <1>1, <1>4, <1>5, <2>1 DEF ReadAt
<1>6. PICK p0, l0, u0 : p0 = r.parser /\ l0 = r.remaining /\ u0 = r.out
  OBVIOUS
<1>7. r = [parser |-> p0, remaining |-> l0, content |-> 0, out |-> u0]
  BY ONLY <1>4, <1>6
<1>8. CASE p0 = "HEX" /\ x \in 0..15 /\ ChunkedAt("HEX", l0 * 16 + x, o + 1, g)
  <2>1. x # CR /\ x < 16
    BY <1>8 DEF CR
  <2>2. t = [parser |-> "HEX", remaining |-> l0 * 16 + x, content |-> 0, out |-> u0]
    BY <1>7, <1>8, <2>1 DEF ChunkByte, t
  <2> QED BY <1>5, <1>6, <1>8, <2>2
<1>9. CASE p0 = "HEX" /\ x = CR /\ ChunkedAt("CR", l0, o + 1, g)
  <2>1. t = [parser |-> "CR", remaining |-> l0, content |-> 0, out |-> u0]
    BY <1>7, <1>9 DEF ChunkByte, CR, t
  <2> QED BY <1>5, <1>6, <1>9, <2>1
<1>10. CASE /\ p0 = "CR" /\ x = LF
            /\ ChunkedAt(IF l0 = 0 THEN "completed" ELSE "CONTENT", l0, o + 1, g)
  <2> DEFINE q == IF l0 = 0 THEN "completed" ELSE "CONTENT"
  <2>1. t = [parser |-> q, remaining |-> l0, content |-> 0, out |-> u0]
    BY <1>7, <1>10 DEF ChunkByte, t
  <2>2. ChunkedAt(q, l0, o + 1, g)
    BY <1>10
  <2> HIDE DEF q
  <2> QED BY <1>5, <1>6, <2>1, <2>2
<1>11. CASE /\ p0 = "CONTENT" /\ l0 # 0 /\ g < Len(call.data) /\ x = call.data[g + 1]
            /\ ChunkedAt(IF l0 = 1 THEN "POST_CR" ELSE "CONTENT", l0 - 1, o + 1, g + 1)
  <2> DEFINE q == IF l0 = 1 THEN "POST_CR" ELSE "CONTENT"
             u == Append(u0, x)
  <2>1. t = [parser |-> q, remaining |-> l0 - 1, content |-> 0, out |-> u]
    BY <1>7, <1>11 DEF ChunkByte, Content, t
  <2>2. IsSeq(u)
    BY <1>4, <1>6, Added
  <2>3. delivered \o u = SubSeq(call.data, 1, g + 1)
    BY <1>1, <1>3, <1>4, <1>6, <1>11, GotMore
  <2>4. ChunkedAt(q, l0 - 1, o + 1, g + 1)
    BY <1>11
  <2> HIDE DEF q, u
  <2>5. t.parser = q /\ t.remaining = l0 - 1 /\ t.out = u
    BY <2>1
  <2>6. t = [parser |-> t.parser, remaining |-> t.remaining, content |-> 0, out |-> t.out]
    BY ONLY <2>1, <2>5
  <2>7. ReadAt(t, o + 1)
    BY <2>2, <2>3, <2>4, <2>5, <2>6 DEF ReadAt
  <2> QED BY <2>7
<1>12. CASE p0 = "POST_CR" /\ x = CR /\ ChunkedAt("POST_LF", l0, o + 1, g)
  <2>1. t = [parser |-> "POST_LF", remaining |-> l0, content |-> 0, out |-> u0]
    BY <1>7, <1>12 DEF ChunkByte, t
  <2> QED BY <1>5, <1>6, <1>12, <2>1
<1>13. CASE p0 = "POST_LF" /\ x = LF /\ ChunkedAt("HEX", 0, o + 1, g)
  <2>1. t = [parser |-> "HEX", remaining |-> 0, content |-> 0, out |-> u0]
    BY <1>7, <1>13 DEF ChunkByte, t
  <2> QED BY <1>5, <1>6, <1>13, <2>1
<1>14. CASE p0 = "completed" /\ ChunkedAt("completed", l0, o + 1, g)
  <2>1. t = [parser |-> "completed", remaining |-> l0, content |-> 0, out |-> u0]
    BY <1>7, <1>14 DEF ChunkByte, t
  <2> QED BY <1>5, <1>6, <1>14, <2>1
<1> QED BY <1>2, <1>6, <1>8, <1>9, <1>10, <1>11, <1>12, <1>13, <1>14 DEF NextByte, x

LEMMA ReadMany ==
    ASSUME call \in Calls, call.sizing = "chunked", NEW o \in Nat, NEW g,
           ChunkedAt(wsi.parser, wsi.chunkRemaining, o, g),
           IsSeq(delivered), delivered = SubSeq(call.data, 1, g),
           NEW in, Len(in) \in Nat, o + Len(in) <= Len(Encode(call)),
           \A i \in 1..Len(in) : in[i] = Encode(call)[o + i]
    PROVE  ReadAt(TakeChunks(in), o + Len(in))
<1> DEFINE n == Len(in)
           a == [parser |-> wsi.parser, remaining |-> wsi.chunkRemaining,
                 content |-> 0, out |-> <<>>]
<1>1. PICK f : /\ f[0] = a /\ \A i \in 1..n : f[i] = ChunkByte(f[i - 1], in[i])
               /\ TakeChunks(in) = f[n]
  BY TakeChunksIs
<1>2. ReadAt(a, o)
  <2>1. delivered \o <<>> = delivered
    <3>1. /\ IsSeq(delivered \o <<>>) /\ Len(delivered \o <<>>) = Len(delivered) + 0
          /\ \A i \in 1..(Len(delivered) + 0) :
               (delivered \o <<>>)[i] = IF i <= Len(delivered) THEN delivered[i]
                                        ELSE <<>>[i - Len(delivered)]
      BY ONLY IsSeq(delivered), Nothing, Joined
    <3>2. Len(delivered) \in Nat
      BY DEF IsSeq
    <3>3. Len(delivered) + 0 = Len(delivered) /\ \A i \in 1..Len(delivered) : i <= Len(delivered)
      BY ONLY <3>2
    <3> QED BY <3>1, <3>3, SameSeq
  <2> QED BY <2>1, Nothing DEF ReadAt
<1>3. Len(Encode(call)) \in Nat /\ n \in Nat
  BY PiecesLaid DEF IsSeq
<1> DEFINE good == {i \in 0..n : ReadAt(f[i], o + i)}
<1> HIDE DEF n, a
<1>4. 0 \in good
  <2>1. o + 0 = o /\ 0 \in 0..n
    BY <1>3
  <2> QED BY <1>1, <1>2, <2>1
<1>5. ASSUME NEW i \in 1..n, i - 1 \in good PROVE i \in good
  <2>1. /\ i \in 0..n /\ o + (i - 1) < Len(Encode(call)) /\ o + (i - 1) + 1 = o + i
        /\ o + n <= Len(Encode(call))
    BY <1>3 DEF n
  <2>2. ReadAt(f[i - 1], o + (i - 1))
    BY <1>5
  <2>3. ReadAt(ChunkByte(f[i - 1], Encode(call)[o + (i - 1) + 1]), o + (i - 1) + 1)
    BY <2>1, <2>2, ReadOne
  <2>4. f[i] = ChunkByte(f[i - 1], Encode(call)[o + i])
    BY <1>1 DEF n
  <2>5. ReadAt(f[i], o + i)
    BY ONLY <2>1, <2>3, <2>4
  <2> QED BY <2>1, <2>5
<1> HIDE DEF good
<1>6. \A i \in 0..n : i \in good
  BY <1>3, <1>4, <1>5, Steps
<1>7. n \in 0..n
  BY <1>3
<1> QED BY <1>1, <1>6, <1>7 DEF good, n

-----------------------------------------------------------------------------
(* The invariant of the body *)

Fresh(s) ==
    /\ s.parser = "none" /\ s.chunkRemaining = 0
    /\ s.contentLength = 0 /\ s.contentRemain = 0
    /\ s.state # "httpEstablished" /\ ~Completed(s)

\* After o bytes of the body the user has what the parser says.
Placed(p, left, length, remain, o, data) == \E g \in 0..Len(call.data) :
    /\ data = SubSeq(call.data, 1, g)
    /\ \/ call.sizing = "chunked" /\ ChunkedAt(p, left, o, g)
       \/ /\ call.sizing = "length" /\ g = o
          /\ length = Len(call.data) /\ remain = Len(call.data) - o
          /\ p = IF o = Len(call.data) /\ o # 0 THEN "completed" ELSE "none"
       \/ /\ call.sizing = "none" /\ g = o
          /\ length = 0 /\ (o = 0 => remain = 0) /\ p = "none"

BodyAt(s, o, data) ==
    /\ s.mode = "http" /\ (Completed(s) <=> s.parser = "completed")
    /\ Placed(s.parser, s.chunkRemaining, s.contentLength, s.contentRemain, o, data)

After(o) == SubSeq(Encode(call), o + 1, Len(Encode(call)))

\* It is before its reply, or at byte o of its body.
BeforeOrAt ==
    \/ Fresh(wsi) /\ arriving = Encode(call) /\ delivered = <<>>
    \/ \E o \in 0..Len(Encode(call)) : arriving = After(o) /\ BodyAt(wsi, o, delivered)

BodyInv == call \in Calls /\ (Promised => BeforeOrAt)

LEMMA KeepsFresh ==
    ASSUME NEW s, NEW t, Keeps(s, t), Fresh(s)
    PROVE  Fresh(t)
BY DEF Keeps, Fresh

LEMMA StaysAt ==
    ASSUME NEW s, NEW t, Stays(s, t), NEW o, NEW data, BodyAt(s, o, data)
    PROVE  BodyAt(t, o, data)
BY DEF Stays, Keeps, BodyAt

LEMMA EncodeIs ==
    ASSUME call \in Calls
    PROVE  /\ IsSeq(Encode(call)) /\ IsSeq(call.data)
           /\ Len(Encode(call)) \in Nat /\ Len(call.data) \in Nat
           /\ call.sizing # "chunked" => Encode(call) = call.data
           /\ call.sizing \in {"none", "length", "chunked"}
           /\ call.sizing = "length" => Len(call.data) < Half
           /\ Half \in Nat \ {0}
<1>1. /\ call.data \in Seq(0..LF) /\ call.sizing \in {"none", "length", "chunked"}
      /\ (call.sizing = "length" => Len(call.data) < Half) /\ Half \in Nat \ {0}
  BY HttpClientAssumption
<1>2. IsSeq(call.data)
  BY <1>1, OfSeq
<1>3. call.sizing # "chunked" => Encode(call) = call.data
  BY DEF Encode
<1>4. IsSeq(Encode(call))
  BY <1>2, <1>3, PiecesLaid
<1> QED BY <1>1, <1>2, <1>3, <1>4 DEF IsSeq

\* What follows the last chunk is not looked at, and the end is behind it.
LEMMA CompletedOn ==
    ASSUME call \in Calls, call.sizing = "chunked", NEW p, NEW left, NEW o, NEW g,
           ChunkedAt(p, left, o, g)
    PROVE  /\ \A e \in o..Len(Encode(call)) : p = "completed" => ChunkedAt(p, 0, e, g)
           /\ o = Len(Encode(call)) => p = "completed"
<1>1. PICK k \in 1..Len(call.chunks), j \in Nat :
        o = Starts(Pieces, k - 1) + j /\ ChunkAt(p, left, k, j, g)
  BY DEF ChunkedAt
<1> DEFINE N == Len(call.chunks)
           n == Digits(k)
           z == ChunkSize(call, k)
           b == Begin(call, k)
           w == EncodeChunk(call, k)
           a == Starts(Pieces, k - 1)
           L == Len(Encode(call))
<1>2. n \in Nat /\ z \in Nat /\ b \in Nat /\ (z = 0 <=> k = N)
  BY ChunksFit
<1>3. Len(w) = n + z + 4
  BY PieceIs
<1>4. a \in Nat /\ a + Len(w) <= L /\ L \in Nat /\ (k = N => a + Len(w) = L)
  <2>1. k - 1 \in 0..Len(Pieces) /\ k \in 0..Len(Pieces) /\ k \in 1..Len(Pieces)
    BY PiecesLaid
  <2>2. Pieces[k] = w /\ L \in Nat
    BY <2>1, PiecesLaid DEF IsSeq
  <2> QED BY <2>1, <2>2, PiecesLaid
<1>5. \/ j \in 0..n + z + 3 /\ p # "completed"
      \/ z = 0 /\ j \in n + 2..n + 4 /\ p = "completed" /\ left = 0 /\ g = b
  <2>1. \/ j \in 0..n /\ p = "HEX"
        \/ j = n + 1 /\ p = "CR"
        \/ \E i \in 0..z - 1 : j = n + 2 + i /\ p = "CONTENT"
        \/ j = n + z + 2 /\ p = "POST_CR"
        \/ j = n + z + 3 /\ p = "POST_LF"
        \/ z = 0 /\ j \in n + 2..n + 4 /\ p = "completed" /\ left = 0 /\ g = b
    BY <1>1 DEF ChunkAt
  <2> HIDE DEF n, z, b
  <2> QED BY <1>2, <2>1
<1>6. o = a + j
  BY <1>1
<1>7. ASSUME NEW e \in o..L, p = "completed" PROVE ChunkedAt(p, 0, e, g)
  <2>1. PICK i : i = e - a
    OBVIOUS
  <2>2. z = 0 /\ j \in n + 2..n + 4 /\ g = b /\ a + (n + z + 4) = L
    BY <1>2, <1>3, <1>4, <1>5, <1>7
  <2>3. i \in Nat /\ e = a + i /\ i \in n + 2..n + 4
    <3> HIDE DEF n, z, b, a, L
    <3> QED BY ONLY <1>2, <1>4, <1>6, <2>1, <2>2, e \in o..L, j \in Nat
  <2>4. ChunkAt(p, 0, k, i, g)
    BY <1>7, <2>2, <2>3 DEF ChunkAt
  <2> QED BY <2>3, <2>4 DEF ChunkedAt
<1>8. ASSUME o = L PROVE p = "completed"
  <2> HIDE DEF n, z, b, a, w, L
  <2> QED BY ONLY <1>2, <1>3, <1>4, <1>5, <1>6, <1>8
<1> QED BY <1>7, <1>8

\* Wherever the body is, the user has its beginning, and hears of the end there.
LEMMA BodyIsDelivered ==
    ASSUME BodyInv
    PROVE  BodyDelivered
<1> SUFFICES ASSUME Promised PROVE BodyDelivered
  BY DEF BodyDelivered
<1>0. call \in Calls
  BY DEF BodyInv
<1>1. Heard("COMPLETED") <=> Completed(wsi)
  BY DEF Heard, Completed, AllHeard
<1>2. CASE Fresh(wsi) /\ arriving = Encode(call) /\ delivered = <<>>
  <2>1. 0 \in 0..Len(call.data) /\ IsSeq(call.data) /\ 1 \in Nat \ {0}
    BY <1>0, EncodeIs
  <2>2. IsSeq(SubSeq(call.data, 1, 0)) /\ Len(SubSeq(call.data, 1, 0)) = 0
    BY <2>1, Part
  <2>3. <<>> = SubSeq(call.data, 1, 0)
    BY <2>2, OnlyNothing
  <2>4. IsPrefix(SubSeq(call.data, 1, 0), call.data)
    BY <2>1, BeginningIsPrefix
  <2>5. IsPrefix(delivered, call.data)
    BY ONLY <1>2, <2>3, <2>4
  <2> QED BY <1>1, <1>2, <2>5 DEF Fresh, BodyDelivered
<1>3. ASSUME NEW o \in 0..Len(Encode(call)), arriving = After(o), BodyAt(wsi, o, delivered)
      PROVE  BodyDelivered
  <2> DEFINE p == wsi.parser
             left == wsi.chunkRemaining
  <2>1. PICK g \in 0..Len(call.data) :
          /\ delivered = SubSeq(call.data, 1, g)
          /\ \/ call.sizing = "chunked" /\ ChunkedAt(p, left, o, g)
             \/ /\ call.sizing = "length" /\ g = o
                /\ p = IF o = Len(call.data) /\ o # 0 THEN "completed" ELSE "none"
             \/ call.sizing = "none" /\ p = "none"
    BY <1>3 DEF BodyAt, Placed
  <2>2. IsPrefix(delivered, call.data)
    BY <1>0, <2>1, EncodeIs, BeginningIsPrefix
  <2>3. p # "broken"
    BY <1>0, <2>1, ChunkAtNat
  <2>4. p = "completed" => g = Len(call.data)
    BY <1>0, <2>1, ChunkAtNat
  <2>5. Completed(wsi) => delivered = call.data
    <3>1. SubSeq(call.data, 1, Len(call.data)) = call.data
      BY <1>0, EncodeIs, Whole1
    <3>2. Completed(wsi) => p = "completed"
      BY <1>3 DEF BodyAt
    <3> QED BY <2>1, <2>4, <3>1, <3>2
  <2>6. ASSUME arriving = <<>>, call.sizing # "none", call.data # <<>> PROVE Completed(wsi)
    <3>1. o = Len(Encode(call))
      <4>1. /\ o \in 0..Len(Encode(call)) /\ 0 \in 0..(Len(Encode(call)) - o)
            /\ IsSeq(Encode(call)) /\ Len(Encode(call)) \in Nat
        BY <1>0, EncodeIs
      <4>2. Len(After(o)) = Len(Encode(call)) - o
        BY <4>1, DropDrop DEF After
      <4>3. Len(After(o)) = 0
        BY <1>3, <2>6
      <4> QED BY ONLY <4>1, <4>2, <4>3
    <3>2. call.sizing = "length" => Encode(call) = call.data
      BY <1>0, EncodeIs
    <3>3. Len(call.data) # 0
      BY <1>0, <2>6, EncodeIs, OnlyNothing
    <3>4. p = "completed"
      BY <1>0, <2>1, <2>6, <3>1, <3>2, <3>3, CompletedOn
    <3> QED BY <1>3, <3>4 DEF BodyAt
  <2> QED BY <1>1, <2>2, <2>3, <2>5, <2>6 DEF BodyDelivered
<1> QED BY <1>2, <1>3 DEF BodyInv, BeforeOrAt

-----------------------------------------------------------------------------
(* Every step *)

\* A beginning, and what comes next, are a beginning.
LEMMA BeginsOn ==
    ASSUME NEW t, IsSeq(t), NEW o \in Nat, NEW u, IsSeq(u), o + Len(u) <= Len(t),
           \A i \in 1..Len(u) : u[i] = t[o + i]
    PROVE  SubSeq(t, 1, o) \o u = SubSeq(t, 1, o + Len(u))
<1> DEFINE n == Len(u)
           s == SubSeq(t, 1, o)
           e == SubSeq(t, 1, o + n)
<1>0. 1 \in Nat \ {0} /\ o \in 0..Len(t) /\ o + n \in 0..Len(t) /\ n \in Nat
  BY DEF IsSeq
<1>1. ASSUME NEW m \in 0..Len(t)
      PROVE  /\ IsSeq(SubSeq(t, 1, m)) /\ Len(SubSeq(t, 1, m)) = m
             /\ \A i \in 1..m : SubSeq(t, 1, m)[i] = t[i]
  <2>1. /\ IsSeq(SubSeq(t, 1, m)) /\ Len(SubSeq(t, 1, m)) = IF 1 <= m THEN m - 1 + 1 ELSE 0
        /\ \A i \in 1..(m - 1 + 1) : SubSeq(t, 1, m)[i] = t[1 + i - 1]
    BY <1>0, Part
  <2>2. m \in Nat
    BY DEF IsSeq
  <2>3. /\ (IF 1 <= m THEN m - 1 + 1 ELSE 0) = m /\ m - 1 + 1 = m
        /\ \A i \in 1..m : 1 + i - 1 = i
    BY ONLY <2>2
  <2> QED BY <2>1, <2>3
<1>2. IsSeq(s) /\ Len(s) = o /\ \A i \in 1..o : s[i] = t[i]
  BY <1>0, <1>1
<1>3. IsSeq(e) /\ Len(e) = o + n /\ \A i \in 1..(o + n) : e[i] = t[i]
  BY <1>0, <1>1
<1> HIDE DEF s, e
<1>4. /\ IsSeq(s \o u) /\ Len(s \o u) = o + n
      /\ \A i \in 1..(o + n) : (s \o u)[i] = IF i <= o THEN s[i] ELSE u[i - o]
  BY <1>2, Joined
<1>5. ASSUME NEW i \in 1..(o + n) PROVE (s \o u)[i] = e[i]
  <2>1. CASE i <= o
    <3>1. i \in 1..o
      BY <2>1
    <3> QED BY <1>2, <1>3, <1>4, <2>1, <3>1
  <2>2. CASE ~(i <= o)
    <3>1. PICK m : m = i - o
      OBVIOUS
    <3>2. m \in 1..n /\ o + m = i
      BY <2>2, <3>1
    <3>3. (s \o u)[i] = u[m] /\ u[m] = t[o + m]
      BY <1>4, <2>2, <3>1, <3>2
    <3> QED BY <1>3, <3>2, <3>3
  <2> QED BY <2>1, <2>2
<1> QED BY <1>3, <1>4, <1>5, SameSeq DEF s, e

\* A read takes its bytes of the body, whatever their number.
LEMMA ReadIs ==
    ASSUME call \in Calls, Promised, NEW o \in 0..Len(Encode(call)), arriving = After(o),
           Placed(wsi.parser, wsi.chunkRemaining, wsi.contentLength, wsi.contentRemain,
                  o, delivered),
           NEW n \in Nat \ {0}, n <= Len(arriving)
    PROVE  LET r == Take(SubSeq(arriving, 1, n))
           IN  /\ Placed(r.parser, r.remaining, wsi.contentLength, r.content,
                         o + n, delivered \o r.out)
               /\ r.parser # "broken" /\ (wsi.parser = "completed" => r.parser = "completed")
               /\ SubSeq(arriving, n + 1, Len(arriving)) = After(o + n)
               /\ o + n \in 0..Len(Encode(call))
<1> DEFINE E == Encode(call)
           L == Len(call.data)
           in == SubSeq(arriving, 1, n)
           p == wsi.parser
           left == wsi.chunkRemaining
           r == Take(in)
<1>1. IsSeq(E) /\ Len(E) \in Nat /\ IsSeq(call.data) /\ L \in Nat /\ o \in Nat /\ n \in Nat
  BY EncodeIs
<1>2. /\ IsSeq(arriving) /\ Len(arriving) = Len(E) - o
      /\ \A i \in 1..(Len(E) - o) : arriving[i] = E[o + i]
      /\ SubSeq(arriving, n + 1, Len(arriving)) = After(o + n)
      /\ o + n \in 0..Len(E)
  <2>1. 0 \in 0..(Len(E) - o)
    BY <1>1
  <2>2. /\ IsSeq(arriving) /\ Len(arriving) = Len(E) - o
        /\ \A i \in 1..(Len(E) - o) : arriving[i] = E[o + i]
    BY <1>1, <2>1, DropDrop DEF After
  <2> HIDE DEF E
  <2>3. n \in 0..(Len(E) - o) /\ o + n \in 0..Len(E)
    BY <1>1, <2>2
  <2>4. SubSeq(arriving, n + 1, Len(E) - o) = SubSeq(E, o + n + 1, Len(E))
    BY <1>1, <2>3, DropDrop DEF After, E
  <2> QED BY <2>2, <2>3, <2>4 DEF After, E
<1> HIDE DEF E
<1>3. /\ IsSeq(in) /\ Len(in) = n /\ \A i \in 1..n : in[i] = E[o + i]
      /\ SubSeq(in, 1, n) = in
  <2>1. 1 \in Nat \ {0} /\ n \in 0..Len(arriving)
    BY <1>1, <1>2
  <2>2. /\ IsSeq(in) /\ Len(in) = IF 1 <= n THEN n - 1 + 1 ELSE 0
        /\ \A i \in 1..(n - 1 + 1) : in[i] = arriving[1 + i - 1]
    BY <1>2, <2>1, Part
  <2>3. /\ (IF 1 <= n THEN n - 1 + 1 ELSE 0) = n /\ n - 1 + 1 = n
        /\ \A i \in 1..n : 1 + i - 1 = i
    BY ONLY n \in Nat \ {0}
  <2> HIDE DEF in
  <2>4. Len(in) = n /\ \A i \in 1..n : in[i] = arriving[i]
    BY <2>2, <2>3
  <2>5. \A i \in 1..n : i \in 1..(Len(E) - o)
    BY <1>1, <1>2
  <2>6. SubSeq(in, 1, Len(in)) = in
    BY <2>2, Whole1
  <2> QED BY <1>2, <2>2, <2>4, <2>5, <2>6
<1> HIDE DEF in
<1>4. PICK g \in 0..L :
        /\ delivered = SubSeq(call.data, 1, g)
        /\ \/ call.sizing = "chunked" /\ ChunkedAt(p, left, o, g)
           \/ /\ call.sizing = "length" /\ g = o
              /\ wsi.contentLength = L /\ wsi.contentRemain = L - o
              /\ p = IF o = L /\ o # 0 THEN "completed" ELSE "none"
           \/ /\ call.sizing = "none" /\ g = o
              /\ wsi.contentLength = 0 /\ (o = 0 => wsi.contentRemain = 0) /\ p = "none"
  BY DEF Placed
<1>5. IsSeq(delivered)
  <2>1. 1 \in Nat \ {0}
    OBVIOUS
  <2> QED BY <1>1, <1>4, <2>1, Part
<1>6. SUFFICES /\ Placed(r.parser, r.remaining, wsi.contentLength, r.content,
                         o + n, delivered \o r.out)
               /\ r.parser # "broken" /\ (p = "completed" => r.parser = "completed")
  BY <1>2 DEF E, in
<1>7. CASE call.sizing = "chunked"
  <2>1. ChunkedAt(p, left, o, g)
    BY <1>4, <1>7
  <2>2. CASE p = "completed"
    <3>1. r = [parser |-> "completed", remaining |-> 0, content |-> 0, out |-> <<>>]
      BY <2>2 DEF Take
    <3>2. ChunkedAt("completed", 0, o + n, g)
      <4>1. o + n \in o..Len(E)
        BY <1>1, <1>2
      <4> QED BY <1>7, <2>1, <2>2, <4>1, CompletedOn DEF E
    <3>3. delivered \o <<>> = delivered
      <4>1. /\ IsSeq(delivered \o <<>>) /\ Len(delivered \o <<>>) = Len(delivered) + 0
            /\ \A i \in 1..(Len(delivered) + 0) :
                 (delivered \o <<>>)[i] = IF i <= Len(delivered) THEN delivered[i]
                                          ELSE <<>>[i - Len(delivered)]
        BY ONLY <1>5, Nothing, Joined
      <4>2. Len(delivered) \in Nat
        BY <1>5 DEF IsSeq
      <4>3. Len(delivered) + 0 = Len(delivered) /\ \A i \in 1..Len(delivered) : i <= Len(delivered)
        BY ONLY <4>2
      <4> QED BY <1>5, <4>1, <4>3, SameSeq
    <3>4. r.parser = "completed" /\ r.remaining = 0 /\ r.out = <<>>
      BY <3>1
    <3> HIDE DEF r
    <3>5. delivered \o r.out = SubSeq(call.data, 1, g)
      BY <1>4, <3>3, <3>4
    <3> QED BY <1>7, <2>2, <3>2, <3>4, <3>5 DEF Placed
  <2>3. CASE p # "completed"
    <3>1. p # "none"
      BY <1>7, <2>1, ChunkAtNat
    <3>2. r = TakeChunks(in)
      BY <2>3, <3>1 DEF Take
    <3>3. ReadAt(TakeChunks(in), o + Len(in))
      <4>1. o + Len(in) <= Len(Encode(call)) /\ Len(in) \in Nat
        BY <1>1, <1>2, <1>3 DEF E
      <4>2. \A i \in 1..Len(in) : in[i] = Encode(call)[o + i]
        BY <1>3 DEF E
      <4> QED BY <1>1, <1>4, <1>5, <1>7, <2>1, <4>1, <4>2, ReadMany
    <3> HIDE DEF r
    <3>4. PICK h : /\ ChunkedAt(r.parser, r.remaining, o + n, h)
                   /\ delivered \o r.out = SubSeq(call.data, 1, h)
      BY <1>3, <3>2, <3>3 DEF ReadAt
    <3>5. h \in 0..L /\ r.parser # "broken"
      BY <1>7, <3>4, ChunkAtNat
    <3> QED BY <1>7, <2>3, <3>4, <3>5 DEF Placed
  <2> QED BY <2>2, <2>3
<1>8. ASSUME call.sizing # "chunked" PROVE delivered \o in = SubSeq(call.data, 1, o + n)
  <2>1. E = call.data /\ g = o
    BY <1>4, <1>8, EncodeIs DEF E
  <2>2. o + n <= Len(call.data) /\ \A i \in 1..n : in[i] = call.data[o + i]
    BY <1>1, <1>2, <1>3, <2>1
  <2>3. SubSeq(call.data, 1, o) \o in = SubSeq(call.data, 1, o + n)
    <3> HIDE DEF L, p, left, r
    <3>1. /\ IsSeq(call.data) /\ o \in Nat /\ n \in Nat /\ IsSeq(in) /\ Len(in) = n
      BY <1>1, <1>3
    <3>2. o + Len(in) <= Len(call.data) /\ \A i \in 1..Len(in) : in[i] = call.data[o + i]
      BY ONLY <2>2, <3>1
    <3>3. SubSeq(call.data, 1, o) \o in = SubSeq(call.data, 1, o + Len(in))
      BY ONLY <3>1, <3>2, BeginsOn
    <3> QED BY ONLY <3>1, <3>3
  <2> QED BY <1>4, <2>1, <2>3
<1>9. ASSUME call.sizing # "chunked", p = "none", n <= wsi.contentRemain \/ wsi.contentRemain = 0,
             wsi.contentRemain \in 0..Half - 1
      PROVE  r = [parser |-> IF Wrapped(wsi.contentRemain - n) = 0 /\ wsi.contentLength # 0
                             THEN "completed" ELSE "none",
                  remaining |-> 0, content |-> Wrapped(wsi.contentRemain - n), out |-> in]
  <2>1. r = TakeContent(in)
    BY <1>9 DEF Take
  <2>2. Half \in Nat /\ Signed(wsi.contentRemain) = wsi.contentRemain
    BY <1>9, EncodeIs DEF Signed
  <2>3. ~(wsi.contentRemain # 0 /\ Signed(wsi.contentRemain) < Len(in))
    BY <1>1, <1>3, <1>9, <2>2
  <2>4. Len(in) = n /\ ~(n < 0)
    BY <1>1, <1>3
  <2> QED BY <1>3, <2>1, <2>3, <2>4 DEF TakeContent
<1> HIDE DEF r
<1>10. CASE call.sizing = "length"
  <2>1. E = call.data /\ L < Half /\ Half \in Nat
    BY <1>10, EncodeIs DEF E
  <2>2. n <= L - o /\ wsi.contentRemain = L - o /\ wsi.contentLength = L /\ o # L
    BY <1>1, <1>2, <1>4, <1>10, <2>1
  <2>3. p = "none" /\ wsi.contentRemain \in 0..Half - 1 /\ L \in Nat \ {0}
    BY <1>1, <1>4, <1>10, <2>1, <2>2
  <2>4. Wrapped(wsi.contentRemain - n) = L - (o + n)
    BY <1>1, <2>2 DEF Wrapped
  <2>5. r = [parser |-> IF L - (o + n) = 0 /\ L # 0 THEN "completed" ELSE "none",
             remaining |-> 0, content |-> L - (o + n), out |-> in]
    BY <1>9, <1>10, <2>2, <2>3, <2>4
  <2>6. /\ r.parser = IF L - (o + n) = 0 /\ L # 0 THEN "completed" ELSE "none"
        /\ r.content = L - (o + n) /\ r.out = in
    BY <2>5
  <2>7. r.parser = IF o + n = L /\ o + n # 0 THEN "completed" ELSE "none"
    BY <1>1, <2>3, <2>6
  <2>8. o + n \in 0..L
    BY <1>2, <2>1
  <2>9. Placed(r.parser, r.remaining, wsi.contentLength, r.content, o + n, delivered \o r.out)
    BY <1>8, <1>10, <2>2, <2>6, <2>7, <2>8 DEF Placed
  <2> QED BY <2>3, <2>7, <2>9
<1>11. CASE call.sizing = "none"
  <2>1. E = call.data /\ L <= 1 /\ Half \in Nat \ {0}
    BY <1>11, EncodeIs DEF E, Promised
  <2>2. o = 0 /\ n = 1 /\ L = 1
    <3>1. Len(E) = L
      BY <2>1
    <3>2. n <= L - o
      BY <1>2, <3>1
    <3>3. L \in Nat /\ L <= 1 /\ o \in Nat /\ n \in Nat \ {0}
      BY <1>1, <2>1
    <3>4. \A a, b, c \in Nat : a <= 1 /\ c # 0 /\ c <= a - b => b = 0 /\ c = 1 /\ a = 1
      OBVIOUS
    <3> HIDE DEF L
    <3>5. n \in Nat /\ n # 0
      OBVIOUS
    <3> QED BY ONLY <3>2, <3>3, <3>4, <3>5
  <2>3. wsi.contentRemain = 0 /\ p = "none" /\ wsi.contentLength = 0 /\ 0 \in 0..Half - 1
    BY <1>4, <1>11, <2>1, <2>2
  <2>4. r.parser = "none" /\ r.out = in
    BY <1>9, <1>11, <2>3
  <2>5. o + n \in 0..L /\ o + n # 0
    BY <2>2
  <2>6. Placed(r.parser, r.remaining, wsi.contentLength, r.content, o + n, delivered \o r.out)
    BY <1>8, <1>11, <2>3, <2>4, <2>5 DEF Placed
  <2> QED BY <2>3, <2>4, <2>6
<1> QED BY <1>4, <1>7, <1>10, <1>11

\* Before the first byte of a body nothing was read of it.
LEMMA AtTheStart ==
    ASSUME call \in Calls
    PROVE  /\ call.sizing = "chunked" => ChunkedAt("HEX", 0, 0, 0)
           /\ <<>> = SubSeq(call.data, 1, 0) /\ 0 \in 0..Len(call.data)
           /\ After(0) = Encode(call) /\ 0 \in 0..Len(Encode(call))
<1>0. /\ 0 \in 0..Len(call.data) /\ 0 \in 0..Len(Encode(call)) /\ IsSeq(call.data)
      /\ 1 \in Nat \ {0} /\ 0 + 1 = 1
  BY EncodeIs
<1>1. <<>> = SubSeq(call.data, 1, 0)
  <2>1. IsSeq(SubSeq(call.data, 1, 0)) /\ Len(SubSeq(call.data, 1, 0)) = 0
    BY <1>0, Part
  <2> QED BY <2>1, OnlyNothing
<1>2. After(0) = Encode(call)
  BY <1>0, EncodeIs, Whole1 DEF After
<1>3. ASSUME call.sizing = "chunked" PROVE ChunkedAt("HEX", 0, 0, 0)
  <2>1. 1 \in 1..Len(call.chunks) /\ 1 - 1 = 0 /\ 0 \in Nat /\ 0 = 0 + 0
    BY <1>3, ChunksFit
  <2>2. Starts(Pieces, 1 - 1) = 0
    BY <1>3, <2>1, PiecesLaid
  <2>3. Digits(1) \in Nat /\ Number(call.chunks[1].digits)[0] = 0
    BY <1>3, <2>1, ChunksFit, NumberIs DEF Digits
  <2>4. Begin(call, 1) = 0 /\ 0 \in 0..Digits(1)
    BY <2>3 DEF Begin
  <2>5. ChunkAt("HEX", 0, 1, 0, 0)
    BY <2>3, <2>4 DEF ChunkAt
  <2>6. 0 = Starts(Pieces, 1 - 1) + 0
    BY ONLY <2>1, <2>2
  <2> QED BY <2>1, <2>5, <2>6 DEF ChunkedAt
<1> QED BY <1>0, <1>1, <1>2, <1>3

\* The reply says how the body will be read, whoever refuses it then.
LEMMA HttpReplyIs ==
    ASSUME call \in Calls, NEW s, Full(s), s.mode = "http", Completed(s) <=> FALSE,
           s.chunkRemaining = 0, NEW accepts
    PROVE  BodyAt(HttpReply(s, accepts), 0, <<>>)
<1> DEFINE length == IF call.sizing = "length" THEN Len(call.data) ELSE 0
           parser == IF call.sizing = "chunked" THEN "HEX" ELSE "none"
           sized == [s EXCEPT !.parser = parser,
                              !.contentLength = length, !.contentRemain = length,
                              !.keepAlive = @ /\ call.sizing # "none"]
           t == [sized EXCEPT !.timeout = FALSE]
           up == Hear(t, "ESTABLISHED_HTTP")
<1>1. HttpReply(s, accepts) \in {Bail(sized), Bail(up), up}
  BY DEF HttpReply
<1>2. /\ DOMAIN sized = Fields /\ sized = [f \in Fields |-> sized[f]]
      /\ sized.heard = s.heard /\ sized.parser = parser /\ sized.mode = "http"
      /\ sized.chunkRemaining = 0 /\ sized.contentLength = length
      /\ sized.contentRemain = length
  <2> HIDE DEF length, parser
  <2> QED BY DEF Full, Fields
<1> HIDE DEF sized
<1>3. Full(sized) /\ ~Completed(sized)
  BY <1>2 DEF Full, Completed, AllHeard
<1>4. BodyAt(sized, 0, <<>>)
  <2>1. Placed(parser, 0, length, length, 0, <<>>)
    <3>1. CASE call.sizing = "chunked"
      BY <3>1, AtTheStart DEF Placed
    <3>2. CASE call.sizing = "length"
      <4>1. Len(call.data) - 0 = Len(call.data)
        BY EncodeIs
      <4> QED BY <3>2, <4>1, AtTheStart DEF Placed
    <3>3. CASE call.sizing = "none"
      BY <3>3, AtTheStart DEF Placed
    <3> QED BY <3>1, <3>2, <3>3, EncodeIs
  <2>2. parser # "completed"
    OBVIOUS
  <2> HIDE DEF parser, length
  <2> QED BY <1>2, <1>3, <2>1, <2>2 DEF BodyAt
<1>5. Stays(sized, t)
  <2>1. /\ DOMAIN t = Fields /\ t = [f \in Fields |-> t[f]] /\ t.heard = sized.heard
        /\ t.parser = sized.parser /\ t.chunkRemaining = sized.chunkRemaining
        /\ t.mode = sized.mode /\ t.state = sized.state
        /\ t.contentLength = sized.contentLength /\ t.contentRemain = sized.contentRemain
    BY <1>3 DEF Full, Fields
  <2> HIDE DEF t
  <2>2. Keeps(sized, t)
    BY <1>3, <2>1, ElseChanges
  <2> QED BY <2>1, <2>2 DEF Stays
<1> HIDE DEF t
<1>6. Stays(sized, up) /\ Full(up)
  <2>1. Full(t)
    BY <1>5 DEF Stays, Keeps
  <2>2. Stays(t, up) /\ Full(up)
    BY <2>1, Hears DEF ClientCallbacks
  <2> QED BY <1>5, <2>2, KeepsOn
<1> HIDE DEF up
<1>7. Stays(sized, Bail(sized)) /\ Stays(sized, Bail(up))
  BY <1>3, <1>6, BailKeeps, KeepsOn
<1> QED BY <1>1, <1>4, <1>6, <1>7, StaysAt

LEMMA InterpretIs ==
    ASSUME call \in Calls, Promised, NEW s, Full(s), Fresh(s), NEW accepts, NEW net
    PROVE  LET t == Interpret(s, accepts, net) IN Fresh(t) \/ BodyAt(t, 0, <<>>)
<1> DEFINE mode == IF call.doWs THEN s.mode ELSE "http"
           stage == IF call.doWs THEN s.state ELSE "httpEstablished"
           t == [s EXCEPT !.mode = mode, !.state = stage, !.keepAlive = call.http11]
<1>1. Interpret(s, accepts, net) =
        IF call.doWs /\ ~call.http11 THEN Bail(t)
        ELSE IF call.doWs THEN WsReply(t, accepts) ELSE HttpReply(t, accepts)
  BY DEF Interpret, Promised
<1>2. /\ DOMAIN t = Fields /\ t = [f \in Fields |-> t[f]] /\ t.heard = s.heard
      /\ t.parser = s.parser /\ t.chunkRemaining = s.chunkRemaining /\ t.mode = mode
      /\ t.contentLength = s.contentLength /\ t.contentRemain = s.contentRemain
      /\ t.state = stage
  <2> HIDE DEF mode, stage
  <2> QED BY DEF Full, Fields
<1> HIDE DEF t
<1>3. Full(t) /\ (Completed(t) <=> Completed(s))
  BY <1>2 DEF Full, Completed, AllHeard
<1>4. CASE call.doWs
  <2>1. Keeps(s, t)
    BY <1>2, <1>4, ElseChanges
  <2>2. Keeps(s, Bail(t)) /\ Keeps(s, WsReply(t, accepts))
    BY <1>3, <2>1, BailKeeps, WsReplyKeeps, KeepsOn DEF Stays
  <2> QED BY <1>1, <1>4, <2>2, KeepsFresh
<1>5. CASE ~call.doWs
  BY <1>1, <1>2, <1>3, <1>5, HttpReplyIs DEF Fresh
<1> QED BY <1>4, <1>5

\* The call is what it was, and so is its body.
LEMMA SameBody ==
    ASSUME call' = call
    PROVE  /\ Promised' <=> Promised
           /\ \A o : After(o)' = After(o)
           /\ \A s, o, data : BodyAt(s, o, data) => BodyAt(s, o, data)'
<1>1. Promised' <=> Promised
  BY DEF Promised
<1>2. \A o : After(o)' = After(o)
  BY DEF After
<1>3. Pieces' = Pieces
  BY DEF Pieces
<1>4. ASSUME NEW p, NEW left, NEW k, NEW j, NEW g
      PROVE  ChunkAt(p, left, k, j, g)' <=> ChunkAt(p, left, k, j, g)
  BY DEF ChunkAt, Digits
<1>5. ASSUME NEW p, NEW left, NEW o, NEW g
      PROVE  ChunkedAt(p, left, o, g)' <=> ChunkedAt(p, left, o, g)
  BY <1>3, <1>4 DEF ChunkedAt
<1>6. ASSUME NEW p, NEW left, NEW length, NEW remain, NEW o, NEW data
      PROVE  Placed(p, left, length, remain, o, data)'
               <=> Placed(p, left, length, remain, o, data)
  BY <1>5 DEF Placed
<1>7. ASSUME NEW s, NEW o, NEW data, BodyAt(s, o, data) PROVE BodyAt(s, o, data)'
  BY <1>6, <1>7 DEF BodyAt, Completed, AllHeard
<1> QED BY <1>1, <1>2, <1>7

-----------------------------------------------------------------------------
(* Every step keeps the invariant of the body *)

LEMMA StillFresh ==
    ASSUME call' = call, Fresh(wsi'), arriving' = Encode(call), delivered' = <<>>
    PROVE  BeforeOrAt'
<1>1. Fresh(wsi)'
  BY DEF Fresh, Completed, AllHeard
<1>2. Encode(call)' = Encode(call)
  OBVIOUS
<1> QED BY <1>1, <1>2 DEF BeforeOrAt

LEMMA NowAt ==
    ASSUME call' = call, NEW o \in 0..Len(Encode(call)), arriving' = After(o),
           BodyAt(wsi', o, delivered')
    PROVE  BeforeOrAt'
<1>1. PICK s, data : s = wsi' /\ data = delivered'
  OBVIOUS
<1>2. BodyAt(s, o, data)
  BY <1>1
<1>3. BodyAt(s, o, data)' /\ arriving' = After(o)'
  BY <1>2, SameBody
<1>4. BodyAt(wsi, o, delivered)'
  BY <1>1, <1>3 DEF BodyAt, Completed, AllHeard
<1> QED BY <1>3, <1>4 DEF BeforeOrAt

\* Nothing that leaves alone what is known of the body
LEMMA KeptStep ==
    ASSUME BeforeOrAt, UNCHANGED <<call, arriving, delivered>>, Keeps(wsi, wsi'),
           wsi.mode = "http" => wsi'.mode = "http"
    PROVE  BeforeOrAt'
<1>1. CASE Fresh(wsi) /\ arriving = Encode(call) /\ delivered = <<>>
  BY <1>1, KeepsFresh, StillFresh
<1>2. ASSUME NEW o \in 0..Len(Encode(call)), arriving = After(o), BodyAt(wsi, o, delivered)
      PROVE  BeforeOrAt'
  <2>1. Stays(wsi, wsi')
    BY <1>2 DEF Stays, BodyAt
  <2>2. BodyAt(wsi', o, delivered')
    BY <1>2, <2>1, StaysAt
  <2> QED BY <1>2, <2>2, NowAt
<1> QED BY <1>1, <1>2 DEF BeforeOrAt

\* A read goes on in the body, and tells of its end, once.
LEMMA ReadKeepsBody ==
    ASSUME call \in Calls, Promised, Full(wsi), BeforeOrAt, HttpClientRead
    PROVE  BeforeOrAt'
<1>1. PICK n \in 1..Room :
        /\ wsi.state = "httpEstablished"
        /\ n <= Len(arriving) /\ arriving' = SubSeq(arriving, n + 1, Len(arriving))
        /\ LET r == Take(SubSeq(arriving, 1, n))
               s == [wsi EXCEPT !.avail = FALSE, !.pollIn = TRUE, !.parser = r.parser,
                                !.chunkRemaining = r.remaining, !.contentRemain = r.content]
           IN  /\ delivered' = delivered \o r.out
               /\ wsi' = CASE r.parser = "broken" -> Close(s)
                           [] r.parser = "completed" /\ wsi.parser # "completed" ->
                                LET c == Hear(s, "COMPLETED")
                                IN  IF s.keepAlive THEN c ELSE Close(c)
                           [] OTHER -> s
  BY DEF HttpClientRead
<1>2. PICK o \in 0..Len(Encode(call)) : arriving = After(o) /\ BodyAt(wsi, o, delivered)
  BY <1>1 DEF BeforeOrAt, Fresh
<1>3. n \in Nat \ {0} /\ call' = call
  BY HttpClientAssumption DEF HttpClientRead
<1> DEFINE r == Take(SubSeq(arriving, 1, n))
           s == [wsi EXCEPT !.avail = FALSE, !.pollIn = TRUE, !.parser = r.parser,
                            !.chunkRemaining = r.remaining, !.contentRemain = r.content]
           c == Hear(s, "COMPLETED")
<1>4. /\ Placed(r.parser, r.remaining, wsi.contentLength, r.content, o + n, delivered \o r.out)
      /\ r.parser # "broken" /\ (wsi.parser = "completed" => r.parser = "completed")
      /\ SubSeq(arriving, n + 1, Len(arriving)) = After(o + n)
      /\ o + n \in 0..Len(Encode(call))
  <2>1. Placed(wsi.parser, wsi.chunkRemaining, wsi.contentLength, wsi.contentRemain,
               o, delivered)
    BY <1>2 DEF BodyAt
  <2> QED BY <1>1, <1>2, <1>3, <2>1, ReadIs
<1>5. /\ delivered' = delivered \o r.out
      /\ wsi' = IF r.parser = "completed" /\ wsi.parser # "completed"
                THEN IF s.keepAlive THEN c ELSE Close(c)
                ELSE s
  BY <1>1, <1>4
<1> HIDE DEF r
<1>6. /\ DOMAIN s = Fields /\ s = [f \in Fields |-> s[f]] /\ s.heard = wsi.heard
      /\ s.parser = r.parser /\ s.chunkRemaining = r.remaining /\ s.contentRemain = r.content
      /\ s.contentLength = wsi.contentLength /\ s.mode = wsi.mode
  BY DEF Full, Fields
<1> HIDE DEF s
<1>7. /\ Full(s) /\ (Completed(s) <=> wsi.parser = "completed") /\ s.mode = "http"
      /\ Placed(s.parser, s.chunkRemaining, s.contentLength, s.contentRemain, o + n, delivered')
  <2>1. Full(s) /\ (Completed(s) <=> Completed(wsi))
    BY <1>6 DEF Full, Completed, AllHeard
  <2>2. wsi.mode = "http" /\ (Completed(wsi) <=> wsi.parser = "completed")
    BY <1>2 DEF BodyAt
  <2> QED BY <1>4, <1>5, <1>6, <2>1, <2>2
<1>8. BodyAt(wsi', o + n, delivered')
  <2>1. CASE r.parser = "completed" /\ wsi.parser # "completed"
    <3>1. /\ Full(c) /\ Completed(c) /\ \A f \in Fields \ {"heard"} : c[f] = s[f]
      BY <1>7, Hears DEF ClientCallbacks
    <3>2. /\ c.parser = s.parser /\ c.chunkRemaining = s.chunkRemaining /\ c.mode = s.mode
          /\ c.contentLength = s.contentLength /\ c.contentRemain = s.contentRemain
      BY <3>1 DEF Fields
    <3> HIDE DEF c
    <3>3. BodyAt(c, o + n, delivered')
      BY <1>6, <1>7, <2>1, <3>1, <3>2 DEF BodyAt
    <3>4. BodyAt(Close(c), o + n, delivered')
      BY <3>1, <3>3, CloseKeeps, StaysAt
    <3> QED BY <1>5, <2>1, <3>3, <3>4
  <2>2. CASE ~(r.parser = "completed" /\ wsi.parser # "completed")
    <3>1. wsi' = s /\ (Completed(s) <=> s.parser = "completed")
      BY <1>4, <1>5, <1>6, <1>7, <2>2
    <3> QED BY <1>7, <3>1 DEF BodyAt
  <2> QED BY <2>1, <2>2
<1> QED BY <1>1, <1>3, <1>4, <1>8, NowAt

LEMMA BodyStep ==
    ASSUME call \in Calls, Promised, Full(wsi), BeforeOrAt, [Next]_vars
    PROVE  BeforeOrAt'
<1>1. ASSUME UNCHANGED <<call, arriving, delivered>>, Keeps(wsi, wsi'), wsi.mode # "http"
      PROVE  BeforeOrAt'
  BY <1>1, KeptStep
<1>2. ASSUME UNCHANGED <<call, arriving, delivered>>, Stays(wsi, wsi')
      PROVE  BeforeOrAt'
  BY <1>2, KeptStep DEF Stays
<1>3. ASSUME Attach \/ WaitingConnect PROVE BeforeOrAt'
  <2>1. PICK net : wsi' = Connect2(wsi, net) /\ wsi.mode \in {"client", "waitConnect"}
    BY <1>3 DEF Attach, WaitingConnect
  <2>2. UNCHANGED <<call, arriving, delivered>>
    BY <1>3 DEF Attach, WaitingConnect
  <2>3. Keeps(wsi, wsi')
    BY <2>1, Connect2Keeps
  <2> QED BY <1>1, <2>1, <2>2, <2>3
<1>4. ASSUME WaitingProxyReply PROVE BeforeOrAt'
  <2> DEFINE t == [wsi EXCEPT !.timeout = FALSE]
  <2>1. PICK good, sent \in BOOLEAN :
          wsi' = IF good THEN IssueHandshake(t, sent) ELSE Close(wsi)
    BY <1>4 DEF WaitingProxyReply
  <2>2. wsi.mode = "waitProxy" /\ UNCHANGED <<call, arriving, delivered>>
    BY <1>4 DEF WaitingProxyReply
  <2>3. Keeps(wsi, t)
    BY ModeChanges
  <2> HIDE DEF t
  <2>4. Keeps(wsi, IssueHandshake(t, sent)) /\ Keeps(wsi, Close(wsi))
    BY <2>3, IssueHandshakeKeeps, CloseKeeps, KeepsOn DEF Stays
  <2> QED BY <1>1, <2>1, <2>2, <2>4
<1>5. ASSUME IssueHttpBody PROVE BeforeOrAt'
  <2>1. /\ wsi.mode = "issueBody" /\ UNCHANGED <<call, arriving, delivered>>
        /\ wsi' \in {wsi, [wsi EXCEPT !.mode = "waitReply"]}
    BY <1>5 DEF IssueHttpBody
  <2>2. Keeps(wsi, [wsi EXCEPT !.mode = "waitReply"]) /\ Keeps(wsi, wsi)
    BY ModeChanges, KeepsOn DEF Stays
  <2> QED BY <1>1, <2>1, <2>2
<1>6. ASSUME ServerReply PROVE BeforeOrAt'
  <2>1. PICK accepts, net : wsi' = Interpret(wsi, accepts, net)
    BY <1>6 DEF ServerReply
  <2>2. wsi.mode = "waitReply" /\ UNCHANGED <<call, arriving, delivered>>
    BY <1>6 DEF ServerReply
  <2>3. Fresh(wsi) /\ arriving = Encode(call) /\ delivered = <<>>
    BY <2>2 DEF BeforeOrAt, BodyAt
  <2>4. CASE Fresh(wsi')
    BY <2>2, <2>3, <2>4, StillFresh
  <2>5. CASE BodyAt(wsi', 0, <<>>)
    <3>1. 0 \in 0..Len(Encode(call)) /\ arriving' = After(0) /\ delivered' = <<>>
      BY <2>2, <2>3, AtTheStart
    <3> QED BY <2>2, <2>5, <3>1, NowAt
  <2> QED BY <2>1, <2>3, <2>4, <2>5, InterpretIs
<1>7. ASSUME BadReply PROVE BeforeOrAt'
  BY <1>2, <1>7, BailKeeps DEF BadReply
<1>8. ASSUME Receive PROVE BeforeOrAt'
  <2> DEFINE t == [wsi EXCEPT !.avail = TRUE, !.pollIn = FALSE]
  <2>1. /\ DOMAIN t = Fields /\ t = [f \in Fields |-> t[f]] /\ t.heard = wsi.heard
        /\ t.parser = wsi.parser /\ t.chunkRemaining = wsi.chunkRemaining
        /\ t.mode = wsi.mode /\ t.state = wsi.state
        /\ t.contentLength = wsi.contentLength /\ t.contentRemain = wsi.contentRemain
    BY DEF Full, Fields
  <2>2. wsi' = t /\ UNCHANGED <<call, arriving, delivered>>
    BY <1>8 DEF Receive
  <2> HIDE DEF t
  <2>3. Stays(wsi, t)
    BY <2>1, ElseChanges DEF Stays
  <2> QED BY <1>2, <2>2, <2>3
<1>9. ASSUME HttpClientRead PROVE BeforeOrAt'
  BY <1>9, ReadKeepsBody
<1>10. ASSUME Timeout \/ HangUp PROVE BeforeOrAt'
  <2> DEFINE t == [wsi EXCEPT !.usable = FALSE]
  <2>1. /\ DOMAIN t = Fields /\ t = [f \in Fields |-> t[f]] /\ t.heard = wsi.heard
        /\ t.parser = wsi.parser /\ t.chunkRemaining = wsi.chunkRemaining
        /\ t.mode = wsi.mode /\ t.state = wsi.state
        /\ t.contentLength = wsi.contentLength /\ t.contentRemain = wsi.contentRemain
    BY DEF Full, Fields
  <2>2. wsi' = Close(t) /\ UNCHANGED <<call, arriving, delivered>>
    BY <1>10 DEF Timeout, HangUp, ViolentDeath
  <2> HIDE DEF t
  <2>3. Stays(wsi, t) /\ Full(t)
    BY <2>1, ElseChanges DEF Stays, Keeps
  <2>4. Stays(wsi, Close(t))
    BY <2>3, CloseKeeps, KeepsOn
  <2> QED BY <1>2, <2>2, <2>4
<1>11. ASSUME ZeroRead PROVE BeforeOrAt'
  BY <1>2, <1>11, CloseKeeps DEF ZeroRead
<1>12. CASE UNCHANGED vars
  BY <1>2, <1>12, KeepsOn DEF vars
<1> QED BY <1>3, <1>4, <1>5, <1>6, <1>7, <1>8, <1>9, <1>10, <1>11, <1>12 DEF Next

LEMMA SameCall == [Next]_vars => call' = call
<1>1. [Next]_vars => \/ call' = call
                     \/ HttpClientRead
  BY DEF Next, vars, Attach, WaitingConnect, WaitingProxyReply, IssueHttpBody, ServerReply,
         BadReply, Receive, Timeout, HangUp, ZeroRead
<1> QED BY <1>1 DEF HttpClientRead

\* However the reads cut the body and the chunks cut the data, and however the
\* connection ends, the callbacks RECEIVE_CLIENT_HTTP_READ hand the user the
\* beginning of the data, and COMPLETED_CLIENT_HTTP is told once it is all of it,
\* in the read that takes the last of it (service.c:560).
THEOREM BodyIsWhole == Spec => []BodyDelivered
<1>1. Init => Story(wsi) /\ BodyInv
  BY NewStory DEF Init, BodyInv, BeforeOrAt, Fresh, NewWsi, Completed, AllHeard
<1>2. Story(wsi) /\ BodyInv /\ [Next]_vars => BodyInv'
  <2> SUFFICES ASSUME Story(wsi), BodyInv, [Next]_vars PROVE BodyInv'
    OBVIOUS
  <2>1. call' = call /\ call' \in Calls /\ (Promised' <=> Promised)
    BY SameCall, SameBody DEF BodyInv
  <2>2. Full(wsi)
    BY DEF Story, Form, Tidy, Full
  <2>3. Promised => BeforeOrAt'
    BY <2>2, BodyStep DEF BodyInv
  <2> QED BY <2>1, <2>3 DEF BodyInv
<1> QED BY <1>1, <1>2, StoryStep, BodyIsDelivered, PTL DEF Spec
=============================================================================
