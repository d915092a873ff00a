--------------------------- MODULE ConnectionsProofs ---------------------------
(***************************************************************************)
(* Proofs about Connections, for any number of connections, of header      *)
(* tables and of slots: the header tables and the list of those who wait   *)
(* for one, the table of pollfds, and the pairing of callbacks.  Every     *)
(* step is a function of the state of the library; each function is shown  *)
(* to keep a sound state sound.                                            *)
(***************************************************************************)
EXTENDS Connections, SequenceTheorems, TLAPS

-----------------------------------------------------------------------------
(* Sound states of the library *)

Fields == {"net", "wire", "upgraded", "mode", "state", "pre", "unusable", "shut",
           "timer", "hdr", "remain", "pollin", "pollout", "trunc", "ah", "pos",
           "est", "closed"}

Live(c) == c.state \notin {"backlog", "dead"}

\* What an HTTP connection has not begun to close, and how a WebSocket ends.
Staged(c) ==
    /\ c.closed \in {0, 1} /\ (c.state # "dead" => c.closed = 0)
    /\ c.state = "backlog" => c.ah = NoTable
    /\ IF c.mode = "ws"
       THEN /\ c.est = 1
            /\ c.state \in {"established", "returned", "flushing", "shutdown", "dead"}
            /\ c.pre \in {"http", "established", "returned", "flushing"}
            /\ c.state = "dead" => c.closed = 1
       ELSE /\ c.est = 0
            /\ c.state \in {"backlog", "http", "headers"} => c.pre = "http"

ConnOk(c) == DOMAIN c = Fields /\ c.ah \in Tables \cup {NoTable} /\ Staged(c)

Shape(s) ==
    /\ DOMAIN s = {"conn", "pool", "waiting", "fds", "listen"}
    /\ DOMAIN s.conn = Conns /\ DOMAIN s.pool = Tables
    /\ \A w \in Conns : ConnOk(s.conn[w])
    /\ \A t \in Tables : /\ DOMAIN s.pool[t] = {"wsi", "rx"}
                         /\ s.pool[t].wsi \in Conns \cup {NoConn}
    /\ s.waiting \in Seq(Conns) /\ s.fds \in Seq(Conns) /\ s.listen \in BOOLEAN

\* HeaderTables, but for who is served.
TablesOk(s) ==
    /\ \A w \in Conns, t \in Tables : s.conn[w].ah = t <=> s.pool[t].wsi = w
    /\ \A t \in Tables : s.pool[t].wsi = NoConn => s.pool[t].rx = <<>> /\ s.waiting = <<>>
    /\ IsInjective(s.waiting)
    /\ \A i \in DOMAIN s.waiting : s.conn[s.waiting[i]].ah = NoTable

\* FdsConsistent, of the connections ws, and the other direction: each is where
\* it remembers to be.
FdsOk(s, ws) ==
    /\ \A w \in Conns : w \in ws <=> s.conn[w].pos # 0
    /\ \A w \in ws : s.conn[w].pos \in DOMAIN s.fds /\ s.fds[s.conn[w].pos] = w
    /\ \A i \in DOMAIN s.fds : s.conn[s.fds[i]].pos = i
    /\ Len(s.fds) <= Slots /\ (s.listen <=> Len(s.fds) < Slots)

Living(s) == {w \in Conns : Live(s.conn[w])}

Waiters(s) == {s.waiting[i] : i \in DOMAIN s.waiting}

Sound(s) ==
    Shape(s) /\ TablesOk(s) /\ FdsOk(s, Living(s)) /\ Waiters(s) \subseteq Living(s)

-----------------------------------------------------------------------------
(* Lists *)

\* The list without w, which is on it at most once.
LEMMA ListWithout ==
    ASSUME NEW q \in Seq(Conns), IsInjective(q), NEW w \in Conns
    PROVE  /\ RemoveFirst(q, w) \in Seq(Conns) /\ IsInjective(RemoveFirst(q, w))
           /\ \A v : (\E i \in DOMAIN RemoveFirst(q, w) : RemoveFirst(q, w)[i] = v)
                       <=> (v # w /\ \E i \in DOMAIN q : q[i] = v)
<1>0. DOMAIN q = 1..Len(q) /\ Len(q) \in Nat
  OBVIOUS
<1>1. CASE \E i \in 1..Len(q) : q[i] = w
  <2>1. PICK k \in 1..Len(q) : q[k] = w
    BY <1>1
  <2> DEFINE r == RemoveAt(q, k)
  <2>2. RemoveFirst(q, w) = r
    <3>1. {i \in 1..Len(q) : q[i] = w} = {k}
      BY <1>0, <2>1 DEF IsInjective
    <3>2. Min({k}) = k
      BY <2>1 DEF Min
    <3>3. SelectInSeq(q, LAMBDA v : v = w) = k
      BY <3>1, <3>2 DEF SelectInSeq
    <3> QED BY <1>1, <3>3 DEF RemoveFirst
  <2>3. /\ r \in Seq(Conns) /\ Len(r) = Len(q) - 1
        /\ \A i \in 1..Len(r) : r[i] = IF i < k THEN q[i] ELSE q[i + 1]
    <3> DEFINE a == SubSeq(q, 1, k - 1)
               b == SubSeq(q, k + 1, Len(q))
    <3>1. /\ a \in Seq(Conns) /\ Len(a) = k - 1
          /\ \A i \in 1..(k - 1) : a[i] = q[i]
      BY <1>0, <2>1, SubSeqProperties
    <3>2. /\ b \in Seq(Conns) /\ Len(b) = Len(q) - k
          /\ \A i \in 1..(Len(q) - k) : b[i] = q[k + i]
      <4>1. k + 1 \in 1..(Len(q) + 1) /\ Len(q) \in 0..Len(q) /\ k \in Nat
        BY <1>0, <2>1
      <4>2. /\ b \in Seq(Conns)
            /\ Len(b) = IF k + 1 <= Len(q) THEN Len(q) - (k + 1) + 1 ELSE 0
            /\ \A i \in 1..(Len(q) - (k + 1) + 1) : b[i] = q[(k + 1) + i - 1]
        BY <4>1, SubSeqProperties
      <4> HIDE DEF b
      <4>3. Len(b) = Len(q) - k /\ Len(q) - (k + 1) + 1 = Len(q) - k
        <5>1. Len(q) \in Nat /\ k \in Nat /\ k <= Len(q)
          BY <1>0, <2>1
        <5> QED BY ONLY <5>1, <4>2
      <4>4. ASSUME NEW i \in 1..(Len(q) - k) PROVE b[i] = q[k + i]
        <5>1. (k + 1) + i - 1 = k + i
          BY <4>1
        <5> QED BY <4>2, <4>3, <5>1
      <4> QED BY <4>2, <4>3, <4>4
    <3>3. r = a \o b
      BY DEF RemoveAt
    <3> HIDE DEF a, b, r
    <3>4. /\ r \in Seq(Conns) /\ Len(r) = Len(a) + Len(b)
          /\ \A i \in 1..(Len(a) + Len(b)) : r[i] = IF i <= Len(a) THEN a[i] ELSE b[i - Len(a)]
      BY <3>1, <3>2, <3>3, ConcatProperties
    <3>5. ASSUME NEW i \in 1..Len(r) PROVE r[i] = IF i < k THEN q[i] ELSE q[i + 1]
      <4>1. CASE i < k
        BY <1>0, <2>1, <3>1, <3>4, <4>1
      <4>2. CASE ~(i < k)
        <5>1. i - (k - 1) \in 1..(Len(q) - k) /\ k + (i - (k - 1)) = i + 1
          BY <1>0, <2>1, <3>1, <3>2, <3>4, <4>2
        <5>2. r[i] = b[i - (k - 1)]
          BY <1>0, <2>1, <3>1, <3>2, <3>4, <4>2
        <5>3. b[i - (k - 1)] = q[k + (i - (k - 1))]
          BY <3>2, <5>1
        <5> QED BY <4>2, <5>1, <5>2, <5>3
      <4> QED BY <4>1, <4>2
    <3> QED BY <1>0, <2>1, <3>1, <3>2, <3>4, <3>5
  <2> HIDE DEF r
  <2>4. DOMAIN r = 1..(Len(q) - 1)
    BY <2>3
  <2>5. IsInjective(r)
    BY <1>0, <2>1, <2>3, <2>4, SMTT(30) DEF IsInjective
  <2>6. ASSUME NEW v, v # w, NEW i \in DOMAIN q, q[i] = v PROVE \E m \in DOMAIN r : r[m] = v
    <3>1. i # k /\ i \in 1..Len(q)
      BY <1>0, <2>1, <2>6
    <3>2. CASE i < k
      BY <1>0, <2>1, <2>3, <2>4, <2>6, <3>1, <3>2
    <3>3. CASE i > k
      <4>1. i - 1 \in 1..(Len(q) - 1) /\ ~(i - 1 < k) /\ (i - 1) + 1 = i
        BY <1>0, <2>1, <3>1, <3>3
      <4>2. r[i - 1] = q[(i - 1) + 1]
        BY <2>3, <2>4, <4>1
      <4> QED BY <2>4, <2>6, <4>1, <4>2
    <3> QED BY <1>0, <2>1, <3>1, <3>2, <3>3
  <2>7. ASSUME NEW m \in DOMAIN r
        PROVE  r[m] # w /\ \E i \in DOMAIN q : q[i] = r[m]
    BY <1>0, <2>1, <2>3, <2>4 DEF IsInjective
  <2> QED BY <2>2, <2>3, <2>5, <2>6, <2>7
<1>2. CASE ~\E i \in 1..Len(q) : q[i] = w
  BY <1>0, <1>2 DEF RemoveFirst
<1> QED BY <1>1, <1>2

-----------------------------------------------------------------------------
(* The parts the functions are made of *)

\* A record of a connection that may replace c: it holds its table and its slot,
\* and lives as long.
Like(c, d) == ConnOk(d) /\ d.ah = c.ah /\ d.pos = c.pos /\ (Live(d) <=> Live(c))

\* State r differs from s in what a function may do to the connection w and the
\* tables: the other connections go on living where they were.
Keeps(s, r) ==
    /\ Shape(r) /\ r.fds = s.fds /\ r.listen = s.listen
    /\ \A u \in Conns : r.conn[u].pos = s.conn[u].pos /\ (Live(r.conn[u]) <=> Live(s.conn[u]))

LEMMA KeepsSound ==
    ASSUME NEW s, NEW r, Sound(s), Keeps(s, r), TablesOk(r), Waiters(r) \subseteq Living(s)
    PROVE  Sound(r)
<1>1. Living(r) = Living(s)
  BY DEF Keeps, Living
<1>2. FdsOk(r, Living(r))
  <2>1. /\ r.fds = s.fds /\ r.listen = s.listen
        /\ \A u \in Conns : r.conn[u].pos = s.conn[u].pos
        /\ \A i \in DOMAIN s.fds : s.fds[i] \in Conns
        /\ Living(s) \subseteq Conns /\ FdsOk(s, Living(s))
    BY DEF Keeps, Sound, Shape, Living
  <2> QED BY <1>1, <2>1 DEF FdsOk
<1> QED BY <1>1, <1>2 DEF Sound, Keeps

LEMMA SetSound ==
    ASSUME NEW s, Sound(s), NEW w \in Conns, NEW d, Like(s.conn[w], d)
    PROVE  /\ Sound(Set(s, w, d)) /\ Set(s, w, d).conn[w] = d
           /\ Set(s, w, d).pool = s.pool
<1> DEFINE r == Set(s, w, d)
<1>1. /\ DOMAIN r = DOMAIN s /\ DOMAIN r.conn = Conns
      /\ r.conn[w] = d /\ \A u \in Conns \ {w} : r.conn[u] = s.conn[u]
      /\ r.pool = s.pool /\ r.waiting = s.waiting /\ r.fds = s.fds /\ r.listen = s.listen
  BY DEF Sound, Shape, Set
<1> HIDE DEF r
<1>2. Keeps(s, r)
  BY <1>1 DEF Sound, Shape, Like, Keeps
<1>3. \A u \in Conns : r.conn[u].ah = s.conn[u].ah
  BY <1>1 DEF Like
<1>4. \A i \in DOMAIN s.waiting : s.waiting[i] \in Conns
  BY DEF Sound, Shape
<1>5. TablesOk(r)
  BY <1>1, <1>3, <1>4 DEF Sound, TablesOk
<1>6. Waiters(r) \subseteq Living(s)
  BY <1>1 DEF Sound, Waiters
<1> QED BY <1>1, <1>2, <1>5, <1>6, KeepsSound DEF r

LEMMA SetRxSound ==
    ASSUME NEW s, Sound(s), NEW w \in Conns, NEW rx
    PROVE  Sound(SetRx(s, w, rx)) /\ SetRx(s, w, rx).conn = s.conn
<1>1. CASE s.conn[w].ah = NoTable
  BY <1>1 DEF SetRx
<1>2. CASE s.conn[w].ah # NoTable
  <2> DEFINE r == SetRx(s, w, rx)
             t == s.conn[w].ah
  <2>1. t \in Tables /\ s.pool[t].wsi = w
    BY <1>2 DEF Sound, Shape, ConnOk, TablesOk
  <2>2. /\ DOMAIN r = DOMAIN s /\ DOMAIN r.pool = Tables
        /\ DOMAIN r.pool[t] = {"wsi", "rx"} /\ r.pool[t].wsi = w
        /\ \A u \in Tables \ {t} : r.pool[u] = s.pool[u]
        /\ r.conn = s.conn /\ r.waiting = s.waiting /\ r.fds = s.fds /\ r.listen = s.listen
    BY <1>2, <2>1 DEF Sound, Shape, SetRx
  <2> HIDE DEF r, t
  <2>3. Keeps(s, r)
    BY <2>1, <2>2 DEF Sound, Shape, Keeps
  <2>4. \A u \in Tables : r.pool[u].wsi = s.pool[u].wsi
    BY <2>1, <2>2
  <2>5. w # NoConn
    BY ConnectionsAssumption
  <2>6. TablesOk(r)
    BY <2>1, <2>2, <2>4, <2>5 DEF Sound, TablesOk
  <2>7. Waiters(r) \subseteq Living(s)
    BY <2>2 DEF Sound, Waiters
  <2> QED BY <2>2, <2>3, <2>6, <2>7, KeepsSound DEF r
<1> QED BY <1>1, <1>2

LEMMA AttachSound ==
    ASSUME NEW s, Sound(s), NEW w \in Conns, Live(s.conn[w]), s.conn[w].ah = NoTable
    PROVE  /\ Sound(Attach(s, w)) /\ Live(Attach(s, w).conn[w])
           /\ Attach(s, w).conn[w].state = s.conn[w].state
           /\ Attach(s, w).conn[w].mode = s.conn[w].mode
<1> DEFINE free == {t \in Tables : s.pool[t].wsi = NoConn}
           r == Attach(s, w)
<1>0. /\ w \in Living(s) /\ s.waiting \in Seq(Conns) /\ IsInjective(s.waiting)
      /\ DOMAIN s.conn[w] = Fields /\ ConnOk(s.conn[w])
      /\ DOMAIN s = {"conn", "pool", "waiting", "fds", "listen"} /\ DOMAIN s.conn = Conns
      /\ DOMAIN s.pool = Tables
  BY DEF Sound, Shape, TablesOk, Living, ConnOk
<1>1. CASE free = {}
  <2> DEFINE d == [s.conn[w] EXCEPT !.pollin = FALSE]
             q == IF Contains(s.waiting, w) THEN s.waiting ELSE <<w>> \o s.waiting
  <2>1. /\ DOMAIN r = DOMAIN s /\ DOMAIN r.conn = Conns
        /\ r.conn[w] = d /\ \A u \in Conns \ {w} : r.conn[u] = s.conn[u]
        /\ r.pool = s.pool /\ r.fds = s.fds /\ r.listen = s.listen /\ r.waiting = q
    BY <1>0, <1>1 DEF Attach
  <2>2. Like(s.conn[w], d) /\ d.state = s.conn[w].state /\ d.mode = s.conn[w].mode
    BY <1>0 DEF Like, ConnOk, Fields, Staged, Live
  <2>3. /\ q \in Seq(Conns) /\ IsInjective(q)
        /\ \A i \in DOMAIN q : q[i] = w \/ \E k \in DOMAIN s.waiting : q[i] = s.waiting[k]
    <3>1. CASE Contains(s.waiting, w)
      BY <1>0, <3>1
    <3>2. CASE ~Contains(s.waiting, w)
      <4>1. q = <<w>> \o s.waiting
        BY <3>2
      <4>2. /\ q \in Seq(Conns) /\ DOMAIN q = 1..(Len(s.waiting) + 1)
            /\ q[1] = w /\ \A i \in 2..(Len(s.waiting) + 1) : q[i] = s.waiting[i - 1]
            /\ Len(s.waiting) \in Nat /\ DOMAIN s.waiting = 1..Len(s.waiting)
        BY <1>0, <4>1
      <4> HIDE DEF q
      <4>3. \A i \in DOMAIN q : i = 1 \/ (i \in 2..(Len(s.waiting) + 1) /\ i - 1 \in DOMAIN s.waiting)
        BY <4>2
      <4>4. \A k \in DOMAIN s.waiting : s.waiting[k] # w
        BY <3>2, <4>2 DEF Contains
      <4>5. IsInjective(q)
        BY <1>0, <4>2, <4>3, <4>4, SMTT(30) DEF IsInjective
      <4> QED BY <4>2, <4>3, <4>5
    <3> QED BY <3>1, <3>2
  <2> HIDE DEF r, d, q
  <2>4. Keeps(s, r)
    BY <2>1, <2>2, <2>3 DEF Sound, Shape, Keeps, Like
  <2>5. TablesOk(r)
    <3>1. \A u \in Conns : r.conn[u].ah = s.conn[u].ah
      BY <2>1, <2>2 DEF Like
    <3>2. \A i \in DOMAIN q : q[i] \in Conns /\ s.conn[q[i]].ah = NoTable
      BY <2>3 DEF Sound, TablesOk
    <3> QED BY <1>1, <2>1, <2>3, <3>1, <3>2 DEF Sound, TablesOk
  <2>6. Waiters(r) \subseteq Living(s)
    BY <1>0, <2>1, <2>3 DEF Sound, Waiters
  <2> QED BY <2>1, <2>2, <2>4, <2>5, <2>6, KeepsSound DEF r, Live
<1>2. CASE free # {}
  <2> DEFINE t == CHOOSE u \in free : TRUE
             d == [s.conn[w] EXCEPT !.ah = t, !.pollin = TRUE]
             q == RemoveFirst(s.waiting, w)
  <2>1. t \in Tables /\ s.pool[t].wsi = NoConn /\ w # NoConn /\ t # NoTable
    BY <1>2, ConnectionsAssumption
  <2>2. /\ DOMAIN r = DOMAIN s /\ DOMAIN r.conn = Conns /\ DOMAIN r.pool = Tables
        /\ r.conn[w] = d /\ \A u \in Conns \ {w} : r.conn[u] = s.conn[u]
        /\ r.pool[t] = [wsi |-> w, rx |-> <<>>] /\ \A u \in Tables \ {t} : r.pool[u] = s.pool[u]
        /\ r.fds = s.fds /\ r.listen = s.listen /\ r.waiting = q
    BY <1>0, <1>2, <2>1 DEF Attach
  <2> HIDE DEF t
  <2>3. /\ ConnOk(d) /\ d.ah = t /\ d.pos = s.conn[w].pos /\ d.state = s.conn[w].state
        /\ d.mode = s.conn[w].mode
    BY <1>0, <2>1 DEF ConnOk, Fields, Staged, Live
  <2>4. /\ q \in Seq(Conns) /\ IsInjective(q)
        /\ \A i \in DOMAIN q : q[i] # w /\ \E k \in DOMAIN s.waiting : q[i] = s.waiting[k]
    <3>1. /\ q \in Seq(Conns) /\ IsInjective(q)
          /\ \A v : (\E i \in DOMAIN q : q[i] = v)
                      <=> (v # w /\ \E i \in DOMAIN s.waiting : s.waiting[i] = v)
      <4>1. s.waiting \in Seq(Conns) /\ IsInjective(s.waiting)
        BY <1>0
      <4> QED BY <4>1, ListWithout, ZenonT(40)
    <3> HIDE DEF q
    <3> QED BY <3>1
  <2> HIDE DEF r, d, q
  <2>5. Keeps(s, r)
    <3>1. \A u \in Conns : /\ ConnOk(r.conn[u]) /\ r.conn[u].pos = s.conn[u].pos
                           /\ Live(r.conn[u]) <=> Live(s.conn[u])
      BY <2>2, <2>3 DEF Sound, Shape, Live
    <3>2. \A u \in Tables : DOMAIN r.pool[u] = {"wsi", "rx"} /\ r.pool[u].wsi \in Conns \cup {NoConn}
      BY <2>1, <2>2 DEF Sound, Shape
    <3> QED BY <1>0, <2>2, <2>4, <3>1, <3>2 DEF Sound, Shape, Keeps
  <2>6. s.waiting = <<>>
    BY <2>1 DEF Sound, TablesOk
  <2>7. q = <<>>
    <3>1. DOMAIN s.waiting = {} /\ DOMAIN q = 1..Len(q) /\ Len(q) \in Nat
      BY <2>4, <2>6
    <3>2. Len(q) = 0
      <4>1. Len(q) # 0 => 1 \in DOMAIN q
        BY <3>1
      <4> QED BY <2>4, <3>1, <4>1
    <3> QED BY <2>4, <3>2, EmptySeq
  <2>8. TablesOk(r)
    <3>1. \A u \in Conns, k \in Tables : r.conn[u].ah = k <=> r.pool[k].wsi = u
      <4>1. ASSUME NEW u \in Conns, NEW k \in Tables
            PROVE  s.conn[u].ah = k <=> s.pool[k].wsi = u
        BY DEF Sound, TablesOk
      <4>2. ASSUME NEW u \in Conns, NEW k \in Tables, u # w, k # t
            PROVE  r.conn[u].ah = k <=> r.pool[k].wsi = u
        BY <2>2, <4>1, <4>2
      <4>3. ASSUME NEW u \in Conns, u # w
            PROVE  ~(r.conn[u].ah = t) /\ ~(r.pool[t].wsi = u)
        BY <2>1, <2>2, <4>1, <4>3, ConnectionsAssumption
      <4>4. ASSUME NEW k \in Tables, k # t
            PROVE  ~(r.conn[w].ah = k) /\ ~(r.pool[k].wsi = w)
        BY <2>1, <2>2, <2>3, <4>1, <4>4, ConnectionsAssumption
      <4>5. r.conn[w].ah = t /\ r.pool[t].wsi = w
        BY <2>2, <2>3
      <4> QED BY <4>2, <4>3, <4>4, <4>5
    <3>2. \A k \in Tables : r.pool[k].wsi = NoConn => r.pool[k].rx = <<>> /\ r.waiting = <<>>
      BY <2>1, <2>2, <2>7 DEF Sound, TablesOk
    <3> QED BY <2>2, <2>4, <2>6, <3>1, <3>2 DEF TablesOk
  <2>9. Waiters(r) \subseteq Living(s)
    BY <2>2, <2>4 DEF Sound, Waiters
  <2> QED BY <2>2, <2>3, <2>5, <2>8, <2>9, KeepsSound DEF r, Live
<1> QED BY <1>1, <1>2

\* The list without its last element.
LEMMA ListFront ==
    ASSUME NEW q \in Seq(Conns), IsInjective(q), q # <<>>
    PROVE  /\ Front(q) \in Seq(Conns) /\ IsInjective(Front(q))
           /\ \E i \in DOMAIN q : q[i] = Last(q)
           /\ \A i \in DOMAIN Front(q) : /\ Front(q)[i] # Last(q)
                                         /\ \E k \in DOMAIN q : q[k] = Front(q)[i]
<1>1. Len(q) \in Nat /\ Len(q) # 0 /\ DOMAIN q = 1..Len(q)
  BY EmptySeq
<1> DEFINE r == Front(q)
<1>2. /\ r \in Seq(Conns) /\ Len(r) = Len(q) - 1
      /\ \A i \in 1..(Len(q) - 1) : r[i] = q[i]
  BY <1>1, SubSeqProperties DEF Front
<1> HIDE DEF r
<1>3. DOMAIN r = 1..(Len(q) - 1)
  BY <1>2
<1>4. Last(q) = q[Len(q)] /\ Len(q) \in DOMAIN q
  BY <1>1 DEF Last
<1>5. \A i \in DOMAIN r : i \in DOMAIN q /\ i # Len(q) /\ r[i] = q[i]
  BY <1>1, <1>2, <1>3
<1>6. IsInjective(r)
  BY <1>5 DEF IsInjective
<1> QED BY <1>2, <1>4, <1>5, <1>6 DEF r, IsInjective

LEMMA DetachKeeps ==
    ASSUME NEW s, Shape(s), TablesOk(s), NEW w \in Conns,
           \A u \in Waiters(s) : s.conn[u].state # "backlog"
    PROVE  /\ Keeps(s, Detach(s, w)) /\ TablesOk(Detach(s, w))
           /\ Waiters(Detach(s, w)) \subseteq Waiters(s) \ {w}
           /\ \A u \in Conns : /\ Detach(s, w).conn[u].state = s.conn[u].state
                               /\ Detach(s, w).conn[u].mode = s.conn[u].mode
<1> DEFINE r == Detach(s, w)
           t == s.conn[w].ah
<1>0. /\ s.waiting \in Seq(Conns) /\ IsInjective(s.waiting)
      /\ \A u \in Conns : DOMAIN s.conn[u] = Fields /\ ConnOk(s.conn[u])
      /\ DOMAIN s = {"conn", "pool", "waiting", "fds", "listen"} /\ DOMAIN s.conn = Conns
      /\ DOMAIN s.pool = Tables /\ t \in Tables \cup {NoTable}
      /\ \A i \in DOMAIN s.waiting : s.waiting[i] \in Conns
  BY DEF Shape, TablesOk, ConnOk
<1>1. CASE t = NoTable
  <2> DEFINE q == RemoveFirst(s.waiting, w)
  <2>1. /\ q \in Seq(Conns) /\ IsInjective(q)
        /\ \A i \in DOMAIN q : q[i] # w /\ \E k \in DOMAIN s.waiting : q[i] = s.waiting[k]
    <3>1. /\ q \in Seq(Conns) /\ IsInjective(q)
          /\ \A v : (\E i \in DOMAIN q : q[i] = v)
                      <=> (v # w /\ \E i \in DOMAIN s.waiting : s.waiting[i] = v)
      <4>1. s.waiting \in Seq(Conns) /\ IsInjective(s.waiting)
        BY <1>0
      <4> QED BY <4>1, ListWithout, ZenonT(40)
    <3> HIDE DEF q
    <3> QED BY <3>1
  <2>2. /\ DOMAIN r = DOMAIN s /\ r.conn = s.conn /\ r.pool = s.pool /\ r.fds = s.fds
        /\ r.listen = s.listen /\ r.waiting = q
    BY <1>0, <1>1 DEF Detach
  <2> HIDE DEF r, q
  <2>3. s.waiting = <<>> => q = <<>>
    <3>1. ASSUME s.waiting = <<>> PROVE DOMAIN q = {}
      <4>1. DOMAIN s.waiting = {}
        BY <3>1
      <4> QED BY <2>1, <4>1
    <3>2. DOMAIN q = 1..Len(q) /\ Len(q) \in Nat
      BY <2>1
    <3>3. DOMAIN q = {} => Len(q) = 0
      <4>1. Len(q) # 0 => 1 \in DOMAIN q
        BY <3>2
      <4> QED BY <4>1
    <3> QED BY <2>1, <3>1, <3>3, EmptySeq
  <2>4. Keeps(s, r)
    BY <2>1, <2>2 DEF Shape, Keeps
  <2>5. TablesOk(r)
    BY <2>1, <2>2, <2>3 DEF TablesOk
  <2>6. Waiters(r) \subseteq Waiters(s) \ {w}
    BY <2>1, <2>2 DEF Waiters
  <2> QED BY <2>2, <2>4, <2>5, <2>6 DEF r
<1>t. CASE t # NoTable
  <2>0. t \in Tables /\ s.pool[t].wsi = w /\ w # NoConn /\ w \notin Waiters(s)
    BY <1>0, <1>t, ConnectionsAssumption DEF TablesOk, Waiters
  <2>1. CASE s.pool[t].rx # <<>>
    BY <1>t, <2>0, <2>1 DEF Detach, Keeps, Shape
  <2>2. CASE s.pool[t].rx = <<>> /\ s.waiting = <<>>
    <3> DEFINE d == [s.conn[w] EXCEPT !.ah = NoTable]
    <3>1. /\ DOMAIN r = DOMAIN s /\ DOMAIN r.conn = Conns /\ DOMAIN r.pool = Tables
          /\ r.conn[w] = d /\ \A u \in Conns \ {w} : r.conn[u] = s.conn[u]
          /\ r.pool[t] = FreeTable /\ \A u \in Tables \ {t} : r.pool[u] = s.pool[u]
          /\ r.fds = s.fds /\ r.listen = s.listen /\ r.waiting = s.waiting
      BY <1>0, <1>t, <2>0, <2>2 DEF Detach
    <3>2. /\ ConnOk(d) /\ d.ah = NoTable /\ d.pos = s.conn[w].pos
          /\ d.state = s.conn[w].state /\ d.mode = s.conn[w].mode
      BY <1>0 DEF ConnOk, Fields, Staged
    <3> HIDE DEF r, d, t
    <3>3. Keeps(s, r)
      <4>1. \A u \in Conns : /\ ConnOk(r.conn[u]) /\ r.conn[u].pos = s.conn[u].pos
                             /\ Live(r.conn[u]) <=> Live(s.conn[u])
        BY <1>0, <3>1, <3>2 DEF Live
      <4>2. \A u \in Tables : DOMAIN r.pool[u] = {"wsi", "rx"} /\ r.pool[u].wsi \in Conns \cup {NoConn}
        BY <3>1 DEF Shape, FreeTable
      <4> QED BY <1>0, <3>1, <4>1, <4>2 DEF Shape, Keeps
    <3>4. TablesOk(r)
      <4>1. \A u \in Conns, k \in Tables : s.conn[u].ah = k <=> s.pool[k].wsi = u
        BY DEF TablesOk
      <4>2. \A u \in Conns, k \in Tables : r.conn[u].ah = k <=> r.pool[k].wsi = u
        <5>1. ASSUME NEW u \in Conns, NEW k \in Tables, u # w
              PROVE  r.conn[u].ah = k <=> r.pool[k].wsi = u
          BY <2>0, <3>1, <4>1, <5>1, ConnectionsAssumption DEF FreeTable
        <5>2. ASSUME NEW k \in Tables PROVE ~(r.conn[w].ah = k) /\ ~(r.pool[k].wsi = w)
          BY <2>0, <3>1, <3>2, <4>1, ConnectionsAssumption DEF FreeTable, t
        <5> QED BY <5>1, <5>2
      <4>3. \A k \in Tables : r.pool[k].wsi = NoConn => r.pool[k].rx = <<>> /\ r.waiting = <<>>
        BY <2>2, <3>1 DEF TablesOk, FreeTable
      <4> QED BY <2>2, <3>1, <4>2, <4>3 DEF TablesOk
    <3> QED BY <2>0, <3>1, <3>2, <3>3, <3>4 DEF r, Waiters
  <2>3. CASE s.pool[t].rx = <<>> /\ s.waiting # <<>>
    <3> DEFINE v == Last(s.waiting)
               q == Front(s.waiting)
               c == [s.conn[w] EXCEPT !.ah = NoTable]
               d == [s.conn[v] EXCEPT !.ah = t, !.pollin = TRUE]
    <3>1. /\ q \in Seq(Conns) /\ IsInjective(q)
          /\ \E i \in DOMAIN s.waiting : s.waiting[i] = v
          /\ \A i \in DOMAIN q : q[i] # v /\ \E k \in DOMAIN s.waiting : s.waiting[k] = q[i]
      BY <1>0, <2>3, ListFront, Zenon
    <3> HIDE DEF v, q
    <3>2. /\ v \in Conns /\ v # w /\ s.conn[v].ah = NoTable /\ v # NoConn
          /\ s.conn[v].state # "backlog"
      BY <1>0, <1>t, <3>1, ConnectionsAssumption DEF TablesOk, Waiters
    <3>3. /\ DOMAIN r = DOMAIN s /\ DOMAIN r.conn = Conns /\ DOMAIN r.pool = Tables
          /\ r.conn[w] = c /\ r.conn[v] = d
          /\ \A u \in Conns \ {w, v} : r.conn[u] = s.conn[u]
          /\ DOMAIN r.pool[t] = {"wsi", "rx"} /\ r.pool[t].wsi = v
          /\ \A u \in Tables \ {t} : r.pool[u] = s.pool[u]
          /\ r.fds = s.fds /\ r.listen = s.listen /\ r.waiting = q
      <4>1. DOMAIN s.pool[t] = {"wsi", "rx"}
        BY <2>0 DEF Shape
      <4> DEFINE x == Set(s, w, c)
                 y == Set(x, v, d)
      <4>2. r = [y EXCEPT !.pool[t].wsi = v, !.waiting = Front(@)]
        BY <1>t, <2>3 DEF Detach, v
      <4>3. /\ DOMAIN x = DOMAIN s /\ DOMAIN x.conn = Conns
            /\ x.conn[w] = c /\ \A u \in Conns \ {w} : x.conn[u] = s.conn[u]
            /\ x.pool = s.pool /\ x.waiting = s.waiting /\ x.fds = s.fds /\ x.listen = s.listen
        BY <1>0 DEF Set
      <4>4. /\ DOMAIN y = DOMAIN s /\ DOMAIN y.conn = Conns /\ y.conn[v] = d /\ y.conn[w] = c
            /\ \A u \in Conns \ {w, v} : y.conn[u] = s.conn[u]
            /\ y.pool = s.pool /\ y.waiting = s.waiting /\ y.fds = s.fds /\ y.listen = s.listen
        <5> HIDE DEF x, c, d
        <5> QED BY <1>0, <3>2, <4>3 DEF Set
      <4>5. Front(y.waiting) = q
        BY <4>4 DEF q
      <4> HIDE DEF y, c, d, r
      <4> QED BY <1>0, <2>0, <4>1, <4>2, <4>4, <4>5
    <3>4. /\ ConnOk(c) /\ c.ah = NoTable /\ c.pos = s.conn[w].pos
          /\ c.state = s.conn[w].state /\ c.mode = s.conn[w].mode
      BY <1>0 DEF ConnOk, Fields, Staged
    <3>5. /\ ConnOk(d) /\ d.ah = t /\ d.pos = s.conn[v].pos
          /\ d.state = s.conn[v].state /\ d.mode = s.conn[v].mode
      BY <1>0, <3>2 DEF ConnOk, Fields, Staged
    <3> HIDE DEF r, c, d, t
    <3>6. Keeps(s, r)
      <4>1. \A u \in Conns : /\ ConnOk(r.conn[u]) /\ r.conn[u].pos = s.conn[u].pos
                             /\ Live(r.conn[u]) <=> Live(s.conn[u])
        BY <1>0, <3>3, <3>4, <3>5 DEF Live
      <4>2. \A u \in Tables : DOMAIN r.pool[u] = {"wsi", "rx"} /\ r.pool[u].wsi \in Conns \cup {NoConn}
        BY <3>2, <3>3 DEF Shape
      <4> QED BY <1>0, <3>1, <3>3, <4>1, <4>2 DEF Shape, Keeps
    <3>7. TablesOk(r)
      <4>1. \A u \in Conns, k \in Tables : s.conn[u].ah = k <=> s.pool[k].wsi = u
        BY DEF TablesOk
      <4>2. \A u \in Conns, k \in Tables : r.conn[u].ah = k <=> r.pool[k].wsi = u
        <5>1. ASSUME NEW u \in Conns, NEW k \in Tables, u # w, u # v
              PROVE  r.conn[u].ah = k <=> r.pool[k].wsi = u
          BY <2>0, <3>3, <4>1, <5>1
        <5>2. ASSUME NEW k \in Tables PROVE ~(r.conn[w].ah = k) /\ ~(r.pool[k].wsi = w)
          BY <2>0, <3>2, <3>3, <3>4, <4>1, ConnectionsAssumption DEF t
        <5>3. ASSUME NEW k \in Tables PROVE r.conn[v].ah = k <=> r.pool[k].wsi = v
          BY <2>0, <3>2, <3>3, <3>5, <4>1, ConnectionsAssumption
        <5> QED BY <5>1, <5>2, <5>3
      <4>3. \A k \in Tables : r.pool[k].wsi # NoConn
        BY <2>3, <3>2, <3>3 DEF TablesOk
      <4>4. \A i \in DOMAIN q : r.conn[q[i]].ah = NoTable
        <5> SUFFICES ASSUME NEW i \in DOMAIN q PROVE r.conn[q[i]].ah = NoTable
          OBVIOUS
        <5>1. PICK k \in DOMAIN s.waiting : s.waiting[k] = q[i]
          BY <3>1
        <5>2. q[i] \in Conns /\ q[i] # v /\ s.conn[q[i]].ah = NoTable
          BY <1>0, <3>1, <5>1 DEF TablesOk
        <5> QED BY <3>3, <3>4, <5>2
      <4> QED BY <3>1, <3>3, <4>2, <4>3, <4>4 DEF TablesOk
    <3>8. Waiters(r) \subseteq Waiters(s) \ {w}
      BY <2>0, <3>1, <3>3 DEF Waiters
    <3> QED BY <3>3, <3>4, <3>5, <3>6, <3>7, <3>8 DEF r
  <2> QED BY <2>1, <2>2, <2>3
<1> QED BY <1>0, <1>1, <1>t

-----------------------------------------------------------------------------
(* The table of pollfds *)

\* What the functions on the table of pollfds leave as it was.
Elsewhere(s, r) ==
    /\ Shape(r) /\ r.pool = s.pool /\ r.waiting = s.waiting
    /\ \A u \in Conns : /\ r.conn[u].ah = s.conn[u].ah
                        /\ r.conn[u].state = s.conn[u].state
                        /\ r.conn[u].mode = s.conn[u].mode

LEMMA RemoveFdsKeeps ==
    ASSUME NEW s, Shape(s), NEW ws, ws \subseteq Conns, FdsOk(s, ws), NEW w \in ws
    PROVE  Elsewhere(s, RemoveFromFds(s, w)) /\ FdsOk(RemoveFromFds(s, w), ws \ {w})
<1> DEFINE r == RemoveFromFds(s, w)
           p == s.conn[w].pos
           n == Len(s.fds)
           v == Last(s.fds)
           put == [s.fds EXCEPT ![p] = v]
           q == Front(put)
           d == [s.conn[v] EXCEPT !.pos = p]
           m == [s EXCEPT !.conn[v].pos = p, !.fds = q]
           e == [m.conn[w] EXCEPT !.pos = 0]
<1>1. /\ s.fds \in Seq(Conns) /\ n \in Nat /\ DOMAIN s.fds = 1..n
      /\ p \in 1..n /\ s.fds[p] = w /\ n # 0 /\ w \in Conns
      /\ v = s.fds[n] /\ v \in Conns /\ s.conn[v].pos = n
      /\ \A i \in 1..n : s.fds[i] \in Conns /\ s.conn[s.fds[i]].pos = i
  BY DEF Shape, FdsOk, Last
<1>2. /\ q \in Seq(Conns) /\ Len(q) = n - 1
      /\ \A i \in 1..(n - 1) : q[i] = IF i = p THEN v ELSE s.fds[i]
  <2>1. put \in Seq(Conns) /\ Len(put) = n /\ \A i \in 1..n : put[i] = IF i = p THEN v ELSE s.fds[i]
    BY <1>1
  <2> HIDE DEF put
  <2> QED BY <1>1, <2>1, SubSeqProperties DEF Front
<1>3. /\ \A u \in Conns : DOMAIN s.conn[u] = Fields /\ ConnOk(s.conn[u])
      /\ DOMAIN s = {"conn", "pool", "waiting", "fds", "listen"} /\ DOMAIN s.conn = Conns
  BY DEF Shape, ConnOk
<1>4. ASSUME NEW c, ConnOk(c), NEW x
      PROVE  /\ ConnOk([c EXCEPT !.pos = x]) /\ [c EXCEPT !.pos = x].pos = x
             /\ [c EXCEPT !.pos = x].ah = c.ah /\ [c EXCEPT !.pos = x].state = c.state
             /\ [c EXCEPT !.pos = x].mode = c.mode
  BY <1>4 DEF ConnOk, Fields, Staged
<1>5. /\ DOMAIN m = DOMAIN s /\ DOMAIN m.conn = Conns /\ m.conn[v] = d
      /\ \A u \in Conns \ {v} : m.conn[u] = s.conn[u]
      /\ m.pool = s.pool /\ m.waiting = s.waiting /\ m.fds = q
  <2> HIDE DEF q
  <2> QED BY <1>1, <1>3
<1>6. /\ DOMAIN r = DOMAIN s /\ DOMAIN r.conn = Conns /\ r.conn[w] = e
      /\ \A u \in Conns \ {w} : r.conn[u] = m.conn[u]
      /\ r.pool = s.pool /\ r.waiting = s.waiting /\ r.fds = q /\ r.listen = TRUE
  <2>1. r = [[m EXCEPT !.conn[w].pos = 0] EXCEPT !.listen = TRUE]
    BY DEF RemoveFromFds, PollListening
  <2> HIDE DEF m, r, q
  <2> QED BY <1>1, <1>3, <1>5, <2>1
<1>7. ConnOk(d) /\ d.pos = p /\ d.ah = s.conn[v].ah /\ d.state = s.conn[v].state /\ d.mode = s.conn[v].mode
  BY <1>1, <1>3, <1>4
<1>8. ConnOk(m.conn[w]) /\ m.conn[w].ah = s.conn[w].ah /\ m.conn[w].state = s.conn[w].state
      /\ m.conn[w].mode = s.conn[w].mode
  <2> HIDE DEF m, d
  <2> QED BY <1>1, <1>3, <1>5, <1>7
<1>9. ConnOk(e) /\ e.pos = 0 /\ e.ah = s.conn[w].ah /\ e.state = s.conn[w].state /\ e.mode = s.conn[w].mode
  <2> HIDE DEF m
  <2> QED BY <1>4, <1>8
<1> HIDE DEF r, q, d, m, e
<1>10. \A u \in Conns : /\ ConnOk(r.conn[u]) /\ r.conn[u].ah = s.conn[u].ah
                        /\ r.conn[u].state = s.conn[u].state
                        /\ r.conn[u].mode = s.conn[u].mode
                        /\ r.conn[u].pos = IF u = w THEN 0 ELSE IF u = v THEN p ELSE s.conn[u].pos
  BY <1>1, <1>3, <1>5, <1>6, <1>7, <1>9
<1>11. Elsewhere(s, r)
  BY <1>2, <1>3, <1>6, <1>10 DEF Elsewhere, Shape
<1>12. FdsOk(r, ws \ {w})
  <2>1. /\ \A u \in Conns : u \in ws <=> s.conn[u].pos # 0
        /\ \A u \in ws : s.conn[u].pos \in 1..n /\ s.fds[s.conn[u].pos] = u
        /\ n <= Slots /\ Slots \in Nat
    BY <1>1, ConnectionsAssumption DEF FdsOk
  <2>2. ASSUME NEW u \in Conns PROVE u \in ws \ {w} <=> r.conn[u].pos # 0
    BY <1>1, <1>10, <2>1
  <2>3. DOMAIN q = 1..(n - 1)
    BY <1>1, <1>2
  <2>4. ASSUME NEW u \in ws \ {w}
        PROVE  r.conn[u].pos \in DOMAIN q /\ q[r.conn[u].pos] = u
    <3>1. CASE u = v
      <4>1. p # n /\ p \in 1..(n - 1) /\ r.conn[u].pos = p
        BY <1>1, <1>10, <2>4, <3>1
      <4> QED BY <1>2, <2>3, <3>1, <4>1
    <3>2. CASE u # v
      <4>1. r.conn[u].pos = s.conn[u].pos /\ s.conn[u].pos \in 1..(n - 1) /\ s.conn[u].pos # p
        BY <1>1, <1>10, <2>1, <2>4, <3>2
      <4> QED BY <1>2, <2>1, <2>3, <4>1
    <3> QED BY <3>1, <3>2
  <2>5. ASSUME NEW i \in DOMAIN q PROVE r.conn[q[i]].pos = i
    <3>1. i \in 1..(n - 1) /\ i \in 1..n /\ i # n
      BY <1>1, <2>3
    <3>2. CASE i = p
      BY <1>1, <1>2, <1>10, <3>1, <3>2
    <3>3. CASE i # p
      <4>1. q[i] = s.fds[i] /\ s.fds[i] \in Conns /\ s.conn[s.fds[i]].pos = i
        BY <1>1, <1>2, <3>1, <3>3
      <4>2. s.fds[i] # w /\ s.fds[i] # v
        BY <1>1, <3>1, <3>3, <4>1
      <4> QED BY <1>10, <4>1, <4>2
    <3> QED BY <3>2, <3>3
  <2>6. Len(q) <= Slots /\ Len(q) < Slots
    BY <1>1, <1>2, <2>1
  <2> QED BY <1>6, <2>2, <2>4, <2>5, <2>6 DEF FdsOk
<1> QED BY <1>11, <1>12 DEF r

LEMMA InsertFdsKeeps ==
    ASSUME NEW s, Shape(s), NEW ws, ws \subseteq Conns, FdsOk(s, ws), s.listen,
           NEW w \in Conns \ ws
    PROVE  Elsewhere(s, InsertIntoFds(s, w)) /\ FdsOk(InsertIntoFds(s, w), ws \cup {w})
<1> DEFINE r == InsertIntoFds(s, w)
           n == Len(s.fds)
           d == [s.conn[w] EXCEPT !.pos = n + 1, !.pollin = TRUE]
           q == Append(s.fds, w)
<1>1. /\ s.fds \in Seq(Conns) /\ n \in Nat /\ DOMAIN s.fds = 1..n /\ n < Slots /\ Slots \in Nat
      /\ \A i \in 1..n : s.fds[i] \in Conns /\ s.conn[s.fds[i]].pos = i
      /\ \A u \in Conns : u \in ws <=> s.conn[u].pos # 0
      /\ \A u \in ws : s.conn[u].pos \in 1..n /\ s.fds[s.conn[u].pos] = u
  BY ConnectionsAssumption DEF Shape, FdsOk
<1>2. /\ q \in Seq(Conns) /\ Len(q) = n + 1 /\ DOMAIN q = 1..(n + 1) /\ q[n + 1] = w
      /\ \A i \in 1..n : q[i] = s.fds[i]
  BY <1>1
<1>3. /\ \A u \in Conns : DOMAIN s.conn[u] = Fields /\ ConnOk(s.conn[u])
      /\ DOMAIN s = {"conn", "pool", "waiting", "fds", "listen"} /\ DOMAIN s.conn = Conns
  BY DEF Shape, ConnOk
<1>4. /\ DOMAIN r = DOMAIN s /\ DOMAIN r.conn = Conns /\ r.conn[w] = d
      /\ \A u \in Conns \ {w} : r.conn[u] = s.conn[u]
      /\ r.pool = s.pool /\ r.waiting = s.waiting /\ r.fds = q
      /\ r.listen = (n + 1 < Slots)
  <2> DEFINE x == [s EXCEPT !.fds = q, !.conn[w] = d]
  <2>1. r = IF n + 1 < Slots THEN x ELSE [x EXCEPT !.listen = FALSE]
    <3>1. Len(x.fds) = n + 1
      BY <1>2, <1>3
    <3> QED BY <3>1 DEF InsertIntoFds, PollListening
  <2>2. /\ DOMAIN x = DOMAIN s /\ DOMAIN x.conn = Conns /\ x.conn[w] = d
        /\ \A u \in Conns \ {w} : x.conn[u] = s.conn[u]
        /\ x.pool = s.pool /\ x.waiting = s.waiting /\ x.fds = q /\ x.listen = s.listen
    BY <1>3
  <2>3. s.listen = TRUE /\ DOMAIN s = {"conn", "pool", "waiting", "fds", "listen"}
    BY <1>3 DEF Shape
  <2> HIDE DEF x, r, d, q
  <2>4. CASE n + 1 < Slots
    BY <2>1, <2>2, <2>3, <2>4
  <2>5. CASE ~(n + 1 < Slots)
    <3>1. r = [x EXCEPT !.listen = FALSE]
      BY <2>1, <2>5
    <3>2. /\ DOMAIN r = DOMAIN x /\ r.conn = x.conn /\ r.pool = x.pool /\ r.waiting = x.waiting
          /\ r.fds = x.fds /\ r.listen = FALSE
      BY <2>2, <2>3, <3>1
    <3>3. r.listen = (n + 1 < Slots)
      <4>1. ~r.listen /\ r.listen \in BOOLEAN
        BY <3>2
      <4> QED BY <2>5, <4>1
    <3> QED BY <2>2, <3>2, <3>3
  <2> QED BY <2>4, <2>5
<1>5. /\ ConnOk(d) /\ d.pos = n + 1 /\ d.ah = s.conn[w].ah /\ d.state = s.conn[w].state
      /\ d.mode = s.conn[w].mode
  BY <1>3 DEF ConnOk, Fields, Staged
<1> HIDE DEF r, d, q
<1>6. \A u \in Conns : /\ ConnOk(r.conn[u]) /\ r.conn[u].ah = s.conn[u].ah
                       /\ r.conn[u].state = s.conn[u].state
                       /\ r.conn[u].mode = s.conn[u].mode
                       /\ r.conn[u].pos = IF u = w THEN n + 1 ELSE s.conn[u].pos
  BY <1>3, <1>4, <1>5
<1>7. Elsewhere(s, r)
  BY <1>2, <1>3, <1>4, <1>6 DEF Elsewhere, Shape
<1>8. FdsOk(r, ws \cup {w})
  <2>1. ASSUME NEW u \in Conns PROVE u \in ws \cup {w} <=> r.conn[u].pos # 0
    BY <1>1, <1>6
  <2>2. ASSUME NEW u \in ws \cup {w} PROVE r.conn[u].pos \in DOMAIN q /\ q[r.conn[u].pos] = u
    <3>1. CASE u = w
      BY <1>1, <1>2, <1>6, <3>1
    <3>2. CASE u # w
      <4>1. u \in ws /\ u \in Conns /\ s.conn[u].pos \in 1..n /\ s.fds[s.conn[u].pos] = u
        BY <1>1, <3>2
      <4>2. r.conn[u].pos = s.conn[u].pos
        BY <1>6, <3>2, <4>1
      <4> QED BY <1>1, <1>2, <4>1, <4>2
    <3> QED BY <3>1, <3>2
  <2>3. ASSUME NEW i \in DOMAIN q PROVE r.conn[q[i]].pos = i
    <3>1. CASE i = n + 1
      BY <1>2, <1>6, <3>1
    <3>2. CASE i # n + 1
      <4>1. i \in 1..n /\ q[i] = s.fds[i] /\ s.fds[i] \in Conns /\ s.conn[s.fds[i]].pos = i
        BY <1>1, <1>2, <3>2
      <4>2. s.fds[i] # w
        BY <1>1, <4>1
      <4> QED BY <1>6, <4>1, <4>2
    <3> QED BY <3>1, <3>2
  <2>4. Len(q) <= Slots /\ (r.listen <=> Len(q) < Slots)
    <3>1. Len(q) <= Slots /\ (Len(q) < Slots <=> n + 1 < Slots)
      BY <1>1, <1>2
    <3>2. r.listen <=> n + 1 < Slots
      BY <1>4
    <3> QED BY <3>1, <3>2
  <2> QED BY <1>4, <2>1, <2>2, <2>3, <2>4 DEF FdsOk
<1> QED BY <1>7, <1>8 DEF r

-----------------------------------------------------------------------------
(* The end of a connection *)

LEMMA FreeSound ==
    ASSUME NEW s, Sound(s), NEW w \in Conns, Live(s.conn[w])
    PROVE  Sound(Free(s, w))
<1> DEFINE c == s.conn[w]
           dead == [NewConn EXCEPT !.net = "fin", !.mode = c.mode, !.state = "dead",
                                   !.ah = c.ah, !.pos = c.pos, !.est = c.est,
                                   !.closed = c.closed + IF TellsClosed(c) THEN 1 ELSE 0]
           x == Set(s, w, dead)
           y == RemoveFromFds(x, w)
           z == Detach(y, w)
           ws == Living(s)
<1>1. Free(s, w) = z
  <2> DEFINE a == Then(x, LAMBDA q : RemoveFromFds(q, w))
  <2>1. a = y
    <3> HIDE DEF x
    <3> QED BY Zenon DEF Then
  <2>2. Free(s, w) = Then(a, LAMBDA q : Detach(q, w))
    BY DEF Free
  <2> HIDE DEF a
  <2>3. Then(a, LAMBDA q : Detach(q, w)) = Detach(a, w)
    BY Zenon DEF Then
  <2> QED BY <2>1, <2>2, <2>3
<1>2. ConnOk(dead) /\ dead.ah = c.ah /\ dead.pos = c.pos /\ dead.state = "dead"
  <2>1. ConnOk(c) /\ Live(c)
    BY DEF Sound, Shape
  <2>2. /\ DOMAIN dead = Fields /\ dead.ah = c.ah /\ dead.pos = c.pos /\ dead.state = "dead"
        /\ dead.mode = c.mode /\ dead.est = c.est /\ dead.pre = "http"
        /\ dead.closed = c.closed + IF TellsClosed(c) THEN 1 ELSE 0
    BY DEF NewConn, Fields
  <2>3. c.closed = 0 /\ (c.mode = "ws" => TellsClosed(c))
    BY <2>1 DEF ConnOk, Staged, Live, TellsClosed
  <2> HIDE DEF dead, c
  <2>4. dead.closed = IF TellsClosed(c) THEN 1 ELSE 0
    BY <2>2, <2>3
  <2> QED BY <2>1, <2>2, <2>3, <2>4 DEF ConnOk, Staged, Live
<1>3. /\ DOMAIN x = DOMAIN s /\ DOMAIN x.conn = Conns
      /\ x.conn[w] = dead /\ \A u \in Conns \ {w} : x.conn[u] = s.conn[u]
      /\ x.pool = s.pool /\ x.waiting = s.waiting /\ x.fds = s.fds /\ x.listen = s.listen
  BY DEF Sound, Shape, Set
<1>4. w \in ws /\ ws \subseteq Conns /\ \A i \in DOMAIN s.fds : s.fds[i] \in Conns
  BY DEF Living, Sound, Shape
<1> HIDE DEF x, dead
<1>5. /\ Shape(x)
      /\ \A u \in Conns : x.conn[u].ah = s.conn[u].ah /\ x.conn[u].pos = s.conn[u].pos
      /\ \A u \in Conns : Live(x.conn[u]) <=> u \in ws \ {w}
  <2>1. Shape(x)
    BY <1>2, <1>3 DEF Sound, Shape
  <2> QED BY <1>2, <1>3, <2>1 DEF Living, Live
<1>6. FdsOk(x, ws)
  BY <1>3, <1>4, <1>5 DEF Sound, FdsOk
<1>7. Elsewhere(x, y) /\ FdsOk(y, ws \ {w})
  BY <1>4, <1>5, <1>6, RemoveFdsKeeps
<1> HIDE DEF y, ws
<1>8. TablesOk(y)
  <2>1. /\ \A u \in Conns : y.conn[u].ah = s.conn[u].ah
        /\ y.pool = s.pool /\ y.waiting = s.waiting
        /\ \A i \in DOMAIN s.waiting : s.waiting[i] \in Conns
    BY <1>3, <1>5, <1>7 DEF Elsewhere, Sound, Shape
  <2> QED BY <2>1 DEF Sound, TablesOk
<1>9. /\ Keeps(y, z) /\ TablesOk(z) /\ Waiters(z) \subseteq Waiters(y) \ {w}
  <2>1. \A u \in Waiters(y) : u \in ws
    BY <1>3, <1>7 DEF Elsewhere, Waiters, Sound, ws
  <2>2. \A u \in ws : y.conn[u].state # "backlog"
    BY <1>2, <1>3, <1>4, <1>5, <1>7 DEF Elsewhere, Live, ws, Living
  <2> QED BY <1>4, <1>7, <1>8, <2>1, <2>2, DetachKeeps DEF Elsewhere
<1> HIDE DEF z
<1>10. Living(z) = ws \ {w}
  BY <1>4, <1>5, <1>7, <1>9 DEF Keeps, Elsewhere, Living, Live
<1>11. FdsOk(z, ws \ {w})
  <2>1. /\ z.fds = y.fds /\ z.listen = y.listen
        /\ \A u \in Conns : z.conn[u].pos = y.conn[u].pos
        /\ \A i \in DOMAIN y.fds : y.fds[i] \in Conns
    BY <1>7, <1>9 DEF Keeps, Elsewhere, Shape
  <2> QED BY <1>4, <1>7, <2>1 DEF FdsOk
<1>12. Waiters(z) \subseteq ws \ {w}
  <2>1. Waiters(y) = Waiters(s) /\ Waiters(s) \subseteq ws
    BY <1>3, <1>7 DEF Elsewhere, Waiters, Sound, ws
  <2> QED BY <1>9, <2>1
<1> QED BY <1>1, <1>9, <1>10, <1>11, <1>12 DEF Sound, Keeps

LEMMA NukeAhSound ==
    ASSUME NEW s, Sound(s), NEW w \in Conns
    PROVE  /\ Sound(NukeAh(s, w)) /\ (Live(NukeAh(s, w).conn[w]) <=> Live(s.conn[w]))
<1> DEFINE x == SetRx(s, w, <<>>)
           r == Detach(x, w)
<1>1. NukeAh(s, w) = r
  BY Zenon DEF NukeAh, Then
<1>2. Sound(x) /\ x.conn = s.conn
  BY SetRxSound
<1>3. /\ Keeps(x, r) /\ TablesOk(r) /\ Waiters(r) \subseteq Waiters(x) \ {w}
  <2> HIDE DEF x
  <2>1. \A u \in Waiters(x) : x.conn[u].state # "backlog"
    BY <1>2 DEF Sound, Living, Live
  <2> QED BY <1>2, <2>1, DetachKeeps DEF Sound
<1>4. Waiters(x) \subseteq Living(x)
  BY <1>2 DEF Sound
<1> HIDE DEF x, r
<1>5. Sound(r)
  BY <1>2, <1>3, <1>4, KeepsSound
<1>6. Live(r.conn[w]) <=> Live(x.conn[w])
  BY <1>3 DEF Keeps
<1> QED BY <1>1, <1>2, <1>5, <1>6

LEMMA UnusableSound ==
    ASSUME NEW s, Sound(s), NEW w \in Conns
    PROVE  /\ Sound(Unusable(s, w)) /\ Unusable(s, w).conn[w].state = s.conn[w].state
           /\ Unusable(s, w).conn[w].mode = s.conn[w].mode
<1> DEFINE d == [s.conn[w] EXCEPT !.unusable = TRUE]
<1>1. Unusable(s, w) = Set(s, w, d)
  BY DEF Unusable, Set
<1>2. Like(s.conn[w], d) /\ d.state = s.conn[w].state /\ d.mode = s.conn[w].mode
  <2>1. DOMAIN s.conn[w] = Fields /\ ConnOk(s.conn[w])
    BY DEF Sound, Shape, ConnOk
  <2> QED BY <2>1 DEF Like, ConnOk, Fields, Staged, Live
<1> HIDE DEF d
<1> QED BY <1>1, <1>2, SetSound

\* The connection c, shut down.
Shut(c, timer) ==
    [c EXCEPT !.state = "shutdown", !.shut = TRUE, !.timer = timer,
              !.pollout = FALSE, !.pollin = TRUE]

LEMMA JustKillSound ==
    ASSUME NEW s, Sound(s), NEW w \in Conns, Live(s.conn[w])
    PROVE  Sound(JustKill(s, w))
<1> DEFINE d == Shut(s.conn[w], "shutdown_flush")
<1>1. JustKill(s, w) = Set(s, w, d) \/ JustKill(s, w) = Free(s, w)
  BY DEF JustKill, Shut
<1>2. Like(s.conn[w], d)
  <2>1. DOMAIN s.conn[w] = Fields /\ ConnOk(s.conn[w])
    BY DEF Sound, Shape, ConnOk
  <2> QED BY <2>1 DEF Shut, Like, ConnOk, Fields, Staged, Live
<1> HIDE DEF d
<1> QED BY <1>1, <1>2, SetSound, FreeSound

LEMMA PoliteCloseSound ==
    ASSUME NEW s, Sound(s), NEW w \in Conns, Live(s.conn[w])
    PROVE  Sound(PoliteClose(s, w))
<1> DEFINE c == s.conn[w]
           over == [c EXCEPT !.pre = c.state]
           d == Shut(over, "shutdown_flush")
           e == [c EXCEPT !.pre = c.state, !.pollout = TRUE]
           f == [c EXCEPT !.pre = c.state, !.state = "flushing", !.timer = "flush_stored_send"]
<1>0. DOMAIN c = Fields /\ ConnOk(c)
  BY DEF Sound, Shape, ConnOk
<1>1. CASE c.unusable \/ c.state = "shutdown"
  BY <1>1, JustKillSound DEF PoliteClose
<1>2. CASE ~(c.unusable \/ c.state = "shutdown") /\ ~c.trunc
  <2> DEFINE x == [s EXCEPT !.conn[w].pre = c.state]
  <2>1. PoliteClose(s, w) = Then(x, LAMBDA q : JustKill(q, w))
    BY <1>2 DEF PoliteClose
  <2>2. Then(x, LAMBDA q : JustKill(q, w)) = JustKill(x, w)
    <3> HIDE DEF x
    <3> QED BY Zenon DEF Then
  <2>3. x = Set(s, w, over)
    BY DEF Set
  <2> HIDE DEF x
  <2>4. x.conn[w] = over
    BY <2>3 DEF Set, Sound, Shape
  <2>5. ~over.unusable /\ over.state # "shutdown"
    BY <1>0, <1>2 DEF Fields
  <2>6. JustKill(x, w) = Set(x, w, d)
    BY <2>4, <2>5 DEF JustKill, Shut
  <2> HIDE DEF d, over
  <2>7. Set(x, w, d) = Set(s, w, d)
    BY <2>3 DEF Set, Sound, Shape
  <2>8. Like(c, d)
    BY <1>0, <1>2 DEF d, over, Shut, Like, ConnOk, Fields, Staged, Live
  <2> QED BY <2>1, <2>2, <2>6, <2>7, <2>8, SetSound
<1>3. CASE ~(c.unusable \/ c.state = "shutdown") /\ c.trunc /\ c.state = "flushing"
  <2>1. PoliteClose(s, w) = Set(s, w, e)
    BY <1>3 DEF PoliteClose
  <2>2. Like(c, e)
    BY <1>0, <1>3 DEF Like, ConnOk, Fields, Staged, Live
  <2> HIDE DEF e
  <2> QED BY <2>1, <2>2, SetSound
<1>4. CASE ~(c.unusable \/ c.state = "shutdown") /\ c.trunc /\ c.state # "flushing"
  <2>1. PoliteClose(s, w) = Set(s, w, f)
    BY <1>4 DEF PoliteClose
  <2>2. Like(c, f)
    BY <1>0, <1>4 DEF Like, ConnOk, Fields, Staged, Live
  <2> HIDE DEF f
  <2> QED BY <2>1, <2>2, SetSound
<1> QED BY <1>1, <1>2, <1>3, <1>4

LEMMA CloseSound ==
    ASSUME NEW s, Sound(s), NEW w \in Conns, Live(s.conn[w])
    PROVE  Sound(Close(s, w))
<1> DEFINE x == SetRx(s, w, <<>>)
<1>1. Sound(x) /\ x.conn = s.conn
  BY SetRxSound
<1>2. Close(s, w) = PoliteClose(x, w)
  BY Zenon DEF Close, Then
<1> HIDE DEF x
<1> QED BY <1>1, <1>2, PoliteCloseSound

-----------------------------------------------------------------------------
(* New connections and HTTP *)

LEMMA AdoptSound ==
    ASSUME NEW s, Sound(s), NEW w \in Conns, s.conn[w].state = "backlog", s.listen
    PROVE  Sound(Adopt(s, w))
<1> DEFINE c == s.conn[w]
           d == [c EXCEPT !.state = "http", !.timer = "establish"]
           x == Set(s, w, d)
           y == InsertIntoFds(x, w)
           ws == Living(s)
<1>1. Adopt(s, w) = Attach(y, w)
  <2>1. Adopt(s, w) = Then(y, LAMBDA q : Attach(q, w))
    BY DEF Adopt
  <2> HIDE DEF y
  <2>2. Then(y, LAMBDA q : Attach(q, w)) = Attach(y, w)
    BY Zenon DEF Then
  <2> QED BY <2>1, <2>2
<1>2. /\ ConnOk(d) /\ d.ah = NoTable /\ c.ah = NoTable /\ d.pos = c.pos /\ d.state = "http"
  <2>1. DOMAIN c = Fields /\ ConnOk(c)
    BY DEF Sound, Shape, ConnOk
  <2> QED BY <2>1 DEF ConnOk, Fields, Staged
<1>3. /\ DOMAIN x = DOMAIN s /\ DOMAIN x.conn = Conns
      /\ x.conn[w] = d /\ \A u \in Conns \ {w} : x.conn[u] = s.conn[u]
      /\ x.pool = s.pool /\ x.waiting = s.waiting /\ x.fds = s.fds /\ x.listen = s.listen
  BY DEF Sound, Shape, Set
<1>4. /\ w \notin ws /\ ws \subseteq Conns /\ s.waiting \in Seq(Conns)
      /\ \A i \in DOMAIN s.fds : s.fds[i] \in Conns
  BY DEF Living, Live, Sound, Shape
<1> HIDE DEF x, d
<1>5. /\ Shape(x)
      /\ \A u \in Conns : x.conn[u].ah = s.conn[u].ah /\ x.conn[u].pos = s.conn[u].pos
      /\ \A u \in Conns : Live(x.conn[u]) <=> u \in ws \cup {w}
  <2>1. Shape(x)
    BY <1>2, <1>3 DEF Sound, Shape
  <2> QED BY <1>2, <1>3, <2>1 DEF Living, Live
<1>6. FdsOk(x, ws)
  BY <1>3, <1>4, <1>5 DEF Sound, FdsOk
<1>7. Elsewhere(x, y) /\ FdsOk(y, ws \cup {w})
  BY <1>3, <1>4, <1>5, <1>6, InsertFdsKeeps
<1> HIDE DEF y, ws
<1>8. TablesOk(y)
  <2>1. /\ \A u \in Conns : y.conn[u].ah = s.conn[u].ah
        /\ y.pool = s.pool /\ y.waiting = s.waiting
        /\ \A i \in DOMAIN s.waiting : s.waiting[i] \in Conns
    BY <1>3, <1>4, <1>5, <1>7 DEF Elsewhere
  <2> QED BY <2>1 DEF Sound, TablesOk
<1>9. Living(y) = ws \cup {w}
  BY <1>4, <1>5, <1>7 DEF Elsewhere, Living, Live
<1>10. Waiters(y) \subseteq ws \cup {w}
  <2>1. Waiters(y) = Waiters(s) /\ Waiters(s) \subseteq ws
    BY <1>3, <1>7 DEF Elsewhere, Waiters, Sound, ws
  <2> QED BY <2>1
<1>11. Sound(y)
  BY <1>7, <1>8, <1>9, <1>10 DEF Sound, Elsewhere
<1>12. y.conn[w].ah = NoTable /\ Live(y.conn[w])
  BY <1>2, <1>3, <1>7 DEF Elsewhere, Live
<1> QED BY <1>1, <1>11, <1>12, AttachSound

\* A connection that reads a header set.
Asks(c) == c.mode # "ws" /\ c.state \in {"http", "headers"}

LEMMA GetSound ==
    ASSUME NEW s, Sound(s), NEW w \in Conns, Asks(s.conn[w]), NEW rest
    PROVE  Sound(Get(s, w, rest))
<1> DEFINE d == HttpAction(s.conn[w], FALSE)
<1>1. Like(s.conn[w], d)
  <2>1. DOMAIN s.conn[w] = Fields /\ ConnOk(s.conn[w])
    BY DEF Sound, Shape, ConnOk
  <2> QED BY <2>1 DEF HttpAction, Asks, Like, ConnOk, Fields, Staged, Live
<1>2. Get(s, w, rest) = SetRx(Set(s, w, d), w, rest)
  BY DEF Get
<1> HIDE DEF d
<1> QED BY <1>1, <1>2, SetSound, SetRxSound

LEMMA PostSound ==
    ASSUME NEW s, Sound(s), NEW w \in Conns, Asks(s.conn[w]), NEW rest
    PROVE  Sound(Post(s, w, rest))
<1> DEFINE c == HttpAction(s.conn[w], TRUE)
           d == [c EXCEPT !.remain = 1]
           e == [c EXCEPT !.remain = 0, !.timer = "none"]
<1>1. Like(s.conn[w], d) /\ Like(s.conn[w], e)
  <2>1. DOMAIN s.conn[w] = Fields /\ ConnOk(s.conn[w])
    BY DEF Sound, Shape, ConnOk
  <2> QED BY <2>1 DEF HttpAction, Asks, Like, ConnOk, Fields, Staged, Live
<1>2. \/ Post(s, w, rest) = SetRx(Set(s, w, d), w, <<>>)
      \/ Post(s, w, rest) = SetRx(Set(s, w, e), w, Tail(rest))
  BY DEF Post
<1> HIDE DEF d, e
<1> QED BY <1>1, <1>2, SetSound, SetRxSound

LEMMA RefuseSound ==
    ASSUME NEW s, Sound(s), NEW w \in Conns, Live(s.conn[w])
    PROVE  Sound(Refuse(s, w))
<1> DEFINE a == Then(s, LAMBDA q : NukeAh(q, w))
<1>1. a = NukeAh(s, w)
  BY Zenon DEF Then
<1>2. Refuse(s, w) = Then(a, LAMBDA q : Close(q, w))
  BY DEF Refuse
<1> HIDE DEF a
<1>3. Then(a, LAMBDA q : Close(q, w)) = Close(a, w)
  BY Zenon DEF Then
<1> QED BY <1>1, <1>2, <1>3, NukeAhSound, CloseSound

LEMMA EstablishSound ==
    ASSUME NEW s, Sound(s), NEW w \in Conns, Asks(s.conn[w]), NEW rest
    PROVE  Sound(Establish(s, w, rest))
<1> DEFINE c == s.conn[w]
           d == [c EXCEPT !.mode = "ws", !.state = "established", !.timer = "none", !.est = @ + 1]
           up == Set(s, w, d)
           x == IF rest = <<>> THEN NukeAh(up, w) ELSE SetRx(up, w, rest)
<1>1. Like(c, d)
  <2>1. DOMAIN c = Fields /\ ConnOk(c) /\ c.est = 0 /\ c.pre = "http"
    BY DEF Sound, Shape, ConnOk, Asks, Staged
  <2> QED BY <2>1 DEF Asks, Like, ConnOk, Fields, Staged, Live
<1>2. Establish(s, w, rest) =
        Then(up, LAMBDA q : IF rest = <<>> THEN NukeAh(q, w) ELSE SetRx(q, w, rest))
  BY DEF Establish
<1> HIDE DEF d
<1>3. Sound(up)
  BY <1>1, SetSound
<1> HIDE DEF up
<1>4. Then(up, LAMBDA q : IF rest = <<>> THEN NukeAh(q, w) ELSE SetRx(q, w, rest)) = x
  <2>1. CASE rest = <<>>
    BY <2>1, Zenon DEF Then
  <2>2. CASE rest # <<>>
    BY <2>2, Zenon DEF Then
  <2> QED BY <2>1, <2>2
<1> QED BY <1>2, <1>3, <1>4, NukeAhSound, SetRxSound

LEMMA UpgradeSound ==
    ASSUME NEW s, Sound(s), NEW w \in Conns, Asks(s.conn[w]), NEW rest, NEW out
    PROVE  Sound(Upgrade(s, w, rest, out))
<1> DEFINE c == s.conn[w]
           d == [c EXCEPT !.mode = "pre_ws", !.unusable = TRUE]
           e == [c EXCEPT !.trunc = (out = "part"), !.pollout = (out = "part")]
           x == Set(s, w, e)
<1>0. DOMAIN c = Fields /\ ConnOk(c)
  BY DEF Sound, Shape, ConnOk
<1>1. CASE out = "error"
  <2>1. Like(c, d) /\ Live(d)
    BY <1>0 DEF Asks, Like, ConnOk, Fields, Staged, Live
  <2>2. Upgrade(s, w, rest, out) = Refuse(Set(s, w, d), w)
    BY <1>1 DEF Upgrade
  <2> HIDE DEF d
  <2> QED BY <2>1, <2>2, SetSound, RefuseSound
<1>2. CASE out # "error"
  <2>1. Like(c, e) /\ Asks(e)
    BY <1>0 DEF Asks, Like, ConnOk, Fields, Staged, Live
  <2>2. Upgrade(s, w, rest, out) = Then(x, LAMBDA q : Establish(q, w, rest))
    BY <1>2 DEF Upgrade
  <2> HIDE DEF e
  <2>3. Sound(x) /\ x.conn[w] = e
    BY <2>1, SetSound
  <2> HIDE DEF x
  <2>4. Then(x, LAMBDA q : Establish(q, w, rest)) = Establish(x, w, rest)
    BY Zenon DEF Then
  <2> QED BY <2>1, <2>2, <2>3, <2>4, EstablishSound
<1> QED BY <1>1, <1>2

LEMMA HandshakeSound ==
    ASSUME NEW s, Sound(s), NEW w \in Conns, Asks(s.conn[w]), NEW out
    PROVE  Sound(Handshake(s, w, out))
<1> DEFINE c == s.conn[w]
           rx == Rx(s, w)
           ends == {i \in DOMAIN rx : rx[i] # "part"}
           i == CHOOSE i \in ends : \A j \in ends : i <= j
           d == [c EXCEPT !.state = "headers", !.hdr = c.state # "http" /\ @]
           x == Set(s, w, d)
           e == [x.conn[w] EXCEPT !.hdr = TRUE]
           f == [x.conn[w] EXCEPT !.hdr = TRUE, !.mode = "pre_ws", !.timer = "none"]
           whole == Set(x, w, e)
           rest == SubSeq(rx, i + 1, Len(rx))
<1>1. Like(c, d) /\ Asks(d)
  <2>1. DOMAIN c = Fields /\ ConnOk(c)
    BY DEF Sound, Shape, ConnOk
  <2> QED BY <2>1 DEF Asks, Like, ConnOk, Fields, Staged, Live
<1>2. \/ Handshake(s, w, out) = SetRx(x, w, <<>>)
      \/ Handshake(s, w, out) = Get(whole, w, rest)
      \/ Handshake(s, w, out) = Post(whole, w, rest)
      \/ Handshake(s, w, out) = Upgrade(whole, w, rest, out)
      \/ Handshake(s, w, out) = Refuse(Set(x, w, f), w)
      \/ Handshake(s, w, out) = Refuse(x, w)
  BY Zenon DEF Handshake
<1> HIDE DEF d, rx, i, rest
<1>3. Sound(x) /\ x.conn[w] = d
  BY <1>1, SetSound
<1> HIDE DEF x
<1>4. Like(d, e) /\ Asks(e) /\ Like(d, f) /\ Live(d) /\ Live(f)
  <2>1. DOMAIN d = Fields /\ ConnOk(d)
    BY <1>1 DEF Like, ConnOk
  <2> QED BY <1>1, <1>3, <2>1 DEF Asks, Like, ConnOk, Fields, Staged, Live
<1> HIDE DEF e, f
<1>5. Sound(whole) /\ whole.conn[w] = e
  BY <1>3, <1>4, SetSound
<1>6. Sound(Set(x, w, f)) /\ Set(x, w, f).conn[w] = f
  BY <1>3, <1>4, SetSound
<1> HIDE DEF whole
<1> QED BY <1>2, <1>3, <1>4, <1>5, <1>6, SetRxSound, GetSound, PostSound, UpgradeSound, RefuseSound

LEMMA TakenSound ==
    ASSUME NEW s, Sound(s), NEW w \in Conns, NEW n
    PROVE  /\ Sound(Taken(s, w, n)) /\ Taken(s, w, n).conn[w].state = s.conn[w].state
           /\ Taken(s, w, n).conn[w].mode = s.conn[w].mode
<1> DEFINE c == s.conn[w]
           d == [c EXCEPT !.wire = SubSeq(@, n + 1, Len(@))]
<1>1. Taken(s, w, n) = Set(s, w, d)
  BY DEF Taken, Set
<1>2. Like(c, d) /\ d.state = c.state /\ d.mode = c.mode
  <2>1. DOMAIN c = Fields /\ ConnOk(c)
    BY DEF Sound, Shape, ConnOk
  <2> QED BY <2>1 DEF Like, ConnOk, Fields, Staged, Live
<1> HIDE DEF d
<1> QED BY <1>1, <1>2, SetSound

LEMMA ReadHeadersSound ==
    ASSUME NEW s, Sound(s), NEW w \in Conns, Asks(s.conn[w]), NEW n, NEW out
    PROVE  Sound(ReadHeaders(s, w, n, out))
<1> DEFINE x == Taken(s, w, n)
           y == SetRx(x, w, SubSeq(s.conn[w].wire, 1, n))
<1>1. \/ ReadHeaders(s, w, n, out) = s
      \/ ReadHeaders(s, w, n, out) = Handshake(s, w, out)
      \/ ReadHeaders(s, w, n, out) = Close(s, w)
      \/ ReadHeaders(s, w, n, out) = Then(y, LAMBDA q : Handshake(q, w, out))
  BY Zenon DEF ReadHeaders
<1>2. Sound(x) /\ Asks(x.conn[w])
  BY TakenSound DEF Asks
<1> HIDE DEF x
<1>3. Sound(y) /\ Asks(y.conn[w])
  BY <1>2, SetRxSound
<1> HIDE DEF y
<1>4. Then(y, LAMBDA q : Handshake(q, w, out)) = Handshake(y, w, out)
  BY Zenon DEF Then
<1>5. Live(s.conn[w])
  BY DEF Asks, Live
<1> QED BY <1>1, <1>3, <1>4, <1>5, HandshakeSound, CloseSound

LEMMA ServeHeadersSound ==
    ASSUME NEW s, Sound(s), NEW w \in Conns, Asks(s.conn[w]), NEW n, NEW out
    PROVE  Sound(ServeHeaders(s, w, n, out))
<1> DEFINE x == Attach(s, w)
<1>1. CASE s.conn[w].ah # NoTable
  BY <1>1, ReadHeadersSound DEF ServeHeaders
<1>2. CASE s.conn[w].ah = NoTable
  <2>1. ServeHeaders(s, w, n, out) = Then(x, LAMBDA q : ReadHeaders(q, w, n, out))
    BY <1>2 DEF ServeHeaders
  <2>2. Sound(x) /\ Asks(x.conn[w])
    BY <1>2, AttachSound DEF Asks, Live
  <2> HIDE DEF x
  <2>3. Then(x, LAMBDA q : ReadHeaders(q, w, n, out)) = ReadHeaders(x, w, n, out)
    BY Zenon DEF Then
  <2> QED BY <2>1, <2>2, <2>3, ReadHeadersSound
<1> QED BY <1>1, <1>2

LEMMA ServeBodySound ==
    ASSUME NEW s, Sound(s), NEW w \in Conns, Live(s.conn[w]), NEW n
    PROVE  Sound(ServeBody(s, w, n))
<1> DEFINE x == Taken(s, w, n)
           d == [x.conn[w] EXCEPT !.remain = 0, !.timer = "none"]
<1>1. \/ ServeBody(s, w, n) = Close(s, w)
      \/ ServeBody(s, w, n) = x
      \/ ServeBody(s, w, n) =
            Then(x, LAMBDA q : Set(q, w, [q.conn[w] EXCEPT !.remain = 0, !.timer = "none"]))
  BY DEF ServeBody
<1>2. Sound(x)
  BY TakenSound
<1> HIDE DEF x
<1>3. Then(x, LAMBDA q : Set(q, w, [q.conn[w] EXCEPT !.remain = 0, !.timer = "none"])) = Set(x, w, d)
  BY Zenon DEF Then
<1>4. Like(x.conn[w], d)
  <2>1. DOMAIN x.conn[w] = Fields /\ ConnOk(x.conn[w])
    BY <1>2 DEF Sound, Shape, ConnOk
  <2> QED BY <2>1 DEF Like, ConnOk, Fields, Staged, Live
<1> HIDE DEF d
<1> QED BY <1>1, <1>2, <1>3, <1>4, CloseSound, SetSound

LEMMA ServeHttpSound ==
    ASSUME NEW s, Sound(s), NEW w \in Conns, Live(s.conn[w]), s.conn[w].mode # "ws", NEW n, NEW out
    PROVE  Sound(ServeHttp(s, w, n, out))
BY ServeHeadersSound, ServeBodySound DEF ServeHttp, Asks

-----------------------------------------------------------------------------
(* WebSocket *)

LEMMA IssueSound ==
    ASSUME NEW s, Sound(s), NEW w \in Conns, NEW out
    PROVE  Sound(Issue(s, w, out)) /\ Issue(s, w, out).conn[w].state = s.conn[w].state
<1> DEFINE c == s.conn[w]
           d == [c EXCEPT !.trunc = (out = "part"), !.pollout = @ \/ out = "part" \/ c.trunc]
<1>1. Issue(s, w, out) = Unusable(s, w) \/ Issue(s, w, out) = Set(s, w, d)
  BY DEF Issue
<1>2. Like(c, d) /\ d.state = c.state
  <2>1. DOMAIN c = Fields /\ ConnOk(c)
    BY DEF Sound, Shape, ConnOk
  <2> QED BY <2>1 DEF Like, ConnOk, Fields, Staged, Live
<1> HIDE DEF d
<1> QED BY <1>1, <1>2, UnusableSound, SetSound

LEMMA AfterSendSound ==
    ASSUME NEW s, Sound(s), NEW w \in Conns, Live(s.conn[w]), NEW out
    PROVE  Sound(AfterSend(s, w, out))
<1> DEFINE c == s.conn[w]
           d == [c EXCEPT !.state = "flushing"]
           x == [s EXCEPT !.conn[w].state = "flushing"]
<1>1. \/ AfterSend(s, w, out) = Then(x, LAMBDA q : Close(q, w))
      \/ AfterSend(s, w, out) = Close(s, w)
      \/ AfterSend(s, w, out) = s
  BY DEF AfterSend
<1>2. x = Set(s, w, d)
  BY DEF Set
<1>3. Like(c, d) /\ Live(d)
  <2>1. DOMAIN c = Fields /\ ConnOk(c)
    BY DEF Sound, Shape, ConnOk
  <2> QED BY <2>1 DEF Like, ConnOk, Fields, Staged, Live
<1> HIDE DEF x, d
<1>4. Then(x, LAMBDA q : Close(q, w)) = Close(x, w)
  BY Zenon DEF Then
<1>5. Sound(x) /\ Live(x.conn[w])
  BY <1>2, <1>3, SetSound
<1> QED BY <1>1, <1>4, <1>5, CloseSound

LEMMA PolloutSound ==
    ASSUME NEW s, Sound(s), NEW w \in Conns, Live(s.conn[w]), NEW out
    PROVE  Sound(Pollout(s, w, out))
<1> DEFINE x == Issue(s, w, out)
           y == [x EXCEPT !.conn[w].pollout = (out = "part")]
           d == [x.conn[w] EXCEPT !.pollout = (out = "part")]
<1>1. \/ Pollout(s, w, out) = Then(x, LAMBDA q : AfterSend(q, w, out))
      \/ Pollout(s, w, out) = Close(s, w)
      \/ Pollout(s, w, out) = Then(x, LAMBDA q : [q EXCEPT !.conn[w].pollout = (out = "part")])
  BY DEF Pollout
<1>2. Sound(x) /\ Live(x.conn[w])
  BY IssueSound DEF Live
<1> HIDE DEF x
<1>3. Then(x, LAMBDA q : AfterSend(q, w, out)) = AfterSend(x, w, out)
  BY Zenon DEF Then
<1>4. Then(x, LAMBDA q : [q EXCEPT !.conn[w].pollout = (out = "part")]) = y
  BY Zenon DEF Then
<1>5. y = Set(x, w, d)
  BY DEF Set
<1>6. Like(x.conn[w], d)
  <2>1. DOMAIN x.conn[w] = Fields /\ ConnOk(x.conn[w])
    BY <1>2 DEF Sound, Shape, ConnOk
  <2> QED BY <2>1 DEF Like, ConnOk, Fields, Staged, Live
<1> HIDE DEF y, d
<1> QED BY <1>1, <1>2, <1>3, <1>4, <1>5, <1>6, AfterSendSound, CloseSound, SetSound

LEMMA InterpretSound ==
    ASSUME NEW s, Sound(s), NEW w \in Conns, Live(s.conn[w]), NEW tokens
    PROVE  Sound(Interpret(s, w, tokens))
<1> DEFINE d == [s.conn[w] EXCEPT !.state = "returned", !.pollout = TRUE]
           back == Set(s, w, d)
<1>1. \/ Interpret(s, w, tokens) \in {s, Close(s, w), back}
      \/ Interpret(s, w, tokens) = Close(Unusable(s, w), w)
      \/ Interpret(s, w, tokens) = Close(back, w)
  BY Zenon DEF Interpret
<1>2. Like(s.conn[w], d) /\ Live(d)
  <2>1. DOMAIN s.conn[w] = Fields /\ ConnOk(s.conn[w])
    BY DEF Sound, Shape, ConnOk
  <2> QED BY <2>1 DEF Like, ConnOk, Fields, Staged, Live
<1> HIDE DEF d
<1>3. Sound(back) /\ Live(back.conn[w])
  BY <1>2, SetSound
<1> HIDE DEF back
<1>4. Sound(Unusable(s, w)) /\ Live(Unusable(s, w).conn[w])
  BY UnusableSound DEF Live
<1> QED BY <1>1, <1>3, <1>4, CloseSound

LEMMA ReadWsSound ==
    ASSUME NEW s, Sound(s), NEW w \in Conns, Live(s.conn[w]), NEW tokens
    PROVE  Sound(ReadWs(s, w, tokens))
BY InterpretSound DEF ReadWs

LEMMA ReceiveWsSound ==
    ASSUME NEW s, Sound(s), NEW w \in Conns, Live(s.conn[w]), NEW n
    PROVE  Sound(ReceiveWs(s, w, n))
<1> DEFINE x == ReadWs(s, w, Rx(s, w))
           y == Taken(s, w, n)
           tokens == SubSeq(s.conn[w].wire, 1, n)
<1>1. \/ ReceiveWs(s, w, n) = Then(x, LAMBDA q : NukeAh(q, w))
      \/ ReceiveWs(s, w, n) = Close(s, w)
      \/ ReceiveWs(s, w, n) = Then(y, LAMBDA q : ReadWs(q, w, tokens))
  BY DEF ReceiveWs
<1>2. Sound(x)
  BY ReadWsSound
<1>3. Sound(y) /\ Live(y.conn[w])
  BY TakenSound DEF Live
<1> HIDE DEF x, y, tokens
<1>4. Then(x, LAMBDA q : NukeAh(q, w)) = NukeAh(x, w)
  BY Zenon DEF Then
<1>5. Then(y, LAMBDA q : ReadWs(q, w, tokens)) = ReadWs(y, w, tokens)
  BY Zenon DEF Then
<1> QED BY <1>1, <1>2, <1>3, <1>4, <1>5, NukeAhSound, CloseSound, ReadWsSound

LEMMA ServeWsSound ==
    ASSUME NEW s, Sound(s), NEW w \in Conns, Live(s.conn[w]), NEW n, NEW pollin, NEW pollout, NEW out
    PROVE  Sound(ServeWs(s, w, n, pollin, pollout, out))
<1> DEFINE first(q) == IF pollout /\ s.conn[w].state \in {"established", "returned", "flushing"}
                       THEN Pollout(q, w, out) ELSE q
           then(q) == IF pollin /\ q.conn[w].state = s.conn[w].state
                      THEN ReceiveWs(q, w, n) ELSE q
           x == Then(s, first)
<1>1. ServeWs(s, w, n, pollin, pollout, out) = Then(x, then)
  BY DEF ServeWs
<1>2. x = first(s)
  <2> HIDE DEF first
  <2> QED BY Zenon DEF Then
<1>3. Sound(x)
  BY <1>2, PolloutSound
<1> HIDE DEF x
<1>4. Then(x, then) = then(x)
  <2> HIDE DEF then
  <2> QED BY Zenon DEF Then
<1>5. Live(s.conn[w]) /\ x.conn[w].state = s.conn[w].state => Live(x.conn[w])
  BY DEF Live
<1> QED BY <1>1, <1>3, <1>4, <1>5, ReceiveWsSound

-----------------------------------------------------------------------------
(* The specification *)

\* A step that leaves the library in a sound state.
LEMMA StepSound ==
    ASSUME NEW s, Sound(s), conn' = s.conn, pool' = s.pool, waiting' = s.waiting,
           fds' = s.fds, listen' = s.listen
    PROVE  Sound(Library)'
<1> DEFINE r == [conn |-> s.conn, pool |-> s.pool, waiting |-> s.waiting, fds |-> s.fds,
                 listen |-> s.listen]
<1>1. /\ r.conn = s.conn /\ r.pool = s.pool /\ r.waiting = s.waiting /\ r.fds = s.fds
      /\ r.listen = s.listen /\ DOMAIN r = {"conn", "pool", "waiting", "fds", "listen"}
  OBVIOUS
<1>2. Library' = r
  BY DEF Library
<1> HIDE DEF r
<1>3. Keeps(s, r)
  BY <1>1 DEF Sound, Shape, Keeps
<1>4. TablesOk(r)
  BY <1>1 DEF Sound, TablesOk
<1>5. Waiters(r) \subseteq Living(s)
  BY <1>1 DEF Sound, Waiters
<1>6. Sound(r)
  BY <1>3, <1>4, <1>5, KeepsSound
<1> QED BY <1>2, <1>6

LEMMA BecomesSound ==
    ASSUME NEW s, Sound(s), Becomes(s) PROVE Sound(Library)'
BY StepSound DEF Becomes

\* A step that only changes what the library is told of a connection.
LEMMA ToldSound ==
    ASSUME Sound(Library), NEW w \in Conns, NEW d, Like(conn[w], d),
           conn' = [conn EXCEPT ![w] = d], UNCHANGED <<pool, waiting, fds, listen>>
    PROVE  Sound(Library)'
<1> DEFINE x == Set(Library, w, d)
<1>1. Sound(x)
  BY SetSound DEF Library
<1>2. /\ x.conn = conn' /\ x.pool = pool' /\ x.waiting = waiting' /\ x.fds = fds'
      /\ x.listen = listen'
  BY DEF Set, Library
<1> HIDE DEF x
<1> QED BY <1>1, <1>2, StepSound

LEMMA InitSound == Init => Sound(Library)
<1> SUFFICES ASSUME Init PROVE Sound(Library)
  OBVIOUS
<1>1. /\ DOMAIN Library = {"conn", "pool", "waiting", "fds", "listen"}
      /\ Library.conn = [w \in Conns |-> NewConn] /\ Library.pool = [t \in Tables |-> FreeTable]
      /\ Library.waiting = <<>> /\ Library.fds = <<>> /\ Library.listen = TRUE
  BY DEF Init, Library
<1>2. ConnOk(NewConn) /\ ~Live(NewConn) /\ NewConn.ah = NoTable /\ NewConn.pos = 0
  BY DEF NewConn, ConnOk, Fields, Staged, Live
<1>3. DOMAIN FreeTable = {"wsi", "rx"} /\ FreeTable.wsi = NoConn /\ FreeTable.rx = <<>>
  BY DEF FreeTable
<1>4. Shape(Library)
  <2>1. Library.waiting \in Seq(Conns) /\ Library.fds \in Seq(Conns)
    BY <1>1
  <2>2. \A w \in Conns : ConnOk(Library.conn[w])
    BY <1>1, <1>2
  <2>3. \A t \in Tables : /\ DOMAIN Library.pool[t] = {"wsi", "rx"}
                         /\ Library.pool[t].wsi \in Conns \cup {NoConn}
    BY <1>1, <1>3
  <2> QED BY <1>1, <2>1, <2>2, <2>3 DEF Shape
<1>5. TablesOk(Library)
  BY <1>1, <1>2, <1>3, ConnectionsAssumption DEF TablesOk, IsInjective
<1>6. Living(Library) = {} /\ Waiters(Library) = {}
  BY <1>1, <1>2 DEF Living, Waiters
<1>7. FdsOk(Library, {})
  BY <1>1, <1>2, ConnectionsAssumption DEF FdsOk
<1> QED BY <1>4, <1>5, <1>6, <1>7 DEF Sound

LEMMA NextSound == Sound(Library) /\ [Next]_vars => Sound(Library)'
<1> SUFFICES ASSUME Sound(Library), [Next]_vars PROVE Sound(Library)'
  OBVIOUS
<1>0. Library.conn = conn /\ Library.listen = listen
  BY DEF Library
<1>1. ASSUME NEW w \in Conns, Accept(w) PROVE Sound(Library)'
  BY <1>0, <1>1, AdoptSound, BecomesSound DEF Accept
<1>2. ASSUME NEW w \in Conns, Service(w) PROVE Sound(Library)'
  <2>1. Live(Library.conn[w])
    BY <1>0, <1>2 DEF Service, Served, Live
  <2>2. ASSUME NEW n, NEW pollin, NEW pollout, NEW out,
               Becomes(ServeWs(Library, w, n, pollin, pollout, out))
        PROVE  Sound(Library)'
    BY <2>1, <2>2, ServeWsSound, BecomesSound
  <2>3. ASSUME NEW n, NEW out, conn[w].mode \in {"http", "accepted"},
               Becomes(ServeHttp(Library, w, n, out))
        PROVE  Sound(Library)'
    BY <1>0, <2>1, <2>3, ServeHttpSound, BecomesSound
  <2> QED BY <1>2, <2>2, <2>3 DEF Service
<1>3. ASSUME NEW w \in Conns, HangUp(w) \/ TimeOut(w) PROVE Sound(Library)'
  <2>1. Live(Library.conn[w])
    BY <1>0, <1>3 DEF HangUp, TimeOut, Served, Live
  <2>2. Sound(Unusable(Library, w)) /\ Live(Unusable(Library, w).conn[w])
    BY <2>1, UnusableSound DEF Live
  <2>3. Becomes(Close(Unusable(Library, w), w))
    BY <1>3 DEF HangUp, TimeOut
  <2> QED BY <2>2, <2>3, CloseSound, BecomesSound
<1>4. ASSUME NEW w \in Conns, NEW d, DOMAIN d = Fields, d.ah = conn[w].ah,
             d.pos = conn[w].pos, d.state = conn[w].state, d.mode = conn[w].mode,
             d.pre = conn[w].pre, d.est = conn[w].est, d.closed = conn[w].closed
      PROVE  Like(conn[w], d)
  <2>1. ConnOk(conn[w])
    BY <1>0 DEF Sound, Shape
  <2> QED BY <1>4, <2>1 DEF Like, ConnOk, Staged, Live
<1>5. \A w \in Conns : DOMAIN conn[w] = Fields /\ DOMAIN conn = Conns
  BY <1>0 DEF Sound, Shape, ConnOk
<1>6. ASSUME NEW w \in Conns, Ask(w) PROVE Sound(Library)'
  <2> DEFINE d == [conn[w] EXCEPT !.pollout = TRUE]
  <2>1. Like(conn[w], d)
    <3>1. /\ DOMAIN d = Fields /\ d.ah = conn[w].ah /\ d.pos = conn[w].pos
          /\ d.state = conn[w].state /\ d.mode = conn[w].mode /\ d.pre = conn[w].pre
          /\ d.est = conn[w].est /\ d.closed = conn[w].closed
      BY <1>5 DEF Fields
    <3> HIDE DEF d
    <3> QED BY <1>4, <3>1
  <2>2. conn' = [conn EXCEPT ![w] = d] /\ UNCHANGED <<pool, waiting, fds, listen>>
    BY <1>6 DEF Ask
  <2> HIDE DEF d
  <2> QED BY <2>1, <2>2, ToldSound
<1>7. ASSUME NEW w \in Conns, PeerSends(w) PROVE Sound(Library)'
  <2>1. PICK token : conn' = [conn EXCEPT ![w] = [conn[w] EXCEPT !.wire = Append(@, token),
                                                                 !.upgraded = @ \/ token = "upgrade"]]
    BY <1>7 DEF PeerSends
  <2> DEFINE d == [conn[w] EXCEPT !.wire = Append(@, token), !.upgraded = @ \/ token = "upgrade"]
  <2>2. Like(conn[w], d)
    <3>1. /\ DOMAIN d = Fields /\ d.ah = conn[w].ah /\ d.pos = conn[w].pos
          /\ d.state = conn[w].state /\ d.mode = conn[w].mode /\ d.pre = conn[w].pre
          /\ d.est = conn[w].est /\ d.closed = conn[w].closed
      BY <1>5 DEF Fields
    <3> HIDE DEF d
    <3> QED BY <1>4, <3>1
  <2>3. conn' = [conn EXCEPT ![w] = d]
    BY <2>1
  <2>4. UNCHANGED <<pool, waiting, fds, listen>>
    BY <1>7 DEF PeerSends
  <2> HIDE DEF d
  <2> QED BY <2>2, <2>3, <2>4, ToldSound
<1>8. ASSUME NEW w \in Conns, PeerLeaves(w) PROVE Sound(Library)'
  <2> DEFINE d == [conn[w] EXCEPT !.net = "fin"]
             e == [conn[w] EXCEPT !.net = "rst", !.wire = <<>>]
  <2>1. Like(conn[w], d) /\ Like(conn[w], e)
    <3>1. /\ DOMAIN d = Fields /\ d.ah = conn[w].ah /\ d.pos = conn[w].pos
          /\ d.state = conn[w].state /\ d.mode = conn[w].mode /\ d.pre = conn[w].pre
          /\ d.est = conn[w].est /\ d.closed = conn[w].closed
          /\ DOMAIN e = Fields /\ e.ah = conn[w].ah /\ e.pos = conn[w].pos
          /\ e.state = conn[w].state /\ e.mode = conn[w].mode /\ e.pre = conn[w].pre
          /\ e.est = conn[w].est /\ e.closed = conn[w].closed
      BY <1>5 DEF Fields
    <3> HIDE DEF d, e
    <3> QED BY <1>4, <3>1
  <2>2. /\ conn' = [conn EXCEPT ![w] = d] \/ conn' = [conn EXCEPT ![w] = e]
        /\ UNCHANGED <<pool, waiting, fds, listen>>
    BY <1>8 DEF PeerLeaves
  <2> HIDE DEF d, e
  <2> QED BY <2>1, <2>2, ToldSound
<1>9. CASE UNCHANGED vars
  BY <1>9 DEF vars, Library
<1> QED BY <1>1, <1>2, <1>3, <1>6, <1>7, <1>8, <1>9 DEF Next

THEOREM LibrarySound == Spec => []Sound(Library)
<1> QED BY InitSound, NextSound, PTL DEF Spec

\* A header table has one owner, who knows it, and is never left idle while
\* somebody waits: whatever requests, closes and timeouts do in between
\* (parsers.c:119, :238).
THEOREM TablesNeverIdle == Spec => []HeaderTables
<1>1. Sound(Library) => HeaderTables
  <2> SUFFICES ASSUME Sound(Library) PROVE HeaderTables
    OBVIOUS
  <2>1. TablesOk(Library) /\ Waiters(Library) \subseteq Living(Library)
    BY DEF Sound
  <2>2. /\ Library.conn = conn /\ Library.pool = pool /\ Library.waiting = waiting
    BY DEF Library
  <2>3. \A i \in DOMAIN waiting : Served(waiting[i])
    BY <2>1, <2>2 DEF Waiters, Living, Live, Served
  <2> QED BY <2>1, <2>2, <2>3 DEF TablesOk, HeaderTables
<1> QED BY <1>1, LibrarySound, PTL

\* The table of pollfds has an entry for each connection that is served, where
\* the connection remembers it, and accepts are off just when it is full
\* (pollfd.c:172, :261).
THEOREM PollfdsAgree == Spec => []FdsConsistent
<1>1. Sound(Library) => FdsConsistent
  <2> SUFFICES ASSUME Sound(Library) PROVE FdsConsistent
    OBVIOUS
  <2>1. FdsOk(Library, Living(Library))
    BY DEF Sound
  <2>2. Library.conn = conn /\ Library.fds = fds /\ Library.listen = listen
    BY DEF Library
  <2>3. \A w \in Conns : Served(w) <=> w \in Living(Library)
    BY <2>2 DEF Living, Live, Served
  <2> QED BY <2>1, <2>2, <2>3 DEF FdsOk, FdsConsistent
<1> QED BY <1>1, LibrarySound, PTL

\* Each connection that was announced to the user is taken back exactly once,
\* by the time it is freed (libwebsockets.c:214, :440).
THEOREM EveryEndIsTold == Spec => []CallbacksPaired
<1>1. Sound(Library) => CallbacksPaired
  <2> SUFFICES ASSUME Sound(Library) PROVE CallbacksPaired
    OBVIOUS
  <2>1. \A w \in Conns : Staged(conn[w])
    BY DEF Sound, Shape, ConnOk, Library
  <2> QED BY <2>1 DEF Staged, CallbacksPaired
<1> QED BY <1>1, LibrarySound, PTL
=============================================================================
