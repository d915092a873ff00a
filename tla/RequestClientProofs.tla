-------------------------- MODULE RequestClientProofs --------------------------
(***************************************************************************)
(* Proofs about RequestClient, for any number of pages, requests and kinds *)
(* of requests: what holds of the socket of a page at any time.            *)
(***************************************************************************)
EXTENDS RequestClient, TLAPS, SequenceTheorems, FiniteSetTheorems, WellFoundedInduction

\* A sequence, of whatever.
IsSeq(s) == \E S : s \in Seq(S)

\* What arrays the state is made of.
Shape ==
    /\ webSocket \in [Pages -> SocketStates]
    /\ connectTimer \subseteq Pages
    /\ inbox = [p \in Pages |-> inbox[p]]
    /\ outbox = [p \in Pages |-> outbox[p]]
    /\ micro = [p \in Pages |-> micro[p]]
    /\ \A p \in Pages : IsSeq(inbox[p])

\* The close of a socket is the last of its events, and the server has given up
\* the client by then.
CloseIsLast ==
    \A p \in Pages : \A n \in 1..Len(inbox[p]) :
        inbox[p][n].event = "close" => n = Len(inbox[p]) /\ p \notin link

\* The server keeps no answers for those who are not its clients.
NoneForStrangers == \A p \in Pages : p \notin link => outbox[p] = <<>>

\* A page without a socket is no client, and no event is left for it.
NullIsQuiet ==
    \A p \in Pages : webSocket[p] = "null" => p \notin link /\ inbox[p] = <<>>

\* A send that goes on does so in the task in which its socket was open.
MicroIsOpen == \A p \in Pages : micro[p] # <<>> => webSocket[p] = "open"

SocketInv ==
    /\ Shape /\ CloseIsLast /\ NoneForStrangers /\ NullIsQuiet /\ MicroIsOpen
    /\ SocketOrTimer /\ SendsOnOpenSocket

\* The ids of the requests a page has made.
Made(p) == 0..(Len(made[p]) - 1)

\* The messages the server may answer with, and those whose handler may be at
\* work: a page has asked for them, and one that has gone is past caring.
Asked == {r \in RequestIds : webSocket[r.page] # "unloaded" /\
                               (Loaded(r.page) => r.id \in Made(r.page))}
Answers == {a \in Asked : Loaded(a.page) =>
                (made[a.page][a.id + 1] \in AsyncRequests => a \in done)}
Tasks == {r \in Asked : Loaded(r.page) => made[r.page][r.id + 1] \in AsyncRequests}

\* Whatever waits or is on its way is a request the page has made.
MadeBy(p) ==
    /\ made[p] \in Seq(Requests) /\ Len(made[p]) <= MaxRequests
    /\ jsonListeners[p] \in Seq(Made(p)) /\ openListeners[p] \in Seq(Made(p))
    /\ micro[p] \in Seq(Made(p)) /\ toServer[p] \in Seq(Made(p))
    /\ timers[p] \subseteq Made(p)

\* Whatever the server says is an answer.
Heard(p) ==
    \A n \in 1..Len(inbox[p]) : inbox[p][n].event = "message" => inbox[p][n].answer \in Answers

\* A promise is settled by an answer with its id.
Settled(p) ==
    /\ promise[p] \in [Ids -> Answers \cup {NoAnswer}]
    /\ \A i \in Ids :
         promise[p][i] # NoAnswer => Loaded(p) /\ i \in Made(p) /\ promise[p][i].id = i

\* PendingHasListener, without counting.
ListensFor(p) ==
    /\ IsInjective(jsonListeners[p])
    /\ \A i \in Ids : (\E n \in DOMAIN jsonListeners[p] : jsonListeners[p][n] = i)
                        <=> i \in Made(p) /\ promise[p][i] = NoAnswer

PageOk(p) ==
    /\ MadeBy(p) /\ Heard(p) /\ Settled(p) /\ ListensFor(p)
    /\ outbox[p] \in Seq(Answers)

PerPage(f) == f = [p \in Pages |-> f[p]]

AnswerInv ==
    /\ SocketInv
    /\ PerPage(made) /\ PerPage(promise) /\ PerPage(jsonListeners)
    /\ PerPage(openListeners) /\ PerPage(timers) /\ PerPage(toServer)
    /\ \A p \in Pages : PageOk(p)
    /\ running \subseteq Tasks /\ done \subseteq RequestIds
    /\ \A p \in link : p \in Pages /\ Loaded(p)

-----------------------------------------------------------------------------
(* Sequences *)

\* What the browser takes from an inbox, and adds to it.
LEMMA Took ==
    ASSUME NEW s, IsSeq(s), s # <<>>
    PROVE  /\ IsSeq(Tail(s)) /\ Len(s) \in Nat /\ Len(s) # 0
           /\ Len(Tail(s)) = Len(s) - 1 /\ Head(s) = s[1]
           /\ \A n \in 1..Len(Tail(s)) : Tail(s)[n] = s[n + 1]
<1>1. PICK S : s \in Seq(S)
  BY DEF IsSeq
<1>2. /\ Tail(s) \in Seq(S) /\ Len(Tail(s)) = Len(s) - 1 /\ Head(s) = s[1]
      /\ \A n \in 1..Len(Tail(s)) : Tail(s)[n] = s[n + 1]
  BY <1>1, HeadTailProperties
<1>3. Len(s) \in Nat /\ Len(s) # 0
  BY <1>1, EmptySeq
<1> QED BY <1>2, <1>3 DEF IsSeq

LEMMA Added ==
    ASSUME NEW s, IsSeq(s), NEW e
    PROVE  /\ IsSeq(Append(s, e)) /\ Len(s) \in Nat
           /\ Len(Append(s, e)) = Len(s) + 1
           /\ \A n \in 1..Len(s) : Append(s, e)[n] = s[n]
           /\ Append(s, e)[Len(s) + 1] = e
<1>1. PICK S : s \in Seq(S)
  BY DEF IsSeq
<1> DEFINE T == S \cup {e}
<1>2. s \in Seq(T) /\ e \in T
  <2>1. s \in [1..Len(s) -> T] /\ Len(s) \in Nat
    BY <1>1
  <2> QED BY <2>1
<1>3. /\ Append(s, e) \in Seq(T) /\ Len(Append(s, e)) = Len(s) + 1
      /\ \A n \in 1..Len(s) : Append(s, e)[n] = s[n]
      /\ Append(s, e)[Len(s) + 1] = e
  BY <1>2, AppendProperties
<1>4. Len(s) \in Nat
  BY <1>1
<1> QED BY <1>3, <1>4 DEF IsSeq

LEMMA Ended ==
    ASSUME NEW s, NEW t, IsSeq(s), IsSeq(t)
    PROVE  /\ IsSeq(s \o t) /\ Len(s) \in Nat /\ Len(t) \in Nat
           /\ Len(s \o t) = Len(s) + Len(t)
           /\ \A n \in 1..Len(s) : (s \o t)[n] = s[n]
           /\ \A n \in 1..Len(t) : (s \o t)[Len(s) + n] = t[n]
<1>1. PICK S : s \in Seq(S)
  BY DEF IsSeq
<1>2. PICK S2 : t \in Seq(S2)
  BY DEF IsSeq
<1> DEFINE T == S \cup S2
<1>3. s \in Seq(T) /\ t \in Seq(T) /\ Len(s) \in Nat /\ Len(t) \in Nat
  <2>1. s \in [1..Len(s) -> T] /\ Len(s) \in Nat
    BY <1>1
  <2>2. t \in [1..Len(t) -> T] /\ Len(t) \in Nat
    BY <1>2
  <2> QED BY <2>1, <2>2
<1>4. /\ s \o t \in Seq(T) /\ Len(s \o t) = Len(s) + Len(t)
      /\ \A n \in 1..Len(s) + Len(t) :
           (s \o t)[n] = IF n <= Len(s) THEN s[n] ELSE t[n - Len(s)]
  BY <1>3, ConcatProperties
<1>5. \A n \in 1..Len(s) : (s \o t)[n] = s[n]
  BY <1>3, <1>4
<1>6. \A n \in 1..Len(t) : (s \o t)[Len(s) + n] = t[n]
  <2> TAKE n \in 1..Len(t)
  <2>1. Len(s) + n \in 1..Len(s) + Len(t) /\ ~(Len(s) + n <= Len(s))
        /\ (Len(s) + n) - Len(s) = n
    BY <1>3
  <2> QED BY <2>1, <1>4
<1> QED BY <1>3, <1>4, <1>5, <1>6 DEF IsSeq

LEMMA Short ==
    ASSUME NEW e, NEW f
    PROVE  /\ IsSeq(<<>>) /\ IsSeq(<<e>>) /\ IsSeq(<<e, f>>)
           /\ Len(<<>>) = 0
           /\ Len(<<e>>) = 1 /\ <<e>>[1] = e
           /\ Len(<<e, f>>) = 2 /\ <<e, f>>[1] = e /\ <<e, f>>[2] = f
<1>1. <<>> \in Seq({e}) /\ <<e>> \in Seq({e}) /\ <<e, f>> \in Seq({e, f})
  OBVIOUS
<1> QED BY <1>1 DEF IsSeq

\* The close of a socket is the last of the events of s.
CloseEnds(s) == \A n \in 1..Len(s) : s[n].event = "close" => n = Len(s)
NoClose(s) == \A n \in 1..Len(s) : s[n].event # "close"

\* What a loss adds to an inbox without a close ends with one.
LEMMA Lost ==
    ASSUME NEW s, IsSeq(s), NoClose(s),
           NEW t, t \in {<<Event("close")>>, <<Event("closing"), Event("close")>>}
    PROVE  IsSeq(s \o t) /\ CloseEnds(s \o t)
<1> DEFINE one == <<Event("close")>>
           two == <<Event("closing"), Event("close")>>
<1>1. /\ IsSeq(t) /\ Len(t) \in Nat /\ Len(t) # 0
      /\ \A n \in 1..Len(t) : t[n].event = "close" => n = Len(t)
  <2>1. CASE t = one
    <3>1. IsSeq(one) /\ Len(one) = 1
      BY Short
    <3> QED BY <2>1, <3>1
  <2>2. CASE t = two
    <3>1. IsSeq(two) /\ Len(two) = 2 /\ two[1] = Event("closing")
      BY Short
    <3>2. Event("closing").event # "close"
      BY DEF Event
    <3> QED BY <2>2, <3>1, <3>2
  <2> QED BY <2>1, <2>2
<1>2. /\ IsSeq(s \o t) /\ Len(s) \in Nat /\ Len(s \o t) = Len(s) + Len(t)
      /\ \A n \in 1..Len(s) : (s \o t)[n] = s[n]
      /\ \A n \in 1..Len(t) : (s \o t)[Len(s) + n] = t[n]
  BY <1>1, Ended
<1>3. ASSUME NEW n \in 1..Len(s \o t), (s \o t)[n].event = "close"
      PROVE  n = Len(s \o t)
  <2>1. ~(n <= Len(s))
    BY <1>2, <1>3 DEF NoClose
  <2>2. n - Len(s) \in 1..Len(t) /\ Len(s) + (n - Len(s)) = n
    BY <1>1, <1>2, <2>1
  <2>3. (s \o t)[n] = t[n - Len(s)]
    BY <1>2, <2>2
  <2>4. n - Len(s) = Len(t)
    BY <1>1, <1>3, <2>2, <2>3
  <2> QED BY <1>1, <1>2, <2>4
<1> QED BY <1>2, <1>3 DEF CloseEnds

\* The list without one of its elements.
LEMMA Without ==
    ASSUME NEW S, NEW q \in Seq(S), NEW k \in 1..Len(q)
    PROVE  /\ RemoveAt(q, k) \in Seq(S) /\ Len(RemoveAt(q, k)) = Len(q) - 1
           /\ \A i \in 1..(Len(q) - 1) : RemoveAt(q, k)[i] = IF i < k THEN q[i] ELSE q[i + 1]
<1> DEFINE r == RemoveAt(q, k)
           a == SubSeq(q, 1, k - 1)
           b == SubSeq(q, k + 1, Len(q))
<1>0. Len(q) \in Nat /\ k \in Nat /\ 1 <= k /\ k <= Len(q)
  OBVIOUS
<1>1. /\ a \in Seq(S) /\ Len(a) = k - 1
      /\ \A i \in 1..(k - 1) : a[i] = q[i]
  BY <1>0, SubSeqProperties
<1>2. /\ b \in Seq(S) /\ Len(b) = Len(q) - k
      /\ \A i \in 1..(Len(q) - k) : b[i] = q[k + i]
  <2>1. k + 1 \in 1..(Len(q) + 1) /\ Len(q) \in 0..Len(q)
    BY <1>0
  <2>2. /\ b \in Seq(S)
        /\ Len(b) = IF k + 1 <= Len(q) THEN Len(q) - (k + 1) + 1 ELSE 0
        /\ \A i \in 1..(Len(q) - (k + 1) + 1) : b[i] = q[(k + 1) + i - 1]
    BY <2>1, SubSeqProperties
  <2> HIDE DEF b
  <2>3. Len(b) = Len(q) - k /\ Len(q) - (k + 1) + 1 = Len(q) - k
    BY ONLY <1>0, <2>2
  <2>4. ASSUME NEW i \in 1..(Len(q) - k) PROVE b[i] = q[k + i]
    <3>1. (k + 1) + i - 1 = k + i
      BY <1>0
    <3> QED BY <2>2, <2>3, <3>1
  <2> QED BY <2>2, <2>3, <2>4
<1>3. r = a \o b
  BY DEF RemoveAt
<1> HIDE DEF a, b, r
<1>4. /\ r \in Seq(S) /\ Len(r) = Len(a) + Len(b)
      /\ \A i \in 1..(Len(a) + Len(b)) : r[i] = IF i <= Len(a) THEN a[i] ELSE b[i - Len(a)]
  BY <1>1, <1>2, <1>3, ConcatProperties
<1>5. ASSUME NEW i \in 1..(Len(q) - 1) PROVE r[i] = IF i < k THEN q[i] ELSE q[i + 1]
  <2>0. i \in 1..(Len(a) + Len(b)) /\ Len(a) = k - 1 /\ i \in Nat /\ 1 <= i
    BY <1>0, <1>1, <1>2
  <2>1. CASE i < k
    <3>1. i <= Len(a) /\ i \in 1..(k - 1)
      BY ONLY <1>0, <2>0, <2>1
    <3> QED BY <1>1, <1>4, <2>0, <2>1, <3>1
  <2>2. CASE ~(i < k)
    <3>1. i - (k - 1) \in 1..(Len(q) - k) /\ k + (i - (k - 1)) = i + 1
      BY <1>0, <2>2
    <3>2. r[i] = b[i - (k - 1)]
      <4>1. ~(i <= Len(a))
        BY ONLY <1>0, <2>0, <2>2
      <4> QED BY <1>4, <2>0, <4>1
    <3> QED BY <1>2, <2>2, <3>1, <3>2
  <2> QED BY <2>1, <2>2
<1> QED BY <1>0, <1>1, <1>2, <1>4, <1>5 DEF r

-----------------------------------------------------------------------------
(* Emissions *)

\* A set of numbers that is not empty has a least one.
LEMMA Least ==
    ASSUME NEW bad \in SUBSET Nat, bad # {}
    PROVE  \E m \in bad : \A n \in bad : m <= n
<1> DEFINE R == OpToRel(<,Nat)
<1>1. IsWellFoundedOn(R, Nat)
  BY NatLessThanWellFounded
<1>2. \A m \in bad : \A n \in bad : <<n, m>> \in R <=> n < m
  BY DEF OpToRel
<1> HIDE DEF R
<1>3. PICK m \in bad : \A n \in bad : ~(<<n, m>> \in R)
  BY <1>1, WFMin
<1>4. \A n \in bad : ~(n < m)
  BY <1>2, <1>3
<1> QED BY <1>4

\* What holds at first, and of n + 1 when it holds of n, holds at the end.
LEMMA Steps ==
    ASSUME NEW N \in Nat, NEW good, 0 \in good, \A n \in 1..N : n - 1 \in good => n \in good
    PROVE  \A n \in 0..N : n \in good
<1> DEFINE bad == {n \in 0..N : n \notin good}
<1> SUFFICES ASSUME bad # {} PROVE FALSE
  OBVIOUS
<1>1. bad \in SUBSET Nat
  OBVIOUS
<1>2. PICK m \in bad : \A n \in bad : m <= n
  <2> HIDE DEF bad
  <2> QED BY <1>1, Least
<1>3. m \in 1..N /\ m - 1 \in 0..N /\ m - 1 \notin bad
  BY <1>2
<1> QED BY <1>2, <1>3

\* The states g of a run of N steps of F from a.
Run(g, N, a, F) ==
    /\ g = [n \in 0..N |-> g[n]]
    /\ g[0] = a /\ \A n \in 1..N : g[n] = F[g[n - 1]]

LEMMA RunExists ==
    ASSUME NEW a, NEW F, NEW N \in Nat
    PROVE  \E g : Run(g, N, a, F)
<1> DEFINE good == {m \in Nat : \E g : Run(g, m, a, F)}
<1>1. 0 \in good
  <2> DEFINE g == [n \in 0..0 |-> a]
  <2>1. g = [n \in 0..0 |-> g[n]] /\ g[0] = a /\ 1..0 = {}
    OBVIOUS
  <2> HIDE DEF g
  <2>2. Run(g, 0, a, F)
    BY <2>1 DEF Run
  <2> QED BY <2>2
<1>2. ASSUME NEW m \in 1..N, m - 1 \in good PROVE m \in good
  <2>1. PICK g : Run(g, m - 1, a, F)
    BY <1>2
  <2> DEFINE h == [n \in 0..m |-> IF n = m THEN F[g[m - 1]] ELSE g[n]]
  <2>2. h = [n \in 0..m |-> h[n]] /\ h[0] = a
    BY <2>1 DEF Run
  <2>3. ASSUME NEW n \in 1..m PROVE h[n] = F[h[n - 1]]
    <3>1. n \in 0..m /\ n - 1 \in 0..m /\ n - 1 # m /\ m \in Nat
      OBVIOUS
    <3>2. h[n - 1] = g[n - 1]
      BY <3>1
    <3>3. CASE n = m
      BY <3>1, <3>2, <3>3
    <3>4. CASE n # m
      <4>1. n \in 1..(m - 1) /\ h[n] = g[n]
        BY <3>1, <3>4
      <4> QED BY <2>1, <3>2, <4>1 DEF Run
    <3> QED BY <3>3, <3>4
  <2> HIDE DEF h
  <2>4. Run(h, m, a, F)
    BY <2>2, <2>3 DEF Run
  <2> QED BY <2>4
<1> HIDE DEF good
<1>3. \A n \in 0..N : n \in good
  BY <1>1, <1>2, Steps
<1> QED BY <1>3 DEF good

\* The states of an emission.
IsEmission(g, list, leaving, heard) ==
    /\ g[0] = [i |-> 1, called |-> <<>>, rest |-> list]
    /\ \A n \in 1..Len(list) : g[n] = Call(g[n - 1], leaving, heard)
    /\ Emit(list, leaving, heard) = g[Len(list)]

LEMMA EmissionExists ==
    ASSUME NEW list, Len(list) \in Nat, NEW leaving, NEW heard, NEW X,
           [i |-> 1, called |-> <<>>, rest |-> list] \in X,
           \A s \in X : Call(s, leaving, heard) \in X
    PROVE  \E g : IsEmission(g, list, leaving, heard) /\ \A n \in 0..Len(list) : g[n] \in X
<1> DEFINE N == Len(list)
           a == [i |-> 1, called |-> <<>>, rest |-> list]
           F == [s \in X |-> Call(s, leaving, heard)]
           P(g) == g = [n \in 0..N |-> IF n = 0 THEN a ELSE Call(g[n - 1], leaving, heard)]
           step == CHOOSE g : P(g)
<1>1. PICK g : Run(g, N, a, F)
  <2> HIDE DEF a, F, P
  <2> QED BY RunExists
<1>2. a \in X /\ N \in Nat /\ \A s \in X : F[s] = Call(s, leaving, heard) /\ F[s] \in X
  OBVIOUS
<1>3. Emit(list, leaving, heard) = step[N]
  BY DEF Emit
<1> HIDE DEF a, F, N, step
<1>4. \A n \in 0..N : g[n] \in X
  <2> DEFINE good == {n \in 0..N : g[n] \in X}
  <2>1. 0 \in good
    BY <1>1, <1>2 DEF Run
  <2>2. ASSUME NEW n \in 1..N, n - 1 \in good PROVE n \in good
    <3>1. g[n - 1] \in X /\ n \in 0..N
      BY <2>2
    <3>2. g[n] = F[g[n - 1]]
      BY <1>1 DEF Run
    <3> QED BY <1>2, <3>1, <3>2
  <2> HIDE DEF good
  <2>3. \A n \in 0..N : n \in good
    BY <1>2, <2>1, <2>2, Steps
  <2> QED BY <2>3 DEF good
<1>5. P(g)
  <2>1. \A n \in 0..N : n = 0 \/ (n \in 1..N /\ n - 1 \in 0..N)
    BY <1>2
  <2>2. ASSUME NEW n \in 1..N PROVE g[n] = Call(g[n - 1], leaving, heard)
    <3>1. n - 1 \in 0..N
      BY <1>2
    <3>2. g[n] = F[g[n - 1]] /\ g[n - 1] \in X
      BY <1>1, <1>4, <3>1 DEF Run
    <3> QED BY <1>2, <3>2
  <2> QED BY <1>1, <2>1, <2>2 DEF Run
<1>6. P(step)
  <2> HIDE DEF P
  <2> QED BY <1>5 DEF step
<1>7. /\ step[0] = a
      /\ \A n \in 1..N : step[n] = Call(step[n - 1], leaving, heard)
  <2>1. N \in Nat /\ 0 \in 0..N /\ \A n \in 1..N : n \in 0..N /\ n # 0
    BY <1>2
  <2> QED BY <1>6, <2>1
<1>8. \A n \in 0..N : step[n] \in X
  <2> DEFINE good == {n \in 0..N : step[n] \in X}
  <2>1. 0 \in good
    BY <1>2, <1>7
  <2>2. \A n \in 1..N : n - 1 \in good => n \in good
    BY <1>2, <1>7
  <2> HIDE DEF good
  <2>3. \A n \in 0..N : n \in good
    BY <1>2, <2>1, <2>2, Steps
  <2> QED BY <2>3 DEF good
<1>9. IsEmission(step, list, leaving, heard)
  BY <1>3, <1>7 DEF IsEmission, a, N
<1> QED BY <1>8, <1>9 DEF N

\* A call is of a listener of the list, and the list keeps its own.
LEMMA CallKeeps ==
    ASSUME NEW S, NEW leaving, NEW heard,
           NEW s \in [i : Nat \ {0}, called : Seq(S \cap heard), rest : Seq(S)]
    PROVE  Call(s, leaving, heard) \in [i : Nat \ {0}, called : Seq(S \cap heard), rest : Seq(S)]
<1>1. CASE s.i > Len(s.rest)
  BY <1>1 DEF Call
<1>2. CASE ~(s.i > Len(s.rest))
  <2> DEFINE c == IF s.rest[s.i] \in heard THEN Append(s.called, s.rest[s.i]) ELSE s.called
             r == IF s.rest[s.i] \in leaving THEN RemoveAt(s.rest, s.i) ELSE s.rest
  <2>1. s.i \in 1..Len(s.rest) /\ s.rest \in Seq(S) /\ s.rest[s.i] \in S
    BY <1>2
  <2>2. c \in Seq(S \cap heard)
    BY <2>1, AppendProperties
  <2>3. r \in Seq(S)
    BY <2>1, Without
  <2>4. Call(s, leaving, heard) = [i |-> s.i + 1, called |-> c, rest |-> r]
    BY <1>2, Zenon DEF Call
  <2> HIDE DEF c, r
  <2> QED BY <2>2, <2>3, <2>4
<1> QED BY <1>1, <1>2

\* So do all of them.
LEMMA EmitKeeps ==
    ASSUME NEW S, NEW list \in Seq(S), NEW leaving, NEW heard
    PROVE  /\ Emit(list, leaving, heard).called \in Seq(S \cap heard)
           /\ Emit(list, leaving, heard).rest \in Seq(S)
<1> DEFINE X == [i : Nat \ {0}, called : Seq(S \cap heard), rest : Seq(S)]
<1>1. [i |-> 1, called |-> <<>>, rest |-> list] \in X /\ Len(list) \in Nat
  OBVIOUS
<1>2. \A s \in X : Call(s, leaving, heard) \in X
  BY CallKeeps
<1> HIDE DEF X
<1>3. PICK g : IsEmission(g, list, leaving, heard) /\ \A n \in 0..Len(list) : g[n] \in X
  BY <1>1, <1>2, EmissionExists
<1>4. Emit(list, leaving, heard) \in X
  BY <1>1, <1>3 DEF IsEmission
<1> QED BY <1>4 DEF X

\* Nobody leaves: the list stays.
LEMMA EmitToNobody ==
    ASSUME NEW S, NEW list \in Seq(S)
    PROVE  Emit(list, {}, {}).called = <<>> /\ Emit(list, {}, {}).rest = list
<1> DEFINE X == [i : Nat \ {0}, called : {<<>>}, rest : {list}]
<1>1. [i |-> 1, called |-> <<>>, rest |-> list] \in X /\ Len(list) \in Nat
  OBVIOUS
<1>2. \A s \in X : Call(s, {}, {}) \in X
  BY DEF Call
<1> HIDE DEF X
<1>3. PICK g : IsEmission(g, list, {}, {}) /\ \A n \in 0..Len(list) : g[n] \in X
  BY <1>1, <1>2, EmissionExists
<1>4. Emit(list, {}, {}) \in X
  BY <1>1, <1>3 DEF IsEmission
<1> QED BY <1>4 DEF X

\* One leaves: it is called, and no other has gone.
LEMMA EmitTakesOff ==
    ASSUME NEW S, NEW list \in Seq(S), IsInjective(list),
           NEW k \in 1..Len(list), NEW v, list[k] = v
    PROVE  LET out == Emit(list, {v}, {v})
           IN  ToSet(out.called) = {v} /\ out.rest = RemoveAt(list, k)
<1> DEFINE X == [i : Nat \ {0}, called : Seq(S \cap {v}), rest : Seq(S)]
           N == Len(list)
           gone == RemoveAt(list, k)
           Before(s, n) == s.i = n + 1 /\ s.i <= k /\ s.rest = list
           After(s) == s.called # <<>> /\ s.rest = gone
<1>1. [i |-> 1, called |-> <<>>, rest |-> list] \in X /\ N \in Nat
  OBVIOUS
<1>2. \A s \in X : Call(s, {v}, {v}) \in X
  BY CallKeeps
<1>3. /\ gone \in Seq(S) /\ Len(gone) = N - 1
      /\ \A i \in 1..(N - 1) : gone[i] = IF i < k THEN list[i] ELSE list[i + 1]
  BY Without
<1>4. \A i \in 1..Len(gone) : gone[i] # v
  BY <1>1, <1>3 DEF IsInjective
<1> HIDE DEF X
<1>5. PICK g : IsEmission(g, list, {v}, {v}) /\ \A n \in 0..N : g[n] \in X
  BY <1>1, <1>2, EmissionExists
<1> DEFINE good == {n \in 0..N : Before(g[n], n) \/ After(g[n])}
<1>6. 0 \in good
  BY <1>1, <1>5 DEF IsEmission
<1>7. ASSUME NEW n \in 1..N, n - 1 \in good PROVE n \in good
  <2> DEFINE s == g[n - 1]
  <2>1. s \in X /\ g[n] = Call(s, {v}, {v}) /\ n \in 0..N /\ (n - 1) + 1 = n
    <3>1. n - 1 \in 0..N /\ n \in 0..N /\ (n - 1) + 1 = n
      BY <1>1
    <3>2. g[n] = Call(s, {v}, {v})
      BY <1>5 DEF IsEmission
    <3> QED BY <1>5, <3>1, <3>2
  <2>2. Before(s, n - 1) \/ After(s)
    BY <1>7
  <2> HIDE DEF s
  <2>3. s.i \in Nat \ {0} /\ s.called \in Seq(S \cap {v})
    BY <2>1 DEF X
  <2>4. CASE Before(s, n - 1) /\ s.i < k
    <3>1. s.rest = list /\ s.i \in 1..N /\ s.i = n
      BY <2>1, <2>3, <2>4
    <3>2. list[s.i] # v
      BY <2>4, <3>1 DEF IsInjective
    <3>3. Call(s, {v}, {v}) = [i |-> s.i + 1, called |-> s.called, rest |-> s.rest]
      BY <3>1, <3>2 DEF Call
    <3>4. Before(Call(s, {v}, {v}), n)
      BY <2>3, <2>4, <3>1, <3>3
    <3> QED BY <2>1, <3>4
  <2>5. CASE Before(s, n - 1) /\ s.i = k
    <3>1. s.rest = list /\ ~(s.i > Len(s.rest)) /\ s.rest[s.i] = v
      BY <2>5
    <3>2. Call(s, {v}, {v}) = [i |-> s.i + 1, called |-> Append(s.called, v), rest |-> gone]
      BY <2>5, <3>1 DEF Call
    <3>3. Append(s.called, v) # <<>>
      <4>1. v \in S
        OBVIOUS
      <4> QED BY <2>3, <4>1, AppendProperties, EmptySeq
    <3> HIDE DEF gone
    <3>4. After(Call(s, {v}, {v}))
      BY <3>2, <3>3
    <3> QED BY <2>1, <3>4
  <2>6. CASE After(s)
    <3>1. s.i > Len(s.rest) \/ s.rest[s.i] # v
      BY <1>3, <1>4, <2>3, <2>6
    <3>2. Call(s, {v}, {v}).called = s.called /\ Call(s, {v}, {v}).rest = s.rest
      BY <3>1 DEF Call
    <3>3. After(Call(s, {v}, {v}))
      BY <2>6, <3>2
    <3> QED BY <2>1, <3>3
  <2>7. Before(s, n - 1) => s.i < k \/ s.i = k
    BY <2>3
  <2> QED BY <2>2, <2>4, <2>5, <2>6, <2>7
<1> HIDE DEF good
<1>8. \A n \in 0..N : n \in good
  BY <1>1, <1>6, <1>7, Steps
<1>9. After(g[N]) /\ g[N] \in X
  <2>1. N \in good /\ N \in 0..N
    BY <1>1, <1>8
  <2>2. ~Before(g[N], N)
    BY <1>1
  <2> QED BY <1>5, <2>1, <2>2 DEF good
<1>10. Emit(list, {v}, {v}) = g[N]
  BY <1>5 DEF IsEmission
<1>11. ToSet(g[N].called) = {v}
  <2>1. g[N].called \in Seq(S \cap {v}) /\ g[N].called # <<>>
    BY <1>9 DEF X
  <2>2. DOMAIN g[N].called = 1..Len(g[N].called) /\ 1 \in DOMAIN g[N].called
    BY <2>1, EmptySeq
  <2>3. \A j \in DOMAIN g[N].called : g[N].called[j] = v
    BY <2>1
  <2> QED BY <2>2, <2>3 DEF ToSet
<1> QED BY <1>9, <1>10, <1>11

-----------------------------------------------------------------------------
(* The steps *)

LEMMA SocketInit == Init => SocketInv
<1> SUFFICES ASSUME Init PROVE SocketInv
  OBVIOUS
<1>1. IsSeq(<<>>) /\ Len(<<>>) = 0
  BY Short
<1> QED BY <1>1 DEF Init, SocketInv, Shape, CloseIsLast, NoneForStrangers, NullIsQuiet,
        MicroIsOpen, SocketOrTimer, SendsOnOpenSocket, SocketStates

\* What a page does for itself: its inbox stays, or begins anew.
Alone(p) ==
    Load(p) \/ Unload(p) \/ Request(p) \/ Timeout(p) \/ Reconnect(p) \/ Send(p)

LEMMA SocketAlone ==
    ASSUME SocketInv, NEW p \in Pages, Alone(p)
    PROVE  SocketInv'
<1> USE DEF SocketInv, Shape, CloseIsLast, NoneForStrangers, NullIsQuiet, MicroIsOpen,
            SocketOrTimer, SendsOnOpenSocket, SocketStates, Loaded, Idle, netVars
<1>0. IsSeq(<<>>) /\ Len(<<>>) = 0
  BY Short
<1>1. CASE Load(p)
  BY <1>0, <1>1 DEF Load, Connect
<1>2. CASE Unload(p)
  <2>1. /\ webSocket' = [webSocket EXCEPT ![p] = "gone"]
        /\ micro' = [micro EXCEPT ![p] = <<>>]
        /\ connectTimer' = connectTimer \ {p}
        /\ inbox' = [inbox EXCEPT ![p] = <<>>]
        /\ outbox' = [outbox EXCEPT ![p] = <<>>]
        /\ link' = link \ {p} /\ fault' = fault
    BY <1>2, Zenon DEF Unload
  <2>2. \A q \in Pages : q # p =>
            /\ webSocket'[q] = webSocket[q] /\ micro'[q] = micro[q]
            /\ inbox'[q] = inbox[q] /\ outbox'[q] = outbox[q]
    BY <2>1
  <2>3. /\ webSocket'[p] = "gone" /\ micro'[p] = <<>>
        /\ inbox'[p] = <<>> /\ outbox'[p] = <<>>
    BY <2>1
  <2>4. Shape'
    BY <1>0, <2>1, <2>2, <2>3
  <2>5. CloseIsLast'
    BY <1>0, <2>1, <2>2, <2>3
  <2> QED BY <2>1, <2>2, <2>3, <2>4, <2>5
<1>3. CASE Request(p)
  <2>1. micro' = micro \/ /\ webSocket[p] = "open"
                          /\ \E e : micro' = [micro EXCEPT ![p] = e]
    BY <1>3 DEF Request, WaitForSocket
  <2> QED BY <1>3, <2>1 DEF Request
<1>4. CASE Timeout(p)
  BY <1>4 DEF Timeout
<1>5. CASE Reconnect(p)
  BY <1>0, <1>5 DEF Reconnect, Connect
<1>6. CASE Send(p)
  BY <1>6 DEF Send
<1> QED BY <1>1, <1>2, <1>3, <1>4, <1>5, <1>6, Zenon DEF Alone

\* The page hears of an event.
LEMMA SocketHears ==
    ASSUME SocketInv, NEW p \in Pages,
           OnOpen(p) \/ OnMessage(p) \/ OnClosing(p) \/ OnClose(p)
    PROVE  SocketInv'
<1> USE DEF SocketInv, Shape
<1>1. /\ Idle(p) /\ inbox[p] # <<>>
      /\ inbox' = [inbox EXCEPT ![p] = Tail(@)]
  BY DEF OnOpen, OnMessage, OnClosing, OnClose, Next_
<1>2. /\ IsSeq(Tail(inbox[p])) /\ Len(inbox[p]) \in Nat /\ Len(inbox[p]) # 0
      /\ Len(Tail(inbox[p])) = Len(inbox[p]) - 1 /\ Head(inbox[p]) = inbox[p][1]
      /\ \A n \in 1..Len(Tail(inbox[p])) : Tail(inbox[p])[n] = inbox[p][n + 1]
  BY <1>1, Took
<1>3. UNCHANGED <<link, outbox, fault>>
  BY DEF OnOpen, OnMessage, OnClosing, OnClose
<1>4. CloseIsLast'
  <2> SUFFICES ASSUME NEW q \in Pages, NEW n \in 1..Len(inbox'[q]),
                      inbox'[q][n].event = "close"
               PROVE  n = Len(inbox'[q]) /\ q \notin link
    BY <1>3 DEF CloseIsLast
  <2>1. CASE q # p
    <3>1. inbox'[q] = inbox[q]
      BY <1>1, <2>1
    <3> QED BY <3>1 DEF CloseIsLast
  <2>2. CASE q = p
    <3>1. inbox'[p] = Tail(inbox[p])
      BY <1>1
    <3>2. /\ n + 1 \in 1..Len(inbox[p]) /\ inbox'[p][n] = inbox[p][n + 1]
          /\ Len(inbox'[p]) = Len(inbox[p]) - 1
      BY <1>2, <2>2, <3>1
    <3>3. n + 1 = Len(inbox[p]) /\ p \notin link
      BY <2>2, <3>2 DEF CloseIsLast
    <3>4. n = Len(inbox'[p])
      BY ONLY <1>2, <3>2, <3>3
    <3> QED BY ONLY <2>2, <3>3, <3>4
  <2> QED BY <2>1, <2>2
<1>5. \A q \in Pages : IsSeq(inbox'[q])
  BY <1>1, <1>2
<1>6. webSocket[p] \notin {"null", "unloaded", "gone"} /\ micro[p] = <<>>
  BY <1>1 DEF Idle, Loaded, NullIsQuiet
<1> USE DEF SocketOrTimer, SendsOnOpenSocket, NoneForStrangers, NullIsQuiet,
            MicroIsOpen, SocketStates
<1>7. CASE OnOpen(p)
  <2> DEFINE goOn == Emit(openListeners[p], Ids, timers[p]).called
  <2>1. /\ webSocket' = [webSocket EXCEPT ![p] = "open"]
        /\ connectTimer' = connectTimer
        /\ micro' = [micro EXCEPT ![p] = goOn]
    BY ONLY <1>7, Zenon DEF OnOpen
  <2> HIDE DEF goOn
  <2> QED BY <1>1, <1>3, <1>4, <1>5, <1>6, <2>1
<1>8. CASE OnMessage(p)
  <2>1. webSocket' = webSocket /\ connectTimer' = connectTimer /\ micro' = micro
    BY <1>8, Zenon DEF OnMessage
  <2> QED BY <1>1, <1>3, <1>4, <1>5, <1>6, <2>1
<1>9. CASE OnClosing(p)
  BY <1>1, <1>3, <1>4, <1>5, <1>6, <1>9 DEF OnClosing
<1>10. CASE OnClose(p)
  <2>1. inbox[p][1].event = "close"
    BY <1>2, <1>10 DEF OnClose, Next_
  <2>2. 1 \in 1..Len(inbox[p])
    BY <1>2
  <2>3. Len(inbox[p]) = 1 /\ p \notin link
    BY <2>1, <2>2 DEF CloseIsLast
  <2>4. Tail(inbox[p]) = <<>>
    <3>1. Len(Tail(inbox[p])) = 0
      BY ONLY <1>2, <2>3
    <3>2. PICK S : Tail(inbox[p]) \in Seq(S)
      BY <1>2 DEF IsSeq
    <3> QED BY ONLY <3>1, <3>2, EmptySeq
  <2>5. /\ webSocket' = [webSocket EXCEPT ![p] = "null"]
        /\ connectTimer' = connectTimer \cup {p} /\ micro' = micro
    BY <1>10 DEF OnClose, ArmReconnect
  <2> QED BY <1>1, <1>3, <1>4, <1>5, <1>6, <2>3, <2>4, <2>5
<1> QED BY <1>7, <1>8, <1>9, <1>10

\* The browser and the network: connections come and go.
LEMMA SocketNetwork ==
    ASSUME SocketInv, NEW p \in Pages, Network(p)
    PROVE  SocketInv'
<1> USE DEF SocketInv, Shape
<1>0. IsSeq(inbox[p])
  OBVIOUS
<1>1. UNCHANGED pageVars
  BY DEF Network, Accept, Refuse, Drop, Write
<1> USE <1>1 DEF pageVars, SocketOrTimer, SendsOnOpenSocket, NoneForStrangers,
                 NullIsQuiet, MicroIsOpen, SocketStates
<1>2. CASE Accept(p)
  <2>1. /\ inbox' = [inbox EXCEPT ![p] = <<Event("open")>>]
        /\ Event("open").event = "open"
    BY <1>2 DEF Accept, Event
  <2>2. /\ IsSeq(<<Event("open")>>) /\ Len(<<Event("open")>>) = 1
        /\ <<Event("open")>>[1] = Event("open")
    BY Short
  <2>3. CloseIsLast'
    BY <1>2, <2>1, <2>2 DEF CloseIsLast, Accept
  <2> QED BY <1>2, <2>1, <2>2, <2>3 DEF Accept
<1>3. CASE Refuse(p)
  <2>1. /\ inbox' = [inbox EXCEPT ![p] = <<Event("close")>>]
        /\ p \notin link
    BY <1>3 DEF Refuse
  <2>2. /\ IsSeq(<<Event("close")>>) /\ Len(<<Event("close")>>) = 1
        /\ <<Event("close")>>[1] = Event("close")
    BY Short
  <2>3. CloseIsLast'
    BY <1>3, <2>1, <2>2 DEF CloseIsLast, Refuse
  <2> QED BY <1>3, <2>1, <2>2, <2>3 DEF Refuse
<1>4. CASE Drop(p)
  <2>1. PICK last \in {<<Event("close")>>, <<Event("closing"), Event("close")>>} :
            inbox' = [inbox EXCEPT ![p] = @ \o last]
    BY <1>4 DEF Drop
  <2>2. p \in link /\ link' = link \ {p} /\ outbox' = [outbox EXCEPT ![p] = <<>>]
    BY <1>4 DEF Drop
  <2>3. NoClose(inbox[p])
    BY <2>2 DEF NoClose, CloseIsLast
  <2>4. IsSeq(inbox[p] \o last) /\ CloseEnds(inbox[p] \o last)
    BY ONLY <1>0, <2>3, Lost
  <2>5. inbox'[p] = inbox[p] \o last /\ \A q \in Pages : q # p => inbox'[q] = inbox[q]
    BY <2>1
  <2>6. CloseIsLast'
    <3> SUFFICES ASSUME NEW q \in Pages, NEW n \in 1..Len(inbox'[q]),
                        inbox'[q][n].event = "close"
                 PROVE  n = Len(inbox'[q]) /\ q \notin link'
      BY DEF CloseIsLast
    <3>1. CASE q # p
      <4>1. inbox'[q] = inbox[q] /\ n \in 1..Len(inbox[q])
        BY <2>5, <3>1
      <4>2. n = Len(inbox[q]) /\ q \notin link
        BY <4>1 DEF CloseIsLast
      <4> QED BY <2>2, <4>1, <4>2
    <3>2. CASE q = p
      <4>1. CloseEnds(inbox'[p])
        BY ONLY <2>4, <2>5
      <4>2. n = Len(inbox'[p])
        BY <3>2, <4>1 DEF CloseEnds
      <4> QED BY <2>2, <3>2, <4>2
    <3> QED BY <3>1, <3>2
  <2>7. Shape'
    <3>1. \A q \in Pages : IsSeq(inbox'[q])
      BY <2>4, <2>5
    <3> QED BY <2>1, <2>2, <3>1
  <2>8. NoneForStrangers' /\ NullIsQuiet'
    BY <2>2, <2>5
  <2> QED BY <2>6, <2>7, <2>8
<1>5. CASE Write(p)
  <2> DEFINE e == [event |-> "message", answer |-> Head(outbox[p])]
  <2>1. /\ inbox' = [inbox EXCEPT ![p] = Append(@, e)] /\ e.event # "close"
        /\ p \in link /\ link' = link
        /\ outbox' = [outbox EXCEPT ![p] = Tail(@)]
    BY <1>5 DEF Write
  <2> HIDE DEF e
  <2>2. /\ IsSeq(Append(inbox[p], e)) /\ Len(inbox[p]) \in Nat
        /\ Len(Append(inbox[p], e)) = Len(inbox[p]) + 1
        /\ \A n \in 1..Len(inbox[p]) : Append(inbox[p], e)[n] = inbox[p][n]
        /\ Append(inbox[p], e)[Len(inbox[p]) + 1] = e
    BY Added
  <2>3. CloseIsLast'
    <3> SUFFICES ASSUME NEW q \in Pages, NEW n \in 1..Len(inbox'[q]),
                        inbox'[q][n].event = "close"
                 PROVE  n = Len(inbox'[q]) /\ q \notin link
      BY <2>1 DEF CloseIsLast
    <3>1. CASE q # p
      <4>1. inbox'[q] = inbox[q]
        BY <2>1, <3>1
      <4> QED BY <4>1 DEF CloseIsLast
    <3>2. CASE q = p
      <4>1. inbox'[p] = Append(inbox[p], e)
        BY <2>1
      <4>2. n # Len(inbox[p]) + 1
        BY <2>1, <2>2, <3>2, <4>1
      <4>3. n \in 1..Len(inbox[p])
        BY <2>2, <3>2, <4>1, <4>2
      <4> QED BY <2>1, <2>2, <3>2, <4>1, <4>3 DEF CloseIsLast
    <3> QED BY <3>1, <3>2
  <2> QED BY <2>1, <2>2, <2>3
<1> QED BY <1>2, <1>3, <1>4, <1>5 DEF Network

\* The server: answers go to those who are its clients.
LEMMA SocketServer ==
    ASSUME SocketInv, Finish \/ PhotoFails \/ \E p \in Pages : Receive(p)
    PROVE  SocketInv'
<1> USE DEF SocketInv, Shape
<1>1. UNCHANGED <<pageVars, link, inbox>>
  BY DEF Finish, PhotoFails, Receive, netVars
<1>2. \/ outbox' = outbox
      \/ \E a : outbox' = WriteJSON(a, outbox)
      \/ \E a : outbox' = WriteJSON(a, [q \in Pages |-> <<>>])
  BY Zenon DEF Finish, PhotoFails, Receive, Dispatch, netVars
<1>3. /\ outbox' = [p \in Pages |-> outbox'[p]]
      /\ \A p \in Pages : p \notin link => outbox'[p] = <<>>
  BY <1>2 DEF WriteJSON, NoneForStrangers
<1> QED BY <1>1, <1>3 DEF pageVars, CloseIsLast, NoneForStrangers, NullIsQuiet,
        MicroIsOpen, SocketOrTimer, SendsOnOpenSocket

LEMMA SocketStep == SocketInv /\ [Next]_vars => SocketInv'
<1> SUFFICES ASSUME SocketInv, [Next]_vars PROVE SocketInv'
  OBVIOUS
<1>1. CASE \E p \in Pages : Alone(p)
  BY <1>1, SocketAlone
<1>2. CASE \E p \in Pages : OnOpen(p) \/ OnMessage(p) \/ OnClosing(p) \/ OnClose(p)
  BY <1>2, SocketHears
<1>3. CASE \E p \in Pages : Network(p)
  BY <1>3, SocketNetwork
<1>4. CASE Finish \/ PhotoFails \/ \E p \in Pages : Receive(p)
  BY <1>4, SocketServer
<1>5. CASE UNCHANGED vars
  BY <1>5 DEF vars, pageVars, netVars, srvVars, SocketInv, Shape, CloseIsLast,
     NoneForStrangers, NullIsQuiet, MicroIsOpen, SocketOrTimer, SendsOnOpenSocket
<1> QED BY <1>1, <1>2, <1>3, <1>4, <1>5, Zenon DEF Next, PageTask, Alone

-----------------------------------------------------------------------------
(* Answers *)

LEMMA InLarger ==
    ASSUME NEW A, NEW B, A \subseteq B, NEW s \in Seq(A)
    PROVE  s \in Seq(B)
<1>1. s \in [1..Len(s) -> B] /\ Len(s) \in Nat
  OBVIOUS
<1> QED BY <1>1

\* Requests are only ever added, until the page goes.
Grows ==
    /\ done \subseteq done'
    /\ \A q \in Pages :
         /\ webSocket[q] = "gone" => webSocket'[q] = "gone"
         /\ webSocket[q] # "unloaded" => webSocket'[q] # "unloaded"
         /\ webSocket'[q] # "gone" =>
              /\ Made(q) \subseteq Made(q)'
              /\ \A i \in Made(q) : made'[q][i + 1] = made[q][i + 1]

LEMMA Growth ==
    ASSUME Grows
    PROVE  Asked \subseteq Asked' /\ Answers \subseteq Answers' /\ Tasks \subseteq Tasks'
<1>1. ASSUME NEW r \in Asked
      PROVE  /\ r \in Asked'
             /\ Loaded(r.page)' =>
                  /\ Loaded(r.page)
                  /\ made'[r.page][r.id + 1] = made[r.page][r.id + 1]
  <2>1. r \in RequestIds /\ r.page \in Pages /\ webSocket[r.page] # "unloaded"
        /\ (Loaded(r.page) => r.id \in Made(r.page))
    BY DEF Asked, RequestIds
  <2>2. Loaded(r.page)' => Loaded(r.page) /\ webSocket'[r.page] # "gone"
    BY <2>1 DEF Grows, Loaded
  <2>3. webSocket'[r.page] # "unloaded"
    BY <2>1 DEF Grows
  <2> QED BY <2>1, <2>2, <2>3 DEF Grows, Asked
<1> QED BY <1>1 DEF Answers, Tasks, Grows

\* What a page has stays right as long as it is what it has.
LEMMA Kept ==
    ASSUME Grows, NEW q \in Pages, PageOk(q)
    PROVE  /\ /\ made'[q] = made[q] /\ jsonListeners'[q] = jsonListeners[q]
              /\ openListeners'[q] = openListeners[q] /\ micro'[q] = micro[q]
              /\ toServer'[q] = toServer[q] /\ timers'[q] = timers[q]
              => MadeBy(q)'
           /\ inbox'[q] = inbox[q] => Heard(q)'
           /\ promise'[q] = promise[q] /\ (Loaded(q) => Loaded(q)') => Settled(q)'
           /\ /\ made'[q] = made[q] /\ jsonListeners'[q] = jsonListeners[q]
              /\ promise'[q] = promise[q]
              => ListensFor(q)'
           /\ outbox'[q] = outbox[q] => outbox'[q] \in Seq(Answers')
<1>1. Answers \subseteq Answers'
  BY Growth
<1>2. ASSUME /\ made'[q] = made[q] /\ jsonListeners'[q] = jsonListeners[q]
             /\ openListeners'[q] = openListeners[q] /\ micro'[q] = micro[q]
             /\ toServer'[q] = toServer[q] /\ timers'[q] = timers[q]
      PROVE  MadeBy(q)'
  BY <1>2 DEF PageOk, MadeBy, Made
<1>3. ASSUME inbox'[q] = inbox[q] PROVE Heard(q)'
  BY <1>1, <1>3 DEF PageOk, Heard
<1>4. ASSUME promise'[q] = promise[q], Loaded(q) => Loaded(q)' PROVE Settled(q)'
  <2>1. promise'[q] \in [Ids -> Answers' \cup {NoAnswer}]
    BY <1>1, <1>4 DEF PageOk, Settled
  <2>2. ASSUME NEW i \in Ids, promise'[q][i] # NoAnswer
        PROVE  Loaded(q)' /\ i \in Made(q)' /\ promise'[q][i].id = i
    <3>1. Loaded(q) /\ i \in Made(q) /\ promise[q][i].id = i
      BY <1>4, <2>2 DEF PageOk, Settled
    <3>2. Made(q) \subseteq Made(q)'
      BY <1>4, <3>1 DEF Grows, Loaded
    <3> QED BY <1>4, <3>1, <3>2
  <2> QED BY <2>1, <2>2 DEF Settled
<1>5. ASSUME /\ made'[q] = made[q] /\ jsonListeners'[q] = jsonListeners[q]
             /\ promise'[q] = promise[q]
      PROVE  ListensFor(q)'
  BY <1>5 DEF PageOk, ListensFor, Made
<1>6. ASSUME outbox'[q] = outbox[q] PROVE outbox'[q] \in Seq(Answers')
  BY <1>1, <1>6, InLarger DEF PageOk
<1> QED BY <1>2, <1>3, <1>4, <1>5, <1>6

\* g is f, but for one page.
Same(f, g, p) == PerPage(g) /\ \A q \in Pages \ {p} : g[q] = f[q]

\* Only page p is touched.
Local(p) ==
    /\ Same(webSocket, webSocket', p) /\ Same(made, made', p)
    /\ Same(promise, promise', p) /\ Same(jsonListeners, jsonListeners', p)
    /\ Same(openListeners, openListeners', p) /\ Same(timers, timers', p)
    /\ Same(micro, micro', p) /\ Same(inbox, inbox', p)
    /\ Same(toServer, toServer', p) /\ Same(outbox, outbox', p)

LEMMA Changed ==
    ASSUME NEW f, PerPage(f), NEW p \in Pages, NEW e
    PROVE  /\ Same(f, f, p) /\ Same(f, [f EXCEPT ![p] = e], p)
           /\ [f EXCEPT ![p] = e][p] = e
BY DEF Same, PerPage

LEMMA LocalStep ==
    ASSUME AnswerInv, NEW p \in Pages, Local(p), Grows, SocketInv', PageOk(p)',
           running' \subseteq Tasks', done' \subseteq RequestIds,
           \A q \in link' : q \in Pages /\ Loaded(q)'
    PROVE  AnswerInv'
<1>1. ASSUME NEW q \in Pages, q # p PROVE PageOk(q)'
  <2>1. PageOk(q)
    BY DEF AnswerInv
  <2>2. /\ made'[q] = made[q] /\ jsonListeners'[q] = jsonListeners[q]
        /\ openListeners'[q] = openListeners[q] /\ micro'[q] = micro[q]
        /\ toServer'[q] = toServer[q] /\ timers'[q] = timers[q]
        /\ inbox'[q] = inbox[q] /\ promise'[q] = promise[q] /\ outbox'[q] = outbox[q]
        /\ webSocket'[q] = webSocket[q]
    BY <1>1 DEF Local, Same
  <2>3. Loaded(q) => Loaded(q)'
    BY <2>2 DEF Loaded
  <2> QED BY <2>1, <2>2, <2>3, Kept DEF PageOk
<1>2. \A q \in Pages : PageOk(q)'
  BY <1>1
<1> QED BY <1>2 DEF AnswerInv, Local, Same, PerPage

LEMMA AnswerInit == Init => AnswerInv
<1> SUFFICES ASSUME Init PROVE AnswerInv
  OBVIOUS
<1>1. SocketInv
  BY SocketInit
<1>2. ASSUME NEW p \in Pages PROVE PageOk(p)
  <2>1. /\ made[p] = <<>> /\ jsonListeners[p] = <<>> /\ openListeners[p] = <<>>
        /\ timers[p] = {} /\ micro[p] = <<>> /\ toServer[p] = <<>>
        /\ inbox[p] = <<>> /\ outbox[p] = <<>> /\ promise[p] = [i \in Ids |-> NoAnswer]
    BY DEF Init
  <2>2. MadeBy(p)
    BY <2>1, ConstantsAssumption DEF MadeBy
  <2>3. ListensFor(p)
    BY <2>1 DEF ListensFor, Made, IsInjective
  <2> QED BY <2>1, <2>2, <2>3 DEF PageOk, Heard, Settled
<1> QED BY <1>1, <1>2 DEF Init, AnswerInv, PerPage

\* Facts of a page for the steps below.
LEMMA PageFacts ==
    ASSUME AnswerInv, NEW p \in Pages
    PROVE  /\ PageOk(p) /\ Len(made[p]) \in Nat /\ SocketInv
           /\ PerPage(webSocket) /\ PerPage(made) /\ PerPage(promise)
           /\ PerPage(jsonListeners) /\ PerPage(openListeners) /\ PerPage(timers)
           /\ PerPage(micro) /\ PerPage(inbox) /\ PerPage(toServer) /\ PerPage(outbox)
           /\ running \subseteq Tasks /\ done \subseteq RequestIds
           /\ \A q \in link : q \in Pages /\ Loaded(q)
BY DEF AnswerInv, PageOk, MadeBy, SocketInv, Shape, PerPage

\* Nothing is made, and no page comes or goes.
LEMMA GrowsStill ==
    ASSUME made' = made, done \subseteq done',
           \A q \in Pages : /\ webSocket[q] = "gone" <=> webSocket'[q] = "gone"
                            /\ webSocket[q] # "unloaded" => webSocket'[q] # "unloaded"
    PROVE  Grows
BY DEF Grows, Made

LEMMA AnswersLoad ==
    ASSUME AnswerInv, NEW p \in Pages, Load(p), SocketInv'
    PROVE  AnswerInv'
<1>1. Local(p)
  BY PageFacts DEF Local, Same, PerPage, Load, Connect
<1>2. Grows /\ webSocket'[p] = "connecting"
  BY PageFacts, GrowsStill DEF Load, Connect, PerPage, srvVars
<1>3. Tasks \subseteq Tasks'
  BY <1>2, Growth
<1>4. Heard(p)'
  BY PageFacts DEF Load, Connect, Heard, PerPage
<1>5. PageOk(p)'
  BY <1>2, <1>4, PageFacts, Kept DEF Load, PageOk, Loaded
<1>6. \A q \in link' : q \in Pages /\ Loaded(q)'
  BY PageFacts DEF Load, Connect, Loaded, PerPage
<1>7. running' \subseteq Tasks' /\ done' \subseteq RequestIds
  BY <1>3, PageFacts DEF Load, srvVars
<1> QED BY <1>1, <1>2, <1>5, <1>6, <1>7, LocalStep

LEMMA AnswersUnload ==
    ASSUME AnswerInv, NEW p \in Pages, Unload(p), SocketInv'
    PROVE  AnswerInv'
<1>1. Local(p)
  BY PageFacts DEF Local, Same, PerPage, Unload
<1>2. /\ webSocket'[p] = "gone" /\ made'[p] = <<>> /\ jsonListeners'[p] = <<>>
      /\ openListeners'[p] = <<>> /\ timers'[p] = {} /\ micro'[p] = <<>>
      /\ toServer'[p] = <<>> /\ inbox'[p] = <<>> /\ outbox'[p] = <<>>
      /\ promise'[p] = [i \in Ids |-> NoAnswer] /\ UNCHANGED <<running, done>>
      /\ link' = link \ {p} /\ Loaded(p)
  BY PageFacts DEF Unload, PerPage, srvVars
<1>3. \A q \in Pages : q # p => webSocket'[q] = webSocket[q] /\ made'[q] = made[q]
  BY <1>1 DEF Local, Same
<1>4. Grows
  BY <1>2, <1>3 DEF Grows, Made, Loaded
<1>5. Tasks \subseteq Tasks'
  BY <1>4, Growth
<1>6. MadeBy(p)'
  BY <1>2, ConstantsAssumption DEF MadeBy
<1>7. ListensFor(p)'
  BY <1>2 DEF ListensFor, Made, IsInjective
<1>8. PageOk(p)'
  BY <1>2, <1>6, <1>7 DEF PageOk, Heard, Settled
<1>9. \A q \in link' : q \in Pages /\ Loaded(q)'
  BY <1>2, <1>3, PageFacts DEF Loaded
<1> QED BY <1>1, <1>2, <1>4, <1>5, <1>8, <1>9, LocalStep, PageFacts

LEMMA AnswersTimeout ==
    ASSUME AnswerInv, NEW p \in Pages, Timeout(p), SocketInv'
    PROVE  AnswerInv'
<1>1. Local(p)
  BY PageFacts DEF Local, Same, PerPage, Timeout, netVars
<1>2. Grows
  BY PageFacts, GrowsStill DEF Timeout, srvVars
<1>3. Tasks \subseteq Tasks'
  BY <1>2, Growth
<1>4. MadeBy(p)'
  BY PageFacts DEF Timeout, PerPage, PageOk, MadeBy, Made, netVars
<1>5. PageOk(p)'
  BY <1>2, <1>4, PageFacts, Kept DEF Timeout, PageOk, Loaded, netVars
<1>6. (\A q \in link' : q \in Pages /\ Loaded(q)') /\ UNCHANGED <<running, done>>
  BY PageFacts DEF Timeout, Loaded, netVars, srvVars
<1> QED BY <1>1, <1>2, <1>3, <1>5, <1>6, LocalStep, PageFacts

LEMMA AnswersReconnect ==
    ASSUME AnswerInv, NEW p \in Pages, Reconnect(p), SocketInv'
    PROVE  AnswerInv'
<1>1. Local(p)
  BY PageFacts DEF Local, Same, PerPage, Reconnect, Connect
<1>2. Grows /\ webSocket'[p] = "connecting"
  BY PageFacts, GrowsStill DEF Reconnect, Connect, PerPage, Idle, Loaded, srvVars
<1>3. Tasks \subseteq Tasks'
  BY <1>2, Growth
<1>4. Heard(p)'
  BY PageFacts DEF Reconnect, Connect, Heard, PerPage
<1>5. PageOk(p)'
  BY <1>2, <1>4, PageFacts, Kept DEF Reconnect, PageOk, Loaded
<1>6. (\A q \in link' : q \in Pages /\ Loaded(q)') /\ UNCHANGED <<running, done>>
  BY PageFacts DEF Reconnect, Connect, Loaded, PerPage, srvVars
<1> QED BY <1>1, <1>2, <1>3, <1>5, <1>6, LocalStep, PageFacts

LEMMA AnswersSend ==
    ASSUME AnswerInv, NEW p \in Pages, Send(p), SocketInv'
    PROVE  AnswerInv'
<1>1. Local(p)
  BY PageFacts DEF Local, Same, PerPage, Send
<1>2. Grows
  BY PageFacts, GrowsStill DEF Send, srvVars
<1>3. Tasks \subseteq Tasks'
  BY <1>2, Growth
<1>4. MadeBy(p)'
  <2>1. micro[p] \in Seq(Made(p)) /\ micro[p] # <<>> /\ toServer[p] \in Seq(Made(p))
    BY PageFacts DEF Send, PageOk, MadeBy
  <2>2. Tail(micro[p]) \in Seq(Made(p)) /\ Append(toServer[p], Head(micro[p])) \in Seq(Made(p))
    BY <2>1
  <2>3. micro'[p] = Tail(micro[p])
        /\ toServer'[p] \in {toServer[p], Append(toServer[p], Head(micro[p]))}
    BY PageFacts DEF Send, PerPage
  <2>4. UNCHANGED <<made, jsonListeners, openListeners, timers>> /\ Made(p)' = Made(p)
    BY DEF Send, Made
  <2> QED BY <2>1, <2>2, <2>3, <2>4, PageFacts DEF PageOk, MadeBy
<1>5. PageOk(p)'
  BY <1>2, <1>4, PageFacts, Kept DEF Send, PageOk, Loaded
<1>6. (\A q \in link' : q \in Pages /\ Loaded(q)') /\ UNCHANGED <<running, done>>
  BY PageFacts DEF Send, Loaded, srvVars
<1> QED BY <1>1, <1>2, <1>3, <1>5, <1>6, LocalStep, PageFacts

LEMMA AnswersRequest ==
    ASSUME AnswerInv, NEW p \in Pages, Request(p), SocketInv'
    PROVE  AnswerInv'
<1> DEFINE n == Len(made[p])
           list == jsonListeners[p]
<1>1. Local(p)
  BY PageFacts DEF Local, Same, PerPage, Request, WaitForSocket, netVars
<1>2. PICK what \in Requests : made' = [made EXCEPT ![p] = Append(@, what)]
  BY DEF Request
<1>3. /\ made[p] \in Seq(Requests) /\ n \in Nat /\ n < MaxRequests /\ MaxRequests \in Nat
      /\ list \in Seq(Made(p)) /\ Loaded(p)
  BY PageFacts, ConstantsAssumption DEF Request, PageOk, MadeBy, Idle
<1>4. /\ made'[p] \in Seq(Requests) /\ Len(made'[p]) = n + 1
      /\ \A i \in 1..n : made'[p][i] = made[p][i]
  <2>1. made'[p] = Append(made[p], what)
    BY <1>2, PageFacts DEF PerPage
  <2> QED BY <1>3, <2>1, AppendProperties
<1>5. Made(p)' = Made(p) \cup {n} /\ n \notin Made(p) /\ n \in Ids /\ Made(p) \subseteq Ids
  BY <1>3, <1>4 DEF Made, Ids
<1>6. UNCHANGED <<webSocket, promise, link, inbox, toServer, outbox, running, done>>
  BY DEF Request, netVars, srvVars
<1>7. Grows
  <2>1. ASSUME NEW q \in Pages
        PROVE  /\ Made(q) \subseteq Made(q)'
               /\ \A i \in Made(q) : made'[q][i + 1] = made[q][i + 1]
    <3>1. CASE q = p
      BY <1>3, <1>4, <1>5, <3>1 DEF Made
    <3>2. CASE q # p
      BY <1>1, <3>2 DEF Local, Same, Made
    <3> QED BY <3>1, <3>2
  <2> QED BY <1>6, <2>1 DEF Grows
<1>8. /\ jsonListeners'[p] = Append(list, n)
      /\ openListeners'[p] \in {openListeners[p], Append(openListeners[p], n)}
      /\ micro'[p] \in {micro[p], Append(micro[p], n)}
      /\ timers'[p] \in {timers[p], timers[p] \cup {n}}
  BY PageFacts DEF Request, WaitForSocket, requestID, PerPage
<1>9. MadeBy(p)'
  <2> DEFINE M == Made(p) \cup {n}
  <2>1. /\ list \in Seq(M) /\ openListeners[p] \in Seq(M) /\ micro[p] \in Seq(M)
        /\ toServer[p] \in Seq(M) /\ timers[p] \subseteq M /\ n \in M
    <3>1. Made(p) \subseteq M
      OBVIOUS
    <3> QED BY <3>1, InLarger, PageFacts DEF PageOk, MadeBy
  <2> HIDE DEF M
  <2>2. /\ Append(list, n) \in Seq(M) /\ Append(openListeners[p], n) \in Seq(M)
        /\ Append(micro[p], n) \in Seq(M)
    BY <2>1, AppendProperties
  <2>3. Made(p)' = M /\ Len(made'[p]) <= MaxRequests
    BY <1>3, <1>4, <1>5 DEF M
  <2> HIDE DEF list
  <2> QED BY <1>4, <1>6, <1>8, <2>1, <2>2, <2>3 DEF MadeBy
<1>10. ListensFor(p)'
  <2> DEFINE new == Append(list, n)
  <2>1. /\ Len(list) \in Nat /\ DOMAIN list = 1..Len(list)
        /\ DOMAIN new = 1..(Len(list) + 1) /\ new[Len(list) + 1] = n
        /\ \A k \in 1..Len(list) : new[k] = list[k] /\ list[k] \in Made(p) /\ list[k] # n
    <3>1. Len(list) \in Nat /\ \A k \in 1..Len(list) : list[k] \in Made(p)
      BY <1>3
    <3>2. /\ new \in Seq(Made(p) \cup {n}) /\ Len(new) = Len(list) + 1
          /\ new[Len(list) + 1] = n /\ \A k \in 1..Len(list) : new[k] = list[k]
      <4>1. list \in Seq(Made(p) \cup {n})
        <5>1. Made(p) \subseteq Made(p) \cup {n}
          OBVIOUS
        <5> QED BY <1>3, <5>1, InLarger
      <4> QED BY <4>1, AppendProperties
    <3> HIDE DEF new, list
    <3>3. DOMAIN list = 1..Len(list) /\ DOMAIN new = 1..Len(new)
      BY <1>3, <3>2
    <3>4. \A k \in 1..Len(list) : list[k] # n
      BY <1>5, <3>1
    <3> QED BY ONLY <3>1, <3>2, <3>3, <3>4
  <2>2. IsInjective(list)
    BY PageFacts DEF PageOk, ListensFor
  <2>3. jsonListeners'[p] = new
    BY <1>8
  <2> HIDE DEF new, list
  <2>4. IsInjective(new)
    <3> SUFFICES ASSUME NEW a \in 1..(Len(list) + 1), NEW b \in 1..(Len(list) + 1), new[a] = new[b]
                 PROVE  a = b
      BY <2>1 DEF IsInjective
    <3>1. (a \in 1..Len(list) \/ a = Len(list) + 1) /\ (b \in 1..Len(list) \/ b = Len(list) + 1)
      BY <2>1
    <3> QED BY <2>1, <2>2, <3>1 DEF IsInjective
  <2>5. ASSUME NEW i \in Ids
        PROVE  (\E k \in DOMAIN new : new[k] = i)
                  <=> i = n \/ \E k \in DOMAIN list : list[k] = i
    <3>1. ASSUME NEW k \in DOMAIN new PROVE new[k] = n \/ \E j \in DOMAIN list : list[j] = new[k]
      <4>1. k \in 1..Len(list) \/ k = Len(list) + 1
        BY <2>1
      <4> QED BY <2>1, <4>1
    <3>2. Len(list) + 1 \in DOMAIN new /\ DOMAIN list \subseteq DOMAIN new
      BY <2>1
    <3> QED BY <2>1, <3>1, <3>2
  <2>6. ASSUME NEW i \in Ids
        PROVE  (\E k \in DOMAIN list : list[k] = i) <=> i \in Made(p) /\ promise[p][i] = NoAnswer
    BY PageFacts DEF PageOk, ListensFor, list
  <2>7. promise[p][n] = NoAnswer
    BY <1>5, PageFacts DEF PageOk, Settled
  <2> HIDE DEF n
  <2>8. \A i \in Ids : (\E k \in DOMAIN new : new[k] = i)
                           <=> i \in Made(p)' /\ promise'[p][i] = NoAnswer
    BY <1>5, <1>6, <2>5, <2>6, <2>7
  <2> QED BY <2>3, <2>4, <2>8 DEF ListensFor
<1>11. PageOk(p)'
  BY <1>6, <1>7, <1>9, <1>10, PageFacts, Kept DEF PageOk, Loaded
<1>12. \A q \in link' : q \in Pages /\ Loaded(q)'
  BY <1>6, PageFacts DEF Loaded
<1>13. Tasks \subseteq Tasks'
  BY <1>7, Growth
<1> QED BY <1>1, <1>6, <1>7, <1>11, <1>12, <1>13, LocalStep, PageFacts

\* The page hears of an event: what follows for the rest of the page.
LEMMA HearsOne ==
    ASSUME AnswerInv, NEW p \in Pages, NEW e, Next_(p, e)
    PROVE  /\ Loaded(p) /\ PerPage(inbox') /\ Same(inbox, inbox', p)
           /\ Len(inbox[p]) \in Nat /\ 1 \in 1..Len(inbox[p])
           /\ Head(inbox[p]) = inbox[p][1] /\ inbox[p][1].event = e
           /\ Grows => Heard(p)'
<1>1. /\ Idle(p) /\ inbox[p] # <<>> /\ Head(inbox[p]).event = e
      /\ inbox' = [inbox EXCEPT ![p] = Tail(@)] /\ IsSeq(inbox[p])
  BY PageFacts DEF Next_, SocketInv, Shape
<1>2. /\ Len(inbox[p]) \in Nat /\ Len(inbox[p]) # 0
      /\ Len(Tail(inbox[p])) = Len(inbox[p]) - 1 /\ Head(inbox[p]) = inbox[p][1]
      /\ \A n \in 1..Len(Tail(inbox[p])) : Tail(inbox[p])[n] = inbox[p][n + 1]
  BY <1>1, Took
<1>3. inbox'[p] = Tail(inbox[p])
  BY <1>1, PageFacts DEF PerPage
<1>4. ASSUME Grows PROVE Heard(p)'
  <2> SUFFICES ASSUME NEW n \in 1..Len(inbox'[p]), inbox'[p][n].event = "message"
               PROVE  inbox'[p][n].answer \in Answers'
    BY DEF Heard
  <2>1. n + 1 \in 1..Len(inbox[p]) /\ inbox'[p][n] = inbox[p][n + 1]
    BY <1>2, <1>3
  <2>2. inbox[p][n + 1].answer \in Answers
    BY <2>1, PageFacts DEF PageOk, Heard
  <2>3. Answers \subseteq Answers'
    BY <1>4, Growth
  <2> QED BY <2>1, <2>2, <2>3
<1>5. PerPage(inbox') /\ Same(inbox, inbox', p)
  <2>1. PerPage(inbox)
    BY PageFacts
  <2> QED BY <1>1, <2>1 DEF Same, PerPage
<1>6. Loaded(p) /\ 1 \in 1..Len(inbox[p]) /\ inbox[p][1].event = e
  BY <1>1, <1>2 DEF Idle
<1> QED BY <1>2, <1>4, <1>5, <1>6

LEMMA AnswersClosing ==
    ASSUME AnswerInv, NEW p \in Pages, OnClosing(p) \/ OnClose(p), SocketInv'
    PROVE  AnswerInv'
<1>1. PICK e : Next_(p, e)
  BY DEF OnClosing, OnClose
<1>2. /\ \E s \in {"closing", "null"} : webSocket' = [webSocket EXCEPT ![p] = s]
      /\ UNCHANGED <<made, promise, jsonListeners, openListeners, timers, micro,
                     link, toServer, outbox, running, done>>
  BY DEF OnClosing, OnClose, ArmReconnect, srvVars
<1>3. Local(p)
  BY <1>1, <1>2, HearsOne, PageFacts DEF Local, Same, PerPage
<1>4. Grows /\ Loaded(p)'
  BY <1>1, <1>2, HearsOne, PageFacts, GrowsStill DEF Loaded, PerPage
<1>5. Tasks \subseteq Tasks' /\ Heard(p)'
  BY <1>1, <1>4, Growth, HearsOne
<1>6. PageOk(p)'
  BY <1>2, <1>4, <1>5, PageFacts, Kept DEF PageOk
<1>7. \A q \in link' : q \in Pages /\ Loaded(q)'
  BY <1>2, <1>4, PageFacts DEF Loaded, PerPage
<1> QED BY <1>2, <1>3, <1>4, <1>5, <1>6, <1>7, LocalStep, PageFacts

LEMMA AnswersOpen ==
    ASSUME AnswerInv, NEW p \in Pages, OnOpen(p), SocketInv'
    PROVE  AnswerInv'
<1> DEFINE out == Emit(openListeners[p], Ids, timers[p])
<1>1. Next_(p, "open")
  BY Zenon DEF OnOpen
<1>2. /\ webSocket' = [webSocket EXCEPT ![p] = "open"]
      /\ openListeners' = [openListeners EXCEPT ![p] = out.rest]
      /\ timers' = [timers EXCEPT ![p] = @ \ ToSet(out.called)]
      /\ micro' = [micro EXCEPT ![p] = out.called]
      /\ UNCHANGED <<made, promise, jsonListeners, link, toServer, outbox, running, done>>
  BY Zenon DEF OnOpen, srvVars
<1>3. out.called \in Seq(Made(p)) /\ out.rest \in Seq(Made(p))
  <2>1. openListeners[p] \in Seq(Made(p)) /\ Made(p) \cap timers[p] \subseteq Made(p)
    BY PageFacts DEF PageOk, MadeBy
  <2>2. /\ out.called \in Seq(Made(p) \cap timers[p]) /\ out.rest \in Seq(Made(p))
    BY <2>1, EmitKeeps
  <2> HIDE DEF out
  <2> QED BY <2>1, <2>2, InLarger
<1> HIDE DEF out
<1>4. Local(p)
  BY <1>1, <1>2, HearsOne, PageFacts DEF Local, Same, PerPage
<1>5. Grows /\ Loaded(p)'
  BY <1>1, <1>2, HearsOne, PageFacts, GrowsStill DEF Loaded, PerPage
<1>6. Tasks \subseteq Tasks' /\ Heard(p)'
  BY <1>1, <1>5, Growth, HearsOne
<1>7. MadeBy(p)'
  <2>1. Made(p)' = Made(p)
    BY <1>2 DEF Made
  <2>2. /\ openListeners'[p] = out.rest /\ micro'[p] = out.called
        /\ timers'[p] \subseteq timers[p]
    BY <1>2, PageFacts DEF PerPage
  <2> QED BY <1>2, <1>3, <2>1, <2>2, PageFacts DEF PageOk, MadeBy
<1>8. PageOk(p)'
  BY <1>2, <1>5, <1>6, <1>7, PageFacts, Kept DEF PageOk
<1>9. \A q \in link' : q \in Pages /\ Loaded(q)'
  BY <1>2, <1>5, PageFacts DEF Loaded, PerPage
<1> QED BY <1>2, <1>4, <1>5, <1>6, <1>8, <1>9, LocalStep, PageFacts

\* What the answer to request v does to the listeners of a page: v alone is
\* called, if it is one of them, and v alone has left them.
TakesOff(list, v, M) ==
    LET leaving == ToSet(list) \cap {v}
        out == Emit(list, leaving, leaving)
    IN  /\ out.rest \in Seq(M) /\ IsInjective(out.rest)
        /\ ToSet(out.called) = leaving
        /\ \A i : (\E n \in DOMAIN out.rest : out.rest[n] = i)
                     <=> i # v /\ \E n \in DOMAIN list : list[n] = i

LEMMA AnswerTakesOff ==
    ASSUME NEW M, NEW list \in Seq(M), IsInjective(list), NEW v
    PROVE  TakesOff(list, v, M)
<1> USE DEF TakesOff
<1>1. CASE ~(\E k \in 1..Len(list) : list[k] = v)
  <2>1. ToSet(list) \cap {v} = {}
    BY <1>1 DEF ToSet
  <2>2. /\ Emit(list, {}, {}).called = <<>> /\ Emit(list, {}, {}).rest = list
        /\ ToSet(<<>>) = {} /\ DOMAIN list = 1..Len(list)
    BY EmitToNobody DEF ToSet
  <2> QED BY <1>1, <2>1, <2>2
<1>2. CASE \E k \in 1..Len(list) : list[k] = v
  <2>1. PICK k \in 1..Len(list) : list[k] = v
    BY <1>2
  <2> DEFINE r == RemoveAt(list, k)
             out == Emit(list, {v}, {v})
  <2>2. ToSet(list) \cap {v} = {v} /\ DOMAIN list = 1..Len(list) /\ Len(list) \in Nat
    BY <2>1 DEF ToSet
  <2>3. ToSet(out.called) = {v} /\ out.rest = r
    BY <2>1, EmitTakesOff
  <2>4. /\ r \in Seq(M) /\ Len(r) = Len(list) - 1
        /\ \A i \in 1..(Len(list) - 1) : r[i] = IF i < k THEN list[i] ELSE list[i + 1]
    BY <2>1, Without
  <2> HIDE DEF r, out
  <2>5. DOMAIN r = 1..(Len(list) - 1) /\ k \in Nat /\ 1 <= k
    BY <2>4
  <2>6. IsInjective(r)
    <3> DEFINE At(n) == IF n < k THEN n ELSE n + 1
    <3>1. ASSUME NEW n \in DOMAIN r PROVE r[n] = list[At(n)] /\ At(n) \in DOMAIN list
      BY <2>2, <2>4, <2>5
    <3>2. ASSUME NEW n \in DOMAIN r, NEW m \in DOMAIN r, r[n] = r[m] PROVE n = m
      <4>1. list[At(n)] = list[At(m)] /\ At(n) \in DOMAIN list /\ At(m) \in DOMAIN list
        BY <3>1, <3>2
      <4> HIDE DEF At
      <4>2. At(n) = At(m)
        BY <4>1 DEF IsInjective
      <4> QED BY <2>2, <2>5, <4>2 DEF At
    <3> QED BY <3>2 DEF IsInjective
  <2>7. ASSUME NEW i
        PROVE  (\E n \in DOMAIN r : r[n] = i) <=> i # v /\ \E n \in DOMAIN list : list[n] = i
    <3>1. ASSUME NEW n \in DOMAIN r, r[n] = i
          PROVE  i # v /\ \E m \in DOMAIN list : list[m] = i
      BY <2>1, <2>2, <2>4, <2>5, <3>1 DEF IsInjective
    <3>2. ASSUME i # v, NEW m \in DOMAIN list, list[m] = i
          PROVE  \E n \in DOMAIN r : r[n] = i
      <4>1. m # k /\ m \in Nat /\ 1 <= m /\ m <= Len(list)
        BY <2>1, <2>2, <3>2
      <4>2. CASE m < k
        <5>1. m \in DOMAIN r /\ r[m] = list[m]
          BY <2>1, <2>2, <2>4, <2>5, <4>1, <4>2
        <5> QED BY <3>2, <5>1
      <4>3. CASE ~(m < k)
        <5>1. m - 1 \in DOMAIN r /\ ~(m - 1 < k) /\ (m - 1) + 1 = m
          BY <2>1, <2>2, <2>5, <4>1, <4>3
        <5>2. r[m - 1] = list[m]
          BY <2>4, <2>5, <5>1
        <5> QED BY <3>2, <5>1, <5>2
      <4> QED BY <4>2, <4>3
    <3> QED BY <3>1, <3>2
  <2>8. ToSet(list) \cap {v} = {v} /\ out.rest \in Seq(M)
    BY <2>2, <2>3, <2>4
  <2>9. \A i : (\E n \in DOMAIN out.rest : out.rest[n] = i)
                  <=> i # v /\ \E n \in DOMAIN list : list[n] = i
    BY <2>3, <2>7
  <2> QED BY <2>3, <2>6, <2>8, <2>9 DEF out
<1> QED BY <1>1, <1>2

LEMMA AnswersMessage ==
    ASSUME AnswerInv, NEW p \in Pages, OnMessage(p), SocketInv'
    PROVE  AnswerInv'
<1> DEFINE a == Head(inbox[p]).answer
           list == jsonListeners[p]
           leaving == ToSet(list) \cap {a.id}
           out == Emit(list, leaving, leaving)
<1>1. Next_(p, "message")
  BY Zenon DEF OnMessage
<1>2. /\ jsonListeners' = [jsonListeners EXCEPT ![p] = out.rest]
      /\ promise' = [promise EXCEPT ![p] =
             [i \in Ids |-> IF i \in ToSet(out.called) THEN a ELSE promise[p][i]]]
      /\ UNCHANGED <<webSocket, made, openListeners, timers, micro, link, toServer,
                     outbox, running, done>>
  <2>1. Matching(p, a) = leaving
    BY Zenon DEF Matching
  <2> QED BY <2>1, PageFacts DEF OnMessage, srvVars, PerPage
<1>3. a \in Answers /\ a # NoAnswer /\ Loaded(p)
  <2>1. Head(inbox[p]) = inbox[p][1] /\ inbox[p][1].event = "message" /\ 1 \in 1..Len(inbox[p])
        /\ Loaded(p)
    BY <1>1, HearsOne
  <2>2. inbox[p][1].answer \in Answers
    BY <2>1, PageFacts DEF PageOk, Heard
  <2> QED BY <2>1, <2>2, ConstantsAssumption DEF Answers, Asked
<1>4. list \in Seq(Made(p)) /\ IsInjective(list)
  BY PageFacts DEF PageOk, MadeBy, ListensFor
<1> HIDE DEF a
<1>5. /\ out.rest \in Seq(Made(p)) /\ IsInjective(out.rest)
      /\ ToSet(out.called) = leaving
      /\ \A i : (\E n \in DOMAIN out.rest : out.rest[n] = i)
                   <=> i # a.id /\ \E n \in DOMAIN list : list[n] = i
  <2> DEFINE M == Made(p)
  <2>1. list \in Seq(M) /\ IsInjective(list)
    BY <1>4
  <2> HIDE DEF M, list, leaving, out
  <2>2. TakesOff(list, a.id, M)
    BY <2>1, AnswerTakesOff
  <2> QED BY <2>2, Zenon DEF M, leaving, out, TakesOff
<1> HIDE DEF out
<1>6. Local(p)
  BY <1>1, <1>2, HearsOne, PageFacts DEF Local, Same, PerPage
<1>7. Grows /\ Loaded(p)'
  BY <1>2, <1>3, PageFacts, GrowsStill DEF Loaded
<1>8. Tasks \subseteq Tasks' /\ Heard(p)' /\ Answers \subseteq Answers'
  BY <1>1, <1>7, Growth, HearsOne
<1>9. /\ jsonListeners'[p] = out.rest /\ Made(p)' = Made(p)
      /\ promise'[p] = [i \in Ids |-> IF i \in leaving THEN a ELSE promise[p][i]]
  BY <1>2, <1>5, PageFacts DEF PerPage, Made
<1>10. \A i : i \in leaving <=> i = a.id /\ \E n \in DOMAIN list : list[n] = i
  <2>1. \A i : i \in ToSet(list) <=> \E n \in DOMAIN list : list[n] = i
    BY DEF ToSet
  <2> QED BY <2>1
<1>11. MadeBy(p)'
  BY <1>2, <1>5, <1>9, PageFacts DEF PageOk, MadeBy
<1>12. ASSUME NEW i \in Ids
       PROVE  (\E n \in DOMAIN list : list[n] = i) <=> i \in Made(p) /\ promise[p][i] = NoAnswer
  BY PageFacts DEF PageOk, ListensFor
<1> HIDE DEF list, leaving
<1>13. ListensFor(p)'
  <2>1. ASSUME NEW i \in Ids
        PROVE  (\E n \in DOMAIN out.rest : out.rest[n] = i)
                 <=> i \in Made(p) /\ promise'[p][i] = NoAnswer
    <3>1. promise'[p][i] = IF i \in leaving THEN a ELSE promise[p][i]
      BY <1>9
    <3> QED BY <1>3, <1>5, <1>10, <1>12, <3>1
  <2> QED BY <1>5, <1>9, <2>1 DEF ListensFor
<1>14. Settled(p)'
  <2>1. promise[p] \in [Ids -> Answers \cup {NoAnswer}]
        /\ \A i \in Ids : promise[p][i] # NoAnswer => i \in Made(p) /\ promise[p][i].id = i
    BY PageFacts DEF PageOk, Settled
  <2>2. promise'[p] \in [Ids -> Answers' \cup {NoAnswer}]
    BY <1>3, <1>8, <1>9, <2>1
  <2>3. ASSUME NEW i \in Ids, promise'[p][i] # NoAnswer
        PROVE  i \in Made(p) /\ promise'[p][i].id = i
    <3>1. CASE i \in leaving
      BY <1>9, <1>10, <1>12, <3>1
    <3>2. CASE i \notin leaving
      BY <1>9, <2>1, <2>3, <3>2
    <3> QED BY <3>1, <3>2
  <2> QED BY <1>7, <1>9, <2>2, <2>3 DEF Settled
<1>15. PageOk(p)'
  BY <1>2, <1>7, <1>8, <1>11, <1>13, <1>14, PageFacts, Kept DEF PageOk
<1>16. \A q \in link' : q \in Pages /\ Loaded(q)'
  BY <1>2, PageFacts DEF Loaded
<1> QED BY <1>2, <1>6, <1>7, <1>8, <1>15, <1>16, LocalStep, PageFacts

\* A page's own state, the server's and what is to be answered stay; what is new
\* in the inbox is no message, or an answer.
LEMMA AnswersNetwork ==
    ASSUME AnswerInv, NEW p \in Pages, Network(p), SocketInv'
    PROVE  AnswerInv'
<1>1. UNCHANGED <<webSocket, made, promise, jsonListeners, openListeners, timers,
                  micro, running, done>>
  BY DEF Network, Accept, Refuse, Drop, Write, pageVars, srvVars
<1>2. Grows
  BY <1>1, GrowsStill
<1>3. Tasks \subseteq Tasks' /\ Answers \subseteq Answers'
  BY <1>2, Growth
<1>4. IsSeq(inbox[p]) /\ outbox[p] \in Seq(Answers) /\ toServer[p] \in Seq(Made(p))
  BY PageFacts DEF SocketInv, Shape, PageOk, MadeBy
<1>5. Local(p)
  <2>1. \A e : Same(inbox, [inbox EXCEPT ![p] = e], p)
    BY PageFacts, Changed
  <2>2. Same(inbox, inbox', p)
    <3>1. PerPage(inbox)
      BY PageFacts
    <3>2. \/ UNCHANGED inbox \/ \E e : inbox' = [inbox EXCEPT ![p] = e]
      BY Zenon DEF Network, Accept, Refuse, Drop, Write
    <3> QED BY <2>1, <3>1, <3>2 DEF Same
  <2>3. Same(toServer, toServer', p) /\ Same(outbox, outbox', p)
    <3>1. /\ toServer' \in {toServer, [toServer EXCEPT ![p] = <<>>]}
          /\ outbox' \in {outbox, [outbox EXCEPT ![p] = <<>>], [outbox EXCEPT ![p] = Tail(@)]}
      BY DEF Network, Accept, Refuse, Drop, Write
    <3> QED BY <3>1, PageFacts DEF Same, PerPage
  <2> QED BY <1>1, <2>2, <2>3, PageFacts DEF Local, Same
<1>6. toServer'[p] \in {toServer[p], <<>>} /\ outbox'[p] \in {outbox[p], <<>>, Tail(outbox[p])}
  BY PageFacts DEF Network, Accept, Refuse, Drop, Write, PerPage
<1>7. MadeBy(p)'
  <2>1. Made(p)' = Made(p) /\ toServer'[p] \in Seq(Made(p))
    <3>1. <<>> \in Seq(Made(p))
      OBVIOUS
    <3>2. toServer'[p] \in Seq(Made(p))
      BY ONLY <1>4, <1>6, <3>1
    <3> QED BY <1>1, <3>2 DEF Made
  <2> QED BY <1>1, <2>1, PageFacts DEF PageOk, MadeBy
<1>8. outbox'[p] \in Seq(Answers')
  <2>1. outbox[p] # <<>> => Tail(outbox[p]) \in Seq(Answers)
    BY <1>4
  <2>2. outbox'[p] = Tail(outbox[p]) => outbox[p] # <<>> \/ outbox'[p] = <<>>
    <3>1. outbox'[p] \in {outbox[p], <<>>} \/ outbox[p] # <<>>
      BY PageFacts DEF Network, Accept, Refuse, Drop, Write, PerPage
    <3> QED BY <3>1
  <2>3. outbox'[p] \in Seq(Answers)
    <3>1. <<>> \in Seq(Answers)
      OBVIOUS
    <3> QED BY ONLY <1>4, <1>6, <2>1, <2>2, <3>1
  <2> QED BY <1>3, <2>3, InLarger
<1>9. Heard(p)'
  <2>1. CASE Accept(p) \/ Refuse(p)
    <3>1. PICK e \in {"open", "close"} : inbox' = [inbox EXCEPT ![p] = <<Event(e)>>]
      BY <2>1 DEF Accept, Refuse
    <3>2. inbox'[p] = <<Event(e)>> /\ Event(e).event # "message"
      BY <3>1, PageFacts DEF PerPage, Event
    <3>3. Len(<<Event(e)>>) = 1 /\ <<Event(e)>>[1] = Event(e)
      BY Short
    <3> QED BY <3>2, <3>3 DEF Heard
  <2>2. CASE Drop(p)
    <3>1. PICK last \in {<<Event("close")>>, <<Event("closing"), Event("close")>>} :
              inbox' = [inbox EXCEPT ![p] = @ \o last]
      BY <2>2 DEF Drop
    <3>2. IsSeq(last) /\ \A n \in 1..Len(last) : last[n].event # "message"
      <4>1. Event("close").event # "message" /\ Event("closing").event # "message"
        BY DEF Event
      <4>2. CASE last = <<Event("close")>>
        <5>1. IsSeq(<<Event("close")>>) /\ Len(<<Event("close")>>) = 1
              /\ <<Event("close")>>[1] = Event("close")
          BY Short
        <5> QED BY <4>1, <4>2, <5>1
      <4>3. CASE last = <<Event("closing"), Event("close")>>
        <5> DEFINE two == <<Event("closing"), Event("close")>>
        <5>1. IsSeq(two) /\ Len(two) = 2
              /\ two[1] = Event("closing") /\ two[2] = Event("close")
          BY Short
        <5> QED BY <4>1, <4>3, <5>1
      <4> QED BY <4>2, <4>3
    <3>3. /\ Len(inbox[p]) \in Nat /\ Len(last) \in Nat
          /\ Len(inbox[p] \o last) = Len(inbox[p]) + Len(last)
          /\ \A n \in 1..Len(inbox[p]) : (inbox[p] \o last)[n] = inbox[p][n]
          /\ \A n \in 1..Len(last) : (inbox[p] \o last)[Len(inbox[p]) + n] = last[n]
      BY <1>4, <3>2, Ended
    <3>4. inbox'[p] = inbox[p] \o last
      BY <3>1, PageFacts DEF PerPage
    <3> SUFFICES ASSUME NEW n \in 1..Len(inbox'[p]), inbox'[p][n].event = "message"
                 PROVE  inbox'[p][n].answer \in Answers'
      BY DEF Heard
    <3>5. n \in 1..Len(inbox[p]) \/ n - Len(inbox[p]) \in 1..Len(last)
      BY <3>3, <3>4
    <3>6. CASE n \in 1..Len(inbox[p])
      BY <1>3, <3>3, <3>4, <3>6, PageFacts DEF PageOk, Heard
    <3>7. CASE n - Len(inbox[p]) \in 1..Len(last)
      <4>1. Len(inbox[p]) + (n - Len(inbox[p])) = n
        BY <3>3
      <4>2. inbox'[p][n] = last[n - Len(inbox[p])]
        BY <3>3, <3>4, <3>7, <4>1
      <4> QED BY <3>2, <3>7, <4>2
    <3> QED BY <3>5, <3>6, <3>7
  <2>3. CASE Write(p)
    <3> DEFINE e == [event |-> "message", answer |-> Head(outbox[p])]
    <3>1. inbox'[p] = Append(inbox[p], e) /\ outbox[p] # <<>>
      BY <2>3, PageFacts DEF Write, PerPage
    <3>2. e.answer \in Answers
      BY <1>4, <3>1
    <3> HIDE DEF e
    <3>3. /\ Len(inbox[p]) \in Nat /\ Len(Append(inbox[p], e)) = Len(inbox[p]) + 1
          /\ \A n \in 1..Len(inbox[p]) : Append(inbox[p], e)[n] = inbox[p][n]
          /\ Append(inbox[p], e)[Len(inbox[p]) + 1] = e
      BY <1>4, Added
    <3>4. ASSUME NEW n \in 1..Len(inbox'[p]), inbox'[p][n].event = "message"
          PROVE  inbox'[p][n].answer \in Answers
      <4>1. n \in 1..Len(inbox[p]) \/ n = Len(inbox[p]) + 1
        BY <3>1, <3>3
      <4> QED BY <3>1, <3>2, <3>3, <3>4, <4>1, PageFacts DEF PageOk, Heard
    <3> QED BY <1>3, <3>4 DEF Heard
  <2> QED BY <2>1, <2>2, <2>3 DEF Network
<1>10. PageOk(p)'
  BY <1>1, <1>2, <1>7, <1>8, <1>9, PageFacts, Kept DEF PageOk, Loaded
<1>11. \A q \in link' : q \in Pages /\ Loaded(q)'
  BY <1>1, PageFacts DEF Network, Accept, Refuse, Drop, Write, Loaded
<1> QED BY <1>1, <1>2, <1>3, <1>5, <1>10, <1>11, LocalStep, PageFacts

\* The server: what it writes is an answer, to everybody.
LEMMA AnswersServer ==
    ASSUME AnswerInv, Finish \/ PhotoFails \/ \E p \in Pages : Receive(p), SocketInv'
    PROVE  AnswerInv'
<1>1. UNCHANGED <<webSocket, made, promise, jsonListeners, openListeners, timers,
                  micro, link, inbox>>
  BY DEF Finish, PhotoFails, Receive, pageVars, netVars
<1>2. /\ done \subseteq done' /\ done' \subseteq RequestIds /\ running' \subseteq Tasks
      /\ PerPage(toServer') /\ \A q \in Pages : toServer'[q] \in Seq(Made(q))
      /\ \/ outbox' = outbox
         \/ \E a \in Answers' : outbox' = WriteJSON(a, outbox)
         \/ \E a \in Answers' : outbox' = WriteJSON(a, [q \in Pages |-> <<>>])
  <2>0. /\ running \subseteq Tasks /\ done \subseteq RequestIds /\ PerPage(toServer)
        /\ \A q \in Pages : toServer[q] \in Seq(Made(q))
    BY PageFacts DEF AnswerInv, PageOk, MadeBy
  <2>1. CASE Finish
    <3>1. PICK r \in running : /\ running' = running \ {r} /\ done' = done \cup {r}
                               /\ outbox' = WriteJSON(r, outbox) /\ toServer' = toServer
      BY <2>1 DEF Finish
    <3>2. r \in Asked /\ r \in RequestIds
      BY <2>0, <3>1 DEF Tasks, Asked
    <3>3. r \in Answers'
      BY <1>1, <3>1, <3>2 DEF Answers, Asked, Loaded, Made
    <3> QED BY <2>0, <3>1, <3>2, <3>3
  <2>2. CASE \E p \in Pages : Receive(p)
    <3>1. PICK p \in Pages : Receive(p)
      BY <2>2
    <3> DEFINE i == Head(toServer[p])
               what == made[p][i + 1]
    <3>2. /\ p \in link /\ toServer[p] # <<>> /\ toServer' = [toServer EXCEPT ![p] = Tail(@)]
          /\ Dispatch(p, i, what) /\ done' = done
      BY <3>1 DEF Receive
    <3>3. i \in Made(p) /\ Tail(toServer[p]) \in Seq(Made(p)) /\ Loaded(p)
      BY <2>0, <3>2, PageFacts
    <3>4. i \in Ids /\ made[p] \in Seq(Requests)
      BY <3>3, PageFacts, ConstantsAssumption DEF PageOk, MadeBy, Made, Ids
    <3> HIDE DEF i
    <3>5. Message(p, i) \in Asked /\ Message(p, i).page = p /\ Message(p, i).id = i
      BY <3>3, <3>4 DEF Message, Asked, RequestIds, Loaded
    <3>6. what \in AsyncRequests => Message(p, i) \in Tasks
      BY <3>5 DEF Tasks
    <3>7. what \notin AsyncRequests => Message(p, i) \in Answers'
      BY <1>1, <3>5 DEF Answers, Asked, Loaded, Made
    <3>8. /\ PerPage(toServer') /\ \A q \in Pages : toServer'[q] \in Seq(Made(q))
      BY <2>0, <3>2, <3>3 DEF PerPage
    <3> HIDE DEF what
    <3> QED BY <2>0, <3>2, <3>6, <3>7, <3>8 DEF Dispatch
  <2>3. CASE PhotoFails
    BY <2>0, <2>3 DEF PhotoFails, netVars
  <2> QED BY <2>1, <2>2, <2>3
<1>3. Grows
  BY <1>1, <1>2, GrowsStill
<1>4. Tasks \subseteq Tasks' /\ Answers \subseteq Answers'
  BY <1>3, Growth
<1>5. \A q \in Pages : outbox'[q] \in Seq(Answers')
  <2>1. \A q \in Pages : outbox[q] \in Seq(Answers') /\ <<>> \in Seq(Answers')
    <3> TAKE q \in Pages
    <3>1. outbox[q] \in Seq(Answers)
      BY PageFacts DEF PageOk
    <3> QED BY <1>4, <3>1, InLarger
  <2>2. \A a \in Answers', s \in Seq(Answers') : Append(s, a) \in Seq(Answers')
    BY AppendProperties
  <2> QED BY <1>2, <2>1, <2>2 DEF WriteJSON
<1>6. \A q \in Pages : PageOk(q)'
  <2> TAKE q \in Pages
  <2>1. MadeBy(q)'
    BY <1>1, <1>2, PageFacts DEF PageOk, MadeBy, Made
  <2> QED BY <1>1, <1>3, <1>5, <2>1, PageFacts, Kept DEF PageOk, Loaded
<1>7. \A q \in link' : q \in Pages /\ Loaded(q)'
  BY <1>1 DEF AnswerInv, Loaded
<1> QED BY <1>1, <1>2, <1>4, <1>6, <1>7 DEF AnswerInv, PerPage

LEMMA AnswerStep == AnswerInv /\ [Next]_vars => AnswerInv'
<1> SUFFICES ASSUME AnswerInv, [Next]_vars PROVE AnswerInv'
  OBVIOUS
<1>1. SocketInv'
  BY PageFacts, SocketStep DEF AnswerInv
<1>2. CASE \E p \in Pages : Load(p) \/ Unload(p) \/ Request(p) \/ Timeout(p)
                             \/ Reconnect(p) \/ Send(p)
  BY <1>1, <1>2, AnswersLoad, AnswersUnload, AnswersRequest, AnswersTimeout,
     AnswersReconnect, AnswersSend
<1>3. CASE \E p \in Pages : OnOpen(p) \/ OnMessage(p) \/ OnClosing(p) \/ OnClose(p)
  BY <1>1, <1>3, AnswersOpen, AnswersMessage, AnswersClosing
<1>4. CASE \E p \in Pages : Network(p)
  BY <1>1, <1>4, AnswersNetwork
<1>5. CASE Finish \/ PhotoFails \/ \E p \in Pages : Receive(p)
  BY <1>1, <1>5, AnswersServer
<1>6. CASE UNCHANGED vars
  <2>1. /\ UNCHANGED <<webSocket, made, promise, jsonListeners, openListeners, timers>>
        /\ UNCHANGED <<micro, link, inbox, toServer, outbox, running, done>>
    BY <1>6 DEF vars, pageVars, netVars, srvVars
  <2>2. Grows
    BY <2>1, GrowsStill
  <2>3. \A q \in Pages : PageOk(q)'
    BY <2>1, <2>2, PageFacts, Kept DEF PageOk, Loaded
  <2>4. Tasks \subseteq Tasks'
    BY <2>2, Growth
  <2> QED BY <1>1, <2>1, <2>3, <2>4 DEF AnswerInv, PerPage, Loaded
<1> QED BY <1>2, <1>3, <1>4, <1>5, <1>6, Zenon DEF Next, PageTask

-----------------------------------------------------------------------------
(* Theorems *)

LEMMA Invariant == Spec => []SocketInv
<1> QED BY SocketInit, SocketStep, PTL DEF Spec

LEMMA AnswerInvariant == Spec => []AnswerInv
<1> QED BY AnswerInit, AnswerStep, PTL DEF Spec

\* A page without a socket, and only such a page, has its reconnection timer
\* armed (ctrl.ts: clear, connectTimer).
THEOREM SocketOrTimerHolds == Spec => []SocketOrTimer
<1>1. SocketInv => SocketOrTimer
  BY DEF SocketInv
<1> QED BY <1>1, Invariant, PTL

\* No send that waited for its socket uses one that is null or still connects,
\* whatever was lost meanwhile (ctrl.ts: send).
THEOREM SendsOnOpenSocketHolds == Spec => []SendsOnOpenSocket
<1>1. SocketInv => SendsOnOpenSocket
  BY DEF SocketInv
<1> QED BY <1>1, Invariant, PTL

\* Type correctness.
THEOREM RequestTypes == Spec => []TypeOK
<1>1. AnswerInv => TypeOK
  <2> SUFFICES ASSUME AnswerInv PROVE TypeOK
    OBVIOUS
  <2>1. /\ webSocket \in [Pages -> SocketStates] /\ connectTimer \subseteq Pages
        /\ fault \subseteq Pages
    BY DEF AnswerInv, SocketInv, Shape, SendsOnOpenSocket
  <2>2. link \subseteq Pages /\ done \subseteq RequestIds /\ running \subseteq RequestIds
    BY DEF AnswerInv, Tasks, Asked
  <2>3. Answers \subseteq RequestIds
    BY DEF Answers, Asked
  <2>4. ASSUME NEW p \in Pages
        PROVE  /\ made[p] \in Seq(Requests) /\ promise[p] \in [Ids -> RequestIds \cup {NoAnswer}]
               /\ jsonListeners[p] \in Seq(Ids) /\ openListeners[p] \in Seq(Ids)
               /\ micro[p] \in Seq(Ids) /\ toServer[p] \in Seq(Ids)
               /\ timers[p] \subseteq Ids /\ outbox[p] \in Seq(RequestIds)
    <3>1. Made(p) \subseteq Ids
      BY PageFacts, ConstantsAssumption DEF PageOk, MadeBy, Made, Ids
    <3>2. MadeBy(p) /\ Settled(p) /\ outbox[p] \in Seq(Answers)
      BY PageFacts DEF PageOk
    <3>3. promise[p] \in [Ids -> RequestIds \cup {NoAnswer}]
      BY <2>3, <3>2 DEF Settled
    <3> QED BY <2>3, <3>1, <3>2, <3>3, InLarger DEF MadeBy
  <2>5. promise \in [Pages -> [Ids -> RequestIds \cup {NoAnswer}]]
    BY <2>4 DEF AnswerInv, PerPage
  <2> QED BY <2>1, <2>2, <2>4, <2>5 DEF TypeOK
<1> QED BY <1>1, AnswerInvariant, PTL

\* A request of a loaded page that is not answered has exactly one listener, an
\* answered one has none, whatever takes itself off the array in the middle of an
\* emission (eventemitter.ts: emit, off; ctrl.ts: request).
THEOREM PendingIsHeard == Spec => []PendingHasListener
<1>1. AnswerInv => PendingHasListener
  <2> SUFFICES ASSUME AnswerInv, NEW p \in Pages, NEW i \in Ids
               PROVE  Cardinality({n \in DOMAIN jsonListeners[p] : jsonListeners[p][n] = i})
                        = IF i < Len(made[p]) /\ promise[p][i] = NoAnswer THEN 1 ELSE 0
    BY DEF PendingHasListener
  <2> DEFINE at == {n \in DOMAIN jsonListeners[p] : jsonListeners[p][n] = i}
  <2>1. i \in Made(p) <=> i < Len(made[p])
    BY PageFacts, ConstantsAssumption DEF Made, Ids
  <2>2. /\ IsInjective(jsonListeners[p])
        /\ (\E n \in DOMAIN jsonListeners[p] : jsonListeners[p][n] = i)
              <=> i \in Made(p) /\ promise[p][i] = NoAnswer
    BY PageFacts DEF PageOk, ListensFor
  <2>3. CASE i \in Made(p) /\ promise[p][i] = NoAnswer
    <3>1. PICK n \in DOMAIN jsonListeners[p] : jsonListeners[p][n] = i
      BY <2>2, <2>3
    <3>2. at = {n}
      BY <2>2, <3>1 DEF IsInjective
    <3> QED BY <2>1, <2>3, <3>2, FS_Singleton
  <2>4. CASE ~(i \in Made(p) /\ promise[p][i] = NoAnswer)
    <3>1. at = {}
      BY <2>2, <2>4
    <3> QED BY <2>1, <2>4, <3>1, FS_EmptySet
  <2> QED BY <2>3, <2>4
<1> QED BY <1>1, AnswerInvariant, PTL

\* The answer a lone page's promise is settled with is that of its own request,
\* and that of a photo comes after it was taken (ctrl.ts: request;
\* WebSocketController.swift: processMessage).
THEOREM AloneIsAnswered == Spec => []AloneGetsOwn
<1>1. AnswerInv => AloneGetsOwn
  <2> SUFFICES ASSUME AnswerInv, NEW p \in Pages, NEW i \in Ids, promise[p][i] # NoAnswer,
                      \A q \in Pages \ {p} : webSocket[q] = "unloaded"
               PROVE  /\ promise[p][i] = Message(p, i)
                      /\ made[p][i + 1] \in AsyncRequests => Message(p, i) \in done
    BY DEF AloneGetsOwn
  <2> DEFINE a == promise[p][i]
  <2>1. a \in Answers /\ a.id = i /\ Loaded(p)
    BY PageFacts DEF PageOk, Settled
  <2>2. a \in RequestIds /\ a.page = p
    BY <2>1 DEF Answers, Asked, RequestIds
  <2>3. a = Message(p, i)
    BY <2>1, <2>2 DEF RequestIds, Message
  <2> QED BY <2>1, <2>2, <2>3 DEF Answers
<1> QED BY <1>1, AnswerInvariant, PTL
=============================================================================
