---------------------------- MODULE WsReceiveProofs ----------------------------
(***************************************************************************)
(* Proofs about the receiver of WebSocket frames: whatever the frames, the *)
(* lengths, the cuts of the network, the copies in bulk and the stops of   *)
(* the flow, the user is told what was sent, in order (DeliveredInOrder),  *)
(* and pings and closes are answered with what they held (RepliesEcho).    *)
(***************************************************************************)
EXTENDS WsReceive, SequenceTheorems, WellFoundedInduction, TLAPS

-----------------------------------------------------------------------------
(* Counting up *)

LEMMA Least ==
    ASSUME NEW bad \in SUBSET Nat, bad # {}
    PROVE  \E m \in bad : \A n \in bad : m <= n
<1> DEFINE R == OpToRel(<,Nat)
<1>1. IsWellFoundedOn(R, Nat)
  BY NatLessThanWellFounded
<1>2. \A m \in bad : \A n \in bad : <<n, m>> \in R <=> n < m
  BY DEF OpToRel
<1> HIDE DEF R
<1>3. PICK m \in bad : \A n \in bad : ~(<<n, m>> \in R)
  BY <1>1, WFMin
<1>4. \A n \in bad : ~(n < m)
  BY <1>2, <1>3
<1> QED BY <1>4

LEMMA Steps ==
    ASSUME NEW N \in Nat, NEW good, 0 \in good, \A n \in 1..N : n - 1 \in good => n \in good
    PROVE  \A n \in 0..N : n \in good
<1> DEFINE bad == {n \in 0..N : n \notin good}
<1> SUFFICES ASSUME bad # {} PROVE FALSE
  OBVIOUS
<1>1. bad \in SUBSET Nat
  OBVIOUS
<1>2. PICK m \in bad : \A n \in bad : m <= n
  <2> HIDE DEF bad
  <2> QED BY <1>1, Least
<1>3. m \in 1..N /\ m - 1 \in 0..N /\ m - 1 \notin bad
  BY <1>2
<1> QED BY <1>2, <1>3

-----------------------------------------------------------------------------
(* Sequences, by their elements *)

IsSeq(s) == Len(s) \in Nat /\ s = [i \in 1..Len(s) |-> s[i]]

LEMMA SameSeq ==
    ASSUME NEW s, NEW t, IsSeq(s), IsSeq(t), Len(s) = Len(t),
           \A i \in 1..Len(s) : s[i] = t[i]
    PROVE  s = t
BY DEF IsSeq

LEMMA Built ==
    ASSUME NEW n \in Nat, NEW s, s = [i \in 1..n |-> s[i]]
    PROVE  IsSeq(s) /\ Len(s) = n
<1> DEFINE S == {s[i] : i \in 1..n}
<1>1. s \in [1..n -> S]
  OBVIOUS
<1>2. s \in Seq(S)
  BY <1>1
<1>3. Len(s) = n
  BY <1>1, <1>2
<1> QED BY <1>3 DEF IsSeq

LEMMA InSeq ==
    ASSUME NEW s, IsSeq(s), NEW S, \A i \in 1..Len(s) : s[i] \in S
    PROVE  s \in Seq(S)
<1>1. s \in [1..Len(s) -> S] /\ Len(s) \in Nat
  BY DEF IsSeq
<1> QED BY <1>1

LEMMA OfSeq ==
    ASSUME NEW S, NEW s \in Seq(S)
    PROVE  IsSeq(s) /\ \A i \in 1..Len(s) : s[i] \in S
BY DEF IsSeq

LEMMA Joined ==
    ASSUME NEW s, NEW t, IsSeq(s), IsSeq(t)
    PROVE  /\ IsSeq(s \o t) /\ Len(s \o t) = Len(s) + Len(t)
           /\ \A i \in 1..(Len(s) + Len(t)) :
                (s \o t)[i] = IF i <= Len(s) THEN s[i] ELSE t[i - Len(s)]
<1> DEFINE S == {s[i] : i \in 1..Len(s)} \cup {t[i] : i \in 1..Len(t)}
<1>1. s \in Seq(S) /\ t \in Seq(S)
  BY InSeq
<1> HIDE DEF S
<1>2. /\ s \o t \in Seq(S) /\ Len(s \o t) = Len(s) + Len(t)
      /\ \A i \in 1..(Len(s) + Len(t)) :
           (s \o t)[i] = IF i <= Len(s) THEN s[i] ELSE t[i - Len(s)]
  BY <1>1, ConcatProperties
<1> QED BY <1>2, OfSeq

\* The part of s that begins at m and ends with n; none if m is behind n.
LEMMA Part ==
    ASSUME NEW s, IsSeq(s), NEW m \in Nat \ {0}, NEW n \in 0..Len(s)
    PROVE  /\ IsSeq(SubSeq(s, m, n))
           /\ Len(SubSeq(s, m, n)) = IF m <= n THEN n - m + 1 ELSE 0
           /\ \A i \in 1..(n - m + 1) : SubSeq(s, m, n)[i] = s[m + i - 1]
<1> DEFINE S == {s[i] : i \in 1..Len(s)}
<1>1. \A i \in m..n : s[i] \in S
  BY DEF IsSeq
<1> HIDE DEF S
<1>2. m \in Int /\ n \in Int
  BY DEF IsSeq
<1>3. /\ SubSeq(s, m, n) \in Seq(S)
      /\ Len(SubSeq(s, m, n)) = IF m <= n THEN n - m + 1 ELSE 0
      /\ \A i \in 1..(n - m + 1) : SubSeq(s, m, n)[i] = s[m + i - 1]
  BY <1>1, <1>2, SubSeqProperties
<1> QED BY <1>3, OfSeq

LEMMA Nothing == IsSeq(<<>>) /\ Len(<<>>) = 0
<1>1. <<>> \in Seq({})
  OBVIOUS
<1> QED BY <1>1, OfSeq

LEMMA OnlyNothing ==
    ASSUME NEW s, IsSeq(s), Len(s) = 0
    PROVE  s = <<>>
BY Nothing, SameSeq

LEMMA One ==
    ASSUME NEW e
    PROVE  IsSeq(<<e>>) /\ Len(<<e>>) = 1 /\ <<e>>[1] = e
<1>1. <<e>> \in Seq({e})
  OBVIOUS
<1> QED BY <1>1, OfSeq

LEMMA Added ==
    ASSUME NEW s, IsSeq(s), NEW e
    PROVE  /\ IsSeq(Append(s, e)) /\ Len(Append(s, e)) = Len(s) + 1
           /\ \A i \in 1..Len(s) : Append(s, e)[i] = s[i]
           /\ Append(s, e)[Len(s) + 1] = e
<1> DEFINE S == {s[i] : i \in 1..Len(s)} \cup {e}
<1>1. s \in Seq(S) /\ e \in S
  BY InSeq
<1> HIDE DEF S
<1>2. /\ Append(s, e) \in Seq(S) /\ Len(Append(s, e)) = Len(s) + 1
      /\ \A i \in 1..Len(s) : Append(s, e)[i] = s[i]
      /\ Append(s, e)[Len(s) + 1] = e
  BY <1>1, AppendProperties
<1> QED BY <1>2, OfSeq

LEMMA AddedToNothing ==
    ASSUME NEW e
    PROVE  Append(<<>>, e) = <<e>>
<1>1. /\ IsSeq(Append(<<>>, e)) /\ Len(Append(<<>>, e)) = 0 + 1
      /\ Append(<<>>, e)[0 + 1] = e
  BY Nothing, Added
<1>2. 0 + 1 = 1 /\ \A i \in 1..1 : i = 1
  OBVIOUS
<1>3. \A i \in 1..1 : Append(<<>>, e)[i] = <<e>>[i]
  BY <1>1, <1>2, One
<1> QED BY <1>1, <1>2, <1>3, One, SameSeq

LEMMA Whole1 ==
    ASSUME NEW s, IsSeq(s)
    PROVE  SubSeq(s, 1, Len(s)) = s
<1>1. Len(s) \in 0..Len(s) /\ 1 \in Nat \ {0}
  BY DEF IsSeq
<1>2. /\ IsSeq(SubSeq(s, 1, Len(s)))
      /\ Len(SubSeq(s, 1, Len(s))) = IF 1 <= Len(s) THEN Len(s) - 1 + 1 ELSE 0
      /\ \A i \in 1..(Len(s) - 1 + 1) : SubSeq(s, 1, Len(s))[i] = s[1 + i - 1]
  BY <1>1, Part
<1> QED BY <1>1, <1>2, SameSeq DEF IsSeq

-----------------------------------------------------------------------------
(* Sequences of sequences, end to end *)

\* flatten, as far as n
IsFlat(fl, ss, n) ==
    fl = [i \in 1..n |-> IF i = 1 THEN ss[i] ELSE fl[i - 1] \o ss[i]]

LEMMA FlatExists ==
    ASSUME NEW ss, NEW N \in Nat
    PROVE  \E fl : IsFlat(fl, ss, N)
<1> DEFINE good == {m \in Nat : \E fl : IsFlat(fl, ss, m)}
<1>1. 0 \in good
  <2> DEFINE fl == [i \in 1..0 |-> 0]
  <2>1. fl = [i \in 1..0 |-> IF i = 1 THEN ss[i] ELSE fl[i - 1] \o ss[i]]
    <3>1. 1..0 = {}
      OBVIOUS
    <3> QED BY <3>1
  <2> QED BY <2>1 DEF IsFlat
<1>2. ASSUME NEW m \in 1..N, m - 1 \in good PROVE m \in good
  <2>1. PICK g : IsFlat(g, ss, m - 1)
    BY <1>2
  <2> DEFINE h == [i \in 1..m |-> IF i < m THEN g[i] ELSE IF m = 1 THEN ss[1] ELSE g[m - 1] \o ss[m]]
  <2>2. ASSUME NEW i \in 1..m PROVE h[i] = IF i = 1 THEN ss[i] ELSE h[i - 1] \o ss[i]
    <3>1. CASE i < m
      <4>1. i \in 1..(m-1) /\ (i # 1 => i - 1 \in 1..m /\ i - 1 < m /\ i - 1 \in 1..(m - 1))
        BY <3>1
      <4>2. g[i] = IF i = 1 THEN ss[i] ELSE g[i - 1] \o ss[i]
        BY <2>1, <4>1 DEF IsFlat
      <4> QED BY <3>1, <4>1, <4>2
    <3>2. CASE i = m
      <4>1. i # 1 => i - 1 \in 1..m /\ i - 1 < m
        BY <3>2
      <4> QED BY <3>2, <4>1
    <3> QED BY <3>1, <3>2
  <2>3. h = [i \in 1..m |-> IF i = 1 THEN ss[i] ELSE h[i - 1] \o ss[i]]
    <3>1. h = [i \in 1..m |-> h[i]]
      OBVIOUS
    <3> HIDE DEF h
    <3> QED BY <2>2, <3>1
  <2> HIDE DEF h
  <2>4. \E fl : IsFlat(fl, ss, m)
    <3>1. IsFlat(h, ss, m)
      BY <2>3 DEF IsFlat
    <3> QED BY <3>1
  <2> QED BY <2>4
<1> HIDE DEF good
<1>3. \A n \in 0..N : n \in good
  BY <1>1, <1>2, Steps
<1> QED BY <1>3 DEF good

LEMMA FlattenIs ==
    ASSUME NEW ss, NEW N \in Nat, Len(ss) = N, N # 0
    PROVE  \E fl : IsFlat(fl, ss, N) /\ FlattenSeq(ss) = fl[N]
<1> DEFINE fl == CHOOSE fl : fl = [i \in 1..Len(ss) |-> IF i = 1 THEN ss[i] ELSE fl[i - 1] \o ss[i]]
<1>1. IsFlat(fl, ss, N)
  BY FlatExists DEF IsFlat
<1>2. FlattenSeq(ss) = fl[N]
  BY DEF FlattenSeq
<1> HIDE DEF fl
<1> QED BY <1>1, <1>2

\* Sequences of sequences
All(ss) == IsSeq(ss) /\ \A i \in 1..Len(ss) : IsSeq(ss[i])

\* The first n of them end to end, and how long that is
Upto(ss, n)   == FlattenSeq(SubSeq(ss, 1, n))
Starts(ss, n) == Len(Upto(ss, n))

LEMMA FlatStep ==
    ASSUME NEW fl, NEW ss, NEW n \in Nat, IsFlat(fl, ss, n), NEW k \in 1..n
    PROVE  fl[k] = IF k = 1 THEN ss[k] ELSE fl[k - 1] \o ss[k]
BY DEF IsFlat

LEMMA UptoIs ==
    ASSUME NEW ss, All(ss), NEW fl, IsFlat(fl, ss, Len(ss)), NEW n \in 1..Len(ss)
    PROVE  Upto(ss, n) = fl[n]
<1> DEFINE tt == SubSeq(ss, 1, n)
<1>1. Len(ss) \in Nat /\ n \in Nat /\ n # 0
  BY DEF All, IsSeq
<1>2. Len(tt) = n /\ \A i \in 1..n : tt[i] = ss[i]
  BY <1>1, Part DEF All
<1> HIDE DEF tt
<1>3. PICK gl : IsFlat(gl, tt, n) /\ FlattenSeq(tt) = gl[n]
  BY <1>1, <1>2, FlattenIs
<1> DEFINE good == {k \in 0..n : k = 0 \/ gl[k] = fl[k]}
<1>4. 0 \in good
  BY <1>1
<1>5. ASSUME NEW k \in 1..n, k - 1 \in good PROVE k \in good
  <2>1. gl[k] = IF k = 1 THEN tt[k] ELSE gl[k - 1] \o tt[k]
    BY <1>1, <1>3, FlatStep
  <2>2. fl[k] = IF k = 1 THEN ss[k] ELSE fl[k - 1] \o ss[k]
    BY <1>1, FlatStep
  <2>3. k # 1 => gl[k - 1] = fl[k - 1]
    BY <1>5
  <2> QED BY <1>2, <2>1, <2>2, <2>3
<1> HIDE DEF good
<1>6. n \in good
  BY <1>1, <1>4, <1>5, Steps
<1> QED BY <1>1, <1>3, <1>6 DEF good, Upto, tt

LEMMA Flattened ==
    ASSUME NEW ss, All(ss)
    PROVE  /\ Upto(ss, 0) = <<>>
           /\ \A n \in 1..Len(ss) : Upto(ss, n) = Upto(ss, n - 1) \o ss[n]
           /\ \A n \in 0..Len(ss) : IsSeq(Upto(ss, n))
           /\ Upto(ss, Len(ss)) = FlattenSeq(ss)
<1>0. Len(ss) \in Nat
  BY DEF All, IsSeq
<1>1. Upto(ss, 0) = <<>>
  <2>1. IsSeq(SubSeq(ss, 1, 0)) /\ Len(SubSeq(ss, 1, 0)) = 0
    BY <1>0, Part DEF All
  <2>2. SubSeq(ss, 1, 0) = <<>>
    BY <2>1, OnlyNothing
  <2> QED BY <2>1, <2>2 DEF Upto, FlattenSeq
<1>2. PICK fl : IsFlat(fl, ss, Len(ss))
  BY <1>0, FlatExists
<1> DEFINE good == {n \in 0..Len(ss) : IsSeq(Upto(ss, n)) /\
                        (n # 0 => Upto(ss, n) = Upto(ss, n - 1) \o ss[n])}
<1>3. 0 \in good
  BY <1>0, <1>1, Nothing
<1>4. ASSUME NEW n \in 1..Len(ss), n - 1 \in good PROVE n \in good
  <2>0. IsSeq(ss[n]) /\ IsSeq(Upto(ss, n - 1))
    BY <1>4 DEF All
  <2>1. Upto(ss, n) = Upto(ss, n - 1) \o ss[n]
    <3>1. CASE n = 1
      <4>1. Upto(ss, 1) = ss[1]
        BY <1>0, <1>2, <3>1, UptoIs, FlatStep
      <4>2. <<>> \o ss[1] = ss[1]
        BY <2>0, <3>1, Nothing, Joined, SameSeq DEF IsSeq
      <4>3. n - 1 = 0
        BY <3>1
      <4> QED BY ONLY <1>1, <3>1, <4>1, <4>2, <4>3
    <3>2. CASE n # 1
      <4>1. n - 1 \in 1..Len(ss)
        BY <3>2
      <4>2. Upto(ss, n) = fl[n] /\ Upto(ss, n - 1) = fl[n - 1]
        BY <1>0, <1>2, <4>1, UptoIs
      <4>3. fl[n] = fl[n - 1] \o ss[n]
        <5>1. fl[n] = IF n = 1 THEN ss[n] ELSE fl[n - 1] \o ss[n]
          BY <1>0, <1>2, FlatStep
        <5> QED BY ONLY <3>2, <5>1
      <4> QED BY ONLY <4>2, <4>3
    <3> QED BY <3>1, <3>2
  <2>2. IsSeq(Upto(ss, n))
    BY <2>0, <2>1, Joined
  <2>3. n \in 0..Len(ss)
    OBVIOUS
  <2> QED BY <2>1, <2>2, <2>3
<1> HIDE DEF good
<1>5. \A n \in 0..Len(ss) : n \in good
  BY <1>0, <1>3, <1>4, Steps
<1>6. Upto(ss, Len(ss)) = FlattenSeq(ss)
  BY Whole1 DEF Upto, All
<1>7. \A n \in 0..Len(ss) : IsSeq(Upto(ss, n))
  BY <1>5 DEF good
<1>8. ASSUME NEW n \in 1..Len(ss) PROVE Upto(ss, n) = Upto(ss, n - 1) \o ss[n]
  <2>1. n \in 0..Len(ss) /\ n # 0
    BY <1>0
  <2> QED BY <1>5, <2>1 DEF good
<1> QED BY <1>1, <1>6, <1>7, <1>8

\* Where the parts are in the whole
LEMMA Laid ==
    ASSUME NEW ss, All(ss)
    PROVE  /\ IsSeq(FlattenSeq(ss))
           /\ \A n \in 0..Len(ss) : Starts(ss, n) \in Nat /\ Starts(ss, n) <= Len(FlattenSeq(ss))
           /\ Starts(ss, 0) = 0 /\ Starts(ss, Len(ss)) = Len(FlattenSeq(ss))
           /\ \A n \in 1..Len(ss) : Starts(ss, n) = Starts(ss, n - 1) + Len(ss[n])
           /\ \A n \in 1..Len(ss) : \A i \in 1..Len(ss[n]) :
                FlattenSeq(ss)[Starts(ss, n - 1) + i] = ss[n][i]
<1>0. Len(ss) \in Nat /\ \A n \in 1..Len(ss) : IsSeq(ss[n]) /\ Len(ss[n]) \in Nat
  BY DEF All, IsSeq
<1>1. /\ Upto(ss, 0) = <<>>
      /\ \A n \in 1..Len(ss) : Upto(ss, n) = Upto(ss, n - 1) \o ss[n]
      /\ \A n \in 0..Len(ss) : IsSeq(Upto(ss, n))
      /\ Upto(ss, Len(ss)) = FlattenSeq(ss)
  BY Flattened
<1>2. \A n \in 0..Len(ss) : Starts(ss, n) \in Nat
  BY <1>1 DEF Starts, IsSeq
<1>3. Starts(ss, 0) = 0 /\ Starts(ss, Len(ss)) = Len(FlattenSeq(ss)) /\ IsSeq(FlattenSeq(ss))
  BY <1>0, <1>1, Nothing DEF Starts
<1>4. ASSUME NEW n \in 1..Len(ss)
      PROVE  /\ Starts(ss, n) = Starts(ss, n - 1) + Len(ss[n])
             /\ \A j \in 1..Starts(ss, n - 1) : Upto(ss, n)[j] = Upto(ss, n - 1)[j]
             /\ \A i \in 1..Len(ss[n]) : Upto(ss, n)[Starts(ss, n - 1) + i] = ss[n][i]
  <2> DEFINE a == Upto(ss, n - 1)
             b == ss[n]
  <2>0. n - 1 \in 0..Len(ss)
    OBVIOUS
  <2>1. IsSeq(a) /\ IsSeq(b) /\ Upto(ss, n) = a \o b
    BY <1>0, <1>1, <2>0
  <2>2. Len(a) = Starts(ss, n - 1) /\ Len(a) \in Nat /\ Len(b) \in Nat
    BY <1>0, <1>2, <2>0 DEF Starts
  <2> HIDE DEF a, b
  <2>3. /\ Len(a \o b) = Len(a) + Len(b)
        /\ \A i \in 1..(Len(a) + Len(b)) : (a \o b)[i] = IF i <= Len(a) THEN a[i] ELSE b[i - Len(a)]
    BY <2>1, Joined
  <2>4. \A j \in 1..Len(a) : (a \o b)[j] = a[j]
    BY <2>2, <2>3
  <2>5. ASSUME NEW i \in 1..Len(b) PROVE (a \o b)[Len(a) + i] = b[i]
    <3>1. Len(a) + i \in 1..(Len(a) + Len(b)) /\ ~(Len(a) + i <= Len(a)) /\ Len(a) + i - Len(a) = i
      BY <2>2
    <3> QED BY <2>3, <3>1
  <2>6. Starts(ss, n) = Len(a \o b)
    BY <2>1 DEF Starts
  <2> QED BY <2>1, <2>2, <2>3, <2>4, <2>5, <2>6 DEF a, b
<1>5. ASSUME NEW n \in 0..Len(ss)
      PROVE  /\ Starts(ss, n) <= Len(FlattenSeq(ss))
             /\ \A j \in 1..Starts(ss, n) : FlattenSeq(ss)[j] = Upto(ss, n)[j]
  <2> DEFINE good == {k \in 0..(Len(ss) - n) : Starts(ss, n) <= Starts(ss, n + k) /\
                         \A j \in 1..Starts(ss, n) : Upto(ss, n + k)[j] = Upto(ss, n)[j]}
  <2>0. n \in Nat /\ Len(ss) - n \in Nat
    BY <1>0
  <2>1. 0 \in good
    BY <1>2, <2>0
  <2>2. ASSUME NEW k \in 1..(Len(ss) - n), k - 1 \in good PROVE k \in good
    <3>1. n + k \in 1..Len(ss) /\ n + (k - 1) = (n + k) - 1 /\ (n + k) - 1 \in 0..Len(ss)
      BY <1>0, <2>0
    <3>2. /\ Starts(ss, n) <= Starts(ss, (n + k) - 1)
          /\ \A j \in 1..Starts(ss, n) : Upto(ss, (n + k) - 1)[j] = Upto(ss, n)[j]
      BY <2>2, <3>1
    <3>3. /\ Starts(ss, n + k) = Starts(ss, (n + k) - 1) + Len(ss[n + k])
          /\ \A j \in 1..Starts(ss, (n + k) - 1) : Upto(ss, n + k)[j] = Upto(ss, (n + k) - 1)[j]
      BY <1>4, <3>1
    <3>4. Starts(ss, n) \in Nat /\ Starts(ss, (n + k) - 1) \in Nat /\ Len(ss[n + k]) \in Nat
      BY <1>0, <1>2, <3>1
    <3>5. Starts(ss, n) <= Starts(ss, n + k)
      BY <3>2, <3>3, <3>4
    <3>6. ASSUME NEW j \in 1..Starts(ss, n) PROVE Upto(ss, n + k)[j] = Upto(ss, n)[j]
      <4>1. j \in 1..Starts(ss, (n + k) - 1)
        BY <3>2, <3>4
      <4> QED BY <3>2, <3>3, <4>1
    <3> QED BY <3>5, <3>6
  <2> HIDE DEF good
  <2>3. Len(ss) - n \in good
    <3>1. \A k \in 0..(Len(ss) - n) : k \in good
      BY <2>0, <2>1, <2>2, Steps
    <3> QED BY <2>0, <3>1
  <2>4. n + (Len(ss) - n) = Len(ss)
    BY <1>0, <2>0
  <2> QED BY <1>1, <1>3, <2>3, <2>4 DEF good
<1>6. ASSUME NEW n \in 1..Len(ss), NEW i \in 1..Len(ss[n])
      PROVE  FlattenSeq(ss)[Starts(ss, n - 1) + i] = ss[n][i]
  <2>1. n \in 0..Len(ss) /\ n - 1 \in 0..Len(ss) /\ Starts(ss, n - 1) \in Nat
    BY <1>2
  <2>2. Starts(ss, n - 1) + i \in 1..Starts(ss, n)
    BY <1>0, <1>4, <2>1
  <2> QED BY <1>4, <1>5, <2>1, <2>2
<1> QED BY <1>2, <1>3, <1>4, <1>5, <1>6

LEMMA FlattenAppend ==
    ASSUME NEW ss, All(ss), NEW x, IsSeq(x)
    PROVE  All(Append(ss, x)) /\ FlattenSeq(Append(ss, x)) = FlattenSeq(ss) \o x
<1> DEFINE tt == Append(ss, x)
           n  == Len(ss)
<1>0. n \in Nat
  BY DEF All, IsSeq
<1>1. IsSeq(tt) /\ Len(tt) = n + 1 /\ (\A i \in 1..n : tt[i] = ss[i]) /\ tt[n + 1] = x
  BY Added DEF All
<1>2. IsSeq(SubSeq(tt, 1, n)) /\ Len(SubSeq(tt, 1, n)) = n
      /\ \A i \in 1..n : SubSeq(tt, 1, n)[i] = tt[i]
  <2>1. n \in 0..Len(tt) /\ 1 \in Nat \ {0}
    BY <1>0, <1>1
  <2> HIDE DEF tt, n
  <2>2. /\ IsSeq(SubSeq(tt, 1, n))
        /\ Len(SubSeq(tt, 1, n)) = IF 1 <= n THEN n - 1 + 1 ELSE 0
        /\ \A i \in 1..(n - 1 + 1) : SubSeq(tt, 1, n)[i] = tt[1 + i - 1]
    BY <1>1, <2>1, Part
  <2> QED BY <1>0, <2>2
<1> HIDE DEF tt
<1>3. SubSeq(tt, 1, n) = ss
  <2>1. IsSeq(ss) /\ \A i \in 1..n : SubSeq(tt, 1, n)[i] = ss[i]
    BY <1>1, <1>2 DEF All
  <2> QED BY <1>2, <2>1, SameSeq
<1>4. All(tt)
  <2>1. ASSUME NEW i \in 1..(n + 1) PROVE IsSeq(tt[i])
    BY <1>0, <1>1 DEF All
  <2> QED BY <1>1, <2>1 DEF All
<1>5. Upto(tt, n + 1) = Upto(tt, n) \o tt[n + 1] /\ Upto(tt, n + 1) = FlattenSeq(tt)
  <2>1. n + 1 \in 1..Len(tt) /\ (n + 1) - 1 = n
    BY <1>0, <1>1
  <2> QED BY <1>1, <1>4, <2>1, Flattened
<1> QED BY <1>1, <1>3, <1>4, <1>5 DEF Upto, tt

-----------------------------------------------------------------------------
(* A length and its digits *)

LEMMA Divided ==
    ASSUME NEW x \in Nat
    PROVE  /\ x \div Radix \in Nat /\ x % Radix \in Nat
           /\ (x \div Radix) * Radix + (x % Radix) = x
<1>1. Radix \in Nat /\ Radix > 0
  BY WsReceiveAssumption
<1>2. x \div Radix \in Nat /\ x % Radix \in Nat
  BY <1>1
<1>3. (x \div Radix) * Radix + (x % Radix) = x
  BY <1>1
<1> QED BY <1>2, <1>3

LEMMA QuotientIs ==
    ASSUME NEW len \in Nat
    PROVE  /\ Quotient(len)[0] = len
           /\ \A k \in 0..8 : Quotient(len)[k] \in Nat
           /\ \A k \in 1..8 : Quotient(len)[k] = Quotient(len)[k - 1] \div Radix
<1> DEFINE R(q) == [k \in 0..8 |-> IF k = 0 THEN len ELSE q[k - 1] \div Radix]
           a == len \div Radix
           b == a \div Radix
           c == b \div Radix
           d == c \div Radix
           e == d \div Radix
           f == e \div Radix
           g == f \div Radix
           i == g \div Radix
           h == [k \in 0..8 |-> IF k = 0 THEN len ELSE IF k = 1 THEN a ELSE IF k = 2 THEN b
                                ELSE IF k = 3 THEN c ELSE IF k = 4 THEN d ELSE IF k = 5 THEN e
                                ELSE IF k = 6 THEN f ELSE IF k = 7 THEN g ELSE i]
<1>1. a \in Nat /\ b \in Nat /\ c \in Nat /\ d \in Nat /\ e \in Nat /\ f \in Nat /\ g \in Nat /\ i \in Nat
  <2>1. a \in Nat
    BY Divided
  <2>2. b \in Nat
    BY <2>1, Divided
  <2>3. c \in Nat
    BY <2>2, Divided
  <2>4. d \in Nat
    BY <2>3, Divided
  <2>5. e \in Nat
    BY <2>4, Divided
  <2>6. f \in Nat
    BY <2>5, Divided
  <2>7. g \in Nat
    BY <2>6, Divided
  <2> QED BY <2>1, <2>2, <2>3, <2>4, <2>5, <2>6, <2>7, Divided
<1>2. ASSUME NEW k \in 0..8 PROVE h[k] = IF k = 0 THEN len ELSE h[k - 1] \div Radix
  <2>1. h[0] = len /\ h[1] = a /\ h[2] = b /\ h[3] = c /\ h[4] = d /\ h[5] = e /\ h[6] = f
        /\ h[7] = g /\ h[8] = i
    OBVIOUS
  <2>2. k \in {0, 1, 2, 3, 4, 5, 6, 7, 8}
    OBVIOUS
  <2> HIDE DEF h
  <2> QED BY <2>1, <2>2
<1>3. h = R(h)
  <2> DEFINE v(k) == IF k = 0 THEN len ELSE h[k - 1] \div Radix
  <2>1. h = [k \in 0..8 |-> h[k]]
    OBVIOUS
  <2> HIDE DEF h
  <2>2. \A k \in 0..8 : h[k] = IF k = 0 THEN len ELSE h[k - 1] \div Radix
    BY <1>2
  <2> QED BY <2>1, <2>2
<1>4. \E q : q = R(q)
  <2> HIDE DEF h
  <2> QED BY <1>3
<1>5. Quotient(len) = CHOOSE q : q = R(q)
  BY DEF Quotient
<1>6. Quotient(len) = R(Quotient(len))
  <2> HIDE DEF R
  <2> QED BY <1>4, <1>5
<1> DEFINE q == Quotient(len)
<1>7. \A k \in 0..8 : q[k] = IF k = 0 THEN len ELSE q[k - 1] \div Radix
  <2>1. q = [k \in 0..8 |-> IF k = 0 THEN len ELSE q[k - 1] \div Radix]
    BY <1>6
  <2> HIDE DEF q
  <2> QED BY <2>1
<1> HIDE DEF q, h, R
<1>8. q[0] = len /\ \A k \in 1..8 : q[k] = q[k - 1] \div Radix
  BY <1>7
<1> DEFINE good == {k \in 0..8 : q[k] \in Nat}
<1>9. 0 \in good
  BY <1>8
<1>10. ASSUME NEW k \in 1..8, k - 1 \in good PROVE k \in good
  <2>1. q[k - 1] \in Nat
    BY <1>10
  <2>2. q[k - 1] \div Radix \in Nat
    BY <2>1, Divided
  <2> QED BY <1>8, <2>2
<1> HIDE DEF good
<1>11. \A k \in 0..8 : k \in good
  BY <1>9, <1>10, Steps
<1> QED BY <1>8, <1>11 DEF good, q

-----------------------------------------------------------------------------
(* A frame on the wire *)

\* The bytes of a frame before its key, before its data, and of all of it
Ext(f)    == Extended(Frames[f].len)
KeyAt(f)  == 2 + Ext(f)
DataAt(f) == KeyAt(f) + (IF Server THEN 4 ELSE 0)
Size(f)   == DataAt(f) + Frames[f].len

LEMMA FrameIs ==
    ASSUME script \in Scripts
    PROVE  /\ Len(Frames) \in Nat /\ IsSeq(Frames) /\ script.closes \in BOOLEAN
           /\ \A f \in 1..Len(Frames) :
                /\ Frames[f].op \in Data \cup Control /\ Frames[f].len \in Nat
                /\ Frames[f].fin \in BOOLEAN /\ Frames[f].zero \in BOOLEAN
                /\ Quotient(Frames[f].len)[8] = 0
                /\ Ext(f) \in {0, 2, 8} /\ (Ext(f) = 0 => Frames[f].len <= Short)
                /\ Ext(f) # 0 => Quotient(Frames[f].len)[Ext(f)] = 0
                /\ KeyAt(f) \in Nat /\ DataAt(f) \in Nat /\ Size(f) \in Nat
                /\ 2 <= KeyAt(f) /\ KeyAt(f) <= DataAt(f) /\ DataAt(f) <= Size(f)
<1>1. Frames \in Seq(Frame) /\ script.closes \in BOOLEAN
  BY WsReceiveAssumption DEF Frames
<1>2. Len(Frames) \in Nat /\ IsSeq(Frames)
  BY <1>1, OfSeq DEF IsSeq
<1>3. ASSUME NEW f \in 1..Len(Frames)
      PROVE  /\ Frames[f].op \in Data \cup Control /\ Frames[f].len \in Nat
             /\ Frames[f].fin \in BOOLEAN /\ Frames[f].zero \in BOOLEAN
             /\ Quotient(Frames[f].len)[8] = 0
             /\ Ext(f) \in {0, 2, 8} /\ (Ext(f) = 0 => Frames[f].len <= Short)
             /\ Ext(f) # 0 => Quotient(Frames[f].len)[Ext(f)] = 0
             /\ KeyAt(f) \in Nat /\ DataAt(f) \in Nat /\ Size(f) \in Nat
             /\ 2 <= KeyAt(f) /\ KeyAt(f) <= DataAt(f) /\ DataAt(f) <= Size(f)
  <2> DEFINE fr == Frames[f]
  <2>1. fr \in Frame
    BY <1>1
  <2> HIDE DEF fr
  <2>2. /\ fr \in [op : Data \cup Control, len : Nat, fin : BOOLEAN, zero : BOOLEAN, bad : BOOLEAN]
        /\ Quotient(fr.len)[8] = 0
    BY <2>1 DEF Frame
  <2>3. fr.op \in Data \cup Control /\ fr.len \in Nat /\ fr.fin \in BOOLEAN /\ fr.zero \in BOOLEAN
    BY <2>2
  <2>4. /\ Extended(fr.len) \in {0, 2, 8} /\ (Extended(fr.len) = 0 => fr.len <= Short)
        /\ Extended(fr.len) # 0 => Quotient(fr.len)[Extended(fr.len)] = 0
    BY <2>2 DEF Extended
  <2>5. Ext(f) = Extended(fr.len)
    BY DEF Ext, fr
  <2>6. Ext(f) \in Nat
    BY <2>4, <2>5
  <2>7. KeyAt(f) \in Nat /\ 2 <= KeyAt(f)
    BY <2>6 DEF KeyAt
  <2>8. DataAt(f) \in Nat /\ KeyAt(f) <= DataAt(f)
    BY <2>7 DEF DataAt
  <2>9. Size(f) \in Nat /\ DataAt(f) <= Size(f)
    BY <2>3, <2>8 DEF Size, fr
  <2> QED BY <2>2, <2>3, <2>4, <2>5, <2>7, <2>8, <2>9 DEF fr
<1> QED BY <1>1, <1>2, <1>3

LEMMA Ends ==
    ASSUME NEW s, NEW t, IsSeq(s), IsSeq(t)
    PROVE  /\ IsSeq(s \o t) /\ Len(s) \in Nat /\ Len(t) \in Nat /\ Len(s \o t) = Len(s) + Len(t)
           /\ \A i \in 1..Len(s) : (s \o t)[i] = s[i]
           /\ \A i \in 1..Len(t) : (s \o t)[Len(s) + i] = t[i]
<1>1. Len(s) \in Nat /\ Len(t) \in Nat
  BY DEF IsSeq
<1>2. \A i \in 1..Len(s) : (s \o t)[i] = s[i]
  BY <1>1, Joined
<1>3. ASSUME NEW i \in 1..Len(t) PROVE (s \o t)[Len(s) + i] = t[i]
  <2>1. Len(s) + i \in 1..(Len(s) + Len(t)) /\ ~(Len(s) + i <= Len(s)) /\ Len(s) + i - Len(s) = i
    BY <1>1
  <2> QED BY <2>1, Joined
<1> QED BY <1>1, <1>2, <1>3, Joined

LEMMA FrameBytes ==
    ASSUME script \in Scripts, NEW f \in 1..Len(Frames)
    PROVE  /\ IsSeq(EncodeFrame(f)) /\ Len(EncodeFrame(f)) = Size(f)
           /\ EncodeFrame(f)[1] = [op |-> Frames[f].op, fin |-> Frames[f].fin]
           /\ EncodeFrame(f)[2] = [masked |-> Server, ext |-> Ext(f),
                                   len |-> IF Ext(f) = 0 THEN Frames[f].len ELSE 0]
           /\ \A k \in 1..Ext(f) : EncodeFrame(f)[2 + k] =
                [digit |-> Quotient(Frames[f].len)[Ext(f) - k] % Radix]
           /\ Server => \A k \in 1..4 : EncodeFrame(f)[KeyAt(f) + k] = [key |-> KeyByte(f, k - 1)]
           /\ \A k \in 1..Frames[f].len :
                EncodeFrame(f)[DataAt(f) + k] = [v |-> <<f, k>>, by |-> KeyByte(f, k - 1)]
<1> DEFINE len == Frames[f].len
           ext == Ext(f)
           b1 == [op |-> Frames[f].op, fin |-> Frames[f].fin]
           b2 == [masked |-> Server, len |-> IF ext = 0 THEN len ELSE 0, ext |-> ext]
           p3 == LengthDigits(len, ext)
           p4 == IF Server THEN [i \in 1..4 |-> [key |-> KeyByte(f, i - 1)]] ELSE <<>>
           p5 == [i \in 1..len |-> [v |-> <<f, i>>, by |-> KeyByte(f, i - 1)]]
           j2 == <<b1>> \o <<b2>>
           j3 == j2 \o p3
           j4 == j3 \o p4
           k4 == IF Server THEN 4 ELSE 0
<1>0. len \in Nat /\ ext \in Nat
  BY FrameIs, SMTT(30)
<1>1. EncodeFrame(f) = j4 \o p5
  BY DEF EncodeFrame, Ext
<1>2. IsSeq(j2) /\ Len(j2) = 2 /\ j2[1] = b1 /\ j2[2] = b2
  <2> HIDE DEF b1, b2
  <2>1. IsSeq(<<b1>>) /\ Len(<<b1>>) = 1 /\ <<b1>>[1] = b1 /\ IsSeq(<<b2>>) /\ Len(<<b2>>) = 1 /\ <<b2>>[1] = b2
    BY One
  <2> DEFINE s == <<b1>>
             t == <<b2>>
  <2> HIDE DEF s, t
  <2>2. /\ IsSeq(s \o t) /\ Len(s \o t) = 1 + 1
        /\ \A i \in 1..1 : (s \o t)[i] = s[i]
        /\ \A i \in 1..1 : (s \o t)[1 + i] = t[i]
    BY <2>1, Ends DEF s, t
  <2>3. (s \o t)[1] = b1 /\ (s \o t)[1 + 1] = b2 /\ 1 + 1 = 2
    BY <2>1, <2>2 DEF s, t
  <2> QED BY <2>2, <2>3 DEF s, t
<1>3. IsSeq(p3) /\ Len(p3) = ext
      /\ \A k \in 1..ext : p3[k] = [digit |-> Quotient(len)[ext - k] % Radix]
  <2> HIDE DEF len, ext
  <2>1. \A k \in 1..ext : p3[k] = [digit |-> Quotient(len)[ext - k] % Radix]
    BY <1>0 DEF LengthDigits
  <2>2. p3 = [k \in 1..ext |-> p3[k]]
    BY DEF LengthDigits
  <2> HIDE DEF p3
  <2> QED BY <1>0, <2>1, <2>2, Built
<1>4. IsSeq(p4) /\ Len(p4) = k4
      /\ (Server => \A k \in 1..4 : p4[k] = [key |-> KeyByte(f, k - 1)])
  <2>1. CASE Server
    <3>1. p4 = [k \in 1..4 |-> p4[k]] /\ \A k \in 1..4 : p4[k] = [key |-> KeyByte(f, k - 1)]
      BY <2>1
    <3> HIDE DEF p4
    <3>2. 4 \in Nat
      OBVIOUS
    <3> QED BY <2>1, <3>1, <3>2, Built
  <2>2. CASE ~Server
    BY <2>2, Nothing
  <2> QED BY <2>1, <2>2
<1>5. IsSeq(p5) /\ Len(p5) = len
      /\ \A k \in 1..len : p5[k] = [v |-> <<f, k>>, by |-> KeyByte(f, k - 1)]
  <2> HIDE DEF len
  <2>1. p5 = [k \in 1..len |-> p5[k]] /\ \A k \in 1..len : p5[k] = [v |-> <<f, k>>, by |-> KeyByte(f, k - 1)]
    OBVIOUS
  <2> HIDE DEF p5
  <2> QED BY <1>0, <2>1, Built
<1> HIDE DEF p3, p4, p5, j2
<1>6. /\ IsSeq(j3) /\ Len(j3) = 2 + ext
      /\ j3[1] = b1 /\ j3[2] = b2
      /\ \A k \in 1..ext : j3[2 + k] = p3[k]
  <2> HIDE DEF b1, b2, len, ext
  <2>0. IsSeq(j2) /\ IsSeq(p3)
    BY <1>2, <1>3
  <2>1. /\ IsSeq(j2 \o p3) /\ Len(j2 \o p3) = Len(j2) + Len(p3)
        /\ \A i \in 1..Len(j2) : (j2 \o p3)[i] = j2[i]
        /\ \A i \in 1..Len(p3) : (j2 \o p3)[Len(j2) + i] = p3[i]
    BY ONLY <2>0, Ends
  <2>2. 1 \in 1..2 /\ 2 \in 1..2
    OBVIOUS
  <2> QED BY <1>2, <1>3, <2>1, <2>2
<1> HIDE DEF j3
<1>7. /\ IsSeq(j4) /\ Len(j4) = 2 + ext + k4
      /\ \A i \in 1..(2 + ext) : j4[i] = j3[i]
      /\ \A k \in 1..k4 : j4[(2 + ext) + k] = p4[k]
  <2> HIDE DEF b1, b2, len, ext, k4
  <2>0. IsSeq(j3) /\ IsSeq(p4)
    BY <1>4, <1>6
  <2>1. /\ IsSeq(j3 \o p4) /\ Len(j3 \o p4) = Len(j3) + Len(p4)
        /\ \A i \in 1..Len(j3) : (j3 \o p4)[i] = j3[i]
        /\ \A i \in 1..Len(p4) : (j3 \o p4)[Len(j3) + i] = p4[i]
    BY ONLY <2>0, Ends
  <2> QED BY <1>4, <1>6, <2>1
<1> HIDE DEF j4
<1>8. /\ IsSeq(j4 \o p5) /\ Len(j4 \o p5) = 2 + ext + k4 + len
      /\ \A i \in 1..(2 + ext + k4) : (j4 \o p5)[i] = j4[i]
      /\ \A k \in 1..len : (j4 \o p5)[(2 + ext + k4) + k] = p5[k]
  <2> HIDE DEF b1, b2, len, ext, k4
  <2>0. IsSeq(j4) /\ IsSeq(p5)
    BY <1>5, <1>7
  <2>1. /\ IsSeq(j4 \o p5) /\ Len(j4 \o p5) = Len(j4) + Len(p5)
        /\ \A i \in 1..Len(j4) : (j4 \o p5)[i] = j4[i]
        /\ \A i \in 1..Len(p5) : (j4 \o p5)[Len(j4) + i] = p5[i]
    BY ONLY <2>0, Ends
  <2> QED BY <1>5, <1>7, <2>1
<1>9. 2 + ext = KeyAt(f) /\ 2 + ext + k4 = DataAt(f) /\ 2 + ext + k4 + len = Size(f)
  BY DEF KeyAt, DataAt, Size
<1> DEFINE w == j4 \o p5
<1> HIDE DEF w, len, ext, b1, b2
<1>10. w[1] = b1 /\ w[2] = b2
  <2>1. 1 \in 1..(2 + ext) /\ 2 \in 1..(2 + ext) /\ 1 \in 1..(2 + ext + k4) /\ 2 \in 1..(2 + ext + k4)
    BY <1>0
  <2> QED BY <1>6, <1>7, <1>8, <2>1 DEF w
<1>11. ASSUME NEW k \in 1..ext PROVE w[2 + k] = p3[k]
  <2>1. 2 + k \in 1..(2 + ext) /\ 2 + k \in 1..(2 + ext + k4)
    BY <1>0
  <2> QED BY <1>6, <1>7, <1>8, <2>1 DEF w
<1>12. ASSUME Server, NEW k \in 1..4 PROVE w[KeyAt(f) + k] = p4[k]
  <2>1. (2 + ext) + k \in 1..(2 + ext + k4) /\ k \in 1..k4
    BY <1>0, <1>12
  <2> QED BY <1>7, <1>8, <1>9, <2>1 DEF w
<1>13. \A k \in 1..len : w[DataAt(f) + k] = p5[k]
  BY <1>8, <1>9 DEF w
<1>14. b2 = [masked |-> Server, ext |-> ext, len |-> IF ext = 0 THEN len ELSE 0]
  BY DEF b2
<1> QED
  <2>1. EncodeFrame(f) = w /\ IsSeq(w) /\ Len(w) = Size(f)
    BY <1>1, <1>8, <1>9 DEF w
  <2>2. \A k \in 1..ext : w[2 + k] = [digit |-> Quotient(len)[ext - k] % Radix]
    BY <1>3, <1>11
  <2>3. Server => \A k \in 1..4 : w[KeyAt(f) + k] = [key |-> KeyByte(f, k - 1)]
    BY <1>4, <1>12
  <2>4. \A k \in 1..len : w[DataAt(f) + k] = [v |-> <<f, k>>, by |-> KeyByte(f, k - 1)]
    BY <1>5, <1>13
  <2> QED BY <1>10, <1>14, <2>1, <2>2, <2>3, <2>4 DEF len, ext, b1

-----------------------------------------------------------------------------
(* All the frames on the wire, and all that the user is to hear *)

Bytes == [f \in 1..Len(Frames) |-> EncodeFrame(f)]
Tale  == [f \in 1..Len(Frames) |-> Owed(f)]

LEMMA WholeIs ==
    ASSUME script \in Scripts
    PROVE  /\ IsSeq(Whole) /\ Starts(Bytes, 0) = 0 /\ Starts(Bytes, Len(Frames)) = Len(Whole)
           /\ \A f \in 0..Len(Frames) : Starts(Bytes, f) \in Nat /\ Starts(Bytes, f) <= Len(Whole)
           /\ \A f \in 1..Len(Frames) : Starts(Bytes, f) = Starts(Bytes, f - 1) + Size(f)
           /\ \A f \in 1..Len(Frames) : \A k \in 1..Size(f) :
                Whole[Starts(Bytes, f - 1) + k] = EncodeFrame(f)[k]
<1>1. Len(Frames) \in Nat
  BY FrameIs
<1>2. /\ Bytes = [f \in 1..Len(Frames) |-> Bytes[f]]
      /\ \A f \in 1..Len(Frames) : Bytes[f] = EncodeFrame(f)
  BY DEF Bytes
<1>3. IsSeq(Bytes) /\ Len(Bytes) = Len(Frames)
  BY <1>1, <1>2, Built
<1>4. \A f \in 1..Len(Frames) : IsSeq(EncodeFrame(f)) /\ Len(EncodeFrame(f)) = Size(f)
  BY FrameBytes
<1>5. All(Bytes)
  BY <1>2, <1>3, <1>4 DEF All
<1>6. Whole = FlattenSeq(Bytes)
  BY DEF Whole, Bytes
<1>7. /\ IsSeq(FlattenSeq(Bytes))
      /\ \A n \in 0..Len(Bytes) : Starts(Bytes, n) \in Nat /\ Starts(Bytes, n) <= Len(FlattenSeq(Bytes))
      /\ Starts(Bytes, 0) = 0 /\ Starts(Bytes, Len(Bytes)) = Len(FlattenSeq(Bytes))
      /\ \A n \in 1..Len(Bytes) : Starts(Bytes, n) = Starts(Bytes, n - 1) + Len(Bytes[n])
      /\ \A n \in 1..Len(Bytes) : \A i \in 1..Len(Bytes[n]) :
           FlattenSeq(Bytes)[Starts(Bytes, n - 1) + i] = Bytes[n][i]
  BY <1>5, Laid
<1>8. \A f \in 1..Len(Frames) : Bytes[f] = EncodeFrame(f) /\ Len(Bytes[f]) = Size(f)
  BY ONLY <1>2, <1>4
<1> QED BY ONLY <1>3, <1>6, <1>7, <1>8, SMTT(30)

LEMMA BytewiseIs ==
    ASSUME NEW c, IsSeq(c.data)
    PROVE  /\ IsSeq(Bytewise(c)) /\ Len(Bytewise(c)) = Len(c.data) + (IF c.more THEN 0 ELSE 1)
           /\ \A i \in 1..Len(c.data) : Bytewise(c)[i] = <<c.data[i], c.op, c.binary>>
           /\ ~c.more => Bytewise(c)[Len(c.data) + 1] = << "end" >>
<1> DEFINE n == Len(c.data)
           s == [i \in 1..n |-> <<c.data[i], c.op, c.binary>>]
           t == IF c.more THEN <<>> ELSE << <<"end">> >>
<1>1. n \in Nat
  BY DEF IsSeq
<1>2. IsSeq(s) /\ Len(s) = n /\ \A i \in 1..n : s[i] = <<c.data[i], c.op, c.binary>>
  <2>1. s = [i \in 1..n |-> s[i]] /\ \A i \in 1..n : s[i] = <<c.data[i], c.op, c.binary>>
    OBVIOUS
  <2> HIDE DEF s
  <2> QED BY <1>1, <2>1, Built
<1>3. IsSeq(t) /\ Len(t) = (IF c.more THEN 0 ELSE 1) /\ (~c.more => t[1] = << "end" >>)
  BY Nothing, One
<1>4. Bytewise(c) = s \o t
  BY DEF Bytewise
<1> HIDE DEF s, t
<1>5. /\ IsSeq(s \o t) /\ Len(s \o t) = Len(s) + Len(t)
      /\ \A i \in 1..Len(s) : (s \o t)[i] = s[i]
      /\ \A i \in 1..Len(t) : (s \o t)[Len(s) + i] = t[i]
  <2>1. IsSeq(s) /\ IsSeq(t)
    BY <1>2, <1>3
  <2> QED BY ONLY <2>1, Ends
<1> QED BY <1>1, <1>2, <1>3, <1>4, <1>5

LEMMA DataIs ==
    ASSUME script \in Scripts, NEW f \in 1..Len(Frames)
    PROVE  /\ IsSeq(FrameData(f)) /\ Len(FrameData(f)) = Frames[f].len
           /\ \A i \in 1..Frames[f].len : FrameData(f)[i] = <<f, i>>
<1>1. Frames[f].len \in Nat
  BY FrameIs
<1>2. FrameData(f) = [i \in 1..Frames[f].len |-> FrameData(f)[i]]
      /\ \A i \in 1..Frames[f].len : FrameData(f)[i] = <<f, i>>
  BY DEF FrameData
<1> QED BY <1>1, <1>2, Built

\* The callback for a frame of which nothing was cut
InOne(f) == [op |-> IF Frames[f].op = "pong" THEN "pong" ELSE "data",
             binary |-> IsBinary(f), data |-> FrameData(f), more |-> FALSE]

LEMMA OwedIs ==
    ASSUME script \in Scripts, NEW f \in 1..Len(Frames)
    PROVE  /\ IsSeq(Owed(f)) /\ Len(Owed(f)) = IF Told(f) THEN Frames[f].len + 1 ELSE 0
           /\ Told(f) =>
                /\ \A i \in 1..Frames[f].len :
                     Owed(f)[i] = << <<f, i>>, IF Frames[f].op = "pong" THEN "pong" ELSE "data", IsBinary(f)>>
                /\ Owed(f)[Frames[f].len + 1] = << "end" >>
<1>1. CASE ~Told(f)
  BY <1>1, Nothing DEF Owed
<1>2. CASE Told(f)
  <2> DEFINE c == InOne(f)
  <2>1. Owed(f) = Bytewise(c)
    BY <1>2 DEF Owed, InOne
  <2>2. c.data = FrameData(f) /\ c.more = FALSE /\ c.binary = IsBinary(f)
        /\ c.op = IF Frames[f].op = "pong" THEN "pong" ELSE "data"
    BY DEF InOne
  <2> HIDE DEF c
  <2>3. IsSeq(c.data) /\ Len(c.data) = Frames[f].len
        /\ \A i \in 1..Frames[f].len : c.data[i] = <<f, i>>
    BY <2>2, DataIs
  <2>4. /\ IsSeq(Bytewise(c)) /\ Len(Bytewise(c)) = Len(c.data) + (IF c.more THEN 0 ELSE 1)
        /\ \A i \in 1..Len(c.data) : Bytewise(c)[i] = <<c.data[i], c.op, c.binary>>
        /\ ~c.more => Bytewise(c)[Len(c.data) + 1] = << "end" >>
    BY <2>3, BytewiseIs
  <2> QED BY <1>2, <2>1, <2>2, <2>3, <2>4
<1> QED BY <1>1, <1>2

LEMMA TaleIs ==
    ASSUME script \in Scripts
    PROVE  /\ IsSeq(Expected) /\ Starts(Tale, 0) = 0 /\ Starts(Tale, Len(Frames)) = Len(Expected)
           /\ \A f \in 0..Len(Frames) : Starts(Tale, f) \in Nat /\ Starts(Tale, f) <= Len(Expected)
           /\ \A f \in 1..Len(Frames) : Starts(Tale, f) = Starts(Tale, f - 1) + Len(Owed(f))
           /\ \A f \in 1..Len(Frames) : \A k \in 1..Len(Owed(f)) :
                Expected[Starts(Tale, f - 1) + k] = Owed(f)[k]
<1>1. Len(Frames) \in Nat
  BY FrameIs
<1>2. /\ Tale = [f \in 1..Len(Frames) |-> Tale[f]]
      /\ \A f \in 1..Len(Frames) : Tale[f] = Owed(f)
  BY DEF Tale
<1>3. IsSeq(Tale) /\ Len(Tale) = Len(Frames)
  BY <1>1, <1>2, Built
<1>4. \A f \in 1..Len(Frames) : IsSeq(Owed(f))
  BY OwedIs
<1>5. All(Tale)
  BY <1>2, <1>3, <1>4 DEF All
<1>6. Expected = FlattenSeq(Tale)
  BY DEF Expected, Tale
<1>7. /\ IsSeq(FlattenSeq(Tale))
      /\ \A n \in 0..Len(Tale) : Starts(Tale, n) \in Nat /\ Starts(Tale, n) <= Len(FlattenSeq(Tale))
      /\ Starts(Tale, 0) = 0 /\ Starts(Tale, Len(Tale)) = Len(FlattenSeq(Tale))
      /\ \A n \in 1..Len(Tale) : Starts(Tale, n) = Starts(Tale, n - 1) + Len(Tale[n])
      /\ \A n \in 1..Len(Tale) : \A i \in 1..Len(Tale[n]) :
           FlattenSeq(Tale)[Starts(Tale, n - 1) + i] = Tale[n][i]
  BY <1>5, Laid
<1> QED BY <1>2, <1>3, <1>6, <1>7

\* What was received is a list of callbacks.
Callbacks(d) == IsSeq(d) /\ \A k \in 1..Len(d) : IsSeq(d[k].data)

LEMMA FlatAppend ==
    ASSUME NEW d, Callbacks(d), NEW c, IsSeq(c.data)
    PROVE  /\ Callbacks(Append(d, c)) /\ IsSeq(Flat(d))
           /\ Flat(Append(d, c)) = Flat(d) \o Bytewise(c)
<1> DEFINE n == Len(d)
           e == Append(d, c)
           ss == [k \in 1..n |-> Bytewise(d[k])]
           tt == [k \in 1..(n + 1) |-> Bytewise(e[k])]
<1>0. n \in Nat
  BY DEF Callbacks, IsSeq
<1>1. IsSeq(e) /\ Len(e) = n + 1 /\ (\A k \in 1..n : e[k] = d[k]) /\ e[n + 1] = c
  BY Added DEF Callbacks
<1> HIDE DEF e
<1>2. IsSeq(ss) /\ Len(ss) = n /\ \A k \in 1..n : ss[k] = Bytewise(d[k])
  <2>1. ss = [k \in 1..n |-> ss[k]] /\ \A k \in 1..n : ss[k] = Bytewise(d[k])
    OBVIOUS
  <2> HIDE DEF ss
  <2> QED BY <1>0, <2>1, Built
<1>3. IsSeq(tt) /\ Len(tt) = n + 1 /\ \A k \in 1..(n + 1) : tt[k] = Bytewise(e[k])
  <2>1. tt = [k \in 1..(n + 1) |-> tt[k]] /\ \A k \in 1..(n + 1) : tt[k] = Bytewise(e[k])
    OBVIOUS
  <2> HIDE DEF tt
  <2>2. n + 1 \in Nat
    BY <1>0
  <2> QED BY <2>1, <2>2, Built
<1>4. Flat(d) = FlattenSeq(ss) /\ Flat(e) = FlattenSeq(tt)
  BY <1>1 DEF Flat
<1> HIDE DEF ss, tt
<1>5. All(ss)
  <2>1. \A k \in 1..n : IsSeq(Bytewise(d[k]))
    BY BytewiseIs DEF Callbacks
  <2> QED BY <1>2, <2>1 DEF All
<1>6. IsSeq(Bytewise(c))
  BY BytewiseIs
<1>7. tt = Append(ss, Bytewise(c))
  <2>1. /\ IsSeq(Append(ss, Bytewise(c))) /\ Len(Append(ss, Bytewise(c))) = n + 1
        /\ \A k \in 1..n : Append(ss, Bytewise(c))[k] = ss[k]
        /\ Append(ss, Bytewise(c))[n + 1] = Bytewise(c)
    BY <1>2, Added
  <2>2. ASSUME NEW k \in 1..(n + 1) PROVE tt[k] = Append(ss, Bytewise(c))[k]
    <3>1. CASE k = n + 1
      BY <1>1, <1>3, <2>1, <3>1
    <3>2. CASE k # n + 1
      <4>1. k \in 1..n
        BY <1>0, <3>2
      <4>2. tt[k] = Bytewise(d[k]) /\ ss[k] = Bytewise(d[k])
        BY <1>1, <1>2, <1>3, <4>1
      <4> QED BY <2>1, <4>1, <4>2
    <3> QED BY <3>1, <3>2
  <2> QED BY <1>3, <2>1, <2>2, SameSeq
<1>8. FlattenSeq(tt) = FlattenSeq(ss) \o Bytewise(c)
  BY <1>5, <1>6, <1>7, FlattenAppend
<1>9. IsSeq(FlattenSeq(ss))
  BY <1>5, Laid
<1>10. Callbacks(e)
  <2>1. ASSUME NEW k \in 1..(n + 1) PROVE IsSeq(e[k].data)
    <3>1. CASE k = n + 1
      BY <1>1, <3>1
    <3>2. CASE k # n + 1
      <4>1. k \in 1..n
        BY <1>0, <3>2
      <4> QED BY <1>1, <4>1 DEF Callbacks
    <3> QED BY <3>1, <3>2
  <2> QED BY <1>1, <2>1 DEF Callbacks
<1> QED BY <1>4, <1>8, <1>9, <1>10 DEF e

LEMMA BeginningIsPrefix ==
    ASSUME NEW t, IsSeq(t), NEW n \in 0..Len(t)
    PROVE  IsPrefix(SubSeq(t, 1, n), t)
<1>0. Len(t) \in Nat /\ n \in Nat /\ 1 \in Nat \ {0}
  BY DEF IsSeq
<1> DEFINE u == SubSeq(t, 1, n)
<1>1. IsSeq(u) /\ Len(u) = n
  BY <1>0, Part
<1>2. SubSeq(u, 1, Len(u)) = u
  BY <1>1, Whole1
<1> QED BY <1>0, <1>1, <1>2 DEF IsPrefix

\* The bytes of a frame from a to b are told when those before a were.
LEMMA TellMore ==
    ASSUME script \in Scripts, NEW f \in 1..Len(Frames), Told(f),
           NEW a \in Nat, NEW b \in 0..Frames[f].len, a <= b,
           NEW d, Callbacks(d), Flat(d) = SubSeq(Expected, 1, Starts(Tale, f - 1) + a),
           NEW c, c.op = IF Frames[f].op = "pong" THEN "pong" ELSE "data",
           c.binary = IsBinary(f), c.data = SubSeq(FrameData(f), a + 1, b),
           c.more \in BOOLEAN, c.more <=> b < Frames[f].len
    PROVE  /\ Callbacks(Append(d, c))
           /\ c.more => Flat(Append(d, c)) = SubSeq(Expected, 1, Starts(Tale, f - 1) + b)
           /\ ~c.more => Flat(Append(d, c)) = SubSeq(Expected, 1, Starts(Tale, f))
<1> DEFINE len == Frames[f].len
           p == Starts(Tale, f - 1)
           o == IF Frames[f].op = "pong" THEN "pong" ELSE "data"
           w == Bytewise(c)
           n == IF c.more THEN p + b ELSE p + len + 1
<1>1. len \in Nat /\ b \in Nat
  BY FrameIs
<1>2. /\ p \in Nat /\ IsSeq(Expected) /\ Starts(Tale, f) = p + len + 1 /\ Len(Expected) \in Nat
      /\ p + len + 1 <= Len(Expected)
      /\ \A i \in 1..len : Expected[p + i] = << <<f, i>>, o, IsBinary(f)>>
      /\ Expected[p + (len + 1)] = << "end" >>
  <2>1. /\ IsSeq(Owed(f)) /\ Len(Owed(f)) = len + 1
        /\ \A i \in 1..len : Owed(f)[i] = << <<f, i>>, o, IsBinary(f)>>
        /\ Owed(f)[len + 1] = << "end" >>
    BY OwedIs
  <2>2. f - 1 \in 0..Len(Frames) /\ f \in 0..Len(Frames)
    BY FrameIs
  <2>3. /\ IsSeq(Expected) /\ p \in Nat /\ Starts(Tale, f) = p + Len(Owed(f))
        /\ Starts(Tale, f) <= Len(Expected)
        /\ \A k \in 1..Len(Owed(f)) : Expected[p + k] = Owed(f)[k]
    BY <2>2, TaleIs
  <2>4. \A i \in 1..len : i \in 1..(len + 1)
    BY <1>1
  <2>5. len + 1 \in 1..(len + 1)
    BY <1>1
  <2>6. Len(Expected) \in Nat
    BY <2>3 DEF IsSeq
  <2> HIDE DEF p, o, len
  <2>7. Expected[p + (len + 1)] = << "end" >>
    BY <2>1, <2>3, <2>5
  <2>8. ASSUME NEW i \in 1..len PROVE Expected[p + i] = << <<f, i>>, o, IsBinary(f)>>
    <3>1. Expected[p + i] = Owed(f)[i]
      BY <2>1, <2>3, <2>4
    <3> QED BY <2>1, <3>1
  <2>9. Starts(Tale, f) = p + len + 1
    BY <1>1, <2>1, <2>3
  <2> QED BY <2>3, <2>6, <2>7, <2>8, <2>9
<1>3. /\ IsSeq(c.data) /\ Len(c.data) = b - a
      /\ \A i \in 1..(b - a) : c.data[i] = <<f, a + i>>
  <2>1. IsSeq(FrameData(f)) /\ Len(FrameData(f)) = len /\ \A i \in 1..len : FrameData(f)[i] = <<f, i>>
    BY DataIs
  <2>2. a + 1 \in Nat \ {0} /\ b \in 0..Len(FrameData(f))
    BY <1>1, <2>1
  <2> HIDE DEF len
  <2>3. /\ IsSeq(c.data) /\ Len(c.data) = IF a + 1 <= b THEN b - (a + 1) + 1 ELSE 0
        /\ \A i \in 1..(b - (a + 1) + 1) : c.data[i] = FrameData(f)[(a + 1) + i - 1]
    BY <2>1, <2>2, Part
  <2>4. Len(c.data) = b - a
    BY <1>1, <2>3
  <2>5. ASSUME NEW i \in 1..(b - a) PROVE c.data[i] = <<f, a + i>>
    <3>1. i \in 1..(b - (a + 1) + 1) /\ (a + 1) + i - 1 = a + i /\ a + i \in 1..len
      BY <1>1 DEF len
    <3> QED BY <2>1, <2>3, <3>1
  <2> QED BY <2>3, <2>4, <2>5
<1>4. /\ IsSeq(w) /\ Len(w) = (b - a) + (IF c.more THEN 0 ELSE 1)
      /\ \A i \in 1..(b - a) : w[i] = << <<f, a + i>>, o, IsBinary(f)>>
      /\ ~c.more => w[(b - a) + 1] = << "end" >>
  <2>1. /\ IsSeq(w) /\ Len(w) = Len(c.data) + (IF c.more THEN 0 ELSE 1)
        /\ \A i \in 1..Len(c.data) : w[i] = <<c.data[i], c.op, c.binary>>
        /\ ~c.more => w[Len(c.data) + 1] = << "end" >>
    BY <1>3, BytewiseIs
  <2> HIDE DEF w
  <2>2. c.op = o /\ c.binary = IsBinary(f)
    OBVIOUS
  <2> HIDE DEF o
  <2> QED BY <1>3, <2>1, <2>2
<1> DEFINE u == Flat(d)
<1>5. /\ IsSeq(u) /\ Len(u) = p + a
      /\ \A i \in 1..(p + a) : u[i] = Expected[i]
  <2>2. u = SubSeq(Expected, 1, p + a)
    OBVIOUS
  <2> HIDE DEF u, p, len, o
  <2>1. p + a \in 0..Len(Expected) /\ 1 \in Nat \ {0}
    <3>1. p \in Nat /\ len \in Nat /\ b \in Nat /\ b <= len /\ Len(Expected) \in Nat /\ p + len + 1 <= Len(Expected)
      BY <1>1, <1>2 DEF len
    <3> QED BY <3>1, SMTT(30)
  <2>3. /\ IsSeq(u) /\ Len(u) = IF 1 <= p + a THEN p + a - 1 + 1 ELSE 0
        /\ \A i \in 1..(p + a - 1 + 1) : u[i] = Expected[1 + i - 1]
    BY <1>2, <2>1, <2>2, Part, SMTT(30)
  <2> QED BY <1>2, <2>3
<1>6. Callbacks(Append(d, c)) /\ Flat(Append(d, c)) = u \o w
  BY <1>3, FlatAppend
<1>7. c.more => b < len
  OBVIOUS
<1>8. ~c.more => b = len
  BY <1>1
<1> DEFINE x == SubSeq(Expected, 1, n)
<1>9. n \in Nat /\ n <= Len(Expected) /\ n = (p + a) + ((b - a) + (IF c.more THEN 0 ELSE 1))
  <2>1. p \in Nat /\ len \in Nat /\ b \in Nat /\ b <= len /\ Len(Expected) \in Nat /\ p + len + 1 <= Len(Expected)
    BY <1>1, <1>2
  <2> HIDE DEF p, len, w, u
  <2>2. CASE c.more
    <3>1. n = p + b
      BY <2>2
    <3> HIDE DEF n
    <3> QED BY ONLY <2>1, <2>2, <3>1, a \in Nat
  <2>3. CASE ~c.more
    <3>1. n = p + len + 1
      BY <2>3
    <3>2. b = len
      BY <1>8, <2>3
    <3> HIDE DEF n
    <3> QED BY ONLY <2>1, <2>3, <3>1, <3>2, a \in Nat
  <2> QED BY <2>2, <2>3
<1>10. IsSeq(x) /\ Len(x) = n /\ \A i \in 1..n : x[i] = Expected[i]
  <2>1. n \in 0..Len(Expected) /\ 1 \in Nat \ {0}
    BY <1>2, <1>9
  <2> HIDE DEF n
  <2>2. /\ IsSeq(x) /\ Len(x) = IF 1 <= n THEN n - 1 + 1 ELSE 0
        /\ \A i \in 1..(n - 1 + 1) : x[i] = Expected[1 + i - 1]
    BY <1>2, <2>1, Part
  <2> HIDE DEF x
  <2> QED BY <1>9, <2>2
<1>11. c.more => n = p + b
  OBVIOUS
<1>12. ~c.more => n = Starts(Tale, f)
  BY <1>2
<1> HIDE DEF x, w, u, n, o, p, len
<1>13. /\ IsSeq(u \o w) /\ Len(u \o w) = Len(u) + Len(w)
       /\ \A i \in 1..Len(u) : (u \o w)[i] = u[i]
       /\ \A i \in 1..Len(w) : (u \o w)[Len(u) + i] = w[i]
  <2>1. IsSeq(u) /\ IsSeq(w)
    BY <1>4, <1>5
  <2> QED BY ONLY <2>1, Ends
<1>14. ASSUME NEW i \in 1..n PROVE (u \o w)[i] = x[i]
  <2>1. CASE i <= p + a
    <3>1. i \in 1..(p + a)
      BY <1>2, <2>1
    <3> QED BY <1>5, <1>10, <1>13, <3>1
  <2>2. CASE ~(i <= p + a)
    <3> DEFINE j == i - (p + a)
    <3>1. j \in 1..((b - a) + (IF c.more THEN 0 ELSE 1)) /\ (p + a) + j = i
      BY <1>1, <1>2, <1>9, <2>2
    <3>2. p + (a + j) = i
      BY <1>1, <1>2, <1>9, <2>2
    <3> HIDE DEF j
    <3>3. (u \o w)[i] = w[j] /\ x[i] = Expected[i]
      BY <1>4, <1>5, <1>10, <1>13, <3>1
    <3>4. CASE j <= b - a
      <4>1. j \in 1..(b - a) /\ a + j \in 1..len
        BY <1>1, <3>1, <3>4 DEF len
      <4>2. Expected[p + (a + j)] = << <<f, a + j>>, o, IsBinary(f)>>
        BY <1>2, <4>1
      <4> QED BY <1>4, <3>2, <3>3, <4>1, <4>2
    <3>5. CASE ~(j <= b - a)
      <4>1. ~c.more /\ j = (b - a) + 1
        BY <1>1, <3>1, <3>5
      <4>2. a + j = len + 1
        BY <1>1, <1>8, <4>1
      <4> QED BY <1>2, <1>4, <3>2, <3>3, <4>1, <4>2
    <3> QED BY <3>4, <3>5
  <2> QED BY <2>1, <2>2
<1>15. u \o w = x
  <2>1. Len(u \o w) = n
    BY <1>4, <1>5, <1>9, <1>13
  <2> QED BY <1>10, <1>13, <1>14, <2>1, SameSeq
<1> QED BY <1>6, <1>11, <1>12, <1>15 DEF x, p

-----------------------------------------------------------------------------
(* The invariant.  While the connection is open the receiver is in step: it  *)
(* has used the first o bytes of frame f and all frames before, and what it  *)
(* has told and answered so far is what these call for.                      *)

Kept   == SubSeq(flow, pos + 1, Len(flow))
Unused == (IF reading = "net" THEN buf ELSE Kept) \o wire

InputOK ==
    /\ IsSeq(wire) /\ IsSeq(buf) /\ IsSeq(flow) /\ pos \in 0..Len(flow)
    /\ reading \in {"no", "served", "net", "flow"}
    /\ reading \in {"no", "served"} => buf = <<>>
    /\ reading = "net" => flow = <<>>
    /\ reading = "flow" => buf = Kept

Position(f, o) ==
    /\ IF f = Len(Frames) + 1 THEN o = 0 ELSE o < Size(f)
    /\ Unused = SubSeq(Whole, Starts(Bytes, f - 1) + o + 1, Len(Whole))

Stage(f, o) ==
    IF o = 0 THEN "op" ELSE IF o = 1 THEN "len" ELSE IF o < KeyAt(f) THEN "ext"
    ELSE IF o < DataAt(f) THEN "key" ELSE "payload"

KeyTo(f, k) == [i \in 1..k |-> KeyByte(f, i - 1)]

IsParser(p) ==
    p = [at |-> p.at, op |-> p.op, masked |-> p.masked, left |-> p.left, digits |-> p.digits,
         mask |-> p.mask, idx |-> p.idx, zero |-> p.zero, ubuf |-> p.ubuf,
         binary |-> p.binary, more |-> p.more, owed |-> p.owed]

\* The parser before the data of a frame
HeaderAt(p, f, o) ==
    /\ p.ubuf = <<>>
    /\ o = 0 => p.binary = IsBinary(f - 1)
    /\ Server /\ (o = 0 \/ o <= KeyAt(f)) => Len(p.mask) \in {0, 4}
    /\ o > 0 /\ o <= KeyAt(f) /\ Server => p.zero
    /\ Stage(f, o) = "ext" =>
        p.digits = KeyAt(f) - o /\ p.left = Quotient(Frames[f].len)[KeyAt(f) - o]
    /\ Stage(f, o) = "key" => p.left = Frames[f].len
    /\ o > 0 /\ o > KeyAt(f) => p.mask = KeyTo(f, o - KeyAt(f)) /\ (p.zero <=> Frames[f].zero)

\* The parser in the data, of which it has seen n bytes
DataFrom(p, f, n) ==
    /\ p.left = Frames[f].len - n
    /\ Server => p.mask = KeyTo(f, 4) /\ (p.zero <=> Frames[f].zero)
    /\ Server /\ ~p.zero => p.idx = n % 4
    /\ Len(p.ubuf) <= n
    /\ p.ubuf = SubSeq(FrameData(f), n - Len(p.ubuf) + 1, n)
    /\ Frames[f].op \in Control => Len(p.ubuf) = n

\* The parser at any time, and once it has seen the opcode
IsRun(p) ==
    /\ IsParser(p) /\ IsSeq(p.ubuf) /\ IsSeq(p.mask) /\ p.zero \in BOOLEAN
    /\ ~Server => ~p.zero
OfFrame(p, f) == p.op = Frames[f].op /\ p.binary = IsBinary(f)

ParserAt(p, f, o) ==
    /\ IsRun(p) /\ p.at = Stage(f, o)
    /\ o > 0 => OfFrame(p, f)
    /\ o > 1 => (p.masked <=> Server) /\ (Frames[f].op \in Control => Ext(f) = 0)
    /\ IF Stage(f, o) = "payload" THEN DataFrom(p, f, o - DataAt(f)) /\ Len(p.ubuf) < RxBuffer
       ELSE HeaderAt(p, f, o)

\* What of the data of the frame was told
Spilled(p, f, o) ==
    IF o = 0 \/ o < DataAt(f) \/ ~Told(f) THEN 0 ELSE o - DataAt(f) - Len(p.ubuf)

NoCloseBefore(f) == \A g \in 1..f-1 : Frames[g].op # "close"

Telling(f, o) ==
    NoCloseBefore(f) /\ Flat(received) = SubSeq(Expected, 1, Starts(Tale, f - 1) + Spilled(rx, f, o))

\* All replies are pongs, which echo pings before f.
Pongs(r, from, f) ==
    \A i \in 1..Len(r) :
        /\ from[i] \in 1..f-1 /\ Frames[from[i]].op = "ping"
        /\ r[i].op = "pong" /\ r[i].data = FrameData(from[i])
        /\ \A j \in 1..i-1 : from[j] < from[i]

\* So does the one that is pending.
PongDue(r, from, q, f) ==
    q.pending => \E g \in 1..f-1 :
        /\ Frames[g].op = "ping" /\ q.data = FrameData(g)
        /\ \A i \in 1..Len(r) : from[i] < g

Answers(r, q, f) ==
    \E from \in [1..Len(r) -> 0..Len(Frames)] : Pongs(r, from, f) /\ PongDue(r, from, q, f)

InStepAt(f, o) ==
    Position(f, o) /\ ParserAt(rx, f, o) /\ Telling(f, o) /\ Answers(replies, pong, f)

IsPong(q) == q = [pending |-> q.pending, close |-> q.close, data |-> q.data]

IsInStep ==
    /\ InputOK /\ IsPong(pong)
    /\ \E f \in 1..Len(Frames) + 1, o \in 0..Len(Whole) : InStepAt(f, o)

\* A close of the peer is pending, and nothing else will be written.
CloseDue ==
    /\ pong.pending
    /\ \E from \in [1..Len(replies) -> 0..Len(Frames)] : Pongs(replies, from, Len(Frames) + 1)
    /\ \E g \in 1..Len(Frames) : Frames[g].op = "close" /\ pong.data = CloseAnswer(g)

IInv ==
    /\ script \in Scripts /\ Callbacks(received) /\ IsSeq(replies)
    /\ state \in {"open", "awaiting", "returned", "closed"}
    /\ DeliveredInOrder /\ RepliesEcho
    /\ state = "open" => IsInStep
    /\ state = "returned" => CloseDue

-----------------------------------------------------------------------------
(* Moving on *)

\* The frames stay what they are.
LEMMA Fixed ==
    ASSUME script' = script
    PROVE  /\ Frames' = Frames /\ (Server' <=> Server)
           /\ Whole' = Whole /\ Expected' = Expected /\ Bytes' = Bytes /\ Tale' = Tale
           /\ \A f : /\ Ext(f)' = Ext(f) /\ KeyAt(f)' = KeyAt(f) /\ DataAt(f)' = DataAt(f)
                     /\ Size(f)' = Size(f) /\ FrameData(f)' = FrameData(f)
                     /\ (Told(f)' <=> Told(f)) /\ (IsBinary(f)' <=> IsBinary(f))
                     /\ (NoCloseBefore(f)' <=> NoCloseBefore(f))
           /\ \A f, o : Stage(f, o)' = Stage(f, o) /\ KeyTo(f, o)' = KeyTo(f, o)
<1>1. Frames' = Frames /\ (Server' <=> Server)
  BY DEF Frames, Server
<1>2. Whole' = Whole /\ Bytes' = Bytes
  BY DEF Whole, Bytes, EncodeFrame, Frames, Server, KeyByte, LengthDigits
<1>3. Expected' = Expected /\ Tale' = Tale
  BY DEF Expected, Tale, Owed, Told, IsBinary, FrameData, Frames, Server
<1>4. ASSUME NEW f
      PROVE  /\ Ext(f)' = Ext(f) /\ KeyAt(f)' = KeyAt(f) /\ DataAt(f)' = DataAt(f)
             /\ Size(f)' = Size(f) /\ FrameData(f)' = FrameData(f)
             /\ (Told(f)' <=> Told(f)) /\ (IsBinary(f)' <=> IsBinary(f))
             /\ (NoCloseBefore(f)' <=> NoCloseBefore(f))
  BY DEF Ext, KeyAt, DataAt, Size, FrameData, Told, IsBinary, NoCloseBefore, Frames, Server
<1>5. ASSUME NEW f, NEW o PROVE Stage(f, o)' = Stage(f, o) /\ KeyTo(f, o)' = KeyTo(f, o)
  BY DEF Stage, KeyTo, KeyByte, Ext, KeyAt, DataAt, Frames, Server
<1> QED BY <1>1, <1>2, <1>3, <1>4, <1>5

LEMMA Dropped ==
    ASSUME NEW s, NEW t, IsSeq(s), IsSeq(t), NEW n \in 0..Len(s)
    PROVE  SubSeq(s, n + 1, Len(s)) \o t = SubSeq(s \o t, n + 1, Len(s \o t))
<1> DEFINE l == Len(s)
           m == Len(t)
           a == SubSeq(s, n + 1, l)
           w == s \o t
           x == SubSeq(w, n + 1, l + m)
<1>0. l \in Nat /\ m \in Nat /\ n \in Nat /\ n <= l
  BY DEF IsSeq
<1>1. /\ IsSeq(w) /\ Len(w) = l + m
      /\ \A i \in 1..(l + m) : w[i] = IF i <= l THEN s[i] ELSE t[i - l]
  BY Joined
<1>2. IsSeq(a) /\ Len(a) = l - n /\ \A i \in 1..(l - n) : a[i] = s[n + i]
  <2>1. n + 1 \in Nat \ {0} /\ l \in 0..Len(s)
    BY <1>0
  <2>2. /\ IsSeq(a) /\ Len(a) = IF n + 1 <= l THEN l - (n + 1) + 1 ELSE 0
        /\ \A i \in 1..(l - (n + 1) + 1) : a[i] = s[(n + 1) + i - 1]
    BY <2>1, Part
  <2> HIDE DEF a, l
  <2>3. Len(a) = l - n /\ l - (n + 1) + 1 = l - n
    BY <1>0, <2>2
  <2>4. ASSUME NEW i \in 1..(l - n) PROVE a[i] = s[n + i]
    <3>1. (n + 1) + i - 1 = n + i
      BY <1>0
    <3> QED BY <2>2, <2>3, <3>1
  <2> QED BY <2>2, <2>3, <2>4
<1> HIDE DEF w
<1>3. IsSeq(x) /\ Len(x) = l + m - n /\ \A i \in 1..(l + m - n) : x[i] = w[n + i]
  <2>1. n + 1 \in Nat \ {0} /\ l + m \in 0..Len(w)
    BY <1>0, <1>1
  <2> HIDE DEF l, m, a
  <2>2. /\ IsSeq(x) /\ Len(x) = IF n + 1 <= l + m THEN (l + m) - (n + 1) + 1 ELSE 0
        /\ \A i \in 1..((l + m) - (n + 1) + 1) : x[i] = w[(n + 1) + i - 1]
    BY <1>1, <2>1, Part
  <2> HIDE DEF x
  <2>3. Len(x) = l + m - n /\ (l + m) - (n + 1) + 1 = l + m - n
    BY <1>0, <2>2
  <2>4. ASSUME NEW i \in 1..(l + m - n) PROVE x[i] = w[n + i]
    <3>1. (n + 1) + i - 1 = n + i
      BY <1>0
    <3> QED BY <2>2, <2>3, <3>1
  <2> QED BY <2>2, <2>3, <2>4
<1> HIDE DEF a, x, l, m
<1>4. /\ IsSeq(a \o t) /\ Len(a \o t) = (l - n) + m
      /\ \A i \in 1..((l - n) + m) : (a \o t)[i] = IF i <= l - n THEN a[i] ELSE t[i - (l - n)]
  <2>1. IsSeq(a) /\ IsSeq(t) /\ Len(a) = l - n /\ Len(t) = m
    BY <1>2 DEF m
  <2>2. /\ IsSeq(a \o t) /\ Len(a \o t) = Len(a) + Len(t)
        /\ \A i \in 1..(Len(a) + Len(t)) : (a \o t)[i] = IF i <= Len(a) THEN a[i] ELSE t[i - Len(a)]
    BY ONLY <2>1, Joined
  <2> QED BY <2>1, <2>2
<1>5. ASSUME NEW i \in 1..(l + m - n) PROVE (a \o t)[i] = x[i]
  <2>1. i \in 1..((l - n) + m) /\ n + i \in 1..(l + m) /\ (n + i) - l = i - (l - n)
    BY <1>0
  <2>2. x[i] = IF n + i <= l THEN s[n + i] ELSE t[i - (l - n)]
    BY <1>1, <1>3, <2>1
  <2>3. CASE n + i <= l
    <3>1. i <= l - n /\ i \in 1..(l - n)
      BY <1>0, <2>3
    <3> QED BY <1>2, <1>4, <2>1, <2>2, <2>3, <3>1
  <2>4. CASE ~(n + i <= l)
    <3>1. ~(i <= l - n)
      BY <1>0, <2>4
    <3> QED BY <1>4, <2>1, <2>2, <2>4, <3>1
  <2> QED BY <2>3, <2>4
<1>6. a \o t = x
  <2>1. (l - n) + m = l + m - n
    BY <1>0
  <2> QED BY <1>3, <1>4, <1>5, <2>1, SameSeq
<1> QED BY <1>1, <1>6 DEF a, x, l, w

LEMMA DropDrop ==
    ASSUME NEW s, IsSeq(s), NEW m \in 0..Len(s), NEW n \in 0..(Len(s) - m)
    PROVE  /\ IsSeq(SubSeq(s, m + 1, Len(s))) /\ Len(SubSeq(s, m + 1, Len(s))) = Len(s) - m
           /\ \A i \in 1..(Len(s) - m) : SubSeq(s, m + 1, Len(s))[i] = s[m + i]
           /\ SubSeq(SubSeq(s, m + 1, Len(s)), n + 1, Len(s) - m) = SubSeq(s, m + n + 1, Len(s))
<1> DEFINE l == Len(s)
           a == SubSeq(s, m + 1, l)
           b == SubSeq(a, n + 1, l - m)
           c == SubSeq(s, m + n + 1, l)
<1>0. l \in Nat /\ m \in Nat /\ n \in Nat /\ m <= l /\ n <= l - m
  BY DEF IsSeq
<1>1. IsSeq(a) /\ Len(a) = l - m /\ \A i \in 1..(l - m) : a[i] = s[m + i]
  <2>1. m + 1 \in Nat \ {0} /\ l \in 0..Len(s)
    BY <1>0
  <2>2. /\ IsSeq(a) /\ Len(a) = IF m + 1 <= l THEN l - (m + 1) + 1 ELSE 0
        /\ \A i \in 1..(l - (m + 1) + 1) : a[i] = s[(m + 1) + i - 1]
    BY <2>1, Part
  <2> HIDE DEF a, l
  <2>3. Len(a) = l - m /\ l - (m + 1) + 1 = l - m
    BY <1>0, <2>2
  <2>4. ASSUME NEW i \in 1..(l - m) PROVE a[i] = s[m + i]
    <3>1. (m + 1) + i - 1 = m + i
      BY <1>0
    <3> QED BY <2>2, <2>3, <3>1
  <2> QED BY <2>2, <2>3, <2>4
<1>2. IsSeq(c) /\ Len(c) = l - m - n /\ \A i \in 1..(l - m - n) : c[i] = s[m + n + i]
  <2>1. m + n + 1 \in Nat \ {0} /\ l \in 0..Len(s)
    BY <1>0
  <2>2. /\ IsSeq(c) /\ Len(c) = IF m + n + 1 <= l THEN l - (m + n + 1) + 1 ELSE 0
        /\ \A i \in 1..(l - (m + n + 1) + 1) : c[i] = s[(m + n + 1) + i - 1]
    BY <2>1, Part
  <2> HIDE DEF a, b, c, l
  <2>3. Len(c) = l - m - n /\ l - (m + n + 1) + 1 = l - m - n
    BY <1>0, <2>2
  <2>4. ASSUME NEW i \in 1..(l - m - n) PROVE c[i] = s[m + n + i]
    <3>1. (m + n + 1) + i - 1 = m + n + i
      BY <1>0
    <3> QED BY <2>2, <2>3, <3>1
  <2> QED BY <2>2, <2>3, <2>4
<1>3. IsSeq(b) /\ Len(b) = l - m - n /\ \A i \in 1..(l - m - n) : b[i] = a[n + i]
  <2>1. n + 1 \in Nat \ {0} /\ l - m \in 0..Len(a)
    BY <1>0, <1>1
  <2> HIDE DEF a, l, c
  <2>2. /\ IsSeq(b) /\ Len(b) = IF n + 1 <= l - m THEN (l - m) - (n + 1) + 1 ELSE 0
        /\ \A i \in 1..((l - m) - (n + 1) + 1) : b[i] = a[(n + 1) + i - 1]
    BY <1>1, <2>1, Part
  <2> HIDE DEF b
  <2>3. Len(b) = l - m - n /\ (l - m) - (n + 1) + 1 = l - m - n
    BY <1>0, <2>2
  <2>4. ASSUME NEW i \in 1..(l - m - n) PROVE b[i] = a[n + i]
    <3>1. (n + 1) + i - 1 = n + i
      BY <1>0
    <3> QED BY <2>2, <2>3, <3>1
  <2> QED BY <2>2, <2>3, <2>4
<1> HIDE DEF a, b, c, l
<1>4. ASSUME NEW i \in 1..(l - m - n) PROVE b[i] = c[i]
  <2>1. n + i \in 1..(l - m) /\ m + (n + i) = m + n + i
    BY <1>0
  <2> QED BY <1>1, <1>2, <1>3, <2>1
<1>5. b = c
  BY <1>2, <1>3, <1>4, SameSeq
<1> QED BY <1>1, <1>5 DEF a, b, c, l

\* n bytes are used.
LEMMA Used ==
    ASSUME InputOK, reading \in {"net", "flow"}, NEW n \in 1..Len(buf), Use(n)
    PROVE  InputOK' /\ IsSeq(Unused) /\ Unused' = SubSeq(Unused, n + 1, Len(Unused))
<1>0. Len(buf) \in Nat /\ n \in Nat /\ n # 0 /\ n <= Len(buf) /\ IsSeq(buf) /\ IsSeq(wire) /\ n \in 0..Len(buf)
  BY DEF InputOK, IsSeq
<1>1. buf' = SubSeq(buf, n + 1, Len(buf)) /\ wire' = wire /\ reading' = reading /\ flow' = flow
      /\ pos' = IF flow # <<>> THEN pos + n ELSE pos
  BY DEF Use, Held
<1>2. /\ IsSeq(SubSeq(buf, n + 1, Len(buf))) /\ Len(SubSeq(buf, n + 1, Len(buf))) = Len(buf) - n
  <2>1. 0 \in 0..(Len(buf) - n)
    BY <1>0
  <2> QED BY <1>0, <2>1, DropDrop
<1>3. SubSeq(buf, n + 1, Len(buf)) \o wire = SubSeq(buf \o wire, n + 1, Len(buf \o wire))
  BY <1>0, Dropped
<1>4. IsSeq(buf \o wire)
  BY <1>0, Joined
<1>5. CASE reading = "net"
  <2>1. flow = <<>> /\ pos' = pos
    BY <1>1, <1>5 DEF InputOK
  <2>2. Unused = buf \o wire /\ Unused' = buf' \o wire
    BY <1>1, <1>5 DEF Unused
  <2>3. InputOK'
    BY <1>1, <1>2, <1>5, <2>1 DEF InputOK
  <2> QED BY <1>1, <1>3, <1>4, <2>2, <2>3
<1>6. CASE reading = "flow"
  <2>1. buf = Kept /\ IsSeq(flow) /\ pos \in 0..Len(flow)
    BY <1>6 DEF InputOK
  <2>2. Len(flow) \in Nat /\ 0 \in 0..(Len(flow) - pos)
    BY <2>1 DEF IsSeq
  <2>3. Len(buf) = Len(flow) - pos
    BY <2>1, <2>2, DropDrop DEF Kept
  <2>4. flow # <<>>
    BY <1>0, <2>1, <2>2, <2>3, Nothing
  <2>5. n \in 0..(Len(flow) - pos)
    BY <1>0, <2>2, <2>3
  <2>6. SubSeq(buf, n + 1, Len(buf)) = SubSeq(flow, pos + n + 1, Len(flow))
    BY <2>1, <2>3, <2>5, DropDrop DEF Kept
  <2>7. pos' = pos + n /\ pos' \in 0..Len(flow)
    BY <1>0, <1>1, <2>1, <2>2, <2>3, <2>4
  <2>8. buf' = Kept'
    BY <1>1, <2>6, <2>7 DEF Kept
  <2>9. Unused = buf \o wire /\ Unused' = buf' \o wire
    BY <1>1, <1>6, <2>1, <2>8 DEF Unused
  <2>10. InputOK'
    BY <1>1, <1>2, <1>6, <2>1, <2>7, <2>8 DEF InputOK
  <2> QED BY <1>1, <1>3, <1>4, <2>9, <2>10
<1> QED BY <1>5, <1>6

\* What there is to read is the rest of what was sent.
LEMMA Faces ==
    ASSUME script \in Scripts, InputOK, reading \in {"net", "flow"}, buf # <<>>,
           NEW f \in 1..Len(Frames) + 1, NEW o \in Nat, Position(f, o)
    PROVE  /\ f \in 1..Len(Frames) /\ o < Size(f) /\ Len(buf) \in Nat /\ Len(buf) # 0
           /\ \A k \in 1..Len(buf) : o + k <= Size(f) => buf[k] = EncodeFrame(f)[o + k]
           /\ Starts(Bytes, f - 1) + o <= Len(Whole)
<1> DEFINE m == Starts(Bytes, f - 1) + o
           l == Len(Whole)
           w == Kept
<1>0. Len(Frames) \in Nat
  BY FrameIs
<1>1. Len(buf) \in Nat /\ Len(buf) # 0 /\ IsSeq(buf) /\ IsSeq(wire)
  BY OnlyNothing DEF InputOK, IsSeq
<1>2. Unused = buf \o wire
  BY DEF Unused, InputOK
<1>3. Len(Unused) # 0 /\ \A k \in 1..Len(buf) : Unused[k] = buf[k]
  BY <1>1, <1>2, Ends
<1>4. f - 1 \in 0..Len(Frames) /\ Starts(Bytes, f - 1) \in Nat /\ l \in Nat /\ IsSeq(Whole)
  BY <1>0, WholeIs DEF IsSeq
<1>5. Unused = SubSeq(Whole, m + 1, l)
  BY DEF Position
<1>6. f # Len(Frames) + 1
  <2> SUFFICES ASSUME f = Len(Frames) + 1 PROVE FALSE
    OBVIOUS
  <2>1. o = 0
    BY DEF Position
  <2>2. m = l
    BY <1>0, <1>4, <2>1, WholeIs
  <2>3. l \in 0..Len(Whole) /\ 0 \in 0..(Len(Whole) - l)
    BY <1>4
  <2>4. Len(SubSeq(Whole, l + 1, l)) = l - l
    BY <1>4, <2>3, DropDrop
  <2> QED BY <1>3, <1>4, <1>5, <2>2, <2>4
<1>7. f \in 1..Len(Frames) /\ o < Size(f) /\ Size(f) \in Nat
  BY <1>0, <1>6, FrameIs DEF Position
<1>8. m \in 0..l
  <2>1. Starts(Bytes, f) = Starts(Bytes, f - 1) + Size(f) /\ Starts(Bytes, f) <= l
    BY <1>0, <1>7, WholeIs
  <2> QED BY <1>4, <1>7, <2>1
<1>9. ASSUME NEW k \in 1..Len(buf), o + k <= Size(f) PROVE buf[k] = EncodeFrame(f)[o + k]
  <2>1. Len(Unused) = l - m /\ \A i \in 1..(l - m) : Unused[i] = Whole[m + i]
    <3>1. 0 \in 0..(Len(Whole) - m)
      BY <1>4, <1>8
    <3> QED BY <1>4, <1>5, <1>8, <3>1, DropDrop
  <2>2. k \in 1..(l - m)
    <3>1. Len(Unused) = Len(buf) + Len(wire) /\ Len(wire) \in Nat
      BY <1>1, <1>2, Joined DEF IsSeq
    <3>2. Len(Unused) = l - m /\ l \in Nat /\ m \in Nat /\ Len(buf) \in Nat
      BY <1>1, <1>4, <1>8, <2>1
    <3> HIDE DEF m, l
    <3> QED BY ONLY <3>1, <3>2, k \in 1..Len(buf)
  <2>3. o + k \in 1..Size(f) /\ m + k = Starts(Bytes, f - 1) + (o + k)
    BY <1>4, <1>7, <1>9
  <2>4. Whole[Starts(Bytes, f - 1) + (o + k)] = EncodeFrame(f)[o + k]
    BY <1>7, <2>3, WholeIs
  <2> QED BY <1>3, <2>1, <2>2, <2>3, <2>4
<1> QED BY <1>1, <1>7, <1>8, <1>9

\* n bytes of a frame are used.
LEMMA Moves ==
    ASSUME script \in Scripts, script' = script, InputOK, reading \in {"net", "flow"},
           NEW f \in 1..Len(Frames) + 1, NEW o \in Nat, Position(f, o),
           NEW n \in 1..Len(buf), o + n <= Size(f), Use(n)
    PROVE  /\ InputOK' /\ f \in 1..Len(Frames)
           /\ o + n < Size(f) => o + n \in 0..Len(Whole) /\ Position(f, o + n)'
           /\ o + n = Size(f) => Position(f + 1, 0)'
<1> DEFINE p == Starts(Bytes, f - 1)
           l == Len(Whole)
<1>0. Len(Frames) \in Nat /\ IsSeq(Whole) /\ l \in Nat /\ buf # <<>> /\ n \in Nat
  BY FrameIs, WholeIs, Nothing DEF IsSeq
<1>1. f \in 1..Len(Frames) /\ o < Size(f) /\ p + o <= l
  BY <1>0, Faces
<1>2. /\ p \in Nat /\ Size(f) \in Nat /\ Starts(Bytes, f) = p + Size(f) /\ Starts(Bytes, f) <= l
  <2>1. f - 1 \in 0..Len(Frames) /\ f \in 0..Len(Frames)
    BY <1>0, <1>1
  <2> QED BY <1>1, <2>1, FrameIs, WholeIs
<1>3. InputOK' /\ IsSeq(Unused) /\ Unused' = SubSeq(Unused, n + 1, Len(Unused))
  BY Used
<1>4. Unused' = SubSeq(Whole, (p + o) + n + 1, l)
  <2>1. p + o \in 0..Len(Whole) /\ n \in 0..(Len(Whole) - (p + o))
    <3> DEFINE z == Size(f)
    <3>1. /\ p \in Nat /\ o \in Nat /\ n \in Nat /\ l \in Nat /\ z \in Nat
          /\ p + o <= l /\ p + z <= l /\ o + n <= z
      BY <1>0, <1>1, <1>2
    <3> HIDE DEF p, l, z
    <3>2. p + o \in 0..l /\ n \in 0..(l - (p + o))
      BY ONLY <3>1
    <3> QED BY <3>2 DEF l
  <2>2. Unused = SubSeq(Whole, (p + o) + 1, l)
    BY DEF Position
  <2> HIDE DEF p
  <2>3. /\ Len(SubSeq(Whole, (p + o) + 1, Len(Whole))) = Len(Whole) - (p + o)
        /\ SubSeq(SubSeq(Whole, (p + o) + 1, Len(Whole)), n + 1, Len(Whole) - (p + o))
             = SubSeq(Whole, (p + o) + n + 1, Len(Whole))
    BY <1>0, <2>1, DropDrop
  <2> QED BY <1>3, <2>2, <2>3
<1>5. /\ Frames' = Frames /\ Whole' = Whole /\ Size(f)' = Size(f)
      /\ Starts(Bytes, f - 1)' = p /\ Starts(Bytes, (f + 1) - 1)' = Starts(Bytes, (f + 1) - 1)
  <2>1. Bytes' = Bytes
    BY Fixed
  <2> QED BY <2>1, Fixed
<1>6. ASSUME o + n < Size(f) PROVE o + n \in 0..Len(Whole) /\ Position(f, o + n)'
  <2>1. o + n \in 0..Len(Whole)
    BY <1>0, <1>1, <1>2, <1>6
  <2>2. f # Len(Frames) + 1
    BY <1>0, <1>1
  <2>3. (p + o) + n = p + (o + n)
    BY <1>0, <1>2
  <2> HIDE DEF p
  <2>4. Unused' = SubSeq(Whole, p + (o + n) + 1, l)
    BY <1>4, <2>3
  <2> QED BY <1>5, <1>6, <2>1, <2>2, <2>4 DEF Position
<1>7. ASSUME o + n = Size(f) PROVE Position(f + 1, 0)'
  <2>1. (p + o) + n + 1 = Starts(Bytes, f) + 0 + 1 /\ (f + 1) - 1 = f
    BY <1>0, <1>2, <1>7
  <2>2. Starts(Bytes, (f + 1) - 1) = Starts(Bytes, f)
    BY <2>1
  <2>3. Unused' = SubSeq(Whole, Starts(Bytes, (f + 1) - 1) + 0 + 1, l)
    BY <1>4, <2>1, <2>2
  <2>4. f + 1 # Len(Frames) + 1 => f + 1 \in 1..Len(Frames)
    BY <1>0, <1>1
  <2>5. f + 1 # Len(Frames) + 1 => 0 < Size(f + 1)
    BY <2>4, FrameIs
  <2>6. Size(f + 1)' = Size(f + 1)
    BY Fixed
  <2> QED BY <1>5, <2>3, <2>5, <2>6 DEF Position
<1> QED BY <1>1, <1>3, <1>6, <1>7

\* What the parser has become, it is.
LEMMA Lands ==
    ASSUME script' = script, NEW f, NEW o
    PROVE  /\ ParserAt(rx', f, o) => ParserAt(rx, f, o)'
           /\ Spilled(rx, f, o)' = Spilled(rx', f, o)
<1>1. /\ Frames' = Frames /\ (Server' <=> Server)
      /\ KeyAt(f)' = KeyAt(f) /\ DataAt(f)' = DataAt(f) /\ Ext(f)' = Ext(f)
      /\ FrameData(f)' = FrameData(f) /\ (Told(f)' <=> Told(f)) /\ IsBinary(f)' = IsBinary(f)
      /\ IsBinary(f - 1)' = IsBinary(f - 1)
      /\ Stage(f, o)' = Stage(f, o) /\ KeyTo(f, 4)' = KeyTo(f, 4)
      /\ KeyTo(f, o - KeyAt(f))' = KeyTo(f, o - KeyAt(f))
  BY DEF Ext, KeyAt, DataAt, FrameData, Told, IsBinary, Frames, Server, Stage, KeyTo, KeyByte
<1>2. Spilled(rx, f, o)' = Spilled(rx', f, o)
  BY <1>1 DEF Spilled
<1>3. ASSUME ParserAt(rx', f, o) PROVE ParserAt(rx, f, o)'
  <2>1. IsRun(rx)' /\ (rx.at)' = Stage(f, o)' /\ (o > 0 => OfFrame(rx, f)')
        /\ (o > 1 => ((rx.masked)' <=> Server') /\ (Frames[f].op \in Control => Ext(f) = 0)')
    BY <1>1, <1>3 DEF ParserAt, IsRun, OfFrame, IsParser, IsSeq
  <2>2. DataFrom(rx', f, o - DataAt(f)) => DataFrom(rx, f, o - DataAt(f))'
    BY <1>1 DEF DataFrom
  <2>3. HeaderAt(rx', f, o) => HeaderAt(rx, f, o)'
    BY <1>1 DEF HeaderAt
  <2> QED BY <1>1, <1>3, <2>1, <2>2, <2>3 DEF ParserAt
<1> QED BY <1>2, <1>3

\* A fragment has the kind of its message, a message that of its opcode.
LEMMA IsBinaryStep ==
    ASSUME script \in Scripts, NEW f \in 1..Len(Frames)
    PROVE  IsBinary(f) = IF Frames[f].op \in {"text", "binary"} THEN Frames[f].op = "binary"
                         ELSE IsBinary(f - 1)
<1> DEFINE S(k) == {g \in 1..k : Frames[g].op \in {"text", "binary"}}
           Latest(T) == CHOOSE g \in T : \A h \in T : h <= g
<1>0. Len(Frames) \in Nat /\ \A k : IsBinary(k) = (S(k) # {} /\ Frames[Latest(S(k))].op = "binary")
  BY FrameIs DEF IsBinary
<1>1. CASE Frames[f].op \in {"text", "binary"}
  <2>1. f \in S(f) /\ \A h \in S(f) : h <= f
    BY <1>0, <1>1
  <2>2. \A g \in S(f) : (\A h \in S(f) : h <= g) => g = f
    BY <1>0, <2>1
  <2> HIDE DEF S
  <2>3. Latest(S(f)) = f
    BY <2>1, <2>2
  <2> QED BY <1>0, <1>1, <2>1, <2>3
<1>2. CASE Frames[f].op \notin {"text", "binary"}
  <2>1. S(f) = S(f - 1)
    BY <1>0, <1>2
  <2> HIDE DEF S
  <2> QED BY <1>0, <1>2, <2>1
<1> QED BY <1>1, <1>2

-----------------------------------------------------------------------------
(* What a step of the parser leads to *)

\* The parser has all the data of frame f, or its buffer is full of it, with n
\* bytes seen.
SpillAt(p, f, n) ==
    /\ IsRun(p) /\ OfFrame(p, f) /\ (p.masked <=> Server)
    /\ n \in 0..Frames[f].len /\ DataFrom(p, f, n)
    /\ p.at = IF n = Frames[f].len THEN "spill" ELSE "payload"
    /\ Frames[f].len > 0 => Len(p.ubuf) > 0
    /\ Frames[f].op \in Control => Ext(f) = 0 /\ n = Frames[f].len

Fills(p, f, o) ==
    /\ SpillAt(p, f, o - DataAt(f))
    /\ Spilled(rx, f, o - 1) = IF Told(f) THEN o - DataAt(f) - Len(p.ubuf) ELSE 0

\* The parser p has used frame f up to byte o.
Reaches(p, f, o) ==
    IF p.at = "spill" THEN o = Size(f) /\ Fills(p, f, o)
    ELSE o < Size(f) /\ ParserAt(p, f, o) /\ Spilled(p, f, o) = Spilled(rx, f, o - 1)

LEMMA NoPart ==
    ASSUME script \in Scripts, NEW f \in 1..Len(Frames), NEW n \in 0..Frames[f].len
    PROVE  SubSeq(FrameData(f), n + 1, n) = <<>>
<1>1. IsSeq(FrameData(f)) /\ n \in 0..Len(FrameData(f)) /\ n + 1 \in Nat \ {0} /\ ~(n + 1 <= n)
  BY DataIs, FrameIs
<1>2. IsSeq(SubSeq(FrameData(f), n + 1, n)) /\ Len(SubSeq(FrameData(f), n + 1, n)) = 0
  BY <1>1, Part
<1> QED BY <1>2, OnlyNothing

\* The header of a frame is complete: the data follow, if there are any.
LEMMA HeaderDone ==
    ASSUME script \in Scripts, NEW f \in 1..Len(Frames), NEW p,
           IsRun(p), OfFrame(p, f), p.masked <=> Server, Frames[f].op \in Control => Ext(f) = 0,
           p.left = Frames[f].len, p.ubuf = <<>>,
           Server => p.mask = KeyTo(f, 4) /\ (p.zero <=> Frames[f].zero) /\ p.idx = 0,
           p.at = IF Frames[f].len > 0 THEN "payload" ELSE "spill",
           Spilled(rx, f, DataAt(f) - 1) = 0
    PROVE  Reaches(p, f, DataAt(f))
<1>1. /\ Frames[f].len \in Nat /\ KeyAt(f) \in Nat /\ 2 <= KeyAt(f) /\ DataAt(f) \in Nat
      /\ KeyAt(f) <= DataAt(f) /\ Size(f) = DataAt(f) + Frames[f].len
  BY FrameIs DEF Size
<1>2. Len(p.ubuf) = 0
  BY Nothing
<1>3. SubSeq(FrameData(f), 0 + 1, 0) = <<>> /\ 0 \in 0..Frames[f].len
  BY <1>1, NoPart
<1>4. DataFrom(p, f, 0)
  BY <1>1, <1>2, <1>3 DEF DataFrom
<1>5. Stage(f, DataAt(f)) = "payload"
  BY <1>1 DEF Stage
<1>6. 0 < RxBuffer
  BY WsReceiveAssumption
<1>7. CASE Frames[f].len > 0
  <2>1. ParserAt(p, f, DataAt(f))
    BY <1>1, <1>2, <1>4, <1>5, <1>6, <1>7 DEF ParserAt
  <2>2. Spilled(p, f, DataAt(f)) = 0
    BY <1>1, <1>2 DEF Spilled
  <2> QED BY <1>1, <1>7, <2>1, <2>2 DEF Reaches
<1>8. CASE Frames[f].len = 0
  <2>1. SpillAt(p, f, 0)
    BY <1>1, <1>3, <1>4, <1>8 DEF SpillAt
  <2>2. DataAt(f) - DataAt(f) = 0 /\ 0 - 0 = 0
    BY <1>1
  <2>3. Fills(p, f, DataAt(f))
    BY <1>2, <2>1, <2>2 DEF Fills
  <2> QED BY <1>1, <1>8, <2>1, <2>3 DEF Reaches
<1> QED BY <1>1, <1>7, <1>8

\* The length of a frame is complete: its key follows, if it is masked.
LEMMA LengthDone ==
    ASSUME script \in Scripts, NEW f \in 1..Len(Frames), NEW p, NEW x \in BOOLEAN,
           IsRun(p), OfFrame(p, f), p.masked <=> Server, Frames[f].op \in Control => Ext(f) = 0,
           p.left = Frames[f].len, p.ubuf = <<>>,
           Server => p.zero /\ Len(p.mask) \in {0, 4}, p.at = AfterLength(p, x)
    PROVE  Reaches(p, f, KeyAt(f))
<1>1. /\ Frames[f].len \in Nat /\ KeyAt(f) \in Nat /\ 2 <= KeyAt(f) /\ DataAt(f) \in Nat
      /\ DataAt(f) = KeyAt(f) + (IF Server THEN 4 ELSE 0) /\ DataAt(f) <= Size(f)
      /\ Size(f) \in Nat
  BY FrameIs DEF DataAt
<1>2. Spilled(rx, f, KeyAt(f) - 1) = 0
  BY <1>1 DEF Spilled
<1>3. CASE Server
  <2>1. p.at = "key" /\ Stage(f, KeyAt(f)) = "key" /\ KeyAt(f) < Size(f)
    BY <1>1, <1>3 DEF AfterLength, Stage
  <2>2. HeaderAt(p, f, KeyAt(f))
    BY <1>1, <1>3, <2>1 DEF HeaderAt
  <2>3. ParserAt(p, f, KeyAt(f))
    BY <1>1, <2>1, <2>2 DEF ParserAt
  <2>4. Spilled(p, f, KeyAt(f)) = 0
    BY <1>1, <1>3 DEF Spilled
  <2> QED BY <1>2, <2>1, <2>3, <2>4 DEF Reaches
<1>4. CASE ~Server
  <2>1. KeyAt(f) = DataAt(f)
    BY <1>1, <1>4
  <2>2. p.at = IF Frames[f].len > 0 THEN "payload" ELSE "spill"
    BY <1>4 DEF AfterLength
  <2> QED BY <1>2, <1>4, <2>1, <2>2, HeaderDone
<1> QED BY <1>3, <1>4

\* A byte that is not refused moves the parser on.
LEMMA OpcodeStep ==
    ASSUME script \in Scripts, NEW f \in 1..Len(Frames), ParserAt(rx, f, 0),
           NEW b, b = EncodeFrame(f)[1], Opcode(b)
    PROVE  Illegal \/ \E p : Reaches(p, f, 1) /\ Continue(p)
<1>3. b.op = Frames[f].op
  <2>1. b = [op |-> Frames[f].op, fin |-> Frames[f].fin]
    BY FrameBytes
  <2> QED BY ONLY <2>1
<1>a. PICK z : z = (Server \/ rx.zero)
  OBVIOUS
<1>b. PICK k : k = IF b.op \in {"text", "binary"} THEN b.op = "binary" ELSE rx.binary
  OBVIOUS
<1>c. PICK m : m = IF b.op \in Data THEN ~b.fin ELSE rx.more
  OBVIOUS
<1>d. PICK w : w = IF b.op \in Data THEN ~b.fin ELSE rx.owed
  OBVIOUS
<1> DEFINE p == [rx EXCEPT !.at = "len", !.op = b.op, !.zero = z, !.binary = k, !.more = m, !.owed = w]
<1> SUFFICES ASSUME ~Illegal PROVE \E q : Reaches(q, f, 1) /\ Continue(q)
  OBVIOUS
<1>1. rx' = p /\ Use(1) /\ Quiet
  BY <1>a, <1>b, <1>c, <1>d DEF Opcode
<1>2. IsRun(rx) /\ HeaderAt(rx, f, 0)
  <2>1. Stage(f, 0) = "op"
    BY DEF Stage
  <2> QED BY <2>1 DEF ParserAt
<1>4. /\ IsParser(p) /\ p.at = "len" /\ p.op = b.op /\ p.zero = z /\ p.binary = k
      /\ p.ubuf = rx.ubuf /\ p.mask = rx.mask
  <2>1. IsParser(rx)
    BY <1>2 DEF IsRun
  <2>2. p = [rx EXCEPT !.at = "len", !.op = b.op, !.zero = z, !.binary = k, !.more = m, !.owed = w]
    OBVIOUS
  <2> HIDE DEF p
  <2> QED BY ONLY <2>1, <2>2 DEF IsParser
<1> HIDE DEF p
<1>5. IsRun(p) /\ (Server => p.zero)
  <2>1. z \in BOOLEAN /\ (Server => z) /\ (~Server => ~z)
    BY <1>2, <1>a DEF IsRun
  <2> QED BY <1>2, <1>4, <2>1 DEF IsRun
<1>6. p.binary = IsBinary(f)
  <2>1. k = IsBinary(f)
    <3>1. rx.binary = IsBinary(f - 1)
      BY <1>2 DEF HeaderAt
    <3> QED BY <1>3, <1>b, <3>1, IsBinaryStep
  <2> QED BY <1>4, <2>1
<1>7. 1 < KeyAt(f) /\ 1 < DataAt(f) /\ 1 < Size(f) /\ KeyAt(f) \in Nat /\ Stage(f, 1) = "len"
  BY FrameIs DEF Stage
<1>8. HeaderAt(p, f, 1)
  BY <1>2, <1>4, <1>5, <1>7 DEF HeaderAt
<1>9. ParserAt(p, f, 1)
  BY <1>3, <1>4, <1>5, <1>6, <1>7, <1>8 DEF ParserAt, OfFrame
<1>10. Spilled(p, f, 1) = 0 /\ Spilled(rx, f, 1 - 1) = 0
  BY <1>7 DEF Spilled
<1>11. Reaches(p, f, 1)
  BY <1>4, <1>7, <1>9, <1>10 DEF Reaches
<1>12. Continue(p)
  BY <1>1, <1>4 DEF Continue
<1> QED BY <1>11, <1>12

LEMMA LengthStep ==
    ASSUME script \in Scripts, NEW f \in 1..Len(Frames), ParserAt(rx, f, 1),
           NEW b, b = EncodeFrame(f)[2], Length(b)
    PROVE  Illegal \/ \E p : Reaches(p, f, 2) /\ Continue(p)
<1>3. (b.masked <=> Server) /\ b.ext = Ext(f) /\ b.len = IF Ext(f) = 0 THEN Frames[f].len ELSE 0
  <2>1. b = [masked |-> Server, ext |-> Ext(f), len |-> IF Ext(f) = 0 THEN Frames[f].len ELSE 0]
    BY FrameBytes
  <2> QED BY ONLY <2>1
<1> DEFINE q == [rx EXCEPT !.masked = b.masked, !.left = b.len, !.digits = b.ext]
           p == [q EXCEPT !.at = IF b.ext > 0 THEN "ext" ELSE AfterLength(q, FALSE)]
<1> SUFFICES ASSUME ~Illegal PROVE \E r : Reaches(r, f, 2) /\ Continue(r)
  OBVIOUS
<1>1. ~(b.ext > 0 /\ rx.op \in Control) /\ Continue(p)
  BY DEF Length
<1>2. IsRun(rx) /\ HeaderAt(rx, f, 1) /\ OfFrame(rx, f)
  <2>1. Stage(f, 1) = "len"
    BY DEF Stage
  <2> QED BY <2>1 DEF ParserAt
<1>4. /\ Frames[f].len \in Nat /\ Ext(f) \in {0, 2, 8} /\ KeyAt(f) = 2 + Ext(f)
      /\ KeyAt(f) <= DataAt(f) /\ DataAt(f) <= Size(f) /\ DataAt(f) \in Nat /\ Size(f) \in Nat
      /\ Ext(f) # 0 => Quotient(Frames[f].len)[Ext(f)] = 0
  BY FrameIs DEF KeyAt
<1>5. Frames[f].op \in Control => Ext(f) = 0
  BY <1>1, <1>2, <1>3, <1>4 DEF OfFrame
<1>6. AfterLength(q, FALSE) = AfterLength(p, FALSE)
  BY <1>2 DEF AfterLength, IsRun, IsParser
<1>7. /\ IsParser(p) /\ p.op = rx.op /\ p.binary = rx.binary /\ p.masked = b.masked
      /\ p.left = b.len /\ p.digits = b.ext /\ p.mask = rx.mask /\ p.zero = rx.zero
      /\ p.ubuf = rx.ubuf /\ p.at = IF b.ext > 0 THEN "ext" ELSE AfterLength(p, FALSE)
  <2>1. p.at = IF b.ext > 0 THEN "ext" ELSE AfterLength(q, FALSE)
    BY <1>2 DEF IsRun, IsParser
  <2>2. IsParser(p)
    <3> DEFINE t == IF b.ext > 0 THEN "ext" ELSE AfterLength(q, FALSE)
    <3>1. p = [rx EXCEPT !.masked = b.masked, !.left = b.len, !.digits = b.ext, !.at = t]
      BY <1>2 DEF IsRun, IsParser
    <3> HIDE DEF t, p
    <3> QED BY <1>2, <3>1 DEF IsRun, IsParser
  <2>3. /\ p.op = rx.op /\ p.binary = rx.binary /\ p.masked = b.masked
        /\ p.left = b.len /\ p.digits = b.ext /\ p.mask = rx.mask /\ p.zero = rx.zero
        /\ p.ubuf = rx.ubuf
    BY <1>2 DEF IsRun, IsParser
  <2> HIDE DEF p, q
  <2> QED BY <1>6, <2>1, <2>2, <2>3
<1> HIDE DEF p, q
<1>8. IsRun(p) /\ OfFrame(p, f) /\ p.ubuf = <<>>
  BY <1>2, <1>7 DEF IsRun, OfFrame, HeaderAt
<1>9. Server => p.zero /\ Len(p.mask) \in {0, 4}
  BY <1>2, <1>4, <1>7 DEF HeaderAt
<1>10. Reaches(p, f, 2)
  <2>1. CASE Ext(f) = 0
    <3>1. p.at = AfterLength(p, FALSE) /\ p.left = Frames[f].len /\ KeyAt(f) = 2
      BY <1>3, <1>4, <1>7, <2>1
    <3>2. FALSE \in BOOLEAN /\ (p.masked <=> Server)
      BY <1>3, <1>7
    <3>3. Reaches(p, f, KeyAt(f))
      BY <1>5, <1>8, <1>9, <3>1, <3>2, LengthDone
    <3> QED BY <3>1, <3>3
  <2>2. CASE Ext(f) # 0
    <3>0. p.at = "ext" /\ 2 < KeyAt(f) /\ 2 < DataAt(f) /\ 2 < Size(f)
      <4>1. Ext(f) \in Nat /\ Ext(f) > 0
        BY <1>4, <2>2
      <4>2. p.at = "ext"
        BY <1>3, <1>7, <4>1
      <4>3. 2 < KeyAt(f) /\ KeyAt(f) \in Nat
        BY <1>4, <4>1
      <4> QED BY ONLY <1>4, <4>2, <4>3
    <3>1. p.at = "ext" /\ 2 < KeyAt(f) /\ Stage(f, 2) = "ext" /\ 2 < DataAt(f) /\ 2 < Size(f)
      BY <3>0 DEF Stage
    <3>2. KeyAt(f) - 2 = Ext(f) /\ p.left = 0 /\ p.digits = Ext(f)
      BY <1>3, <1>4, <1>7, <2>2
    <3>3. HeaderAt(p, f, 2)
      BY <1>4, <1>8, <1>9, <2>2, <3>1, <3>2 DEF HeaderAt
    <3>4. ParserAt(p, f, 2)
      BY <1>3, <1>5, <1>7, <1>8, <3>1, <3>3 DEF ParserAt
    <3>5. Spilled(p, f, 2) = 0 /\ Spilled(rx, f, 2 - 1) = 0
      BY <1>4, <3>1 DEF Spilled
    <3> QED BY <3>1, <3>4, <3>5 DEF Reaches
  <2> QED BY <2>1, <2>2
<1> QED BY <1>1, <1>10

LEMMA ExtendedStep ==
    ASSUME script \in Scripts, NEW f \in 1..Len(Frames), NEW o \in Nat, o < Size(f),
           ParserAt(rx, f, o), rx.at = "ext", NEW b, b = EncodeFrame(f)[o + 1], ExtendedLength(b)
    PROVE  \E p : Reaches(p, f, o + 1) /\ Continue(p)
<1> DEFINE len == Frames[f].len
           d == KeyAt(f) - (o + 1)
<1>0. /\ len \in Nat /\ Ext(f) \in {0, 2, 8} /\ KeyAt(f) = 2 + Ext(f)
      /\ KeyAt(f) <= DataAt(f) /\ DataAt(f) <= Size(f) /\ DataAt(f) \in Nat /\ Size(f) \in Nat
      /\ KeyAt(f) \in Nat
  BY FrameIs DEF KeyAt
<1>1. Stage(f, o) = "ext" /\ o > 1 /\ o < KeyAt(f)
  BY DEF ParserAt, Stage
<1>2. IsRun(rx) /\ HeaderAt(rx, f, o) /\ OfFrame(rx, f) /\ (rx.masked <=> Server)
      /\ (Frames[f].op \in Control => Ext(f) = 0)
  BY <1>1 DEF ParserAt
<1>3. /\ d \in Nat /\ d \in 0..7 /\ d + 1 \in 1..8 /\ KeyAt(f) - o = d + 1 /\ (d + 1) - 1 = d
      /\ o - 1 \in 1..Ext(f) /\ 2 + (o - 1) = o + 1 /\ Ext(f) - (o - 1) = d
  <2>1. Ext(f) \in Nat /\ Ext(f) <= 8
    BY <1>0
  <2>2. o - 1 \in 1..Ext(f) /\ 2 + (o - 1) = o + 1 /\ Ext(f) - (o - 1) = d
    BY <1>0, <1>1, <2>1
  <2>3. d \in Nat /\ d <= 7
    BY <1>0, <1>1, <2>1
  <2>4. KeyAt(f) - o = d + 1
    BY <1>0
  <2> HIDE DEF d
  <2>5. d \in 0..7 /\ d + 1 \in 1..8 /\ (d + 1) - 1 = d
    BY <2>3
  <2> QED BY <2>2, <2>3, <2>4, <2>5
<1>4. b.digit = Quotient(len)[d] % Radix
  <2>1. EncodeFrame(f)[2 + (o - 1)] = [digit |-> Quotient(len)[Ext(f) - (o - 1)] % Radix]
    BY <1>3, FrameBytes
  <2>2. b = [digit |-> Quotient(len)[d] % Radix]
    BY <1>3, <2>1
  <2> QED BY ONLY <2>2
<1>5. rx.digits = d + 1 /\ rx.left = Quotient(len)[d + 1]
  BY <1>1, <1>2, <1>3 DEF HeaderAt
<1>6. rx.left * Radix + b.digit = Quotient(len)[d] /\ rx.digits - 1 = d
  <2>1. Quotient(len)[d + 1] = Quotient(len)[d] \div Radix /\ Quotient(len)[d] \in Nat
    <3>1. /\ \A k \in 0..8 : Quotient(len)[k] \in Nat
          /\ \A k \in 1..8 : Quotient(len)[k] = Quotient(len)[k - 1] \div Radix
      BY <1>0, QuotientIs
    <3>2. d \in 0..8
      BY <1>3
    <3> HIDE DEF d, len
    <3>3. Quotient(len)[d + 1] = Quotient(len)[(d + 1) - 1] \div Radix
      BY <1>3, <3>1
    <3> QED BY <1>3, <3>1, <3>2, <3>3
  <2> HIDE DEF d, len
  <2>2. (Quotient(len)[d] \div Radix) * Radix + (Quotient(len)[d] % Radix) = Quotient(len)[d]
    BY <2>1, Divided
  <2>3. rx.left * Radix + b.digit = Quotient(len)[d]
    BY <1>4, <1>5, <2>1, <2>2
  <2> QED BY <1>3, <1>5, <2>3
<1> DEFINE q == [rx EXCEPT !.left = @ * Radix + b.digit, !.digits = @ - 1]
           p == [q EXCEPT !.at = IF q.digits > 0 THEN "ext" ELSE AfterLength(q, TRUE)]
<1>7. Continue(p)
  BY DEF ExtendedLength
<1>8. IsParser(rx)
  BY <1>2 DEF IsRun
<1>9. q = [rx EXCEPT !.left = Quotient(len)[d], !.digits = d]
  <2> HIDE DEF d, len
  <2> QED BY <1>6
<1>10. PICK t : t = IF q.digits > 0 THEN "ext" ELSE AfterLength(q, TRUE)
  OBVIOUS
<1>11. p = [q EXCEPT !.at = t]
  BY <1>10
<1>12. PICK l : l = Quotient(len)[d]
  OBVIOUS
<1> HIDE DEF p, d, len, q
<1>13. /\ IsParser(q) /\ q.left = l /\ q.digits = d /\ q.op = rx.op /\ q.binary = rx.binary
       /\ q.masked = rx.masked /\ q.mask = rx.mask /\ q.zero = rx.zero /\ q.ubuf = rx.ubuf
  <2>1. q = [rx EXCEPT !.left = l, !.digits = d]
    BY <1>9, <1>12
  <2> QED BY ONLY <1>8, <2>1 DEF IsParser
<1>14. /\ IsParser(p) /\ p.at = t /\ p.left = l /\ p.digits = d /\ p.op = rx.op /\ p.binary = rx.binary
       /\ p.masked = rx.masked /\ p.mask = rx.mask /\ p.zero = rx.zero /\ p.ubuf = rx.ubuf
  <2>1. /\ IsParser(p) /\ p.at = t /\ p.left = q.left /\ p.digits = q.digits /\ p.op = q.op
        /\ p.binary = q.binary /\ p.masked = q.masked /\ p.mask = q.mask /\ p.zero = q.zero
        /\ p.ubuf = q.ubuf
    BY ONLY <1>11, <1>13 DEF IsParser
  <2> QED BY ONLY <1>13, <2>1
<1>15. t = IF d > 0 THEN "ext" ELSE AfterLength(p, TRUE)
  BY <1>10, <1>13, <1>14 DEF AfterLength
<1>16. IsRun(p) /\ OfFrame(p, f) /\ p.ubuf = <<>> /\ (p.masked <=> Server)
  BY <1>2, <1>14 DEF IsRun, OfFrame, HeaderAt
<1>17. Server => p.zero /\ Len(p.mask) \in {0, 4}
  BY <1>0, <1>1, <1>2, <1>14 DEF HeaderAt
<1>18. CASE d = 0
  <2>1. o + 1 = KeyAt(f) /\ Quotient(len)[0] = len
    BY <1>0, <1>18, QuotientIs DEF d
  <2>2. p.at = AfterLength(p, TRUE) /\ p.left = Frames[f].len /\ TRUE \in BOOLEAN
    BY <1>12, <1>14, <1>15, <1>18, <2>1 DEF len
  <2>3. Reaches(p, f, KeyAt(f))
    BY <1>2, <1>16, <1>17, <2>2, LengthDone
  <2> QED BY <1>7, <2>1, <2>3
<1>19. CASE d # 0
  <2>1. /\ p.at = "ext" /\ o + 1 < KeyAt(f) /\ o + 1 > 1 /\ o + 1 # 0 /\ o + 1 # 1
        /\ o + 1 < DataAt(f) /\ o + 1 < Size(f) /\ o < DataAt(f) /\ KeyAt(f) - (o + 1) = d
        /\ (o + 1) - 1 = o
    <3>1. d > 0 /\ p.at = "ext"
      <4>1. d > 0
        BY <1>3, <1>19
      <4>2. t = "ext"
        BY <1>15, <4>1
      <4> QED BY <1>14, <4>1, <4>2
    <3>2. KeyAt(f) - (o + 1) > 0 /\ KeyAt(f) - (o + 1) = d
      BY <3>1 DEF d
    <3> QED BY <1>0, <1>1, <3>1, <3>2
  <2>2. Stage(f, o + 1) = "ext"
    BY <2>1 DEF Stage
  <2>3. HeaderAt(p, f, o + 1)
    BY <1>0, <1>12, <1>14, <1>16, <1>17, <2>1, <2>2 DEF HeaderAt, len
  <2>4. ParserAt(p, f, o + 1)
    BY <1>2, <1>16, <2>1, <2>2, <2>3 DEF ParserAt
  <2>5. Spilled(p, f, o + 1) = 0 /\ Spilled(rx, f, (o + 1) - 1) = 0
    BY <2>1 DEF Spilled
  <2>6. Reaches(p, f, o + 1)
    BY <2>1, <2>4, <2>5 DEF Reaches
  <2> QED BY <1>7, <2>6
<1> QED BY <1>18, <1>19

LEMMA KeyToIs ==
    ASSUME NEW f, NEW k \in Nat
    PROVE  /\ IsSeq(KeyTo(f, k)) /\ Len(KeyTo(f, k)) = k
           /\ \A i \in 1..k : KeyTo(f, k)[i] = KeyByte(f, i - 1)
           /\ Append(KeyTo(f, k), KeyByte(f, k)) = KeyTo(f, k + 1)
<1>1. ASSUME NEW n \in Nat
      PROVE  /\ IsSeq(KeyTo(f, n)) /\ Len(KeyTo(f, n)) = n
             /\ \A i \in 1..n : KeyTo(f, n)[i] = KeyByte(f, i - 1)
  <2>1. KeyTo(f, n) = [i \in 1..n |-> KeyTo(f, n)[i]] /\ \A i \in 1..n : KeyTo(f, n)[i] = KeyByte(f, i - 1)
    BY DEF KeyTo
  <2> QED BY <2>1, Built
<1>2. k + 1 \in Nat /\ (k + 1) - 1 = k
  OBVIOUS
<1> DEFINE s == KeyTo(f, k)
           t == KeyTo(f, k + 1)
           e == KeyByte(f, k)
<1>3. IsSeq(s) /\ Len(s) = k /\ IsSeq(t) /\ Len(t) = k + 1
      /\ (\A i \in 1..k : s[i] = KeyByte(f, i - 1)) /\ (\A i \in 1..(k + 1) : t[i] = KeyByte(f, i - 1))
  BY <1>1, <1>2
<1> HIDE DEF s, t
<1>4. IsSeq(Append(s, e)) /\ Len(Append(s, e)) = k + 1 /\ (\A i \in 1..k : Append(s, e)[i] = s[i])
      /\ Append(s, e)[k + 1] = e
  BY <1>3, Added
<1>5. ASSUME NEW i \in 1..(k + 1) PROVE Append(s, e)[i] = t[i]
  <2>1. CASE i = k + 1
    BY <1>2, <1>3, <1>4, <2>1
  <2>2. CASE i # k + 1
    <3>1. i \in 1..k
      BY <2>2
    <3> QED BY <1>3, <1>4, <3>1
  <2> QED BY <2>1, <2>2
<1>6. Append(s, e) = t
  BY <1>3, <1>4, <1>5, SameSeq
<1> QED BY <1>1, <1>6 DEF s, t

LEMMA KeyStep ==
    ASSUME script \in Scripts, NEW f \in 1..Len(Frames), NEW o \in Nat, o < Size(f),
           ParserAt(rx, f, o), rx.at = "key", NEW b, b = EncodeFrame(f)[o + 1], Key(b)
    PROVE  \E p : Reaches(p, f, o + 1) /\ Continue(p)
<1> DEFINE k == o - KeyAt(f)
<1>0. /\ Frames[f].len \in Nat /\ KeyAt(f) \in Nat /\ 2 <= KeyAt(f) /\ DataAt(f) \in Nat
      /\ DataAt(f) = KeyAt(f) + (IF Server THEN 4 ELSE 0) /\ DataAt(f) <= Size(f) /\ Size(f) \in Nat
      /\ Frames[f].zero \in BOOLEAN
  BY FrameIs DEF DataAt
<1>1. Stage(f, o) = "key" /\ o > 1 /\ ~(o < KeyAt(f)) /\ o < DataAt(f)
  BY DEF ParserAt, Stage
<1>2. IsRun(rx) /\ HeaderAt(rx, f, o) /\ OfFrame(rx, f) /\ (rx.masked <=> Server)
      /\ (Frames[f].op \in Control => Ext(f) = 0)
  BY <1>1 DEF ParserAt
<1>3. Server /\ k \in Nat /\ k \in 0..3 /\ k + 1 \in 1..4 /\ KeyAt(f) + (k + 1) = o + 1 /\ (k + 1) - 1 = k
      /\ KeyAt(f) + k = o
  BY ONLY <1>0, <1>1, o \in Nat, SMTT(30) DEF k
<1>4. b.key = KeyByte(f, k)
  <2>1. EncodeFrame(f)[KeyAt(f) + (k + 1)] = [key |-> KeyByte(f, (k + 1) - 1)]
    <3>1. \A i \in 1..4 : EncodeFrame(f)[KeyAt(f) + i] = [key |-> KeyByte(f, i - 1)]
      BY <1>3, FrameBytes
    <3> HIDE DEF k
    <3> QED BY <1>3, <3>1
  <2>2. b = [key |-> KeyByte(f, k)]
    BY <1>3, <2>1
  <2> QED BY ONLY <2>2
<1>5. (KeyByte(f, k) = <<>>) <=> Frames[f].zero
  <2>1. <<f, k % 4>> # <<>>
    OBVIOUS
  <2> QED BY <1>3, <2>1 DEF KeyByte
<1>6. PICK m : m = IF Len(rx.mask) = 4 THEN <<b.key>> ELSE Append(rx.mask, b.key)
  OBVIOUS
<1>7. PICK z : z = (rx.zero /\ b.key = <<>>)
  OBVIOUS
<1>8. m = KeyTo(f, k + 1)
  <2>1. Append(KeyTo(f, k), KeyByte(f, k)) = KeyTo(f, k + 1) /\ IsSeq(KeyTo(f, k)) /\ Len(KeyTo(f, k)) = k
    BY <1>3, KeyToIs
  <2>2. CASE k = 0
    <3>1. KeyTo(f, k) = <<>>
      BY <2>1, <2>2, OnlyNothing
    <3>2. KeyTo(f, k + 1) = <<b.key>> /\ Append(<<>>, b.key) = <<b.key>>
      BY <1>4, <2>1, <3>1, AddedToNothing
    <3>3. Len(rx.mask) \in {0, 4} /\ IsSeq(rx.mask)
      BY <1>0, <1>2, <1>3, <2>2 DEF HeaderAt, IsRun
    <3>4. Len(rx.mask) = 0 => rx.mask = <<>>
      BY <3>3, OnlyNothing
    <3>5. m = <<b.key>>
      BY <1>6, <3>2, <3>3, <3>4
    <3> QED BY <3>2, <3>5
  <2>3. CASE k # 0
    <3>1. o > 0 /\ o > KeyAt(f)
      BY <1>0, <1>1, <1>3, <2>3
    <3>2. rx.mask = KeyTo(f, k)
      BY <1>2, <3>1 DEF HeaderAt
    <3>3. Len(rx.mask) # 4
      <4>1. Len(rx.mask) = k /\ k <= 3 /\ k \in Nat
        BY <1>3, <2>1, <3>2
      <4> QED BY ONLY <4>1
    <3> QED BY <1>4, <1>6, <2>1, <3>2, <3>3
  <2> QED BY <2>2, <2>3
<1>9. z \in BOOLEAN /\ (z <=> Frames[f].zero)
  <2>1. CASE k = 0
    <3>1. rx.zero
      BY <1>0, <1>1, <1>2, <1>3, <2>1 DEF HeaderAt
    <3> QED BY <1>4, <1>5, <1>7, <3>1
  <2>2. CASE k # 0
    <3>1. o > 0 /\ o > KeyAt(f)
      BY <1>0, <1>1, <1>3, <2>2
    <3>2. rx.zero <=> Frames[f].zero
      BY <1>2, <3>1 DEF HeaderAt
    <3> QED BY <1>4, <1>5, <1>7, <3>2
  <2> QED BY <2>1, <2>2
<1> DEFINE q == [rx EXCEPT !.mask = IF Len(@) = 4 THEN <<b.key>> ELSE Append(@, b.key),
                           !.idx = IF Server THEN 0 ELSE @, !.zero = @ /\ b.key = <<>>]
           p == [q EXCEPT !.at = IF Len(q.mask) < 4 THEN "key"
                                 ELSE IF q.left > 0 THEN "payload" ELSE "spill"]
<1>10. Continue(p)
  BY DEF Key
<1>11. IsParser(rx) /\ rx.left = Frames[f].len /\ rx.ubuf = <<>>
  BY <1>1, <1>2 DEF IsRun, HeaderAt
<1>12. q = [rx EXCEPT !.mask = m, !.idx = 0, !.zero = z]
  BY <1>3, <1>6, <1>7
<1>13. PICK t : t = IF Len(q.mask) < 4 THEN "key" ELSE IF q.left > 0 THEN "payload" ELSE "spill"
  OBVIOUS
<1>14. p = [q EXCEPT !.at = t]
  BY <1>13
<1> HIDE DEF p, q, k
<1>15. /\ IsParser(q) /\ q.mask = m /\ q.idx = 0 /\ q.zero = z /\ q.left = rx.left /\ q.op = rx.op
       /\ q.binary = rx.binary /\ q.masked = rx.masked /\ q.ubuf = rx.ubuf
  BY ONLY <1>11, <1>12 DEF IsParser
<1>16. /\ IsParser(p) /\ p.at = t /\ p.mask = m /\ p.idx = 0 /\ p.zero = z /\ p.left = rx.left
       /\ p.op = rx.op /\ p.binary = rx.binary /\ p.masked = rx.masked /\ p.ubuf = rx.ubuf
  <2>1. /\ IsParser(p) /\ p.at = t /\ p.mask = q.mask /\ p.idx = q.idx /\ p.zero = q.zero /\ p.left = q.left
        /\ p.op = q.op /\ p.binary = q.binary /\ p.masked = q.masked /\ p.ubuf = q.ubuf
    BY ONLY <1>14, <1>15 DEF IsParser
  <2> QED BY ONLY <1>15, <2>1
<1>17. IsSeq(m) /\ Len(m) = k + 1
  <2>1. k + 1 \in Nat
    BY <1>3
  <2> QED BY <1>8, <2>1, KeyToIs
<1>18. IsRun(p) /\ OfFrame(p, f) /\ p.ubuf = <<>> /\ (p.masked <=> Server) /\ p.left = Frames[f].len
  BY <1>2, <1>3, <1>9, <1>11, <1>16, <1>17 DEF IsRun, OfFrame
<1>19. t = IF k + 1 < 4 THEN "key" ELSE IF Frames[f].len > 0 THEN "payload" ELSE "spill"
  BY <1>11, <1>13, <1>15, <1>17
<1>20. CASE k = 3
  <2>1. o + 1 = DataAt(f) /\ k + 1 = 4 /\ DataAt(f) - 1 = o /\ ~(k + 1 < 4)
    BY <1>0, <1>3, <1>20
  <2>2. p.at = IF Frames[f].len > 0 THEN "payload" ELSE "spill"
    BY <1>16, <1>19, <2>1
  <2>3. p.mask = KeyTo(f, 4) /\ (p.zero <=> Frames[f].zero) /\ p.idx = 0
    BY <1>8, <1>9, <1>16, <2>1
  <2>4. Spilled(rx, f, DataAt(f) - 1) = 0
    BY <1>1, <2>1 DEF Spilled
  <2>5. Reaches(p, f, DataAt(f))
    BY <1>2, <1>18, <2>2, <2>3, <2>4, HeaderDone
  <2> QED BY <1>10, <2>1, <2>5
<1>21. CASE k # 3
  <2>1. /\ k + 1 < 4 /\ o + 1 < DataAt(f) /\ o + 1 > 1 /\ o + 1 # 0 /\ o + 1 # 1 /\ ~(o + 1 < KeyAt(f))
        /\ o + 1 > KeyAt(f) /\ (o + 1) - KeyAt(f) = k + 1 /\ o + 1 < Size(f) /\ (o + 1) - 1 = o
        /\ ~(o + 1 <= KeyAt(f)) /\ o + 1 > 0
    <3>1. k <= 2 /\ k \in Nat
      BY <1>3, <1>21
    <3>2. DataAt(f) = KeyAt(f) + 4 /\ o = KeyAt(f) + k
      BY <1>0, <1>3
    <3>3. KeyAt(f) \in Nat /\ 2 <= KeyAt(f) /\ DataAt(f) <= Size(f) /\ Size(f) \in Nat
      BY <1>0
    <3> QED BY ONLY <3>1, <3>2, <3>3
  <2>2. Stage(f, o + 1) = "key" /\ p.at = "key"
    BY <1>16, <1>19, <2>1 DEF Stage
  <2>3. HeaderAt(p, f, o + 1)
    BY <1>8, <1>9, <1>16, <1>18, <2>1, <2>2 DEF HeaderAt
  <2>4. ParserAt(p, f, o + 1)
    BY <1>2, <1>18, <2>1, <2>2, <2>3 DEF ParserAt
  <2>5. Spilled(p, f, o + 1) = 0 /\ Spilled(rx, f, (o + 1) - 1) = 0
    BY <1>1, <2>1 DEF Spilled
  <2>6. Reaches(p, f, o + 1)
    BY <2>1, <2>2, <2>4, <2>5 DEF Reaches
  <2> QED BY <1>10, <2>6
<1> QED BY <1>20, <1>21

\* A byte of the data is unmasked with the byte of the key it was masked with.
LEMMA Unmasks ==
    ASSUME script \in Scripts, NEW f \in 1..Len(Frames), NEW n \in Nat, NEW i \in Nat \ {0},
           IsRun(rx), DataFrom(rx, f, n), rx.masked <=> Server,
           NEW b, b = [v |-> <<f, n + i>>, by |-> KeyByte(f, n + i - 1)],
           NEW j, ~Plain => j = rx.idx + i - 1
    PROVE  Unmasked(b, j) = <<f, n + i>>
<1>1. b.v = <<f, n + i>> /\ b.by = KeyByte(f, n + i - 1)
  OBVIOUS
<1>2. CASE Plain
  <2>1. ~Server \/ Frames[f].zero
    BY <1>2 DEF Plain, DataFrom
  <2>2. KeyByte(f, n + i - 1) = <<>>
    BY <2>1 DEF KeyByte
  <2> QED BY <1>1, <1>2, <2>2 DEF Unmasked
<1>3. CASE ~Plain
  <2>1. Server /\ ~Frames[f].zero /\ rx.idx = n % 4 /\ rx.mask = KeyTo(f, 4)
    BY <1>3 DEF Plain, DataFrom, IsRun
  <2>2. j = (n % 4) + i - 1
    BY <1>3, <2>1
  <2>3. j % 4 = (n + i - 1) % 4 /\ j % 4 \in 0..3
    BY <2>2
  <2>4. \A k \in 1..4 : KeyTo(f, 4)[k] = KeyByte(f, k - 1)
    BY KeyToIs
  <2>5. (j % 4) + 1 \in 1..4 /\ ((j % 4) + 1) - 1 = j % 4 /\ (j % 4) % 4 = j % 4
    BY <2>3
  <2>6. rx.mask[(j % 4) + 1] = KeyByte(f, j % 4)
    BY <2>1, <2>4, <2>5
  <2>7. KeyByte(f, j % 4) = <<f, j % 4>> /\ KeyByte(f, n + i - 1) = <<f, j % 4>>
    BY <2>1, <2>3, <2>5 DEF KeyByte
  <2>8. b.by = rx.mask[(j % 4) + 1]
    BY <1>1, <2>6, <2>7
  <2> QED BY <1>1, <1>3, <2>8 DEF Unmasked
<1> QED BY <1>2, <1>3

\* k more bytes of the data are in the buffer.
LEMMA Grown ==
    ASSUME script \in Scripts, NEW f \in 1..Len(Frames), NEW n \in Nat, NEW k \in Nat,
           n + k <= Frames[f].len, IsRun(rx), DataFrom(rx, f, n),
           NEW w, IsSeq(w), Len(w) = Len(rx.ubuf) + k,
           \A i \in 1..Len(rx.ubuf) : w[i] = rx.ubuf[i],
           \A i \in 1..k : w[Len(rx.ubuf) + i] = <<f, n + i>>
    PROVE  w = SubSeq(FrameData(f), (n + k) - Len(w) + 1, n + k)
<1>a. PICK u : u = rx.ubuf
  OBVIOUS
<1>b. /\ IsSeq(u) /\ Len(u) <= n /\ u = SubSeq(FrameData(f), n - Len(u) + 1, n)
      /\ Len(w) = Len(u) + k /\ (\A i \in 1..Len(u) : w[i] = u[i])
      /\ \A i \in 1..k : w[Len(u) + i] = <<f, n + i>>
  BY <1>a DEF IsRun, DataFrom
<1> DEFINE l == Len(u)
           d == FrameData(f)
           a == n - l
           x == SubSeq(d, a + 1, n + k)
<1>0. /\ Frames[f].len \in Nat /\ IsSeq(d) /\ Len(d) = Frames[f].len
      /\ \A i \in 1..Frames[f].len : d[i] = <<f, i>>
  BY FrameIs, DataIs
<1>1. l \in Nat /\ a \in Nat /\ n = a + l
  <2>1. Len(u) \in Nat /\ Len(u) <= n
    BY <1>b DEF IsSeq
  <2> QED BY ONLY <2>1, n \in Nat DEF l, a
<1>2. (n + k) - Len(w) + 1 = a + 1 /\ a + 1 \in Nat \ {0} /\ n \in 0..Len(d) /\ n + k \in 0..Len(d)
  <2>1. Len(w) = l + k /\ n + k <= Len(d) /\ Len(d) \in Nat
    BY <1>0, <1>b
  <2> HIDE DEF d, l, a
  <2>2. a + 1 \in Nat \ {0} /\ n \in 0..Len(d) /\ n + k \in 0..Len(d)
    BY ONLY <1>1, <2>1, n \in Nat, k \in Nat
  <2>3. (n + k) - Len(w) + 1 = a + 1
    <3>1. (n + k) - (l + k) + 1 = a + 1
      BY ONLY <1>1, k \in Nat, n \in Nat
    <3> QED BY <2>1, <3>1
  <2> QED BY <2>2, <2>3
<1> HIDE DEF d
<1>3. u = SubSeq(d, a + 1, n)
  BY <1>b DEF d
<1>4. \A i \in 1..(n - (a + 1) + 1) : SubSeq(d, a + 1, n)[i] = d[(a + 1) + i - 1]
  BY <1>0, <1>2, Part
<1>5. /\ IsSeq(x) /\ Len(x) = IF a + 1 <= n + k THEN (n + k) - (a + 1) + 1 ELSE 0
      /\ \A i \in 1..((n + k) - (a + 1) + 1) : x[i] = d[(a + 1) + i - 1]
  BY <1>0, <1>2, Part
<1> HIDE DEF l, a, x
<1>6. Len(x) = l + k /\ (n + k) - (a + 1) + 1 = l + k /\ n - (a + 1) + 1 = l
  BY <1>1, <1>5
<1>7. ASSUME NEW i \in 1..(l + k) PROVE w[i] = x[i]
  <2>1. (a + 1) + i - 1 = a + i
    BY <1>1
  <2>2. x[i] = d[a + i]
    BY <1>5, <1>6, <2>1
  <2>3. CASE i <= l
    <3>1. i \in 1..l
      BY <1>1, <2>3
    <3>2. w[i] = u[i] /\ u[i] = d[a + i]
      BY <1>b, <1>3, <1>4, <1>6, <2>1, <3>1 DEF l
    <3> QED BY <2>2, <3>2
  <2>4. CASE ~(i <= l)
    <3> DEFINE j == i - l
    <3>1. j \in 1..k /\ l + j = i /\ n + j = a + i /\ a + i \in 1..Frames[f].len
      BY <1>0, <1>1, <2>4
    <3> HIDE DEF j
    <3>2. w[l + j] = <<f, n + j>>
      BY <1>b, <3>1 DEF l
    <3>3. d[a + i] = <<f, a + i>>
      BY <1>0, <3>1
    <3> QED BY <2>2, <3>1, <3>2, <3>3
  <2> QED BY <2>3, <2>4
<1>8. Len(w) = l + k
  BY <1>b DEF l
<1>9. w = x
  BY <1>5, <1>6, <1>7, <1>8, SameSeq
<1> QED BY <1>2, <1>9 DEF x, d

LEMMA DataMore ==
    ASSUME script \in Scripts, NEW f \in 1..Len(Frames), NEW n \in Nat, NEW k \in Nat,
           n + k <= Frames[f].len, IsRun(rx), OfFrame(rx, f), rx.masked <=> Server,
           DataFrom(rx, f, n), NEW w, IsSeq(w), Len(w) = Len(rx.ubuf) + k,
           \A i \in 1..Len(rx.ubuf) : w[i] = rx.ubuf[i],
           \A i \in 1..k : w[Len(rx.ubuf) + i] = <<f, n + i>>,
           NEW p, IsParser(p), p.ubuf = w, p.left = Frames[f].len - (n + k),
           ~Plain => p.idx = (rx.idx + k) % 4,
           p.op = rx.op, p.binary = rx.binary, p.masked = rx.masked, p.mask = rx.mask, p.zero = rx.zero
    PROVE  IsRun(p) /\ OfFrame(p, f) /\ (p.masked <=> Server) /\ DataFrom(p, f, n + k)
<1>2. p.ubuf = w
  OBVIOUS
<1>3. IsRun(p) /\ OfFrame(p, f) /\ (p.masked <=> Server)
  BY DEF IsRun, OfFrame
<1>4. Len(rx.ubuf) <= n /\ rx.ubuf = SubSeq(FrameData(f), n - Len(rx.ubuf) + 1, n) /\ IsSeq(rx.ubuf)
  BY DEF DataFrom, IsRun
<1>5. w = SubSeq(FrameData(f), (n + k) - Len(w) + 1, n + k)
  BY <1>4, Grown
<1>6. Len(w) <= n + k /\ (Len(rx.ubuf) = n => Len(w) = n + k)
  BY <1>4 DEF IsSeq
<1>7. Server => p.mask = KeyTo(f, 4) /\ (p.zero <=> Frames[f].zero)
  BY <1>2 DEF DataFrom
<1>8. Server /\ ~p.zero => p.idx = (n + k) % 4
  <2> SUFFICES ASSUME Server, ~p.zero PROVE p.idx = (n + k) % 4
    OBVIOUS
  <2>1. ~Plain /\ rx.idx = n % 4
    BY <1>2 DEF Plain, DataFrom
  <2>2. ((n % 4) + k) % 4 = (n + k) % 4
    OBVIOUS
  <2> QED BY <2>1, <2>2
<1>9. Frames[f].op \in Control => Len(w) = n + k
  BY <1>6 DEF DataFrom
<1>10. DataFrom(p, f, n + k)
  BY <1>2, <1>5, <1>6, <1>7, <1>8, <1>9 DEF DataFrom
<1> QED BY <1>3, <1>10

LEMMA PayloadStep ==
    ASSUME script \in Scripts, NEW f \in 1..Len(Frames), NEW o \in Nat, o < Size(f),
           ParserAt(rx, f, o), rx.at = "payload", NEW b, b = EncodeFrame(f)[o + 1], Payload(b)
    PROVE  \/ \E p : Reaches(p, f, o + 1) /\ Continue(p)
           \/ o + 1 < Size(f) /\ \E p : Fills(p, f, o + 1) /\ Spill(p)
<1> DEFINE n == o - DataAt(f)
           len == Frames[f].len
<1>0. /\ len \in Nat /\ KeyAt(f) \in Nat /\ 2 <= KeyAt(f) /\ DataAt(f) \in Nat
      /\ KeyAt(f) <= DataAt(f) /\ Size(f) = DataAt(f) + len
  BY FrameIs DEF Size
<1>1. Stage(f, o) = "payload" /\ o > 1 /\ ~(o < DataAt(f))
  BY DEF ParserAt, Stage
<1>2. /\ IsRun(rx) /\ OfFrame(rx, f) /\ (rx.masked <=> Server)
      /\ (Frames[f].op \in Control => Ext(f) = 0)
      /\ DataFrom(rx, f, n) /\ Len(rx.ubuf) < RxBuffer
  BY <1>1 DEF ParserAt
<1>3. /\ n \in Nat /\ n + 1 \in 1..len /\ DataAt(f) + (n + 1) = o + 1 /\ n + 1 - 1 = n
      /\ n + 1 <= len /\ (o + 1) - DataAt(f) = n + 1 /\ (o + 1) - 1 = o
  BY ONLY <1>0, <1>1, o \in Nat, o < Size(f), SMTT(30) DEF n, len
<1>4. b = [v |-> <<f, n + 1>>, by |-> KeyByte(f, n + 1 - 1)]
  <2>1. \A k \in 1..len : EncodeFrame(f)[DataAt(f) + k] = [v |-> <<f, k>>, by |-> KeyByte(f, k - 1)]
    BY FrameBytes
  <2> HIDE DEF n, len
  <2> QED BY <1>3, <2>1
<1>5. Unmasked(b, rx.idx) = <<f, n + 1>>
  <2>1. ~Plain => rx.idx = rx.idx + 1 - 1
    <3> SUFFICES ASSUME ~Plain PROVE rx.idx = rx.idx + 1 - 1
      OBVIOUS
    <3>1. rx.idx = n % 4
      BY <1>2 DEF Plain, DataFrom, IsRun
    <3> QED BY <1>3, <3>1
  <2>2. 1 \in Nat \ {0}
    OBVIOUS
  <2> HIDE DEF n
  <2> QED BY <1>2, <1>3, <1>4, <2>1, <2>2, Unmasks
<1>6. PICK w : w = Append(rx.ubuf, <<f, n + 1>>)
  OBVIOUS
<1>7. PICK x : x = IF Plain THEN rx.idx ELSE (rx.idx + 1) % 4
  OBVIOUS
<1>8. rx.left - 1 = len - (n + 1) /\ Len(rx.ubuf) \in Nat /\ Len(rx.ubuf) <= n
  <2>1. rx.left = len - n
    BY <1>2 DEF DataFrom
  <2>2. Len(rx.ubuf) \in Nat /\ Len(rx.ubuf) <= n
    BY <1>2 DEF IsRun, IsSeq, DataFrom
  <2> HIDE DEF n, len
  <2>3. len - n - 1 = len - (n + 1)
    BY <1>0, <1>3
  <2> QED BY <2>1, <2>2, <2>3
<1> DEFINE p == [rx EXCEPT !.ubuf = Append(@, Unmasked(b, rx.idx)), !.left = @ - 1,
                           !.idx = IF Plain THEN @ ELSE (@ + 1) % 4]
           q == [p EXCEPT !.at = "spill"]
<1>9. IF p.left = 0 THEN Spill(q) ELSE IF Len(p.ubuf) = RxBuffer THEN Spill(p) ELSE Continue(p)
  BY DEF Payload
<1>10. p = [rx EXCEPT !.ubuf = w, !.left = len - (n + 1), !.idx = x]
  BY <1>5, <1>6, <1>7, <1>8
<1>11. q = [p EXCEPT !.at = "spill"]
  OBVIOUS
<1> HIDE DEF p, q
<1>12. /\ IsSeq(w) /\ Len(w) = Len(rx.ubuf) + 1 /\ (\A i \in 1..Len(rx.ubuf) : w[i] = rx.ubuf[i])
       /\ \A i \in 1..1 : w[Len(rx.ubuf) + i] = <<f, n + i>>
  <2>1. /\ IsSeq(w) /\ Len(w) = Len(rx.ubuf) + 1 /\ (\A i \in 1..Len(rx.ubuf) : w[i] = rx.ubuf[i])
        /\ w[Len(rx.ubuf) + 1] = <<f, n + 1>>
    <3>1. IsSeq(rx.ubuf)
      BY <1>2 DEF IsRun
    <3> HIDE DEF n
    <3> QED BY <1>6, <3>1, Added
  <2>2. \A i \in 1..1 : i = 1
    OBVIOUS
  <2> HIDE DEF n
  <2> QED BY <2>1, <2>2
<1>13. /\ p.at = rx.at /\ p.ubuf = w /\ p.left = len - (n + 1)
       /\ IsRun(p) /\ OfFrame(p, f) /\ (p.masked <=> Server) /\ DataFrom(p, f, n + 1)
  <2>0. IsParser(rx)
    BY <1>2 DEF IsRun
  <2>1. ~Plain => x = (rx.idx + 1) % 4
    BY <1>7
  <2>2. 1 \in Nat /\ n \in Nat /\ n + 1 <= Frames[f].len
    BY <1>3
  <2>3. PICK l : l = len - (n + 1)
    OBVIOUS
  <2>4. p = [rx EXCEPT !.ubuf = w, !.left = l, !.idx = x]
    BY <1>10, <2>3
  <2>5. /\ IsParser(p) /\ p.at = rx.at /\ p.ubuf = w /\ p.left = l /\ p.idx = x
        /\ p.op = rx.op /\ p.binary = rx.binary /\ p.masked = rx.masked /\ p.mask = rx.mask
        /\ p.zero = rx.zero
    BY ONLY <2>0, <2>4 DEF IsParser
  <2>6. ~Plain => p.idx = (rx.idx + 1) % 4
    BY <2>1, <2>5
  <2>7. p.left = Frames[f].len - (n + 1)
    BY <2>3, <2>5
  <2> HIDE DEF n, len
  <2>8. IsRun(p) /\ OfFrame(p, f) /\ (p.masked <=> Server) /\ DataFrom(p, f, n + 1)
    BY <1>2, <1>12, <2>2, <2>5, <2>6, <2>7, DataMore
  <2> QED BY <2>3, <2>5, <2>8
<1>14. Spilled(rx, f, o) = IF Told(f) THEN (n + 1) - Len(w) ELSE 0
  <2>1. Spilled(rx, f, o) = IF Told(f) THEN n - Len(rx.ubuf) ELSE 0
    BY <1>1 DEF Spilled
  <2>2. n - Len(rx.ubuf) = (n + 1) - Len(w)
    <3> HIDE DEF n
    <3> QED BY <1>3, <1>8, <1>12
  <2> QED BY <2>1, <2>2
<1> HIDE DEF n, len
<1>15. CASE n + 1 = len
  <2>1. p.left = 0 /\ Spill(q) /\ o + 1 = Size(f)
    BY <1>0, <1>3, <1>9, <1>13, <1>15
  <2>2. /\ IsParser(q) /\ q.at = "spill" /\ q.op = p.op /\ q.masked = p.masked /\ q.left = p.left
        /\ q.mask = p.mask /\ q.idx = p.idx /\ q.zero = p.zero /\ q.ubuf = p.ubuf /\ q.binary = p.binary
    <3>1. IsParser(p)
      BY <1>13 DEF IsRun
    <3> QED BY ONLY <1>11, <3>1 DEF IsParser
  <2>3. IsRun(q) /\ OfFrame(q, f) /\ (q.masked <=> Server) /\ DataFrom(q, f, n + 1)
    BY <1>13, <2>2 DEF IsRun, OfFrame, DataFrom
  <2>4. SpillAt(q, f, n + 1)
    <3>1. n + 1 \in 0..Frames[f].len /\ n + 1 = Frames[f].len
      BY <1>0, <1>3, <1>15 DEF len
    <3>2. Len(q.ubuf) > 0
      BY <1>8, <1>12, <1>13, <2>2
    <3> QED BY <1>2, <2>2, <2>3, <3>1, <3>2 DEF SpillAt
  <2>5. Fills(q, f, o + 1)
    BY <1>3, <1>13, <1>14, <2>2, <2>4 DEF Fills
  <2>6. Reaches(q, f, o + 1)
    BY <2>1, <2>2, <2>5 DEF Reaches
  <2>7. Continue(q)
    BY <2>1, <2>2 DEF Continue
  <2> QED BY <2>6, <2>7
<1>16. CASE n + 1 # len
  <2>1. /\ p.left # 0 /\ n + 1 < len /\ o + 1 < Size(f) /\ ~(o + 1 < DataAt(f))
        /\ o + 1 # 0 /\ o + 1 # 1 /\ o + 1 > 1 /\ ~(o + 1 < KeyAt(f))
    BY <1>0, <1>1, <1>3, <1>13, <1>16
  <2>2. p.at = "payload" /\ Len(p.ubuf) = Len(rx.ubuf) + 1
    BY <1>12, <1>13
  <2>3. CASE Len(p.ubuf) = RxBuffer
    <3>1. Spill(p)
      BY <1>9, <2>1, <2>3
    <3>2. Frames[f].op \notin Control
      <4> SUFFICES ASSUME Frames[f].op \in Control PROVE FALSE
        OBVIOUS
      <4>1. Ext(f) = 0 /\ len <= Short
        BY <1>2, FrameIs DEF len
      <4>2. Len(p.ubuf) = n + 1
        BY <1>13 DEF DataFrom
      <4>3. RxBuffer \in Nat /\ Short \in Nat /\ Short <= RxBuffer
        BY WsReceiveAssumption
      <4> QED BY <1>0, <1>3, <2>1, <2>3, <4>1, <4>2, <4>3
    <3>3. SpillAt(p, f, n + 1)
      <4>1. n + 1 \in 0..Frames[f].len /\ n + 1 # Frames[f].len
        BY <1>0, <1>3, <1>16 DEF len
      <4>2. Len(p.ubuf) > 0
        BY <1>8, <2>2
      <4> QED BY <1>13, <2>2, <3>2, <4>1, <4>2 DEF SpillAt
    <3>4. Fills(p, f, o + 1)
      BY <1>3, <1>13, <1>14, <3>3 DEF Fills
    <3> QED BY <2>1, <3>1, <3>4
  <2>4. CASE Len(p.ubuf) # RxBuffer
    <3>1. Continue(p)
      BY <1>9, <2>1, <2>4
    <3>2. Len(p.ubuf) < RxBuffer
      <4>1. RxBuffer \in Nat
        BY WsReceiveAssumption
      <4> QED BY <1>2, <1>8, <2>2, <2>4, <4>1
    <3>3. Stage(f, o + 1) = "payload"
      BY <2>1 DEF Stage
    <3>4. ParserAt(p, f, o + 1)
      BY <1>2, <1>3, <1>13, <2>1, <2>2, <3>2, <3>3 DEF ParserAt
    <3>5. Spilled(p, f, o + 1) = Spilled(rx, f, o)
      BY <1>3, <1>13, <1>14, <2>1 DEF Spilled
    <3>6. Reaches(p, f, o + 1)
      BY <1>3, <2>1, <2>2, <3>4, <3>5 DEF Reaches
    <3> QED BY <3>1, <3>6
  <2> QED BY <2>3, <2>4
<1> QED BY <1>15, <1>16

LEMMA BulkLeast ==
    ASSUME RxBuffer - Len(rx.ubuf) \in Nat, rx.left \in Nat, Len(buf) \in Nat, BulkLength > 0
    PROVE  /\ BulkLength \in Nat /\ BulkLength < RxBuffer - Len(rx.ubuf)
           /\ BulkLength < rx.left /\ BulkLength < Len(buf)
<1>1. PICK a \in Nat, b \in Nat, c \in Nat : a = RxBuffer - Len(rx.ubuf) /\ b = rx.left /\ c = Len(buf)
  OBVIOUS
<1> DEFINE avail == CHOOSE n \in {a, b, c} : \A m \in {a, b, c} : n <= m
<1>2. BulkLength = IF avail <= 1 THEN 0 ELSE avail - 1
  BY <1>1 DEF BulkLength
<1>3. \E n \in {a, b, c} : \A m \in {a, b, c} : n <= m
  OBVIOUS
<1>4. avail \in {a, b, c} /\ \A m \in {a, b, c} : avail <= m
  BY <1>3
<1> HIDE DEF avail
<1>5. avail \in Nat /\ avail <= a /\ avail <= b /\ avail <= c
  BY <1>4
<1>6. BulkLength = avail - 1 /\ avail > 1
  BY <1>2, <1>5
<1>7. BulkLength \in Nat /\ BulkLength < a /\ BulkLength < b /\ BulkLength < c
  BY <1>5, <1>6
<1> QED BY <1>1, <1>7

\* The copy in bulk does what the parser would do byte by byte.
LEMMA BulkStep ==
    ASSUME script \in Scripts, NEW f \in 1..Len(Frames), NEW o \in Nat, o < Size(f),
           ParserAt(rx, f, o), rx.at = "payload", Len(buf) \in Nat, BulkLength > 0,
           \A k \in 1..Len(buf) : o + k <= Size(f) => buf[k] = EncodeFrame(f)[o + k],
           rx' = [rx EXCEPT
                    !.ubuf = @ \o [i \in 1..BulkLength |-> Unmasked(buf[i], rx.idx + i - 1)],
                    !.left = @ - BulkLength,
                    !.idx = IF Plain THEN @ ELSE (@ + BulkLength) % 4]
    PROVE  /\ BulkLength \in 1..Len(buf) /\ o + BulkLength < Size(f)
           /\ ParserAt(rx', f, o + BulkLength) /\ Spilled(rx', f, o + BulkLength) = Spilled(rx, f, o)
<1> DEFINE n == o - DataAt(f)
           len == Frames[f].len
<1>0. /\ len \in Nat /\ KeyAt(f) \in Nat /\ 2 <= KeyAt(f) /\ DataAt(f) \in Nat
      /\ KeyAt(f) <= DataAt(f) /\ Size(f) = DataAt(f) + len
  BY FrameIs DEF Size
<1>1. Stage(f, o) = "payload" /\ o > 1 /\ ~(o < DataAt(f))
  BY DEF ParserAt, Stage
<1>2. /\ IsRun(rx) /\ OfFrame(rx, f) /\ (rx.masked <=> Server)
      /\ (Frames[f].op \in Control => Ext(f) = 0)
      /\ DataFrom(rx, f, n) /\ Len(rx.ubuf) < RxBuffer
  BY <1>1 DEF ParserAt
<1>3. n \in Nat /\ n < len /\ o = DataAt(f) + n
  BY <1>0, <1>1
<1>4. IsSeq(rx.ubuf) /\ Len(rx.ubuf) \in Nat /\ Len(rx.ubuf) <= n /\ rx.left = len - n /\ IsParser(rx)
  BY <1>2 DEF IsRun, IsSeq, DataFrom
<1> HIDE DEF n, len
<1>5. PICK k : k = BulkLength
  OBVIOUS
<1>6. k \in Nat /\ k > 0 /\ k < RxBuffer - Len(rx.ubuf) /\ k < rx.left /\ k < Len(buf)
  <2>1. RxBuffer - Len(rx.ubuf) \in Nat /\ rx.left \in Nat
    <3>1. RxBuffer \in Nat
      BY WsReceiveAssumption
    <3>2. len - n \in Nat
      BY ONLY <1>0, <1>3
    <3>3. Len(rx.ubuf) < RxBuffer /\ Len(rx.ubuf) \in Nat
      BY <1>2, <1>4
    <3>4. RxBuffer - Len(rx.ubuf) \in Nat
      BY ONLY <3>1, <3>3
    <3> QED BY <1>4, <3>2, <3>4
  <2> QED BY <1>5, <2>1, BulkLeast
<1>7. /\ k \in 1..Len(buf) /\ n + k < len /\ n + k <= len /\ o + k < Size(f) /\ o + k = DataAt(f) + (n + k)
      /\ (o + k) - DataAt(f) = n + k
  <2>1. rx.left = len - n
    BY ONLY <1>4
  <2>2. k \in Nat /\ k > 0 /\ k < rx.left /\ k < Len(buf)
    BY ONLY <1>6
  <2> QED BY ONLY <1>0, <1>3, <2>1, <2>2, Len(buf) \in Nat, SMTT(30)
<1>8. ASSUME NEW i \in 1..k PROVE Unmasked(buf[i], rx.idx + i - 1) = <<f, n + i>>
  <2>1. /\ i \in 1..Len(buf) /\ o + i <= Size(f) /\ o + i = DataAt(f) + (n + i) /\ n + i \in 1..len
        /\ i \in Nat \ {0}
    <3>1. i \in Nat /\ i >= 1 /\ i <= k
      BY <1>6
    <3>2. n \in Nat /\ len \in Nat /\ k \in Nat /\ Len(buf) \in Nat /\ k < Len(buf) /\ n + k < len
          /\ DataAt(f) \in Nat /\ o = DataAt(f) + n /\ Size(f) = DataAt(f) + len
      BY <1>0, <1>3, <1>6, <1>7
    <3>3. i \in 1..Len(buf) /\ i \in Nat \ {0}
      BY ONLY <3>1, <3>2
    <3>4. n + i <= len /\ n + i \in Nat /\ n + i >= 1
      BY ONLY <3>1, <3>2
    <3>5. n + i \in 1..len
      BY ONLY <3>2, <3>4
    <3>6. o + i = DataAt(f) + (n + i)
      BY ONLY <3>1, <3>2
    <3>7. o + i <= Size(f)
      BY ONLY <3>2, <3>4, <3>6
    <3> QED BY <3>3, <3>5, <3>6, <3>7
  <2>2. buf[i] = EncodeFrame(f)[DataAt(f) + (n + i)]
    BY <2>1
  <2>3. \A m \in 1..len : EncodeFrame(f)[DataAt(f) + m] = [v |-> <<f, m>>, by |-> KeyByte(f, m - 1)]
    BY FrameBytes DEF len
  <2>4. buf[i] = [v |-> <<f, n + i>>, by |-> KeyByte(f, n + i - 1)]
    <3>1. EncodeFrame(f)[DataAt(f) + (n + i)] = [v |-> <<f, n + i>>, by |-> KeyByte(f, (n + i) - 1)]
      BY ONLY <2>1, <2>3
    <3>2. (n + i) - 1 = n + i - 1
      BY ONLY <1>3, <2>1
    <3> QED BY ONLY <2>2, <3>1, <3>2
  <2>5. PICK b : b = buf[i]
    OBVIOUS
  <2>6. PICK j : j = rx.idx + i - 1
    OBVIOUS
  <2>7. b = [v |-> <<f, n + i>>, by |-> KeyByte(f, n + i - 1)] /\ (~Plain => j = rx.idx + i - 1)
    BY <2>4, <2>5, <2>6
  <2>8. Unmasked(b, j) = <<f, n + i>>
    BY <1>2, <1>3, <2>1, <2>7, Unmasks
  <2> QED BY <2>5, <2>6, <2>8
<1> DEFINE t == [i \in 1..k |-> Unmasked(buf[i], rx.idx + i - 1)]
<1>9. IsSeq(t) /\ Len(t) = k /\ \A i \in 1..k : t[i] = <<f, n + i>>
  <2>1. t = [i \in 1..k |-> t[i]] /\ \A i \in 1..k : t[i] = Unmasked(buf[i], rx.idx + i - 1)
    OBVIOUS
  <2> HIDE DEF t
  <2>2. IsSeq(t) /\ Len(t) = k
    BY <1>6, <2>1, Built
  <2> QED BY <1>8, <2>1, <2>2
<1>10. PICK w : w = rx.ubuf \o t
  OBVIOUS
<1>11. PICK x : x = IF Plain THEN rx.idx ELSE (rx.idx + k) % 4
  OBVIOUS
<1>12. PICK l : l = rx.left - k
  OBVIOUS
<1>13. rx' = [rx EXCEPT !.ubuf = w, !.left = l, !.idx = x]
  BY <1>5, <1>10, <1>11, <1>12
<1> HIDE DEF t
<1>14. /\ IsSeq(w) /\ Len(w) = Len(rx.ubuf) + k /\ (\A i \in 1..Len(rx.ubuf) : w[i] = rx.ubuf[i])
       /\ \A i \in 1..k : w[Len(rx.ubuf) + i] = <<f, n + i>>
  <2>1. PICK u : u = rx.ubuf
    OBVIOUS
  <2>2. IsSeq(u) /\ IsSeq(t)
    BY <1>4, <1>9, <2>1
  <2>3. /\ IsSeq(u \o t) /\ Len(u \o t) = Len(u) + Len(t)
        /\ \A i \in 1..Len(u) : (u \o t)[i] = u[i]
        /\ \A i \in 1..Len(t) : (u \o t)[Len(u) + i] = t[i]
    BY ONLY <2>2, Ends
  <2> QED BY <1>9, <1>10, <2>1, <2>3
<1>15. PICK p : p = rx'
  OBVIOUS
<1>16. /\ IsParser(p) /\ p.at = rx.at /\ p.ubuf = w /\ p.left = l /\ p.idx = x
       /\ p.op = rx.op /\ p.binary = rx.binary /\ p.masked = rx.masked /\ p.mask = rx.mask
       /\ p.zero = rx.zero
  <2>1. p = [rx EXCEPT !.ubuf = w, !.left = l, !.idx = x]
    BY <1>13, <1>15
  <2>2. IsParser(rx)
    BY <1>4
  <2> QED BY ONLY <2>1, <2>2 DEF IsParser
<1>17. ~Plain => p.idx = (rx.idx + k) % 4
  BY <1>11, <1>16
<1>18. p.left = Frames[f].len - (n + k)
  <2>1. len - n - k = len - (n + k)
    BY <1>0, <1>3, <1>6
  <2> QED BY <1>4, <1>12, <1>16, <2>1 DEF len
<1>19. IsRun(p) /\ OfFrame(p, f) /\ (p.masked <=> Server) /\ DataFrom(p, f, n + k)
  <2>1. n + k <= Frames[f].len
    BY <1>7 DEF len
  <2> QED BY <1>2, <1>3, <1>6, <1>14, <1>16, <1>17, <1>18, <2>1, DataMore
<1>20. Stage(f, o + k) = "payload" /\ o + k > 1 /\ o + k # 0 /\ ~(o + k < DataAt(f))
  <2>1. o + k > 1 /\ o + k # 0 /\ o + k # 1 /\ ~(o + k < DataAt(f)) /\ ~(o + k < KeyAt(f))
    BY <1>0, <1>1, <1>6
  <2> QED BY <2>1 DEF Stage
<1>21. Len(p.ubuf) < RxBuffer
  <2>1. RxBuffer \in Nat
    BY WsReceiveAssumption
  <2> QED BY <1>4, <1>6, <1>14, <1>16, <2>1
<1>22. ParserAt(p, f, o + k)
  BY <1>2, <1>7, <1>16, <1>19, <1>20, <1>21 DEF ParserAt
<1>23. Spilled(p, f, o + k) = Spilled(rx, f, o)
  <2>1. (o + k) - DataAt(f) - Len(p.ubuf) = o - DataAt(f) - Len(rx.ubuf)
    <3>1. Len(p.ubuf) = Len(rx.ubuf) + k /\ Len(rx.ubuf) \in Nat /\ k \in Nat /\ DataAt(f) \in Nat
      BY <1>0, <1>4, <1>6, <1>14, <1>16
    <3> QED BY ONLY <3>1, o \in Nat
  <2> QED BY <1>1, <1>20, <2>1 DEF Spilled
<1> QED BY <1>5, <1>7, <1>15, <1>22, <1>23

-----------------------------------------------------------------------------
(* The answers *)

\* RepliesEcho, of the replies r
Echo(r) ==
    \E from \in [1..Len(r) -> 0..Len(Frames)] : \A i \in 1..Len(r) :
        /\ r[i].op = "pong" =>
            /\ from[i] # 0 /\ Frames[from[i]].op = "ping" /\ r[i].data = FrameData(from[i])
            /\ \A j \in 1..i-1 : r[j].op = "pong" /\ from[j] < from[i]
        /\ r[i].op = "close" => i = Len(r) /\ (script.closes \/
            (from[i] # 0 /\ Frames[from[i]].op = "close" /\ r[i].data = CloseAnswer(from[i])))

LEMMA CloseAnswerFixed == ASSUME script' = script, NEW g PROVE CloseAnswer(g)' = CloseAnswer(g)
<1>1. Frames' = Frames /\ (Server' <=> Server) /\ FrameData(g)' = FrameData(g)
  BY Fixed DEF Server
<1> QED BY <1>1 DEF CloseAnswer

LEMMA EchoIs == ASSUME script' = script
                PROVE  (RepliesEcho <=> Echo(replies)) /\ (RepliesEcho' <=> Echo(replies'))
<1>1. RepliesEcho <=> Echo(replies)
  BY DEF RepliesEcho, Echo
<1>2. /\ Frames' = Frames /\ \A g : FrameData(g)' = FrameData(g)
      /\ \A g : CloseAnswer(g)' = CloseAnswer(g)
  BY Fixed, CloseAnswerFixed
<1>3. RepliesEcho' <=> Echo(replies')
  BY <1>2 DEF RepliesEcho, Echo
<1> QED BY <1>1, <1>3

LEMMA PongsEcho ==
    ASSUME Len(Frames) \in Nat, NEW f \in 1..Len(Frames) + 1, NEW r, IsSeq(r),
           NEW from \in [1..Len(r) -> 0..Len(Frames)], Pongs(r, from, f)
    PROVE  Echo(r)
<1>1. ASSUME NEW i \in 1..Len(r)
      PROVE  /\ r[i].op = "pong" =>
                  /\ from[i] # 0 /\ Frames[from[i]].op = "ping" /\ r[i].data = FrameData(from[i])
                  /\ \A j \in 1..i-1 : r[j].op = "pong" /\ from[j] < from[i]
             /\ r[i].op = "close" => i = Len(r) /\ (script.closes \/
                  (from[i] # 0 /\ Frames[from[i]].op = "close" /\ r[i].data = CloseAnswer(from[i])))
  <2>1. /\ from[i] \in 1..f-1 /\ Frames[from[i]].op = "ping" /\ r[i].op = "pong"
        /\ r[i].data = FrameData(from[i]) /\ \A j \in 1..i-1 : from[j] < from[i]
    BY DEF Pongs
  <2>2. ASSUME NEW j \in 1..i-1 PROVE r[j].op = "pong"
    <3>1. j \in 1..Len(r)
      BY DEF IsSeq
    <3> QED BY <3>1 DEF Pongs
  <2>3. from[i] # 0
    BY <2>1
  <2> QED BY <2>1, <2>2, <2>3
<1> QED BY <1>1 DEF Echo

\* After pongs, a close that the program wants or that answers one.
LEMMA CloseEchoes ==
    ASSUME Len(Frames) \in Nat, NEW f \in 1..Len(Frames) + 1, NEW r, IsSeq(r),
           NEW from \in [1..Len(r) -> 0..Len(Frames)], Pongs(r, from, f),
           NEW c, c.op = "close", NEW g \in 0..Len(Frames),
           script.closes \/ (g # 0 /\ Frames[g].op = "close" /\ c.data = CloseAnswer(g))
    PROVE  Echo(Append(r, c)) /\ IsSeq(Append(r, c))
<1> DEFINE n == Len(r)
           s == Append(r, c)
           to == [i \in 1..(n + 1) |-> IF i = n + 1 THEN g ELSE from[i]]
<1>0. n \in Nat
  BY DEF IsSeq
<1>1. IsSeq(s) /\ Len(s) = n + 1 /\ (\A i \in 1..n : s[i] = r[i]) /\ s[n + 1] = c
  BY Added
<1>2. to \in [1..(n + 1) -> 0..Len(Frames)] /\ to[n + 1] = g /\ \A i \in 1..n : to[i] = from[i]
  BY <1>0
<1> HIDE DEF to, s, n
<1>3. ASSUME NEW i \in 1..(n + 1)
      PROVE  /\ s[i].op = "pong" =>
                  /\ to[i] # 0 /\ Frames[to[i]].op = "ping" /\ s[i].data = FrameData(to[i])
                  /\ \A j \in 1..i-1 : s[j].op = "pong" /\ to[j] < to[i]
             /\ s[i].op = "close" => i = n + 1 /\ (script.closes \/
                  (to[i] # 0 /\ Frames[to[i]].op = "close" /\ s[i].data = CloseAnswer(to[i])))
  <2>1. CASE i = n + 1
    BY <1>1, <1>2, <2>1
  <2>2. CASE i # n + 1
    <3>1. i \in 1..n
      BY <1>0, <2>2
    <3>2. s[i] = r[i] /\ to[i] = from[i]
      BY <1>1, <1>2, <3>1
    <3>3. /\ from[i] \in 1..f-1 /\ Frames[from[i]].op = "ping" /\ r[i].op = "pong"
          /\ r[i].data = FrameData(from[i]) /\ \A j \in 1..i-1 : from[j] < from[i]
      BY <3>1 DEF Pongs, n
    <3>4. ASSUME NEW j \in 1..i-1 PROVE s[j].op = "pong" /\ to[j] < to[i]
      <4>1. j \in 1..n
        BY <1>0, <3>1
      <4>2. r[j].op = "pong"
        BY <4>1 DEF Pongs, n
      <4> QED BY <1>1, <1>2, <3>2, <3>3, <4>1, <4>2
    <3>5. from[i] # 0
      BY <3>3
    <3> QED BY <3>2, <3>3, <3>4, <3>5
  <2> QED BY <2>1, <2>2
<1> QED BY <1>1, <1>2, <1>3 DEF Echo, s

\* What is answered stays so, whatever follows.
LEMMA AnswersOn ==
    ASSUME Len(Frames) \in Nat, NEW f \in 1..Len(Frames) + 1, NEW r, NEW q, Answers(r, q, f)
    PROVE  Answers(r, q, f + 1)
<1>1. PICK from \in [1..Len(r) -> 0..Len(Frames)] : Pongs(r, from, f) /\ PongDue(r, from, q, f)
  BY DEF Answers
<1>2. \A g \in 1..f-1 : g \in 1..(f + 1)-1
  OBVIOUS
<1>3. Pongs(r, from, f + 1)
  BY <1>1, <1>2 DEF Pongs
<1>4. PongDue(r, from, q, f + 1)
  BY <1>1, <1>2 DEF PongDue
<1> QED BY <1>3, <1>4 DEF Answers

\* A ping that is stashed is answered next.
LEMMA PingStashed ==
    ASSUME Len(Frames) \in Nat, NEW f \in 1..Len(Frames), Frames[f].op = "ping",
           NEW r, NEW q, Answers(r, q, f), NEW p, p.data = FrameData(f)
    PROVE  Answers(r, p, f + 1)
<1>1. PICK from \in [1..Len(r) -> 0..Len(Frames)] : Pongs(r, from, f) /\ PongDue(r, from, q, f)
  BY DEF Answers
<1>2. \A g \in 1..f-1 : g \in 1..(f + 1)-1
  OBVIOUS
<1>3. Pongs(r, from, f + 1)
  BY <1>1, <1>2 DEF Pongs
<1>4. \A i \in 1..Len(r) : from[i] < f
  BY <1>1 DEF Pongs
<1>5. f \in 1..(f + 1)-1
  OBVIOUS
<1>6. PongDue(r, from, p, f + 1)
  BY <1>4, <1>5 DEF PongDue
<1> QED BY <1>3, <1>6 DEF Answers

\* A pong that is due is sent.
LEMMA PongSent ==
    ASSUME Len(Frames) \in Nat, NEW f \in 1..Len(Frames) + 1, NEW r, IsSeq(r), NEW q, Answers(r, q, f),
           q.pending, NEW c, c.op = "pong", c.data = q.data, NEW p, ~p.pending
    PROVE  Answers(Append(r, c), p, f) /\ Echo(Append(r, c)) /\ IsSeq(Append(r, c))
<1> DEFINE n == Len(r)
           s == Append(r, c)
<1>0. n \in Nat
  BY DEF IsSeq
<1>1. PICK from \in [1..Len(r) -> 0..Len(Frames)] : Pongs(r, from, f) /\ PongDue(r, from, q, f)
  BY DEF Answers
<1>2. PICK g \in 1..f-1 : /\ Frames[g].op = "ping" /\ q.data = FrameData(g)
                          /\ \A i \in 1..n : from[i] < g
  BY <1>1 DEF PongDue
<1>3. IsSeq(s) /\ Len(s) = n + 1 /\ (\A i \in 1..n : s[i] = r[i]) /\ s[n + 1] = c
  BY Added
<1> DEFINE to == [i \in 1..(n + 1) |-> IF i = n + 1 THEN g ELSE from[i]]
<1>4. g \in 0..Len(Frames)
  OBVIOUS
<1>5. to \in [1..(n + 1) -> 0..Len(Frames)] /\ to[n + 1] = g /\ \A i \in 1..n : to[i] = from[i]
  BY <1>0, <1>4
<1> HIDE DEF to, s, n
<1>6. ASSUME NEW i \in 1..(n + 1)
      PROVE  /\ to[i] \in 1..f-1 /\ Frames[to[i]].op = "ping"
             /\ s[i].op = "pong" /\ s[i].data = FrameData(to[i])
             /\ \A j \in 1..i-1 : to[j] < to[i]
  <2>1. CASE i = n + 1
    <3>1. ASSUME NEW j \in 1..i-1 PROVE to[j] < to[i]
      <4>1. j \in 1..n
        BY <1>0, <2>1
      <4> QED BY <1>2, <1>5, <2>1, <4>1
    <3> QED BY <1>2, <1>3, <1>5, <2>1, <3>1
  <2>2. CASE i # n + 1
    <3>1. i \in 1..n
      BY <1>0, <2>2
    <3>2. s[i] = r[i] /\ to[i] = from[i]
      BY <1>3, <1>5, <3>1
    <3>3. /\ from[i] \in 1..f-1 /\ Frames[from[i]].op = "ping" /\ r[i].op = "pong"
          /\ r[i].data = FrameData(from[i]) /\ \A j \in 1..i-1 : from[j] < from[i]
      BY <1>1, <3>1 DEF Pongs, n
    <3>4. ASSUME NEW j \in 1..i-1 PROVE to[j] < to[i]
      <4>1. j \in 1..n
        BY <1>0, <3>1
      <4> QED BY <1>5, <3>2, <3>3, <4>1
    <3> QED BY <3>2, <3>3, <3>4
  <2> QED BY <2>1, <2>2
<1>7. Pongs(s, to, f) /\ PongDue(s, to, p, f) /\ to \in [1..Len(s) -> 0..Len(Frames)]
  BY <1>3, <1>5, <1>6 DEF Pongs, PongDue
<1>8. Answers(s, p, f)
  BY <1>7 DEF Answers
<1>9. Echo(s)
  BY <1>3, <1>7, PongsEcho
<1> QED BY <1>3, <1>8, <1>9 DEF s

LEMMA AnswersFixed ==
    ASSUME script' = script, NEW f, Answers(replies', pong', f)
    PROVE  Answers(replies, pong, f)'
<1>1. Frames' = Frames /\ \A g : FrameData(g)' = FrameData(g)
  BY Fixed
<1> QED BY <1>1 DEF Answers, Pongs, PongDue

-----------------------------------------------------------------------------
(* The steps of the parser, while the connection is open *)

LEMMA ToldPrefix ==
    ASSUME script \in Scripts, script' = script, NEW m \in 0..Len(Expected),
           Flat(received') = SubSeq(Expected, 1, m)
    PROVE  DeliveredInOrder'
<1>1. IsPrefix(SubSeq(Expected, 1, m), Expected)
  BY TaleIs, BeginningIsPrefix
<1>2. Expected' = Expected /\ Flat(received)' = Flat(received')
  BY Fixed
<1>3. IsPrefix(Flat(received'), Expected)
  BY <1>1
<1> QED BY <1>2, <1>3 DEF DeliveredInOrder

\* Nothing was told or answered.
LEMMA Silent ==
    ASSUME IInv, script' = script, received' = received, replies' = replies,
           state' \in {"open", "awaiting", "returned", "closed"},
           state' = "open" => IsInStep', state' = "returned" => CloseDue'
    PROVE  IInv'
<1>1. DeliveredInOrder'
  <2>1. Expected' = Expected
    BY Fixed
  <2>2. Flat(received') = Flat(received)
    OBVIOUS
  <2> QED BY <2>1, <2>2 DEF IInv, DeliveredInOrder
<1>2. RepliesEcho'
  BY EchoIs DEF IInv
<1>3. Callbacks(received)' /\ IsSeq(replies)' /\ script' \in Scripts
  BY DEF IInv, Callbacks, IsSeq
<1> QED BY <1>1, <1>2, <1>3 DEF IInv

\* The receiver is in step again.
LEMMA Arrives ==
    ASSUME script \in Scripts, script' = script, NEW g \in 1..Len(Frames) + 1, NEW o \in 0..Len(Whole),
           InputOK', IsPong(pong'), Position(g, o)', ParserAt(rx', g, o), NoCloseBefore(g),
           Flat(received') = SubSeq(Expected, 1, Starts(Tale, g - 1) + Spilled(rx', g, o)),
           Answers(replies', pong', g)
    PROVE  IsInStep'
<1>1. Frames' = Frames /\ Whole' = Whole /\ Expected' = Expected /\ Tale' = Tale
      /\ (NoCloseBefore(g)' <=> NoCloseBefore(g))
  BY Fixed
<1>2. Starts(Tale, g - 1)' = Starts(Tale, g - 1)
  BY <1>1
<1>3. ParserAt(rx, g, o)' /\ Spilled(rx, g, o)' = Spilled(rx', g, o)
  BY Lands
<1>4. Telling(g, o)'
  BY <1>1, <1>2, <1>3 DEF Telling
<1>5. Answers(replies, pong, g)'
  BY AnswersFixed
<1>6. InStepAt(g, o)'
  BY <1>3, <1>4, <1>5 DEF InStepAt
<1>7. IsPong(pong)'
  BY DEF IsPong
<1>8. g \in (1..Len(Frames) + 1)' /\ o \in (0..Len(Whole))'
  BY <1>1
<1> QED BY <1>6, <1>7, <1>8 DEF IsInStep

\* Bytes of a frame are used, and nothing is told or answered.
LEMMA Goes ==
    ASSUME IInv, state = "open", script' = script, InputOK, IsPong(pong),
           NEW f \in 1..Len(Frames), NEW o \in Nat, InStepAt(f, o), reading \in {"net", "flow"},
           NEW n \in 1..Len(buf), o + n < Size(f), ParserAt(rx', f, o + n),
           Spilled(rx', f, o + n) = Spilled(rx, f, o), Use(n), Quiet
    PROVE  IInv'
<1>1. script \in Scripts
  BY DEF IInv
<1>2. Position(f, o) /\ Telling(f, o) /\ Answers(replies, pong, f)
  BY DEF InStepAt
<1>3. f \in 1..Len(Frames) + 1 /\ Len(buf) \in Nat /\ Size(f) \in Nat /\ n \in Nat
  <2>1. Len(Frames) \in Nat /\ Size(f) \in Nat
    BY <1>1, FrameIs
  <2>2. Len(buf) \in Nat
    BY DEF InputOK, IsSeq
  <2> QED BY ONLY <2>1, <2>2, f \in 1..Len(Frames), n \in 1..Len(buf)
<1>4. InputOK' /\ o + n \in 0..Len(Whole) /\ Position(f, o + n)'
  <2>1. o + n <= Size(f)
    BY <1>3
  <2> QED BY <1>1, <1>2, <1>3, <2>1, Moves
<1>5. state' = state /\ pong' = pong /\ received' = received /\ replies' = replies
  BY DEF Quiet
<1>6. IsInStep'
  <2>1. NoCloseBefore(f) /\ Flat(received') = SubSeq(Expected, 1, Starts(Tale, f - 1) + Spilled(rx', f, o + n))
    BY <1>2, <1>5 DEF Telling
  <2>2. Answers(replies', pong', f) /\ IsPong(pong')
    BY <1>2, <1>5
  <2> QED BY <1>1, <1>3, <1>4, <2>1, <2>2, Arrives
<1> QED BY <1>5, <1>6, Silent

LEMMA Refuses ==
    ASSUME IInv, script' = script, Illegal
    PROVE  IInv'
<1>1. state' = "closed" /\ received' = received /\ replies' = replies
  BY DEF Illegal, CloseFree
<1> QED BY <1>1, Silent

LEMMA EmptiedIs ==
    ASSUME NEW p, IsRun(p), NEW f, OfFrame(p, f), NEW e, e = Emptied(p)
    PROVE  /\ IsRun(e) /\ OfFrame(e, f) /\ e.ubuf = <<>> /\ e.at = (IF p.at = "spill" THEN "op" ELSE p.at)
           /\ e.masked = p.masked /\ e.left = p.left /\ e.mask = p.mask /\ e.idx = p.idx /\ e.zero = p.zero
<1>1. IsParser(p)
  BY DEF IsRun
<1>2. PICK t : t = IF p.at = "spill" THEN "op" ELSE p.at
  OBVIOUS
<1>3. e = [p EXCEPT !.ubuf = <<>>, !.at = t]
  <2>1. [p EXCEPT !.ubuf = <<>>].at = p.at
    BY <1>1 DEF IsParser
  <2> QED BY <1>2, <2>1 DEF Emptied
<1>4. /\ IsParser(e) /\ e.ubuf = <<>> /\ e.at = t /\ e.masked = p.masked /\ e.left = p.left
      /\ e.mask = p.mask /\ e.idx = p.idx /\ e.zero = p.zero /\ e.op = p.op /\ e.binary = p.binary
  BY ONLY <1>1, <1>3 DEF IsParser
<1> QED BY <1>2, <1>4, Nothing DEF IsRun, OfFrame

\* The frame is done with.
LEMMA LandsNext ==
    ASSUME script \in Scripts, script' = script, InputOK, reading \in {"net", "flow"}, 1 \in 1..Len(buf),
           NEW f \in 1..Len(Frames), NEW o \in Nat, Position(f, o), o + 1 = Size(f), NoCloseBefore(f),
           Frames[f].op # "close", NEW p, SpillAt(p, f, Frames[f].len), rx' = Emptied(p), Use(1),
           IsPong(pong'), Flat(received') = SubSeq(Expected, 1, Starts(Tale, f)),
           Answers(replies', pong', f + 1)
    PROVE  IsInStep'
<1>1. Len(Frames) \in Nat /\ f + 1 \in 1..Len(Frames) + 1 /\ f \in 1..Len(Frames) + 1 /\ (f + 1) - 1 = f
  BY FrameIs
<1>2. InputOK' /\ Position(f + 1, 0)' /\ 0 \in 0..Len(Whole)
  <2>1. o + 1 <= Size(f)
    BY FrameIs
  <2>2. Len(Whole) \in Nat
    BY WholeIs DEF IsSeq
  <2> QED BY <1>1, <2>1, <2>2, Moves
<1>3. PICK e : e = rx'
  OBVIOUS
<1>4. IsRun(p) /\ OfFrame(p, f) /\ DataFrom(p, f, Frames[f].len) /\ p.at = "spill"
  BY DEF SpillAt
<1>5. IsRun(e) /\ e.ubuf = <<>> /\ e.at = "op" /\ e.binary = IsBinary(f) /\ e.mask = p.mask
  <2>1. e = Emptied(p)
    BY <1>3
  <2> QED BY <1>4, <2>1, EmptiedIs DEF OfFrame
<1>6. Server => Len(e.mask) = 4
  <2>1. Server => p.mask = KeyTo(f, 4)
    BY <1>4 DEF DataFrom
  <2>2. Len(KeyTo(f, 4)) = 4
    BY KeyToIs
  <2> QED BY <1>5, <2>1, <2>2
<1>7. Stage(f + 1, 0) = "op"
  BY DEF Stage
<1>8. HeaderAt(e, f + 1, 0)
  BY <1>1, <1>5, <1>6, <1>7 DEF HeaderAt
<1>9. ParserAt(e, f + 1, 0)
  BY <1>5, <1>7, <1>8 DEF ParserAt
<1>10. Spilled(e, f + 1, 0) = 0
  BY DEF Spilled
<1>11. NoCloseBefore(f + 1)
  <2> SUFFICES ASSUME NEW g \in 1..(f + 1)-1 PROVE Frames[g].op # "close"
    BY DEF NoCloseBefore
  <2>1. g = f \/ g \in 1..f-1
    BY <1>1
  <2> QED BY <2>1 DEF NoCloseBefore
<1>12. Flat(received') = SubSeq(Expected, 1, Starts(Tale, (f + 1) - 1) + Spilled(rx', f + 1, 0))
  <2>1. Starts(Tale, f) \in Nat
    <3>1. f \in 0..Len(Frames)
      BY <1>1
    <3> QED BY <3>1, TaleIs
  <2>2. Starts(Tale, (f + 1) - 1) + Spilled(rx', f + 1, 0) = Starts(Tale, f)
    BY <1>1, <1>3, <1>10, <2>1
  <2> QED BY <2>2
<1> QED BY <1>1, <1>2, <1>3, <1>9, <1>11, <1>12, Arrives

\* The buffer was full, and the frame goes on.
LEMMA LandsWithin ==
    ASSUME script \in Scripts, script' = script, InputOK, reading \in {"net", "flow"}, 1 \in 1..Len(buf),
           NEW f \in 1..Len(Frames), NEW o \in Nat, Position(f, o), o + 1 < Size(f), NoCloseBefore(f),
           NEW p, SpillAt(p, f, (o + 1) - DataAt(f)), rx' = Emptied(p), Use(1),
           IsPong(pong'), Told(f),
           Flat(received') = SubSeq(Expected, 1, Starts(Tale, f - 1) + ((o + 1) - DataAt(f))),
           Answers(replies', pong', f)
    PROVE  IsInStep'
<1> DEFINE n == (o + 1) - DataAt(f)
<1>0. /\ Frames[f].len \in Nat /\ KeyAt(f) \in Nat /\ 2 <= KeyAt(f) /\ DataAt(f) \in Nat
      /\ KeyAt(f) <= DataAt(f) /\ Size(f) = DataAt(f) + Frames[f].len
  BY FrameIs DEF Size
<1>1. Len(Frames) \in Nat /\ f \in 1..Len(Frames) + 1
  BY FrameIs
<1>2. InputOK' /\ Position(f, o + 1)' /\ o + 1 \in 0..Len(Whole)
  <2>1. o + 1 <= Size(f)
    BY <1>0
  <2> QED BY <1>1, <2>1, Moves
<1>3. PICK e : e = rx'
  OBVIOUS
<1>4. /\ IsRun(p) /\ OfFrame(p, f) /\ DataFrom(p, f, n) /\ n \in 0..Frames[f].len /\ (p.masked <=> Server)
      /\ p.at = (IF n = Frames[f].len THEN "spill" ELSE "payload")
      /\ (Frames[f].op \in Control => Ext(f) = 0 /\ n = Frames[f].len)
  BY DEF SpillAt
<1>5. n # Frames[f].len /\ ~(o + 1 < DataAt(f)) /\ o + 1 > 1 /\ o + 1 # 0 /\ o + 1 # 1 /\ ~(o + 1 < KeyAt(f))
  BY <1>0, <1>4
<1>6. /\ IsRun(e) /\ OfFrame(e, f) /\ e.ubuf = <<>> /\ e.at = "payload" /\ (e.masked <=> Server)
      /\ e.left = p.left /\ e.mask = p.mask /\ e.idx = p.idx /\ e.zero = p.zero
  <2>1. e = Emptied(p)
    BY <1>3
  <2> HIDE DEF n
  <2> QED BY <1>4, <1>5, <2>1, EmptiedIs
<1>7. Len(e.ubuf) = 0
  BY <1>6, Nothing
<1>8. DataFrom(e, f, n)
  <2> HIDE DEF n
  <2>1. SubSeq(FrameData(f), n + 1, n) = <<>> /\ n - 0 = n /\ 0 <= n
    BY <1>0, <1>4, NoPart
  <2> QED BY <1>4, <1>5, <1>6, <1>7, <2>1 DEF DataFrom
<1>9. Stage(f, o + 1) = "payload" /\ 0 < RxBuffer
  BY <1>5, WsReceiveAssumption DEF Stage
<1>10. ParserAt(e, f, o + 1)
  BY <1>4, <1>5, <1>6, <1>7, <1>8, <1>9 DEF ParserAt
<1>11. Spilled(e, f, o + 1) = n
  BY <1>0, <1>5, <1>7 DEF Spilled
<1>12. Flat(received') = SubSeq(Expected, 1, Starts(Tale, f - 1) + Spilled(rx', f, o + 1))
  BY <1>3, <1>11
<1> QED BY <1>1, <1>2, <1>3, <1>10, <1>12, Arrives

\* All the data of a control frame are in the buffer.
LEMMA ControlWhole ==
    ASSUME script \in Scripts, NEW f \in 1..Len(Frames), NEW p, NEW n, SpillAt(p, f, n),
           Frames[f].op \in Control
    PROVE  n = Frames[f].len /\ p.ubuf = FrameData(f)
<1>1. n = Frames[f].len /\ Len(p.ubuf) = n /\ p.ubuf = SubSeq(FrameData(f), n - Len(p.ubuf) + 1, n)
  BY DEF SpillAt, DataFrom
<1>2. n \in Nat /\ n - n + 1 = 1
  BY <1>1, FrameIs
<1>3. p.ubuf = SubSeq(FrameData(f), 1, Len(FrameData(f)))
  BY <1>1, <1>2, DataIs
<1> QED BY <1>1, <1>3, DataIs, Whole1

\* What a client writes back is what the close is to be answered with.
LEMMA ClientAnswers ==
    ASSUME script \in Scripts, NEW f \in 1..Len(Frames), ~Server
    PROVE  CloseCode(FrameData(f)) = CloseAnswer(f)
<1>1. PICK d : d = FrameData(f)
  OBVIOUS
<1>2. Len(d) = Frames[f].len /\ Frames[f].len \in Nat /\ \A i \in 1..Frames[f].len : d[i] = <<f, i>>
  BY <1>1, DataIs, FrameIs
<1>3. BadCode(d) <=> (Frames[f].bad /\ Frames[f].len >= 2)
  <2>1. CASE Frames[f].len >= 2
    <3>1. 1 \in 1..Frames[f].len /\ 2 \in 1..Frames[f].len
      BY <1>2, <2>1
    <3>2. d[1] = <<f, 1>> /\ d[2] = <<f, 2>>
      BY <1>2, <3>1
    <3>3. \A g : <<f, 1>> = <<g, 1>> => f = g
      OBVIOUS
    <3> QED BY <1>2, <2>1, <3>2, <3>3 DEF BadCode
  <2>2. CASE ~(Frames[f].len >= 2)
    BY <1>2, <2>2 DEF BadCode
  <2> QED BY <2>1, <2>2
<1>4. CloseCode(d) = CloseAnswer(f)
  BY <1>1, <1>2, <1>3 DEF CloseCode, CloseAnswer
<1> QED BY <1>1, <1>4

LEMMA SpillsClose ==
    ASSUME IInv, state = "open", script' = script, NEW f \in 1..Len(Frames), Frames[f].op = "close",
           Answers(replies, pong, f), NEW p, NEW n, SpillAt(p, f, n), SpillClose(p)
    PROVE  IInv'
<1>0. script \in Scripts /\ IsSeq(replies) /\ Callbacks(received)
  BY DEF IInv
<1>1. Len(Frames) \in Nat /\ f \in 1..Len(Frames) + 1 /\ f \in 0..Len(Frames) /\ f # 0
  BY <1>0, FrameIs
<1>2. p.ubuf = FrameData(f)
  BY <1>0, ControlWhole DEF Control
<1>3. PICK from \in [1..Len(replies) -> 0..Len(Frames)] : Pongs(replies, from, f)
  BY DEF Answers
<1>4. CASE ~Server
  <2> DEFINE c == [op |-> "close", data |-> CloseCode(p.ubuf)]
  <2>1. /\ replies' = Append(replies, c) /\ received' = received /\ state' = "closed"
    BY <1>4 DEF SpillClose, ClientSpillClose, CloseFree
  <2>2. c.op = "close" /\ c.data = CloseAnswer(f)
    BY <1>0, <1>2, <1>4, ClientAnswers
  <2> HIDE DEF c
  <2>3. Echo(replies') /\ IsSeq(replies')
    BY <1>0, <1>1, <1>3, <2>1, <2>2, CloseEchoes
  <2>4. RepliesEcho'
    BY <2>3, EchoIs
  <2>5. DeliveredInOrder'
    <3>1. Expected' = Expected
      BY Fixed
    <3>2. Flat(received') = Flat(received)
      BY <2>1
    <3> QED BY <3>1, <3>2 DEF IInv, DeliveredInOrder
  <2>6. Callbacks(received)' /\ IsSeq(replies)'
    BY <1>0, <2>1, <2>3 DEF Callbacks, IsSeq
  <2> QED BY <1>0, <2>1, <2>4, <2>5, <2>6 DEF IInv
<1>5. CASE Server
  <2>1. /\ state' = "returned" /\ replies' = replies /\ received' = received
        /\ pong' = [pending |-> TRUE, close |-> TRUE, data |-> p.ubuf]
    BY <1>5 DEF SpillClose, Stash
  <2>2. Pongs(replies, from, Len(Frames) + 1)
    <3>1. \A g \in 1..f-1 : g \in 1..(Len(Frames) + 1)-1
      BY <1>1
    <3> QED BY <1>3, <3>1 DEF Pongs
  <2>3. pong'.pending /\ pong'.data = CloseAnswer(f)
    BY <1>2, <1>5, <2>1 DEF CloseAnswer
  <2>4. /\ Frames' = Frames /\ \A g : FrameData(g)' = FrameData(g)
        /\ \A g : CloseAnswer(g)' = CloseAnswer(g)
    BY Fixed, CloseAnswerFixed
  <2>5. \E fr \in [1..Len(replies') -> 0..Len(Frames')] : Pongs(replies, fr, Len(Frames) + 1)'
    <3>1. Pongs(replies, from, Len(Frames) + 1)'
      BY <2>1, <2>2, <2>4 DEF Pongs
    <3> QED BY <2>1, <2>4, <3>1
  <2>6. CloseDue'
    BY <2>3, <2>4, <2>5 DEF CloseDue
  <2> QED BY <2>1, <2>6, Silent
<1> QED BY <1>4, <1>5

\* The user is told nothing of a frame that is not for him.
LEMMA TellNothing ==
    ASSUME script \in Scripts, NEW f \in 1..Len(Frames), ~Told(f)
    PROVE  Starts(Tale, f) = Starts(Tale, f - 1) + 0
BY TaleIs, OwedIs

LEMMA SpillsPing ==
    ASSUME IInv, state = "open", script' = script, InputOK, IsPong(pong),
           NEW f \in 1..Len(Frames), NEW o \in Nat, InStepAt(f, o), reading \in {"net", "flow"},
           1 \in 1..Len(buf), o + 1 <= Size(f), Frames[f].op = "ping", NEW p, Fills(p, f, o + 1),
           SpillPing(p)
    PROVE  IInv'
<1>0. script \in Scripts
  BY DEF IInv
<1>1. Len(Frames) \in Nat /\ f \in 1..Len(Frames) + 1
  BY <1>0, FrameIs
<1>2. /\ Position(f, o) /\ NoCloseBefore(f) /\ Answers(replies, pong, f)
      /\ Flat(received) = SubSeq(Expected, 1, Starts(Tale, f - 1) + Spilled(rx, f, o))
  BY DEF InStepAt, Telling
<1>3. SpillAt(p, f, (o + 1) - DataAt(f)) /\ Spilled(rx, f, (o + 1) - 1) = 0 /\ ~Told(f)
  BY DEF Fills, Told, Data
<1>4. (o + 1) - DataAt(f) = Frames[f].len /\ p.ubuf = FrameData(f)
  BY <1>0, <1>3, ControlWhole DEF Control
<1>5. o + 1 = Size(f) /\ (o + 1) - 1 = o /\ SpillAt(p, f, Frames[f].len)
  <2>1. DataAt(f) \in Nat /\ Frames[f].len \in Nat /\ Size(f) = DataAt(f) + Frames[f].len
    BY <1>0, FrameIs DEF Size
  <2>2. o + 1 = Size(f) /\ (o + 1) - 1 = o
    BY <1>4, <2>1
  <2> QED BY <1>3, <1>4, <2>2
<1>6. Flat(received) = SubSeq(Expected, 1, Starts(Tale, f))
  BY <1>0, <1>2, <1>3, <1>5, TellNothing
<1>7. rx' = Emptied(p) /\ Use(1) /\ state' = state /\ received' = received /\ replies' = replies
  BY DEF SpillPing, Stash, Quiet
<1>8. IsPong(pong') /\ Answers(replies', pong', f + 1)
  <2>1. CASE pong.pending
    <3>1. pong' = pong
      BY <2>1 DEF SpillPing, Quiet
    <3> QED BY <1>1, <1>2, <1>7, <3>1, AnswersOn
  <2>2. CASE ~pong.pending
    <3>1. pong' = [pending |-> TRUE, close |-> FALSE, data |-> p.ubuf]
      BY <2>2 DEF SpillPing, Stash
    <3>2. IsPong(pong')
      BY <3>1 DEF IsPong
    <3>3. PICK q : q = pong'
      OBVIOUS
    <3>4. q.data = FrameData(f)
      BY <1>4, <3>1, <3>3
    <3>5. Answers(replies, q, f + 1)
      BY <1>1, <1>2, <3>4, PingStashed
    <3> QED BY <1>7, <3>2, <3>3, <3>5
  <2> QED BY <2>1, <2>2
<1>9. Frames[f].op # "close" /\ Flat(received') = SubSeq(Expected, 1, Starts(Tale, f))
  BY <1>6, <1>7
<1>10. IsInStep'
  BY <1>0, <1>2, <1>5, <1>7, <1>8, <1>9, LandsNext
<1> QED BY <1>7, <1>10, Silent

LEMMA SpillsData ==
    ASSUME IInv, state = "open", script' = script, InputOK, IsPong(pong),
           NEW f \in 1..Len(Frames), NEW o \in Nat, InStepAt(f, o), reading \in {"net", "flow"},
           1 \in 1..Len(buf), o + 1 <= Size(f), Frames[f].op \in Data \cup {"pong"},
           NEW p, Fills(p, f, o + 1), SpillData(p)
    PROVE  IInv'
<1> DEFINE n == (o + 1) - DataAt(f)
           len == Frames[f].len
           a == n - Len(p.ubuf)
<1>0. script \in Scripts /\ Callbacks(received) /\ IsSeq(replies)
  BY DEF IInv
<1>1. /\ Len(Frames) \in Nat /\ f \in 1..Len(Frames) + 1 /\ len \in Nat /\ DataAt(f) \in Nat
      /\ Size(f) = DataAt(f) + len /\ Frames[f].op # "close" /\ (o + 1) - 1 = o
  BY <1>0, FrameIs DEF Size, Data
<1>2. /\ Position(f, o) /\ NoCloseBefore(f) /\ Answers(replies, pong, f)
      /\ Flat(received) = SubSeq(Expected, 1, Starts(Tale, f - 1) + Spilled(rx, f, o))
  BY DEF InStepAt, Telling
<1>3. SpillAt(p, f, n) /\ Spilled(rx, f, o) = IF Told(f) THEN a ELSE 0
  BY <1>1 DEF Fills
<1>4. /\ n \in 0..len /\ IsSeq(p.ubuf) /\ Len(p.ubuf) \in Nat /\ Len(p.ubuf) <= n
      /\ p.ubuf = SubSeq(FrameData(f), a + 1, n) /\ p.left = len - n /\ p.op = Frames[f].op
      /\ p.binary = IsBinary(f) /\ (len > 0 => Len(p.ubuf) > 0)
  BY <1>3 DEF SpillAt, IsRun, IsSeq, DataFrom, OfFrame
<1> HIDE DEF n, len, a
<1>5. a \in Nat /\ a <= n /\ n \in Nat /\ (p.left > 0 <=> n < len)
  <2>1. len \in Nat
    BY ONLY <1>1
  <2>2. n \in 0..len /\ Len(p.ubuf) \in Nat /\ Len(p.ubuf) <= n /\ p.left = len - n
    BY ONLY <1>4
  <2> QED BY ONLY <2>1, <2>2 DEF a
<1>6. rx' = Emptied(p) /\ Use(1) /\ state' = state /\ pong' = pong /\ replies' = replies
  BY DEF SpillData
<1>7. IsPong(pong') /\ Answers(replies', pong', f) /\ Answers(replies', pong', f + 1)
  BY <1>1, <1>2, <1>6, AnswersOn
<1>8. Reported(p) <=> Told(f)
  <2>1. \A g \in 1..f : Frames[g].op # "close"
    <3> SUFFICES ASSUME NEW g \in 1..f PROVE Frames[g].op # "close"
      OBVIOUS
    <3>1. g = f \/ g \in 1..f-1
      OBVIOUS
    <3> QED BY <1>1, <1>2, <3>1 DEF NoCloseBefore
  <2>2. p.ubuf = <<>> <=> len = 0
    <3>0. len \in Nat /\ Len(p.ubuf) \in Nat /\ (len > 0 => Len(p.ubuf) > 0)
      BY ONLY <1>1, <1>4
    <3>00. n \in 0..len /\ Len(p.ubuf) <= n
      BY ONLY <1>4
    <3>1. Len(p.ubuf) = 0 <=> len = 0
      BY ONLY <3>0, <3>00
    <3>2. Len(p.ubuf) = 0 <=> p.ubuf = <<>>
      BY <1>4, Nothing, OnlyNothing
    <3> QED BY <3>1, <3>2
  <2>3. len > 0 <=> len # 0
    BY <1>1
  <2> QED BY <1>4, <2>1, <2>2, <2>3 DEF Reported, Told, len
<1>9. CASE ~Told(f)
  <2>1. received' = received
    BY <1>8, <1>9 DEF SpillData
  <2>2. Flat(received') = SubSeq(Expected, 1, Starts(Tale, f))
    BY <1>0, <1>2, <1>3, <1>9, <2>1, TellNothing
  <2>3. n = len
    <3>1. len = 0
      <4>1. ~(len > 0)
        <5>1. \A g \in 1..f : Frames[g].op # "close"
          <6> SUFFICES ASSUME NEW g \in 1..f PROVE Frames[g].op # "close"
            OBVIOUS
          <6>1. g = f \/ g \in 1..f-1
            OBVIOUS
          <6> QED BY <1>1, <1>2, <6>1 DEF NoCloseBefore
        <5> QED BY <1>9, <5>1 DEF Told, len
      <4> QED BY <1>1, <4>1
    <3> QED BY <1>4, <3>1
  <2>4. o + 1 = Size(f) /\ SpillAt(p, f, Frames[f].len)
    <3>1. o + 1 = Size(f)
      BY <1>1, <2>3 DEF n
    <3> QED BY <1>3, <2>3, <3>1 DEF len
  <2>5. IsInStep'
    BY <1>0, <1>1, <1>2, <1>6, <1>7, <2>2, <2>4, LandsNext
  <2> QED BY <1>6, <2>1, <2>5, Silent
<1>10. CASE Told(f)
  <2>0. PICK t, m : t = (IF p.op = "pong" THEN "pong" ELSE "data") /\ m = (p.left > 0)
    OBVIOUS
  <2> DEFINE c == [op |-> t, binary |-> p.binary, data |-> p.ubuf, more |-> m]
  <2>1. received' = Append(received, c)
    BY <1>8, <1>10, <2>0 DEF SpillData
  <2>2. /\ c.op = (IF Frames[f].op = "pong" THEN "pong" ELSE "data") /\ c.binary = IsBinary(f)
        /\ c.data = SubSeq(FrameData(f), a + 1, n) /\ c.more \in BOOLEAN /\ (c.more <=> n < len)
    <3>1. c.op = t /\ c.binary = p.binary /\ c.data = p.ubuf /\ c.more = m
      BY ONLY DEF c
    <3> HIDE DEF c
    <3>2. t = IF Frames[f].op = "pong" THEN "pong" ELSE "data"
      BY ONLY <1>4, <2>0
    <3>3. m \in BOOLEAN /\ (m <=> n < len)
      <4>1. (p.left > 0) \in BOOLEAN
        BY <1>1, <1>4
      <4>2. m \in BOOLEAN /\ (m <=> p.left > 0)
        BY ONLY <2>0, <4>1, Zenon
      <4> QED BY <1>5, <4>2
    <3> QED BY <1>4, <3>1, <3>2, <3>3
  <2> HIDE DEF c
  <2>3. Flat(received) = SubSeq(Expected, 1, Starts(Tale, f - 1) + a)
    BY <1>2, <1>3, <1>10
  <2>4. /\ Callbacks(Append(received, c))
        /\ c.more => Flat(Append(received, c)) = SubSeq(Expected, 1, Starts(Tale, f - 1) + n)
        /\ ~c.more => Flat(Append(received, c)) = SubSeq(Expected, 1, Starts(Tale, f))
    <3>1. n \in 0..Frames[f].len /\ (c.more <=> n < Frames[f].len)
      BY <1>4, <2>2 DEF len
    <3> QED BY <1>0, <1>5, <1>10, <2>2, <2>3, <3>1, TellMore
  <2>5. /\ f - 1 \in 0..Len(Frames) /\ f \in 0..Len(Frames)
        /\ Starts(Tale, f - 1) \in Nat /\ Starts(Tale, f) \in Nat /\ Len(Expected) \in Nat
        /\ Starts(Tale, f) <= Len(Expected) /\ Starts(Tale, f) = Starts(Tale, f - 1) + (len + 1)
    <3>1. f - 1 \in 0..Len(Frames) /\ f \in 0..Len(Frames)
      BY <1>1
    <3>2. Len(Owed(f)) = len + 1
      BY <1>0, <1>10, OwedIs DEF len
    <3> QED BY <1>0, <3>1, <3>2, TaleIs DEF IsSeq
  <2>6. IsInStep' /\ DeliveredInOrder'
    <3>1. CASE n < len
      <4>1. o + 1 < Size(f)
        <5>1. n = (o + 1) - DataAt(f)
          BY DEF n
        <5> QED BY <1>1, <3>1, <5>1
      <4>2. Flat(received') = SubSeq(Expected, 1, Starts(Tale, f - 1) + n)
        BY <2>1, <2>2, <2>4, <3>1
      <4>3. IsInStep'
        BY <1>0, <1>2, <1>3, <1>6, <1>7, <1>10, <4>1, <4>2, LandsWithin DEF n
      <4>4. Starts(Tale, f - 1) + n \in 0..Len(Expected)
        <5>1. /\ len \in Nat /\ n \in Nat /\ n < len
              /\ Starts(Tale, f - 1) \in Nat /\ Starts(Tale, f) \in Nat /\ Len(Expected) \in Nat
              /\ Starts(Tale, f) <= Len(Expected)
              /\ Starts(Tale, f) = Starts(Tale, f - 1) + (len + 1)
          BY <1>1, <1>5, <2>5, <3>1
        <5> QED BY ONLY <5>1
      <4> QED BY <1>0, <4>2, <4>3, <4>4, ToldPrefix
    <3>2. CASE ~(n < len)
      <4>1. n = len
        BY <1>1, <1>4, <3>2
      <4>2. o + 1 = Size(f) /\ SpillAt(p, f, Frames[f].len)
        <5>1. o + 1 = Size(f)
          BY <1>1, <4>1 DEF n
        <5> QED BY <1>3, <4>1, <5>1 DEF len
      <4>3. Flat(received') = SubSeq(Expected, 1, Starts(Tale, f))
        BY <2>1, <2>2, <2>4, <3>2
      <4>4. IsInStep'
        BY <1>0, <1>1, <1>2, <1>6, <1>7, <4>2, <4>3, LandsNext
      <4>5. Starts(Tale, f) \in 0..Len(Expected)
        BY <2>5
      <4> QED BY <1>0, <4>3, <4>4, <4>5, ToldPrefix
    <3> QED BY <3>1, <3>2
  <2>7. RepliesEcho'
    BY <1>6, EchoIs DEF IInv
  <2>8. Callbacks(received)' /\ IsSeq(replies)'
    BY <1>0, <1>6, <2>1, <2>4 DEF Callbacks, IsSeq
  <2>9. state' = "open" /\ script' \in Scripts
    BY <1>0, <1>6
  <2> QED BY <2>6, <2>7, <2>8, <2>9 DEF IInv
<1> QED BY <1>9, <1>10

LEMMA Spills ==
    ASSUME IInv, state = "open", script' = script, InputOK, IsPong(pong),
           NEW f \in 1..Len(Frames), NEW o \in Nat, InStepAt(f, o), reading \in {"net", "flow"},
           1 \in 1..Len(buf), o + 1 <= Size(f), NEW p, Fills(p, f, o + 1), Spill(p)
    PROVE  IInv'
<1>1. SpillAt(p, f, (o + 1) - DataAt(f)) /\ Answers(replies, pong, f)
  BY DEF Fills, InStepAt
<1>2. p.op = Frames[f].op
  BY <1>1 DEF SpillAt, OfFrame
<1>3. CASE p.op = "close"
  <2>1. SpillClose(p)
    BY <1>3 DEF Spill
  <2> QED BY <1>1, <1>2, <1>3, <2>1, SpillsClose
<1>4. CASE p.op = "ping"
  <2>1. SpillPing(p)
    BY <1>4 DEF Spill
  <2> QED BY <1>2, <1>4, <2>1, SpillsPing
<1>5. CASE p.op \notin {"close", "ping"}
  <2>1. SpillData(p)
    BY <1>5 DEF Spill
  <2>2. Frames[f].op \in Data \cup {"pong"}
    BY <1>2, <1>5, FrameIs DEF Control, IInv
  <2> QED BY <2>1, <2>2, SpillsData
<1> QED BY <1>3, <1>4, <1>5

\* A byte was parsed: the parser goes on, or has a frame.
LEMMA Continues ==
    ASSUME IInv, state = "open", script' = script, InputOK, IsPong(pong),
           NEW f \in 1..Len(Frames), NEW o \in Nat, InStepAt(f, o), reading \in {"net", "flow"},
           1 \in 1..Len(buf), NEW p, Reaches(p, f, o + 1), Continue(p)
    PROVE  IInv'
<1>0. Size(f) \in Nat /\ (o + 1) - 1 = o
  BY FrameIs DEF IInv
<1>1. CASE p.at = "spill"
  <2>1. o + 1 = Size(f) /\ Fills(p, f, o + 1) /\ Spill(p)
    BY <1>1 DEF Reaches, Continue
  <2>2. o + 1 <= Size(f)
    BY <1>0, <2>1
  <2> QED BY <2>1, <2>2, Spills
<1>2. CASE p.at # "spill"
  <2>1. /\ o + 1 < Size(f) /\ ParserAt(p, f, o + 1) /\ Spilled(p, f, o + 1) = Spilled(rx, f, o)
        /\ rx' = p /\ Use(1) /\ Quiet
    BY <1>0, <1>2 DEF Reaches, Continue
  <2>2. ParserAt(rx', f, o + 1) /\ Spilled(rx', f, o + 1) = Spilled(rx, f, o)
    BY <2>1
  <2> QED BY <2>1, <2>2, Goes
<1> QED BY <1>1, <1>2

LEMMA RxSmOpen == ASSUME IInv, state = "open", RxSm PROVE IInv'
<1>1. /\ script' = script /\ script \in Scripts /\ InputOK /\ IsPong(pong)
      /\ reading # "no" /\ buf # <<>>
  BY DEF RxSm, ByteReady, IInv, IsInStep
<1>2. reading \in {"net", "flow"}
  BY <1>1 DEF InputOK
<1>3. PICK f \in 1..Len(Frames) + 1, o \in 0..Len(Whole) : InStepAt(f, o)
  BY DEF IInv, IsInStep
<1>4. o \in Nat /\ Position(f, o) /\ ParserAt(rx, f, o)
  BY <1>3 DEF InStepAt
<1>5. /\ f \in 1..Len(Frames) /\ o < Size(f) /\ Len(buf) \in Nat /\ Len(buf) # 0
      /\ \A k \in 1..Len(buf) : o + k <= Size(f) => buf[k] = EncodeFrame(f)[o + k]
  BY <1>1, <1>2, <1>4, Faces
<1>6. 1 \in 1..Len(buf) /\ Size(f) \in Nat /\ o + 1 <= Size(f)
  BY <1>1, <1>4, <1>5, FrameIs
<1>7. PICK b : b = buf[1]
  OBVIOUS
<1>8. b = EncodeFrame(f)[o + 1]
  BY <1>5, <1>6, <1>7
<1>9. rx.at = Stage(f, o)
  BY <1>4 DEF ParserAt
<1>10. \/ Illegal
       \/ \E p : Reaches(p, f, o + 1) /\ Continue(p)
       \/ o + 1 < Size(f) /\ \E p : Fills(p, f, o + 1) /\ Spill(p)
  <2>1. CASE rx.at = "op" /\ Opcode(b)
    <3>1. o = 0
      BY <1>9, <2>1 DEF Stage
    <3>2. ParserAt(rx, f, 0) /\ b = EncodeFrame(f)[1]
      BY <1>4, <1>8, <3>1
    <3>3. Illegal \/ \E p : Reaches(p, f, 1) /\ Continue(p)
      BY <1>1, <1>5, <2>1, <3>2, OpcodeStep
    <3> QED BY <3>1, <3>3
  <2>2. CASE rx.at = "len" /\ Length(b)
    <3>1. o = 1
      BY <1>9, <2>2 DEF Stage
    <3>2. ParserAt(rx, f, 1) /\ b = EncodeFrame(f)[2]
      BY <1>4, <1>8, <3>1
    <3>3. Illegal \/ \E p : Reaches(p, f, 2) /\ Continue(p)
      BY <1>1, <1>5, <2>2, <3>2, LengthStep
    <3> QED BY <3>1, <3>3
  <2>3. CASE rx.at = "ext" /\ ExtendedLength(b)
    BY <1>1, <1>4, <1>5, <1>8, <2>3, ExtendedStep
  <2>4. CASE rx.at = "key" /\ Key(b)
    BY <1>1, <1>4, <1>5, <1>8, <2>4, KeyStep
  <2>5. CASE rx.at = "payload" /\ Payload(b)
    BY <1>1, <1>4, <1>5, <1>8, <2>5, PayloadStep
  <2> QED BY <1>7, <2>1, <2>2, <2>3, <2>4, <2>5 DEF RxSm
<1>11. CASE Illegal
  BY <1>1, <1>11, Refuses
<1>12. CASE \E p : Reaches(p, f, o + 1) /\ Continue(p)
  BY <1>1, <1>2, <1>3, <1>4, <1>5, <1>6, <1>12, Continues
<1>13. CASE \E p : Fills(p, f, o + 1) /\ Spill(p)
  BY <1>1, <1>2, <1>3, <1>4, <1>5, <1>6, <1>13, Spills
<1> QED BY <1>10, <1>11, <1>12, <1>13

LEMMA BulkOpen == ASSUME IInv, state = "open", PayloadUntilLengthExhausted PROVE IInv'
<1>1. /\ script' = script /\ script \in Scripts /\ InputOK /\ IsPong(pong)
      /\ reading # "no" /\ buf # <<>> /\ rx.at = "payload" /\ BulkLength > 0 /\ Use(BulkLength) /\ Quiet
  BY DEF PayloadUntilLengthExhausted, ByteReady, IInv, IsInStep
<1>2. reading \in {"net", "flow"}
  BY <1>1 DEF InputOK
<1>3. PICK f \in 1..Len(Frames) + 1, o \in 0..Len(Whole) : InStepAt(f, o)
  BY DEF IInv, IsInStep
<1>4. o \in Nat /\ Position(f, o) /\ ParserAt(rx, f, o)
  BY <1>3 DEF InStepAt
<1>5. /\ f \in 1..Len(Frames) /\ o < Size(f) /\ Len(buf) \in Nat
      /\ \A k \in 1..Len(buf) : o + k <= Size(f) => buf[k] = EncodeFrame(f)[o + k]
  BY <1>1, <1>2, <1>4, Faces
<1>6. /\ BulkLength \in 1..Len(buf) /\ o + BulkLength < Size(f)
      /\ ParserAt(rx', f, o + BulkLength) /\ Spilled(rx', f, o + BulkLength) = Spilled(rx, f, o)
  <2>1. rx' = [rx EXCEPT
                !.ubuf = @ \o [i \in 1..BulkLength |-> Unmasked(buf[i], rx.idx + i - 1)],
                !.left = @ - BulkLength,
                !.idx = IF Plain THEN @ ELSE (@ + BulkLength) % 4]
    BY DEF PayloadUntilLengthExhausted
  <2> QED BY <1>1, <1>4, <1>5, <2>1, BulkStep
<1>7. PICK n : n = BulkLength
  OBVIOUS
<1>8. /\ n \in 1..Len(buf) /\ o + n < Size(f) /\ Use(n)
      /\ ParserAt(rx', f, o + n) /\ Spilled(rx', f, o + n) = Spilled(rx, f, o)
  BY <1>1, <1>6, <1>7
<1> QED BY <1>1, <1>2, <1>3, <1>4, <1>5, <1>8, Goes

-----------------------------------------------------------------------------
(* The steps that move input, or write *)

LEMMA NothingFirst ==
    ASSUME NEW s, IsSeq(s)
    PROVE  <<>> \o s = s
<1>1. /\ IsSeq(<<>> \o s) /\ Len(<<>>) = 0 /\ Len(s) \in Nat /\ Len(<<>> \o s) = Len(<<>>) + Len(s)
      /\ \A i \in 1..Len(s) : (<<>> \o s)[Len(<<>>) + i] = s[i]
  BY Nothing, Ends
<1>2. Len(<<>> \o s) = Len(s) /\ \A i \in 1..Len(s) : (<<>> \o s)[i] = s[i]
  <2>1. \A i \in 1..Len(s) : Len(<<>>) + i = i
    BY <1>1
  <2> QED BY <1>1, <2>1
<1> QED BY <1>1, <1>2, SameSeq

\* A sequence is what it begins with, and the rest.
LEMMA CutInTwo ==
    ASSUME NEW s, IsSeq(s), NEW n \in 0..Len(s)
    PROVE  /\ IsSeq(SubSeq(s, 1, n)) /\ IsSeq(SubSeq(s, n + 1, Len(s)))
           /\ SubSeq(s, 1, n) \o SubSeq(s, n + 1, Len(s)) = s
<1> DEFINE l == Len(s)
           a == SubSeq(s, 1, n)
           b == SubSeq(s, n + 1, l)
<1>0. l \in Nat /\ n \in Nat /\ n <= l /\ 1 \in Nat \ {0} /\ n + 1 \in Nat \ {0} /\ l \in 0..l
  BY DEF IsSeq
<1>1. IsSeq(a) /\ Len(a) = n /\ \A i \in 1..n : a[i] = s[i]
  <2>1. /\ IsSeq(a) /\ Len(a) = IF 1 <= n THEN n - 1 + 1 ELSE 0
        /\ \A i \in 1..(n - 1 + 1) : a[i] = s[1 + i - 1]
    BY <1>0, Part
  <2> HIDE DEF a
  <2> QED BY <1>0, <2>1
<1>2. IsSeq(b) /\ Len(b) = l - n /\ \A i \in 1..(l - n) : b[i] = s[n + i]
  <2>1. /\ IsSeq(b) /\ Len(b) = IF n + 1 <= l THEN l - (n + 1) + 1 ELSE 0
        /\ \A i \in 1..(l - (n + 1) + 1) : b[i] = s[(n + 1) + i - 1]
    BY <1>0, Part
  <2> HIDE DEF b, l
  <2>2. \A i \in 1..(l - n) : i \in 1..(l - (n + 1) + 1) /\ (n + 1) + i - 1 = n + i
    BY <1>0
  <2>3. Len(b) = l - n
    BY <1>0, <2>1
  <2> QED BY <2>1, <2>2, <2>3
<1> HIDE DEF a, b, l
<1>3. /\ IsSeq(a \o b) /\ Len(a \o b) = Len(a) + Len(b)
      /\ \A i \in 1..Len(a) : (a \o b)[i] = a[i]
      /\ \A i \in 1..Len(b) : (a \o b)[Len(a) + i] = b[i]
  <2>1. IsSeq(a) /\ IsSeq(b)
    BY <1>1, <1>2
  <2> QED BY ONLY <2>1, Ends
<1>4. ASSUME NEW i \in 1..l PROVE (a \o b)[i] = s[i]
  <2>1. CASE i <= n
    <3>1. i \in 1..n
      BY <1>0, <2>1
    <3> QED BY <1>1, <1>3, <3>1
  <2>2. CASE ~(i <= n)
    <3>1. i - n \in 1..(l - n) /\ n + (i - n) = i
      BY <1>0, <2>2
    <3> QED BY <1>1, <1>2, <1>3, <3>1
  <2> QED BY <2>1, <2>2
<1>5. Len(a \o b) = l
  BY <1>0, <1>1, <1>2, <1>3
<1>6. a \o b = s
  BY <1>3, <1>4, <1>5, SameSeq DEF l
<1> QED BY <1>1, <1>2, <1>6 DEF a, b, l

\* Nothing is kept.
LEMMA NoneKept ==
    ASSUME InputOK, flow = <<>>
    PROVE  Kept = <<>>
<1>1. pos = 0 /\ Len(flow) = 0
  BY Nothing DEF InputOK
<1>2. SubSeq(flow, 0 + 1, Len(flow)) = flow
  BY <1>1, Whole1, Nothing
<1> QED BY <1>1, <1>2 DEF Kept

\* What is unused stays so, and the receiver is still in step.
LEMMA StillInStep ==
    ASSUME IInv, state = "open", script' = script, InputOK', Unused' = Unused, rx' = rx,
           received' = received, IsPong(pong'),
           \A f \in 1..Len(Frames) + 1 : Answers(replies, pong, f) => Answers(replies', pong', f)
    PROVE  IsInStep'
<1>1. PICK f \in 1..Len(Frames) + 1, o \in 0..Len(Whole) : InStepAt(f, o)
  BY DEF IInv, IsInStep
<1>2. /\ Position(f, o) /\ ParserAt(rx, f, o) /\ NoCloseBefore(f) /\ Answers(replies, pong, f)
      /\ Flat(received) = SubSeq(Expected, 1, Starts(Tale, f - 1) + Spilled(rx, f, o))
  BY <1>1 DEF InStepAt, Telling
<1>3. /\ Frames' = Frames /\ Whole' = Whole /\ Bytes' = Bytes /\ Size(f)' = Size(f)
      /\ Starts(Bytes, f - 1)' = Starts(Bytes, f - 1)
  BY Fixed
<1>4. Position(f, o)'
  BY <1>2, <1>3 DEF Position
<1>5. ParserAt(rx', f, o) /\ Spilled(rx', f, o) = Spilled(rx, f, o)
  BY <1>2
<1>6. Flat(received') = SubSeq(Expected, 1, Starts(Tale, f - 1) + Spilled(rx', f, o))
  BY <1>2, <1>5
<1>7. Answers(replies', pong', f)
  BY <1>2
<1>8. script \in Scripts
  BY DEF IInv
<1> QED BY <1>1, <1>2, <1>4, <1>5, <1>6, <1>7, <1>8, Arrives

LEMMA CacheInput ==
    ASSUME InputOK, RxflowCache
    PROVE  InputOK' /\ Unused' = Unused
<1>1. /\ reading \in {"net", "flow"} /\ buf # <<>> /\ buf' = <<>> /\ reading' = "no" /\ wire' = wire
      /\ IF flow # <<>> THEN flow' = flow /\ pos' = pos ELSE flow' = buf /\ pos' = 0
  BY DEF RxflowCache, InputOK, Held
<1>2. CASE flow # <<>>
  <2>1. reading = "flow" /\ buf = Kept /\ flow' = flow /\ pos' = pos
    BY <1>1, <1>2 DEF InputOK
  <2>2. InputOK'
    BY <1>1, <2>1, Nothing DEF InputOK
  <2>3. Kept' = Kept
    BY <2>1 DEF Kept
  <2> QED BY <1>1, <2>1, <2>2, <2>3 DEF Unused
<1>3. CASE flow = <<>>
  <2>1. reading = "net"
    BY <1>1, <1>3, NoneKept DEF InputOK
  <2>2. flow' = buf /\ pos' = 0 /\ IsSeq(buf)
    BY <1>1, <1>3 DEF InputOK
  <2>3. Kept' = buf
    <3>1. SubSeq(buf, 0 + 1, Len(buf)) = buf
      BY <2>2, Whole1
    <3> QED BY <2>2, <3>1 DEF Kept
  <2>4. 0 \in 0..Len(buf)
    BY <2>2 DEF IsSeq
  <2>5. InputOK'
    BY <1>1, <2>2, <2>4, Nothing DEF InputOK
  <2> QED BY <1>1, <2>1, <2>3, <2>5 DEF Unused
<1> QED BY <1>2, <1>3

LEMMA EndInput ==
    ASSUME InputOK, EndRead
    PROVE  InputOK' /\ Unused' = Unused
<1>1. /\ reading \in {"net", "flow"} /\ buf = <<>> /\ buf' = <<>> /\ reading' = "no" /\ wire' = wire
      /\ \/ flow' = flow /\ pos' = pos
         \/ reading = "flow" /\ flow' = <<>> /\ pos' = 0
  BY DEF EndRead
<1>2. Kept = <<>>
  BY <1>1, NoneKept DEF InputOK
<1>3. InputOK' /\ Kept' = <<>>
  <2>1. CASE flow' = flow /\ pos' = pos
    <3>1. InputOK'
      BY <1>1, <2>1 DEF InputOK
    <3> QED BY <1>2, <2>1, <3>1 DEF Kept
  <2>2. CASE flow' = <<>> /\ pos' = 0
    <3>1. SubSeq(<<>>, 0 + 1, Len(<<>>)) = <<>>
      BY Nothing, Whole1
    <3>2. 0 \in 0..Len(<<>>)
      BY Nothing
    <3>3. InputOK'
      BY <1>1, <2>2, <3>2, Nothing DEF InputOK
    <3> QED BY <2>2, <3>1, <3>3 DEF Kept
  <2> QED BY <1>1, <2>1, <2>2
<1> QED BY <1>1, <1>2, <1>3 DEF Unused

LEMMA ReadInput ==
    ASSUME InputOK, state = "open", Read
    PROVE  InputOK' /\ Unused' = Unused
<1>0. reading = "served" /\ buf = <<>> /\ IsSeq(wire)
  BY DEF Read, InputOK
<1>1. \/ reading' = "no" /\ wire' = wire /\ buf' = buf /\ flow' = flow /\ pos' = pos
      \/ reading' = "flow" /\ buf' = Kept /\ wire' = wire /\ flow' = flow /\ pos' = pos
      \/ /\ flow = <<>> /\ flow' = flow /\ pos' = pos /\ reading' = "net"
         /\ \E n \in 1..Len(wire) : wire' = SubSeq(wire, n + 1, Len(wire)) /\ buf' = SubSeq(wire, 1, n)
  BY DEF Read, ReadOn, Held, Kept
<1>2. CASE reading' = "no" /\ wire' = wire /\ buf' = buf /\ flow' = flow /\ pos' = pos
  <2>1. InputOK'
    BY <1>0, <1>2 DEF InputOK
  <2> QED BY <1>0, <1>2, <2>1 DEF Unused, Kept
<1>3. CASE reading' = "flow" /\ buf' = Kept /\ wire' = wire /\ flow' = flow /\ pos' = pos
  <2>1. Kept' = Kept
    BY <1>3 DEF Kept
  <2>2. IsSeq(Kept)
    <3>1. IsSeq(flow) /\ pos \in 0..Len(flow) /\ Len(flow) \in Nat
      BY DEF InputOK, IsSeq
    <3>2. 0 \in 0..(Len(flow) - pos)
      BY <3>1
    <3> QED BY <3>1, <3>2, DropDrop DEF Kept
  <2>3. InputOK'
    BY <1>0, <1>3, <2>1, <2>2 DEF InputOK
  <2> QED BY <1>0, <1>3, <2>1, <2>3 DEF Unused
<1>4. CASE /\ flow = <<>> /\ flow' = flow /\ pos' = pos /\ reading' = "net"
           /\ \E n \in 1..Len(wire) : wire' = SubSeq(wire, n + 1, Len(wire)) /\ buf' = SubSeq(wire, 1, n)
  <2>1. PICK n \in 1..Len(wire) : wire' = SubSeq(wire, n + 1, Len(wire)) /\ buf' = SubSeq(wire, 1, n)
    BY <1>4
  <2>2. n \in 0..Len(wire)
    BY <1>0 DEF IsSeq
  <2>3. IsSeq(buf') /\ IsSeq(wire') /\ buf' \o wire' = wire
    BY <1>0, <2>1, <2>2, CutInTwo
  <2>4. InputOK'
    BY <1>4, <2>3 DEF InputOK
  <2>5. Unused = wire
    BY <1>0, <1>4, NoneKept, NothingFirst DEF Unused
  <2>6. Unused' = buf' \o wire'
    BY <1>4 DEF Unused
  <2> QED BY <2>3, <2>4, <2>5, <2>6
<1> QED BY <1>1, <1>2, <1>3, <1>4

LEMMA CloseStillDue ==
    ASSUME script' = script, replies' = replies, pong' = pong, CloseDue
    PROVE  CloseDue'
<1>1. /\ Frames' = Frames /\ \A g : FrameData(g)' = FrameData(g)
      /\ \A g : CloseAnswer(g)' = CloseAnswer(g)
  BY Fixed, CloseAnswerFixed
<1>2. PICK from \in [1..Len(replies) -> 0..Len(Frames)] : Pongs(replies, from, Len(Frames) + 1)
  BY DEF CloseDue
<1>3. Pongs(replies, from, Len(Frames) + 1)'
  BY <1>1, <1>2 DEF Pongs
<1>4. from \in [1..Len(replies) -> 0..Len(Frames)]'
  BY <1>1
<1>5. PICK g \in 1..Len(Frames) : Frames[g].op = "close" /\ pong.data = CloseAnswer(g)
  BY DEF CloseDue
<1>6. g \in (1..Len(Frames))' /\ (Frames[g].op = "close" /\ pong.data = CloseAnswer(g))'
  BY <1>1, <1>5
<1>7. (pong.pending)'
  BY DEF CloseDue
<1> QED BY <1>3, <1>4, <1>6, <1>7 DEF CloseDue

\* The steps that only move input
LEMMA InputMoves ==
    ASSUME IInv, script' = script, state' = state, rx' = rx, pong' = pong,
           received' = received, replies' = replies,
           state = "open" => InputOK' /\ Unused' = Unused
    PROVE  IInv'
<1>1. state' = "open" => IsInStep'
  <2> SUFFICES ASSUME state = "open" PROVE IsInStep'
    OBVIOUS
  <2>1. IsPong(pong') /\ \A f \in 1..Len(Frames) + 1 :
          Answers(replies, pong, f) => Answers(replies', pong', f)
    BY DEF IInv, IsInStep
  <2> QED BY <2>1, StillInStep
<1>2. state' = "returned" => CloseDue'
  BY CloseStillDue DEF IInv
<1>3. state' \in {"open", "awaiting", "returned", "closed"}
  BY DEF IInv
<1> QED BY <1>1, <1>2, <1>3, Silent

LEMMA ReadStep == ASSUME IInv, Read PROVE IInv'
<1>1. /\ script' = script /\ state' = state /\ rx' = rx /\ pong' = pong
      /\ received' = received /\ replies' = replies
  BY DEF Read
<1>2. state = "open" => InputOK
  BY DEF IInv, IsInStep
<1> QED BY <1>1, <1>2, ReadInput, InputMoves

LEMMA CacheStep == ASSUME IInv, RxflowCache PROVE IInv'
<1>1. /\ script' = script /\ state' = state /\ rx' = rx /\ pong' = pong
      /\ received' = received /\ replies' = replies
  BY DEF RxflowCache
<1>2. state = "open" => InputOK
  BY DEF IInv, IsInStep
<1> QED BY <1>1, <1>2, CacheInput, InputMoves

LEMMA EndStep == ASSUME IInv, EndRead PROVE IInv'
<1>1. /\ script' = script /\ state' = state /\ rx' = rx /\ pong' = pong
      /\ received' = received /\ replies' = replies
  BY DEF EndRead
<1>2. state = "open" => InputOK
  BY DEF IInv, IsInStep
<1> QED BY <1>1, <1>2, EndInput, InputMoves

\* What was told stays, and what was answered is right.
LEMMA Replied ==
    ASSUME IInv, script' = script, received' = received,
           IsSeq(replies'), Echo(replies'), state' \in {"open", "awaiting", "closed"},
           state' = "open" => IsInStep'
    PROVE  IInv'
<1>1. DeliveredInOrder'
  <2>1. Expected' = Expected
    BY Fixed
  <2>2. Flat(received') = Flat(received)
    OBVIOUS
  <2> QED BY <2>1, <2>2 DEF IInv, DeliveredInOrder
<1>2. RepliesEcho'
  BY EchoIs
<1>3. Callbacks(received)' /\ IsSeq(replies)' /\ script' \in Scripts
  BY DEF IInv, Callbacks, IsSeq
<1> QED BY <1>1, <1>2, <1>3 DEF IInv

\* A close is the last reply.
LEMMA LastReply ==
    ASSUME IInv, script' = script, received' = received,
           NEW f \in 1..Len(Frames) + 1, NEW from \in [1..Len(replies) -> 0..Len(Frames)],
           Pongs(replies, from, f), NEW d, replies' = Append(replies, [op |-> "close", data |-> d]),
           NEW g \in 0..Len(Frames),
           script.closes \/ (g # 0 /\ Frames[g].op = "close" /\ d = CloseAnswer(g)),
           state' \in {"awaiting", "closed"}
    PROVE  IInv'
<1>1. Len(Frames) \in Nat /\ IsSeq(replies)
  BY FrameIs DEF IInv
<1>2. PICK c : c = [op |-> "close", data |-> d]
  OBVIOUS
<1>3. c.op = "close" /\ c.data = d
  BY ONLY <1>2
<1>4. Echo(Append(replies, c)) /\ IsSeq(Append(replies, c))
  BY <1>1, <1>3, CloseEchoes
<1>5. Echo(replies') /\ IsSeq(replies')
  BY <1>2, <1>4
<1> QED BY <1>5, Replied

LEMMA CloseFirstStep == ASSUME IInv, CloseFirst PROVE IInv'
<1>1. /\ script' = script /\ received' = received /\ state = "open" /\ script.closes
      /\ state' = "awaiting" /\ replies' = Append(replies, [op |-> "close", data |-> <<>>])
  BY DEF CloseFirst
<1>2. PICK f \in 1..Len(Frames) + 1, o \in 0..Len(Whole) : InStepAt(f, o)
  BY <1>1 DEF IInv, IsInStep
<1>3. PICK from \in [1..Len(replies) -> 0..Len(Frames)] : Pongs(replies, from, f)
  BY <1>2 DEF InStepAt, Answers
<1>4. 0 \in 0..Len(Frames)
  BY FrameIs DEF IInv
<1> QED BY <1>1, <1>3, <1>4, LastReply

LEMMA ServeStep == ASSUME IInv, Serve PROVE IInv'
<1>1. reading = "no" /\ script' = script /\ rx' = rx /\ received' = received
  BY DEF Serve
<1>2. CASE /\ state = "returned" /\ replies' = Append(replies, [op |-> "close", data |-> pong.data])
           /\ CloseFree
  <2>1. CloseDue /\ Len(Frames) \in Nat
    BY <1>2, FrameIs DEF IInv
  <2>2. PICK from \in [1..Len(replies) -> 0..Len(Frames)] : Pongs(replies, from, Len(Frames) + 1)
    BY <2>1 DEF CloseDue
  <2>3. PICK g \in 1..Len(Frames) : Frames[g].op = "close" /\ pong.data = CloseAnswer(g)
    BY <2>1 DEF CloseDue
  <2>4. Len(Frames) + 1 \in 1..Len(Frames) + 1 /\ g \in 0..Len(Frames) /\ g # 0
    BY <2>1
  <2>5. state' = "closed"
    BY <1>2 DEF CloseFree
  <2>6. PICK d : d = pong.data
    OBVIOUS
  <2>7. replies' = Append(replies, [op |-> "close", data |-> d]) /\ d = CloseAnswer(g)
    BY <1>2, <2>3, <2>6
  <2> QED BY <1>1, <2>2, <2>3, <2>4, <2>5, <2>7, LastReply
<1>3. CASE /\ reading' = "served" /\ wire' = wire /\ buf' = buf /\ flow' = flow /\ pos' = pos
           /\ state' = state /\ pong' = pong /\ replies' = replies
  <2>1. ASSUME state = "open" PROVE InputOK' /\ Unused' = Unused
    <3>1. InputOK
      BY <2>1 DEF IInv, IsInStep
    <3>2. InputOK'
      BY <1>1, <1>3, <3>1 DEF InputOK
    <3> QED BY <1>1, <1>3, <3>2 DEF Unused, Kept
  <2> QED BY <1>1, <1>3, <2>1, InputMoves
<1>4. CASE /\ state = "open" /\ pong.pending
           /\ replies' = Append(replies, [op |-> "pong", data |-> pong.data])
           /\ pong' = [pong EXCEPT !.pending = FALSE] /\ reading' = "served"
           /\ wire' = wire /\ buf' = buf /\ flow' = flow /\ pos' = pos /\ state' = state
  <2>1. InputOK /\ IsPong(pong) /\ IsSeq(replies) /\ Len(Frames) \in Nat
    BY <1>4, FrameIs DEF IInv, IsInStep
  <2>2. InputOK' /\ Unused' = Unused
    <3>1. InputOK'
      BY <1>1, <1>4, <2>1 DEF InputOK
    <3> QED BY <1>1, <1>4, <3>1 DEF Unused, Kept
  <2>3. PICK d, q, p, c : /\ d = pong.data /\ q = pong /\ p = pong'
                          /\ c = [op |-> "pong", data |-> d]
    OBVIOUS
  <2>4. c.op = "pong" /\ c.data = q.data /\ q.pending /\ replies' = Append(replies, c)
    <3>1. c.op = "pong" /\ c.data = d
      BY ONLY <2>3
    <3> QED BY <1>4, <2>3, <3>1
  <2>5. IsPong(p) /\ ~p.pending
    <3>1. IsPong(q) /\ p = [q EXCEPT !.pending = FALSE]
      BY <1>4, <2>1, <2>3
    <3> QED BY ONLY <3>1 DEF IsPong
  <2>6. \A f \in 1..Len(Frames) + 1 : Answers(replies, q, f) =>
          Answers(Append(replies, c), p, f) /\ Echo(Append(replies, c)) /\ IsSeq(Append(replies, c))
    BY <2>1, <2>4, <2>5, PongSent
  <2>7. IsInStep'
    <3>1. IsPong(pong') /\ \A f \in 1..Len(Frames) + 1 :
            Answers(replies, pong, f) => Answers(replies', pong', f)
      BY <2>3, <2>4, <2>5, <2>6
    <3> QED BY <1>1, <1>4, <2>2, <3>1, StillInStep
  <2>8. \E f \in 1..Len(Frames) + 1 : Answers(replies, q, f)
    BY <1>4, <2>3 DEF IInv, IsInStep, InStepAt
  <2>9. Echo(replies') /\ IsSeq(replies')
    BY <2>4, <2>6, <2>8
  <2> QED BY <1>1, <1>4, <2>7, <2>9, Replied
<1> QED BY <1>2, <1>3, <1>4 DEF Serve, HandlePollout

-----------------------------------------------------------------------------
(* The parser once the connection closes *)

LEMMA SpillClosing ==
    ASSUME state # "open", NEW p, Spill(p)
    PROVE  /\ received' = received /\ replies' = replies /\ state' \in {state, "closed"}
           /\ pong.pending => pong' = pong
<1>1. CASE SpillClose(p)
  BY <1>1 DEF SpillClose, Illegal, CloseFree
<1>2. CASE SpillPing(p)
  BY <1>2 DEF SpillPing, Stash, Quiet
<1>3. CASE SpillData(p)
  BY <1>3 DEF SpillData, Reported
<1> QED BY <1>1, <1>2, <1>3 DEF Spill

LEMMA ContinueClosing ==
    ASSUME state # "open", NEW p, Continue(p)
    PROVE  /\ received' = received /\ replies' = replies /\ state' \in {state, "closed"}
           /\ pong.pending => pong' = pong
BY SpillClosing DEF Continue, Quiet

LEMMA ParseClosing ==
    ASSUME IInv, state # "open", RxSm \/ PayloadUntilLengthExhausted
    PROVE  IInv'
<1>1. script' = script
  BY DEF RxSm, PayloadUntilLengthExhausted
<1>2. /\ received' = received /\ replies' = replies /\ state' \in {state, "closed"}
      /\ pong.pending => pong' = pong
  <2>1. CASE PayloadUntilLengthExhausted
    BY <2>1 DEF PayloadUntilLengthExhausted, Quiet
  <2>2. CASE Illegal
    BY <2>2 DEF Illegal, CloseFree
  <2>3. CASE \E p : Spill(p) \/ Continue(p)
    BY <2>3, SpillClosing, ContinueClosing
  <2>4. CASE Quiet
    BY <2>4 DEF Quiet
  <2>5. CASE RxSm
    <3>1. CASE Opcode(buf[1])
      BY <2>2, <2>4, <3>1 DEF Opcode
    <3>2. CASE Length(buf[1])
      BY <2>2, <2>3, <3>2 DEF Length
    <3>3. CASE ExtendedLength(buf[1])
      BY <2>3, <3>3 DEF ExtendedLength
    <3>4. CASE Key(buf[1])
      BY <2>3, <3>4 DEF Key
    <3>5. CASE Payload(buf[1])
      BY <2>3, <3>5 DEF Payload
    <3> QED BY <2>5, <3>1, <3>2, <3>3, <3>4, <3>5 DEF RxSm
  <2> QED BY <2>1, <2>5
<1>3. state' = "returned" => CloseDue'
  <2> SUFFICES ASSUME state' = "returned" PROVE CloseDue'
    OBVIOUS
  <2>1. state = "returned" /\ CloseDue
    BY <1>2 DEF IInv
  <2>2. pong' = pong /\ replies' = replies
    BY <1>2, <2>1 DEF CloseDue
  <2> QED BY <1>1, <2>1, <2>2, CloseStillDue
<1>4. state' \in {"awaiting", "returned", "closed"}
  BY <1>2 DEF IInv
<1> QED BY <1>1, <1>2, <1>3, <1>4, Silent

-----------------------------------------------------------------------------
(* The theorems *)

LEMMA NoneToStart ==
    ASSUME WsInit
    PROVE  /\ Flat(received) = <<>> /\ Callbacks(received)
           /\ Echo(replies) /\ IsSeq(replies) /\ Answers(replies, pong, 1)
<1>1. received = <<>> /\ replies = <<>> /\ script \in Scripts
      /\ pong = [pending |-> FALSE, close |-> FALSE, data |-> <<>>]
  BY DEF WsInit, AtStart
<1>2. 1..0 = {} /\ Len(<<>>) = 0 /\ IsSeq(<<>>)
  BY Nothing
<1>3. Callbacks(received) /\ IsSeq(replies)
  BY <1>1, <1>2 DEF Callbacks
<1>4. Flat(received) = <<>>
  <2> DEFINE ss == [k \in 1..Len(received) |-> Bytewise(received[k])]
  <2>1. Len(received) = 0
    BY <1>1, <1>2
  <2>2. ss = [i \in 1..0 |-> ss[i]]
    BY <2>1
  <2>3. IsSeq(ss) /\ Len(ss) = 0
    <3> HIDE DEF ss
    <3> QED BY <2>2, Built
  <2>4. FlattenSeq(ss) = <<>>
    <3> HIDE DEF ss
    <3> QED BY <2>3 DEF FlattenSeq
  <2> QED BY <2>4 DEF Flat
<1>5. PICK from \in [1..Len(replies) -> 0..Len(Frames)] : TRUE
  <2>1. [i \in 1..Len(replies) |-> 0] \in [1..Len(replies) -> 0..Len(Frames)]
    BY <1>1, <1>2
  <2> QED BY <2>1
<1>6. 1..Len(replies) = {}
  BY <1>1, <1>2
<1>7. Pongs(replies, from, 1) /\ Echo(replies)
  BY <1>5, <1>6 DEF Pongs, Echo
<1>8. ~pong.pending
  BY <1>1
<1>9. Answers(replies, pong, 1)
  BY <1>5, <1>7, <1>8 DEF Answers, PongDue
<1> QED BY <1>3, <1>4, <1>7, <1>9

LEMMA NewInStep ==
    ASSUME WsInit
    PROVE  IsInStep
<1>1. /\ script \in Scripts /\ wire = Whole /\ buf = <<>> /\ reading = "no" /\ flow = <<>> /\ pos = 0
      /\ rx = NewParser /\ pong = [pending |-> FALSE, close |-> FALSE, data |-> <<>>]
  BY DEF WsInit, AtStart
<1>2. /\ Len(Frames) \in Nat /\ IsSeq(Whole) /\ Len(Whole) \in Nat /\ Starts(Bytes, 0) = 0
      /\ Starts(Tale, 0) = 0 /\ IsSeq(Expected) /\ 1 - 1 = 0
  BY <1>1, FrameIs, WholeIs, TaleIs DEF IsSeq
<1>3. InputOK /\ IsPong(pong)
  <2>1. 0 \in 0..Len(<<>>)
    BY Nothing
  <2>2. InputOK
    BY <1>1, <1>2, <2>1, Nothing DEF InputOK
  <2> QED BY <1>1, <2>2 DEF IsPong
<1>4. Position(1, 0)
  <2>1. Unused = Whole
    BY <1>1, <1>2, <1>3, NoneKept, NothingFirst DEF Unused
  <2>2. Starts(Bytes, 1 - 1) + 0 + 1 = 1
    BY <1>2
  <2>3. Whole = SubSeq(Whole, 1, Len(Whole))
    BY <1>2, Whole1
  <2>4. 1 = Len(Frames) + 1 \/ 0 < Size(1)
    <3>1. CASE Len(Frames) = 0
      BY <3>1
    <3>2. CASE Len(Frames) # 0
      <4>1. 1 \in 1..Len(Frames)
        BY <1>2, <3>2
      <4>2. Size(1) \in Nat /\ 2 <= KeyAt(1) /\ KeyAt(1) <= DataAt(1) /\ DataAt(1) <= Size(1)
            /\ KeyAt(1) \in Nat /\ DataAt(1) \in Nat
        BY <1>1, <4>1, FrameIs
      <4> QED BY <4>2
    <3> QED BY <3>1, <3>2
  <2> QED BY <2>1, <2>2, <2>3, <2>4 DEF Position
<1>5. ParserAt(rx, 1, 0)
  <2>1. PICK p : p = NewParser
    OBVIOUS
  <2>2. /\ IsParser(p) /\ p.at = "op" /\ p.ubuf = <<>> /\ p.mask = <<>> /\ p.zero = FALSE
        /\ p.binary = FALSE
    BY ONLY <2>1 DEF NewParser, IsParser
  <2>3. IsRun(p)
    BY <2>2, Nothing DEF IsRun
  <2>4. Stage(1, 0) = "op"
    BY DEF Stage
  <2>5. IsBinary(1 - 1) = FALSE
    <3>1. {g \in 1..(1 - 1) : Frames[g].op \in {"text", "binary"}} = {}
      BY <1>2
    <3> QED BY <3>1, Zenon DEF IsBinary
  <2>6. HeaderAt(p, 1, 0)
    <3>1. p.ubuf = <<>> /\ p.binary = IsBinary(1 - 1) /\ Len(p.mask) \in {0, 4}
      BY <2>2, <2>5, Nothing, Zenon
    <3>2. ~(0 > 0)
      OBVIOUS
    <3> QED BY ONLY <2>4, <3>1, <3>2 DEF HeaderAt
  <2>7. ParserAt(p, 1, 0)
    BY <2>2, <2>3, <2>4, <2>6 DEF ParserAt
  <2> QED BY <1>1, <2>1, <2>7
<1>6. Telling(1, 0)
  <2>1. NoCloseBefore(1)
    BY <1>2 DEF NoCloseBefore
  <2>2. Spilled(rx, 1, 0) = 0
    BY DEF Spilled
  <2>3. Starts(Tale, 1 - 1) + Spilled(rx, 1, 0) = 0
    BY <1>2, <2>2
  <2>4. SubSeq(Expected, 1, 0) = <<>>
    <3>1. 0 \in 0..Len(Expected) /\ 1 \in Nat \ {0} /\ ~(1 <= 0)
      BY <1>2 DEF IsSeq
    <3>2. IsSeq(SubSeq(Expected, 1, 0)) /\ Len(SubSeq(Expected, 1, 0)) = 0
      BY <1>2, <3>1, Part
    <3> QED BY <3>2, OnlyNothing
  <2> QED BY <2>1, <2>3, <2>4, NoneToStart DEF Telling
<1>7. InStepAt(1, 0)
  BY <1>4, <1>5, <1>6, NoneToStart DEF InStepAt
<1>8. 1 \in 1..Len(Frames) + 1 /\ 0 \in 0..Len(Whole)
  BY <1>2
<1> QED BY <1>3, <1>7, <1>8 DEF IsInStep

LEMMA WsStarts == WsInit => IInv
<1> SUFFICES ASSUME WsInit PROVE IInv
  OBVIOUS
<1>1. script \in Scripts /\ state = "open"
  BY DEF WsInit, AtStart
<1>2. IsInStep
  BY NewInStep
<1>3. Flat(received) = <<>> /\ Callbacks(received) /\ Echo(replies) /\ IsSeq(replies)
  BY NoneToStart
<1>4. RepliesEcho
  BY <1>3 DEF RepliesEcho, Echo
<1>5. DeliveredInOrder
  <2>1. IsSeq(Expected) /\ 0 \in 0..Len(Expected) /\ 1 \in Nat \ {0} /\ ~(1 <= 0)
    BY <1>1, TaleIs DEF IsSeq
  <2>2. IsSeq(SubSeq(Expected, 1, 0)) /\ Len(SubSeq(Expected, 1, 0)) = 0
    BY <2>1, Part
  <2>3. SubSeq(Expected, 1, 0) = <<>>
    BY <2>2, OnlyNothing
  <2>4. IsPrefix(SubSeq(Expected, 1, 0), Expected)
    BY <2>1, BeginningIsPrefix
  <2> QED BY <1>3, <2>3, <2>4 DEF DeliveredInOrder
<1> QED BY <1>1, <1>2, <1>3, <1>4, <1>5 DEF IInv

LEMMA WsSteps == IInv /\ [WsNext]_wsVars => IInv'
<1> SUFFICES ASSUME IInv, [WsNext]_wsVars PROVE IInv'
  OBVIOUS
<1>1. CASE Serve
  BY <1>1, ServeStep
<1>2. CASE Read
  BY <1>2, ReadStep
<1>3. CASE RxSm
  BY <1>3, RxSmOpen, ParseClosing
<1>4. CASE PayloadUntilLengthExhausted
  BY <1>4, BulkOpen, ParseClosing
<1>5. CASE RxflowCache
  BY <1>5, CacheStep
<1>6. CASE EndRead
  BY <1>6, EndStep
<1>7. CASE CloseFirst
  BY <1>7, CloseFirstStep
<1>8. CASE UNCHANGED wsVars
  <2>1. /\ script' = script /\ state' = state /\ rx' = rx /\ pong' = pong
        /\ received' = received /\ replies' = replies
        /\ wire' = wire /\ buf' = buf /\ reading' = reading /\ flow' = flow /\ pos' = pos
    BY <1>8 DEF wsVars, inputVars
  <2>2. state = "open" => InputOK' /\ Unused' = Unused
    BY <2>1 DEF IInv, IsInStep, InputOK, Unused, Kept
  <2> QED BY <2>1, <2>2, InputMoves
<1> QED BY <1>1, <1>2, <1>3, <1>4, <1>5, <1>6, <1>7, <1>8 DEF WsNext, Parse

\* The receiver stays in step with its peer: while the connection is open, the
\* parser, its buffer and what is still unread are those of one place in what
\* the peer sent (lws_rx_sm, lws_client_rx_sm, lws_rxflow_cache).
THEOREM StaysInStep == WsSpec => []IInv
<1> QED BY WsStarts, WsSteps, PTL DEF WsSpec

\* For any frames, masked with any keys, of any length, in any cut of the
\* network, with any number of stops of the flow and any size of the buffer:
\* the user is told the payload of the frames, unmasked, in order, once, and
\* with the ends and the kind of the messages (parsers.c:1222, :1455).
THEOREM PayloadDelivered == WsSpec => []DeliveredInOrder
<1>1. IInv => DeliveredInOrder
  BY DEF IInv
<1> QED BY <1>1, StaysInStep, PTL

\* Every pong echoes a ping of its own, in order, an answer to a close echoes
\* it, and nothing is written after a close (lws_handle_POLLOUT_event).
THEOREM AnswersEcho == WsSpec => []RepliesEcho
<1>1. IInv => RepliesEcho
  BY DEF IInv
<1> QED BY <1>1, StaysInStep, PTL

=============================================================================
