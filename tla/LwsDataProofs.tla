----------------------------- MODULE LwsDataProofs -----------------------------
(***************************************************************************)
(* Proofs about LwsData, for every text, table, header list and cookie.    *)
(* TLAPS has no induction over data of its own: the induction is over a    *)
(* rank (RankInduction), and the recursive definitions are shown to have   *)
(* the function they describe (RecursionExists, ObeysOnce).                *)
(***************************************************************************)
EXTENDS LwsData, SeqLemmas

(* Induction over a rank: what holds of x if it holds of all that ranks    *)
(* below x holds of all.                                                   *)
LEMMA RankInduction ==
    ASSUME NEW D, NEW rank \in [D -> Nat], NEW T,
           \A x \in D : (\A y \in D : rank[y] < rank[x] => y \in T) => x \in T
    PROVE  \A x \in D : x \in T
<1> SUFFICES ASSUME NEW z \in D, z \notin T
             PROVE  FALSE
  OBVIOUS
<1> DEFINE bad == {n \in Nat : \E x \in D : x \notin T /\ rank[x] = n}
<1>1. bad # {} /\ bad \subseteq Nat
  OBVIOUS
<1>2. PICK n \in bad : \A m \in bad : n <= m
  BY <1>1, LeastNatural
<1>3. PICK x \in D : x \notin T /\ rank[x] = n
  OBVIOUS
<1>4. \A y \in D : rank[y] < rank[x] => y \in T
  <2> SUFFICES ASSUME NEW y \in D, rank[y] < rank[x], y \notin T
               PROVE  FALSE
    OBVIOUS
  <2>1. rank[y] \in bad
    OBVIOUS
  <2> QED BY <2>1, <1>2, <1>3
<1> QED BY <1>3, <1>4

(* The number before one.                                                  *)
LEMMA Before == \A n \in Nat : n # 0 => n - 1 \in Nat /\ n - 1 < n
  OBVIOUS

(* What it means that F, which says what a recursive function yields at x, *)
(* given the function, only asks for what ranks below x.                   *)
Descends(F, D, R, rank) ==
    \A g, h \in [D -> R], x \in D :
        (\A y \in D : rank[y] < rank[x] => g[y] = h[y]) => F[<<g, x>>] = F[<<h, x>>]

(* A function that is as F says below a rank.                              *)
Obeys(h, F, D, rank, n) == \A x \in D : rank[x] < n => h[x] = F[<<h, x>>]

(* Below that rank there is only one such function.                        *)
LEMMA ObeysOnce ==
    ASSUME NEW D, NEW R, NEW rank \in [D -> Nat], NEW F, Descends(F, D, R, rank),
           NEW n \in Nat, NEW m \in Nat, m <= n,
           NEW g \in [D -> R], Obeys(g, F, D, rank, n),
           NEW h \in [D -> R], Obeys(h, F, D, rank, m)
    PROVE  \A x \in D : rank[x] < m => g[x] = h[x]
<1> DEFINE T == {x \in D : rank[x] < m => g[x] = h[x]}
<1>1. ASSUME NEW x \in D, \A y \in D : rank[y] < rank[x] => y \in T
      PROVE  x \in T
  <2> SUFFICES ASSUME rank[x] < m PROVE g[x] = h[x]
    OBVIOUS
  <2>1. \A y \in D : rank[y] < rank[x] => g[y] = h[y]
    <3>1. rank[x] \in Nat /\ \A y \in D : rank[y] \in Nat
      OBVIOUS
    <3> QED BY <3>1, <1>1
  <2>2. F[<<g, x>>] = F[<<h, x>>]
    BY <2>1 DEF Descends
  <2>3. g[x] = F[<<g, x>>]
    <3>1. rank[x] \in Nat /\ rank[x] < n
      OBVIOUS
    <3> QED BY <3>1 DEF Obeys
  <2>4. h[x] = F[<<h, x>>]
    BY DEF Obeys
  <2> QED BY <2>2, <2>3, <2>4
<1> HIDE DEF T
<1>2. \A x \in D : x \in T
  BY ONLY <1>1, RankInduction, rank \in [D -> Nat]
<1> QED BY <1>2 DEF T

(* F defines a function from D to R by recursion.                          *)
Recursive(F, D, R, rank) ==
    /\ R # {}
    /\ rank \in [D -> Nat]
    /\ \A g \in [D -> R], x \in D : F[<<g, x>>] \in R
    /\ Descends(F, D, R, rank)

(* There is such a function.                                               *)
LEMMA RecursionExists ==
    ASSUME NEW D, NEW R, NEW rank, NEW F, Recursive(F, D, R, rank)
    PROVE  \E f \in [D -> R] : \A x \in D : f[x] = F[<<f, x>>]
<1>0. /\ R # {} /\ rank \in [D -> Nat]
      /\ \A g \in [D -> R], x \in D : F[<<g, x>>] \in R
      /\ Descends(F, D, R, rank)
  BY DEF Recursive
<1> DEFINE Good(k) == {h \in [D -> R] : Obeys(h, F, D, rank, k)}
           T == {k \in Nat : Good(k) # {}}
           id == [k \in Nat |-> k]
<1>1. ASSUME NEW n \in Nat, \A m \in Nat : id[m] < id[n] => m \in T
      PROVE  n \in T
  <2>1. CASE n = 0
    <3>1. PICK r \in R : TRUE
      BY <1>0
    <3> DEFINE h == [x \in D |-> r]
    <3>2. h \in [D -> R]
      OBVIOUS
    <3>3. Obeys(h, F, D, rank, 0)
      BY <1>0 DEF Obeys
    <3> QED BY <2>1, <3>2, <3>3
  <2>2. CASE n # 0
    <3>1. n - 1 \in Nat /\ n - 1 < n
      BY <2>2, Before
    <3>2. PICK h \in [D -> R] : Obeys(h, F, D, rank, n - 1)
      BY <3>1, <1>1
    <3> DEFINE g == [x \in D |-> IF rank[x] < n - 1 THEN h[x] ELSE F[<<h, x>>]]
    <3>3. g \in [D -> R]
      <4>1. \A x \in D : F[<<h, x>>] \in R /\ h[x] \in R
        BY <1>0
      <4> QED BY <4>1
    <3>4. Obeys(g, F, D, rank, n)
      <4> SUFFICES ASSUME NEW x \in D, rank[x] < n
                   PROVE  g[x] = F[<<g, x>>]
        BY Zenon DEF Obeys
      <4>1. g[x] = F[<<h, x>>]
        BY <3>2 DEF Obeys
      <4>2. \A y \in D : rank[y] < rank[x] => g[y] = h[y]
        <5>1. rank[x] \in Nat /\ \A y \in D : rank[y] \in Nat
          BY <1>0
        <5> QED BY <5>1, <3>1
      <4> HIDE DEF g
      <4>3. F[<<g, x>>] = F[<<h, x>>]
        BY <1>0, <4>2, <3>3 DEF Descends
      <4> QED BY <4>1, <4>3
    <3> QED BY <3>3, <3>4
  <2> QED BY <2>1, <2>2
<1>2. \A n \in Nat : n \in T
  <2>1. id \in [Nat -> Nat]
    OBVIOUS
  <2> HIDE DEF T, id
  <2> QED BY ONLY <1>1, <2>1, RankInduction
<1>3. \A n \in Nat : \E h \in [D -> R] : Obeys(h, F, D, rank, n)
  BY <1>2
<1> DEFINE some(n) == CHOOSE h \in [D -> R] : Obeys(h, F, D, rank, n)
           f == [x \in D |-> some(rank[x] + 1)[x]]
<1>4. \A n \in Nat : some(n) \in [D -> R] /\ Obeys(some(n), F, D, rank, n)
  BY <1>3, Zenon
<1> HIDE DEF some
<1>5. f \in [D -> R]
  <2>1. \A x \in D : rank[x] + 1 \in Nat
    BY <1>0
  <2>2. \A x \in D : some(rank[x] + 1) \in [D -> R]
    BY <2>1, <1>4, Zenon
  <2> QED BY <2>2
<1>6. ASSUME NEW x \in D
      PROVE  f[x] = F[<<f, x>>]
  <2> DEFINE h == some(rank[x] + 1)
  <2>1. rank[x] \in Nat /\ rank[x] < rank[x] + 1 /\ rank[x] + 1 \in Nat
    BY <1>0
  <2>2. h \in [D -> R] /\ Obeys(h, F, D, rank, rank[x] + 1)
    BY <1>4, <2>1
  <2>3. f[x] = h[x] /\ h[x] = F[<<h, x>>]
    BY <2>1, <2>2 DEF Obeys
  <2>4. ASSUME NEW y \in D, rank[y] < rank[x]
        PROVE  f[y] = h[y]
    <3> DEFINE k == some(rank[y] + 1)
    <3>1. rank[y] + 1 \in Nat /\ rank[y] + 1 <= rank[x] + 1 /\ rank[y] < rank[y] + 1
      BY <1>0, <2>4, <2>1
    <3>2. k \in [D -> R] /\ Obeys(k, F, D, rank, rank[y] + 1)
      BY <1>4, <3>1
    <3>3. f[y] = k[y]
      OBVIOUS
    <3> HIDE DEF k, h, f
    <3>4. h[y] = k[y]
      BY ONLY <1>0, <2>1, <2>2, <3>1, <3>2, ObeysOnce, y \in D
    <3> QED BY <3>3, <3>4
  <2> HIDE DEF h, f
  <2>5. F[<<f, x>>] = F[<<h, x>>]
    BY <1>0, <1>5, <2>2, <2>4 DEF Descends
  <2> QED BY <2>3, <2>5
<1> QED BY <1>5, <1>6

-------------------------------------------------------------------------------
(* Sequences put together, FlattenSeq.                                     *)

(* The recursive function of FlattenSeq.                                   *)
Flats(seqs) ==
    CHOOSE flatten : flatten = [i \in 1 .. Len(seqs) |->
                                   IF i = 1 THEN seqs[i] ELSE flatten[i - 1] \o seqs[i]]

(* FlattenSeq is its last value.                                           *)
LEMMA FlattenIsFlats ==
    ASSUME NEW ss, Len(ss) # 0
    PROVE  FlattenSeq(ss) = Flats(ss)[Len(ss)]
  BY Zenon DEF FlattenSeq, Flats

(* It exists.                                                              *)
LEMMA FlatsFacts ==
    ASSUME NEW S, NEW ss \in Seq(Seq(S))
    PROVE  /\ Flats(ss) \in [1 .. Len(ss) -> Seq(S)]
           /\ \A i \in 1 .. Len(ss) :
                 Flats(ss)[i] = IF i = 1 THEN ss[i] ELSE Flats(ss)[i - 1] \o ss[i]
<1> DEFINE D == 1 .. Len(ss)
           R == Seq(S)
           rank == [i \in D |-> i]
           F == [p \in [D -> R] \X D |->
                    IF p[2] = 1 THEN ss[p[2]] ELSE p[1][p[2] - 1] \o ss[p[2]]]
<1>1. Len(ss) \in Nat /\ \A i \in D : ss[i] \in R /\ i \in Nat
  <2>1. Len(ss) \in Nat
    BY LenProperties
  <2>2. \A i \in D : ss[i] \in R
    BY ElementOfSeq
  <2> QED BY <2>1, <2>2
<1>2. rank \in [D -> Nat]
  BY <1>1
<1>3. R # {}
  BY EmptySeq
<1>4. \A i \in D : i # 1 => i - 1 \in D /\ i - 1 < i
  BY <1>1
<1>5. \A g \in [D -> R], i \in D :
         F[<<g, i>>] = IF i = 1 THEN ss[i] ELSE g[i - 1] \o ss[i]
  OBVIOUS
<1>6. ASSUME NEW g \in [D -> R], NEW i \in D
      PROVE  F[<<g, i>>] \in R
  <2>1. CASE i = 1
    BY <2>1, <1>1, <1>5
  <2>2. CASE i # 1
    <3>1. g[i - 1] \in Seq(S) /\ ss[i] \in Seq(S)
      BY <2>2, <1>1, <1>4
    <3>2. g[i - 1] \o ss[i] \in Seq(S)
      BY <3>1, ConcatProperties
    <3> QED BY <2>2, <3>2, <1>5
  <2> QED BY <2>1, <2>2
<1>7. Descends(F, D, R, rank)
  <2> SUFFICES ASSUME NEW g \in [D -> R], NEW h \in [D -> R], NEW i \in D,
                      \A j \in D : rank[j] < rank[i] => g[j] = h[j]
               PROVE  F[<<g, i>>] = F[<<h, i>>]
    BY DEF Descends
  <2>1. i # 1 => g[i - 1] = h[i - 1]
    BY <1>4
  <2> QED BY <2>1, <1>5
<1> HIDE DEF F, R, rank, D
<1>8. PICK f \in [D -> R] : \A i \in D : f[i] = F[<<f, i>>]
  <2>1. Recursive(F, D, R, rank)
    BY <1>2, <1>3, <1>6, <1>7 DEF Recursive
  <2> QED BY <2>1, RecursionExists
<1> USE DEF D
<1>9. f = [i \in 1 .. Len(ss) |-> IF i = 1 THEN ss[i] ELSE f[i - 1] \o ss[i]]
  BY <1>5, <1>8, ZenonT(60)
<1>10. Flats(ss) = [i \in 1 .. Len(ss) |->
                       IF i = 1 THEN ss[i] ELSE Flats(ss)[i - 1] \o ss[i]]
  BY <1>9, Zenon DEF Flats
<1> DEFINE q == Flats(ss)
<1> HIDE DEF q
<1>11. q = [i \in 1 .. Len(ss) |-> IF i = 1 THEN ss[i] ELSE q[i - 1] \o ss[i]]
  BY <1>10 DEF q
<1>12. \A i \in D : q[i] = IF i = 1 THEN ss[i] ELSE q[i - 1] \o ss[i]
  BY <1>11
<1> DEFINE T == {i \in D : q[i] \in R}
<1>13. ASSUME NEW i \in D, \A j \in D : rank[j] < rank[i] => j \in T
       PROVE  i \in T
  <2>1. CASE i = 1
    BY <2>1, <1>1, <1>12
  <2>2. CASE i # 1
    <3>1. i - 1 \in T
      BY <2>2, <1>4, <1>13 DEF rank
    <3>2. q[i - 1] \o ss[i] \in Seq(S)
      BY <3>1, <1>1, ConcatProperties DEF R
    <3> QED BY <2>2, <1>12, <3>2 DEF R
  <2> QED BY <2>1, <2>2
<1> HIDE DEF T, D
<1>14. \A i \in D : i \in T
  BY ONLY <1>2, <1>13, RankInduction
<1> USE DEF D
<1>15. q \in [D -> R]
  <2>1. \A i \in D : q[i] \in R
    BY <1>14 DEF T
  <2>2. DOMAIN q = D /\ q = [i \in D |-> q[i]]
    BY <1>11
  <2> QED BY <2>1, <2>2
<1> QED BY <1>12, <1>15 DEF q, R

(* Nothing put together is nothing.                                        *)
LEMMA FlattenEmpty == FlattenSeq(<<>>) = <<>>
  BY EmptySeq DEF FlattenSeq

(* What is put together is a sequence.                                     *)
LEMMA FlattenType ==
    ASSUME NEW S, NEW ss \in Seq(Seq(S))
    PROVE  FlattenSeq(ss) \in Seq(S)
<1>1. CASE ss = <<>>
  BY <1>1, FlattenEmpty, EmptySeq
<1>2. CASE ss # <<>>
  <2>1. Len(ss) \in Nat \ {0}
    BY <1>2, EmptySeq
  <2>2. Len(ss) \in 1 .. Len(ss) /\ Len(ss) # 0
    BY <2>1
  <2>3. Flats(ss)[Len(ss)] \in Seq(S)
    BY <2>2, FlatsFacts
  <2> QED BY <2>2, <2>3, FlattenIsFlats
<1> QED BY <1>1, <1>2

(* One more sequence at the end.                                           *)
LEMMA FlattenAppend ==
    ASSUME NEW S, NEW ss \in Seq(Seq(S)), NEW a \in Seq(S)
    PROVE  FlattenSeq(Append(ss, a)) = FlattenSeq(ss) \o a
<1> DEFINE t == Append(ss, a)
           n == Len(ss)
           D == 1 .. n
           rank == [i \in D |-> i]
           T == {i \in D : Flats(t)[i] = Flats(ss)[i]}
<1>1. /\ t \in Seq(Seq(S)) /\ Len(t) = n + 1 /\ n \in Nat
      /\ \A i \in 1 .. n : t[i] = ss[i]
      /\ t[n + 1] = a
  BY AppendProperties, LenProperties
<1> HIDE DEF t, n
<1>2. rank \in [D -> Nat]
  BY <1>1
<1>3. \A i \in 1 .. n + 1 : Flats(t)[i] = IF i = 1 THEN t[i] ELSE Flats(t)[i - 1] \o t[i]
  BY <1>1, FlatsFacts
<1>4. \A i \in 1 .. n : Flats(ss)[i] = IF i = 1 THEN ss[i] ELSE Flats(ss)[i - 1] \o ss[i]
  BY FlatsFacts DEF n
<1>5. \A i \in D : i \in 1 .. n + 1 /\ (i # 1 => i - 1 \in D /\ i - 1 < i)
  BY <1>1
<1>6. ASSUME NEW i \in D, \A j \in D : rank[j] < rank[i] => j \in T
      PROVE  i \in T
  <2>1. i # 1 => i - 1 \in T
    BY <1>5, <1>6
  <2>2. i # 1 => Flats(t)[i - 1] = Flats(ss)[i - 1]
    BY <2>1
  <2> QED BY <2>2, <1>1, <1>3, <1>4, <1>5
<1> HIDE DEF T, rank, D
<1>7. \A i \in D : i \in T
  BY ONLY <1>2, <1>6, RankInduction
<1> USE DEF D
<1>8. FlattenSeq(t) = Flats(t)[n + 1]
  <2>1. Len(t) # 0
    BY <1>1
  <2> QED BY <2>1, <1>1, FlattenIsFlats
<1>9. CASE n = 0
  <2>1. ss = <<>>
    BY <1>9, EmptySeq DEF n
  <2>2. FlattenSeq(ss) \o a = a
    BY <2>1, FlattenEmpty, ConcatEmptySeq
  <2>3. FlattenSeq(t) = a
    BY <1>9, <1>8, <1>3, <1>1
  <2> QED BY <2>2, <2>3 DEF t
<1>10. CASE n # 0
  <2>1. n \in D /\ n + 1 \in 1 .. n + 1 /\ n + 1 # 1 /\ (n + 1) - 1 = n
    BY <1>10, <1>1
  <2>2. Flats(t)[n + 1] = Flats(t)[n] \o a
    BY <2>1, <1>3, <1>1
  <2>3. Flats(t)[n] = Flats(ss)[n]
    BY <2>1, <1>7 DEF T
  <2>4. FlattenSeq(ss) = Flats(ss)[n]
    BY <1>10, FlattenIsFlats DEF n
  <2> QED BY <2>2, <2>3, <2>4, <1>8 DEF t
<1> QED BY <1>9, <1>10

(* A single sequence.                                                      *)
LEMMA FlattenOne ==
    ASSUME NEW S, NEW a \in Seq(S)
    PROVE  FlattenSeq(<<a>>) = a
<1>1. <<>> \in Seq(Seq(S))
  BY EmptySeq
<1>2. Append(<<>>, a) = <<a>>
  OBVIOUS
<1>3. <<>> \o a = a
  BY ConcatEmptySeq
<1> QED BY <1>1, <1>2, <1>3, FlattenAppend, FlattenEmpty

(* Concatenation, by a name the provers do not expand.                     *)
Cat(s, t) == s \o t

(* It is associative.                                                      *)
LEMMA Associative == \A S : \A s, t, u \in Seq(S) : Cat(Cat(s, t), u) = Cat(s, Cat(t, u))
  BY ConcatAssociative DEF Cat

(* Two parts put together apart.                                           *)
LEMMA FlattenConcat ==
    ASSUME NEW S, NEW ss \in Seq(Seq(S)), NEW tt \in Seq(Seq(S))
    PROVE  FlattenSeq(ss \o tt) = FlattenSeq(ss) \o FlattenSeq(tt)
<1> DEFINE D == Seq(Seq(S))
           rank == [u \in D |-> Len(u)]
           T == {u \in D : FlattenSeq(ss \o u) = FlattenSeq(ss) \o FlattenSeq(u)}
<1>1. rank \in [D -> Nat]
  BY LenProperties
<1>2. FlattenSeq(ss) \in Seq(S)
  BY FlattenType
<1>3. ASSUME NEW u \in D, \A v \in D : rank[v] < rank[u] => v \in T
      PROVE  u \in T
  <2>1. CASE u = <<>>
    <3>1. ss \o u = ss /\ FlattenSeq(ss) \o <<>> = FlattenSeq(ss)
      BY <2>1, <1>2, ConcatEmptySeq
    <3> QED BY <2>1, <3>1, FlattenEmpty
  <2>2. CASE u # <<>>
    <3>1. PICK v \in D, a \in Seq(S) : u = Append(v, a)
      BY <2>2, SequenceEmptyOrAppend
    <3>2. Len(u) = Len(v) + 1 /\ Len(v) \in Nat
      BY <3>1, AppendProperties, LenProperties
    <3>3. v \in T
      BY <3>2, <1>3
    <3>4. ss \o u = Append(ss \o v, a) /\ ss \o v \in Seq(Seq(S))
      <4>1. ss \o v \in Seq(Seq(S))
        BY ConcatProperties
      <4>2. PICK w \in Seq(Seq(S)) : w = <<a>>
        <5>1. <<a>> \in Seq(Seq(S))
          OBVIOUS
        <5> HIDE DEF D
        <5> QED BY ONLY <5>1
      <4>3. u = v \o <<a>> /\ Append(ss \o v, a) = (ss \o v) \o <<a>>
        BY <3>1, <4>1, AppendIsConcat
      <4>4. (ss \o v) \o w = ss \o (v \o w)
        <5>1. Cat(Cat(ss, v), w) = Cat(ss, Cat(v, w))
          BY Associative
        <5> QED BY <5>1 DEF Cat
      <4> QED BY <4>1, <4>2, <4>3, <4>4
    <3>5. FlattenSeq(ss \o u) = FlattenSeq(ss \o v) \o a
      BY <3>4, FlattenAppend
    <3>6. FlattenSeq(u) = FlattenSeq(v) \o a
      BY <3>1, FlattenAppend
    <3>7. FlattenSeq(v) \in Seq(S)
      BY FlattenType
    <3>8. (FlattenSeq(ss) \o FlattenSeq(v)) \o a = FlattenSeq(ss) \o (FlattenSeq(v) \o a)
      <4>1. Cat(Cat(FlattenSeq(ss), FlattenSeq(v)), a)
               = Cat(FlattenSeq(ss), Cat(FlattenSeq(v), a))
        BY <1>2, <3>7, Associative
      <4> QED BY <4>1 DEF Cat
    <3> QED BY <3>3, <3>5, <3>6, <3>8
  <2> QED BY <2>1, <2>2
<1> HIDE DEF T, rank, D
<1>4. \A u \in D : u \in T
  BY ONLY <1>1, <1>3, RankInduction
<1> QED BY <1>4 DEF T, D

(* The first sequence apart.                                               *)
LEMMA FlattenCons ==
    ASSUME NEW S, NEW a \in Seq(S), NEW ss \in Seq(Seq(S))
    PROVE  FlattenSeq(<<a>> \o ss) = a \o FlattenSeq(ss)
<1>1. <<a>> \in Seq(Seq(S))
  OBVIOUS
<1>2. FlattenSeq(<<a>> \o ss) = FlattenSeq(<<a>>) \o FlattenSeq(ss)
  BY <1>1, FlattenConcat
<1> QED BY <1>2, FlattenOne

-------------------------------------------------------------------------------
(* The request body.                                                       *)

Chains == Seq(Seq(Nat))

(* The lesser of two numbers.                                              *)
LEMMA MinOfTwo ==
    \A a, b \in Nat : Min({a, b}) = IF a <= b THEN a ELSE b
<1> SUFFICES ASSUME NEW a \in Nat, NEW b \in Nat
             PROVE  Min({a, b}) = IF a <= b THEN a ELSE b
  OBVIOUS
<1> DEFINE m == IF a <= b THEN a ELSE b
<1>1. m \in {a, b} /\ \A y \in {a, b} : m <= y
  OBVIOUS
<1> HIDE DEF m
<1>2. Min({a, b}) \in {a, b} /\ \A y \in {a, b} : Min({a, b}) <= y
  BY <1>1, Zenon DEF Min
<1> DEFINE k == Min({a, b})
<1>3. k \in {a, b} /\ k <= a /\ k <= b /\ m \in {a, b} /\ m <= a /\ m <= b
  BY <1>1, <1>2
<1> HIDE DEF k
<1>4. k = m
  BY ONLY <1>3, a \in Nat, b \in Nat
<1> QED BY <1>4 DEF k, m

(* How much is left.                                                       *)
LEMMA RestLength ==
    \A n, k \in Nat : k <= n => (IF k + 1 <= n THEN n - (k + 1) + 1 ELSE 0) = n - k
  OBVIOUS

(* A sequence in two parts.                                                *)
LEMMA Halves ==
    ASSUME NEW S, NEW s \in Seq(S), NEW k \in 0 .. Len(s)
    PROVE  /\ SubSeq(s, 1, k) \in Seq(S) /\ Len(SubSeq(s, 1, k)) = k
           /\ SubSeq(s, k + 1, Len(s)) \in Seq(S)
           /\ Len(SubSeq(s, k + 1, Len(s))) = Len(s) - k
           /\ SubSeq(s, 1, k) \o SubSeq(s, k + 1, Len(s)) = s
<1>1. Len(s) \in Nat /\ k \in Nat /\ k <= Len(s) /\ DOMAIN s = 1 .. Len(s)
  BY LenProperties
<1>2. \A i \in 1 .. Len(s) : s[i] \in S
  BY ElementOfSeq
<1>3. SubSeq(s, 1, k) \in Seq(S) /\ Len(SubSeq(s, 1, k)) = k
  <2>1. \A i \in 1 .. k : s[i] \in S
    BY <1>1, <1>2
  <2>2. /\ SubSeq(s, 1, k) \in Seq(S)
        /\ Len(SubSeq(s, 1, k)) = IF 1 <= k THEN k - 1 + 1 ELSE 0
    BY <2>1, <1>1, SubSeqProperties
  <2> QED BY <2>2, <1>1
<1>4. /\ SubSeq(s, k + 1, Len(s)) \in Seq(S)
      /\ Len(SubSeq(s, k + 1, Len(s))) = Len(s) - k
  <2>1. \A i \in k + 1 .. Len(s) : s[i] \in S
    BY <1>1, <1>2
  <2>2. /\ SubSeq(s, k + 1, Len(s)) \in Seq(S)
        /\ Len(SubSeq(s, k + 1, Len(s)))
              = IF k + 1 <= Len(s) THEN Len(s) - (k + 1) + 1 ELSE 0
    BY <2>1, <1>1, SubSeqProperties, SMTT(40)
  <2>3. (IF k + 1 <= Len(s) THEN Len(s) - (k + 1) + 1 ELSE 0) = Len(s) - k
    BY <1>1, RestLength
  <2> QED BY <2>2, <2>3
<1>5. SubSeq(s, 1, k) \o SubSeq(s, k + 1, Len(s)) = s
  <2>1. 1 \in 1 .. Len(s) + 1 /\ k \in 1 - 1 .. Len(s) /\ Len(s) \in k .. Len(s)
    BY <1>1
  <2>2. SubSeq(s, 1, k) \o SubSeq(s, k + 1, Len(s)) = SubSeq(s, 1, Len(s))
    BY <2>1, ConcatAdjacentSubSeq
  <2> QED BY <2>2, SubSeqFull
<1> QED BY <1>3, <1>4, <1>5

(* A sequence is its head and its tail.                                    *)
LEMMA HeadAndTail ==
    ASSUME NEW S, NEW s \in Seq(S), s # <<>>
    PROVE  /\ Head(s) \in S /\ Tail(s) \in Seq(S) /\ s = <<Head(s)>> \o Tail(s)
           /\ Len(s) \in Nat \ {0} /\ Len(Tail(s)) = Len(s) - 1
<1>1. /\ Head(s) \in S /\ Tail(s) \in Seq(S) /\ Len(Tail(s)) = Len(s) - 1
      /\ Len(s) \in Nat \ {0}
  BY HeadTailProperties, EmptySeq
<1>2. s = <<Head(s)>> \o Tail(s)
  <2>1. 1 \in 1 .. Len(s) /\ Len(s) \in 1 .. Len(s)
    BY <1>1
  <2>2. SubSeq(s, 1, Len(s)) = <<s[1]>> \o SubSeq(s, 1 + 1, Len(s))
    BY <2>1, SubSeqRecursiveFirst
  <2>3. Tail(s) = SubSeq(s, 1 + 1, Len(s)) /\ Head(s) = s[1]
    BY TailIsSubSeq
  <2>4. SubSeq(s, 1, Len(s)) = s
    BY SubSeqFull
  <2> QED BY <2>2, <2>3, <2>4
<1> QED BY <1>1, <1>2

(* A read takes from the front of what the chain holds.                    *)
LEMMA ReadTakes ==
    ASSUME NEW cl \in Chains, NEW size \in Nat \ {0}
    PROVE  /\ ReadFrom(cl, size).bytes \in Seq(Nat)
           /\ ReadFrom(cl, size).cl \in Chains
           /\ FlattenSeq(cl) = ReadFrom(cl, size).bytes \o FlattenSeq(ReadFrom(cl, size).cl)
           /\ (\A i \in 1 .. Len(cl) : cl[i] # <<>>) =>
                 /\ cl # <<>> => ReadFrom(cl, size).bytes # <<>>
                 /\ \A i \in 1 .. Len(ReadFrom(cl, size).cl) : ReadFrom(cl, size).cl[i] # <<>>
<1>1. CASE cl = <<>>
  <2>1. ReadFrom(cl, size) = [bytes |-> <<>>, cl |-> <<>>]
    BY <1>1, Zenon DEF ReadFrom
  <2>2. <<>> \in Seq(Nat) /\ <<>> \in Chains /\ <<>> \o <<>> = <<>>
    BY EmptySeq, ConcatEmptySeq DEF Chains
  <2>3. ReadFrom(cl, size).bytes = <<>> /\ ReadFrom(cl, size).cl = <<>>
    BY <2>1
  <2> QED BY <1>1, <2>2, <2>3, FlattenEmpty
<1>2. CASE cl # <<>>
  <2> DEFINE buf == Head(cl)
             count == Min({Len(buf), size})
             front == SubSeq(buf, 1, count)
             rest == SubSeq(buf, count + 1, Len(buf))
             left == IF rest = <<>> THEN Tail(cl) ELSE <<rest>> \o Tail(cl)
  <2>1. ReadFrom(cl, size) = [bytes |-> front, cl |-> left]
    BY <1>2, Zenon DEF ReadFrom
  <2>2. /\ buf \in Seq(Nat) /\ Tail(cl) \in Chains /\ cl = <<buf>> \o Tail(cl)
        /\ Len(cl) \in Nat \ {0} /\ Len(Tail(cl)) = Len(cl) - 1
    BY <1>2, HeadAndTail DEF Chains
  <2> HIDE DEF buf, left
  <2>3. Len(buf) \in Nat
    BY <2>2, LenProperties
  <2>4. count \in 0 .. Len(buf) /\ (Len(buf) # 0 => count # 0)
    BY <2>3, MinOfTwo
  <2> HIDE DEF count
  <2>5. /\ front \in Seq(Nat) /\ rest \in Seq(Nat) /\ front \o rest = buf
        /\ Len(front) = count
    BY <2>2, <2>4, Halves, ZenonT(60)
  <2> HIDE DEF front, rest
  <2>6. FlattenSeq(Tail(cl)) \in Seq(Nat)
    BY <2>2, FlattenType DEF Chains
  <2>7. FlattenSeq(cl) = buf \o FlattenSeq(Tail(cl))
    BY <2>2, FlattenCons DEF Chains
  <2>8. /\ <<rest>> \o Tail(cl) \in Chains
        /\ FlattenSeq(<<rest>> \o Tail(cl)) = rest \o FlattenSeq(Tail(cl))
    <3>1. PICK one \in Chains : one = <<rest>>
      <4>1. <<rest>> \in Chains
        BY <2>5 DEF Chains
      <4> QED BY ONLY <4>1
    <3>2. one \o Tail(cl) \in Chains
      BY <2>2, ConcatProperties DEF Chains
    <3>3. FlattenSeq(<<rest>> \o Tail(cl)) = rest \o FlattenSeq(Tail(cl))
      BY <2>2, <2>5, FlattenCons DEF Chains
    <3> QED BY <3>1, <3>2, <3>3
  <2>9. left \in Chains
    BY <2>2, <2>8 DEF left
  <2>10. FlattenSeq(left) = rest \o FlattenSeq(Tail(cl))
    <3>1. CASE rest = <<>>
      BY <3>1, <2>6, ConcatEmptySeq DEF left
    <3>2. CASE rest # <<>>
      BY <3>2, <2>8 DEF left
    <3> QED BY <3>1, <3>2
  <2>11. FlattenSeq(cl) = front \o FlattenSeq(left)
    <3>1. Cat(Cat(front, rest), FlattenSeq(Tail(cl)))
             = Cat(front, Cat(rest, FlattenSeq(Tail(cl))))
      BY <2>5, <2>6, Associative
    <3> QED BY <3>1, <2>5, <2>7, <2>10 DEF Cat
  <2>12. ASSUME \A i \in 1 .. Len(cl) : cl[i] # <<>>
         PROVE  front # <<>> /\ \A i \in 1 .. Len(left) : left[i] # <<>>
    <3>1. buf = cl[1] /\ 1 \in 1 .. Len(cl)
      BY <2>2, <1>2 DEF buf, Chains
    <3>2. buf # <<>>
      BY <3>1, <2>12
    <3>3. Len(buf) # 0
      BY <3>2, <2>2, EmptySeq
    <3>4. front # <<>>
      BY <3>3, <2>4, <2>5, EmptySeq
    <3>5. \A i \in 1 .. Len(Tail(cl)) : Tail(cl)[i] # <<>>
      <4>1. \A i \in 1 .. Len(Tail(cl)) : Tail(cl)[i] = cl[i + 1]
        BY <1>2, HeadTailProperties DEF Chains
      <4>2. \A i \in 1 .. Len(Tail(cl)) : i + 1 \in 1 .. Len(cl)
        BY <2>2
      <4> QED BY <4>1, <4>2, <2>12
    <3>6. CASE rest = <<>>
      BY <3>4, <3>5, <3>6 DEF left
    <3>7. CASE rest # <<>>
      <4>1. PICK one \in Chains : one = <<rest>>
        <5>1. <<rest>> \in Chains
          BY <2>5 DEF Chains
        <5> QED BY ONLY <5>1
      <4>2. Len(one) = 1 /\ one[1] = rest
        BY <4>1
      <4>3. left = one \o Tail(cl)
        BY <3>7, <4>1 DEF left
      <4>4. /\ Len(left) = Len(one) + Len(Tail(cl))
            /\ \A i \in 1 .. Len(one) + Len(Tail(cl)) :
                  left[i] = IF i <= Len(one) THEN one[i] ELSE Tail(cl)[i - Len(one)]
        BY <4>3, <2>2, ConcatProperties DEF Chains
      <4>5. ASSUME NEW i \in 1 .. Len(left)
            PROVE  left[i] # <<>>
        <5>1. CASE i = 1
          BY <5>1, <4>4, <4>2, <3>7, <2>2
        <5>2. CASE i # 1
          <6>1. i - 1 \in 1 .. Len(Tail(cl)) /\ i \in 1 .. 1 + Len(Tail(cl)) /\ ~(i <= 1)
            BY <5>2, <4>4, <4>2, <2>2
          <6> QED BY <6>1, <4>4, <4>2, <3>5
        <5> QED BY <5>1, <5>2
      <4> QED BY <3>4, <4>5
    <3> QED BY <3>6, <3>7
  <2> QED BY <2>1, <2>5, <2>9, <2>11, <2>12
<1> QED BY <1>1, <1>2

(* The recursive function of ReadAll.                                      *)
Drained(size) ==
    CHOOSE all : all = [cl \in Seq(Seq(Nat)) |->
                           LET read == ReadFrom(cl, size) IN
                           IF read.bytes = <<>> THEN <<>> ELSE read.bytes \o all[read.cl]]

(* It exists.                                                              *)
LEMMA DrainedFacts ==
    ASSUME NEW size \in Nat \ {0}, NEW cl \in Chains
    PROVE  Drained(size)[cl] = IF ReadFrom(cl, size).bytes = <<>> THEN <<>>
                               ELSE ReadFrom(cl, size).bytes \o Drained(size)[ReadFrom(cl, size).cl]
<1> DEFINE R == Seq(Nat)
           rank == [c \in Chains |-> Len(FlattenSeq(c))]
           bytes(c) == ReadFrom(c, size).bytes
           left(c) == ReadFrom(c, size).cl
           F == [p \in [Chains -> R] \X Chains |->
                    IF bytes(p[2]) = <<>> THEN <<>> ELSE bytes(p[2]) \o p[1][left(p[2])]]
<1>1. \A c \in Chains : /\ bytes(c) \in R /\ left(c) \in Chains
                         /\ FlattenSeq(c) = bytes(c) \o FlattenSeq(left(c))
  BY ReadTakes
<1>2. \A c \in Chains : FlattenSeq(c) \in R /\ Len(FlattenSeq(c)) \in Nat
  BY FlattenType, LenProperties DEF Chains
<1>3. rank \in [Chains -> Nat]
  BY <1>2
<1> HIDE DEF bytes, left
<1>4. \A g \in [Chains -> R], c \in Chains :
         F[<<g, c>>] = IF bytes(c) = <<>> THEN <<>> ELSE bytes(c) \o g[left(c)]
  OBVIOUS
<1>5. ASSUME NEW g \in [Chains -> R], NEW c \in Chains
      PROVE  F[<<g, c>>] \in R
  <2>1. bytes(c) \in Seq(Nat) /\ g[left(c)] \in Seq(Nat)
    BY <1>1
  <2>2. bytes(c) \o g[left(c)] \in Seq(Nat) /\ <<>> \in Seq(Nat)
    BY <2>1, ConcatProperties, EmptySeq
  <2> QED BY <2>2, <1>4
<1>6. ASSUME NEW c \in Chains, bytes(c) # <<>>
      PROVE  rank[left(c)] < rank[c]
  <2>1. bytes(c) \in Seq(Nat) /\ FlattenSeq(left(c)) \in Seq(Nat) /\ left(c) \in Chains
    BY <1>1, <1>2
  <2>2. Len(FlattenSeq(c)) = Len(bytes(c)) + Len(FlattenSeq(left(c)))
    BY <2>1, <1>1, ConcatProperties
  <2>3. Len(bytes(c)) \in Nat \ {0} /\ Len(FlattenSeq(left(c))) \in Nat
    BY <2>1, <1>6, <1>2, EmptySeq
  <2> QED BY <2>1, <2>2, <2>3
<1>7. Descends(F, Chains, R, rank)
  <2> SUFFICES ASSUME NEW g \in [Chains -> R], NEW h \in [Chains -> R], NEW c \in Chains,
                      \A d \in Chains : rank[d] < rank[c] => g[d] = h[d]
               PROVE  F[<<g, c>>] = F[<<h, c>>]
    BY DEF Descends
  <2>1. bytes(c) # <<>> => g[left(c)] = h[left(c)]
    BY <1>1, <1>6
  <2> QED BY <2>1, <1>4
<1>8. R # {}
  BY EmptySeq
<1> HIDE DEF F, R, rank
<1>9. PICK f \in [Chains -> R] : \A c \in Chains : f[c] = F[<<f, c>>]
  <2>1. Recursive(F, Chains, R, rank)
    BY <1>3, <1>5, <1>7, <1>8 DEF Recursive
  <2> QED BY <2>1, RecursionExists
<1>10. f = [c \in Chains |-> IF bytes(c) = <<>> THEN <<>> ELSE bytes(c) \o f[left(c)]]
  BY <1>4, <1>9
<1> DEFINE q == Drained(size)
<1>11. q = [c \in Chains |-> IF bytes(c) = <<>> THEN <<>> ELSE bytes(c) \o q[left(c)]]
  BY <1>10, Zenon DEF Drained, Chains, bytes, left
<1> HIDE DEF q
<1>12. q[cl] = IF bytes(cl) = <<>> THEN <<>> ELSE bytes(cl) \o q[left(cl)]
  BY <1>11
<1> QED BY <1>12 DEF q, bytes, left

(* Reading gives all.                                                      *)
LEMMA ReadsAll ==
    ASSUME NEW size \in Nat \ {0}, NEW chain \in Chains,
           \A i \in 1 .. Len(chain) : chain[i] # <<>>
    PROVE  ReadAll(chain, size) = FlattenSeq(chain)
<1> DEFINE Whole(c) == \A i \in 1 .. Len(c) : c[i] # <<>>
           bytes(c) == ReadFrom(c, size).bytes
           left(c) == ReadFrom(c, size).cl
           q == Drained(size)
           rank == [c \in Chains |-> Len(FlattenSeq(c))]
           T == {c \in Chains : Whole(c) => q[c] = FlattenSeq(c)}
<1>1. \A c \in Chains : FlattenSeq(c) \in Seq(Nat) /\ Len(FlattenSeq(c)) \in Nat
  BY FlattenType, LenProperties DEF Chains
<1>2. rank \in [Chains -> Nat]
  BY <1>1
<1>3. \A c \in Chains : /\ bytes(c) \in Seq(Nat) /\ left(c) \in Chains
                         /\ FlattenSeq(c) = bytes(c) \o FlattenSeq(left(c))
  BY ReadTakes
<1>9. \A c \in Chains : Whole(c) => (c # <<>> => bytes(c) # <<>>) /\ Whole(left(c))
  BY ReadTakes
<1>4. \A c \in Chains : q[c] = IF bytes(c) = <<>> THEN <<>> ELSE bytes(c) \o q[left(c)]
  BY DrainedFacts
<1> HIDE DEF bytes, left, q, Whole
<1>5. ASSUME NEW c \in Chains, \A d \in Chains : rank[d] < rank[c] => d \in T
      PROVE  c \in T
  <2> SUFFICES ASSUME Whole(c) PROVE q[c] = FlattenSeq(c)
    OBVIOUS
  <2> HIDE DEF T
  <2>1. CASE bytes(c) = <<>>
    <3>1. c = <<>>
      BY <2>1, <1>9
    <3> QED BY <2>1, <3>1, <1>4, FlattenEmpty
  <2>2. CASE bytes(c) # <<>>
    <3>1. bytes(c) \in Seq(Nat) /\ FlattenSeq(left(c)) \in Seq(Nat) /\ left(c) \in Chains
      BY <1>1, <1>3
    <3>2. Len(FlattenSeq(c)) = Len(bytes(c)) + Len(FlattenSeq(left(c)))
      BY <3>1, <1>3, ConcatProperties
    <3>3. Len(bytes(c)) \in Nat \ {0} /\ Len(FlattenSeq(left(c))) \in Nat
      BY <3>1, <2>2, <1>1, EmptySeq
    <3>4. left(c) \in T /\ Whole(left(c))
      BY <3>1, <3>2, <3>3, <1>3, <1>5, <1>9
    <3> QED BY <3>4, <2>2, <1>3, <1>4 DEF T
  <2> QED BY <2>1, <2>2
<1> HIDE DEF T, rank
<1>6. \A c \in Chains : c \in T
  BY ONLY <1>2, <1>5, RankInduction
<1>7. q[chain] = FlattenSeq(chain)
  BY <1>6 DEF T, Whole
<1>8. ReadAll(chain, size) = q[chain]
  BY Zenon DEF ReadAll, Drained, q
<1> QED BY <1>7, <1>8

-------------------------------------------------------------------------------
(* Unescaping.                                                             *)

(* The sequence behind a first element.                                    *)
LEMMA ConsFacts ==
    ASSUME NEW S, NEW x \in S, NEW s \in Seq(S)
    PROVE  /\ <<x>> \o s \in Seq(S) /\ Len(<<x>> \o s) = Len(s) + 1
           /\ Head(<<x>> \o s) = x /\ Tail(<<x>> \o s) = s /\ <<x>> \o s # <<>>
<1> DEFINE t == <<x>> \o s
<1>1. <<x>> \in Seq(S) /\ Len(<<x>>) = 1 /\ <<x>>[1] = x
  OBVIOUS
<1>2. /\ t \in Seq(S) /\ Len(t) = 1 + Len(s)
      /\ \A i \in 1 .. 1 + Len(s) : t[i] = IF i <= 1 THEN <<x>>[i] ELSE s[i - 1]
  BY <1>1, ConcatProperties
<1> HIDE DEF t
<1>3. Len(s) \in Nat
  BY LenProperties
<1>4. Len(t) = Len(s) + 1 /\ t # <<>> /\ t[1] = x
  BY <1>1, <1>2, <1>3, EmptySeq
<1>5. Head(t) = x
  BY <1>4, <1>2
<1>6. Tail(t) \in Seq(S) /\ Len(Tail(t)) = Len(s)
      /\ \A i \in 1 .. Len(s) : Tail(t)[i] = t[i + 1]
  BY <1>2, <1>3, <1>4, HeadTailProperties
<1>7. \A i \in 1 .. Len(s) : i + 1 \in 1 .. 1 + Len(s) /\ ~(i + 1 <= 1) /\ (i + 1) - 1 = i
  BY <1>3
<1>8. \A i \in 1 .. Len(s) : Tail(t)[i] = s[i]
  BY <1>2, <1>6, <1>7
<1>9. Tail(t) = s
  BY <1>6, <1>8, SeqEqual
<1> QED BY <1>2, <1>4, <1>5, <1>9 DEF t

(* What the first of several sequences adds.                               *)
LEMMA FlattenTail ==
    ASSUME NEW S, NEW ss \in Seq(Seq(S)), ss # <<>>
    PROVE  /\ ss[1] \in Seq(S) /\ Tail(ss) \in Seq(Seq(S))
           /\ FlattenSeq(ss) = ss[1] \o FlattenSeq(Tail(ss))
<1>1. /\ Head(ss) \in Seq(S) /\ Tail(ss) \in Seq(Seq(S)) /\ ss = <<Head(ss)>> \o Tail(ss)
  BY HeadAndTail
<1>2. Head(ss) = ss[1]
  OBVIOUS
<1>3. FlattenSeq(<<Head(ss)>> \o Tail(ss)) = Head(ss) \o FlattenSeq(Tail(ss))
  BY <1>1, FlattenCons
<1> QED BY <1>1, <1>2, <1>3

(* What a hexadecimal digit is worth.                                      *)
LEMMA HexFacts ==
    \A x \in Char : IsHex(x) => Hex(x) \in 0 .. 15 /\ x \notin {Plus, Percent}
<1> SUFFICES ASSUME NEW x \in Char, IsHex(x)
             PROVE  Hex(x) \in 0 .. 15 /\ x \notin {Plus, Percent}
  OBVIOUS
<1>1. CASE x \in Digit
  BY <1>1 DEF Hex, Digit, Upper, Small, Plus, Percent
<1>2. CASE x \in Upper
  BY <1>2 DEF Hex, Digit, Upper, Small, Plus, Percent
<1>3. CASE x \in Small
  BY <1>3 DEF Hex, Digit, Upper, Small, Plus, Percent
<1> QED BY <1>1, <1>2, <1>3 DEF IsHex

(* An escape is worth a character.                                         *)
LEMMA EscapeIsChar ==
    \A x, y \in Char : IsHex(x) /\ IsHex(y) =>
        /\ 16 * Hex(x) + Hex(y) \in Char
        /\ Hex(x) * 16 + Hex(y) = 16 * Hex(x) + Hex(y)
<1>1. \A a, b \in 0 .. 15 : 16 * a + b \in 0 .. 255 /\ a * 16 + b = 16 * a + b
  OBVIOUS
<1> QED BY <1>1, HexFacts DEF Char

(* The configurations of the automaton, and what it yields at one.  What   *)
(* it would yield after a character that is no digit does not matter.      *)
Scans == Text \X (0 .. 2) \X Char

Out == Char \cup {Hex(p[1]) * 16 + Hex(p[2]) : p \in Char \X Char}

Scan(u, at) ==
    LET s == at[1]  state == at[2]  c == at[3] IN
    IF s = <<>>
    THEN CASE state = 0 -> <<>>
           [] state = 1 -> <<Percent>>
           [] state = 2 -> <<Percent, c>>
    ELSE LET x == Head(s) IN
         CASE state = 0 /\ x = Plus              -> <<Space>> \o u[<<Tail(s), 0, 0>>]
           [] state = 0 /\ x = Percent           -> u[<<Tail(s), 1, 0>>]
           [] state = 0 /\ x \notin {Plus, Percent} -> <<x>> \o u[<<Tail(s), 0, 0>>]
           [] state = 1 /\ IsHex(x)              -> u[<<Tail(s), 2, x>>]
           [] state = 1 /\ ~IsHex(x)             -> <<Percent>> \o u[<<s, 0, 0>>]
           [] state = 2 /\ IsHex(x)              ->
                  <<Hex(c) * 16 + Hex(x)>> \o u[<<Tail(s), 0, 0>>]
           [] state = 2 /\ ~IsHex(x)             -> <<Percent>> \o u[<< <<c>> \o s, 0, 0>>]

(* A character before a text, and what the automaton yields from           *)
(* somewhere: names that the provers do not expand.                        *)
Put(x, t) == <<x>> \o t

From(u, s, state, c) == u[<<s, state, c>>]

(* The same without LET, for a text that is not empty.                     *)
LEMMA Scan0 ==
    \A u, s, c : s # <<>> =>
        Scan(u, <<s, 0, c>>) = IF Head(s) = Plus THEN Put(Space, From(u, Tail(s), 0, 0))
                               ELSE IF Head(s) = Percent THEN From(u, Tail(s), 1, 0)
                               ELSE Put(Head(s), From(u, Tail(s), 0, 0))
  BY DEF Scan, Plus, Percent, Put, From

(* After %: the first digit is kept, anything else leaves the % as it is.  *)
LEMMA Scan1 ==
    \A u, s, c : s # <<>> =>
        Scan(u, <<s, 1, c>>) = IF IsHex(Head(s)) THEN From(u, Tail(s), 2, Head(s))
                               ELSE Put(Percent, From(u, s, 0, 0))
  BY DEF Scan, Put, From

(* After % and a digit: a second digit makes the octet.                    *)
LEMMA Scan2 ==
    \A u, s, c : s # <<>> =>
        Scan(u, <<s, 2, c>>) = IF IsHex(Head(s))
                               THEN Put(Hex(c) * 16 + Hex(Head(s)), From(u, Tail(s), 0, 0))
                               ELSE Put(Percent, From(u, Put(c, s), 0, 0))
  BY DEF Scan, Put, From

(* For an empty one.                                                       *)
LEMMA ScanEnds ==
    \A u, c : /\ Scan(u, << <<>>, 0, c>>) = <<>>
              /\ Scan(u, << <<>>, 1, c>>) = <<Percent>>
              /\ Scan(u, << <<>>, 2, c>>) = <<Percent, c>>
  BY DEF Scan

(* How far the automaton is from the end.  A step back comes with a state  *)
(* that makes up for it.                                                   *)
Distance == [at \in Scans |-> 3 * Len(at[1]) + 2 * at[2]]

(* Every configuration leads to one that is nearer to the end.             *)
LEMMA ScansNearer ==
    ASSUME NEW s \in Text, s # <<>>, NEW c \in Char
    PROVE  /\ Head(s) \in Char
           /\ \A st \in 0 .. 2 : <<Tail(s), st, 0>> \in Scans
           /\ <<Tail(s), 2, Head(s)>> \in Scans /\ << <<c>> \o s, 0, 0>> \in Scans
           /\ <<s, 0, 0>> \in Scans
           /\ \A st \in 0 .. 2, d \in Char : Distance[<<Tail(s), 0, 0>>] < Distance[<<s, st, d>>]
           /\ \A d \in Char : /\ Distance[<<Tail(s), 1, 0>>] < Distance[<<s, 0, d>>]
                              /\ Distance[<<Tail(s), 2, Head(s)>>] < Distance[<<s, 1, d>>]
                              /\ Distance[<<s, 0, 0>>] < Distance[<<s, 1, d>>]
                              /\ Distance[<< <<c>> \o s, 0, 0>>] < Distance[<<s, 2, d>>]
<1>1. /\ Head(s) \in Char /\ Tail(s) \in Text /\ Len(s) \in Nat \ {0}
      /\ Len(Tail(s)) = Len(s) - 1
  BY HeadAndTail DEF Text
<1>2. <<c>> \o s \in Text /\ Len(<<c>> \o s) = Len(s) + 1
  BY ConsFacts DEF Text
<1>3. 0 \in Char
  BY DEF Char
<1> DEFINE t == Tail(s)
           k == <<c>> \o s
           x == Head(s)
<1> HIDE DEF t, k, x
<1>4. /\ x \in Char /\ t \in Text /\ k \in Text /\ Len(s) \in Nat \ {0}
      /\ Len(t) = Len(s) - 1 /\ Len(k) = Len(s) + 1
  BY <1>1, <1>2 DEF t, k, x
<1>5. \A r \in Text, st \in 0 .. 2, d \in Char :
         <<r, st, d>> \in Scans /\ Distance[<<r, st, d>>] = 3 * Len(r) + 2 * st
  BY DEF Scans, Distance
<1> DEFINE n == Len(s)
<1> HIDE DEF n
<1>9. n \in Nat \ {0} /\ Len(t) = n - 1 /\ Len(k) = n + 1
  BY <1>4 DEF n
<1>10. \A r \in Text, d \in Char : /\ Distance[<<r, 0, d>>] = 3 * Len(r)
                                   /\ Distance[<<r, 1, d>>] = 3 * Len(r) + 2
                                   /\ Distance[<<r, 2, d>>] = 3 * Len(r) + 4
  <2> SUFFICES ASSUME NEW r \in Text, NEW d \in Char
               PROVE  /\ Distance[<<r, 0, d>>] = 3 * Len(r)
                      /\ Distance[<<r, 1, d>>] = 3 * Len(r) + 2
                      /\ Distance[<<r, 2, d>>] = 3 * Len(r) + 4
    OBVIOUS
  <2>1. Len(r) \in Nat
    BY LenProperties DEF Text
  <2>2. Distance[<<r, 0, d>>] = 3 * Len(r) + 2 * 0
    BY DEF Scans, Distance
  <2>3. Distance[<<r, 1, d>>] = 3 * Len(r) + 2 * 1
    BY DEF Scans, Distance
  <2>4. Distance[<<r, 2, d>>] = 3 * Len(r) + 2 * 2
    BY DEF Scans, Distance
  <2> QED BY <2>1, <2>2, <2>3, <2>4
<1>8. ASSUME NEW d \in Char
      PROVE  /\ Distance[<<s, 0, d>>] = 3 * n
             /\ Distance[<<s, 1, d>>] = 3 * n + 2
             /\ Distance[<<s, 2, d>>] = 3 * n + 4
             /\ Distance[<<t, 0, 0>>] = 3 * (n - 1)
             /\ Distance[<<t, 1, 0>>] = 3 * (n - 1) + 2
             /\ Distance[<<t, 2, x>>] = 3 * (n - 1) + 4
             /\ Distance[<<s, 0, 0>>] = 3 * n
             /\ Distance[<<k, 0, 0>>] = 3 * (n + 1)
  BY <1>3, <1>4, <1>9, <1>10 DEF n
<1>6. /\ \A st \in 0 .. 2, d \in Char : Distance[<<t, 0, 0>>] < Distance[<<s, st, d>>]
      /\ \A d \in Char : /\ Distance[<<t, 1, 0>>] < Distance[<<s, 0, d>>]
                         /\ Distance[<<t, 2, x>>] < Distance[<<s, 1, d>>]
                         /\ Distance[<<s, 0, 0>>] < Distance[<<s, 1, d>>]
                         /\ Distance[<<k, 0, 0>>] < Distance[<<s, 2, d>>]
  <2> SUFFICES ASSUME NEW d \in Char
               PROVE  /\ \A st \in 0 .. 2 : Distance[<<t, 0, 0>>] < Distance[<<s, st, d>>]
                      /\ Distance[<<t, 1, 0>>] < Distance[<<s, 0, d>>]
                      /\ Distance[<<t, 2, x>>] < Distance[<<s, 1, d>>]
                      /\ Distance[<<s, 0, 0>>] < Distance[<<s, 1, d>>]
                      /\ Distance[<<k, 0, 0>>] < Distance[<<s, 2, d>>]
    OBVIOUS
  <2>1. \A m \in Nat \ {0} :
           /\ 3 * (m - 1) < 3 * m /\ 3 * (m - 1) < 3 * m + 2 /\ 3 * (m - 1) < 3 * m + 4
           /\ 3 * (m - 1) + 2 < 3 * m /\ 3 * (m - 1) + 4 < 3 * m + 2 /\ 3 * m < 3 * m + 2
           /\ 3 * (m + 1) < 3 * m + 4
    OBVIOUS
  <2>2. \A st \in 0 .. 2 : st = 0 \/ st = 1 \/ st = 2
    OBVIOUS
  <2> QED BY <1>8, <1>9, <2>1, <2>2, ZenonT(60)
<1>7. /\ \A st \in 0 .. 2 : <<t, st, 0>> \in Scans
      /\ <<t, 2, x>> \in Scans /\ <<k, 0, 0>> \in Scans
      /\ <<s, 0, 0>> \in Scans
  BY <1>3, <1>4, <1>5
<1> QED BY <1>1, <1>6, <1>7 DEF t, k, x

(* The automaton yields texts, of what it has yielded.                     *)
LEMMA ScanTyped ==
    ASSUME NEW u \in [Scans -> Seq(Out)], NEW at \in Scans
    PROVE  Scan(u, at) \in Seq(Out)
<1> PICK s \in Text, st \in 0 .. 2, c \in Char : at = <<s, st, c>>
  BY DEF Scans
<1>1. Char \subseteq Out /\ Space \in Out /\ Percent \in Out
  BY DEF Out, Char, Space, Percent
<1>2. \A x \in Out : <<x>> \in Seq(Out)
  OBVIOUS
<1>3. \A x \in Out, v \in Seq(Out) : Put(x, v) \in Seq(Out)
  BY ConsFacts DEF Put
<1>4. CASE s = <<>>
  <2>1. <<>> \in Seq(Out) /\ <<Percent>> \in Seq(Out) /\ <<Percent, c>> \in Seq(Out)
    <3>1. <<Percent, c>> \in Seq(Out)
      BY <1>1
    <3> QED BY <1>1, <1>2, <3>1, EmptySeq
  <2>2. Scan(u, at) = <<>> \/ Scan(u, at) = <<Percent>> \/ Scan(u, at) = <<Percent, c>>
    <3>1. st = 0 \/ st = 1 \/ st = 2
      OBVIOUS
    <3>2. st = 0 => Scan(u, at) = <<>>
      BY <1>4, ScanEnds
    <3>3. st = 1 => Scan(u, at) = <<Percent>>
      BY <1>4, ScanEnds
    <3>4. st = 2 => Scan(u, at) = <<Percent, c>>
      BY <1>4, ScanEnds
    <3> QED BY <3>1, <3>2, <3>3, <3>4
  <2> QED BY <2>1, <2>2
<1>5. CASE s # <<>>
  <2>1. /\ Head(s) \in Char
        /\ From(u, Tail(s), 0, 0) \in Seq(Out) /\ From(u, Tail(s), 1, 0) \in Seq(Out)
        /\ From(u, Tail(s), 2, Head(s)) \in Seq(Out)
        /\ From(u, Put(c, s), 0, 0) \in Seq(Out)
        /\ From(u, s, 0, 0) \in Seq(Out)
    <3>1. 0 \in 0 .. 2 /\ 1 \in 0 .. 2
      OBVIOUS
    <3> QED BY <1>5, <3>1, ScansNearer DEF From, Put
  <2>2. Hex(c) * 16 + Hex(Head(s)) \in Out
    <3>1. <<c, Head(s)>> \in Char \X Char
      BY <2>1
    <3>2. Hex(<<c, Head(s)>>[1]) * 16 + Hex(<<c, Head(s)>>[2]) \in Out
      BY <3>1 DEF Out
    <3> QED BY <3>2
  <2>3. CASE st = 0
    BY <1>1, <1>3, <1>5, <2>1, <2>3, Scan0
  <2>4. CASE st = 1
    BY <1>1, <1>3, <1>5, <2>1, <2>4, Scan1
  <2>5. CASE st = 2
    BY <1>1, <1>3, <1>5, <2>1, <2>2, <2>5, Scan2
  <2> QED BY <2>3, <2>4, <2>5
<1> QED BY <1>4, <1>5

(* It asks only for what is nearer to the end.                             *)
LEMMA ScanDescends ==
    ASSUME NEW u, NEW v, NEW at \in Scans,
           \A b \in Scans : Distance[b] < Distance[at] => u[b] = v[b]
    PROVE  Scan(u, at) = Scan(v, at)
<1> PICK s \in Text, st \in 0 .. 2, c \in Char : at = <<s, st, c>>
  BY DEF Scans
<1>1. CASE s = <<>>
  BY <1>1, ScanEnds
<1>2. CASE s # <<>>
  <2>1. 0 \in 0 .. 2 /\ 1 \in 0 .. 2
    OBVIOUS
  <2>2. From(u, Tail(s), 0, 0) = From(v, Tail(s), 0, 0)
    BY <1>2, <2>1, ScansNearer DEF From
  <2>3. CASE st = 0
    <3>1. From(u, Tail(s), 1, 0) = From(v, Tail(s), 1, 0)
      BY <1>2, <2>1, <2>3, ScansNearer DEF From
    <3> QED BY <1>2, <2>2, <2>3, <3>1, Scan0
  <2>4. CASE st = 1
    <3>1. /\ From(u, Tail(s), 2, Head(s)) = From(v, Tail(s), 2, Head(s))
          /\ From(u, s, 0, 0) = From(v, s, 0, 0)
      BY <1>2, <2>4, ScansNearer DEF From
    <3> QED BY <1>2, <2>4, <3>1, Scan1
  <2>5. CASE st = 2
    <3>1. From(u, Put(c, s), 0, 0) = From(v, Put(c, s), 0, 0)
      BY <1>2, <2>5, ScansNearer DEF From, Put
    <3> QED BY <1>2, <2>2, <2>5, <3>1, Scan2
  <2> QED BY <2>3, <2>4, <2>5
<1> QED BY <1>1, <1>2

(* Unescape is what the automaton yields.                                  *)
LEMMA UnescapeScans == \A at \in Scans : Unescape[at] = Scan(Unescape, at)
<1> DEFINE R == Seq(Out)
           F == [p \in [Scans -> R] \X Scans |-> Scan(p[1], p[2])]
<1>1. \A g \in [Scans -> R], at \in Scans : F[<<g, at>>] = Scan(g, at)
  OBVIOUS
<1>2. \A g \in [Scans -> R], at \in Scans : F[<<g, at>>] \in R
  BY <1>1, ScanTyped
<1>3. Distance \in [Scans -> Nat]
  <2>1. ASSUME NEW at \in Scans
        PROVE  3 * Len(at[1]) + 2 * at[2] \in Nat
    <3>1. Len(at[1]) \in Nat /\ at[2] \in 0 .. 2
      BY LenProperties DEF Scans, Text
    <3> QED BY <3>1
  <2> QED BY <2>1 DEF Distance
<1>4. Descends(F, Scans, R, Distance)
  <2> SUFFICES ASSUME NEW g \in [Scans -> R], NEW h \in [Scans -> R], NEW at \in Scans,
                      \A b \in Scans : Distance[b] < Distance[at] => g[b] = h[b]
               PROVE  F[<<g, at>>] = F[<<h, at>>]
    BY DEF Descends
  <2>1. Scan(g, at) = Scan(h, at)
    BY ScanDescends
  <2> QED BY <2>1, <1>1
<1>5. R # {}
  BY EmptySeq
<1> HIDE DEF F, R
<1>6. PICK f \in [Scans -> R] : \A at \in Scans : f[at] = F[<<f, at>>]
  <2>1. Recursive(F, Scans, R, Distance)
    BY <1>2, <1>3, <1>4, <1>5 DEF Recursive
  <2> QED BY <2>1, RecursionExists
<1>7. f = [at \in Scans |-> Scan(f, at)]
  BY <1>1, <1>6
<1>8. Unescape = [at \in Scans |-> Scan(Unescape, at)]
  BY <1>7, Zenon DEF Unescape, Scans, Scan
<1> DEFINE q == Unescape
<1> HIDE DEF q
<1>9. q = [at \in Scans |-> Scan(q, at)]
  BY <1>8 DEF q
<1>10. \A at \in Scans : q[at] = Scan(q, at)
  BY <1>9
<1> QED BY <1>10 DEF q

(* What Unescape makes of a text: an escape is taken whole, all else one   *)
(* character at a time, though the automaton has looked further.           *)
Decoded(s) == From(Unescape, s, 0, 0)

Plain(x) == IF x = Plus THEN Space ELSE x

(* The automaton, at any configuration.                                    *)
LEMMA FromScans ==
    \A s \in Text, st \in 0 .. 2, c \in Char :
        From(Unescape, s, st, c) = Scan(Unescape, <<s, st, c>>)
<1> SUFFICES ASSUME NEW s \in Text, NEW st \in 0 .. 2, NEW c \in Char
             PROVE  From(Unescape, s, st, c) = Scan(Unescape, <<s, st, c>>)
  OBVIOUS
<1>1. <<s, st, c>> \in Scans
  BY DEF Scans
<1> QED BY <1>1, UnescapeScans DEF From

(* Its start.                                                              *)
LEMMA DecodedScans == \A s \in Text : Decoded(s) = Scan(Unescape, <<s, 0, 0>>)
<1>1. 0 \in Char /\ 0 \in 0 .. 2
  BY DEF Char
<1> QED BY <1>1, FromScans DEF Decoded

(* Nothing decodes to nothing.                                             *)
LEMMA DecodedEmpty == Decoded(<<>>) = <<>>
<1>1. <<>> \in Text
  BY EmptySeq DEF Text
<1> QED BY <1>1, DecodedScans, ScanEnds

(* A character before nothing, and before another one.                     *)
LEMMA PutEnds == \A x, y : Put(x, <<>>) = <<x>> /\ Put(x, <<y>>) = <<x, y>>
<1>1. \A x : Put(x, <<>>) = <<x>>
  BY DEF Put
<1>2. ASSUME NEW x, NEW y
      PROVE  <<x>> \o <<y>> = <<x, y>>
  <2> DEFINE S == {x, y}
             a == <<x>>
             b == <<y>>
             c == <<x, y>>
  <2>1. /\ a \in Seq(S) /\ b \in Seq(S) /\ c \in Seq(S) /\ Len(a) = 1 /\ Len(b) = 1
        /\ Len(c) = 2 /\ a[1] = x /\ b[1] = y /\ c[1] = x /\ c[2] = y
    OBVIOUS
  <2> HIDE DEF S, a, b, c
  <2>2. /\ a \o b \in Seq(S) /\ Len(a \o b) = 2
        /\ \A i \in 1 .. 2 : (a \o b)[i] = IF i <= 1 THEN a[i] ELSE b[i - 1]
    BY <2>1, ConcatProperties
  <2>3. (a \o b)[1] = x /\ (a \o b)[2] = y
    <3>1. 1 \in 1 .. 2 /\ 1 <= 1 /\ 2 \in 1 .. 2 /\ ~(2 <= 1) /\ 2 - 1 = 1
      OBVIOUS
    <3> QED BY <2>1, <2>2, <3>1
  <2>4. \A i \in 1 .. 2 : i = 1 \/ i = 2
    OBVIOUS
  <2>5. a \o b = c
    BY <2>1, <2>2, <2>3, <2>4, SeqEqual
  <2> QED BY <2>5 DEF a, b, c
<1> QED BY <1>1, <1>2 DEF Put

(* A character that is not the first one of an escape.                     *)
LEMMA DecodedPlain ==
    ASSUME NEW s \in Text, s # <<>>, ~IsEscape(s, 1)
    PROVE  Decoded(s) = Put(Plain(Head(s)), Decoded(Tail(s)))
<1> DEFINE x == Head(s)
           t == Tail(s)
<1>1. /\ x \in Char /\ t \in Text /\ x = s[1] /\ Len(s) \in Nat \ {0} /\ Len(t) = Len(s) - 1
      /\ \A i \in 1 .. Len(t) : t[i] = s[i + 1]
  BY HeadTailProperties, EmptySeq DEF Text
<1>2. 0 \in Char /\ 0 \in 0 .. 2 /\ 1 \in 0 .. 2 /\ 2 \in 0 .. 2
  BY DEF Char
<1>3. Decoded(s) = IF x = Plus THEN Put(Space, Decoded(t))
                   ELSE IF x = Percent THEN From(Unescape, t, 1, 0)
                   ELSE Put(x, Decoded(t))
  BY DecodedScans, Scan0 DEF Decoded
<1> HIDE DEF x, t
<1>4. CASE x # Percent
  BY <1>3, <1>4 DEF Plain, x, t
<1>5. CASE x = Percent
  <2>1. Plain(x) = Percent
    BY <1>5 DEF Plain, Plus, Percent
  <2>2. Decoded(s) = From(Unescape, t, 1, 0)
    BY <1>3, <1>5 DEF Plus, Percent
  <2>3. From(Unescape, t, 1, 0) = Scan(Unescape, <<t, 1, 0>>)
    BY <1>1, <1>2, FromScans
  <2>4. CASE t = <<>>
    <3>1. Decoded(s) = <<Percent>>
      BY <2>2, <2>3, <2>4, ScanEnds
    <3>2. Put(Percent, <<>>) = <<Percent>>
      BY DEF Put
    <3> QED BY <2>1, <2>4, <3>1, <3>2, DecodedEmpty DEF x, t
  <2>5. CASE t # <<>> /\ ~IsHex(Head(t))
    <3>1. Decoded(s) = Put(Percent, Decoded(t))
      BY <2>2, <2>3, <2>5, Scan1 DEF Decoded
    <3> QED BY <2>1, <3>1 DEF x, t
  <2>6. CASE t # <<>> /\ IsHex(Head(t))
    <3> DEFINE y == Head(t)
               r == Tail(t)
    <3>1. /\ y \in Char /\ r \in Text /\ y = t[1] /\ Len(t) \in Nat \ {0}
          /\ Len(r) = Len(t) - 1 /\ t = Put(y, r)
          /\ \A i \in 1 .. Len(r) : r[i] = t[i + 1]
      BY <1>1, <2>6, HeadAndTail, HeadTailProperties, EmptySeq DEF Text, Put
    <3>2. IsHex(y) /\ y # Plus /\ y # Percent
      BY <2>6, <3>1, HexFacts
    <3>3. Decoded(t) = Put(y, Decoded(r))
      BY <1>1, <2>6, <3>2, DecodedScans, Scan0 DEF Decoded
    <3>4. Decoded(s) = From(Unescape, r, 2, y)
      BY <2>2, <2>3, <2>6, Scan1
    <3>5. From(Unescape, r, 2, y) = Scan(Unescape, <<r, 2, y>>)
      BY <1>2, <3>1, FromScans
    <3> HIDE DEF y, r
    <3>6. CASE r = <<>>
      <4>1. Decoded(s) = <<Percent, y>>
        BY <3>4, <3>5, <3>6, ScanEnds
      <4>2. Put(Percent, Put(y, <<>>)) = <<Percent, y>>
        <5>1. Put(y, <<>>) = <<y>> /\ Put(Percent, <<y>>) = <<Percent, y>>
          BY ONLY PutEnds
        <5> QED BY ONLY <5>1
      <4> QED BY <2>1, <3>3, <3>6, <4>1, <4>2, DecodedEmpty DEF x, t
    <3>7. CASE r # <<>>
      <4>1. ~IsHex(Head(r))
        <5>1. Head(r) = r[1] /\ Len(r) \in Nat \ {0}
          BY <3>1, <3>7, EmptySeq DEF Text
        <5>2. s[2] = y /\ s[3] = Head(r) /\ s[1] = Percent
          BY <1>1, <3>1, <5>1, <1>5
        <5>3. 1 \in DOMAIN s /\ 1 + 2 <= Len(s)
          BY <1>1, <3>1, <5>1, LenProperties DEF Text
        <5> QED BY <5>2, <5>3, <3>2 DEF IsEscape
      <4>2. Scan(Unescape, <<r, 2, y>>) = Put(Percent, From(Unescape, Put(y, r), 0, 0))
        BY <3>7, <4>1, Scan2
      <4>3. Decoded(s) = Put(Percent, Decoded(t))
        BY <4>2, <3>1, <3>4, <3>5 DEF Decoded
      <4> QED BY <2>1, <4>3 DEF x, t
    <3> QED BY <3>6, <3>7
  <2> QED BY <2>4, <2>5, <2>6
<1> QED BY <1>4, <1>5

(* An escape.                                                              *)
LEMMA DecodedEscape ==
    ASSUME NEW s \in Text, IsEscape(s, 1)
    PROVE  Decoded(s) = Put(16 * Hex(s[2]) + Hex(s[3]), Decoded(Tail(Tail(Tail(s)))))
<1> DEFINE t == Tail(s)
           r == Tail(t)
<1>1. Len(s) \in Nat /\ 3 <= Len(s) /\ s[1] = Percent /\ IsHex(s[2]) /\ IsHex(s[3])
  BY LenProperties DEF IsEscape, Text
<1>2. s # <<>>
  BY <1>1, EmptySeq
<1>3. /\ t \in Text /\ Len(t) = Len(s) - 1 /\ Head(s) = s[1]
      /\ \A i \in 1 .. Len(t) : t[i] = s[i + 1]
  BY <1>2, HeadTailProperties DEF Text
<1> HIDE DEF t
<1>4. t # <<>>
  BY <1>1, <1>3, EmptySeq
<1>5. /\ r \in Text /\ Len(r) = Len(t) - 1 /\ Head(t) = t[1]
      /\ \A i \in 1 .. Len(r) : r[i] = t[i + 1]
  BY <1>3, <1>4, HeadTailProperties DEF Text
<1> HIDE DEF r
<1>6. r # <<>> /\ Head(r) = r[1]
  BY <1>1, <1>3, <1>5, EmptySeq
<1>7. Head(t) = s[2] /\ Head(r) = s[3]
  BY <1>1, <1>3, <1>5, <1>6
<1>8. s[2] \in Char /\ s[3] \in Char
  BY <1>1, ElementOfSeq DEF Text
<1>9. 0 \in Char /\ 0 \in 0 .. 2 /\ 1 \in 0 .. 2 /\ 2 \in 0 .. 2
  BY DEF Char
<1>10. Decoded(s) = From(Unescape, t, 1, 0)
  <2>1. Percent # Plus
    BY DEF Percent, Plus
  <2> QED BY <2>1, <1>1, <1>2, <1>3, DecodedScans, Scan0 DEF t
<1>11. From(Unescape, t, 1, 0) = From(Unescape, r, 2, s[2])
  <2>1. From(Unescape, t, 1, 0) = Scan(Unescape, <<t, 1, 0>>)
    BY <1>3, <1>9, FromScans
  <2> QED BY <2>1, <1>1, <1>4, <1>7, Scan1 DEF r
<1>12. From(Unescape, r, 2, s[2]) = Put(Hex(s[2]) * 16 + Hex(s[3]), Decoded(Tail(r)))
  <2>1. From(Unescape, r, 2, s[2]) = Scan(Unescape, <<r, 2, s[2]>>)
    BY <1>5, <1>8, <1>9, FromScans
  <2> QED BY <2>1, <1>1, <1>6, <1>7, Scan2 DEF Decoded
<1>13. Hex(s[2]) * 16 + Hex(s[3]) = 16 * Hex(s[2]) + Hex(s[3])
  BY <1>1, <1>8, EscapeIsChar
<1> QED BY <1>10, <1>11, <1>12, <1>13 DEF r, t

(* Meant, character by character.                                          *)
Octets(s) == [i \in DOMAIN s |-> Octet(s, i)]

(* Where an escape may begin.                                              *)
LEMMA EscapeFacts ==
    ASSUME NEW s \in Text, NEW i \in Int, IsEscape(s, i)
    PROVE  /\ i \in 1 .. Len(s) /\ i + 2 <= Len(s) /\ Len(s) \in Nat
           /\ s[i] = Percent /\ IsHex(s[i + 1]) /\ IsHex(s[i + 2])
           /\ s[i + 1] \in Char /\ s[i + 2] \in Char
           /\ s[i + 1] # Percent /\ s[i + 2] # Percent
<1>1. Len(s) \in Nat /\ DOMAIN s = 1 .. Len(s)
  BY LenProperties DEF Text
<1>2. /\ i \in 1 .. Len(s) /\ i + 2 <= Len(s)
      /\ s[i] = Percent /\ IsHex(s[i + 1]) /\ IsHex(s[i + 2])
  BY <1>1 DEF IsEscape
<1>3. i + 1 \in 1 .. Len(s) /\ i + 2 \in 1 .. Len(s)
  BY <1>1, <1>2
<1>4. s[i + 1] \in Char /\ s[i + 2] \in Char
  BY <1>3, ElementOfSeq DEF Text
<1> QED BY <1>1, <1>2, <1>4, HexFacts

(* Escapes do not overlap.                                                 *)
LEMMA EscapesApart ==
    ASSUME NEW s \in Text, NEW i \in Int, IsEscape(s, i)
    PROVE  ~IsEscape(s, i - 1) /\ ~IsEscape(s, i - 2)
<1>1. s[i] = Percent
  BY EscapeFacts
<1>2. ASSUME IsEscape(s, i - 1)
      PROVE  FALSE
  <2>1. i - 1 \in Int /\ (i - 1) + 1 = i
    OBVIOUS
  <2>2. s[(i - 1) + 1] # Percent
    BY <2>1, <1>2, EscapeFacts
  <2> QED BY <1>1, <2>1, <2>2
<1>3. ASSUME IsEscape(s, i - 2)
      PROVE  FALSE
  <2>1. i - 2 \in Int /\ (i - 2) + 2 = i
    OBVIOUS
  <2>2. s[(i - 2) + 2] # Percent
    BY <2>1, <1>3, EscapeFacts
  <2> QED BY <1>1, <2>1, <2>2
<1> QED BY <1>2, <1>3

(* What a character stands for, by cases.                                  *)
LEMMA OctetCases ==
    ASSUME NEW s \in Text, NEW i \in Int
    PROVE  /\ IsEscape(s, i) => Octet(s, i) = <<16 * Hex(s[i + 1]) + Hex(s[i + 2])>>
           /\ ~IsEscape(s, i) /\ (IsEscape(s, i - 1) \/ IsEscape(s, i - 2)) =>
                  Octet(s, i) = <<>>
           /\ ~IsEscape(s, i) /\ ~IsEscape(s, i - 1) /\ ~IsEscape(s, i - 2) =>
                  Octet(s, i) = <<Plain(s[i])>>
<1> DEFINE e0 == IsEscape(s, i)
           e1 == IsEscape(s, i - 1)
           e2 == IsEscape(s, i - 2)
           v == <<16 * Hex(s[i + 1]) + Hex(s[i + 2])>>
<1>1. e0 => ~e1 /\ ~e2
  BY EscapesApart
<1>2. Octet(s, i) = CASE e0 -> v
                      [] e1 \/ e2 -> <<>>
                      [] s[i] = Plus -> <<Space>>
                      [] OTHER -> <<s[i]>>
  BY DEF Octet
<1>3. Percent # Plus
  BY DEF Percent, Plus
<1>4. e0 => s[i] = Percent
  BY EscapeFacts
<1>5. (e1 \/ e2) => s[i] # Plus
  <2>1. ASSUME e1
        PROVE  s[i] # Plus
    <3>1. i - 1 \in Int /\ (i - 1) + 1 = i
      OBVIOUS
    <3>2. IsHex(s[(i - 1) + 1]) /\ s[(i - 1) + 1] \in Char
      BY <2>1, <3>1, EscapeFacts
    <3> QED BY <3>1, <3>2, HexFacts
  <2>2. ASSUME e2
        PROVE  s[i] # Plus
    <3>1. i - 2 \in Int /\ (i - 2) + 2 = i
      OBVIOUS
    <3>2. IsHex(s[(i - 2) + 2]) /\ s[(i - 2) + 2] \in Char
      BY <2>2, <3>1, EscapeFacts
    <3> QED BY <3>1, <3>2, HexFacts
  <2> QED BY <2>1, <2>2
<1> HIDE DEF e0, e1, e2, v
<1>6. e0 => Octet(s, i) = v
  BY <1>1, <1>2, <1>3, <1>4
<1>7. ~e0 /\ (e1 \/ e2) => Octet(s, i) = <<>>
  BY <1>2, <1>5
<1>8. ~e0 /\ ~e1 /\ ~e2 => Octet(s, i) = <<Plain(s[i])>>
  BY <1>2 DEF Plain
<1> QED BY <1>6, <1>7, <1>8 DEF e0, e1, e2, v

(* That is a text.                                                         *)
LEMMA OctetTyped ==
    ASSUME NEW s \in Text, NEW i \in 1 .. Len(s)
    PROVE  Octet(s, i) \in Text
<1>1. i \in Int /\ s[i] \in Char
  BY ElementOfSeq DEF Text
<1>2. \A x \in Char : <<x>> \in Text
  BY DEF Text
<1>3. <<>> \in Text
  BY EmptySeq DEF Text
<1>4. Plain(s[i]) \in Char
  BY <1>1 DEF Plain, Space, Char
<1>5. CASE IsEscape(s, i)
  <2>1. /\ s[i + 1] \in Char /\ s[i + 2] \in Char /\ IsHex(s[i + 1]) /\ IsHex(s[i + 2])
    BY <1>1, <1>5, EscapeFacts
  <2>2. 16 * Hex(s[i + 1]) + Hex(s[i + 2]) \in Char
    BY <2>1, EscapeIsChar
  <2>3. Octet(s, i) = <<16 * Hex(s[i + 1]) + Hex(s[i + 2])>>
    BY <1>1, <1>5, OctetCases
  <2> QED BY <1>2, <2>2, <2>3
<1>6. CASE ~IsEscape(s, i) /\ (IsEscape(s, i - 1) \/ IsEscape(s, i - 2))
  BY <1>1, <1>3, <1>6, OctetCases
<1>7. CASE ~IsEscape(s, i) /\ ~IsEscape(s, i - 1) /\ ~IsEscape(s, i - 2)
  BY <1>1, <1>2, <1>4, <1>7, OctetCases
<1> QED BY <1>5, <1>6, <1>7

(* What each place of a text decodes to is a text.                         *)
LEMMA OctetsTyped ==
    ASSUME NEW s \in Text
    PROVE  /\ Octets(s) \in Seq(Text) /\ Len(Octets(s)) = Len(s)
           /\ \A i \in 1 .. Len(s) : Octets(s)[i] = Octet(s, i)
<1>1. DOMAIN s = 1 .. Len(s) /\ Len(s) \in Nat
  BY LenProperties DEF Text
<1>2. \A i \in 1 .. Len(s) : Octet(s, i) \in Text
  BY OctetTyped
<1>3. Octets(s) = [i \in 1 .. Len(s) |-> Octet(s, i)]
  BY <1>1 DEF Octets
<1> DEFINE q == [i \in 1 .. Len(s) |-> Octet(s, i)]
<1>4. q \in [1 .. Len(s) -> Text]
  BY <1>2
<1>5. q \in Seq(Text) /\ Len(q) = Len(s) /\ \A i \in 1 .. Len(s) : q[i] = Octet(s, i)
  BY <1>1, <1>4
<1> QED BY <1>3, <1>5

(* Escapes, and what the characters stand for, without the first k of a    *)
(* text, none of them being within an escape that goes on.                 *)
LEMMA OctetShift ==
    ASSUME NEW s \in Text, NEW t \in Text, NEW k \in Nat, Len(s) = Len(t) + k,
           \A i \in 1 .. Len(t) : t[i] = s[i + k],
           ~IsEscape(s, k), ~IsEscape(s, k - 1)
    PROVE  \A i \in 1 .. Len(t) : Octet(t, i) = Octet(s, i + k)
<1>1. /\ Len(t) \in Nat /\ DOMAIN t = 1 .. Len(t) /\ Len(s) \in Nat /\ DOMAIN s = 1 .. Len(s)
  BY LenProperties DEF Text
<1>2. ASSUME NEW i \in Int, 1 <= i
      PROVE  /\ IsEscape(t, i) <=> IsEscape(s, i + k)
             /\ IsEscape(t, i) => t[i + 1] = s[i + k + 1] /\ t[i + 2] = s[i + k + 2]
  <2>1. CASE i + 2 <= Len(t)
    <3>1. /\ i \in 1 .. Len(t) /\ i + 1 \in 1 .. Len(t) /\ i + 2 \in 1 .. Len(t)
          /\ i + k \in 1 .. Len(s) /\ i + k + 2 <= Len(s)
          /\ (i + 1) + k = i + k + 1 /\ (i + 2) + k = i + k + 2
      BY <1>1, <1>2, <2>1
    <3>2. t[i] = s[i + k] /\ t[i + 1] = s[i + k + 1] /\ t[i + 2] = s[i + k + 2]
      BY <3>1
    <3> QED BY <1>1, <2>1, <3>1, <3>2 DEF IsEscape
  <2>2. CASE ~(i + 2 <= Len(t))
    <3>1. ~(i + k + 2 <= Len(s))
      BY <1>1, <2>2
    <3> QED BY <2>2, <3>1 DEF IsEscape
  <2> QED BY <2>1, <2>2
<1>3. ~IsEscape(t, 0) /\ ~IsEscape(t, -1)
  BY <1>1 DEF IsEscape
<1>4. ASSUME NEW i \in 1 .. Len(t)
      PROVE  Octet(t, i) = Octet(s, i + k)
  <2>1. i \in Int /\ i + k \in Int /\ 1 <= i /\ t[i] = s[i + k]
    BY <1>1
  <2>2. IsEscape(t, i) <=> IsEscape(s, i + k)
    BY <2>1, <1>2
  <2>3. IsEscape(t, i - 1) <=> IsEscape(s, (i + k) - 1)
    <3>1. CASE i = 1
      <4>1. i - 1 = 0 /\ (i + k) - 1 = k
        BY <3>1
      <4> QED BY <4>1, <1>3
    <3>2. CASE i # 1
      <4>1. i - 1 \in Int /\ 1 <= i - 1 /\ (i - 1) + k = (i + k) - 1
        BY <3>2, <1>1
      <4> QED BY <4>1, <1>2
    <3> QED BY <3>1, <3>2
  <2>4. IsEscape(t, i - 2) <=> IsEscape(s, (i + k) - 2)
    <3>1. CASE i = 1
      <4>1. i - 2 = -1 /\ (i + k) - 2 = k - 1
        BY <3>1
      <4> QED BY <4>1, <1>3
    <3>2. CASE i = 2
      <4>1. i - 2 = 0 /\ (i + k) - 2 = k
        BY <3>2
      <4> QED BY <4>1, <1>3
    <3>3. CASE i # 1 /\ i # 2
      <4>1. i - 2 \in Int /\ 1 <= i - 2 /\ (i - 2) + k = (i + k) - 2
        BY <3>3, <1>1
      <4> QED BY <4>1, <1>2
    <3> QED BY <3>1, <3>2, <3>3
  <2>5. CASE IsEscape(t, i)
    <3>1. t[i + 1] = s[i + k + 1] /\ t[i + 2] = s[i + k + 2]
      BY <2>1, <2>5, <1>2
    <3>2. /\ Octet(t, i) = <<16 * Hex(t[i + 1]) + Hex(t[i + 2])>>
          /\ Octet(s, i + k) = <<16 * Hex(s[i + k + 1]) + Hex(s[i + k + 2])>>
      BY <2>1, <2>2, <2>5, OctetCases
    <3> QED BY <3>1, <3>2
  <2>6. CASE ~IsEscape(t, i) /\ (IsEscape(t, i - 1) \/ IsEscape(t, i - 2))
    BY <2>1, <2>2, <2>3, <2>4, <2>6, OctetCases
  <2>7. CASE ~IsEscape(t, i) /\ ~IsEscape(t, i - 1) /\ ~IsEscape(t, i - 2)
    BY <2>1, <2>2, <2>3, <2>4, <2>7, OctetCases
  <2> QED BY <2>5, <2>6, <2>7
<1> QED BY <1>4

(* Meant is a text; and what remains of it after the first ones.           *)
LEMMA MeantTyped == \A s \in Text : Meant(s) = FlattenSeq(Octets(s)) /\ Meant(s) \in Text
<1> SUFFICES ASSUME NEW s \in Text
             PROVE  Meant(s) = FlattenSeq(Octets(s)) /\ Meant(s) \in Text
  OBVIOUS
<1>1. Meant(s) = FlattenSeq(Octets(s))
  BY Zenon DEF Meant, Octets
<1>2. FlattenSeq(Octets(s)) \in Text
  BY OctetsTyped, FlattenType DEF Text
<1> QED BY <1>1, <1>2

(* Nothing is meant by the empty text.                                     *)
LEMMA MeantEmpty == Meant(<<>>) = <<>>
<1>1. <<>> \in Text /\ Len(<<>>) = 0
  BY EmptySeq DEF Text
<1>2. Octets(<<>>) = <<>>
  BY <1>1, OctetsTyped, EmptySeq
<1> QED BY <1>1, <1>2, MeantTyped, FlattenEmpty

(* A text that begins with no escape means its first symbol, and the rest. *)
LEMMA MeantPlain ==
    ASSUME NEW s \in Text, s # <<>>, ~IsEscape(s, 1)
    PROVE  Meant(s) = Put(Plain(Head(s)), Meant(Tail(s)))
<1> DEFINE t == Tail(s)
<1>1. /\ t \in Text /\ Len(s) \in Nat \ {0} /\ Len(t) = Len(s) - 1 /\ Head(s) = s[1]
      /\ \A i \in 1 .. Len(t) : t[i] = s[i + 1]
  BY HeadTailProperties, EmptySeq DEF Text
<1> HIDE DEF t
<1>2. ~IsEscape(s, 0) /\ ~IsEscape(s, -1)
  <2>1. DOMAIN s = 1 .. Len(s)
    BY LenProperties DEF Text
  <2> QED BY <2>1 DEF IsEscape
<1>3. \A i \in 1 .. Len(t) : Octet(t, i) = Octet(s, i + 1)
  <2>1. 1 \in Nat /\ Len(s) = Len(t) + 1 /\ ~IsEscape(s, 1 - 1)
    BY <1>1, <1>2
  <2> QED BY <1>1, <2>1, OctetShift
<1>4. Octet(s, 1) = <<Plain(s[1])>>
  <2>1. 1 \in Int /\ ~IsEscape(s, 1 - 1) /\ ~IsEscape(s, 1 - 2)
    BY <1>2
  <2> QED BY <2>1, OctetCases
<1>5. Octets(s) # <<>> /\ Octets(s)[1] = <<Plain(s[1])>>
  BY <1>1, <1>4, OctetsTyped, EmptySeq
<1>6. Tail(Octets(s)) = Octets(t)
  <2> DEFINE p == Octets(s)
             q == Octets(t)
  <2>1. /\ p \in Seq(Text) /\ Len(p) = Len(s) /\ p # <<>>
        /\ \A i \in 1 .. Len(s) : p[i] = Octet(s, i)
    BY <1>5, OctetsTyped
  <2>2. /\ q \in Seq(Text) /\ Len(q) = Len(t)
        /\ \A i \in 1 .. Len(t) : q[i] = Octet(t, i)
    BY <1>1, OctetsTyped
  <2> HIDE DEF p, q
  <2>3. /\ Tail(p) \in Seq(Text) /\ Len(Tail(p)) = Len(p) - 1
        /\ \A i \in 1 .. Len(Tail(p)) : Tail(p)[i] = p[i + 1]
    BY <2>1, HeadTailProperties
  <2>4. \A i \in 1 .. Len(t) : i + 1 \in 1 .. Len(s)
    BY <1>1
  <2>5. \A i \in 1 .. Len(t) : Tail(p)[i] = q[i]
    BY <1>1, <1>3, <2>1, <2>2, <2>3, <2>4
  <2>6. Tail(p) = q
    BY <1>1, <2>1, <2>2, <2>3, <2>5, SeqEqual
  <2> QED BY <2>6 DEF p, q
<1>7. FlattenSeq(Octets(s)) = Octets(s)[1] \o FlattenSeq(Tail(Octets(s)))
  BY <1>5, OctetsTyped, FlattenTail DEF Text
<1> QED BY <1>1, <1>5, <1>6, <1>7, MeantTyped DEF Put, t

(* A sequence without its first three elements.                            *)
LEMMA ThreeTails ==
    ASSUME NEW S, NEW p \in Seq(S), Len(p) \in Nat, 3 <= Len(p)
    PROVE  /\ p # <<>> /\ Tail(p) # <<>> /\ Tail(Tail(p)) # <<>>
           /\ Tail(p) \in Seq(S) /\ Tail(Tail(p)) \in Seq(S)
           /\ Tail(Tail(Tail(p))) \in Seq(S)
           /\ Len(Tail(Tail(Tail(p)))) = Len(p) - 3
           /\ Tail(p)[1] = p[2] /\ Tail(Tail(p))[1] = p[3]
           /\ \A i \in 1 .. Len(p) - 3 : Tail(Tail(Tail(p)))[i] = p[i + 3]
<1>0. p # <<>>
  BY EmptySeq
<1> DEFINE a == Tail(p)
<1>1. /\ a \in Seq(S) /\ Len(a) = Len(p) - 1 /\ \A i \in 1 .. Len(p) - 1 : a[i] = p[i + 1]
  BY <1>0, HeadTailProperties
<1> HIDE DEF a
<1>2. a # <<>>
  BY <1>1, EmptySeq
<1> DEFINE b == Tail(a)
<1>3. /\ b \in Seq(S) /\ Len(b) = Len(p) - 2 /\ \A i \in 1 .. Len(p) - 2 : b[i] = a[i + 1]
  BY <1>1, <1>2, HeadTailProperties
<1> HIDE DEF b
<1>4. b # <<>>
  BY <1>3, EmptySeq
<1> DEFINE c == Tail(b)
<1>5. /\ c \in Seq(S) /\ Len(c) = Len(p) - 3 /\ \A i \in 1 .. Len(p) - 3 : c[i] = b[i + 1]
  BY <1>3, <1>4, HeadTailProperties
<1> HIDE DEF c
<1>6. a[1] = p[2] /\ b[1] = p[3]
  BY <1>1, <1>3
<1>7. \A i \in 1 .. Len(p) - 3 : c[i] = p[i + 3]
  BY <1>1, <1>3, <1>5
<1> QED BY <1>0, <1>1, <1>2, <1>3, <1>4, <1>5, <1>6, <1>7 DEF a, b, c

(* A text that begins with an escape means its octet, and the rest.        *)
LEMMA MeantEscape ==
    ASSUME NEW s \in Text, IsEscape(s, 1)
    PROVE  Meant(s) = Put(16 * Hex(s[2]) + Hex(s[3]), Meant(Tail(Tail(Tail(s)))))
<1> DEFINE t == Tail(Tail(Tail(s)))
           v == 16 * Hex(s[2]) + Hex(s[3])
<1>1. Len(s) \in Nat /\ 3 <= Len(s)
  BY EscapeFacts
<1>3. /\ t \in Text /\ Len(t) = Len(s) - 3
      /\ \A i \in 1 .. Len(s) - 3 : t[i] = s[i + 3]
  BY <1>1, ThreeTails DEF Text
<1> DEFINE p == Octets(s)
           q == Octets(t)
           r == Tail(Tail(Tail(p)))
<1>4. /\ p \in Seq(Text) /\ Len(p) = Len(s)
      /\ \A i \in 1 .. Len(s) : p[i] = Octet(s, i)
  BY OctetsTyped
<1>5. /\ q \in Seq(Text) /\ Len(q) = Len(t)
      /\ \A i \in 1 .. Len(t) : q[i] = Octet(t, i)
  BY <1>3, OctetsTyped
<1> HIDE DEF p, q, t
<1>6. /\ p # <<>> /\ Tail(p) # <<>> /\ Tail(Tail(p)) # <<>>
      /\ Tail(p) \in Seq(Text) /\ Tail(Tail(p)) \in Seq(Text) /\ r \in Seq(Text)
      /\ Len(r) = Len(s) - 3
      /\ Tail(p)[1] = p[2] /\ Tail(Tail(p))[1] = p[3]
      /\ \A i \in 1 .. Len(s) - 3 : r[i] = p[i + 3]
  BY <1>1, <1>4, ThreeTails
<1>7. \A i \in 1 .. Len(t) : Octet(t, i) = Octet(s, i + 3)
  <2>1. ~IsEscape(s, 2) /\ ~IsEscape(s, 3)
    <3>1. 1 \in Int /\ s[1 + 1] # Percent /\ s[1 + 2] # Percent
      BY EscapeFacts
    <3> QED BY <3>1 DEF IsEscape
  <2>2. 3 \in Nat /\ Len(s) = Len(t) + 3 /\ ~IsEscape(s, 3 - 1)
        /\ \A i \in 1 .. Len(t) : t[i] = s[i + 3]
    BY <1>1, <1>3, <2>1
  <2> QED BY <1>3, <2>1, <2>2, OctetShift
<1>8. r = q
  <2>1. \A i \in 1 .. Len(t) : i \in 1 .. Len(s) - 3 /\ i + 3 \in 1 .. Len(s)
    BY <1>1, <1>3
  <2>2. \A i \in 1 .. Len(t) : r[i] = q[i]
    BY <1>4, <1>5, <1>6, <1>7, <2>1
  <2> HIDE DEF r
  <2> QED BY <1>3, <1>5, <1>6, <2>2, SeqEqual
<1>9. p[1] = <<v>> /\ p[2] = <<>> /\ p[3] = <<>>
  <2>1. 1 \in 1 .. Len(s) /\ 2 \in 1 .. Len(s) /\ 3 \in 1 .. Len(s)
    BY <1>1
  <2>2. p[1] = <<v>>
    <3>1. 1 \in Int /\ 1 + 1 = 2 /\ 1 + 2 = 3
      OBVIOUS
    <3>2. Octet(s, 1) = <<16 * Hex(s[1 + 1]) + Hex(s[1 + 2])>>
      BY <3>1, OctetCases
    <3> QED BY <3>1, <3>2, <2>1, <1>4
  <2>3. ~IsEscape(s, 2) /\ ~IsEscape(s, 3)
    <3>1. 1 \in Int /\ s[1 + 1] # Percent /\ s[1 + 2] # Percent
      BY EscapeFacts
    <3> QED BY <3>1 DEF IsEscape
  <2>4. Octet(s, 2) = <<>>
    <3>1. 2 \in Int /\ IsEscape(s, 2 - 1)
      OBVIOUS
    <3> QED BY <2>3, <3>1, OctetCases
  <2>5. Octet(s, 3) = <<>>
    <3>1. 3 \in Int /\ IsEscape(s, 3 - 2)
      OBVIOUS
    <3> QED BY <2>3, <3>1, OctetCases
  <2> QED BY <2>1, <2>2, <2>4, <2>5, <1>4
<1>10. FlattenSeq(p) = <<v>> \o FlattenSeq(q)
  <2>1. FlattenSeq(p) = p[1] \o FlattenSeq(Tail(p))
    BY <1>4, <1>6, FlattenTail DEF Text
  <2>2. FlattenSeq(Tail(p)) = <<>> \o FlattenSeq(Tail(Tail(p)))
    BY <1>6, <1>9, FlattenTail DEF Text
  <2>3. FlattenSeq(Tail(Tail(p))) = <<>> \o FlattenSeq(q)
    BY <1>6, <1>8, <1>9, FlattenTail DEF Text
  <2>4. FlattenSeq(q) \in Seq(Char)
    BY <1>5, FlattenType DEF Text
  <2>5. <<>> \o FlattenSeq(q) = FlattenSeq(q)
    BY <2>4, ConcatEmptySeq
  <2> QED BY <1>9, <2>1, <2>2, <2>3, <2>5
<1>11. Meant(s) = FlattenSeq(p) /\ Meant(t) = FlattenSeq(q)
  BY <1>3, MeantTyped DEF p, q
<1> QED BY <1>10, <1>11 DEF Put, t

(* The automaton does what is meant.                                       *)
LEMMA DecodesAsMeant == \A s \in Text : Decoded(s) = Meant(s)
<1> DEFINE T == {s \in Text : Decoded(s) = Meant(s)}
           rank == [s \in Text |-> Len(s)]
           D == Text
<1>1. rank \in [D -> Nat]
  BY LenProperties DEF Text
<1>2. ASSUME NEW s \in D, \A t \in D : rank[t] < rank[s] => t \in T
      PROVE  s \in T
  <2>1. CASE s = <<>>
    BY <2>1, DecodedEmpty, MeantEmpty
  <2>2. CASE s # <<>> /\ ~IsEscape(s, 1)
    <3>1. Tail(s) \in Text /\ Len(Tail(s)) < Len(s)
      BY <2>2, HeadTailProperties, EmptySeq DEF Text
    <3>2. Decoded(Tail(s)) = Meant(Tail(s))
      BY <1>2, <3>1
    <3> QED BY <2>2, <3>2, DecodedPlain, MeantPlain
  <2>3. CASE IsEscape(s, 1)
    <3>1. Len(s) \in Nat /\ 3 <= Len(s)
      BY <2>3, EscapeFacts
    <3>2. Tail(Tail(Tail(s))) \in Text /\ Len(Tail(Tail(Tail(s)))) = Len(s) - 3
      BY <3>1, ThreeTails DEF Text
    <3> DEFINE t == Tail(Tail(Tail(s)))
    <3> HIDE DEF t
    <3>3. t \in Text /\ Len(t) = Len(s) - 3
      BY <3>2 DEF t
    <3>4. rank[t] < rank[s]
      BY <3>1, <3>3
    <3>5. Decoded(t) = Meant(t)
      BY <1>2, <3>3, <3>4
    <3> QED BY <2>3, <3>5, DecodedEscape, MeantEscape DEF t
  <2> QED BY <2>1, <2>2, <2>3
<1> HIDE DEF T, D, rank
<1>3. \A s \in D : s \in T
  BY ONLY <1>1, <1>2, RankInduction
<1> QED BY <1>3 DEF T, D

-------------------------------------------------------------------------------
(* Parsing arguments.                                                      *)

(* The least number of a set.                                              *)
LEMMA MinIs ==
    ASSUME NEW S, S \subseteq Nat, NEW x \in S, \A y \in S : x <= y
    PROVE  Min(S) = x
<1>1. \A z \in S : (\A y \in S : z <= y) => z = x
  OBVIOUS
<1> QED BY <1>1 DEF Min

(* A set of naturals has a least element.                                  *)
LEMMA MinFacts ==
    ASSUME NEW S, S \subseteq Nat, S # {}
    PROVE  Min(S) \in S /\ \A y \in S : Min(S) <= y
<1>1. PICK x \in S : \A y \in S : x <= y
  BY LeastNatural
<1>2. Min(S) = x
  BY <1>1, MinIs
<1> QED BY <1>1, <1>2

(* What is left of a text, from a position on, and its parts.              *)
LEMMA SubText ==
    ASSUME NEW s \in Text, NEW a \in Int, NEW b \in Int, 1 <= a, b <= Len(s)
    PROVE  /\ Len(s) \in Nat /\ SubSeq(s, a, b) \in Text
           /\ Len(SubSeq(s, a, b)) = IF a <= b THEN b - a + 1 ELSE 0
           /\ \A i \in 1 .. b - a + 1 : SubSeq(s, a, b)[i] = s[a + i - 1]
<1>1. Len(s) \in Nat
  BY LenProperties DEF Text
<1>2. \A i \in a .. b : s[i] \in Char
  <2>1. \A i \in a .. b : i \in 1 .. Len(s)
    BY <1>1
  <2> QED BY <2>1, ElementOfSeq DEF Text
<1> QED BY <1>1, <1>2, SubSeqProperties DEF Text

(* A part of a part of a text is a part of it.                             *)
LEMMA SubSubText ==
    ASSUME NEW s \in Text, NEW a \in Int, 1 <= a, a <= Len(s) + 1,
           NEW i \in Int, NEW j \in Int, 1 <= i, j <= Len(s) - a + 1
    PROVE  SubSeq(SubSeq(s, a, Len(s)), i, j) = SubSeq(s, i + a - 1, j + a - 1)
<1> DEFINE t == SubSeq(s, a, Len(s))
           p == SubSeq(t, i, j)
           q == SubSeq(s, i + a - 1, j + a - 1)
<1>1. Len(s) \in Nat
  BY LenProperties DEF Text
<1>2. t \in Text /\ Len(t) = Len(s) - a + 1 /\ \A k \in 1 .. Len(t) : t[k] = s[a + k - 1]
  <2>1. Len(s) \in Int /\ Len(s) <= Len(s)
    BY <1>1
  <2>2. /\ t \in Text
        /\ Len(t) = IF a <= Len(s) THEN Len(s) - a + 1 ELSE 0
        /\ \A k \in 1 .. Len(s) - a + 1 : t[k] = s[a + k - 1]
    BY <2>1, SubText
  <2> QED BY <1>1, <2>2
<1> HIDE DEF t
<1>3. /\ p \in Text /\ Len(p) = IF i <= j THEN j - i + 1 ELSE 0
      /\ \A k \in 1 .. j - i + 1 : p[k] = t[i + k - 1]
  BY <1>2, SubText
<1>4. /\ q \in Text /\ Len(q) = IF i <= j THEN j - i + 1 ELSE 0
      /\ \A k \in 1 .. j - i + 1 : q[k] = s[i + a - 1 + k - 1]
  <2> DEFINE c == i + a - 1
             d == j + a - 1
  <2>1. /\ c \in Int /\ d \in Int /\ 1 <= c /\ d <= Len(s) /\ (c <= d <=> i <= j)
        /\ d - c + 1 = j - i + 1
    BY <1>1
  <2> HIDE DEF c, d
  <2>2. /\ SubSeq(s, c, d) \in Text /\ Len(SubSeq(s, c, d)) = IF c <= d THEN d - c + 1 ELSE 0
        /\ \A k \in 1 .. d - c + 1 : SubSeq(s, c, d)[k] = s[c + k - 1]
    BY <2>1, SubText
  <2> QED BY <2>1, <2>2 DEF c, d
<1>5. \A k \in 1 .. Len(p) : p[k] = q[k]
  <2> SUFFICES ASSUME NEW k \in 1 .. Len(p)
               PROVE  p[k] = q[k]
    OBVIOUS
  <2>1. k \in 1 .. j - i + 1 /\ i + k - 1 \in 1 .. Len(t)
    BY <1>1, <1>2, <1>3
  <2>2. a + (i + k - 1) - 1 = i + a - 1 + k - 1
    BY <2>1
  <2> QED BY <2>1, <2>2, <1>2, <1>3, <1>4
<1> HIDE DEF p, q
<1>6. p = q
  BY <1>3, <1>4, <1>5, SeqEqual DEF Text
<1> QED BY <1>6 DEF p, q, t

(* The first token: what is in s before its first separator.               *)
LEMMA TokenFacts ==
    ASSUME NEW s \in Text, NEW state
    PROVE  /\ TokenLength(s, state) \in 0 .. Len(s)
           /\ \A i \in 1 .. TokenLength(s, state) : s[i] \notin Separators(state)
           /\ TokenLength(s, state) # Len(s) =>
                 s[TokenLength(s, state) + 1] \in Separators(state)
<1> DEFINE ends == {i \in DOMAIN s : s[i] \in Separators(state)}
<1>1. Len(s) \in Nat /\ DOMAIN s = 1 .. Len(s)
  BY LenProperties DEF Text
<1>2. TokenLength(s, state) = IF ends = {} THEN Len(s) ELSE Min(ends) - 1
  BY Zenon DEF TokenLength
<1>3. CASE ends = {}
  BY <1>1, <1>2, <1>3
<1>4. CASE ends # {}
  <2>1. ends \subseteq Nat
    BY <1>1
  <2>2. Min(ends) \in ends /\ \A i \in ends : Min(ends) <= i
    BY <1>4, <2>1, MinFacts
  <2>3. Min(ends) \in 1 .. Len(s) /\ s[Min(ends)] \in Separators(state)
    BY <1>1, <2>2
  <2>4. TokenLength(s, state) = Min(ends) - 1
    BY <1>2, <1>4
  <2>5. \A i \in 1 .. TokenLength(s, state) : s[i] \notin Separators(state)
    <3>1. \A i \in 1 .. TokenLength(s, state) : i \in DOMAIN s /\ ~(Min(ends) <= i)
      BY <1>1, <2>3, <2>4
    <3> QED BY <3>1, <2>2
  <2>6. TokenLength(s, state) + 1 = Min(ends) /\ TokenLength(s, state) \in 0 .. Len(s)
    BY <1>1, <2>3, <2>4
  <2> QED BY <2>3, <2>5, <2>6
<1> QED BY <1>3, <1>4

(* It, decoded; and what is after it.                                      *)
Token(s, state) == Decoded(SubSeq(s, 1, TokenLength(s, state)))

RestOf(s, state) == SubSeq(s, TokenLength(s, state) + 2, Len(s))

(* A token is what its symbols mean; it and what is behind it are texts.   *)
LEMMA TokenTyped ==
    ASSUME NEW s \in Text, NEW state
    PROVE  /\ Token(s, state) \in Text
           /\ Token(s, state) = Meant(SubSeq(s, 1, TokenLength(s, state)))
           /\ RestOf(s, state) \in Text
           /\ TokenLength(s, state) # Len(s) =>
                 Len(RestOf(s, state)) = Len(s) - TokenLength(s, state) - 1
<1> DEFINE n == TokenLength(s, state)
<1>1. Len(s) \in Nat /\ n \in 0 .. Len(s)
  BY TokenFacts, LenProperties DEF Text
<1> HIDE DEF n
<1>2. SubSeq(s, 1, n) \in Text
  BY <1>1, SubText
<1>3. SubSeq(s, n + 2, Len(s)) \in Text
      /\ Len(SubSeq(s, n + 2, Len(s))) = IF n + 2 <= Len(s) THEN Len(s) - (n + 2) + 1 ELSE 0
  <2>1. n + 2 \in Int /\ Len(s) \in Int /\ 1 <= n + 2 /\ Len(s) <= Len(s)
    BY <1>1
  <2> QED BY <2>1, SubText
<1>4. Token(s, state) = Meant(SubSeq(s, 1, n)) /\ Meant(SubSeq(s, 1, n)) \in Text
  BY <1>2, DecodesAsMeant, MeantTyped DEF Token, n
<1>5. n # Len(s) => Len(SubSeq(s, n + 2, Len(s))) = Len(s) - n - 1
  BY <1>1, <1>3
<1> QED BY <1>3, <1>4, <1>5 DEF RestOf, n

(* The configurations of the parser, and the tables that it may give.      *)
Parses == Text \X (0 .. 1) \X Text

Tables == UNION {[K -> Text] : K \in SUBSET Text}

Later(u, s, state, next) ==
    IF TokenLength(s, state) = Len(s) THEN NoArgs
    ELSE u[<<RestOf(s, state), next, Token(s, state)>>]

(* What the parser gives at one, of what it gives at others.               *)
Parsed(u, at) ==
    LET s     == at[1]
        state == at[2]
        key   == at[3]
        n     == TokenLength(s, state)
        token == Unescape[<<SubSeq(s, 1, n), 0, 0>>]
        isKey == state = 0 /\ n < Len(s) /\ s[n + 1] = Equals
        later == IF n = Len(s) THEN NoArgs
                 ELSE u[<<SubSeq(s, n + 2, Len(s)), IF isKey THEN 1 ELSE 0, token>>]
    IN  CASE isKey                         -> later
          [] ~isKey /\ state = 0 /\ n > 0 -> With(later, token, <<>>)
          [] ~isKey /\ state = 0 /\ n = 0 -> later
          [] state = 1                     -> With(later, key, token)

IsKey(s) == TokenLength(s, 0) < Len(s) /\ s[TokenLength(s, 0) + 1] = Equals

(* A step of the parser at a key.                                          *)
LEMMA Parsed0 ==
    ASSUME NEW u, NEW s, NEW key, TokenLength(s, 0) \in Nat
    PROVE  Parsed(u, <<s, 0, key>>) =
              IF IsKey(s) THEN Later(u, s, 0, 1)
              ELSE IF TokenLength(s, 0) = 0 THEN Later(u, s, 0, 0)
              ELSE With(Later(u, s, 0, 0), Token(s, 0), <<>>)
<1> DEFINE n == TokenLength(s, 0)
           r == RestOf(s, 0)
           k == Token(s, 0)
           K == IsKey(s)
           l == IF n = Len(s) THEN NoArgs ELSE u[<<r, IF K THEN 1 ELSE 0, k>>]
<1>1. Parsed(u, <<s, 0, key>>) =
         CASE K                         -> l
           [] ~K /\ 0 = 0 /\ n > 0 -> With(l, k, <<>>)
           [] ~K /\ 0 = 0 /\ n = 0 -> l
           [] 0 = 1                     -> With(l, key, k)
  BY DEF Parsed, Token, RestOf, Decoded, From, IsKey
<1>2. n \in Nat
  OBVIOUS
<1>3. K => l = Later(u, s, 0, 1)
  BY DEF Later
<1>4. ~K => l = Later(u, s, 0, 0)
  BY DEF Later
<1> HIDE DEF n, k, K, l
<1>5. CASE K
  BY <1>1, <1>3, <1>5 DEF K
<1>6. CASE ~K /\ n = 0
  BY <1>1, <1>4, <1>6 DEF K, n
<1>7. CASE ~K /\ n > 0
  BY <1>1, <1>4, <1>7 DEF K, n, k
<1> QED BY <1>2, <1>5, <1>6, <1>7

(* A step of the parser at a value.                                        *)
LEMMA Parsed1 ==
    ASSUME NEW u, NEW s, NEW key
    PROVE  Parsed(u, <<s, 1, key>>) = With(Later(u, s, 1, 0), key, Token(s, 1))
  BY DEF Parsed, Later, Token, RestOf, Decoded, From

(* A table with one more entry.                                            *)
LEMMA WithTyped ==
    ASSUME NEW later \in Tables, NEW key \in Text, NEW value \in Text
    PROVE  With(later, key, value) \in Tables
<1>1. PICK K \in SUBSET Text : later \in [K -> Text]
  BY DEF Tables
<1>2. With(later, key, value) \in [K \cup {key} -> Text]
  BY <1>1 DEF With
<1>3. K \cup {key} \in SUBSET Text
  OBVIOUS
<1> QED BY <1>2, <1>3 DEF Tables

(* The empty table is a table.                                             *)
LEMMA NoArgsTyped == NoArgs \in Tables
<1>1. NoArgs \in [{} -> Text]
  BY DEF NoArgs
<1> QED BY <1>1 DEF Tables

(* The parser gives a table, and asks only for shorter texts.              *)
LEMMA LaterTyped ==
    ASSUME NEW u \in [Parses -> Tables], NEW s \in Text, NEW state \in 0 .. 1,
           NEW next \in 0 .. 1
    PROVE  Later(u, s, state, next) \in Tables
<1>1. CASE TokenLength(s, state) = Len(s)
  BY <1>1, NoArgsTyped DEF Later
<1>2. CASE TokenLength(s, state) # Len(s)
  <2>1. RestOf(s, state) \in Text /\ Token(s, state) \in Text
    BY TokenTyped
  <2>2. <<RestOf(s, state), next, Token(s, state)>> \in Parses
    BY <2>1 DEF Parses
  <2> QED BY <1>2, <2>2 DEF Later
<1> QED BY <1>1, <1>2

(* The rest of the parse only asks for shorter texts.                      *)
LEMMA LaterDescends ==
    ASSUME NEW u, NEW v, NEW s \in Text, NEW state \in 0 .. 1, NEW next \in 0 .. 1,
           \A b \in Parses : Len(b[1]) < Len(s) => u[b] = v[b]
    PROVE  Later(u, s, state, next) = Later(v, s, state, next)
<1>1. CASE TokenLength(s, state) = Len(s)
  BY <1>1 DEF Later
<1>2. CASE TokenLength(s, state) # Len(s)
  <2>1. /\ RestOf(s, state) \in Text /\ Token(s, state) \in Text
        /\ Len(RestOf(s, state)) = Len(s) - TokenLength(s, state) - 1
    BY <1>2, TokenTyped
  <2>2. TokenLength(s, state) \in Nat /\ Len(s) \in Nat
    BY TokenFacts, LenProperties DEF Text
  <2>3. Len(RestOf(s, state)) < Len(s)
    BY <2>1, <2>2
  <2> DEFINE b == <<RestOf(s, state), next, Token(s, state)>>
  <2>4. b \in Parses
    BY <2>1 DEF Parses
  <2>5. Len(b[1]) < Len(s)
    BY <2>3
  <2> HIDE DEF b
  <2>6. u[b] = v[b]
    BY <2>4, <2>5
  <2> QED BY <1>2, <2>6 DEF Later, b
<1> QED BY <1>1, <1>2

(* A step of the parser gives a table.                                     *)
LEMMA ParsedTyped ==
    ASSUME NEW u \in [Parses -> Tables], NEW at \in Parses
    PROVE  Parsed(u, at) \in Tables
<1> PICK s \in Text, state \in 0 .. 1, key \in Text : at = <<s, state, key>>
  BY DEF Parses
<1>1. /\ Token(s, 0) \in Text /\ Token(s, 1) \in Text /\ <<>> \in Text
      /\ TokenLength(s, 0) \in Nat
  <2>1. Token(s, 0) \in Text
    BY TokenTyped
  <2>2. Token(s, 1) \in Text
    BY TokenTyped
  <2>3. <<>> \in Text
    BY EmptySeq DEF Text
  <2>4. TokenLength(s, 0) \in 0 .. Len(s)
    BY TokenFacts
  <2> QED BY <2>1, <2>2, <2>3, <2>4
<1>2. \A st, next \in 0 .. 1 : Later(u, s, st, next) \in Tables
  BY LaterTyped
<1>3. CASE state = 0
  <2>1. 0 \in 0 .. 1 /\ 1 \in 0 .. 1
    OBVIOUS
  <2>2. With(Later(u, s, 0, 0), Token(s, 0), <<>>) \in Tables
    BY <1>1, <1>2, <2>1, WithTyped
  <2>3. Parsed(u, <<s, 0, key>>) =
           IF IsKey(s) THEN Later(u, s, 0, 1)
           ELSE IF TokenLength(s, 0) = 0 THEN Later(u, s, 0, 0)
           ELSE With(Later(u, s, 0, 0), Token(s, 0), <<>>)
    BY <1>1, Parsed0
  <2>4. Later(u, s, 0, 1) \in Tables /\ Later(u, s, 0, 0) \in Tables
    BY <1>2, <2>1
  <2> QED BY <1>3, <2>2, <2>3, <2>4
<1>4. CASE state = 1
  <2>1. 0 \in 0 .. 1 /\ 1 \in 0 .. 1
    OBVIOUS
  <2>2. With(Later(u, s, 1, 0), key, Token(s, 1)) \in Tables
    BY <1>1, <1>2, <2>1, WithTyped
  <2> QED BY <1>4, <2>2, Parsed1
<1> QED BY <1>3, <1>4

(* A step of the parser only asks for shorter texts.                       *)
LEMMA ParsedDescends ==
    ASSUME NEW u, NEW v, NEW at \in Parses,
           \A b \in Parses : Len(b[1]) < Len(at[1]) => u[b] = v[b]
    PROVE  Parsed(u, at) = Parsed(v, at)
<1> PICK s \in Text, state \in 0 .. 1, key \in Text : at = <<s, state, key>>
  BY DEF Parses
<1>1. at[1] = s /\ TokenLength(s, 0) \in Nat
  <2>1. TokenLength(s, 0) \in 0 .. Len(s)
    BY TokenFacts
  <2> QED BY <2>1
<1>2. \A b \in Parses : Len(b[1]) < Len(s) => u[b] = v[b]
  BY <1>1
<1>3. ASSUME NEW i \in 0 .. 1, NEW j \in 0 .. 1
      PROVE  Later(u, s, i, j) = Later(v, s, i, j)
  <2>1. s \in Text /\ i \in 0 .. 1 /\ j \in 0 .. 1
    OBVIOUS
  <2> QED BY ONLY <1>2, <2>1, LaterDescends, ZenonT(60)
<1>4. Later(u, s, 0, 0) = Later(v, s, 0, 0)
  BY ONLY <1>3
<1>5. Later(u, s, 0, 1) = Later(v, s, 0, 1)
  BY ONLY <1>3
<1>6. Later(u, s, 1, 0) = Later(v, s, 1, 0)
  BY ONLY <1>3
<1>7. CASE state = 0
  <2>1. Parsed(u, <<s, 0, key>>) =
           IF IsKey(s) THEN Later(u, s, 0, 1)
           ELSE IF TokenLength(s, 0) = 0 THEN Later(u, s, 0, 0)
           ELSE With(Later(u, s, 0, 0), Token(s, 0), <<>>)
    BY <1>1, Parsed0
  <2>2. Parsed(v, <<s, 0, key>>) =
           IF IsKey(s) THEN Later(v, s, 0, 1)
           ELSE IF TokenLength(s, 0) = 0 THEN Later(v, s, 0, 0)
           ELSE With(Later(v, s, 0, 0), Token(s, 0), <<>>)
    BY <1>1, Parsed0
  <2> QED BY <1>4, <1>5, <1>7, <2>1, <2>2
<1>8. CASE state = 1
  <2>1. Parsed(u, <<s, 1, key>>) = With(Later(u, s, 1, 0), key, Token(s, 1))
    BY Parsed1
  <2>2. Parsed(v, <<s, 1, key>>) = With(Later(v, s, 1, 0), key, Token(s, 1))
    BY Parsed1
  <2> QED BY <1>6, <1>8, <2>1, <2>2
<1> QED BY <1>7, <1>8

(* Parse is what the parser gives.                                         *)
LEMMA ParseParses == \A at \in Parses : Parse[at] = Parsed(Parse, at)
<1> DEFINE R == Tables
           rank == [at \in Parses |-> Len(at[1])]
           F == [p \in [Parses -> R] \X Parses |-> Parsed(p[1], p[2])]
<1>1. \A g \in [Parses -> R], at \in Parses : F[<<g, at>>] = Parsed(g, at)
  OBVIOUS
<1>2. \A g \in [Parses -> R], at \in Parses : F[<<g, at>>] \in R
  BY <1>1, ParsedTyped
<1>3. rank \in [Parses -> Nat]
  <2>1. \A at \in Parses : Len(at[1]) \in Nat
    <3>1. \A at \in Parses : at[1] \in Text
      BY DEF Parses
    <3>2. \A s \in Text : Len(s) \in Nat
      BY LenProperties DEF Text
    <3> QED BY <3>1, <3>2
  <2> QED BY <2>1
<1>4. Descends(F, Parses, R, rank)
  <2> SUFFICES ASSUME NEW g \in [Parses -> R], NEW h \in [Parses -> R], NEW at \in Parses,
                      \A b \in Parses : rank[b] < rank[at] => g[b] = h[b]
               PROVE  F[<<g, at>>] = F[<<h, at>>]
    BY DEF Descends
  <2>1. \A b \in Parses : Len(b[1]) < Len(at[1]) => g[b] = h[b]
    OBVIOUS
  <2>2. Parsed(g, at) = Parsed(h, at)
    BY <2>1, ParsedDescends
  <2> QED BY <2>2, <1>1
<1>5. R # {}
  BY NoArgsTyped
<1> HIDE DEF F, R, rank
<1>6. PICK f \in [Parses -> R] : \A at \in Parses : f[at] = F[<<f, at>>]
  <2>1. Recursive(F, Parses, R, rank)
    BY <1>2, <1>3, <1>4, <1>5 DEF Recursive
  <2> QED BY <2>1, RecursionExists
<1>7. f = [at \in Parses |-> Parsed(f, at)]
  BY <1>1, <1>6
<1>8. Parse = [at \in Parses |-> Parsed(Parse, at)]
  BY <1>7, Zenon DEF Parse, Parses, Parsed
<1> DEFINE q == Parse
<1> HIDE DEF q
<1>9. q = [at \in Parses |-> Parsed(q, at)]
  BY <1>8 DEF q
<1>10. \A at \in Parses : q[at] = Parsed(q, at)
  BY <1>9
<1> QED BY <1>10 DEF q

(* The first token is the one that the text has no separator in and ends   *)
(* at one, or at its end.                                                  *)
LEMMA TokenIs ==
    ASSUME NEW s \in Text, NEW state, NEW n \in 0 .. Len(s),
           \A i \in 1 .. n : s[i] \notin Separators(state),
           n # Len(s) => s[n + 1] \in Separators(state)
    PROVE  TokenLength(s, state) = n
<1> DEFINE m == TokenLength(s, state)
<1>1. /\ m \in 0 .. Len(s) /\ Len(s) \in Nat
      /\ \A i \in 1 .. m : s[i] \notin Separators(state)
      /\ m # Len(s) => s[m + 1] \in Separators(state)
  BY TokenFacts, LenProperties DEF Text
<1> HIDE DEF m
<1>2. ~(m < n)
  <2>1. m < n => m + 1 \in 1 .. n /\ m # Len(s)
    BY <1>1
  <2> QED BY <1>1, <2>1
<1>3. ~(n < m)
  <2>1. n < m => n + 1 \in 1 .. m /\ n # Len(s)
    BY <1>1
  <2> QED BY <1>1, <2>1
<1>4. m = n
  BY <1>1, <1>2, <1>3
<1> QED BY <1>4 DEF m

(* The "=" of a field.                                                     *)
LEMMA EqualsIs ==
    ASSUME NEW s, NEW a \in Nat, NEW e \in Nat, NEW q \in a + 1 .. e,
           \A i \in a + 1 .. q - 1 : s[i] # Equals,
           q = e \/ s[q] = Equals
    PROVE  EqualsOf(s, <<a, e>>) = q
<1> DEFINE S == {i \in a + 1 .. e - 1 : s[i] = Equals} \cup {e}
<1>1. EqualsOf(s, <<a, e>>) = Min(S)
  BY DEF EqualsOf
<1>2. S \subseteq Nat /\ q \in S
  OBVIOUS
<1>3. \A i \in S : q <= i
  <2> SUFFICES ASSUME NEW i \in S, ~(q <= i)
               PROVE  FALSE
    OBVIOUS
  <2>1. i \in a + 1 .. q - 1 /\ i # e
    OBVIOUS
  <2> QED BY <2>1
<1> HIDE DEF S
<1> QED BY <1>1, <1>2, <1>3, MinIs

(* The separators.                                                         *)
LEMMA SeparatorsFacts ==
    /\ Separators(0) = {Ampersand, Equals}
    /\ Separators(1) = {Ampersand}
    /\ Ampersand # Equals
  BY DEF Separators, Ampersand, Equals

(* The first field, which may be empty.                                    *)
FirstField(s) == <<0, TokenLength(s, 1) + 1>>

(* What the parser gives for a text, of what it gives for what is after    *)
(* the first field.                                                        *)
LEMMA ParseKey ==
    ASSUME NEW s \in Text, NEW key \in Text, IsKey(s)
    PROVE  /\ TokenLength(s, 1) # 0
           /\ \E k \in Text :
                 Parse[<<s, 0, key>>] =
                    With(IF TokenLength(s, 1) = Len(s) THEN NoArgs
                         ELSE Parse[<<RestOf(s, 1), 0, k>>],
                         KeyOf(s, FirstField(s)), ValueOf(s, FirstField(s)))
<1> DEFINE n == TokenLength(s, 0)
           r == RestOf(s, 0)
           m == TokenLength(r, 1)
           l == n + 1 + m
<1>1. /\ n \in 0 .. Len(s) /\ n # Len(s) /\ Len(s) \in Nat /\ s[n + 1] = Equals
      /\ \A i \in 1 .. n : s[i] # Ampersand /\ s[i] # Equals
  <2>1. Len(s) \in Nat /\ n \in 0 .. Len(s)
    BY TokenFacts, LenProperties DEF Text
  <2>2. \A i \in 1 .. n : s[i] \notin Separators(0)
    BY TokenFacts
  <2>3. n < Len(s) /\ s[n + 1] = Equals
    BY DEF IsKey
  <2> HIDE DEF n
  <2> QED BY <2>1, <2>2, <2>3, SeparatorsFacts
<1>2. r \in Text /\ r = SubSeq(s, n + 2, Len(s)) /\ Len(r) = Len(s) - n - 1
  BY <1>1, TokenTyped DEF RestOf
<1>3. \A i \in 1 .. Len(r) : r[i] = s[n + 1 + i]
  <2>1. /\ n + 2 \in Int /\ Len(s) \in Int /\ 1 <= n + 2 /\ Len(s) <= Len(s)
        /\ Len(s) - (n + 2) + 1 = Len(r)
    BY <1>1, <1>2
  <2>2. \A i \in 1 .. Len(s) - (n + 2) + 1 :
           SubSeq(s, n + 2, Len(s))[i] = s[(n + 2) + i - 1]
    BY <2>1, SubText
  <2>3. \A i \in 1 .. Len(r) : (n + 2) + i - 1 = n + 1 + i
    BY <1>1
  <2> QED BY <1>2, <2>1, <2>2, <2>3
<1>4. /\ m \in 0 .. Len(r) /\ \A i \in 1 .. m : r[i] # Ampersand
      /\ m # Len(r) => r[m + 1] = Ampersand
  BY <1>2, TokenFacts, SeparatorsFacts
<1>5. Parse[<<s, 0, key>>] = With(Later(Parse, r, 1, 0), Token(s, 0), Token(r, 1))
  <2>1. <<s, 0, key>> \in Parses
    BY DEF Parses
  <2>2. Parse[<<s, 0, key>>] = Parsed(Parse, <<s, 0, key>>)
    BY <2>1, ParseParses
  <2>3. Parsed(Parse, <<s, 0, key>>) = Later(Parse, s, 0, 1)
    BY <1>1, Parsed0
  <2>4. Later(Parse, s, 0, 1) = Parse[<<r, 1, Token(s, 0)>>]
    BY <1>1 DEF Later
  <2>5. <<r, 1, Token(s, 0)>> \in Parses
    BY <1>2, TokenTyped DEF Parses
  <2>6. Parse[<<r, 1, Token(s, 0)>>] = Parsed(Parse, <<r, 1, Token(s, 0)>>)
    BY <2>5, ParseParses
  <2>7. Parsed(Parse, <<r, 1, Token(s, 0)>>) = With(Later(Parse, r, 1, 0), Token(s, 0), Token(r, 1))
    BY Parsed1
  <2> QED BY <2>2, <2>3, <2>4, <2>6, <2>7
<1>6. Token(s, 0) = Meant(SubSeq(s, 1, n)) /\ Token(r, 1) = Meant(SubSeq(r, 1, m))
  BY <1>2, TokenTyped
<1>7. Token(r, 1) \in Text
  BY <1>2, TokenTyped
<1> HIDE DEF n, m
<1>8. TokenLength(s, 1) = l
  <2>1. l \in 0 .. Len(s) /\ (l = Len(s) <=> m = Len(r))
    BY <1>1, <1>2, <1>4
  <2>2. \A i \in 1 .. l : s[i] # Ampersand
    <3> SUFFICES ASSUME NEW i \in 1 .. l
                 PROVE  s[i] # Ampersand
      OBVIOUS
    <3>1. CASE i <= n
      BY <1>1, <3>1
    <3>2. CASE i = n + 1
      BY <1>1, <3>2, SeparatorsFacts
    <3>3. CASE n + 1 < i
      <4>1. i - n - 1 \in 1 .. m /\ i - n - 1 \in 1 .. Len(r) /\ n + 1 + (i - n - 1) = i
        BY <1>1, <1>4, <3>3
      <4> QED BY <1>3, <1>4, <4>1
    <3> QED BY <1>1, <3>1, <3>2, <3>3
  <2>3. l # Len(s) => s[l + 1] = Ampersand
    <3>1. l # Len(s) => m + 1 \in 1 .. Len(r) /\ m # Len(r) /\ n + 1 + (m + 1) = l + 1
      BY <1>1, <1>2, <1>4, <2>1
    <3> QED BY <3>1, <1>3, <1>4
  <2> HIDE DEF l
  <2> QED BY <2>1, <2>2, <2>3, TokenIs, SeparatorsFacts
<1>9. EqualsOf(s, FirstField(s)) = n + 1
  <2>1. /\ 0 \in Nat /\ l + 1 \in Nat /\ n + 1 \in 0 + 1 .. l + 1
        /\ \A i \in 0 + 1 .. (n + 1) - 1 : i \in 1 .. n
    BY <1>1, <1>4
  <2>2. EqualsOf(s, <<0, l + 1>>) = n + 1
    BY <2>1, <1>1, EqualsIs
  <2> QED BY <2>2, <1>8 DEF FirstField
<1>10. KeyOf(s, FirstField(s)) = Token(s, 0)
  <2>1. 0 + 1 = 1 /\ (n + 1) - 1 = n
    BY <1>1
  <2>2. KeyOf(s, FirstField(s)) = Meant(SubSeq(s, 0 + 1, (n + 1) - 1))
    BY <1>9 DEF KeyOf, FirstField
  <2> QED BY <2>1, <2>2, <1>6
<1>11. ValueOf(s, FirstField(s)) = Token(r, 1)
  <2>1. ValueOf(s, FirstField(s)) = Meant(SubSeq(s, (n + 1) + 1, (l + 1) - 1))
    BY <1>8, <1>9 DEF ValueOf, FirstField
  <2>2. /\ n + 2 \in Int /\ 1 <= n + 2 /\ n + 2 <= Len(s) + 1
        /\ m \in Int /\ 1 <= 1 /\ m <= Len(s) - (n + 2) + 1
        /\ 1 + (n + 2) - 1 = (n + 1) + 1 /\ m + (n + 2) - 1 = (l + 1) - 1
    BY <1>1, <1>2, <1>4
  <2>3. SubSeq(SubSeq(s, n + 2, Len(s)), 1, m) = SubSeq(s, 1 + (n + 2) - 1, m + (n + 2) - 1)
    BY <2>2, SubSubText, SMTT(40)
  <2> QED BY <1>2, <1>6, <2>1, <2>2, <2>3
<1>12. Later(Parse, r, 1, 0) = IF TokenLength(s, 1) = Len(s) THEN NoArgs
                               ELSE Parse[<<RestOf(s, 1), 0, Token(r, 1)>>]
  <2>1. l = Len(s) <=> m = Len(r)
    BY <1>1, <1>2, <1>4
  <2>2. ASSUME m # Len(r)
        PROVE  RestOf(r, 1) = RestOf(s, 1)
    <3>1. /\ n + 2 \in Int /\ 1 <= n + 2 /\ n + 2 <= Len(s) + 1
          /\ m + 2 \in Int /\ 1 <= m + 2 /\ Len(r) \in Int /\ Len(r) <= Len(s) - (n + 2) + 1
          /\ (m + 2) + (n + 2) - 1 = l + 2 /\ Len(r) + (n + 2) - 1 = Len(s)
      BY <1>1, <1>2, <1>4
    <3>2. SubSeq(SubSeq(s, n + 2, Len(s)), m + 2, Len(r))
             = SubSeq(s, (m + 2) + (n + 2) - 1, Len(r) + (n + 2) - 1)
      BY <3>1, SubSubText, ZenonT(60)
    <3>3. RestOf(r, 1) = SubSeq(SubSeq(s, n + 2, Len(s)), m + 2, Len(r))
      BY <1>2 DEF RestOf, m
    <3> QED BY <1>8, <3>1, <3>2, <3>3 DEF RestOf
  <2> HIDE DEF l
  <2> QED BY <1>8, <2>1, <2>2 DEF Later, m
<1>13. l # 0
  BY <1>1, <1>4
<1> HIDE DEF l, r
<1> QED BY <1>5, <1>7, <1>8, <1>10, <1>11, <1>12, <1>13

(* A text with no = in its first field: a key without a value, or nothing. *)
LEMMA ParseBare ==
    ASSUME NEW s \in Text, NEW key \in Text, ~IsKey(s)
    PROVE  \E k \in Text :
               LET rest == IF TokenLength(s, 1) = Len(s) THEN NoArgs
                           ELSE Parse[<<RestOf(s, 1), 0, k>>]
               IN  Parse[<<s, 0, key>>] =
                      IF TokenLength(s, 1) = 0 THEN rest
                      ELSE With(rest, KeyOf(s, FirstField(s)), ValueOf(s, FirstField(s)))
<1> DEFINE n == TokenLength(s, 0)
<1>1. /\ n \in 0 .. Len(s) /\ Len(s) \in Nat
      /\ \A i \in 1 .. n : s[i] # Ampersand /\ s[i] # Equals
      /\ n # Len(s) => s[n + 1] = Ampersand
  <2>1. Len(s) \in Nat /\ n \in 0 .. Len(s)
    BY TokenFacts, LenProperties DEF Text
  <2>2. /\ \A i \in 1 .. n : s[i] \notin Separators(0)
        /\ n # Len(s) => s[n + 1] \in Separators(0)
    BY TokenFacts
  <2>3. n < Len(s) => s[n + 1] # Equals
    BY DEF IsKey
  <2> HIDE DEF n
  <2> QED BY <2>1, <2>2, <2>3, SeparatorsFacts
<1>2. Parse[<<s, 0, key>>] = IF n = 0 THEN Later(Parse, s, 0, 0)
                             ELSE With(Later(Parse, s, 0, 0), Token(s, 0), <<>>)
  <2>1. <<s, 0, key>> \in Parses
    BY DEF Parses
  <2>2. Parse[<<s, 0, key>>] = Parsed(Parse, <<s, 0, key>>)
    BY <2>1, ParseParses
  <2>3. TokenLength(s, 0) \in Nat
    BY <1>1
  <2> QED BY <2>2, <2>3, Parsed0
<1>3. Token(s, 0) = Meant(SubSeq(s, 1, n)) /\ Token(s, 0) \in Text
  BY TokenTyped
<1>4. TokenLength(s, 1) = n
  <2>1. \A i \in 1 .. n : s[i] \notin Separators(1)
    BY <1>1, SeparatorsFacts
  <2>2. n # Len(s) => s[n + 1] \in Separators(1)
    BY <1>1, SeparatorsFacts
  <2> HIDE DEF n
  <2> QED BY <1>1, <2>1, <2>2, TokenIs
<1> HIDE DEF n
<1>5. Later(Parse, s, 0, 0) = IF TokenLength(s, 1) = Len(s) THEN NoArgs
                              ELSE Parse[<<RestOf(s, 1), 0, Token(s, 0)>>]
  BY <1>4 DEF Later, RestOf, n
<1>6. n # 0 => KeyOf(s, FirstField(s)) = Token(s, 0) /\ ValueOf(s, FirstField(s)) = <<>>
  <2> SUFFICES ASSUME n # 0
               PROVE  KeyOf(s, FirstField(s)) = Token(s, 0) /\ ValueOf(s, FirstField(s)) = <<>>
    OBVIOUS
  <2>1. EqualsOf(s, FirstField(s)) = n + 1
    <3>1. /\ 0 \in Nat /\ n + 1 \in Nat /\ n + 1 \in 0 + 1 .. n + 1
          /\ \A i \in 0 + 1 .. (n + 1) - 1 : i \in 1 .. n
      BY <1>1
    <3>2. EqualsOf(s, <<0, n + 1>>) = n + 1
      BY <3>1, <1>1, EqualsIs
    <3> QED BY <3>2, <1>4 DEF FirstField
  <2>2. KeyOf(s, FirstField(s)) = Meant(SubSeq(s, 0 + 1, (n + 1) - 1))
    BY <2>1 DEF KeyOf, FirstField
  <2>3. ValueOf(s, FirstField(s)) = Meant(SubSeq(s, (n + 1) + 1, (n + 1) - 1))
    BY <1>4, <2>1 DEF ValueOf, FirstField
  <2>4. SubSeq(s, (n + 1) + 1, (n + 1) - 1) = <<>>
    <3>1. (n + 1) + 1 \in Int /\ (n + 1) - 1 \in Int /\ (n + 1) - 1 < (n + 1) + 1
      BY <1>1
    <3> QED BY <3>1, SubSeqEmpty
  <2>5. 0 + 1 = 1 /\ (n + 1) - 1 = n
    BY <1>1
  <2> QED BY <1>3, <2>2, <2>3, <2>4, <2>5, MeantEmpty
<1> QED BY <1>2, <1>3, <1>4, <1>5, <1>6

(* Both together.                                                          *)
LEMMA ParseStep ==
    ASSUME NEW s \in Text, NEW key \in Text
    PROVE  \E k \in Text :
               LET rest == IF TokenLength(s, 1) = Len(s) THEN NoArgs
                           ELSE Parse[<<RestOf(s, 1), 0, k>>]
               IN  Parse[<<s, 0, key>>] =
                      IF TokenLength(s, 1) = 0 THEN rest
                      ELSE With(rest, KeyOf(s, FirstField(s)), ValueOf(s, FirstField(s)))
<1>1. CASE IsKey(s)
  BY <1>1, ParseKey
<1>2. CASE ~IsKey(s)
  BY <1>2, ParseBare
<1> QED BY <1>1, <1>2

(* Where the fields of a text begin and end.                               *)
Cuts(s) == {i \in DOMAIN s : s[i] = Ampersand} \cup {0, Len(s) + 1}

(* A field is what lies between two neighbouring cuts.                     *)
LEMMA FieldsAreCuts ==
    \A s : FieldsOf(s) = {f \in Cuts(s) \X Cuts(s) : /\ f[1] + 1 < f[2]
                                                     /\ \A i \in Cuts(s) : ~(f[1] < i /\ i < f[2])}
  BY DEF FieldsOf, Cuts

(* The cuts of a text are its start, the end of its first field, and those *)
(* of what is after it.                                                    *)
LEMMA CutsShift ==
    ASSUME NEW s \in Text, TokenLength(s, 1) # Len(s)
    PROVE  Cuts(s) = {0} \cup {i + TokenLength(s, 1) + 1 : i \in Cuts(RestOf(s, 1))}
<1> DEFINE n == TokenLength(s, 1)
           r == RestOf(s, 1)
<1>1. /\ n \in 0 .. Len(s) /\ n # Len(s) /\ Len(s) \in Nat /\ s[n + 1] = Ampersand
      /\ \A i \in 1 .. n : s[i] # Ampersand
  BY TokenFacts, LenProperties, SeparatorsFacts DEF Text
<1>2. r \in Text /\ r = SubSeq(s, n + 2, Len(s)) /\ Len(r) = Len(s) - n - 1
  BY <1>1, TokenTyped DEF RestOf
<1>3. \A i \in 1 .. Len(r) : r[i] = s[i + n + 1]
  <2>1. /\ n + 2 \in Int /\ Len(s) \in Int /\ 1 <= n + 2 /\ Len(s) <= Len(s)
        /\ Len(s) - (n + 2) + 1 = Len(r)
    BY <1>1, <1>2
  <2>2. \A i \in 1 .. Len(s) - (n + 2) + 1 :
           SubSeq(s, n + 2, Len(s))[i] = s[(n + 2) + i - 1]
    BY <2>1, SubText
  <2>3. \A i \in 1 .. Len(r) : (n + 2) + i - 1 = i + n + 1
    BY <1>1
  <2> QED BY <1>2, <2>1, <2>2, <2>3
<1>4. DOMAIN s = 1 .. Len(s) /\ DOMAIN r = 1 .. Len(r)
  BY <1>2, LenProperties DEF Text
<1> HIDE DEF n, r
<1>5. ASSUME NEW i \in Cuts(s)
      PROVE  i \in {0} \cup {j + n + 1 : j \in Cuts(r)}
  <2>1. CASE i = 0
    BY <2>1
  <2>2. CASE i = Len(s) + 1
    <3>1. Len(r) + 1 \in Cuts(r) /\ (Len(r) + 1) + n + 1 = i
      BY <1>1, <1>2, <2>2 DEF Cuts
    <3> QED BY <3>1
  <2>3. CASE i \in DOMAIN s /\ s[i] = Ampersand
    <3>0. i \in 1 .. Len(s)
      BY <1>4, <2>3
    <3>1. n < i /\ i \in 1 .. Len(s)
      <4>1. ~(i <= n)
        BY <1>1, <2>3, <3>0
      <4> QED BY <1>1, <3>0, <4>1
    <3>2. CASE i = n + 1
      <4>1. 0 \in Cuts(r) /\ 0 + n + 1 = i
        BY <1>1, <3>2 DEF Cuts
      <4> QED BY <4>1
    <3>3. CASE i # n + 1
      <4>1. i - n - 1 \in 1 .. Len(r) /\ (i - n - 1) + n + 1 = i
        BY <1>1, <1>2, <3>1, <3>3
      <4>2. i - n - 1 \in Cuts(r)
        BY <1>3, <1>4, <2>3, <4>1 DEF Cuts
      <4> QED BY <4>1, <4>2
    <3> QED BY <3>2, <3>3
  <2> QED BY <2>1, <2>2, <2>3 DEF Cuts
<1>6. ASSUME NEW j \in Cuts(r)
      PROVE  j + n + 1 \in Cuts(s)
  <2>1. CASE j = 0
    <3>1. j + n + 1 = n + 1 /\ n + 1 \in 1 .. Len(s)
      BY <1>1, <2>1
    <3> QED BY <3>1, <1>1, <1>4 DEF Cuts
  <2>2. CASE j = Len(r) + 1
    <3>1. j + n + 1 = Len(s) + 1
      BY <1>1, <1>2, <2>2
    <3> QED BY <3>1 DEF Cuts
  <2>3. CASE j \in DOMAIN r /\ r[j] = Ampersand
    <3>0. j \in 1 .. Len(r)
      BY <1>4, <2>3
    <3>1. j \in 1 .. Len(r) /\ j + n + 1 \in 1 .. Len(s)
      BY <1>1, <1>2, <3>0
    <3> QED BY <3>1, <1>3, <1>4, <2>3 DEF Cuts
  <2> QED BY <2>1, <2>2, <2>3, SMTT(40) DEF Cuts
<1>7. 0 \in Cuts(s)
  BY DEF Cuts
<1>8. \A j \in Cuts(r) : j + n + 1 \in Cuts(s)
  BY <1>6
<1>9. \A i \in Cuts(s) : i \in {0} \cup {j + n + 1 : j \in Cuts(r)}
  BY <1>5
<1>10. Cuts(s) = {0} \cup {j + n + 1 : j \in Cuts(r)}
  BY <1>7, <1>8, <1>9
<1> QED BY <1>10 DEF n, r

(* Cuts are places of the text, or just outside of it.                     *)
LEMMA CutsTyped == \A s \in Text : Cuts(s) \subseteq 0 .. Len(s) + 1 /\ Len(s) \in Nat
<1> SUFFICES ASSUME NEW s \in Text
             PROVE  Cuts(s) \subseteq 0 .. Len(s) + 1 /\ Len(s) \in Nat
  OBVIOUS
<1>1. Len(s) \in Nat /\ DOMAIN s = 1 .. Len(s)
  BY LenProperties DEF Text
<1> QED BY <1>1 DEF Cuts

(* A field, so many characters further on.                                 *)
Moved(f, k) == <<f[1] + k, f[2] + k>>

(* The fields of a text are its first one, if not empty, and those of what *)
(* is after it.                                                            *)
LEMMA FieldsTyped ==
    ASSUME NEW s \in Text, NEW f \in FieldsOf(s)
    PROVE  /\ f = <<f[1], f[2]>> /\ f[1] \in Nat /\ f[2] \in Nat /\ Len(s) \in Nat
           /\ f[1] + 1 < f[2] /\ f[2] <= Len(s) + 1
           /\ f[1] \in Cuts(s) /\ f[2] \in Cuts(s)
           /\ \A i \in Cuts(s) : ~(f[1] < i /\ i < f[2])
<1>1. f \in Cuts(s) \X Cuts(s) /\ f[1] + 1 < f[2] /\ \A i \in Cuts(s) : ~(f[1] < i /\ i < f[2])
  BY FieldsAreCuts
<1>2. f = <<f[1], f[2]>> /\ f[1] \in Cuts(s) /\ f[2] \in Cuts(s)
  BY <1>1
<1>3. f[1] \in 0 .. Len(s) + 1 /\ f[2] \in 0 .. Len(s) + 1 /\ Len(s) \in Nat
  BY <1>2, CutsTyped
<1> QED BY <1>1, <1>2, <1>3

(* Two neighbouring cuts make a field.                                     *)
LEMMA IsField ==
    ASSUME NEW s, NEW a \in Cuts(s), NEW b \in Cuts(s), a + 1 < b,
           \A i \in Cuts(s) : ~(a < i /\ i < b)
    PROVE  <<a, b>> \in FieldsOf(s)
<1>1. <<a, b>> \in Cuts(s) \X Cuts(s) /\ <<a, b>>[1] = a /\ <<a, b>>[2] = b
  OBVIOUS
<1> QED BY <1>1, FieldsAreCuts

(* The fields of a text are its first, and those behind it, moved.         *)
LEMMA FieldsShift ==
    ASSUME NEW s \in Text, TokenLength(s, 1) # Len(s)
    PROVE  FieldsOf(s) = {f \in {FirstField(s)} : TokenLength(s, 1) # 0}
                         \cup {Moved(g, TokenLength(s, 1) + 1) : g \in FieldsOf(RestOf(s, 1))}
<1> DEFINE k == TokenLength(s, 1) + 1
           r == RestOf(s, 1)
<1>1. k \in Nat \ {0} /\ r \in Text
  <2>1. TokenLength(s, 1) \in 0 .. Len(s)
    BY TokenFacts
  <2> QED BY <2>1, TokenTyped
<1>2. Cuts(s) = {0} \cup {i + k : i \in Cuts(r)}
  <2>1. \A i \in Cuts(r) : i + TokenLength(s, 1) + 1 = i + k
    <3>1. Cuts(r) \subseteq Nat /\ TokenLength(s, 1) \in Nat
      <4>1. Cuts(r) \subseteq 0 .. Len(r) + 1
        BY <1>1, CutsTyped
      <4>2. TokenLength(s, 1) \in 0 .. Len(s)
        BY TokenFacts
      <4> QED BY <4>1, <4>2
    <3> QED BY <3>1
  <2>2. {i + TokenLength(s, 1) + 1 : i \in Cuts(r)} = {i + k : i \in Cuts(r)}
    BY <2>1
  <2> QED BY <2>2, CutsShift
<1>3. TokenLength(s, 1) # 0 <=> k # 1
  <2>1. TokenLength(s, 1) \in 0 .. Len(s)
    BY TokenFacts
  <2> QED BY <2>1
<1>4. FirstField(s) = <<0, k>>
  BY DEF FirstField
<1> HIDE DEF k, r
<1>5. Cuts(r) \subseteq Nat /\ 0 \in Cuts(r)
  <2>1. Cuts(r) \subseteq 0 .. Len(r) + 1
    BY <1>1, CutsTyped
  <2>2. 0 \in Cuts(r)
    BY DEF Cuts
  <2> QED BY <2>1, <2>2
<1>6. k \in Cuts(s) /\ 0 \in Cuts(s) /\ \A i \in Cuts(r) : i + k \in Cuts(s)
  <2>1. 0 + k = k
    BY <1>1
  <2> QED BY <1>2, <1>5, <2>1
<1>7. \A i \in Cuts(s) : i = 0 \/ \E j \in Cuts(r) : i = j + k
  BY <1>2
<1>8. ASSUME NEW f \in FieldsOf(s)
      PROVE  \/ f = <<0, k>> /\ k # 1
             \/ \E g \in FieldsOf(r) : f = Moved(g, k)
  <2> DEFINE a == f[1]
             b == f[2]
  <2>1. /\ f = <<a, b>> /\ a \in Nat /\ b \in Nat /\ a + 1 < b
        /\ a \in Cuts(s) /\ b \in Cuts(s) /\ \A i \in Cuts(s) : ~(a < i /\ i < b)
    BY FieldsTyped
  <2> HIDE DEF a, b
  <2>2. PICK y \in Cuts(r) : b = y + k
    <3>1. b # 0
      BY <2>1
    <3> QED BY <3>1, <2>1, <1>7
  <2>3. CASE a = 0
    <3>1. ~(0 < k /\ k < b)
      BY <2>1, <2>3, <1>6
    <3>2. y \in Nat
      BY <1>5
    <3>3. b = k
      BY <3>1, <3>2, <2>2, <1>1
    <3> QED BY <2>1, <2>3, <3>3
  <2>4. CASE a # 0
    <3>1. PICK x \in Cuts(r) : a = x + k
      BY <2>1, <2>4, <1>7
    <3>2. x \in Nat /\ y \in Nat /\ x + 1 < y
      BY <1>1, <1>5, <2>1, <2>2, <3>1
    <3>3. \A i \in Cuts(r) : ~(x < i /\ i < y)
      <4> SUFFICES ASSUME NEW i \in Cuts(r), x < i, i < y
                   PROVE  FALSE
        OBVIOUS
      <4>1. i + k \in Cuts(s) /\ i \in Nat
        BY <1>5, <1>6
      <4>2. a < i + k /\ i + k < b
        BY <4>1, <1>1, <2>2, <3>1, <3>2
      <4> QED BY <4>1, <4>2, <2>1
    <3>4. <<x, y>> \in FieldsOf(r)
      BY <3>2, <3>3, IsField
    <3>5. f = Moved(<<x, y>>, k)
      BY <2>1, <2>2, <3>1 DEF Moved
    <3> QED BY <3>4, <3>5
  <2> QED BY <2>3, <2>4
<1>9. ASSUME k # 1
      PROVE  <<0, k>> \in FieldsOf(s)
  <2>1. 0 + 1 < k
    BY <1>1, <1>9
  <2>2. \A i \in Cuts(s) : ~(0 < i /\ i < k)
    <3> SUFFICES ASSUME NEW i \in Cuts(s), 0 < i, i < k
                 PROVE  FALSE
      OBVIOUS
    <3>1. PICK j \in Cuts(r) : i = j + k
      BY <1>7
    <3>2. j \in Nat
      BY <1>5
    <3> QED BY <3>1, <3>2, <1>1
  <2> QED BY <2>1, <2>2, <1>6, IsField
<1>10. ASSUME NEW g \in FieldsOf(r)
       PROVE  Moved(g, k) \in FieldsOf(s)
  <2> DEFINE x == g[1]
             y == g[2]
  <2>1. /\ x \in Nat /\ y \in Nat /\ x + 1 < y
        /\ x \in Cuts(r) /\ y \in Cuts(r) /\ \A i \in Cuts(r) : ~(x < i /\ i < y)
    BY <1>1, FieldsTyped
  <2> HIDE DEF x, y
  <2>2. x + k \in Cuts(s) /\ y + k \in Cuts(s) /\ (x + k) + 1 < y + k
    BY <1>1, <1>6, <2>1
  <2>3. \A i \in Cuts(s) : ~(x + k < i /\ i < y + k)
    <3> SUFFICES ASSUME NEW i \in Cuts(s), x + k < i, i < y + k
                 PROVE  FALSE
      OBVIOUS
    <3>1. i # 0
      BY <1>1, <2>1
    <3>2. PICK j \in Cuts(r) : i = j + k
      BY <1>7, <3>1
    <3>3. j \in Nat
      BY <1>5
    <3>4. x < j /\ j < y
      BY <1>1, <2>1, <3>2, <3>3
    <3> QED BY <2>1, <3>4
  <2>4. <<x + k, y + k>> \in FieldsOf(s)
    BY <2>2, <2>3, IsField
  <2> QED BY <2>4 DEF Moved, x, y
<1>11. FieldsOf(s) = {f \in {<<0, k>>} : k # 1} \cup {Moved(g, k) : g \in FieldsOf(r)}
  <2>1. \A f \in FieldsOf(s) :
          f \in {h \in {<<0, k>>} : k # 1} \cup {Moved(g, k) : g \in FieldsOf(r)}
    BY <1>8
  <2>2. \A f \in {h \in {<<0, k>>} : k # 1} : f \in FieldsOf(s)
    BY <1>9
  <2>3. \A g \in FieldsOf(r) : Moved(g, k) \in FieldsOf(s)
    BY <1>10
  <2> QED BY <2>1, <2>2, <2>3
<1> QED BY <1>3, <1>4, <1>11 DEF k, r

(* Those of a text without an ampersand.                                   *)
LEMMA FieldsLast ==
    ASSUME NEW s \in Text, TokenLength(s, 1) = Len(s)
    PROVE  FieldsOf(s) = {f \in {FirstField(s)} : TokenLength(s, 1) # 0}
<1> DEFINE k == Len(s) + 1
<1>1. Len(s) \in Nat /\ DOMAIN s = 1 .. Len(s)
  BY LenProperties DEF Text
<1>2. Cuts(s) = {0, k}
  <2>1. \A i \in 1 .. Len(s) : s[i] # Ampersand
    BY TokenFacts, SeparatorsFacts
  <2> QED BY <1>1, <2>1 DEF Cuts
<1>3. FirstField(s) = <<0, k>> /\ (TokenLength(s, 1) # 0 <=> k # 1) /\ k \in Nat \ {0}
  BY <1>1 DEF FirstField
<1> HIDE DEF k
<1>4. ASSUME NEW f \in FieldsOf(s)
      PROVE  f = <<0, k>> /\ k # 1
  <2>1. /\ f = <<f[1], f[2]>> /\ f[1] + 1 < f[2] /\ f[1] \in Cuts(s) /\ f[2] \in Cuts(s)
        /\ f[1] \in Nat /\ f[2] \in Nat
    BY FieldsTyped
  <2>2. f[1] = 0 /\ f[2] = k
    BY <1>2, <1>3, <2>1
  <2> QED BY <1>3, <2>1, <2>2
<1>5. ASSUME k # 1
      PROVE  <<0, k>> \in FieldsOf(s)
  <2>1. /\ 0 \in Cuts(s) /\ k \in Cuts(s) /\ 0 + 1 < k
        /\ \A i \in Cuts(s) : ~(0 < i /\ i < k)
    BY <1>2, <1>3, <1>5
  <2> QED BY <2>1, IsField
<1> QED BY <1>3, <1>4, <1>5

(* The "=" of a field is in it or at its end.                              *)
LEMMA EqualsFacts ==
    ASSUME NEW s, NEW a \in Nat, NEW e \in Nat, a < e
    PROVE  /\ EqualsOf(s, <<a, e>>) \in a + 1 .. e
           /\ \A i \in a + 1 .. EqualsOf(s, <<a, e>>) - 1 : s[i] # Equals
           /\ EqualsOf(s, <<a, e>>) = e \/ s[EqualsOf(s, <<a, e>>)] = Equals
<1> DEFINE S == {i \in a + 1 .. e - 1 : s[i] = Equals} \cup {e}
           q == Min(S)
<1>1. EqualsOf(s, <<a, e>>) = q
  BY DEF EqualsOf
<1>2. S \subseteq Nat /\ S # {}
  OBVIOUS
<1>3. q \in S /\ \A i \in S : q <= i
  <2> HIDE DEF S
  <2> QED BY <1>2, MinFacts
<1> HIDE DEF q
<1>4. q \in a + 1 .. e /\ (q = e \/ s[q] = Equals)
  BY <1>3
<1>5. \A i \in a + 1 .. q - 1 : s[i] # Equals
  <2> SUFFICES ASSUME NEW i \in a + 1 .. q - 1, s[i] = Equals
               PROVE  FALSE
    OBVIOUS
  <2>1. i \in a + 1 .. e - 1 /\ ~(q <= i)
    BY <1>4
  <2> QED BY <1>3, <2>1
<1> QED BY <1>1, <1>4, <1>5

(* The key and the value of a field stay when the text before it goes.     *)
LEMMA FieldMoved ==
    ASSUME NEW s \in Text, TokenLength(s, 1) # Len(s), NEW f \in FieldsOf(RestOf(s, 1))
    PROVE  /\ KeyOf(s, Moved(f, TokenLength(s, 1) + 1)) = KeyOf(RestOf(s, 1), f)
           /\ ValueOf(s, Moved(f, TokenLength(s, 1) + 1)) = ValueOf(RestOf(s, 1), f)
<1> DEFINE k == TokenLength(s, 1) + 1
           r == RestOf(s, 1)
           a == f[1]
           e == f[2]
           q == EqualsOf(r, <<a, e>>)
<1>1. /\ k \in Nat \ {0} /\ k <= Len(s) /\ Len(s) \in Nat /\ r \in Text
      /\ r = SubSeq(s, k + 1, Len(s)) /\ Len(r) = Len(s) - k
  <2>1. TokenLength(s, 1) \in 0 .. Len(s) /\ Len(s) \in Nat
    BY TokenFacts, LenProperties DEF Text
  <2>2. r \in Text /\ Len(r) = Len(s) - TokenLength(s, 1) - 1
    BY TokenTyped
  <2>3. TokenLength(s, 1) + 2 = k + 1
    BY <2>1
  <2>4. r = SubSeq(s, k + 1, Len(s))
    BY <2>3 DEF RestOf
  <2> HIDE DEF r
  <2> QED BY <2>1, <2>2, <2>4
<1>2. \A i \in 1 .. Len(r) : r[i] = s[i + k]
  <2>1. /\ k + 1 \in Int /\ Len(s) \in Int /\ 1 <= k + 1 /\ Len(s) <= Len(s)
        /\ Len(s) - (k + 1) + 1 = Len(r)
    BY <1>1
  <2>2. \A i \in 1 .. Len(s) - (k + 1) + 1 :
           SubSeq(s, k + 1, Len(s))[i] = s[(k + 1) + i - 1]
    BY <2>1, SubText
  <2>3. \A i \in 1 .. Len(r) : (k + 1) + i - 1 = i + k
    BY <1>1
  <2> QED BY <1>1, <2>1, <2>2, <2>3
<1>3. f = <<a, e>> /\ a \in Nat /\ e \in Nat /\ a + 1 < e /\ e <= Len(r) + 1
  BY <1>1, FieldsTyped
<1> HIDE DEF k, r, a, e
<1>4. /\ q \in a + 1 .. e /\ \A i \in a + 1 .. q - 1 : r[i] # Equals
      /\ q = e \/ r[q] = Equals
  <2>1. a < e
    BY <1>3
  <2> QED BY <1>3, <2>1, EqualsFacts
<1> HIDE DEF q
<1>5. EqualsOf(s, <<a + k, e + k>>) = q + k
  <2>1. a + k \in Nat /\ e + k \in Nat /\ q + k \in (a + k) + 1 .. e + k
    BY <1>1, <1>3, <1>4
  <2>2. \A i \in (a + k) + 1 .. (q + k) - 1 : s[i] # Equals
    <3> SUFFICES ASSUME NEW i \in (a + k) + 1 .. (q + k) - 1
                 PROVE  s[i] # Equals
      OBVIOUS
    <3>1. i - k \in a + 1 .. q - 1 /\ i - k \in 1 .. Len(r) /\ (i - k) + k = i
      BY <1>1, <1>3, <1>4
    <3> QED BY <3>1, <1>2, <1>4
  <2>3. q + k = e + k \/ s[q + k] = Equals
    <3>1. q # e => q \in 1 .. Len(r)
      BY <1>1, <1>3, <1>4
    <3> QED BY <3>1, <1>2, <1>4
  <2> QED BY <2>1, <2>2, <2>3, EqualsIs
<1>6. Moved(f, k) = <<a + k, e + k>>
  BY DEF Moved, a, e
<1>7. KeyOf(s, Moved(f, k)) = KeyOf(r, f)
  <2>1. KeyOf(s, Moved(f, k)) = Meant(SubSeq(s, (a + k) + 1, (q + k) - 1))
    BY <1>5, <1>6 DEF KeyOf
  <2>2. KeyOf(r, f) = Meant(SubSeq(r, a + 1, q - 1))
    BY <1>3 DEF KeyOf, q
  <2>3. /\ k + 1 \in Int /\ 1 <= k + 1 /\ k + 1 <= Len(s) + 1
        /\ a + 1 \in Int /\ q - 1 \in Int /\ 1 <= a + 1 /\ q - 1 <= Len(s) - (k + 1) + 1
        /\ (a + 1) + (k + 1) - 1 = (a + k) + 1 /\ (q - 1) + (k + 1) - 1 = (q + k) - 1
    BY <1>1, <1>3, <1>4
  <2>4. SubSeq(SubSeq(s, k + 1, Len(s)), a + 1, q - 1)
           = SubSeq(s, (a + 1) + (k + 1) - 1, (q - 1) + (k + 1) - 1)
    BY <2>3, SubSubText
  <2> QED BY <1>1, <2>1, <2>2, <2>3, <2>4
<1>8. ValueOf(s, Moved(f, k)) = ValueOf(r, f)
  <2>1. ValueOf(s, Moved(f, k)) = Meant(SubSeq(s, (q + k) + 1, (e + k) - 1))
    BY <1>5, <1>6 DEF ValueOf
  <2>2. ValueOf(r, f) = Meant(SubSeq(r, q + 1, e - 1))
    BY <1>3 DEF ValueOf, q
  <2>3. /\ k + 1 \in Int /\ 1 <= k + 1 /\ k + 1 <= Len(s) + 1
        /\ q + 1 \in Int /\ e - 1 \in Int /\ 1 <= q + 1 /\ e - 1 <= Len(s) - (k + 1) + 1
        /\ (q + 1) + (k + 1) - 1 = (q + k) + 1 /\ (e - 1) + (k + 1) - 1 = (e + k) - 1
    BY <1>1, <1>3, <1>4
  <2>4. SubSeq(SubSeq(s, k + 1, Len(s)), q + 1, e - 1)
           = SubSeq(s, (q + 1) + (k + 1) - 1, (e - 1) + (k + 1) - 1)
    BY <2>3, SubSubText
  <2> QED BY <1>1, <2>1, <2>2, <2>3, <2>4
<1> QED BY <1>7, <1>8 DEF k, r

(* The last field of a key; and a table of the values of those.            *)
IsLast(s, f) == \A g \in FieldsOf(s) : KeyOf(s, g) = KeyOf(s, f) => g[1] <= f[1]

IsArgs(s, table) ==
    /\ table = [k \in DOMAIN table |-> table[k]]
    /\ DOMAIN table = {KeyOf(s, f) : f \in FieldsOf(s)}
    /\ \A f \in FieldsOf(s) : IsLast(s, f) => table[KeyOf(s, f)] = ValueOf(s, f)

(* Every key has one, so that this is the table that is meant.             *)
LEMMA LastExists ==
    ASSUME NEW s \in Text, NEW h \in FieldsOf(s)
    PROVE  \E f \in FieldsOf(s) : KeyOf(s, f) = KeyOf(s, h) /\ IsLast(s, f)
<1> DEFINE T == {f[1] + 1 : f \in {g \in FieldsOf(s) : KeyOf(s, g) = KeyOf(s, h)}}
<1>1. Len(s) \in Nat /\ \A f \in FieldsOf(s) : f[1] \in Nat /\ f[1] + 1 \in 1 .. Len(s) + 1
  <2>1. Len(s) \in Nat
    BY LenProperties DEF Text
  <2>2. \A f \in FieldsOf(s) : f[1] \in Nat /\ f[2] \in Nat /\ f[1] + 1 < f[2] /\ f[2] <= Len(s) + 1
    BY FieldsTyped
  <2> QED BY <2>1, <2>2
<1>2. T \subseteq 1 .. Len(s) + 1 /\ T # {} /\ Len(s) + 1 \in Nat
  BY <1>1
<1>3. Max(T) \in T /\ \A y \in T : y <= Max(T)
  <2> HIDE DEF T
  <2> QED BY <1>2, GreatestNatural
<1>4. PICK f \in FieldsOf(s) : KeyOf(s, f) = KeyOf(s, h) /\ Max(T) = f[1] + 1
  BY <1>3
<1>5. \A g \in FieldsOf(s) : KeyOf(s, g) = KeyOf(s, f) => g[1] <= f[1]
  <2> SUFFICES ASSUME NEW g \in FieldsOf(s), KeyOf(s, g) = KeyOf(s, f)
               PROVE  g[1] <= f[1]
    OBVIOUS
  <2>1. g[1] + 1 \in T
    BY <1>4
  <2>2. g[1] + 1 <= f[1] + 1
    BY <2>1, <1>3, <1>4
  <2> QED BY <2>2, <1>1
<1> QED BY <1>4, <1>5 DEF IsLast

(* A table with the last entry of every key is what the text means.        *)
LEMMA MeantArgsIs ==
    ASSUME NEW s \in Text, NEW table, IsArgs(s, table)
    PROVE  table = MeantArgs(s)
<1> DEFINE Final(k) == CHOOSE f \in FieldsOf(s) :
                         /\ KeyOf(s, f) = k
                         /\ \A g \in FieldsOf(s) : KeyOf(s, g) = k => g[1] <= f[1]
           K == {KeyOf(s, f) : f \in FieldsOf(s)}
<1>1. MeantArgs(s) = [k \in K |-> ValueOf(s, Final(k))]
  BY Zenon DEF MeantArgs
<1>2. ASSUME NEW k \in K
      PROVE  table[k] = ValueOf(s, Final(k))
  <2>1. PICK h \in FieldsOf(s) : KeyOf(s, h) = k
    OBVIOUS
  <2>2. \E f \in FieldsOf(s) : /\ KeyOf(s, f) = k
                               /\ \A g \in FieldsOf(s) : KeyOf(s, g) = k => g[1] <= f[1]
    BY <2>1, LastExists DEF IsLast
  <2>3. /\ Final(k) \in FieldsOf(s) /\ KeyOf(s, Final(k)) = k
        /\ \A g \in FieldsOf(s) : KeyOf(s, g) = k => g[1] <= Final(k)[1]
    BY <2>2, Zenon
  <2> HIDE DEF Final
  <2>4. IsLast(s, Final(k))
    BY <2>3 DEF IsLast
  <2> QED BY <2>3, <2>4 DEF IsArgs
<1> HIDE DEF Final
<1>3. DOMAIN table = K /\ table = [k \in DOMAIN table |-> table[k]]
  BY DEF IsArgs
<1> HIDE DEF K
<1>4. table = [k \in K |-> ValueOf(s, Final(k))]
  BY <1>2, <1>3
<1> QED BY <1>1, <1>4

(* A table of what is after the first field, and that field.               *)
LEMMA IsArgsWith ==
    ASSUME NEW s \in Text, TokenLength(s, 1) # Len(s),
           NEW table, IsArgs(RestOf(s, 1), table)
    PROVE  IsArgs(s, IF TokenLength(s, 1) = 0 THEN table
                     ELSE With(table, KeyOf(s, FirstField(s)), ValueOf(s, FirstField(s))))
<1> DEFINE n == TokenLength(s, 1)
           r == RestOf(s, 1)
           key == KeyOf(s, FirstField(s))
           value == ValueOf(s, FirstField(s))
           mv(g) == Moved(g, n + 1)
<1>1. FieldsOf(s) = {f \in {FirstField(s)} : n # 0} \cup {mv(g) : g \in FieldsOf(r)}
  BY FieldsShift
<1>2. \A g \in FieldsOf(r) : KeyOf(s, mv(g)) = KeyOf(r, g) /\ ValueOf(s, mv(g)) = ValueOf(r, g)
  BY FieldMoved
<1>3. n \in Nat /\ r \in Text
  <2>1. n \in 0 .. Len(s)
    BY TokenFacts
  <2> QED BY <2>1, TokenTyped
<1>4. \A g \in FieldsOf(r) : g[1] \in Nat /\ mv(g)[1] = g[1] + n + 1
  <2> SUFFICES ASSUME NEW g \in FieldsOf(r)
               PROVE  g[1] \in Nat /\ mv(g)[1] = g[1] + n + 1
    OBVIOUS
  <2>1. g[1] \in Nat
    BY <1>3, FieldsTyped
  <2>2. mv(g)[1] = g[1] + (n + 1)
    BY DEF Moved
  <2> QED BY <2>1, <2>2, <1>3
<1>5. FirstField(s)[1] = 0
  BY DEF FirstField
<1> HIDE DEF n, r, mv
<1>6. \A g \in FieldsOf(r) : IsLast(s, mv(g)) => IsLast(r, g)
  <2> SUFFICES ASSUME NEW g \in FieldsOf(r), IsLast(s, mv(g)),
                      NEW h \in FieldsOf(r), KeyOf(r, h) = KeyOf(r, g)
               PROVE  h[1] <= g[1]
    BY DEF IsLast
  <2>1. mv(h) \in FieldsOf(s) /\ KeyOf(s, mv(h)) = KeyOf(s, mv(g))
    BY <1>1, <1>2
  <2>2. mv(h)[1] <= mv(g)[1]
    BY <2>1 DEF IsLast
  <2> QED BY <2>2, <1>3, <1>4
<1>7. /\ table = [k \in DOMAIN table |-> table[k]]
      /\ DOMAIN table = {KeyOf(r, g) : g \in FieldsOf(r)}
      /\ \A g \in FieldsOf(r) : IsLast(r, g) => table[KeyOf(r, g)] = ValueOf(r, g)
  BY DEF IsArgs, r
<1>8. CASE n = 0
  <2>1. FieldsOf(s) = {mv(g) : g \in FieldsOf(r)}
    BY <1>1, <1>8
  <2>2. DOMAIN table = {KeyOf(s, f) : f \in FieldsOf(s)}
    BY <1>2, <1>7, <2>1
  <2>3. \A f \in FieldsOf(s) : IsLast(s, f) => table[KeyOf(s, f)] = ValueOf(s, f)
    BY <1>2, <1>6, <1>7, <2>1
  <2>4. IsArgs(s, table)
    BY <1>7, <2>2, <2>3 DEF IsArgs
  <2> QED BY <2>4, <1>8 DEF n
<1>9. CASE n # 0
  <2> DEFINE more == With(table, key, value)
  <2>1. FieldsOf(s) = {FirstField(s)} \cup {mv(g) : g \in FieldsOf(r)}
    BY <1>1, <1>9
  <2> HIDE DEF key, value
  <2>2. /\ more = [k \in DOMAIN more |-> more[k]]
        /\ DOMAIN more = DOMAIN table \cup {key}
        /\ \A k \in DOMAIN table \cup {key} :
              more[k] = IF k \in DOMAIN table THEN table[k] ELSE value
    BY DEF With
  <2> HIDE DEF more
  <2>3. DOMAIN more = {KeyOf(s, f) : f \in FieldsOf(s)}
    <3>1. \A f \in FieldsOf(s) : KeyOf(s, f) \in DOMAIN more
      BY <1>2, <1>7, <2>1, <2>2 DEF key
    <3>2. \A k \in DOMAIN more : \E f \in FieldsOf(s) : KeyOf(s, f) = k
      BY <1>2, <1>7, <2>1, <2>2 DEF key
    <3> QED BY <3>1, <3>2
  <2>4. ASSUME NEW f \in FieldsOf(s), IsLast(s, f)
        PROVE  more[KeyOf(s, f)] = ValueOf(s, f)
    <3>1. CASE \E g \in FieldsOf(r) : f = mv(g)
      <4> PICK g \in FieldsOf(r) : f = mv(g)
        BY <3>1
      <4>1. IsLast(r, g)
        BY <2>4, <1>6
      <4>2. KeyOf(r, g) \in DOMAIN table /\ table[KeyOf(r, g)] = ValueOf(r, g)
        BY <1>7, <4>1
      <4>3. more[KeyOf(r, g)] = table[KeyOf(r, g)]
        BY <2>2, <4>2
      <4> QED BY <1>2, <4>2, <4>3
    <3>2. CASE f = FirstField(s)
      <4>1. key \notin DOMAIN table
        <5> SUFFICES ASSUME key \in DOMAIN table
                     PROVE  FALSE
          OBVIOUS
        <5>1. PICK g \in FieldsOf(r) : KeyOf(r, g) = key
          BY <1>7
        <5>2. mv(g) \in FieldsOf(s) /\ KeyOf(s, mv(g)) = KeyOf(s, f)
          BY <1>2, <2>1, <3>2, <5>1 DEF key
        <5>3. mv(g)[1] <= f[1]
          BY <2>4, <5>2 DEF IsLast
        <5> QED BY <5>3, <1>3, <1>4, <1>5, <3>2
      <4>2. more[key] = value
        BY <2>2, <4>1
      <4> QED BY <3>2, <4>2 DEF key, value
    <3> QED BY <2>1, <3>1, <3>2
  <2>5. IsArgs(s, more)
    BY <2>2, <2>3, <2>4 DEF IsArgs
  <2> QED BY <2>5, <1>9 DEF n, more, key, value
<1> QED BY <1>8, <1>9

(* That field alone.                                                       *)
LEMMA IsArgsOne ==
    ASSUME NEW s \in Text, TokenLength(s, 1) = Len(s)
    PROVE  IsArgs(s, IF TokenLength(s, 1) = 0 THEN NoArgs
                     ELSE With(NoArgs, KeyOf(s, FirstField(s)), ValueOf(s, FirstField(s))))
<1> DEFINE n == TokenLength(s, 1)
           key == KeyOf(s, FirstField(s))
           value == ValueOf(s, FirstField(s))
<1>1. FieldsOf(s) = {f \in {FirstField(s)} : n # 0}
  BY FieldsLast
<1>2. DOMAIN NoArgs = {} /\ NoArgs = [k \in DOMAIN NoArgs |-> NoArgs[k]]
  BY DEF NoArgs
<1>3. CASE n = 0
  <2>1. FieldsOf(s) = {}
    BY <1>1, <1>3
  <2>2. IsArgs(s, NoArgs)
    BY <1>2, <2>1 DEF IsArgs
  <2> QED BY <2>2, <1>3
<1>4. CASE n # 0
  <2> DEFINE more == With(NoArgs, key, value)
  <2>1. FieldsOf(s) = {FirstField(s)}
    BY <1>1, <1>4
  <2> HIDE DEF key, value
  <2>2. /\ more = [k \in DOMAIN more |-> more[k]] /\ DOMAIN more = {key} /\ more[key] = value
    BY <1>2 DEF With
  <2> HIDE DEF more
  <2>3. IsArgs(s, more)
    BY <2>1, <2>2 DEF IsArgs, key, value
  <2> QED BY <2>3, <1>4 DEF more, key, value
<1> QED BY <1>3, <1>4

(* What the parser gives for a text is such a table.                       *)
LEMMA ParseIsArgs ==
    \A s \in Text : \A key \in Text : IsArgs(s, Parse[<<s, 0, key>>])
<1> DEFINE D == Text
           rank == [s \in D |-> Len(s)]
           T == {s \in D : \A key \in Text : IsArgs(s, Parse[<<s, 0, key>>])}
<1>1. rank \in [D -> Nat]
  BY LenProperties DEF Text
<1>2. ASSUME NEW s \in D, \A r \in D : rank[r] < rank[s] => r \in T
      PROVE  s \in T
  <2> SUFFICES ASSUME NEW key \in Text
               PROVE  IsArgs(s, Parse[<<s, 0, key>>])
    OBVIOUS
  <2> DEFINE n == TokenLength(s, 1)
             table(rest) == IF n = 0 THEN rest
                            ELSE With(rest, KeyOf(s, FirstField(s)), ValueOf(s, FirstField(s)))
  <2>1. PICK k \in Text :
           Parse[<<s, 0, key>>] = table(IF n = Len(s) THEN NoArgs
                                        ELSE Parse[<<RestOf(s, 1), 0, k>>])
    BY ParseStep
  <2>2. CASE n = Len(s)
    <3>1. Parse[<<s, 0, key>>] = table(NoArgs)
      BY <2>1, <2>2
    <3>2. IsArgs(s, table(NoArgs))
      BY <2>2, IsArgsOne
    <3> QED BY <3>1, <3>2
  <2>3. CASE n # Len(s)
    <3> DEFINE r == RestOf(s, 1)
    <3>1. n \in Nat /\ Len(s) \in Nat /\ r \in Text /\ Len(r) = Len(s) - n - 1
      <4>1. n \in 0 .. Len(s) /\ Len(s) \in Nat
        BY TokenFacts, LenProperties DEF Text
      <4> QED BY <4>1, <2>3, TokenTyped
    <3>2. rank[r] < rank[s]
      BY <3>1
    <3>3. IsArgs(r, Parse[<<r, 0, k>>])
      BY <1>2, <3>1, <3>2
    <3>4. Parse[<<s, 0, key>>] = table(Parse[<<r, 0, k>>])
      BY <2>1, <2>3
    <3>5. IsArgs(s, table(Parse[<<r, 0, k>>]))
      BY <2>3, <3>3, IsArgsWith
    <3> QED BY <3>4, <3>5
  <2> QED BY <2>2, <2>3
<1> HIDE DEF T, D, rank
<1>3. \A s \in D : s \in T
  BY ONLY <1>1, <1>2, RankInduction
<1> QED BY <1>3 DEF T, D

(* Arguments are parsed as they are meant.                                 *)
LEMMA ParsesAsMeant == \A s \in Text : ParseArgs(s) = MeantArgs(s)
<1> SUFFICES ASSUME NEW s \in Text
             PROVE  ParseArgs(s) = MeantArgs(s)
  OBVIOUS
<1>1. <<>> \in Text
  BY EmptySeq DEF Text
<1>2. IsArgs(s, Parse[<<s, 0, <<>> >>])
  BY <1>1, ParseIsArgs
<1> QED BY <1>2, MeantArgsIs DEF ParseArgs

-------------------------------------------------------------------------------
(* Headers.                                                                *)

(* The greatest number of a set, taken out.                                *)
LEMMA MaxFacts ==
    ASSUME NEW n \in Nat, NEW T \in SUBSET (1 .. n), T # {}
    PROVE  /\ Max(T) \in T /\ Max(T) \in 1 .. n /\ T \ {Max(T)} \in SUBSET (1 .. n)
           /\ \A y \in T : y <= Max(T)
           /\ \A y \in T \ {Max(T)} : y < Max(T)
<1> DEFINE m == Max(T)
<1>1. m \in T /\ \A y \in T : y <= m
  BY GreatestNatural
<1> HIDE DEF m
<1>2. m \in 1 .. n /\ \A y \in T : y \in 1 .. n
  BY <1>1
<1>3. \A y \in T \ {m} : y < m
  BY <1>1, <1>2
<1> QED BY <1>1, <1>2, <1>3 DEF m

(* The first numbers up to i end in i.                                     *)
LEMMA MaxOfFirst ==
    ASSUME NEW n \in Nat, NEW i \in 1 .. n
    PROVE  /\ 1 .. i \in SUBSET (1 .. n) /\ 1 .. i # {} /\ Max(1 .. i) = i
           /\ (1 .. i) \ {i} = 1 .. i - 1 /\ 1 .. i - 1 \in SUBSET (1 .. n)
<1>1. 1 .. i \in SUBSET (1 .. n) /\ i \in 1 .. i
  OBVIOUS
<1>2. Max(1 .. i) \in 1 .. i /\ \A y \in 1 .. i : y <= Max(1 .. i)
  BY <1>1, MaxFacts
<1>3. Max(1 .. i) = i
  <2>1. i <= Max(1 .. i) /\ Max(1 .. i) <= i /\ Max(1 .. i) \in Int
    BY <1>1, <1>2
  <2> QED BY <2>1
<1>4. (1 .. i) \ {i} = 1 .. i - 1 /\ 1 .. i - 1 \in SUBSET (1 .. n)
  OBVIOUS
<1> QED BY <1>1, <1>3, <1>4

(* The recursive function of a fold from the left of q, of n elements.     *)
Follows(f, n, base, q, add) ==
    \A T \in SUBSET (1 .. n) :
        f[T] = IF T = {} THEN base ELSE add[<<f[T \ {Max(T)}], q[Max(T)]>>]

(* There is one.                                                           *)
LEMMA FoldExists ==
    ASSUME NEW n \in Nat, NEW R, NEW base \in R, NEW H, NEW q \in [1 .. n -> H],
           NEW add \in [R \X H -> R]
    PROVE  \E f \in [SUBSET (1 .. n) -> R] : Follows(f, n, base, q, add)
<1> DEFINE D == SUBSET (1 .. n)
           rank == [T \in D |-> IF T = {} THEN 0 ELSE Max(T)]
           F == [p \in [D -> R] \X D |->
                    IF p[2] = {} THEN base
                    ELSE add[<<p[1][p[2] \ {Max(p[2])}], q[Max(p[2])]>>]]
<1>1. \A f \in [D -> R], T \in D :
         F[<<f, T>>] = IF T = {} THEN base ELSE add[<<f[T \ {Max(T)}], q[Max(T)]>>]
  OBVIOUS
<1>2. \A T \in D : T # {} => Max(T) \in 1 .. n /\ T \ {Max(T)} \in D
  BY MaxFacts
<1>3. rank \in [D -> Nat]
  BY <1>2
<1>4. \A f \in [D -> R], T \in D : F[<<f, T>>] \in R
  <2> SUFFICES ASSUME NEW f \in [D -> R], NEW T \in D, T # {}
               PROVE  F[<<f, T>>] \in R
    BY <1>1
  <2>1. f[T \ {Max(T)}] \in R /\ q[Max(T)] \in H
    BY <1>2
  <2>2. add[<<f[T \ {Max(T)}], q[Max(T)]>>] \in R
    BY <2>1
  <2> QED BY <1>1, <2>2
<1>5. \A T \in D : T # {} => rank[T \ {Max(T)}] < rank[T]
  <2> SUFFICES ASSUME NEW T \in D, T # {}
               PROVE  rank[T \ {Max(T)}] < rank[T]
    OBVIOUS
  <2> DEFINE m == Max(T)
             U == T \ {m}
  <2>1. m \in 1 .. n /\ U \in D /\ \A y \in U : y < m
    BY MaxFacts
  <2>2. rank[T] = m
    OBVIOUS
  <2> HIDE DEF m, U
  <2>3. CASE U = {}
    <3>1. rank[U] = 0
      BY <2>1, <2>3
    <3> QED BY <2>1, <2>2, <3>1 DEF m, U
  <2>4. CASE U # {}
    <3>1. rank[U] = Max(U) /\ Max(U) \in U
      BY <2>1, <2>4, MaxFacts
    <3> QED BY <2>1, <2>2, <3>1 DEF m, U
  <2> QED BY <2>3, <2>4
<1>6. Descends(F, D, R, rank)
  <2> SUFFICES ASSUME NEW g \in [D -> R], NEW h \in [D -> R], NEW T \in D,
                      \A U \in D : rank[U] < rank[T] => g[U] = h[U]
               PROVE  F[<<g, T>>] = F[<<h, T>>]
    BY DEF Descends
  <2>1. T # {} => g[T \ {Max(T)}] = h[T \ {Max(T)}]
    BY <1>2, <1>5
  <2> QED BY <1>1, <2>1
<1>7. R # {}
  OBVIOUS
<1> HIDE DEF F, rank, D
<1>8. PICK f \in [D -> R] : \A T \in D : f[T] = F[<<f, T>>]
  <2>1. Recursive(F, D, R, rank)
    BY <1>3, <1>4, <1>6, <1>7 DEF Recursive
  <2> QED BY <2>1, RecursionExists
<1>9. \A T \in D : f[T] = IF T = {} THEN base ELSE add[<<f[T \ {Max(T)}], q[Max(T)]>>]
  BY <1>1, <1>8
<1> QED BY <1>9 DEF D, Follows

(* The folds of the headers.                                               *)
ValueFold(base, q) == FoldLeft(LAMBDA value, h : value \o <<Comma, Blank>> \o h.value, base, q)

LengthFold(base, q) == FoldLeft(LAMBDA len, h : len + 2 + Len(h.value), base, q)

Values(base, q) ==
    CHOOSE iter : iter =
        [T \in SUBSET (DOMAIN q) |->
            IF T = {} THEN base
            ELSE LET x == Max(T) IN iter[T \ {x}] \o <<Comma, Blank>> \o q[x].value]

Lengths(base, q) ==
    CHOOSE iter : iter =
        [T \in SUBSET (DOMAIN q) |->
            IF T = {} THEN base
            ELSE LET x == Max(T) IN iter[T \ {x}] + 2 + Len(q[x].value)]

(* The folds over the headers are their last steps.                        *)
LEMMA FoldsAre ==
    \A base, q : /\ ValueFold(base, q) = Values(base, q)[DOMAIN q]
                 /\ LengthFold(base, q) = Lengths(base, q)[DOMAIN q]
<1>1. ASSUME NEW base, NEW q
      PROVE  ValueFold(base, q) = Values(base, q)[DOMAIN q]
  BY Zenon DEF ValueFold, Values, FoldLeft, MapThenFoldSet
<1>2. ASSUME NEW base, NEW q
      PROVE  LengthFold(base, q) = Lengths(base, q)[DOMAIN q]
  BY Zenon DEF LengthFold, Lengths, FoldLeft, MapThenFoldSet
<1> QED BY <1>1, <1>2

(* A value with a separator behind another one, by a name.                 *)
Behind(value, more) == value \o <<Comma, Blank>> \o more

(* Headers whose values are of those symbols, or have lengths.             *)
ValuesIn(H, S) == Comma \in S /\ Blank \in S /\ \A h \in H : h.value \in Seq(S)

HaveLengths(H) == \A h \in H : Len(h.value) \in Nat

(* The two folds, step by step, by names.                                  *)
ValueSteps(base, m, q) ==
    /\ Values(base, q)[1 .. 0] = base
    /\ \A i \in 1 .. m : Values(base, q)[1 .. i] =
                            Behind(Values(base, q)[1 .. i - 1], q[i].value)

LengthSteps(base, m, q) ==
    /\ Lengths(base, q)[1 .. 0] = base
    /\ \A i \in 1 .. m : Lengths(base, q)[1 .. i] =
                            Lengths(base, q)[1 .. i - 1] + 2 + Len(q[i].value)

(* The folds are so.                                                       *)
LEMMA ValuesFacts ==
    ASSUME NEW S, NEW H, ValuesIn(H, S),
           NEW base \in Seq(S), NEW n \in Nat, NEW q \in [1 .. n -> H]
    PROVE  ValueSteps(base, n, q)
<1> DEFINE R == Seq(S)
           D == SUBSET (1 .. n)
           add == [p \in R \X H |-> Behind(p[1], p[2].value)]
<1>0. Comma \in S /\ Blank \in S /\ \A h \in H : h.value \in Seq(S)
  BY DEF ValuesIn
<1>1. \A v, w \in R : Behind(v, w) \in R
  <2>1. <<Comma, Blank>> \in Seq(S)
    BY <1>0
  <2> QED BY <2>1, ConcatProperties DEF Behind
<1>2. add \in [R \X H -> R]
  BY <1>0, <1>1
<1>3. \A v \in R, h \in H : add[<<v, h>>] = Behind(v, h.value)
  OBVIOUS
<1> HIDE DEF add
<1>4. PICK f \in [D -> R] : \A T \in D :
               f[T] = IF T = {} THEN base ELSE add[<<f[T \ {Max(T)}], q[Max(T)]>>]
  <2>1. base \in R
    OBVIOUS
  <2> HIDE DEF R
  <2>2. \E f \in [SUBSET (1 .. n) -> R] : Follows(f, n, base, q, add)
    BY ONLY <1>2, <2>1, FoldExists
  <2> QED BY <2>2 DEF Follows
<1>5. \A T \in D : f[T] = IF T = {} THEN base ELSE Behind(f[T \ {Max(T)}], q[Max(T)].value)
  <2> SUFFICES ASSUME NEW T \in D, T # {}
               PROVE  f[T] = Behind(f[T \ {Max(T)}], q[Max(T)].value)
    BY <1>4
  <2>1. Max(T) \in 1 .. n /\ T \ {Max(T)} \in D
    BY MaxFacts
  <2>2. f[T \ {Max(T)}] \in R /\ q[Max(T)] \in H
    BY <2>1
  <2> QED BY <1>3, <1>4, <2>2
<1>6. f = [T \in SUBSET (DOMAIN q) |->
              IF T = {} THEN base
              ELSE LET x == Max(T) IN f[T \ {x}] \o <<Comma, Blank>> \o q[x].value]
  <2>1. DOMAIN q = 1 .. n
    OBVIOUS
  <2> QED BY <1>5, <2>1 DEF Behind
<1>7. Values(base, q) = [T \in SUBSET (DOMAIN q) |->
              IF T = {} THEN base
              ELSE LET x == Max(T) IN Values(base, q)[T \ {x}] \o <<Comma, Blank>> \o q[x].value]
  BY <1>6, Zenon DEF Values
<1> DEFINE v == Values(base, q)
<1> HIDE DEF v
<1>8. v = [T \in SUBSET (DOMAIN q) |->
              IF T = {} THEN base ELSE Behind(v[T \ {Max(T)}], q[Max(T)].value)]
  BY <1>7 DEF Behind, v
<1>9. \A T \in D : v[T] = IF T = {} THEN base ELSE Behind(v[T \ {Max(T)}], q[Max(T)].value)
  <2>1. DOMAIN q = 1 .. n
    OBVIOUS
  <2> QED BY <1>8, <2>1
<1>10. v[1 .. 0] = base
  <2>1. 1 .. 0 = {} /\ {} \in D
    OBVIOUS
  <2> QED BY <1>9, <2>1
<1>11. \A i \in 1 .. n : v[1 .. i] = Behind(v[1 .. i - 1], q[i].value)
  <2> SUFFICES ASSUME NEW i \in 1 .. n
               PROVE  v[1 .. i] = Behind(v[1 .. i - 1], q[i].value)
    OBVIOUS
  <2>1. 1 .. i \in D /\ 1 .. i # {} /\ Max(1 .. i) = i /\ (1 .. i) \ {i} = 1 .. i - 1
    BY MaxOfFirst
  <2> QED BY <1>9, <2>1
<1> QED BY <1>10, <1>11 DEF v, ValueSteps

(* The lengths start at the first and grow step by step.                   *)
LEMMA LengthsFacts ==
    ASSUME NEW H, HaveLengths(H),
           NEW base \in Nat, NEW n \in Nat, NEW q \in [1 .. n -> H]
    PROVE  LengthSteps(base, n, q)
<1> DEFINE R == Nat
           D == SUBSET (1 .. n)
           add == [p \in R \X H |-> p[1] + 2 + Len(p[2].value)]
<1>1. \A h \in H : Len(h.value) \in Nat
  BY DEF HaveLengths
<1>2. add \in [R \X H -> R]
  <2>1. \A p \in R \X H : p[1] + 2 + Len(p[2].value) \in R
    <3>1. \A p \in R \X H : p[1] \in Nat /\ Len(p[2].value) \in Nat
      BY <1>1
    <3> QED BY <3>1
  <2> QED BY <2>1
<1>3. \A v \in R, h \in H : add[<<v, h>>] = v + 2 + Len(h.value)
  OBVIOUS
<1> HIDE DEF add
<1>4. PICK f \in [D -> R] : \A T \in D :
               f[T] = IF T = {} THEN base ELSE add[<<f[T \ {Max(T)}], q[Max(T)]>>]
  <2>1. base \in R
    OBVIOUS
  <2> HIDE DEF R
  <2>2. \E f \in [SUBSET (1 .. n) -> R] : Follows(f, n, base, q, add)
    BY ONLY <1>2, <2>1, FoldExists
  <2> QED BY <2>2 DEF Follows
<1>5. \A T \in D : f[T] = IF T = {} THEN base ELSE f[T \ {Max(T)}] + 2 + Len(q[Max(T)].value)
  <2> SUFFICES ASSUME NEW T \in D, T # {}
               PROVE  f[T] = f[T \ {Max(T)}] + 2 + Len(q[Max(T)].value)
    BY <1>4
  <2>1. Max(T) \in 1 .. n /\ T \ {Max(T)} \in D
    BY MaxFacts
  <2>2. f[T \ {Max(T)}] \in R /\ q[Max(T)] \in H
    BY <2>1
  <2> QED BY <1>3, <1>4, <2>2
<1>6. f = [T \in SUBSET (DOMAIN q) |->
              IF T = {} THEN base
              ELSE LET x == Max(T) IN f[T \ {x}] + 2 + Len(q[x].value)]
  <2>1. DOMAIN q = 1 .. n
    OBVIOUS
  <2> QED BY <1>5, <2>1
<1>7. Lengths(base, q) = [T \in SUBSET (DOMAIN q) |->
              IF T = {} THEN base
              ELSE LET x == Max(T) IN Lengths(base, q)[T \ {x}] + 2 + Len(q[x].value)]
  BY <1>6, Zenon DEF Lengths
<1> DEFINE v == Lengths(base, q)
<1> HIDE DEF v
<1>8. v = [T \in SUBSET (DOMAIN q) |->
              IF T = {} THEN base ELSE v[T \ {Max(T)}] + 2 + Len(q[Max(T)].value)]
  BY <1>7 DEF v
<1>9. \A T \in D : v[T] = IF T = {} THEN base ELSE v[T \ {Max(T)}] + 2 + Len(q[Max(T)].value)
  <2>1. DOMAIN q = 1 .. n
    OBVIOUS
  <2> QED BY <1>8, <2>1
<1>10. v[1 .. 0] = base
  <2>1. 1 .. 0 = {} /\ {} \in D
    OBVIOUS
  <2> QED BY <1>9, <2>1
<1>11. \A i \in 1 .. n : v[1 .. i] = v[1 .. i - 1] + 2 + Len(q[i].value)
  <2> SUFFICES ASSUME NEW i \in 1 .. n
               PROVE  v[1 .. i] = v[1 .. i - 1] + 2 + Len(q[i].value)
    OBVIOUS
  <2>1. 1 .. i \in D /\ 1 .. i # {} /\ Max(1 .. i) = i /\ (1 .. i) \ {i} = 1 .. i - 1
    BY MaxOfFirst
  <2> QED BY <1>9, <2>1
<1> QED BY <1>10, <1>11 DEF v, LengthSteps

(* If one of several sequences is not empty, they are not together.        *)
LEMMA FlattenMember ==
    ASSUME NEW S, NEW ss \in Seq(Seq(S)), NEW i \in 1 .. Len(ss), ss[i] # <<>>
    PROVE  FlattenSeq(ss) # <<>>
<1> DEFINE n == Len(ss)
           D == 1 .. n
           rank == [j \in D |-> j]
           T == {j \in D : i <= j => Flats(ss)[j] # <<>>}
<1>1. n \in Nat /\ n # 0 /\ i \in D /\ n \in D /\ i <= n
  <2>1. n \in Nat
    BY LenProperties
  <2> QED BY <2>1
<1>2. /\ \A j \in D : Flats(ss)[j] \in Seq(S) /\ ss[j] \in Seq(S)
      /\ \A j \in D : Flats(ss)[j] = IF j = 1 THEN ss[j] ELSE Flats(ss)[j - 1] \o ss[j]
  <2>1. \A j \in D : ss[j] \in Seq(S)
    BY ElementOfSeq
  <2> QED BY <2>1, FlatsFacts
<1>3. rank \in [D -> Nat]
  BY <1>1
<1>4. \A s, t \in Seq(S) : Cat(s, t) = <<>> => s = <<>> /\ t = <<>>
  BY ConcatEqualIffEmpty DEF Cat
<1>5. ASSUME NEW j \in D, \A k \in D : rank[k] < rank[j] => k \in T
      PROVE  j \in T
  <2> SUFFICES ASSUME i <= j, Flats(ss)[j] = <<>>
               PROVE  FALSE
    OBVIOUS
  <2>1. CASE j = 1
    <3>1. i = j
      BY <1>1, <2>1
    <3> QED BY <1>2, <2>1, <3>1
  <2>2. CASE j # 1
    <3>1. j - 1 \in D /\ j - 1 < j
      BY <1>1, <2>2
    <3>2. Flats(ss)[j - 1] = <<>> /\ ss[j] = <<>>
      <4>1. Cat(Flats(ss)[j - 1], ss[j]) = <<>>
        BY <1>2, <2>2 DEF Cat
      <4>2. Flats(ss)[j - 1] \in Seq(S) /\ ss[j] \in Seq(S)
        BY <1>2, <3>1
      <4> QED BY <1>4, <4>1, <4>2
    <3>3. i # j
      BY <3>2
    <3>4. i <= j - 1
      BY <1>1, <3>1, <3>3
    <3>5. j - 1 \in T
      BY <1>5, <3>1
    <3> QED BY <3>2, <3>4, <3>5
  <2> QED BY <2>1, <2>2
<1> HIDE DEF T, D, rank
<1>6. \A j \in D : j \in T
  BY ONLY <1>3, <1>5, RankInduction
<1>7. Flats(ss)[n] # <<>>
  BY <1>1, <1>6 DEF T
<1>8. FlattenSeq(ss) = Flats(ss)[n]
  BY <1>1, FlattenIsFlats
<1> QED BY <1>7, <1>8

(* The headers of a name are headers, and those that have it among them.   *)
LEMMA NamedFacts ==
    ASSUME headers \in Seq(Headers), NEW name
    PROVE  /\ Named(name) \in Seq(Headers)
           /\ \A h \in ToSet(headers) : Lower[h.name] = name => Named(name) # <<>>
<1> DEFINE ss == [i \in DOMAIN headers |->
                     IF Lower[headers[i].name] = name THEN <<headers[i]>> ELSE <<>>]
<1>1. /\ Len(headers) \in Nat /\ DOMAIN headers = 1 .. Len(headers)
      /\ \A i \in 1 .. Len(headers) : headers[i] \in Headers
  BY LenProperties, ElementOfSeq
<1>2. /\ ss \in Seq(Seq(Headers)) /\ Len(ss) = Len(headers)
      /\ \A i \in 1 .. Len(headers) :
            ss[i] = IF Lower[headers[i].name] = name THEN <<headers[i]>> ELSE <<>>
  <2>1. \A i \in 1 .. Len(headers) :
           (IF Lower[headers[i].name] = name THEN <<headers[i]>> ELSE <<>>) \in Seq(Headers)
    BY <1>1, EmptySeq
  <2>2. ss \in [1 .. Len(headers) -> Seq(Headers)]
    BY <1>1, <2>1
  <2> QED BY <1>1, <2>2
<1>3. Named(name) = FlattenSeq(ss)
  BY DEF Named
<1> HIDE DEF ss
<1>4. ASSUME NEW h \in ToSet(headers), Lower[h.name] = name
      PROVE  Named(name) # <<>>
  <2>1. PICK i \in 1 .. Len(headers) : headers[i] = h
    BY <1>1 DEF ToSet
  <2>2. ss[i] # <<>>
    <3>1. ss[i] = <<h>>
      BY <1>2, <1>4, <2>1
    <3> QED BY <3>1
  <2> QED BY <1>2, <1>3, <2>2, FlattenMember
<1> QED BY <1>2, <1>3, <1>4, FlattenType

(* What values make, joined by commas.                                     *)
Parts(values) ==
    [i \in DOMAIN values |-> IF i = 1 THEN values[i] ELSE <<Comma, Blank>> \o values[i]]

(* Joining the values step by step.                                        *)
LEMMA JoinedFacts ==
    ASSUME NEW S, Comma \in S, Blank \in S, NEW values \in Seq(Seq(S)), values # <<>>
    PROVE  /\ Len(values) \in Nat \ {0}
           /\ Parts(values) \in Seq(Seq(S)) /\ Len(Parts(values)) = Len(values)
           /\ Joined(values) = Flats(Parts(values))[Len(values)]
           /\ Flats(Parts(values))[1] = values[1]
           /\ \A i \in 1 .. Len(values) : Flats(Parts(values))[i] \in Seq(S)
           /\ \A i \in 1 .. Len(values) : i # 1 =>
                 Flats(Parts(values))[i] = Behind(Flats(Parts(values))[i - 1], values[i])
<1> DEFINE n == Len(values)
           p == Parts(values)
<1>1. /\ n \in Nat \ {0} /\ DOMAIN values = 1 .. n
      /\ \A i \in 1 .. n : values[i] \in Seq(S)
  BY EmptySeq, LenProperties, ElementOfSeq
<1>2. /\ p \in Seq(Seq(S)) /\ Len(p) = n
      /\ \A i \in 1 .. n : p[i] = IF i = 1 THEN values[i] ELSE <<Comma, Blank>> \o values[i]
  <2>1. <<Comma, Blank>> \in Seq(S)
    OBVIOUS
  <2>2. \A i \in 1 .. n : <<Comma, Blank>> \o values[i] \in Seq(S)
    BY <1>1, <2>1, ConcatProperties
  <2> DEFINE b(i) == <<Comma, Blank>> \o values[i]
  <2>3. p = [i \in 1 .. n |-> IF i = 1 THEN values[i] ELSE b(i)]
    BY <1>1 DEF Parts
  <2>4. \A i \in 1 .. n : b(i) \in Seq(S)
    BY <2>2
  <2> HIDE DEF b, p, n
  <2>5. p \in [1 .. n -> Seq(S)]
    BY <1>1, <2>3, <2>4
  <2>6. p \in Seq(Seq(S)) /\ Len(p) = n
    BY <1>1, <2>5
  <2>7. \A i \in 1 .. n : p[i] = IF i = 1 THEN values[i] ELSE b(i)
    BY <2>3
  <2> QED BY <2>6, <2>7 DEF b
<1> HIDE DEF p
<1>3. /\ Flats(p) \in [1 .. n -> Seq(S)]
      /\ \A i \in 1 .. n : Flats(p)[i] = IF i = 1 THEN p[i] ELSE Flats(p)[i - 1] \o p[i]
  BY <1>2, FlatsFacts
<1>4. Joined(values) = Flats(p)[n]
  <2>1. Joined(values) = FlattenSeq(p)
    BY DEF Joined, Parts, p
  <2>2. Len(p) # 0
    BY <1>1, <1>2
  <2> QED BY <1>2, <2>1, <2>2, FlattenIsFlats
<1>5. Flats(p)[1] = values[1]
  <2>1. 1 \in 1 .. n
    BY <1>1
  <2> QED BY <1>2, <1>3, <2>1
<1>6. ASSUME NEW i \in 1 .. n, i # 1
      PROVE  Flats(p)[i] = Behind(Flats(p)[i - 1], values[i])
  <2>1. i - 1 \in 1 .. n
    BY <1>1, <1>6
  <2>2. PICK w \in Seq(S) : w = <<Comma, Blank>>
    <3>1. <<Comma, Blank>> \in Seq(S)
      OBVIOUS
    <3> QED BY ONLY <3>1
  <2>3. Flats(p)[i] = Cat(Flats(p)[i - 1], Cat(w, values[i]))
    BY <1>2, <1>3, <1>6, <2>2 DEF Cat
  <2>4. Behind(Flats(p)[i - 1], values[i]) = Cat(Cat(Flats(p)[i - 1], w), values[i])
    BY <2>2 DEF Cat, Behind
  <2>5. Flats(p)[i - 1] \in Seq(S) /\ values[i] \in Seq(S)
    BY <1>1, <1>3, <2>1
  <2> QED BY <2>3, <2>4, <2>5, Associative
<1> QED BY <1>1, <1>2, <1>3, <1>4, <1>5, <1>6 DEF p

(* The symbols of headers.                                                 *)
HeaderSymbols == {Comma, Blank} \cup UNION {ToSet(h.value) : h \in Headers}

(* The values of the headers are sequences of symbols.                     *)
LEMMA HeaderValuesTyped == \A h \in Headers : h.value \in Seq(HeaderSymbols)
<1> SUFFICES ASSUME NEW h \in Headers
             PROVE  h.value \in Seq(HeaderSymbols)
  OBVIOUS
<1>1. h.value \in Seq(ToSet(h.value))
  BY SequencesAssumption DEF SequencesAssumption
<1>2. ToSet(h.value) \subseteq HeaderSymbols
  BY DEF HeaderSymbols
<1> QED BY <1>1, <1>2, SeqMonotonic

(* The two folds, step by step, by a name.                                 *)
Foldable(S, H, base, m, q) ==
    ValuesIn(H, S) /\ base \in Seq(S) /\ m \in Nat /\ q \in [1 .. m -> H]

Countable(H, base, m, q) ==
    HaveLengths(H) /\ base \in Nat /\ m \in Nat /\ q \in [1 .. m -> H]

(* Both folds over the headers go step by step.                            *)
LEMMA FoldsStep ==
    /\ \A S, H, base, m, q : Foldable(S, H, base, m, q) => ValueSteps(base, m, q)
    /\ \A H, base, m, q : Countable(H, base, m, q) => LengthSteps(base, m, q)
<1>1. ASSUME NEW S, NEW H, NEW base, NEW m, NEW q, Foldable(S, H, base, m, q)
      PROVE  ValueSteps(base, m, q)
  <2>1. ValuesIn(H, S) /\ base \in Seq(S) /\ m \in Nat /\ q \in [1 .. m -> H]
    BY <1>1 DEF Foldable
  <2> QED BY <2>1, ValuesFacts
<1>2. ASSUME NEW H, NEW base, NEW m, NEW q, Countable(H, base, m, q)
      PROVE  LengthSteps(base, m, q)
  <2>1. HaveLengths(H) /\ base \in Nat /\ m \in Nat /\ q \in [1 .. m -> H]
    BY <1>2 DEF Countable
  <2> QED BY <2>1, LengthsFacts
<1> QED BY <1>1, <1>2

(* The headers of a name make one, of the length that was found before.    *)
LEMMA NamedJoined ==
    ASSUME headers \in Seq(Headers), NEW name, Named(name) # <<>>
    PROVE  LET values == [i \in DOMAIN Named(name) |-> Named(name)[i].value]
           IN  /\ HeaderValue(name) = Joined(values)
               /\ HeaderLength(name) = Len(Joined(values))
<1> DEFINE S == HeaderSymbols
           named == Named(name)
           values == [i \in DOMAIN named |-> named[i].value]
           base == Head(named).value
           q == Tail(named)
           m == Len(q)
           f == Flats(Parts(values))
<1>1. Comma \in S /\ Blank \in S /\ \A h \in Headers : h.value \in Seq(S)
  BY HeaderValuesTyped DEF HeaderSymbols
<1> HIDE DEF S
<1>2. /\ Head(named) \in Headers /\ Head(named) = named[1] /\ Len(named) = m + 1 /\ m \in Nat
      /\ q \in [1 .. m -> Headers] /\ \A i \in 1 .. m : q[i] = named[i + 1]
      /\ DOMAIN named = 1 .. m + 1 /\ named \in Seq(Headers)
  <2>1. named \in Seq(Headers)
    BY NamedFacts
  <2> HIDE DEF named
  <2>2. /\ Head(named) \in Headers /\ q \in Seq(Headers) /\ Len(q) = Len(named) - 1
        /\ \A i \in 1 .. Len(q) : q[i] = named[i + 1]
    BY <2>1, HeadTailProperties DEF named
  <2>3. Head(named) = named[1]
    OBVIOUS
  <2>4. Len(named) \in Nat /\ DOMAIN named = 1 .. Len(named)
    BY <2>1, LenProperties
  <2>5. m \in Nat /\ q \in [1 .. m -> Headers]
    BY <2>2, LenProperties
  <2>6. Len(named) = m + 1
    BY <2>2, <2>4, <2>5
  <2> QED BY <2>1, <2>2, <2>3, <2>4, <2>5, <2>6
<1>3. /\ HeaderValue(name) = Values(base, q)[1 .. m]
      /\ HeaderLength(name) = Lengths(Len(base), q)[1 .. m]
  <2>1. HeaderValue(name) = ValueFold(base, q)
    BY Zenon DEF HeaderValue, ValueFold
  <2>2. HeaderLength(name) = LengthFold(Len(base), q)
    BY Zenon DEF HeaderLength, LengthFold
  <2>3. DOMAIN q = 1 .. m
    BY <1>2
  <2> HIDE DEF q, m, base
  <2>4. /\ ValueFold(base, q) = Values(base, q)[DOMAIN q]
        /\ LengthFold(Len(base), q) = Lengths(Len(base), q)[DOMAIN q]
    BY FoldsAre
  <2> QED BY <2>1, <2>2, <2>3, <2>4
<1> HIDE DEF named
<1>4. /\ values \in Seq(Seq(S)) /\ Len(values) = m + 1
      /\ \A i \in 1 .. m + 1 : values[i] = named[i].value
  <2>1. \A i \in 1 .. m + 1 : named[i] \in Headers
    BY <1>2, ElementOfSeq
  <2>2. \A i \in 1 .. m + 1 : named[i].value \in Seq(S)
    BY <1>1, <2>1
  <2>3. values = [i \in 1 .. m + 1 |-> named[i].value]
    BY <1>2
  <2> HIDE DEF values, m
  <2>4. values \in [1 .. m + 1 -> Seq(S)]
    BY <2>2, <2>3
  <2>5. values \in Seq(Seq(S)) /\ Len(values) = m + 1
    BY <1>2, <2>4
  <2> QED BY <2>3, <2>5
<1>5. values # <<>>
  BY <1>2, <1>4, EmptySeq
<1>6. /\ Joined(values) = f[m + 1] /\ f[1] = values[1]
      /\ \A i \in 1 .. m + 1 : f[i] \in Seq(S)
      /\ \A i \in 1 .. m + 1 : i # 1 => f[i] = Behind(f[i - 1], values[i])
  <2> HIDE DEF values, m
  <2> QED BY <1>1, <1>4, <1>5, JoinedFacts
<1>7. base = values[1] /\ base \in Seq(S) /\ Len(base) \in Nat
  <2>1. 1 \in 1 .. m + 1
    BY <1>2
  <2>2. base = values[1]
    BY <1>2, <1>4, <2>1
  <2>3. base \in Seq(S)
    BY <1>1, <1>2
  <2> QED BY <2>2, <2>3, LenProperties
<1>8. \A i \in 1 .. m : /\ q[i] \in Headers /\ q[i].value = values[i + 1] /\ q[i].value \in Seq(S)
                        /\ i + 1 \in 1 .. m + 1 /\ i + 1 # 1 /\ (i + 1) - 1 = i
  <2> SUFFICES ASSUME NEW i \in 1 .. m
               PROVE  /\ q[i] \in Headers /\ q[i].value = values[i + 1] /\ q[i].value \in Seq(S)
                      /\ i + 1 \in 1 .. m + 1 /\ i + 1 # 1 /\ (i + 1) - 1 = i
    OBVIOUS
  <2>1. i + 1 \in 1 .. m + 1 /\ i + 1 # 1 /\ (i + 1) - 1 = i
    BY <1>2
  <2>2. q[i] \in Headers /\ q[i] = named[i + 1]
    BY <1>2
  <2> QED BY <1>1, <1>4, <2>1, <2>2
<1>9. /\ Values(base, q)[1 .. 0] = base
      /\ \A i \in 1 .. m : Values(base, q)[1 .. i] =
                              Behind(Values(base, q)[1 .. i - 1], q[i].value)
  <2>1. ValuesIn(Headers, S)
    BY <1>1 DEF ValuesIn
  <2> HIDE DEF base, q, m
  <2>2. Foldable(S, Headers, base, m, q)
    BY <1>2, <1>7, <2>1 DEF Foldable
  <2>3. ValueSteps(base, m, q)
    BY <2>2, FoldsStep
  <2> QED BY <2>3 DEF ValueSteps
<1>10. /\ Lengths(Len(base), q)[1 .. 0] = Len(base)
       /\ \A i \in 1 .. m : Lengths(Len(base), q)[1 .. i] =
                               Lengths(Len(base), q)[1 .. i - 1] + 2 + Len(q[i].value)
  <2>1. HaveLengths(Headers)
    BY <1>1, LenProperties DEF HaveLengths
  <2> HIDE DEF base, q, m
  <2>2. Countable(Headers, Len(base), m, q)
    BY <1>2, <1>7, <2>1 DEF Countable
  <2>3. LengthSteps(Len(base), m, q)
    BY <2>2, FoldsStep
  <2> QED BY <2>3 DEF LengthSteps
<1> HIDE DEF values, base, q, m, f
<1> DEFINE D == 0 .. m
           rank == [i \in D |-> i]
           T == {i \in D : /\ Values(base, q)[1 .. i] = f[i + 1]
                           /\ Lengths(Len(base), q)[1 .. i] = Len(f[i + 1])}
<1>11. rank \in [D -> Nat]
  BY <1>2
<1>12. ASSUME NEW i \in D, \A j \in D : rank[j] < rank[i] => j \in T
       PROVE  i \in T
  <2>1. CASE i = 0
    BY <2>1, <1>6, <1>7, <1>9, <1>10
  <2>2. CASE i # 0
    <3>1. i \in 1 .. m /\ i - 1 \in D /\ i - 1 < i /\ (i - 1) + 1 = i /\ i \in 1 .. m + 1
      BY <1>2, <2>2
    <3>2. Values(base, q)[1 .. i - 1] = f[i] /\ Lengths(Len(base), q)[1 .. i - 1] = Len(f[i])
      <4>1. i - 1 \in T
        BY <1>12, <3>1
      <4> QED BY <3>1, <4>1
    <3>3. f[i + 1] = Behind(f[i], values[i + 1])
      BY <1>6, <1>8, <3>1
    <3>4. Len(Behind(f[i], values[i + 1])) = Len(f[i]) + 2 + Len(values[i + 1])
      <4>1. f[i] \in Seq(S) /\ values[i + 1] \in Seq(S)
        BY <1>6, <1>8, <3>1
      <4>2. PICK w \in Seq(S) : w = <<Comma, Blank>> /\ Len(w) = 2
        <5>1. <<Comma, Blank>> \in Seq(S) /\ Len(<<Comma, Blank>>) = 2
          BY <1>1
        <5> QED BY ONLY <5>1
      <4>3. Behind(f[i], values[i + 1]) = (f[i] \o w) \o values[i + 1]
        BY <4>2 DEF Behind
      <4>4. f[i] \o w \in Seq(S) /\ Len(f[i] \o w) = Len(f[i]) + 2
        BY <4>1, <4>2, ConcatProperties
      <4>5. Len((f[i] \o w) \o values[i + 1]) = Len(f[i] \o w) + Len(values[i + 1])
        BY <4>1, <4>4, ConcatProperties
      <4> QED BY <4>3, <4>4, <4>5
    <3> QED BY <1>8, <1>9, <1>10, <3>1, <3>2, <3>3, <3>4
  <2> QED BY <2>1, <2>2
<1> HIDE DEF D, rank, T
<1>13. \A i \in D : i \in T
  BY ONLY <1>11, <1>12, RankInduction
<1>14. m \in D
  BY <1>2 DEF D
<1>15. Values(base, q)[1 .. m] = f[m + 1] /\ Lengths(Len(base), q)[1 .. m] = Len(f[m + 1])
  BY <1>13, <1>14 DEF T
<1>16. HeaderValue(name) = Joined(values) /\ HeaderLength(name) = Len(Joined(values))
  BY <1>3, <1>6, <1>15
<1> QED BY <1>16 DEF values, named

(* So that the headers of a request are given as they should be.           *)
LEMMA HeadersAreRight == headers \in Seq(Headers) => HeadersRight
<1> SUFFICES ASSUME headers \in Seq(Headers), NEW h \in ToSet(headers)
             PROVE  LET named  == Named(Lower[h.name])
                        values == [i \in DOMAIN named |-> named[i].value]
                    IN  /\ HeaderValue(Lower[h.name]) = Joined(values)
                        /\ HeaderLength(Lower[h.name]) = Len(Joined(values))
  BY DEF HeadersRight
<1>1. Named(Lower[h.name]) # <<>>
  BY NamedFacts
<1> QED BY <1>1, NamedJoined

-------------------------------------------------------------------------------
(* The specification.                                                      *)

(* The inputs are of their kinds, and no buffer of a body is empty: what   *)
(* the algorithms take for granted of them.                                *)
InputsInv == /\ args \in Text
             /\ headers \in Seq(Headers)
             /\ cookies \in Seq(Cookies)
             /\ bufs \in Chains /\ \A i \in 1 .. Len(bufs) : bufs[i] # <<>>
             /\ number \in Nat

(* An element more.                                                        *)
LEMMA AppendFacts ==
    ASSUME NEW S, NEW s \in Seq(S), NEW x \in S, NEW n \in Nat, Len(s) = n
    PROVE  /\ Append(s, x) \in Seq(S) /\ Append(s, x) # <<>> /\ Len(Append(s, x)) = n + 1
           /\ \A i \in 1 .. n : Append(s, x)[i] = s[i]
           /\ Append(s, x)[n + 1] = x
<1>1. /\ Append(s, x) \in Seq(S) /\ Len(Append(s, x)) = n + 1
      /\ \A i \in 1 .. n : Append(s, x)[i] = s[i]
      /\ Append(s, x)[n + 1] = x
  BY AppendProperties
<1>2. Append(s, x) # <<>>
  BY <1>1, EmptySeq
<1> QED BY <1>1, <1>2

(* A byte more in the last buffer, or in one of its own.                   *)
LEMMA AddByteKeeps == InputsInv /\ AddByte => InputsInv'
<1> SUFFICES ASSUME InputsInv, AddByte
             PROVE  InputsInv'
  OBVIOUS
<1> DEFINE byte == Len(FlattenSeq(bufs)) + 1
           n == Len(bufs)
<1>1. byte \in Nat /\ n \in Nat
  BY FlattenType, LenProperties DEF InputsInv, Chains
<1>2. \/ bufs' = Append(bufs, <<byte>>)
      \/ bufs # <<>> /\ bufs' = Append(Front(bufs), Append(Last(bufs), byte))
  BY DEF AddByte
<1> HIDE DEF byte
<1>3. bufs' \in Chains /\ \A i \in 1 .. Len(bufs') : bufs'[i] # <<>>
  <2>1. CASE bufs' = Append(bufs, <<byte>>)
    <3>1. PICK one \in Seq(Nat) : one = <<byte>> /\ one # <<>>
      <4>1. <<byte>> \in Seq(Nat) /\ <<byte>> # <<>>
        BY <1>1
      <4> QED BY ONLY <4>1
    <3>2. /\ Append(bufs, one) \in Chains /\ Len(Append(bufs, one)) = n + 1
          /\ \A i \in 1 .. n : Append(bufs, one)[i] = bufs[i]
          /\ Append(bufs, one)[n + 1] = one
      BY AppendProperties DEF InputsInv, Chains
    <3>3. \A i \in 1 .. n + 1 : i \in 1 .. n \/ i = n + 1
      BY <1>1
    <3> QED BY <2>1, <3>1, <3>2, <3>3 DEF InputsInv
  <2>2. CASE bufs # <<>> /\ bufs' = Append(Front(bufs), Append(Last(bufs), byte))
    <3> DEFINE front == Front(bufs)
               more == Append(Last(bufs), byte)
    <3>1. n # 0 /\ n - 1 \in Nat /\ n \in 1 .. n
      BY <1>1, <2>2, EmptySeq DEF InputsInv, Chains
    <3>2. \A i \in 1 .. n : bufs[i] \in Seq(Nat)
      BY ElementOfSeq DEF InputsInv, Chains
    <3>3. front = [i \in 1 .. n - 1 |-> bufs[i]]
      <4>1. front = SubSeq(bufs, 1, n - 1)
        BY DEF Front
      <4> QED BY <1>1, <4>1
    <3>4. front \in Chains /\ Len(front) = n - 1 /\ \A i \in 1 .. n - 1 : front[i] = bufs[i]
      <4>1. \A i \in 1 .. n - 1 : i \in 1 .. n
        BY <1>1
      <4>2. front \in [1 .. n - 1 -> Seq(Nat)]
        BY <3>2, <3>3, <4>1
      <4> HIDE DEF front, n
      <4>3. front \in Chains /\ Len(front) = n - 1
        BY <3>1, <4>2 DEF Chains
      <4> QED BY <3>3, <4>3
    <3>5. more \in Seq(Nat) /\ more # <<>>
      <4>1. Last(bufs) \in Seq(Nat)
        BY <3>1, <3>2 DEF Last
      <4>2. Len(Last(bufs)) \in Nat
        BY <4>1, LenProperties
      <4> HIDE DEF n
      <4> QED BY <1>1, <4>1, <4>2, AppendFacts
    <3> HIDE DEF front, more
    <3>6. /\ Append(front, more) \in Chains /\ Len(Append(front, more)) = n
          /\ \A i \in 1 .. n - 1 : Append(front, more)[i] = front[i]
          /\ Append(front, more)[n] = more
      <4>1. (n - 1) + 1 = n
        BY <1>1
      <4> HIDE DEF n
      <4>2. /\ Append(front, more) \in Chains /\ Len(Append(front, more)) = (n - 1) + 1
            /\ \A i \in 1 .. n - 1 : Append(front, more)[i] = front[i]
            /\ Append(front, more)[(n - 1) + 1] = more
        BY <3>1, <3>4, <3>5, AppendFacts DEF Chains
      <4> QED BY <4>1, <4>2
    <3>7. \A i \in 1 .. n : i \in 1 .. n - 1 \/ i = n
      BY <1>1
    <3>8. bufs' = Append(front, more)
      BY <2>2 DEF front, more
    <3>9. \A i \in 1 .. n - 1 : bufs[i] # <<>>
      BY <1>1 DEF InputsInv
    <3> HIDE DEF n
    <3> QED BY <3>4, <3>5, <3>6, <3>7, <3>8, <3>9
  <2> QED BY <1>2, <2>1, <2>2
<1> QED BY <1>3 DEF InputsInv, AddByte

(* Each input grows by what is of its kind.                                *)
LEMMA InputsKept == InputsInv /\ [Next]_vars => InputsInv'
<1> SUFFICES ASSUME InputsInv, [Next]_vars
             PROVE  InputsInv'
  OBVIOUS
<1>1. ASSUME NEW x \in Characters, Type(x)
      PROVE  InputsInv'
  <2>1. x \in Char
    BY DataAssumption DEF DataAssumption, Char
  <2>2. Append(args, x) \in Text
    BY <2>1, AppendProperties DEF InputsInv, Text
  <2> QED BY <1>1, <2>2 DEF Type, InputsInv
<1>2. ASSUME NEW h \in Headers, AddHeader(h)
      PROVE  InputsInv'
  <2>1. Append(headers, h) \in Seq(Headers)
    BY AppendProperties DEF InputsInv
  <2> QED BY <1>2, <2>1 DEF AddHeader, InputsInv
<1>3. ASSUME NEW c \in Cookies, AddCookie(c)
      PROVE  InputsInv'
  <2>1. Append(cookies, c) \in Seq(Cookies)
    BY AppendProperties DEF InputsInv
  <2> QED BY <1>3, <2>1 DEF AddCookie, InputsInv
<1>4. CASE AddByte
  BY <1>4, AddByteKeeps
<1>5. CASE Count
  BY <1>5 DEF Count, InputsInv
<1>6. CASE UNCHANGED vars
  BY <1>6 DEF vars, InputsInv
<1> QED BY <1>1, <1>2, <1>3, <1>4, <1>5, <1>6 DEF Next

(* The initial state.                                                      *)
LEMMA InputsFirst == Init => InputsInv
<1> SUFFICES ASSUME Init
             PROVE  InputsInv
  OBVIOUS
<1>1. <<>> \in Text /\ <<>> \in Seq(Headers) /\ <<>> \in Seq(Cookies) /\ <<>> \in Chains
  BY EmptySeq DEF Text, Chains
<1>2. Len(<<>>) = 0
  BY EmptySeq
<1> QED BY <1>1, <1>2 DEF Init, InputsInv

(* The inputs of the library functions are of their kinds, always.         *)
LEMMA InputsTyped == Spec => []InputsInv
<1> QED BY InputsFirst, InputsKept, PTL DEF Spec

(* A chunk gets of a request what was sent, for every input that the       *)
(* inductive invariant admits.                                             *)
LEMMA RequestIsRight == InputsInv => RequestRight
<1> SUFFICES ASSUME InputsInv
             PROVE  RequestRight
  OBVIOUS
<1>1. ArgsRight
  BY ParsesAsMeant DEF ArgsRight, InputsInv
<1>2. HeadersRight
  BY HeadersAreRight DEF InputsInv
<1>3. BodyRight
  <2> SUFFICES ASSUME NEW size \in Reads
               PROVE  ReadAll(bufs, size) = FlattenSeq(bufs)
    BY DEF BodyRight
  <2>1. size \in Nat \ {0}
    BY DataAssumption DEF DataAssumption
  <2> QED BY <2>1, ReadsAll DEF InputsInv
<1> QED BY <1>1, <1>2, <1>3 DEF RequestRight

(* What lws.parseargs, request.headers and request.body give a chunk is    *)
(* what was sent, whatever the request.                                    *)
THEOREM RequestAlwaysRight == Spec => []RequestRight
<1> QED BY InputsTyped, RequestIsRight, PTL

-------------------------------------------------------------------------------
(* Searches.                                                               *)

(* A table of numbers, none of them less than the one before.              *)
Sorted(table, n) == /\ n \in Nat /\ table \in [1 .. n -> Nat] /\ Len(table) = n
                    /\ \A i, j \in 1 .. n : i <= j => table[i] <= table[j]

(* The recursive function of Search.                                       *)
Halved(table, x) ==
    CHOOSE halved : halved =
        [at \in (0 .. Len(table)) \X (-1 .. Len(table) - 1) |->
            LET lower == at[1]
                upper == at[2]
                mid   == (lower + upper) \div 2
            IN  IF lower > upper THEN lower
                ELSE IF table[mid + 1] < x THEN halved[<<mid + 1, upper>>]
                ELSE halved[<<lower, mid - 1>>]]

(* What Halved is at one point.                                            *)
Middle(at) == (at[1] + at[2]) \div 2

Ranges(n) == (0 .. n) \X (-1 .. n - 1)

(* The middle is between the ends.                                         *)
LEMMA MiddleFacts ==
    ASSUME NEW n \in Nat, NEW at \in Ranges(n), at[1] <= at[2]
    PROVE  /\ Middle(at) \in 0 .. n - 1 /\ Middle(at) + 1 \in 1 .. n
           /\ at[1] <= Middle(at) /\ Middle(at) <= at[2]
           /\ <<Middle(at) + 1, at[2]>> \in Ranges(n)
           /\ <<at[1], Middle(at) - 1>> \in Ranges(n)
<1> DEFINE a == at[1]
           b == at[2]
           m == Middle(at)
<1>1. a \in 0 .. n /\ b \in -1 .. n - 1 /\ a <= b
  BY DEF Ranges
<1>2. m = (a + b) \div 2
  BY DEF Middle
<1> HIDE DEF a, b, m
<1>3. m \in Int /\ a <= m /\ m <= b
  BY <1>1, <1>2
<1>4. m \in 0 .. n - 1 /\ m + 1 \in 1 .. n /\ m + 1 \in 0 .. n /\ m - 1 \in -1 .. n - 1
  BY <1>1, <1>3
<1>5. <<m + 1, b>> \in Ranges(n) /\ <<a, m - 1>> \in Ranges(n)
  BY <1>1, <1>4 DEF Ranges
<1> QED BY <1>3, <1>4, <1>5 DEF a, b, m

(* There is such a function.                                               *)
LEMMA HalvedFacts ==
    ASSUME NEW table, NEW n, Sorted(table, n), NEW x \in Nat, NEW at \in Ranges(n)
    PROVE  Halved(table, x)[at] =
               IF at[1] > at[2] THEN at[1]
               ELSE IF table[Middle(at) + 1] < x THEN Halved(table, x)[<<Middle(at) + 1, at[2]>>]
               ELSE Halved(table, x)[<<at[1], Middle(at) - 1>>]
<1> DEFINE D == Ranges(n)
           R == Nat
           rank == [p \in D |-> IF p[1] > p[2] THEN 0 ELSE p[2] - p[1] + 1]
           up(p) == <<Middle(p) + 1, p[2]>>
           down(p) == <<p[1], Middle(p) - 1>>
           less(p) == table[Middle(p) + 1] < x
           F == [p \in [D -> R] \X D |->
                    IF p[2][1] > p[2][2] THEN p[2][1]
                    ELSE IF less(p[2]) THEN p[1][up(p[2])] ELSE p[1][down(p[2])]]
<1>0. n \in Nat /\ table \in [1 .. n -> Nat] /\ Len(table) = n
  BY DEF Sorted
<1>1. \A p \in D : p[1] \in 0 .. n /\ p[2] \in -1 .. n - 1
  BY DEF Ranges
<1>2. rank \in [D -> Nat]
  <2>1. \A p \in D : (IF p[1] > p[2] THEN 0 ELSE p[2] - p[1] + 1) \in Nat
    BY <1>0, <1>1
  <2> QED BY <2>1
<1>3. ASSUME NEW p \in D, ~(p[1] > p[2])
      PROVE  /\ up(p) \in D /\ down(p) \in D
             /\ rank[up(p)] < rank[p] /\ rank[down(p)] < rank[p]
  <2> DEFINE m == Middle(p)
  <2>1. p[1] <= p[2]
    BY <1>0, <1>1, <1>3
  <2>2. /\ m \in 0 .. n - 1 /\ p[1] <= m /\ m <= p[2]
        /\ up(p) \in D /\ down(p) \in D
    BY <1>0, <2>1, MiddleFacts
  <2>3. rank[p] = p[2] - p[1] + 1
    BY <1>3
  <2>4. rank[up(p)] = IF m + 1 > p[2] THEN 0 ELSE p[2] - (m + 1) + 1
    BY <2>2
  <2>5. rank[down(p)] = IF p[1] > m - 1 THEN 0 ELSE (m - 1) - p[1] + 1
    BY <2>2
  <2> HIDE DEF m, up, down, rank
  <2>6. p[1] \in Int /\ p[2] \in Int /\ m \in Int
    BY <1>0, <1>1, <2>2
  <2>7. rank[up(p)] < rank[p] /\ rank[down(p)] < rank[p]
    BY <2>1, <2>2, <2>3, <2>4, <2>5, <2>6
  <2> QED BY <2>2, <2>7
<1> HIDE DEF up, down, less
<1>4. \A g \in [D -> R], p \in D :
         F[<<g, p>>] = IF p[1] > p[2] THEN p[1] ELSE IF less(p) THEN g[up(p)] ELSE g[down(p)]
  OBVIOUS
<1>5. \A g \in [D -> R], p \in D : F[<<g, p>>] \in R
  <2> SUFFICES ASSUME NEW g \in [D -> R], NEW p \in D
               PROVE  F[<<g, p>>] \in R
    OBVIOUS
  <2>1. p[1] \in R
    BY <1>0, <1>1
  <2>2. ~(p[1] > p[2]) => g[up(p)] \in R /\ g[down(p)] \in R
    BY <1>3
  <2> QED BY <1>4, <2>1, <2>2
<1>6. Descends(F, D, R, rank)
  <2> SUFFICES ASSUME NEW g \in [D -> R], NEW h \in [D -> R], NEW p \in D,
                      \A q \in D : rank[q] < rank[p] => g[q] = h[q]
               PROVE  F[<<g, p>>] = F[<<h, p>>]
    BY DEF Descends
  <2>1. ~(p[1] > p[2]) => g[up(p)] = h[up(p)] /\ g[down(p)] = h[down(p)]
    BY <1>3
  <2> QED BY <1>4, <2>1
<1>7. R # {}
  OBVIOUS
<1> HIDE DEF F, R, rank, D
<1>8. PICK f \in [D -> R] : \A p \in D : f[p] = F[<<f, p>>]
  <2>1. Recursive(F, D, R, rank)
    BY <1>2, <1>5, <1>6, <1>7 DEF Recursive
  <2> QED BY <2>1, RecursionExists
<1>9. f = [p \in D |->
             IF p[1] > p[2] THEN p[1] ELSE IF less(p) THEN f[up(p)] ELSE f[down(p)]]
  BY <1>4, <1>8
<1> DEFINE v == Halved(table, x)
<1>10. v = [p \in D |->
              IF p[1] > p[2] THEN p[1] ELSE IF less(p) THEN v[up(p)] ELSE v[down(p)]]
  <2>1. D = (0 .. Len(table)) \X (-1 .. Len(table) - 1)
    BY <1>0 DEF D, Ranges
  <2> QED BY <1>9, <2>1, Zenon DEF Halved, up, down, less, Middle
<1> HIDE DEF v
<1>11. v[at] = IF at[1] > at[2] THEN at[1] ELSE IF less(at) THEN v[up(at)] ELSE v[down(at)]
  BY <1>10 DEF D
<1> QED BY <1>11 DEF v, up, down, less

(* A point of the search: what is before the range is less than x, and     *)
(* what is behind it is not.                                               *)
Closes(table, n, x, at) ==
    /\ at[1] <= at[2] + 1
    /\ \A i \in 1 .. n : i <= at[1] => table[i] < x
    /\ \A i \in 1 .. n : i >= at[2] + 2 => table[i] >= x

Splits(table, n, x, k) ==
    k \in 0 .. n /\ \A i \in 1 .. n : IF i <= k THEN table[i] < x ELSE table[i] >= x

(* Each step of the search keeps it so.                                    *)
LEMMA ClosesKept ==
    ASSUME NEW table, NEW n, Sorted(table, n), NEW x \in Nat, NEW at \in Ranges(n),
           Closes(table, n, x, at), at[1] <= at[2]
    PROVE  IF table[Middle(at) + 1] < x THEN Closes(table, n, x, <<Middle(at) + 1, at[2]>>)
           ELSE Closes(table, n, x, <<at[1], Middle(at) - 1>>)
<1> DEFINE a == at[1]
           b == at[2]
           m == Middle(at)
<1>1. /\ n \in Nat /\ a \in Int /\ b \in Int /\ a <= b
      /\ \A i \in 1 .. n : table[i] \in Nat
      /\ \A i, j \in 1 .. n : i <= j => table[i] <= table[j]
  BY DEF Sorted, Ranges
<1>2. m \in Int /\ m + 1 \in 1 .. n /\ a <= m /\ m <= b
  <2>1. m \in 0 .. n - 1 /\ m + 1 \in 1 .. n /\ a <= m /\ m <= b
    BY <1>1, MiddleFacts DEF a, b, m
  <2> QED BY <1>1, <2>1
<1>3. /\ \A i \in 1 .. n : i <= a => table[i] < x
      /\ \A i \in 1 .. n : i >= b + 2 => table[i] >= x
  BY DEF Closes
<1> HIDE DEF a, b, m
<1>4. CASE table[m + 1] < x
  <2>1. ASSUME NEW i \in 1 .. n, i <= m + 1
        PROVE  table[i] < x
    <3>1. table[i] <= table[m + 1] /\ table[i] \in Nat /\ table[m + 1] \in Nat
      BY <1>1, <1>2, <2>1
    <3> QED BY <1>4, <3>1
  <2>2. m + 1 <= b + 1
    BY <1>1, <1>2
  <2> QED BY <1>3, <1>4, <2>1, <2>2 DEF Closes, a, b, m
<1>5. CASE ~(table[m + 1] < x)
  <2>1. ASSUME NEW i \in 1 .. n, i >= m - 1 + 2
        PROVE  table[i] >= x
    <3>1. m + 1 <= i
      BY <1>2, <2>1
    <3>2. table[m + 1] <= table[i] /\ table[i] \in Nat /\ table[m + 1] \in Nat
      BY <1>1, <1>2, <3>1
    <3> QED BY <1>5, <3>2
  <2>2. a <= m - 1 + 1
    BY <1>1, <1>2
  <2> QED BY <1>3, <1>5, <2>1, <2>2 DEF Closes, a, b, m
<1> QED BY <1>4, <1>5 DEF m

(* So that it ends where the numbers that are not less begin.              *)
LEMMA HalvedFinds ==
    ASSUME NEW table, NEW n, Sorted(table, n), NEW x \in Nat
    PROVE  \A at \in Ranges(n) :
              Closes(table, n, x, at) => Splits(table, n, x, Halved(table, x)[at])
<1> DEFINE D == Ranges(n)
           rank == [p \in D |-> IF p[1] > p[2] THEN 0 ELSE p[2] - p[1] + 1]
           h == Halved(table, x)
           T == {p \in D : Closes(table, n, x, p) => Splits(table, n, x, h[p])}
<1>1. n \in Nat /\ \A p \in D : p[1] \in 0 .. n /\ p[2] \in -1 .. n - 1
  BY DEF Ranges, Sorted
<1>2. rank \in [D -> Nat]
  <2>1. \A p \in D : (IF p[1] > p[2] THEN 0 ELSE p[2] - p[1] + 1) \in Nat
    BY <1>1
  <2> QED BY <2>1
<1>3. ASSUME NEW p \in D, \A q \in D : rank[q] < rank[p] => q \in T
      PROVE  p \in T
  <2> SUFFICES ASSUME Closes(table, n, x, p)
               PROVE  Splits(table, n, x, h[p])
    OBVIOUS
  <2> DEFINE m == Middle(p)
  <2>1. h[p] = IF p[1] > p[2] THEN p[1]
               ELSE IF table[m + 1] < x THEN h[<<m + 1, p[2]>>] ELSE h[<<p[1], m - 1>>]
    BY HalvedFacts
  <2>2. p[1] \in Int /\ p[2] \in Int /\ p[1] \in 0 .. n
    BY <1>1
  <2> HIDE DEF h
  <2>3. CASE p[1] > p[2]
    <3>1. p[1] = p[2] + 1
      BY <2>2, <2>3 DEF Closes
    <3>2. \A i \in 1 .. n : i <= p[1] \/ i >= p[2] + 2
      BY <1>1, <2>2, <3>1
    <3>3. Splits(table, n, x, p[1])
      BY <2>2, <3>2 DEF Closes, Splits
    <3> QED BY <2>1, <2>3, <3>3
  <2>4. CASE ~(p[1] > p[2])
    <3>1. p[1] <= p[2]
      BY <2>2, <2>4
    <3>2. /\ m \in 0 .. n - 1 /\ p[1] <= m /\ m <= p[2]
          /\ <<m + 1, p[2]>> \in D /\ <<p[1], m - 1>> \in D
      BY <1>1, <3>1, MiddleFacts
    <3>3. IF table[m + 1] < x THEN Closes(table, n, x, <<m + 1, p[2]>>)
          ELSE Closes(table, n, x, <<p[1], m - 1>>)
      BY <3>1, ClosesKept
    <3>4. /\ rank[p] = p[2] - p[1] + 1
          /\ rank[<<m + 1, p[2]>>] = IF m + 1 > p[2] THEN 0 ELSE p[2] - (m + 1) + 1
          /\ rank[<<p[1], m - 1>>] = IF p[1] > m - 1 THEN 0 ELSE (m - 1) - p[1] + 1
      BY <2>4, <3>2
    <3> HIDE DEF m, rank, T
    <3>5. rank[<<m + 1, p[2]>>] < rank[p] /\ rank[<<p[1], m - 1>>] < rank[p]
      BY <1>1, <2>2, <3>1, <3>2, <3>4
    <3>6. <<m + 1, p[2]>> \in T /\ <<p[1], m - 1>> \in T
      BY <1>3, <3>2, <3>5
    <3> QED BY <2>1, <2>4, <3>3, <3>6 DEF T
  <2> QED BY <2>3, <2>4
<1> HIDE DEF T, rank, D
<1>4. \A p \in D : p \in T
  BY ONLY <1>2, <1>3, RankInduction
<1> QED BY <1>4 DEF T, D, h

(* The index that Search gives.                                            *)
LEMMA SearchFinds ==
    ASSUME NEW table, NEW n, Sorted(table, n), NEW x \in Nat
    PROVE  /\ Search(table, x) \in 1 .. n + 1
           /\ \A i \in 1 .. n : IF i < Search(table, x) THEN table[i] < x ELSE table[i] >= x
<1> DEFINE at == <<0, n - 1>>
           k == Halved(table, x)[at]
<1>1. n \in Nat /\ Len(table) = n
  BY DEF Sorted
<1>2. at \in Ranges(n)
  BY <1>1 DEF Ranges
<1>3. Closes(table, n, x, at)
  BY <1>1 DEF Closes
<1>4. Splits(table, n, x, k)
  BY <1>2, <1>3, HalvedFinds
<1>5. Search(table, x) = Halved(table, x)[<<0, Len(table) - 1>>] + 1
  BY Zenon DEF Search, Halved
<1>6. Search(table, x) = k + 1
  BY <1>1, <1>5
<1> HIDE DEF k
<1>7. /\ k \in 0 .. n
      /\ \A i \in 1 .. n : IF i <= k THEN table[i] < x ELSE table[i] >= x
  BY <1>4 DEF Splits
<1>8. \A i \in 1 .. n : i <= k <=> i < k + 1
  BY <1>1, <1>7
<1> QED BY <1>1, <1>6, <1>7, <1>8

(* What both searches make of it.                                          *)
FindsEqual(table, x) ==
    LET i     == Search(table, x)
        known == {j \in DOMAIN table : table[j] = x}
    IN  IF i <= Len(table) /\ table[i] = x THEN i = Min(known) /\ known # {} ELSE known = {}

FindsLarge(table, x) ==
    LET i     == Search(table, x)
        large == {j \in DOMAIN table : table[j] >= x}
    IN  IF i > Len(table) THEN large = {} ELSE large # {} /\ i = Min(large)

(* What the search finds in a sorted table.                                *)
LEMMA SearchFirst ==
    ASSUME NEW table, NEW n, Sorted(table, n), NEW x \in Nat
    PROVE  FindsEqual(table, x) /\ FindsLarge(table, x)
<1> DEFINE i == Search(table, x)
           known == {j \in DOMAIN table : table[j] = x}
           large == {j \in DOMAIN table : table[j] >= x}
<1>1. /\ n \in Nat /\ Len(table) = n /\ DOMAIN table = 1 .. n
      /\ \A j \in 1 .. n : table[j] \in Nat
      /\ \A j, k \in 1 .. n : j <= k => table[j] <= table[k]
  BY DEF Sorted
<1>2. /\ i \in 1 .. n + 1
      /\ \A j \in 1 .. n : IF j < i THEN table[j] < x ELSE table[j] >= x
  BY SearchFinds
<1> HIDE DEF i
<1>3. ASSUME NEW j \in 1 .. n
      PROVE  /\ j \in large <=> i <= j
             /\ j \in known => i <= j /\ table[i] = x
  <2>1. j < i <=> ~(i <= j)
    BY <1>1, <1>2
  <2>2. table[j] < x <=> ~(table[j] >= x)
    BY <1>1
  <2>3. j \in large <=> i <= j
    BY <1>1, <1>2, <2>1, <2>2
  <2>4. ASSUME j \in known PROVE i <= j /\ table[i] = x
    <3>1. table[j] = x /\ x >= x
      BY <2>4
    <3>2. i <= j
      BY <1>1, <2>3, <3>1
    <3>3. i \in 1 .. n
      BY <1>1, <1>2, <3>2
    <3>4. ~(i < i)
      BY <1>2
    <3>5. table[i] >= x /\ table[i] <= table[j] /\ table[i] \in Nat
      BY <1>1, <1>2, <3>2, <3>3, <3>4
    <3> QED BY <3>1, <3>2, <3>5
  <2> QED BY <2>3, <2>4
<1>4. CASE i > n
  <2>1. \A j \in 1 .. n : ~(i <= j)
    BY <1>1, <1>2, <1>4
  <2>2. large = {} /\ known = {}
    BY <1>1, <1>3, <2>1
  <2>3. ~(i <= n)
    BY <1>1, <1>2, <1>4
  <2> QED BY <1>1, <1>4, <2>2, <2>3 DEF i, FindsEqual, FindsLarge
<1>5. CASE ~(i > n)
  <2>1. i \in 1 .. n /\ i <= n /\ i <= i
    BY <1>1, <1>2, <1>5
  <2>2. i \in large /\ \A j \in large : i <= j
    BY <1>1, <1>3, <2>1
  <2> HIDE DEF large, known
  <2>3. i = Min(large)
    <3>1. large \subseteq Nat
      BY <1>1 DEF large
    <3> QED BY <2>2, <3>1, MinIs
  <2>4. CASE table[i] = x
    <3>1. i \in known /\ known \subseteq Nat /\ \A j \in known : i <= j
      BY <1>1, <1>3, <2>1, <2>4 DEF known
    <3>2. i = Min(known)
      BY <2>1, <3>1, MinIs
    <3> QED BY <1>1, <1>5, <2>1, <2>2, <2>3, <2>4, <3>1, <3>2
         DEF i, known, large, FindsEqual, FindsLarge
  <2>5. CASE table[i] # x
    <3>1. known = {}
      BY <1>1, <1>3, <2>5 DEF known
    <3> QED BY <1>1, <1>5, <2>1, <2>2, <2>3, <2>5, <3>1 DEF i, known, large, FindsEqual, FindsLarge
  <2> QED BY <2>4, <2>5
<1> QED BY <1>4, <1>5

(* The tables are sorted.                                                  *)
LEMMA TablesSorted ==
    Sorted(lws_http_status, Len(lws_http_status)) /\ Sorted(lws_table_sizes, Len(lws_table_sizes))
<1>1. ASSUME NEW n \in Nat, NEW table, table \in [1 .. n -> Nat], Len(table) = n,
             \A i \in 1 .. n : i # 1 => table[i - 1] <= table[i]
      PROVE  Sorted(table, n)
  <2> DEFINE D == 1 .. n
             rank == [j \in D |-> j]
             T == {j \in D : \A i \in 1 .. n : i <= j => table[i] <= table[j]}
  <2>1. rank \in [D -> Nat]
    OBVIOUS
  <2>2. ASSUME NEW j \in D, \A k \in D : rank[k] < rank[j] => k \in T
        PROVE  j \in T
    <3> SUFFICES ASSUME NEW i \in 1 .. n, i <= j
                 PROVE  table[i] <= table[j]
      OBVIOUS
    <3>1. CASE i = j
      BY <1>1, <3>1
    <3>2. CASE i # j
      <4>1. j - 1 \in 1 .. n /\ j - 1 < j /\ j # 1 /\ i <= j - 1
        BY <3>2
      <4>2. j - 1 \in T
        BY <2>2, <4>1
      <4>3. table[i] <= table[j - 1] /\ table[j - 1] <= table[j]
        BY <1>1, <4>1, <4>2
      <4>4. table[i] \in Nat /\ table[j - 1] \in Nat /\ table[j] \in Nat
        BY <1>1, <4>1
      <4> QED BY <4>3, <4>4
    <3> QED BY <3>1, <3>2
  <2> HIDE DEF D, rank, T
  <2>3. \A j \in D : j \in T
    BY ONLY <2>1, <2>2, RankInduction
  <2> QED BY <1>1, <2>3 DEF T, D, Sorted
<1>2. /\ Len(lws_http_status) = 49 /\ lws_http_status \in [1 .. 49 -> Nat]
      /\ \A i \in 1 .. 49 : i # 1 => lws_http_status[i - 1] <= lws_http_status[i]
  BY DEF lws_http_status
<1>3. /\ Len(lws_table_sizes) = 31 /\ lws_table_sizes \in [1 .. 31 -> Nat]
      /\ \A i \in 1 .. 31 : i # 1 => lws_table_sizes[i - 1] <= lws_table_sizes[i]
  BY DEF lws_table_sizes
<1> QED BY <1>1, <1>2, <1>3, ZenonT(60)

(* A status, and a size, are found.                                        *)
LEMMA LookupsAreRight == number \in Nat => LookupsRight
<1> SUFFICES ASSUME number \in Nat
             PROVE  StatusRight /\ SizeRight
  BY DEF LookupsRight
<1>1. StatusRight
  <2> DEFINE t == lws_http_status
             i == Search(t, number)
             known == {j \in DOMAIN t : t[j] = number}
  <2>1. FindHttpStatus(number) = IF i <= Len(t) /\ t[i] = number THEN i ELSE 0
    BY DEF FindHttpStatus
  <2>2. Sorted(t, Len(t))
    BY TablesSorted
  <2> HIDE DEF t
  <2>3. IF i <= Len(t) /\ t[i] = number THEN i = Min(known) /\ known # {} ELSE known = {}
    <3>1. FindsEqual(t, number)
      BY <2>2, SearchFirst
    <3> QED BY <3>1 DEF FindsEqual
  <2> HIDE DEF i, known
  <2>4. FindHttpStatus(number) = IF known = {} THEN 0 ELSE Min(known)
    BY <2>1, <2>3
  <2> QED BY <2>4 DEF StatusRight, t, known
<1>2. SizeRight
  <2> DEFINE t == lws_table_sizes
             i == Search(t, number)
             large == {j \in DOMAIN t : t[j] >= number}
  <2>1. TableSize(number) = IF i > Len(t) THEN -1 ELSE t[i]
    BY DEF TableSize
  <2>2. Sorted(t, Len(t))
    BY TablesSorted
  <2> HIDE DEF t
  <2>3. IF i > Len(t) THEN large = {} ELSE large # {} /\ i = Min(large)
    <3>1. FindsLarge(t, number)
      BY <2>2, SearchFirst
    <3> QED BY <3>1 DEF FindsLarge
  <2> HIDE DEF i, large
  <2>4. TableSize(number) = IF large = {} THEN -1 ELSE t[Min(large)]
    BY <2>1, <2>3
  <2> QED BY <2>4 DEF SizeRight, t, large
<1> QED BY <1>1, <1>2

(* lws_find_http_status and lws_table_size find what they are to find, for *)
(* every number: a known status by its present name, the least size of a   *)
(* table that is large enough.                                             *)
THEOREM LookupsAlwaysRight == Spec => []LookupsRight
<1>1. InputsInv => LookupsRight
  BY LookupsAreRight DEF InputsInv
<1> QED BY <1>1, InputsTyped, PTL

-------------------------------------------------------------------------------
(* Cookies.                                                                *)

(* The elements of a value behind another one.                             *)
IsBehind(u, v, w) ==
    /\ Len(u) = Len(v) + 2 + Len(w)
    /\ \A i \in 1 .. Len(v) : u[i] = v[i]
    /\ u[Len(v) + 1] = Comma
    /\ u[Len(v) + 2] = Blank
    /\ \A i \in 1 .. Len(w) : u[Len(v) + 2 + i] = w[i]

(* What a value appended behind the ones before it looks like.             *)
LEMMA BehindFacts ==
    ASSUME NEW S, Comma \in S, Blank \in S, NEW v \in Seq(S), NEW w \in Seq(S)
    PROVE  IsBehind(Behind(v, w), v, w)
<1> DEFINE a == Len(v)
           b == Len(w)
<1>0. a \in Nat /\ b \in Nat
  BY LenProperties
<1>1. PICK c \in Seq(S) : c = <<Comma, Blank>> /\ Len(c) = 2 /\ c[1] = Comma /\ c[2] = Blank
  <2>1. /\ <<Comma, Blank>> \in Seq(S) /\ Len(<<Comma, Blank>>) = 2
        /\ <<Comma, Blank>>[1] = Comma /\ <<Comma, Blank>>[2] = Blank
    OBVIOUS
  <2> QED BY ONLY <2>1
<1> DEFINE u == v \o c
<1>2. Behind(v, w) = u \o w
  BY <1>1 DEF Behind
<1>3. /\ u \in Seq(S) /\ Len(u) = a + 2
      /\ \A i \in 1 .. a + 2 : u[i] = IF i <= a THEN v[i] ELSE c[i - a]
  <2>1. /\ u \in Seq(S) /\ Len(u) = Len(v) + Len(c)
        /\ \A i \in 1 .. Len(v) + Len(c) :
              u[i] = IF i <= Len(v) THEN v[i] ELSE c[i - Len(v)]
    BY ConcatProperties
  <2> HIDE DEF u
  <2> QED BY <1>1, <2>1
<1> HIDE DEF u, a, b
<1>4. /\ Len(u \o w) = a + 2 + b
      /\ \A i \in 1 .. a + 2 + b : (u \o w)[i] = IF i <= a + 2 THEN u[i] ELSE w[i - (a + 2)]
  <2>1. /\ Len(u \o w) = Len(u) + Len(w)
        /\ \A i \in 1 .. Len(u) + Len(w) :
              (u \o w)[i] = IF i <= Len(u) THEN u[i] ELSE w[i - Len(u)]
    BY <1>3, ConcatProperties
  <2> QED BY <1>3, <2>1 DEF b
<1> DEFINE q == u \o w
<1> HIDE DEF q
<1>5. \A i \in 1 .. a + 2 + b : q[i] = IF i <= a + 2 THEN u[i] ELSE w[i - (a + 2)]
  BY <1>4 DEF q
<1>6. ASSUME NEW i \in 1 .. a
      PROVE  q[i] = v[i]
  <2>1. i \in 1 .. a + 2 + b /\ i <= a + 2 /\ i \in 1 .. a + 2 /\ i <= a
    BY <1>0
  <2> QED BY <1>3, <1>5, <2>1
<1>7. q[a + 1] = Comma /\ q[a + 2] = Blank
  <2>1. /\ a + 1 \in 1 .. a + 2 + b /\ a + 1 <= a + 2 /\ a + 1 \in 1 .. a + 2
        /\ ~(a + 1 <= a) /\ (a + 1) - a = 1
        /\ a + 2 \in 1 .. a + 2 + b /\ a + 2 <= a + 2 /\ a + 2 \in 1 .. a + 2
        /\ ~(a + 2 <= a) /\ (a + 2) - a = 2
    BY <1>0
  <2>2. q[a + 1] = u[a + 1] /\ q[a + 2] = u[a + 2]
    BY <1>5, <2>1
  <2>3. u[a + 1] = c[(a + 1) - a] /\ u[a + 2] = c[(a + 2) - a]
    BY <1>3, <2>1
  <2> QED BY <1>1, <2>1, <2>2, <2>3
<1>8. ASSUME NEW i \in 1 .. b
      PROVE  q[a + 2 + i] = w[i]
  <2>1. a + 2 + i \in 1 .. a + 2 + b /\ ~(a + 2 + i <= a + 2) /\ (a + 2 + i) - (a + 2) = i
    BY <1>0
  <2> QED BY <1>5, <2>1
<1> QED BY <1>2, <1>4, <1>6, <1>7, <1>8 DEF q, a, b, IsBehind

(* Where the values are in what they make, L telling where they end: the   *)
(* m-th one being the last.                                                *)
StartOf(L, k) == IF k = 1 THEN 1 ELSE L[k - 1] + 3

HeldAt(s, values, L, k) ==
    /\ L[k] = StartOf(L, k) + Len(values[k]) - 1
    /\ L[k] <= Len(s)
    /\ \A i \in 1 .. Len(values[k]) : s[StartOf(L, k) + i - 1] = values[k][i]

Separated(s, L, k) == L[k] + 2 <= Len(s) /\ s[L[k] + 1] = Comma /\ s[L[k] + 2] = Blank

LaidOut(s, values, L, m) ==
    /\ Len(s) = L[m]
    /\ \A k \in 1 .. m : HeldAt(s, values, L, k)
    /\ \A k \in 1 .. m : k # m => Separated(s, L, k)

(* Where each value is in what they are joined to.                         *)
LEMMA Layout ==
    ASSUME NEW S, Comma \in S, Blank \in S, NEW values \in Seq(Seq(S)), values # <<>>
    PROVE  \E L \in [1 .. Len(values) -> Nat] : LaidOut(Joined(values), values, L, Len(values))
<1> DEFINE n == Len(values)
           f == Flats(Parts(values))
           L == [k \in 1 .. n |-> Len(f[k])]
<1>1. /\ n \in Nat \ {0} /\ Joined(values) = f[n] /\ f[1] = values[1]
      /\ \A i \in 1 .. n : f[i] \in Seq(S)
      /\ \A i \in 1 .. n : i # 1 => f[i] = Behind(f[i - 1], values[i])
  BY JoinedFacts
<1>2. \A i \in 1 .. n : values[i] \in Seq(S) /\ Len(values[i]) \in Nat
  BY ElementOfSeq, LenProperties
<1> HIDE DEF n, f
<1>3. L \in [1 .. n -> Nat] /\ \A i \in 1 .. n : L[i] = Len(f[i]) /\ L[i] \in Nat
  BY <1>1, LenProperties
<1> HIDE DEF L
<1>4. ASSUME NEW k \in 1 .. n, k # 1
      PROVE  /\ k - 1 \in 1 .. n
             /\ L[k] = L[k - 1] + 2 + Len(values[k])
             /\ \A i \in 1 .. L[k - 1] : f[k][i] = f[k - 1][i]
             /\ f[k][L[k - 1] + 1] = Comma
             /\ f[k][L[k - 1] + 2] = Blank
             /\ \A i \in 1 .. Len(values[k]) : f[k][L[k - 1] + 2 + i] = values[k][i]
  <2>1. k - 1 \in 1 .. n
    BY <1>1, <1>4
  <2>2. /\ f[k - 1] \in Seq(S) /\ values[k] \in Seq(S)
        /\ Len(f[k - 1]) = L[k - 1] /\ L[k - 1] \in Nat /\ Len(values[k]) \in Nat
        /\ L[k] = Len(f[k]) /\ f[k] = Behind(f[k - 1], values[k])
    BY <1>1, <1>2, <1>3, <1>4, <2>1
  <2>3. IsBehind(f[k], f[k - 1], values[k])
    BY <2>2, BehindFacts
  <2> QED BY <2>1, <2>2, <2>3 DEF IsBehind
<1> DEFINE D == 1 .. n
           rank == [m \in D |-> m]
           T == {m \in D : LaidOut(f[m], values, L, m)}
<1>5. rank \in [D -> Nat]
  BY <1>1
<1>6. ASSUME NEW m \in D, \A k \in D : rank[k] < rank[m] => k \in T
      PROVE  m \in T
  <2>1. CASE m = 1
    <3>1. /\ L[1] = Len(f[1]) /\ L[1] = Len(values[1]) /\ L[1] \in Nat
          /\ f[1] = values[1] /\ StartOf(L, 1) = 1
      BY <1>1, <1>3, <2>1 DEF StartOf
    <3>2. \A i \in 1 .. Len(values[1]) : 1 + i - 1 = i
      BY <3>1
    <3>3. HeldAt(f[1], values, L, 1)
      BY <3>1, <3>2 DEF HeldAt
    <3>4. \A k \in 1 .. 1 : k = 1
      OBVIOUS
    <3> QED BY <2>1, <3>1, <3>3, <3>4 DEF LaidOut
  <2>2. CASE m # 1
    <3> DEFINE o == m - 1
               s == f[m]
               r == f[o]
    <3>1. o \in D /\ o < m /\ m \in Nat /\ \A k \in 1 .. m : k # m => k \in 1 .. o
      BY <1>1, <2>2
    <3>2. LaidOut(r, values, L, o)
      <4>1. o \in T
        BY <1>6, <3>1
      <4> QED BY <4>1
    <3>3. /\ L[m] = L[o] + 2 + Len(values[m]) /\ L[o] \in Nat /\ Len(values[m]) \in Nat
          /\ Len(s) = L[m] /\ Len(r) = L[o]
          /\ \A i \in 1 .. L[o] : s[i] = r[i]
          /\ s[L[o] + 1] = Comma /\ s[L[o] + 2] = Blank
          /\ \A i \in 1 .. Len(values[m]) : s[L[o] + 2 + i] = values[m][i]
      BY <1>2, <1>3, <1>4, <2>2, <3>1
    <3> HIDE DEF s, r, o
    <3>8. /\ L[m] = L[o] + 2 + Len(values[m]) /\ L[o] \in Nat /\ Len(values[m]) \in Nat
          /\ L[m] \in Nat /\ Len(s) = L[m] /\ Len(r) = L[o]
      BY <1>3, <3>3
    <3>4. HeldAt(s, values, L, m)
      <4>1. StartOf(L, m) = L[o] + 3
        BY <2>2 DEF StartOf, o
      <4>2. \A i \in 1 .. Len(values[m]) : (L[o] + 3) + i - 1 = L[o] + 2 + i
        BY <3>8
      <4>3. L[m] = (L[o] + 3) + Len(values[m]) - 1 /\ L[m] <= L[m]
        <5>1. \A x, y, z \in Nat : z = x + 2 + y => z = (x + 3) + y - 1 /\ z <= z
          OBVIOUS
        <5> QED BY <3>8, <5>1
      <4> QED BY <3>3, <4>1, <4>2, <4>3 DEF HeldAt
    <3>5. ASSUME NEW k \in 1 .. o
          PROVE  HeldAt(s, values, L, k)
      <4>1. HeldAt(r, values, L, k)
        BY <3>2 DEF LaidOut
      <4>2. k \in 1 .. n /\ L[k] \in Nat /\ Len(values[k]) \in Nat
        <5>1. k \in 1 .. n
          BY <1>1, <3>1
        <5> QED BY <1>2, <1>3, <5>1
      <4>3. StartOf(L, k) \in Nat \ {0}
        <5>1. CASE k = 1
          BY <5>1 DEF StartOf
        <5>2. CASE k # 1
          <6>1. k - 1 \in 1 .. n
            BY <1>1, <4>2, <5>2
          <6>2. L[k - 1] \in Nat
            BY <1>3, <6>1
          <6> QED BY <5>2, <6>2 DEF StartOf
        <5> QED BY <5>1, <5>2
      <4> DEFINE b == StartOf(L, k)
      <4> HIDE DEF b
      <4>4. /\ L[k] = b + Len(values[k]) - 1 /\ L[k] <= L[o] /\ b \in Nat \ {0}
            /\ \A i \in 1 .. Len(values[k]) : r[b + i - 1] = values[k][i]
        BY <3>3, <4>1, <4>3 DEF HeldAt, b
      <4>5. \A i \in 1 .. Len(values[k]) : b + i - 1 \in 1 .. L[o]
        <5>1. L[k] = b + Len(values[k]) - 1 /\ L[k] <= L[o] /\ b \in Nat \ {0}
          BY <4>4
        <5>2. \A w, y, z \in Nat, x \in Nat \ {0} :
                w = x + y - 1 /\ w <= z => \A i \in 1 .. y : x + i - 1 \in 1 .. z
          OBVIOUS
        <5>3. L[k] \in Nat /\ Len(values[k]) \in Nat /\ L[o] \in Nat
          BY <3>8, <4>2
        <5> QED BY ONLY <5>1, <5>2, <5>3
      <4>6. \A i \in 1 .. Len(values[k]) : s[b + i - 1] = values[k][i]
        BY <3>3, <4>4, <4>5
      <4>7. L[k] <= Len(s)
        <5>1. L[k] <= L[o]
          BY <4>4
        <5> QED BY ONLY <3>8, <4>2, <5>1, SMTT(40)
      <4> QED BY <4>4, <4>6, <4>7 DEF HeldAt, b
    <3>6. ASSUME NEW k \in 1 .. o
          PROVE  Separated(s, L, k)
      <4>1. CASE k = o
        <5>1. L[o] + 2 <= Len(s)
          <6>1. \A x, y, z \in Nat : z = x + 2 + y => x + 2 <= z
            OBVIOUS
          <6> QED BY ONLY <3>8, <6>1
        <5> QED BY <3>3, <4>1, <5>1 DEF Separated
      <4>2. CASE k # o
        <5>1. Separated(r, L, k)
          BY <3>2, <4>2 DEF LaidOut
        <5>2. L[k] \in Nat
          <6>1. k \in 1 .. n
            BY <1>1, <3>1
          <6> QED BY <1>3, <6>1
        <5>3. L[k] + 1 \in 1 .. L[o] /\ L[k] + 2 \in 1 .. L[o] /\ L[k] + 2 <= Len(s)
          <6>1. L[k] + 2 <= L[o]
            BY <3>8, <5>1 DEF Separated
          <6>2. \A x, y \in Nat : x + 2 <= y => x + 1 \in 1 .. y /\ x + 2 \in 1 .. y
            OBVIOUS
          <6>3. L[k] + 1 \in 1 .. L[o] /\ L[k] + 2 \in 1 .. L[o]
            BY <3>8, <5>2, <6>1, <6>2
          <6>4. \A x, y, u, v \in Nat : v = y + 2 + u /\ x + 2 <= y => x + 2 <= v
            OBVIOUS
          <6>5. L[k] + 2 <= L[m]
            BY <3>8, <5>2, <6>1, <6>4
          <6> QED BY <3>8, <6>3, <6>5
        <5> QED BY <3>3, <5>1, <5>3 DEF Separated
      <4> QED BY <4>1, <4>2
    <3>7. LaidOut(s, values, L, m)
      BY <3>1, <3>3, <3>4, <3>5, <3>6 DEF LaidOut
    <3> QED BY <3>7 DEF s
  <2> QED BY <2>1, <2>2
<1> HIDE DEF D, rank, T
<1>7. \A m \in D : m \in T
  BY ONLY <1>5, <1>6, RankInduction
<1>8. n \in D
  BY <1>1 DEF D
<1>9. LaidOut(f[n], values, L, n)
  BY <1>7, <1>8 DEF T
<1> QED BY <1>1, <1>3, <1>9 DEF n

(* The first symbol that is no blank, or past the end.                     *)
LEMMA BlanksFacts ==
    ASSUME NEW s, NEW n \in Nat, Len(s) = n, NEW i \in 1 .. n + 1
    PROVE  /\ BlanksFrom(s, i) \in i .. n + 1
           /\ BlanksFrom(s, i) \in 1 .. n + 1
           /\ BlanksFrom(s, i) = n + 1 \/ s[BlanksFrom(s, i)] # Blank
           /\ \A j \in i .. n + 1 : j < BlanksFrom(s, i) => s[j] = Blank
<1> DEFINE B == {j \in i .. n + 1 : j = n + 1 \/ s[j] # Blank}
           k == Min(B)
<1>1. BlanksFrom(s, i) = k
  BY DEF BlanksFrom
<1>2. B \subseteq Nat /\ n + 1 \in B /\ \A j \in B : j \in i .. n + 1
  OBVIOUS
<1> HIDE DEF B
<1>3. k \in B /\ \A j \in B : k <= j
  BY <1>2, MinFacts
<1> HIDE DEF k
<1>4. k \in i .. n + 1 /\ (k = n + 1 \/ s[k] # Blank)
  BY <1>3 DEF B
<1>5. ASSUME NEW j \in i .. n + 1, j < k
      PROVE  s[j] = Blank
  <2>1. j \notin B
    <3>1. j \in Int /\ k \in Int /\ ~(k <= j)
      BY <1>4, <1>5
    <3> QED BY <1>3, <3>1
  <2> QED BY <2>1 DEF B
<1>6. k \in 1 .. n + 1
  BY <1>4
<1> QED BY <1>1, <1>4, <1>5, <1>6

(* k is where the blanks from i on end.                                    *)
AreBlanks(s, n, i, k) == /\ n \in Nat /\ Len(s) = n /\ i \in 1 .. n + 1 /\ k \in i .. n + 1
                         /\ k = n + 1 \/ s[k] # Blank
                         /\ \A j \in i .. n + 1 : j < k => s[j] = Blank

(* The place after the blanks is the one after which there are none.       *)
LEMMA BlanksAre ==
    ASSUME NEW s, NEW n, NEW i, NEW k, AreBlanks(s, n, i, k)
    PROVE  BlanksFrom(s, i) = k
<1>0. /\ n \in Nat /\ Len(s) = n /\ i \in 1 .. n + 1 /\ k \in i .. n + 1
      /\ k = n + 1 \/ s[k] # Blank
      /\ \A j \in i .. n + 1 : j < k => s[j] = Blank
  BY DEF AreBlanks
<1> DEFINE B == {j \in i .. n + 1 : j = n + 1 \/ s[j] # Blank}
<1>1. BlanksFrom(s, i) = Min(B)
  BY <1>0 DEF BlanksFrom
<1>2. k \in B /\ B \subseteq Nat
  BY <1>0
<1>3. \A j \in B : k <= j
  <2> SUFFICES ASSUME NEW j \in B, ~(k <= j)
               PROVE  FALSE
    OBVIOUS
  <2>1. j \in i .. n + 1 /\ j < k /\ j # n + 1
    BY <1>0
  <2> QED BY <1>0, <2>1
<1> HIDE DEF B
<1> QED BY <1>1, <1>2, <1>3, MinIs

(* Whether a date may follow the symbol at a position, if it may follow    *)
(* what is before it or not.                                               *)
DateAfter(s, i, expires) ==
    LET next == BlanksFrom(s, i + 1) IN
    CASE s[i] = Semicolon -> next <= Len(s) /\ s[next] = Expires
      [] s[i] = Comma     -> FALSE
      [] OTHER            -> expires

Ending(s, at) == at[1] > Len(s) \/ (s[at[1]] = Comma /\ ~at[2])

Onward(s, at) == <<at[1] + 1, DateAfter(s, at[1], at[2])>>

Places(s) == (1 .. Len(s) + 1) \X BOOLEAN

(* The recursive function of CookieEnd.                                    *)
CookieEnds(s) ==
    CHOOSE end : end =
        [at \in (1 .. Len(s) + 1) \X BOOLEAN |->
            LET i       == at[1]
                expires == at[2]
                next    == BlanksFrom(s, i + 1)
            IN  IF i > Len(s) \/ (s[i] = Comma /\ ~expires) THEN i
                ELSE end[<<i + 1, CASE s[i] = Semicolon -> next <= Len(s) /\ s[next] = Expires
                                    [] s[i] = Comma     -> FALSE
                                    [] OTHER            -> expires>>]]

(* A step of the scan goes one symbol on.                                  *)
LEMMA OnwardFacts ==
    ASSUME NEW s, Len(s) \in Nat, NEW at \in Places(s), ~Ending(s, at)
    PROVE  /\ Onward(s, at) \in Places(s) /\ Onward(s, at)[1] = at[1] + 1
           /\ at[1] \in 1 .. Len(s)
<1>1. at[1] \in 1 .. Len(s) + 1 /\ at[2] \in BOOLEAN /\ ~(at[1] > Len(s))
  BY DEF Places, Ending
<1>2. at[1] \in 1 .. Len(s) /\ at[1] + 1 \in 1 .. Len(s) + 1
  BY <1>1
<1>3. DateAfter(s, at[1], at[2]) \in BOOLEAN
  BY <1>1 DEF DateAfter
<1> QED BY <1>2, <1>3 DEF Onward, Places

(* There is such a function.                                               *)
LEMMA CookieEndsFacts ==
    ASSUME NEW s, Len(s) \in Nat
    PROVE  \A at \in Places(s) :
              CookieEnds(s)[at] = IF Ending(s, at) THEN at[1] ELSE CookieEnds(s)[Onward(s, at)]
<1> DEFINE n == Len(s)
           D == Places(s)
           R == Nat
           rank == [p \in D |-> n + 1 - p[1]]
           F == [p \in [D -> R] \X D |->
                    IF Ending(s, p[2]) THEN p[2][1] ELSE p[1][Onward(s, p[2])]]
<1>1. \A p \in D : p[1] \in 1 .. n + 1
  BY DEF Places
<1>2. rank \in [D -> Nat]
  <2>1. \A p \in D : n + 1 - p[1] \in Nat
    BY <1>1
  <2> QED BY <2>1
<1>3. ASSUME NEW p \in D, ~Ending(s, p)
      PROVE  Onward(s, p) \in D /\ rank[Onward(s, p)] < rank[p]
  <2>1. Onward(s, p) \in D /\ Onward(s, p)[1] = p[1] + 1 /\ p[1] \in 1 .. n
    BY <1>3, OnwardFacts
  <2>2. rank[Onward(s, p)] = n + 1 - (p[1] + 1) /\ rank[p] = n + 1 - p[1]
    BY <2>1
  <2> QED BY <2>1, <2>2
<1>4. \A g \in [D -> R], p \in D :
         F[<<g, p>>] = IF Ending(s, p) THEN p[1] ELSE g[Onward(s, p)]
  OBVIOUS
<1>5. \A g \in [D -> R], p \in D : F[<<g, p>>] \in R
  <2> SUFFICES ASSUME NEW g \in [D -> R], NEW p \in D
               PROVE  F[<<g, p>>] \in R
    OBVIOUS
  <2>1. p[1] \in R
    BY <1>1
  <2>2. ~Ending(s, p) => g[Onward(s, p)] \in R
    BY <1>3
  <2> QED BY <1>4, <2>1, <2>2
<1>6. Descends(F, D, R, rank)
  <2> SUFFICES ASSUME NEW g \in [D -> R], NEW h \in [D -> R], NEW p \in D,
                      \A q \in D : rank[q] < rank[p] => g[q] = h[q]
               PROVE  F[<<g, p>>] = F[<<h, p>>]
    BY DEF Descends
  <2>1. ~Ending(s, p) => g[Onward(s, p)] = h[Onward(s, p)]
    BY <1>3
  <2> QED BY <1>4, <2>1
<1>7. R # {}
  OBVIOUS
<1> HIDE DEF F, R, rank, D
<1>8. PICK f \in [D -> R] : \A p \in D : f[p] = F[<<f, p>>]
  <2>1. Recursive(F, D, R, rank)
    BY <1>2, <1>5, <1>6, <1>7 DEF Recursive
  <2> QED BY <2>1, RecursionExists
<1>9. f = [p \in D |-> IF Ending(s, p) THEN p[1] ELSE f[Onward(s, p)]]
  BY <1>4, <1>8
<1> DEFINE v == CookieEnds(s)
<1>10. v = [p \in D |-> IF Ending(s, p) THEN p[1] ELSE v[Onward(s, p)]]
  BY <1>9, Zenon DEF CookieEnds, D, Places, Ending, Onward, DateAfter
<1> HIDE DEF v
<1>11. \A at \in D : v[at] = IF Ending(s, at) THEN at[1] ELSE v[Onward(s, at)]
  BY <1>10
<1> QED BY <1>11 DEF v, D

(* It ends behind where it begins, or there.                               *)
LEMMA CookieEndTyped ==
    ASSUME NEW s, NEW n \in Nat, Len(s) = n, NEW start \in 1 .. n + 1
    PROVE  /\ CookieEnd(s, start) = CookieEnds(s)[<<start, FALSE>>]
           /\ CookieEnd(s, start) \in start .. n + 1
<1> DEFINE D == Places(s)
           rank == [p \in D |-> n + 1 - p[1]]
           e == CookieEnds(s)
           T == {p \in D : e[p] \in p[1] .. n + 1}
<1>1. \A p \in D : p[1] \in 1 .. n + 1
  BY DEF Places
<1>2. rank \in [D -> Nat]
  <2>1. \A p \in D : n + 1 - p[1] \in Nat
    BY <1>1
  <2> QED BY <2>1
<1>3. ASSUME NEW p \in D, \A q \in D : rank[q] < rank[p] => q \in T
      PROVE  p \in T
  <2>1. e[p] = IF Ending(s, p) THEN p[1] ELSE e[Onward(s, p)]
    BY CookieEndsFacts
  <2> HIDE DEF e
  <2>2. CASE Ending(s, p)
    BY <1>1, <2>1, <2>2
  <2>3. CASE ~Ending(s, p)
    <3>1. Onward(s, p) \in D /\ Onward(s, p)[1] = p[1] + 1 /\ p[1] \in 1 .. n
      BY <2>3, OnwardFacts
    <3>2. rank[Onward(s, p)] < rank[p]
      BY <3>1
    <3>3. e[Onward(s, p)] \in p[1] + 1 .. n + 1
      BY <1>3, <3>1, <3>2
    <3>4. e[Onward(s, p)] \in p[1] .. n + 1
      BY <3>1, <3>3
    <3> QED BY <2>1, <2>3, <3>4
  <2> QED BY <2>2, <2>3
<1> HIDE DEF T, rank, D
<1>4. \A p \in D : p \in T
  BY ONLY <1>2, <1>3, RankInduction
<1>5. <<start, FALSE>> \in D
  BY DEF D, Places
<1>6. CookieEnd(s, start) = e[<<start, FALSE>>]
  BY Zenon DEF CookieEnd, CookieEnds
<1>7. e[<<start, FALSE>>] \in start .. n + 1
  BY <1>4, <1>5 DEF T
<1> QED BY <1>6, <1>7

(* A cookie in a text of n symbols, from a position on; at its end, or     *)
(* before a comma.                                                         *)
Embedded(s, n, a, c, m) ==
    /\ n \in Nat /\ Len(s) = n /\ m \in Nat /\ Len(c) = m
    /\ a \in 1 .. n + 1 /\ a + m \in 1 .. n + 1
    /\ \A i \in 1 .. m : s[a + i - 1] = c[i]
    /\ a + m = n + 1 \/ s[a + m] = Comma

(* What is behind blanks in the cookie is so in the text.                  *)
LEMMA BlanksShift ==
    ASSUME NEW s, NEW n, NEW a, NEW c, NEW m, Embedded(s, n, a, c, m), NEW j \in 1 .. m
    PROVE  /\ BlanksFrom(c, j + 1) \in j + 1 .. m + 1
           /\ BlanksFrom(s, a + j) = a - 1 + BlanksFrom(c, j + 1)
<1>1. /\ n \in Nat /\ Len(s) = n /\ m \in Nat /\ Len(c) = m /\ a \in Nat \ {0} /\ j \in Nat
      /\ a + m \in 1 .. n + 1
  BY DEF Embedded
<1>2. \A i \in 1 .. m : s[a + i - 1] = c[i]
  BY DEF Embedded
<1>3. a + m = n + 1 \/ s[a + m] = Comma
  BY DEF Embedded
<1> DEFINE h == BlanksFrom(c, j + 1)
           k == a - 1 + h
<1>4. j + 1 \in 1 .. m + 1
  BY <1>1
<1>5. /\ h \in j + 1 .. m + 1
      /\ h = m + 1 \/ c[h] # Blank
      /\ \A i \in j + 1 .. m + 1 : i < h => c[i] = Blank
  BY <1>1, <1>4, BlanksFacts
<1> HIDE DEF h
<1>6. h \in Nat /\ j + 1 <= h /\ h <= m + 1
  BY <1>1, <1>5
<1>7. /\ a + j \in 1 .. n + 1 /\ k \in a + j .. n + 1 /\ k \in Nat
      /\ k = a + h - 1 /\ (h = m + 1 => k = a + m) /\ (h # m + 1 => h \in 1 .. m)
  BY <1>1, <1>6
<1> HIDE DEF k
<1>8. k = n + 1 \/ s[k] # Blank
  <2>1. CASE h = m + 1
    <3>1. Comma # Blank
      BY DEF Comma, Blank
    <3> QED BY <1>3, <1>7, <2>1, <3>1
  <2>2. CASE h # m + 1
    <3>1. s[k] = c[h]
      BY <1>2, <1>7, <2>2
    <3> QED BY <1>5, <2>2, <3>1
  <2> QED BY <2>1, <2>2
<1>9. ASSUME NEW l \in a + j .. n + 1, l < k
      PROVE  s[l] = Blank
  <2> DEFINE i == l - a + 1
  <2>1. /\ i \in j + 1 .. m + 1 /\ i < h /\ i \in 1 .. m /\ a + i - 1 = l
    BY <1>1, <1>6, <1>7, <1>9
  <2> HIDE DEF i
  <2>2. s[l] = c[i]
    BY <1>2, <2>1
  <2> QED BY <1>5, <2>1, <2>2
<1>10. BlanksFrom(s, a + j) = k
  <2>1. AreBlanks(s, n, a + j, k)
    BY <1>1, <1>7, <1>8, <1>9 DEF AreBlanks
  <2> QED BY <2>1, BlanksAre
<1> QED BY <1>5, <1>10 DEF h, k

(* Whether a date may follow, symbol by symbol.                            *)
LEMMA DateStep ==
    ASSUME NEW c, NEW m \in Nat, Len(c) = m, NEW i \in 1 .. m
    PROVE  DateBefore(c, i + 1) <=> DateAfter(c, i, DateBefore(c, i))
<1> DEFINE Attribute(j) == /\ c[j] = Semicolon
                           /\ LET k == BlanksFrom(c, j + 1) IN k <= Len(c) /\ c[k] = Expires
           Between(j, l) == \A o \in j + 1 .. l - 1 : c[o] \notin {Semicolon, Comma}
<1>1. \A l : DateBefore(c, l) <=> \E j \in 1 .. l - 1 : Attribute(j) /\ Between(j, l)
  BY DEF DateBefore
<1>2. Comma # Semicolon
  BY DEF Comma, Semicolon
<1>3. \A j : Attribute(j) => c[j] = Semicolon
  OBVIOUS
<1>4. c[i] = Semicolon => (DateAfter(c, i, DateBefore(c, i)) <=> Attribute(i))
  BY <1>2 DEF DateAfter
<1>5. c[i] = Comma => ~DateAfter(c, i, DateBefore(c, i))
  BY <1>2 DEF DateAfter
<1>6. c[i] \notin {Semicolon, Comma} =>
         (DateAfter(c, i, DateBefore(c, i)) <=> DateBefore(c, i))
  BY DEF DateAfter
<1> HIDE DEF Attribute
<1>7. Between(i, i + 1)
  OBVIOUS
<1>8. ASSUME NEW j \in 1 .. i, j # i
      PROVE  /\ j \in 1 .. i - 1
             /\ Between(j, i + 1) <=> Between(j, i) /\ c[i] \notin {Semicolon, Comma}
  <2>1. j \in 1 .. i - 1 /\ i \in j + 1 .. (i + 1) - 1
    BY <1>8
  <2>2. \A o : o \in j + 1 .. (i + 1) - 1 <=> o \in j + 1 .. i - 1 \/ o = i
    BY <1>8
  <2> QED BY <2>1, <2>2
<1>9. \A j : /\ j \in 1 .. (i + 1) - 1 <=> j \in 1 .. i
             /\ j \in 1 .. i - 1 => j \in 1 .. i /\ j # i
  OBVIOUS
<1>10. i \in 1 .. i
  OBVIOUS
<1> HIDE DEF Between
<1>11. DateBefore(c, i + 1) <=> \E j \in 1 .. i : Attribute(j) /\ Between(j, i + 1)
  BY <1>1, <1>9
<1>12. DateBefore(c, i) <=> \E j \in 1 .. i - 1 : Attribute(j) /\ Between(j, i)
  BY <1>1
<1>13. CASE c[i] = Semicolon
  <2>1. DateBefore(c, i + 1) <=> Attribute(i)
    BY <1>7, <1>8, <1>10, <1>11, <1>13
  <2> QED BY <1>4, <1>13, <2>1
<1>14. CASE c[i] = Comma
  <2>1. ~DateBefore(c, i + 1)
    BY <1>2, <1>3, <1>8, <1>11, <1>14
  <2> QED BY <1>5, <1>14, <2>1
<1>15. CASE c[i] \notin {Semicolon, Comma}
  <2>1. DateBefore(c, i + 1) <=> DateBefore(c, i)
    BY <1>3, <1>8, <1>9, <1>11, <1>12, <1>15
  <2> QED BY <1>6, <1>15, <2>1
<1> QED BY <1>13, <1>14, <1>15

(* A cookie that keeps its dates whole.                                    *)
Kept(c, m) == /\ \A i \in 1 .. m : c[i] = Comma => DateBefore(c, i)
              /\ ~DateBefore(c, m + 1)

(* It is found to end where it does.                                       *)
LEMMA CookieEndIs ==
    ASSUME NEW s, NEW n, NEW a, NEW c, NEW m, Embedded(s, n, a, c, m), Kept(c, m)
    PROVE  CookieEnd(s, a) = a + m
<1> DEFINE Open(i) == IF DateBefore(c, i) THEN TRUE ELSE FALSE
           at(i) == <<a + i - 1, Open(i)>>
           e == CookieEnds(s)
           D == 1 .. m + 1
           rank == [i \in D |-> m + 1 - i]
           T == {i \in D : e[at(i)] = a + m}
<1>1. /\ n \in Nat /\ Len(s) = n /\ m \in Nat /\ Len(c) = m /\ a \in 1 .. n + 1
      /\ a + m \in 1 .. n + 1
  BY DEF Embedded
<1>2. \A i \in 1 .. m : s[a + i - 1] = c[i]
  BY DEF Embedded
<1>3. a + m = n + 1 \/ s[a + m] = Comma
  BY DEF Embedded
<1>4. \A i \in D : at(i) \in Places(s)
  <2> SUFFICES ASSUME NEW i \in D
               PROVE  at(i) \in Places(s)
    OBVIOUS
  <2>1. a + i - 1 \in 1 .. n + 1
    BY <1>1
  <2>2. Open(i) \in BOOLEAN
    OBVIOUS
  <2> HIDE DEF Open
  <2> QED BY <1>1, <2>1, <2>2 DEF Places
<1>5. ASSUME NEW i \in 1 .. m
      PROVE  DateAfter(s, a + i - 1, Open(i)) = Open(i + 1)
  <2>1. s[a + i - 1] = c[i]
    BY <1>2
  <2>2. a + i - 1 + 1 = a + i
    BY <1>1
  <2> DEFINE h == BlanksFrom(c, i + 1)
             k == BlanksFrom(s, a + i)
  <2>3. h \in i + 1 .. m + 1 /\ k = a - 1 + h
    BY BlanksShift
  <2>4. (k <= Len(s) /\ s[k] = Expires) <=> (h <= Len(c) /\ c[h] = Expires)
    <3> HIDE DEF h, k
    <3>1. CASE h <= m
      <4>1. h \in 1 .. m /\ k = a + h - 1 /\ k <= n
        BY <1>1, <2>3, <3>1
      <4>2. s[k] = c[h]
        BY <1>2, <4>1
      <4> QED BY <1>1, <4>1, <4>2, <3>1
    <3>2. CASE ~(h <= m)
      <4>1. k = a + m /\ k \in Nat
        BY <1>1, <2>3, <3>2
      <4>2. ~(k <= n /\ s[k] = Expires)
        <5>1. Comma # Expires
          BY DEF Comma, Expires
        <5>2. k = n + 1 => ~(k <= n)
          BY <1>1
        <5> QED BY <1>3, <4>1, <5>1, <5>2
      <4> QED BY <1>1, <3>2, <4>2
    <3> QED BY <3>1, <3>2
  <2>5. DateBefore(c, i + 1) <=> DateAfter(c, i, DateBefore(c, i))
    BY <1>1, DateStep
  <2>6. Comma # Semicolon
    BY DEF Comma, Semicolon
  <2>7. DateAfter(s, a + i - 1, Open(i)) =
           CASE c[i] = Semicolon -> (k <= Len(s) /\ s[k] = Expires)
             [] c[i] = Comma     -> FALSE
             [] OTHER            -> Open(i)
    BY <2>1, <2>2 DEF DateAfter
  <2>8. CASE c[i] = Semicolon
    <3>1. DateBefore(c, i + 1) <=> h <= Len(c) /\ c[h] = Expires
      BY <2>5, <2>6, <2>8 DEF DateAfter
    <3>2. DateAfter(s, a + i - 1, Open(i)) = (k <= Len(s) /\ s[k] = Expires)
      BY <2>6, <2>7, <2>8
    <3> QED BY <2>4, <3>1, <3>2
  <2>9. CASE c[i] = Comma
    <3>1. ~DateBefore(c, i + 1)
      BY <2>5, <2>6, <2>9 DEF DateAfter
    <3>2. DateAfter(s, a + i - 1, Open(i)) = FALSE
      BY <2>6, <2>7, <2>9
    <3> QED BY <3>1, <3>2
  <2>10. CASE c[i] \notin {Semicolon, Comma}
    <3>1. DateBefore(c, i + 1) <=> DateBefore(c, i)
      BY <2>5, <2>10 DEF DateAfter
    <3>2. DateAfter(s, a + i - 1, Open(i)) = Open(i)
      BY <2>7, <2>10
    <3> QED BY <3>1, <3>2
  <2> QED BY <2>8, <2>9, <2>10
<1>6. /\ ~Open(m + 1)
      /\ \A i \in 1 .. m : c[i] = Comma => Open(i)
  BY DEF Kept
<1>7. \A p \in Places(s) : e[p] = IF Ending(s, p) THEN p[1] ELSE e[Onward(s, p)]
  BY <1>1, CookieEndsFacts
<1> HIDE DEF e, Open
<1>8. rank \in [D -> Nat]
  <2>1. \A i \in D : m + 1 - i \in Nat
    BY <1>1
  <2> QED BY <2>1
<1>9. ASSUME NEW i \in D, \A j \in D : rank[j] < rank[i] => j \in T
      PROVE  i \in T
  <2>1. CASE i = m + 1
    <3>1. at(i)[1] = a + m /\ at(i)[2] = Open(m + 1)
      BY <1>1, <2>1
    <3>2. Ending(s, at(i))
      <4>1. a + m = n + 1 => a + m > n
        BY <1>1
      <4> QED BY <1>1, <1>3, <1>6, <3>1, <4>1 DEF Ending
    <3>3. e[at(i)] = at(i)[1]
      BY <1>4, <1>7, <3>2
    <3> QED BY <3>1, <3>3
  <2>2. CASE i # m + 1
    <3>1. i \in 1 .. m /\ i + 1 \in D /\ (a + i - 1) + 1 = a + (i + 1) - 1
      BY <1>1, <2>2
    <3>2. at(i)[1] = a + i - 1 /\ at(i)[2] = Open(i)
      OBVIOUS
    <3>3. ~Ending(s, at(i))
      <4>1. ~(a + i - 1 > n)
        BY <1>1, <3>1
      <4>2. s[a + i - 1] = Comma => Open(i)
        BY <1>2, <1>6, <3>1
      <4> QED BY <1>1, <3>2, <4>1, <4>2 DEF Ending
    <3>4. Onward(s, at(i)) = at(i + 1)
      BY <1>5, <3>1, <3>2 DEF Onward
    <3>5. e[at(i)] = e[at(i + 1)]
      BY <1>4, <1>7, <3>3, <3>4
    <3>6. rank[i + 1] < rank[i]
      BY <1>1, <3>1
    <3>7. i + 1 \in T
      BY <1>9, <3>1, <3>6
    <3> QED BY <3>5, <3>7
  <2> QED BY <2>1, <2>2
<1> HIDE DEF D, rank, T, at
<1>10. \A i \in D : i \in T
  BY ONLY <1>8, <1>9, RankInduction
<1>11. e[at(1)] = a + m
  <2>1. 1 \in D
    BY <1>1 DEF D
  <2> QED BY <1>10, <2>1 DEF T
<1>12. at(1) = <<a, FALSE>>
  <2>1. ~DateBefore(c, 1)
    BY DEF DateBefore
  <2>2. a + 1 - 1 = a
    BY <1>1
  <2> QED BY <2>1, <2>2 DEF at, Open
<1>13. CookieEnd(s, a) = e[<<a, FALSE>>]
  BY <1>1, CookieEndTyped DEF e
<1> QED BY <1>11, <1>12, <1>13

(* The cookie from a position on, whether it is the last, and where the    *)
(* next one is.                                                            *)
Cut(s, a) == SubSeq(s, a, CookieEnd(s, a) - 1)

Final(s, a) == CookieEnd(s, a) > Len(s) \/ After(s, CookieEnd(s, a)) > Len(s)

Beyond(s, a) == After(s, CookieEnd(s, a))

(* The recursive function of Unfold.                                       *)
Unfolds(s) ==
    CHOOSE from : from =
        [start \in 1 .. Len(s) + 1 |->
            LET end    == CookieEnd(s, start)
                cookie == SubSeq(s, start, end - 1)
            IN  IF end > Len(s) \/ After(s, end) > Len(s) THEN <<cookie>>
                ELSE <<cookie>> \o from[After(s, end)]]

(* There is such a function.                                               *)
LEMMA UnfoldsFacts ==
    ASSUME NEW S, NEW s \in Seq(S)
    PROVE  \A a \in 1 .. Len(s) + 1 :
              Unfolds(s)[a] = IF Final(s, a) THEN <<Cut(s, a)>>
                              ELSE <<Cut(s, a)>> \o Unfolds(s)[Beyond(s, a)]
<1> DEFINE n == Len(s)
           D == 1 .. n + 1
           R == Seq(Seq(S))
           one(a) == <<Cut(s, a)>>
           rank == [a \in D |-> n + 1 - a]
           F == [p \in [D -> R] \X D |->
                    IF Final(s, p[2]) THEN one(p[2]) ELSE one(p[2]) \o p[1][Beyond(s, p[2])]]
<1>1. n \in Nat /\ \A i \in 1 .. n : s[i] \in S
  BY LenProperties, ElementOfSeq
<1>2. rank \in [D -> Nat]
  <2>1. \A a \in D : n + 1 - a \in Nat
    BY <1>1
  <2> QED BY <2>1
<1>3. ASSUME NEW a \in D
      PROVE  one(a) \in R
  <2> DEFINE e == CookieEnd(s, a)
  <2>1. e \in a .. n + 1
    BY <1>1, CookieEndTyped
  <2> HIDE DEF e
  <2>2. a \in Int /\ e - 1 \in Int /\ \A i \in a .. e - 1 : i \in 1 .. n
    BY <1>1, <2>1
  <2>3. \A i \in a .. e - 1 : s[i] \in S
    BY <1>1, <2>2
  <2>4. SubSeq(s, a, e - 1) \in Seq(S)
    BY <2>2, <2>3, SubSeqProperties
  <2>5. Cut(s, a) \in Seq(S)
    BY <2>4 DEF Cut, e
  <2> QED BY <2>5
<1>4. ASSUME NEW a \in D, ~Final(s, a)
      PROVE  Beyond(s, a) \in D /\ rank[Beyond(s, a)] < rank[a]
  <2> DEFINE e == CookieEnd(s, a)
             b == BlanksFrom(s, e + 1)
  <2>1. e \in a .. n + 1
    BY <1>1, CookieEndTyped
  <2>2. ~(e > n)
    BY <1>4 DEF Final
  <2> HIDE DEF e
  <2>3. e + 1 \in 1 .. n + 1
    BY <1>1, <2>1, <2>2
  <2>4. b \in e + 1 .. n + 1
    BY <1>1, <2>3, BlanksFacts
  <2>5. Beyond(s, a) = b
    BY DEF Beyond, After, b, e
  <2> HIDE DEF b
  <2>6. b \in D /\ a < b
    BY <1>1, <2>1, <2>3, <2>4
  <2> QED BY <1>1, <2>5, <2>6
<1> HIDE DEF one
<1>5. \A g \in [D -> R], a \in D :
         F[<<g, a>>] = IF Final(s, a) THEN one(a) ELSE one(a) \o g[Beyond(s, a)]
  OBVIOUS
<1>6. ASSUME NEW g \in [D -> R], NEW a \in D
      PROVE  F[<<g, a>>] \in R
  <2>1. one(a) \in R
    BY <1>3
  <2>2. ~Final(s, a) => g[Beyond(s, a)] \in R
    BY <1>4
  <2>3. \A v, w \in R : v \o w \in R
    BY ConcatProperties
  <2> HIDE DEF R, D
  <2> QED BY <1>5, <2>1, <2>2, <2>3
<1>7. Descends(F, D, R, rank)
  <2> SUFFICES ASSUME NEW g \in [D -> R], NEW h \in [D -> R], NEW a \in D,
                      \A q \in D : rank[q] < rank[a] => g[q] = h[q]
               PROVE  F[<<g, a>>] = F[<<h, a>>]
    BY DEF Descends
  <2>1. ~Final(s, a) => g[Beyond(s, a)] = h[Beyond(s, a)]
    BY <1>4
  <2> QED BY <1>5, <2>1
<1>8. R # {}
  BY EmptySeq
<1> HIDE DEF F, R, rank, D
<1>9. PICK f \in [D -> R] : \A a \in D : f[a] = F[<<f, a>>]
  <2>1. Recursive(F, D, R, rank)
    BY <1>2, <1>6, <1>7, <1>8 DEF Recursive
  <2> QED BY <2>1, RecursionExists
<1>10. f = [a \in D |-> IF Final(s, a) THEN one(a) ELSE one(a) \o f[Beyond(s, a)]]
  BY <1>5, <1>9
<1> DEFINE v == Unfolds(s)
<1>11. v = [a \in D |-> IF Final(s, a) THEN one(a) ELSE one(a) \o v[Beyond(s, a)]]
  BY <1>10, Zenon DEF Unfolds, D, one, Final, Beyond, Cut
<1> HIDE DEF v
<1>12. \A a \in D : v[a] = IF Final(s, a) THEN one(a) ELSE one(a) \o v[Beyond(s, a)]
  BY <1>11
<1> QED BY <1>12 DEF v, D, one

(* What the parts of a layout are.                                         *)
LEMMA Placed ==
    ASSUME NEW S, NEW s \in Seq(S), NEW m \in Nat, NEW values \in [1 .. m -> Seq(S)],
           NEW L \in [1 .. m -> Nat], LaidOut(s, values, L, m), NEW k \in 1 .. m
    PROVE  /\ Embedded(s, Len(s), StartOf(L, k), values[k], Len(values[k]))
           /\ StartOf(L, k) + Len(values[k]) = L[k] + 1
<1> DEFINE n == Len(s)
           a == StartOf(L, k)
           c == values[k]
           o == Len(c)
<1>1. n \in Nat /\ o \in Nat /\ L[k] \in Nat /\ n = L[m]
  BY LenProperties DEF LaidOut
<1>2. a \in Nat \ {0}
  <2>1. CASE k = 1
    BY <2>1 DEF StartOf
  <2>2. CASE k # 1
    <3>1. k - 1 \in 1 .. m
      BY <2>2
    <3>2. L[k - 1] \in Nat
      BY <3>1
    <3> QED BY <2>2, <3>2 DEF StartOf
  <2> QED BY <2>1, <2>2
<1>3. /\ L[k] = a + o - 1 /\ L[k] <= n /\ \A i \in 1 .. o : s[a + i - 1] = c[i]
  BY DEF LaidOut, HeldAt
<1>4. k = m \/ s[L[k] + 1] = Comma
  BY DEF LaidOut, Separated
<1> HIDE DEF n, a, c, o
<1>5. a + o = L[k] + 1 /\ a \in 1 .. n + 1 /\ a + o \in 1 .. n + 1
  BY <1>1, <1>2, <1>3
<1>6. a + o = n + 1 \/ s[a + o] = Comma
  BY <1>1, <1>4, <1>5
<1>7. Embedded(s, n, a, c, o)
  BY <1>1, <1>3, <1>5, <1>6 DEF Embedded, n, o
<1> QED BY <1>5, <1>7 DEF n, a, c, o

(* A cookie as it is to be.                                                *)
Proper(c) == c # <<>> /\ c[1] # Blank /\ Kept(c, Len(c))

(* Behind a cookie the next one is found.                                  *)
LEMMA NextPlaced ==
    ASSUME NEW S, NEW s \in Seq(S), NEW m \in Nat, NEW values \in [1 .. m -> Seq(S)],
           NEW L \in [1 .. m -> Nat], LaidOut(s, values, L, m), NEW k \in 1 .. m, k # m,
           Proper(values[k + 1])
    PROVE  /\ After(s, L[k] + 1) = StartOf(L, k + 1)
           /\ StartOf(L, k + 1) \in 1 .. Len(s)
<1> DEFINE n == Len(s)
           c == values[k + 1]
           o == Len(c)
           b == L[k] + 3
<1>1. k + 1 \in 1 .. m /\ k + 1 # 1 /\ (k + 1) - 1 = k
  OBVIOUS
<1>2. StartOf(L, k + 1) = b
  BY <1>1 DEF StartOf
<1>3. c \in Seq(S) /\ c # <<>> /\ c[1] # Blank
  BY <1>1 DEF Proper
<1>4. n \in Nat /\ L[k] \in Nat /\ o \in Nat /\ o # 0
  BY <1>3, LenProperties, EmptySeq
<1>5. /\ L[k + 1] = b + o - 1 /\ L[k + 1] <= n
      /\ \A i \in 1 .. o : s[b + i - 1] = c[i]
  <2>1. HeldAt(s, values, L, k + 1)
    BY <1>1 DEF LaidOut
  <2> QED BY <1>2, <2>1 DEF HeldAt
<1>6. s[L[k] + 2] = Blank
  BY DEF LaidOut, Separated
<1> HIDE DEF n, c, o
<1>7. b \in 1 .. n /\ L[k] + 2 \in 1 .. n + 1 /\ b \in L[k] + 2 .. n + 1 /\ 1 \in 1 .. o
      /\ b + 1 - 1 = b
  <2>1. \A x, y, z, w \in Nat :
           y # 0 /\ w = (x + 3) + y - 1 /\ w <= z =>
              /\ x + 3 \in 1 .. z /\ x + 2 \in 1 .. z + 1 /\ x + 3 \in x + 2 .. z + 1
              /\ 1 \in 1 .. y /\ (x + 3) + 1 - 1 = x + 3
    OBVIOUS
  <2>2. L[k + 1] \in Nat
    BY <1>1
  <2>3. L[k + 1] = (L[k] + 3) + o - 1 /\ L[k + 1] <= n
    BY <1>5
  <2> QED BY <1>4, <2>1, <2>2, <2>3
<1>8. s[b] # Blank
  BY <1>3, <1>5, <1>7
<1>9. ASSUME NEW j \in L[k] + 2 .. n + 1, j < b
      PROVE  s[j] = Blank
  <2>1. j = L[k] + 2
    BY <1>4, <1>9
  <2> QED BY <1>6, <2>1
<1> HIDE DEF b
<1>10. AreBlanks(s, n, L[k] + 2, b)
  BY <1>4, <1>7, <1>8, <1>9 DEF AreBlanks, n
<1>11. BlanksFrom(s, L[k] + 2) = b
  BY <1>10, BlanksAre
<1>12. (L[k] + 1) + 1 = L[k] + 2
  BY <1>4
<1>13. After(s, L[k] + 1) = b
  BY <1>11, <1>12 DEF After
<1> QED BY <1>2, <1>7, <1>13 DEF n

(* So that cookies that were joined are found again, one by one.           *)
LEMMA UnfoldsJoined ==
    ASSUME NEW S, Comma \in S, Blank \in S, NEW values \in Seq(Seq(S)), values # <<>>,
           \A k \in 1 .. Len(values) : Proper(values[k])
    PROVE  Unfold(Joined(values)) = values
<1> DEFINE m == Len(values)
           s == Joined(values)
           n == Len(s)
           u == Unfolds(s)
<1>1. m \in Nat /\ m # 0 /\ s \in Seq(S)
  <2>1. /\ Len(values) \in Nat \ {0} /\ s = Flats(Parts(values))[Len(values)]
        /\ \A i \in 1 .. Len(values) : Flats(Parts(values))[i] \in Seq(S)
    BY JoinedFacts
  <2> QED BY <2>1
<1>2. PICK L \in [1 .. m -> Nat] : LaidOut(s, values, L, m)
  BY Layout
<1>3. values \in [1 .. m -> Seq(S)] /\ \A k \in 1 .. m : values[k] \in Seq(S)
  BY LenProperties, ElementOfSeq
<1>4. n \in Nat
  BY <1>1, LenProperties
<1> HIDE DEF s
<1>5. \A a \in 1 .. n + 1 :
         u[a] = IF Final(s, a) THEN <<Cut(s, a)>> ELSE <<Cut(s, a)>> \o u[Beyond(s, a)]
  BY <1>1, UnfoldsFacts
<1> HIDE DEF m, n, u
<1>6. ASSUME NEW k \in 1 .. m
      PROVE  /\ StartOf(L, k) \in 1 .. n + 1
             /\ CookieEnd(s, StartOf(L, k)) = L[k] + 1
             /\ Cut(s, StartOf(L, k)) = values[k]
             /\ k = m => Final(s, StartOf(L, k))
             /\ k # m => /\ ~Final(s, StartOf(L, k))
                         /\ Beyond(s, StartOf(L, k)) = StartOf(L, k + 1)
  <2> DEFINE a == StartOf(L, k)
             c == values[k]
             o == Len(c)
  <2>1. Embedded(s, n, a, c, o) /\ a + o = L[k] + 1
    BY <1>1, <1>2, <1>3, Placed DEF n
  <2>2. /\ o \in Nat /\ L[k] \in Nat /\ a \in 1 .. n + 1 /\ c \in Seq(S)
        /\ a + o \in 1 .. n + 1 /\ \A i \in 1 .. o : s[a + i - 1] = c[i]
    BY <1>2, <1>3, <2>1 DEF Embedded
  <2>3. Kept(c, o)
    BY DEF Proper, m
  <2> HIDE DEF a, c, o
  <2>4. CookieEnd(s, a) = a + o
    BY <2>1, <2>3, CookieEndIs
  <2>5. Cut(s, a) = c
    <3>1. a \in Int /\ a + o - 1 \in Int /\ (a + o - 1) - a + 1 = o
      BY <2>2
    <3>2. \A i \in a .. a + o - 1 : i \in 1 .. n
      BY <1>4, <2>2
    <3>3. \A i \in a .. a + o - 1 : s[i] \in S
      BY <1>1, <3>2, ElementOfSeq DEF n
    <3> DEFINE t == SubSeq(s, a, a + o - 1)
    <3>4. /\ t \in Seq(S)
          /\ Len(t) = IF a <= a + o - 1 THEN (a + o - 1) - a + 1 ELSE 0
          /\ \A i \in 1 .. (a + o - 1) - a + 1 : t[i] = s[a + i - 1]
      BY <3>1, <3>3, SubSeqProperties
    <3> HIDE DEF t
    <3>5. Len(t) = o
      BY <2>2, <3>4
    <3>6. \A i \in 1 .. o : t[i] = c[i]
      BY <2>2, <3>1, <3>4
    <3>7. t = c
      BY <2>2, <3>4, <3>5, <3>6, SeqEqual DEF o
    <3>8. Cut(s, a) = t
      <4>1. Cut(s, a) = SubSeq(s, a, CookieEnd(s, a) - 1)
        BY DEF Cut
      <4>2. CookieEnd(s, a) = a + o
        BY <2>4
      <4>3. CookieEnd(s, a) - 1 = a + o - 1
        <5>1. a \in Nat /\ o \in Nat
          BY <1>4, <2>2
        <5> QED BY <4>2, <5>1
      <4>4. t = SubSeq(s, a, a + o - 1)
        BY DEF t
      <4> QED BY <4>1, <4>3, <4>4
    <3> QED BY <3>7, <3>8
  <2>6. ASSUME k = m
        PROVE  Final(s, a)
    <3>1. n = L[k]
      BY <1>2, <2>6 DEF LaidOut, n
    <3>2. a + o > n
      BY <2>1, <2>2, <3>1
    <3> QED BY <2>4, <3>2 DEF Final, n
  <2>7. ASSUME k # m
        PROVE  ~Final(s, a) /\ Beyond(s, a) = StartOf(L, k + 1)
    <3>1. k + 1 \in 1 .. m
      BY <1>1, <2>7
    <3>2. Proper(values[k + 1])
      BY <3>1 DEF m
    <3>3. After(s, L[k] + 1) = StartOf(L, k + 1) /\ StartOf(L, k + 1) \in 1 .. n
      BY <1>1, <1>2, <1>3, <2>7, <3>2, NextPlaced DEF n
    <3>4. L[k] + 2 <= n
      BY <1>2, <2>7 DEF LaidOut, Separated, n
    <3>5. ~(L[k] + 1 > n) /\ ~(StartOf(L, k + 1) > n)
      BY <1>4, <2>2, <3>3, <3>4, SMTT(40)
    <3> QED BY <2>1, <2>4, <3>3, <3>5 DEF Final, Beyond, n
  <2> QED BY <2>1, <2>2, <2>4, <2>5, <2>6, <2>7 DEF a, c
<1> DEFINE D == 1 .. m
           rank == [k \in D |-> m - k]
           T == {k \in D : u[StartOf(L, k)] = SubSeq(values, k, m)}
<1>7. rank \in [D -> Nat]
  <2>1. \A k \in D : m - k \in Nat
    BY <1>1
  <2> QED BY <2>1
<1>8. ASSUME NEW k \in D, \A j \in D : rank[j] < rank[k] => j \in T
      PROVE  k \in T
  <2>1. SubSeq(values, k, m) = <<values[k]>> \o SubSeq(values, k + 1, m)
    <3>1. k \in 1 .. Len(values) /\ Len(values) \in k .. Len(values)
      BY <1>1 DEF m
    <3> QED BY <3>1, SubSeqRecursiveFirst DEF m
  <2>2. u[StartOf(L, k)] = IF Final(s, StartOf(L, k)) THEN <<values[k]>>
                           ELSE <<values[k]>> \o u[Beyond(s, StartOf(L, k))]
    BY <1>5, <1>6
  <2>3. CASE k = m
    <3>1. SubSeq(values, k + 1, m) = <<>>
      BY <1>1, <2>3, SubSeqEmpty
    <3>2. <<values[k]>> \in Seq(Seq(S))
      BY <1>3
    <3>3. <<values[k]>> \o <<>> = <<values[k]>>
      BY <3>2, ConcatEmptySeq
    <3> QED BY <1>6, <2>1, <2>2, <2>3, <3>1, <3>3
  <2>4. CASE k # m
    <3>1. k + 1 \in D /\ rank[k + 1] < rank[k]
      BY <1>1, <2>4
    <3>2. k + 1 \in T
      BY <1>8, <3>1
    <3> QED BY <1>6, <2>1, <2>2, <2>4, <3>2
  <2> QED BY <2>3, <2>4
<1> HIDE DEF D, rank, T
<1>9. \A k \in D : k \in T
  BY ONLY <1>7, <1>8, RankInduction
<1>10. u[1] = SubSeq(values, 1, m)
  <2>1. 1 \in D /\ StartOf(L, 1) = 1
    BY <1>1 DEF D, StartOf
  <2> QED BY <1>9, <2>1 DEF T
<1>11. SubSeq(values, 1, m) = values
  BY SubSeqFull DEF m
<1>12. Unfold(s) = u[1]
  BY Zenon DEF Unfold, Unfolds, u
<1> QED BY <1>10, <1>11, <1>12 DEF s

(* The symbols of cookies.                                                 *)
CookieSymbols == {Comma, Blank} \cup UNION {ToSet(c) : c \in Cookies}

(* The cookies an answer is given, from the inputs alone.                  *)
LEMMA CookiesAreRight == cookies \in Seq(Cookies) => CookiesRight
<1> SUFFICES ASSUME cookies \in Seq(Cookies), cookies # <<>>
             PROVE  Unfold(Joined(cookies)) = cookies
  BY DEF CookiesRight
<1> DEFINE S == CookieSymbols
<1>1. ASSUME NEW c \in Cookies
      PROVE  c \in Seq(S) /\ Proper(c)
  <2>1. c \in Seq(ToSet(c))
    BY SequencesAssumption DEF SequencesAssumption
  <2>2. ToSet(c) \subseteq S
    BY DEF CookieSymbols
  <2>3. c \in Seq(S)
    BY <2>1, <2>2, SeqMonotonic
  <2>4. /\ c # <<>> /\ c[1] # Blank
        /\ \A i \in DOMAIN c : c[i] = Comma => DateBefore(c, i)
        /\ ~DateBefore(c, Len(c) + 1)
    BY CookiesAssumption DEF CookiesAssumption
  <2>5. DOMAIN c = 1 .. Len(c)
    BY <2>1, LenProperties
  <2>6. Proper(c)
    BY <2>4, <2>5 DEF Proper, Kept
  <2> QED BY <2>3, <2>6
<1>2. Comma \in S /\ Blank \in S
  BY DEF CookieSymbols
<1> HIDE DEF S
<1>3. Cookies \subseteq Seq(S)
  BY <1>1
<1>4. cookies \in Seq(Seq(S))
  BY <1>3, SeqMonotonic
<1>5. \A k \in 1 .. Len(cookies) : Proper(cookies[k])
  <2>1. \A k \in 1 .. Len(cookies) : cookies[k] \in Cookies
    BY ElementOfSeq
  <2> QED BY <1>1, <2>1
<1> QED BY <1>2, <1>4, <1>5, UnfoldsJoined

(* lws_set_response_header sends one by one the cookies that a chunk       *)
(* joined by commas, each as it was, whatever the cookies.                 *)
THEOREM CookiesAlwaysRight == Spec => []CookiesRight
<1>1. InputsInv => CookiesRight
  BY CookiesAreRight DEF InputsInv
<1> QED BY <1>1, InputsTyped, PTL
===============================================================================
