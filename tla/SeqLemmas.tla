------------------------------- MODULE SeqLemmas -------------------------------
(***************************************************************************)
(* Facts about sequences without repetition, as NGINX's linked queues are: *)
(* ngx_queue_insert_head, ngx_queue_insert_tail and ngx_queue_remove; and  *)
(* about sets of numbers.                                                  *)
(***************************************************************************)
EXTENDS Integers, SequencesExt, TLAPS, FiniteSetTheorems, SequenceTheorems,
        WellFoundedInduction

(* Every nonempty set of natural numbers has a least element.              *)
LEMMA LeastNatural ==
    ASSUME NEW T, T \subseteq Nat, T # {}
    PROVE  \E x \in T : \A y \in T : x <= y
<1> DEFINE R == {p \in Nat \X Nat : p[1] < p[2]}
<1>1. IsWellFoundedOn(R, Nat)
  BY NatLessThanWellFounded, Zenon DEF OpToRel
<1>2. PICK x \in T : \A y \in T : ~(<<y, x>> \in R)
  <2> HIDE DEF R
  <2> QED BY <1>1, WFMin
<1>3. \A y \in T : ~(y < x)
  BY <1>2
<1> QED BY <1>3

(* What Max chooses.                                                      *)
LEMMA GreatestNatural ==
    ASSUME NEW n \in Nat, NEW T, T \subseteq 1 .. n, T # {}
    PROVE  Max(T) \in T /\ \A y \in T : y <= Max(T)
<1> DEFINE U == {k \in Nat : \A y \in T : y <= k}
<1>1. PICK x \in U : \A y \in U : x <= y
  <2>1. n \in U
    OBVIOUS
  <2> QED BY <2>1, LeastNatural
<1>2. x \in T
  <2>1. SUFFICES ASSUME x \notin T PROVE FALSE
    OBVIOUS
  <2>2. \A y \in T : y <= x - 1
    BY <1>1, <2>1
  <2>3. x - 1 \in Nat
    <3>1. PICK y \in T : y \in 1 .. n
      OBVIOUS
    <3>2. x \in Nat /\ y <= x - 1
      BY <2>2
    <3> QED BY <3>1, <3>2
  <2>4. x - 1 \in U
    BY <2>2, <2>3
  <2> QED BY <2>4, <1>1
<1>3. \E m \in T : \A y \in T : m >= y
  BY <1>1, <1>2
<1>4. Max(T) \in T /\ \A y \in T : Max(T) >= y
  BY <1>3, Zenon DEF Max
<1> QED BY <1>4

(* Prepending a new element (ngx_queue_insert_head).                       *)
LEMMA ConsInjective ==
    ASSUME NEW S, NEW q \in Seq(S), IsInjective(q), NEW e \in S, e \notin ToSet(q)
    PROVE  /\ <<e>> \o q \in Seq(S)
           /\ IsInjective(<<e>> \o q)
           /\ ToSet(<<e>> \o q) = ToSet(q) \cup {e}
<1> DEFINE t == <<e>> \o q
<1>1. /\ t \in Seq(S)
      /\ Len(t) = Len(q) + 1
      /\ Len(q) \in Nat
      /\ DOMAIN q = 1 .. Len(q)
      /\ DOMAIN t = 1 .. Len(q) + 1
      /\ t[1] = e
      /\ \A i \in 1 .. Len(q) : t[i + 1] = q[i]
  OBVIOUS
<1>2. \A i \in 2 .. Len(q) + 1 : i - 1 \in 1 .. Len(q) /\ t[i] = q[i - 1]
  BY <1>1
<1>3. \A i \in 1 .. Len(q) : q[i] # e
  BY <1>1 DEF ToSet
<1>4. IsInjective(t)
  BY <1>1, <1>2, <1>3 DEF IsInjective
<1>5. ToSet(t) = ToSet(q) \cup {e}
  <2> HIDE DEF t
  <2>1. \A i \in 1 .. Len(q) + 1 : t[i] \in ToSet(q) \cup {e}
    BY <1>1, <1>2 DEF ToSet
  <2>2. \A i \in 1 .. Len(q) : i + 1 \in 1 .. Len(q) + 1 /\ t[i + 1] = q[i]
    BY <1>1
  <2>3. 1 \in 1 .. Len(q) + 1
    BY <1>1
  <2> QED BY <1>1, <2>1, <2>2, <2>3, SMTT(40) DEF ToSet
<1> QED BY <1>1, <1>4, <1>5

(* Taking the first element away (ngx_queue_head, ngx_queue_remove).       *)
LEMMA TailInjective ==
    ASSUME NEW S, NEW q \in Seq(S), IsInjective(q), q # <<>>
    PROVE  /\ Head(q) \in S
           /\ Head(q) \in ToSet(q)
           /\ Tail(q) \in Seq(S)
           /\ Len(Tail(q)) = Len(q) - 1
           /\ IsInjective(Tail(q))
           /\ ToSet(Tail(q)) = ToSet(q) \ {Head(q)}
<1> DEFINE t == Tail(q)
<1>1. /\ t \in Seq(S)
      /\ Len(q) \in Nat \ {0}
      /\ Len(t) = Len(q) - 1
      /\ DOMAIN q = 1 .. Len(q)
      /\ DOMAIN t = 1 .. Len(q) - 1
      /\ \A i \in 1 .. Len(q) - 1 : t[i] = q[i + 1]
      /\ Head(q) = q[1]
  BY HeadTailProperties, EmptySeq
<1> HIDE DEF t
<1>2. \A i \in 1 .. Len(q) - 1 : i + 1 \in 1 .. Len(q)
  BY <1>1
<1>3. \A i, j \in 1 .. Len(q) : q[i] = q[j] => i = j
  BY <1>1 DEF IsInjective
<1>4. IsInjective(t)
  BY <1>1, <1>2, <1>3 DEF IsInjective
<1>5. \A i \in 1 .. Len(q) : i # 1 => i - 1 \in 1 .. Len(q) - 1 /\ q[i] = t[i - 1]
  BY <1>1
<1>6. ToSet(t) \subseteq ToSet(q) \ {Head(q)}
  BY <1>1, <1>2, <1>3 DEF ToSet
<1>7. ASSUME NEW x \in ToSet(q), x # Head(q)
      PROVE  x \in ToSet(t)
  <2>1. PICK i \in 1 .. Len(q) : x = q[i]
    BY <1>1 DEF ToSet
  <2>2. i # 1
    BY <2>1, <1>1, <1>7
  <2>3. i - 1 \in DOMAIN t /\ x = t[i - 1]
    BY <2>1, <2>2, <1>1, <1>5
  <2> QED BY <2>3 DEF ToSet
<1>8. Head(q) \in ToSet(q)
  BY <1>1 DEF ToSet
<1>9. Head(q) \in S
  BY HeadTailProperties
<1> QED BY <1>1, <1>4, <1>6, <1>7, <1>8, <1>9 DEF t

(* Taking an element out of the middle (ngx_queue_remove): the elements    *)
(* before it stay and those after it move up.                              *)
LEMMA RemoveAtSeq ==
    ASSUME NEW S, NEW q \in Seq(S), NEW i \in 1 .. Len(q)
    PROVE  /\ RemoveAt(q, i) \in Seq(S)
           /\ Len(RemoveAt(q, i)) = Len(q) - 1
           /\ \A j \in 1 .. Len(q) - 1 :
                 RemoveAt(q, i)[j] = IF j < i THEN q[j] ELSE q[j + 1]
<1> DEFINE a == SubSeq(q, 1, i - 1)
           b == SubSeq(q, i + 1, Len(q))
           t == RemoveAt(q, i)
<1> HIDE DEF a, b, t
<1>1. Len(q) \in Nat /\ DOMAIN q = 1 .. Len(q) /\ i \in Nat
  BY LenProperties
<1>2. \A j \in 1 .. Len(q) : q[j] \in S
  BY ElementOfSeq
<1>3. /\ a \in Seq(S)
      /\ Len(a) = i - 1
      /\ \A j \in 1 .. i - 1 : a[j] = q[j]
  <2>1. \A j \in 1 .. i - 1 : q[j] \in S
    BY <1>1, <1>2
  <2>2. /\ a \in Seq(S)
        /\ Len(a) = IF 1 <= i - 1 THEN i - 1 - 1 + 1 ELSE 0
        /\ \A j \in 1 .. i - 1 - 1 + 1 : a[j] = q[1 + j - 1]
    BY <2>1, <1>1, SubSeqProperties DEF a
  <2> QED BY <2>2, <1>1
<1>4. /\ b \in Seq(S)
      /\ Len(b) = Len(q) - i
      /\ \A j \in 1 .. Len(q) - i : b[j] = q[i + j]
  <2>1. \A j \in i + 1 .. Len(q) : q[j] \in S
    BY <1>1, <1>2
  <2>2. /\ b \in Seq(S)
        /\ Len(b) = IF i + 1 <= Len(q) THEN Len(q) - (i + 1) + 1 ELSE 0
        /\ \A j \in 1 .. Len(q) - (i + 1) + 1 : b[j] = q[i + 1 + j - 1]
    BY <2>1, <1>1, SubSeqProperties, SMTT(40) DEF b
  <2>3. Len(b) = Len(q) - i
    <3>1. CASE i + 1 <= Len(q)
      BY <3>1, <2>2, <1>1
    <3>2. CASE i = Len(q)
      BY <3>2, <2>2, <1>1
    <3>3. ASSUME NEW n \in Nat, i <= n
          PROVE  i + 1 <= n \/ i = n
      BY <1>1, <3>3
    <3>4. i <= Len(q)
      BY <1>1
    <3> QED BY <3>1, <3>2, <3>3, <3>4, <1>1
  <2>4. ASSUME NEW j \in 1 .. Len(q) - i
        PROVE  b[j] = q[i + j]
    <3>1. j \in 1 .. Len(q) - (i + 1) + 1 /\ i + 1 + j - 1 = i + j
      BY <1>1
    <3> QED BY <2>2, <3>1
  <2> QED BY <2>2, <2>3, <2>4
<1>5. /\ t \in Seq(S)
      /\ Len(t) = Len(q) - 1
      /\ \A j \in 1 .. Len(q) - 1 : t[j] = IF j < i THEN q[j] ELSE q[j + 1]
  <2>1. /\ t \in Seq(S)
        /\ Len(t) = Len(a) + Len(b)
        /\ \A j \in 1 .. Len(a) + Len(b) :
              t[j] = IF j <= Len(a) THEN a[j] ELSE b[j - Len(a)]
    BY <1>3, <1>4, ConcatProperties DEF t, a, b, RemoveAt
  <2>2. Len(t) = Len(q) - 1
    BY <2>1, <1>3, <1>4, <1>1
  <2>3. ASSUME NEW j \in 1 .. Len(q) - 1
        PROVE  t[j] = IF j < i THEN q[j] ELSE q[j + 1]
    <3>1. t[j] = IF j <= i - 1 THEN a[j] ELSE b[j - (i - 1)]
      <4>1. Len(a) + Len(b) = Len(q) - 1 /\ Len(a) = i - 1
        BY <1>3, <1>4, <1>1
      <4>2. j \in 1 .. Len(a) + Len(b)
        BY <4>1
      <4> QED BY ONLY <2>1, <4>1, <4>2
    <3>2. CASE j < i
      BY <3>1, <3>2, <1>3, <1>1
    <3>3. CASE ~(j < i)
      <4>1. j - (i - 1) \in 1 .. Len(q) - i /\ i + (j - (i - 1)) = j + 1
        BY <3>3, <1>1
      <4> QED BY <3>1, <3>3, <4>1, <1>4, <1>1
    <3> QED BY <3>2, <3>3
  <2> QED BY <2>1, <2>2, <2>3
<1> QED BY <1>5 DEF t

(* Out of a sequence without repetition exactly that element goes.         *)
LEMMA RemoveInjective ==
    ASSUME NEW S, NEW q \in Seq(S), IsInjective(q), NEW i \in 1 .. Len(q)
    PROVE  /\ RemoveAt(q, i) \in Seq(S)
           /\ IsInjective(RemoveAt(q, i))
           /\ ToSet(RemoveAt(q, i)) = ToSet(q) \ {q[i]}
<1> DEFINE t == RemoveAt(q, i)
<1> HIDE DEF t
<1>1. Len(q) \in Nat /\ DOMAIN q = 1 .. Len(q) /\ i \in Nat
  BY LenProperties
<1>2. /\ t \in Seq(S)
      /\ Len(t) = Len(q) - 1
      /\ \A j \in 1 .. Len(q) - 1 : t[j] = IF j < i THEN q[j] ELSE q[j + 1]
  BY RemoveAtSeq DEF t
<1>3. DOMAIN t = 1 .. Len(q) - 1
  BY <1>2, LenProperties
<1>4. \A j, k \in 1 .. Len(q) : q[j] = q[k] => j = k
  BY <1>1 DEF IsInjective
<1>5. \A j \in 1 .. Len(q) - 1 : IF j < i THEN j \in 1 .. Len(q) /\ j # i
                                 ELSE j + 1 \in 1 .. Len(q) /\ j + 1 # i
  BY <1>1
<1>6. IsInjective(t)
  BY <1>1, <1>2, <1>3, <1>4, <1>5 DEF IsInjective
<1>7. ToSet(t) \subseteq ToSet(q) \ {q[i]}
  BY <1>1, <1>2, <1>3, <1>4, <1>5 DEF ToSet
<1>8. ASSUME NEW j \in 1 .. Len(q), j # i
       PROVE  \E k \in 1 .. Len(q) - 1 : t[k] = q[j]
  <2>1. CASE j < i
    BY <2>1, <1>1, <1>2
  <2>2. CASE j > i
    <3>1. j - 1 \in 1 .. Len(q) - 1 /\ ~(j - 1 < i) /\ (j - 1) + 1 = j
      BY <2>2, <1>1
    <3> QED BY <3>1, <1>2
  <2> QED BY <2>1, <2>2, <1>1, <1>8
<1>9. ToSet(q) \ {q[i]} \subseteq ToSet(t)
  BY <1>1, <1>3, <1>8 DEF ToSet
<1> QED BY <1>2, <1>6, <1>7, <1>9 DEF t

(* Appending a new element (ngx_queue_insert_tail).                        *)
LEMMA AppendInjectiveSeq ==
    ASSUME NEW S, NEW q \in Seq(S), IsInjective(q), NEW e \in S, e \notin ToSet(q)
    PROVE  /\ Append(q, e) \in Seq(S)
           /\ Len(Append(q, e)) = Len(q) + 1
           /\ IsInjective(Append(q, e))
           /\ ToSet(Append(q, e)) = ToSet(q) \cup {e}
<1> DEFINE t == Append(q, e)
<1> HIDE DEF t
<1>1. /\ t \in Seq(S)
      /\ Len(q) \in Nat
      /\ Len(t) = Len(q) + 1
      /\ \A i \in 1 .. Len(q) : t[i] = q[i]
      /\ t[Len(q) + 1] = e
  BY AppendProperties, LenProperties DEF t
<1>2. DOMAIN q = 1 .. Len(q) /\ DOMAIN t = 1 .. Len(q) + 1
  BY <1>1, LenProperties
<1>3. \A i \in 1 .. Len(q) + 1 : i \in 1 .. Len(q) \/ i = Len(q) + 1
  BY <1>1
<1>4. \A i \in 1 .. Len(q) : i \in 1 .. Len(q) + 1 /\ q[i] # e /\ q[i] \in ToSet(q)
  BY <1>1, <1>2 DEF ToSet
<1>5. \A i, j \in 1 .. Len(q) : q[i] = q[j] => i = j
  BY <1>2 DEF IsInjective
<1>6. IsInjective(t)
  BY <1>1, <1>2, <1>3, <1>4, <1>5 DEF IsInjective
<1>7. ToSet(t) \subseteq ToSet(q) \cup {e}
  BY <1>1, <1>2, <1>3, <1>4 DEF ToSet
<1>8. ASSUME NEW x \in ToSet(q)
      PROVE  x \in ToSet(t)
  <2>1. PICK i \in 1 .. Len(q) : x = q[i]
    BY <1>2 DEF ToSet
  <2>2. i \in DOMAIN t /\ x = t[i]
    BY <2>1, <1>1, <1>2, <1>4
  <2> QED BY <2>2 DEF ToSet
<1>9. e \in ToSet(t)
  <2>1. Len(q) + 1 \in DOMAIN t
    BY <1>1, <1>2
  <2> QED BY <2>1, <1>1 DEF ToSet
<1> QED BY <1>1, <1>6, <1>7, <1>8, <1>9 DEF t

(* A queue has as many members as entries.                                 *)
LEMMA CardinalityInjective ==
    ASSUME NEW S, NEW q \in Seq(S), IsInjective(q)
    PROVE  IsFiniteSet(ToSet(q)) /\ Cardinality(ToSet(q)) = Len(q)
<1>1. Len(q) \in Nat /\ DOMAIN q = 1 .. Len(q) /\ q \in [1 .. Len(q) -> S]
  BY LenProperties
<1>2. q \in [1 .. Len(q) -> ToSet(q)]
  BY <1>1 DEF ToSet
<1>3. \A a, b \in 1 .. Len(q) : q[a] = q[b] => a = b
  BY <1>1 DEF IsInjective
<1>4. \A x \in ToSet(q) : \E a \in 1 .. Len(q) : q[a] = x
  BY <1>1 DEF ToSet
<1>5. q \in Bijection(1 .. Len(q), ToSet(q))
  BY <1>1, <1>2, <1>3, <1>4 DEF Bijection, Injection, Surjection, IsInjective
<1>6. ExistsBijection(1 .. Len(q), ToSet(q))
  BY <1>5 DEF ExistsBijection
<1>7. Cardinality(ToSet(q)) = Len(q)
  BY <1>1, <1>6, FS_CountingElements
<1>8. IsFiniteSet(ToSet(q))
  BY <1>1, <1>6, FS_NatBijection
<1> QED BY <1>7, <1>8
===============================================================================
