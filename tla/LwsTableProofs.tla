---------------------------- MODULE LwsTableProofs ----------------------------
(***************************************************************************)
(* Proofs about the hash table of lws_table.c, module LwsTable.            *)
(*                                                                         *)
(* The table is open addressing with double hashing: the entries of a hash *)
(* are on a path of slots that ends at the first unused slot. A new entry  *)
(* may move another one on along its own path to take its slot (Brent),    *)
(* a removed entry leaves a tomb, and a full table is written anew in the  *)
(* next larger size. The proofs show that none of this ever loses an entry *)
(* or makes one appear twice, that the list of the entries follows each of *)
(* these moves, and that the users of a table see the map of module LwsMap *)
(* and no more.                                                            *)
(*                                                                         *)
(* It rests on arithmetic: since the sizes are prime, the path of every    *)
(* hash visits every slot exactly once.                                    *)
(***************************************************************************)
EXTENDS LwsTable, SeqLemmas, FiniteSetTheorems, TLAPS

-------------------------------------------------------------------------------

(* What the hash and the step of a probe path are: the remainder and the   *)
(* quotient by the size of the table (lws_table.c:391-392).                *)
LEMMA ModFacts ==
    ASSUME NEW a \in Nat, NEW m \in Nat \ {0}
    PROVE  /\ a % m \in 0 .. m - 1
           /\ a \div m \in Nat
           /\ a = m * (a \div m) + (a % m)
  OBVIOUS

(* The remainder and the quotient are the only ones.                       *)
LEMMA ModUnique ==
    ASSUME NEW a \in Nat, NEW m \in Nat \ {0}, NEW q \in Nat, NEW r \in 0 .. m - 1,
           a = m * q + r
    PROVE  a % m = r /\ a \div m = q
<1>1. PICK p \in Nat, s \in 0 .. m - 1 : p = a \div m /\ s = a % m /\ a = m * p + s
  BY ModFacts
<1>2. CASE p < q
  <2>1. PICK e \in Nat : q = p + 1 + e
    BY <1>2
  <2>2. m * q = m * p + m + m * e
    BY <2>1
  <2>3. m * e \in Nat
    OBVIOUS
  <2> QED BY <1>1, <2>2, <2>3
<1>3. CASE q < p
  <2>1. PICK e \in Nat : p = q + 1 + e
    BY <1>3
  <2>2. m * p = m * q + m + m * e
    BY <2>1
  <2>3. m * e \in Nat
    OBVIOUS
  <2> QED BY <1>1, <2>2, <2>3
<1> QED BY <1>1, <1>2, <1>3

(* A prime divides no product of two smaller numbers: this is why          *)
(* lws_table_sizes lists primes.                                           *)
LEMMA Euclid ==
    ASSUME NEW m \in Nat \ {0, 1}, Prime(m), NEW c \in 1 .. m - 1, NEW d \in 1 .. m - 1
    PROVE  (d * c) % m # 0
<1> DEFINE T == {x \in 1 .. m - 1 : (x * c) % m = 0}
<1> SUFFICES ASSUME T # {}
             PROVE  FALSE
  OBVIOUS
<1>1. PICK x \in T : \A y \in T : x <= y
  <2>1. T \subseteq Nat
    OBVIOUS
  <2> HIDE DEF T
  <2> QED BY <2>1, LeastNatural
<1>2. /\ x \in 1 .. m - 1 /\ x * c \in Nat /\ (x * c) % m = 0
      /\ \A y \in 1 .. m - 1 : (y * c) % m = 0 => x <= y
  BY <1>1
<1> HIDE DEF T
<1>3. PICK k \in Nat : x * c = m * k
  <2> DEFINE a == x * c
  <2>1. a \in Nat /\ a % m = 0
    BY <1>2
  <2> HIDE DEF a
  <2>2. a \div m \in Nat /\ a = m * (a \div m) + 0
    BY <2>1, ModFacts
  <2>3. m * (a \div m) + 0 = m * (a \div m)
    BY <2>2
  <2> QED BY <2>2, <2>3 DEF a
<1>4. CASE x = 1
  <2>1. x * c = c /\ c = m * 0 + c /\ c \in Nat /\ c \in 0 .. m - 1
    BY <1>4
  <2>2. c % m = c
    BY <2>1, ModUnique
  <2> QED BY <1>2, <2>1, <2>2
<1>5. CASE x \in 2 .. m - 1
  <2>1. PICK p \in Nat, r \in 1 .. x - 1 : m = x * p + r
    <3>1. m % x # 0
      BY <1>5 DEF Prime
    <3>2. m % x \in 0 .. x - 1 /\ m \div x \in Nat /\ m = x * (m \div x) + (m % x)
      BY <1>5, ModFacts
    <3>3. m % x \in 1 .. x - 1
      BY <3>1, <3>2, <1>5
    <3> QED BY <3>2, <3>3
  <2>2. r * c = m * c - p * (x * c)
    <3>1. m * c = (x * p) * c + r * c
      BY <1>5, <2>1
    <3>2. (x * p) * c = p * (x * c)
      BY <1>5, <2>1
    <3> QED BY <1>2, <3>1, <3>2
  <2>3. r * c = m * (c - p * k)
    <3>1. p * (m * k) = m * (p * k)
      BY <1>3, <2>1
    <3> QED BY <1>3, <2>2, <3>1
  <2>4. c - p * k \in Nat
    <3>1. r * c \in Nat \ {0}
      BY <2>1
    <3>2. c - p * k \in Int
      OBVIOUS
    <3>3. \A z \in Int : z < 0 => m * z <= 0
      OBVIOUS
    <3> QED BY <2>3, <3>1, <3>2, <3>3
  <2>5. (r * c) % m = 0
    <3> DEFINE a == r * c
               q == c - p * k
    <3>1. a \in Nat /\ q \in Nat /\ a = m * q
      BY <2>3, <2>4
    <3>2. 0 \in 0 .. m - 1
      OBVIOUS
    <3> HIDE DEF a, q
    <3>3. a = m * q + 0
      BY <3>1
    <3>4. a % m = 0
      BY <3>1, <3>2, <3>3, ModUnique
    <3> QED BY <3>4 DEF a
  <2>6. r \in 1 .. m - 1 /\ r < x
    BY <1>5, <2>1
  <2> QED BY <1>2, <2>5, <2>6
<1> QED BY <1>2, <1>4, <1>5

(* A path m slots long, from slot s by steps of c.                         *)
LEMMA WalkOn ==
    ASSUME NEW m \in Nat \ {0}, NEW s \in Nat, NEW d \in Nat
    PROVE  ((s % m) + d) % m = (s + d) % m
<1>1. /\ s % m \in 0 .. m - 1 /\ s \div m \in Nat
      /\ s = m * (s \div m) + (s % m)
  BY ModFacts
<1> DEFINE r == s % m
           q == s \div m
           a == r + d
           b == s + d
<1>2. r \in Nat /\ q \in Nat /\ s = m * q + r
  BY <1>1
<1> HIDE DEF r, q
<1>3. a \in Nat /\ b \in Nat /\ b = m * q + a
  BY <1>2
<1> HIDE DEF a, b
<1>4. /\ a % m \in 0 .. m - 1 /\ a \div m \in Nat
      /\ a = m * (a \div m) + (a % m)
  BY <1>3, ModFacts
<1> DEFINE p == a \div m
           z == a % m
<1>5. p \in Nat /\ z \in 0 .. m - 1 /\ a = m * p + z
  BY <1>4
<1> HIDE DEF p, z
<1>6. b = m * (q + p) + z
  <2>1. m * (q + p) = m * q + m * p
    BY <1>2, <1>5
  <2>2. m * q \in Nat /\ m * p \in Nat
    BY <1>2, <1>5
  <2> QED BY <2>1, <2>2, <1>3, <1>5
<1>7. b % m = z
  <2>1. q + p \in Nat
    BY <1>2, <1>5
  <2> QED BY <2>1, <1>3, <1>5, <1>6, ModUnique
<1> QED BY <1>7 DEF a, b, z, r

(* In a table of a prime size, no slot is visited twice on the way.        *)
LEMMA WalkInjective ==
    ASSUME NEW m \in Nat \ {0, 1}, Prime(m), NEW c \in 1 .. m - 1, NEW s \in Nat,
           NEW i \in 0 .. m - 1, NEW j \in 0 .. m - 1,
           (s + i * c) % m = (s + j * c) % m
    PROVE  i = j
<1>1. ASSUME NEW x \in 0 .. m - 1, NEW y \in 0 .. m - 1, x < y,
             (s + x * c) % m = (s + y * c) % m
      PROVE  FALSE
  <2> DEFINE a == s + x * c
             b == s + y * c
             d == y - x
  <2>1. a \in Nat /\ b \in Nat /\ d \in 1 .. m - 1 /\ a % m = b % m
    BY <1>1
  <2>2. d * c = b - a /\ d * c \in Nat
    <3>1. y * c = x * c + d * c
      BY <1>1
    <3>2. d * c \in Nat
      BY <2>1
    <3> QED BY <3>1, <3>2
  <2> HIDE DEF a, b, d
  <2>3. /\ a \div m \in Nat /\ a = m * (a \div m) + (a % m) /\ a % m \in 0 .. m - 1
        /\ b \div m \in Nat /\ b = m * (b \div m) + (b % m)
    BY <2>1, ModFacts
  <2> DEFINE p == a \div m
             q == b \div m
             r == a % m
  <2>4. p \in Nat /\ q \in Nat /\ r \in Nat /\ a = m * p + r /\ b = m * q + r
    BY <2>1, <2>3
  <2> HIDE DEF p, q, r
  <2>5. d * c = m * (q - p)
    <3>1. m * (q - p) = m * q - m * p
      BY <2>4
    <3>2. m * q \in Nat /\ m * p \in Nat
      BY <2>4
    <3> QED BY <3>1, <3>2, <2>2, <2>4
  <2>6. q - p \in Nat
    <3>1. q - p \in Int
      BY <2>4
    <3>2. \A z \in Int : z < 0 => m * z < 0
      OBVIOUS
    <3> QED BY <2>2, <2>5, <3>1, <3>2
  <2>7. (d * c) % m = 0
    <3> DEFINE n == d * c
               e == q - p
    <3>1. n \in Nat /\ e \in Nat /\ n = m * e + 0 /\ 0 \in 0 .. m - 1
      BY <2>2, <2>5, <2>6
    <3> HIDE DEF n, e
    <3>2. n % m = 0
      BY <3>1, ModUnique
    <3> QED BY <3>2 DEF n
  <2> QED BY <2>1, <2>7, Euclid
<1>2. CASE i < j
  BY <1>1, <1>2
<1>3. CASE j < i
  BY <1>1, <1>3
<1> QED BY <1>2, <1>3

(* An injection of the slots into the slots reaches them all.              *)
LEMMA WalkSurjective ==
    ASSUME NEW m \in Nat \ {0}, NEW f \in [0 .. m - 1 -> 0 .. m - 1],
           \A i, j \in 0 .. m - 1 : f[i] = f[j] => i = j
    PROVE  \A x \in 0 .. m - 1 : \E i \in 0 .. m - 1 : f[i] = x
<1> DEFINE S == 0 .. m - 1
<1>1. IsFiniteSet(S) /\ Cardinality(S) = Cardinality(S)
  BY FS_Interval
<1>2. f \in Injection(S, S)
  BY DEF Injection, IsInjective
<1>3. f \in Surjection(S, S)
  <2> HIDE DEF S
  <2> QED BY <1>1, <1>2, FS_Injection
<1> QED BY <1>3 DEF Surjection

-------------------------------------------------------------------------------

(* The probe path of hash h in a table of one of the sizes visits every    *)
(* slot once, and goes around.                                             *)
LEMMA PathLemma ==
    ASSUME NEW t, t.alloc \in Sizes, NEW h \in Nat
    PROVE  /\ \A i \in Nat : Probe(t, h, i) \in 0 .. t.alloc - 1
           /\ \A i, j \in 0 .. t.alloc - 1 : Probe(t, h, i) = Probe(t, h, j) => i = j
           /\ \A x \in 0 .. t.alloc - 1 : \E i \in 0 .. t.alloc - 1 : Probe(t, h, i) = x
           /\ \A i, j \in Nat : Onward(t, h, Probe(t, h, i), j) = Probe(t, h, i + j)
           /\ \A i \in Nat : Probe(t, h, i + t.alloc) = Probe(t, h, i)
<1> DEFINE m == t.alloc
           c == Step(t, h)
           s == h % m
<1>1. m \in Nat \ {0, 1} /\ m \in Nat \ {0} /\ m \in Nat /\ m > 2 /\ Prime(m)
  <2>1. m \in Sizes
    OBVIOUS
  <2> HIDE DEF m
  <2>2. m \in Nat \ {0, 1, 2} /\ Prime(m)
    BY <2>1, TableAssumption DEF TableAssumption
  <2>3. m > 2
    BY <2>2
  <2> QED BY <2>2, <2>3
<1>2. c \in 1 .. m - 1 /\ s \in 0 .. m - 1 /\ s \in Nat
  <2>1. m - 2 \in Nat \ {0}
    BY <1>1
  <2> HIDE DEF m
  <2>2. h % (m - 2) \in 0 .. m - 2 - 1 /\ h % m \in 0 .. m - 1
    BY <2>1, <1>1, ModFacts
  <2>3. c = (h % (m - 2)) + 1
    BY DEF Step, m
  <2> HIDE DEF c
  <2>4. c \in 1 .. m - 1
    BY <2>2, <2>3, <1>1
  <2> QED BY <2>2, <2>4, <1>1
<1>3. \A i, j \in Nat : Onward(t, h, i, j) = (i + j * c) % m
  BY DEF Onward
<1>4. \A i \in Nat : Probe(t, h, i) = (s + i * c) % m
  BY <1>2, <1>3 DEF Probe
<1> HIDE DEF m, c, s
<1>5. \A i \in Nat : i * c \in Nat
  BY <1>2
<1>6. \A i \in Nat : Probe(t, h, i) \in 0 .. m - 1
  <2> TAKE i \in Nat
  <2>1. s + i * c \in Nat
    BY <1>2, <1>5
  <2> QED BY <2>1, <1>1, <1>4, ModFacts
<1>7. ASSUME NEW i \in 0 .. m - 1, NEW j \in 0 .. m - 1, Probe(t, h, i) = Probe(t, h, j)
      PROVE  i = j
  <2>1. (s + i * c) % m = (s + j * c) % m
    BY <1>1, <1>4, <1>7
  <2> QED BY <2>1, <1>1, <1>2, WalkInjective
<1>8. \A x \in 0 .. m - 1 : \E i \in 0 .. m - 1 : Probe(t, h, i) = x
  <2> DEFINE f == [i \in 0 .. m - 1 |-> Probe(t, h, i)]
  <2>1. f \in [0 .. m - 1 -> 0 .. m - 1]
    BY <1>1, <1>6
  <2>2. \A i, j \in 0 .. m - 1 : f[i] = f[j] => i = j
    BY <1>7
  <2>3. \A i \in 0 .. m - 1 : f[i] = Probe(t, h, i)
    OBVIOUS
  <2> HIDE DEF f
  <2>4. \A x \in 0 .. m - 1 : \E i \in 0 .. m - 1 : f[i] = x
    BY <2>1, <2>2, <1>1, WalkSurjective
  <2> QED BY <2>3, <2>4
<1>9. ASSUME NEW i \in Nat, NEW j \in Nat
      PROVE  Onward(t, h, Probe(t, h, i), j) = Probe(t, h, i + j)
  <2> DEFINE a == s + i * c
             d == j * c
  <2>1. a \in Nat /\ d \in Nat
    BY <1>2, <1>5
  <2>2. a + d = s + (i + j) * c
    <3>1. (i + j) * c = i * c + j * c
      BY <1>2
    <3> QED BY <3>1, <1>2, <1>5
  <2>3. Onward(t, h, Probe(t, h, i), j) = ((a % m) + d) % m
    BY <1>1, <1>3, <1>4, <1>6
  <2> HIDE DEF a, d
  <2>4. ((a % m) + d) % m = (a + d) % m
    BY <2>1, <1>1, WalkOn
  <2> QED BY <2>2, <2>3, <2>4, <1>4
<1>10. ASSUME NEW i \in Nat
       PROVE  Probe(t, h, i + m) = Probe(t, h, i)
  <2> DEFINE a == s + i * c
             b == s + (i + m) * c
  <2>1. a \in Nat /\ b = m * c + a
    <3>1. (i + m) * c = i * c + m * c
      BY <1>1, <1>2
    <3>2. m * c \in Nat
      BY <1>1, <1>2
    <3> QED BY <3>1, <3>2, <1>2, <1>5
  <2>2. Probe(t, h, i) = a % m /\ Probe(t, h, i + m) = b % m
    BY <1>1, <1>4
  <2> HIDE DEF a, b
  <2>3. /\ a \div m \in Nat /\ a % m \in 0 .. m - 1
        /\ a = m * (a \div m) + (a % m)
    BY <1>1, <2>1, ModFacts
  <2> DEFINE q == a \div m
             r == a % m
  <2>4. q \in Nat /\ r \in 0 .. m - 1 /\ a = m * q + r
    BY <2>3
  <2> HIDE DEF q, r
  <2>5. b = m * (c + q) + r /\ b \in Nat /\ c + q \in Nat
    <3>1. m * (c + q) = m * c + m * q
      BY <1>1, <1>2, <2>4
    <3>2. m * c \in Nat /\ m * q \in Nat
      BY <1>1, <1>2, <2>4
    <3> QED BY <3>1, <3>2, <1>2, <2>1, <2>4
  <2>6. b % m = r
    BY <2>4, <2>5, <1>1, ModUnique
  <2> QED BY <2>2, <2>6 DEF r
<1> QED BY <1>6, <1>7, <1>8, <1>9, <1>10 DEF m

(* What Min chooses.                                                       *)
LEMMA MinFacts ==
    ASSUME NEW T, T \subseteq Nat, T # {}
    PROVE  Min(T) \in T /\ \A y \in T : Min(T) <= y
<1>1. \E x \in T : \A y \in T : x <= y
  BY LeastNatural
<1> QED BY <1>1, Zenon DEF Min

(* There always is a slot that is not set; a table that grows can take     *)
(* more; and one made for a load takes that many.                          *)
LEMMA LoadLemma ==
    /\ \A m \in Sizes : LoadOf(m) \in Nat /\ LoadOf(m) < m
    /\ \A m, n \in Sizes : m < n => LoadOf(m) < LoadOf(n)
    /\ \A m \in Sizes, n \in Nat : m >= RoomFor(n) => LoadOf(m) >= n
<1>1. \A m \in Sizes : m \in Nat /\ m > 2 /\ m % 2 = 1
  <2> TAKE m \in Sizes
  <2>1. m \in Nat /\ m > 2 /\ Prime(m)
    BY TableAssumption DEF TableAssumption
  <2>2. m % 2 # 0
    BY <2>1 DEF Prime
  <2> QED BY <2>1, <2>2
<1>2. \A m \in Sizes : LoadOf(m) \in Nat /\ LoadOf(m) < m
  BY <1>1 DEF LoadOf
<1>3. ASSUME NEW m \in Sizes, NEW n \in Sizes, m < n
      PROVE  LoadOf(m) < LoadOf(n)
  <2>1. m \in Nat /\ n \in Nat /\ m % 2 = 1 /\ n % 2 = 1
    BY <1>1
  <2>2. n >= m + 2
    BY <2>1, <1>3
  <2>3. n \div 2 >= m \div 2 + 1 /\ n \div 4 >= m \div 4 /\ n \div 8 >= m \div 8
    BY <2>1, <2>2
  <2> QED BY <2>1, <2>3 DEF LoadOf
<1>4. ASSUME NEW m \in Sizes, NEW n \in Nat, m >= RoomFor(n)
      PROVE  LoadOf(m) >= n
  BY <1>1, <1>4 DEF LoadOf, RoomFor
<1> QED BY <1>2, <1>3, <1>4

(* lws_table_size finds a size of at least n when there is one.            *)
LEMMA SizeLemma ==
    ASSUME NEW n \in Nat, \E m \in Sizes : m >= n
    PROVE  SizeFor(n) \in Sizes /\ SizeFor(n) >= n
<1> DEFINE T == {m \in Sizes : m >= n}
<1>1. T \subseteq Nat /\ T # {}
  BY TableAssumption DEF TableAssumption
<1>2. Min(T) \in T
  BY <1>1, MinFacts
<1> QED BY <1>2 DEF SizeFor

-------------------------------------------------------------------------------

(* A table of these parts.                                                 *)
TableOf(alloc, entries, order, count) ==
    [alloc |-> alloc, entries |-> entries, order |-> order, count |-> count]

(* Slot i of a table is written.                                           *)
Written(entries, i, slot) == [entries EXCEPT ![i] = slot]

(* The slots of a table.                                                   *)
Slots(t) == 0 .. t.alloc - 1

(* The path of hash h reaches slot i before an unused slot ends it.        *)
OnPath(t, h, i) ==
    \E n \in Slots(t) : /\ Probe(t, h, n) = i
                        /\ \A m \in 0 .. n - 1 :
                              t.entries[Probe(t, h, m)].state # "unused"

(* The parts of a table are what lws_table_t declares.                     *)
Formed(t) == /\ t = TableOf(t.alloc, t.entries, t.order, t.count)
             /\ t.alloc \in Sizes
             /\ t.entries = [i \in Slots(t) |-> t.entries[i]]
             /\ t.order \in Seq(Slots(t))

(* Every stored entry has a key that has a hash.                           *)
HasKeys(hs, t) ==
    \A i \in Slots(t) : IsSet(t, i) => /\ t.entries[i].key \in DOMAIN hs
                                       /\ hs[t.entries[i].key] \in Nat

(* No key is stored twice.                                                 *)
KeysOnce(t) ==
    \A i, j \in Slots(t) :
       IsSet(t, i) /\ IsSet(t, j) /\ t.entries[i].key = t.entries[j].key => i = j

(* Every stored entry is on the path of the hash of its key.               *)
Reached(hs, t) ==
    \A i \in Slots(t) : IsSet(t, i) => OnPath(t, hs[t.entries[i].key], i)

(* The order list is that of the stored entries, and the count their       *)
(* number.                                                                 *)
Listed(t) == /\ IsInjective(t.order)
             /\ \A i \in Slots(t) : i \in ToSet(t.order) <=> IsSet(t, i)
             /\ t.count = Len(t.order)

(* The invariant of one table, where hs are the hashes of the keys.        *)
Sound(hs, t) ==
    Formed(t) /\ HasKeys(hs, t) /\ KeysOnce(t) /\ Reached(hs, t) /\ Listed(t)

(* No entry of the table has key k.                                        *)
NoKey(t, k) == \A i \in Slots(t) : IsSet(t, i) => t.entries[i].key # k

(* An entry at the end of a list,                                          *)
Behind(its, e) == Append(its, e)

(* and at its front.                                                       *)
Ahead(e, its) == <<e>> \o its

(* A table u with the entries of table t has a free slot, the one in p, for *)
(* key k, where an entry may have moved away.                              *)
MakesRoom(hs, t, k, p, u) ==
    /\ Sound(hs, u) /\ Items(u) = Items(t) /\ NoKey(u, k)
    /\ u.alloc = t.alloc /\ u.order = p.t.order /\ u.count = t.count
    /\ ~IsSet(u, p.at) /\ OnPath(u, hs[k], p.at)
    /\ \A e : Written(p.t.entries, p.at, e) = Written(u.entries, p.at, e)

(* The sizes of lws_table_sizes as numbers.                                *)
LEMMA SizesLemma == \A m \in Sizes : m \in Nat /\ m > 2
  BY TableAssumption DEF TableAssumption

(* A slot stays on the path of a hash as long as no slot becomes unused,   *)
(* whatever else changes in the table: tombs keep the paths.               *)
LEMMA OnPathKept ==
    ASSUME NEW t, NEW u, NEW h \in Nat, NEW i, t.alloc \in Sizes, u.alloc = t.alloc,
           \A x \in Slots(t) :
              t.entries[x].state # "unused" => u.entries[x].state # "unused",
           OnPath(t, h, i)
    PROVE  OnPath(u, h, i)
<1>1. \A n \in Nat : Probe(u, h, n) = Probe(t, h, n) /\ Probe(t, h, n) \in Slots(t)
  BY PathLemma DEF Probe, Onward, Step, Slots
<1>2. PICK n \in Slots(t) : /\ Probe(t, h, n) = i
                            /\ \A m \in 0 .. n - 1 :
                                  t.entries[Probe(t, h, m)].state # "unused"
  BY DEF OnPath
<1>3. n \in Nat /\ n \in Slots(u) /\ \A m \in 0 .. n - 1 : m \in Nat
  <2>1. t.alloc \in Nat
    BY SizesLemma
  <2> QED BY <2>1 DEF Slots
<1>4. Probe(u, h, n) = i
  BY <1>1, <1>2, <1>3
<1>5. \A m \in 0 .. n - 1 : u.entries[Probe(u, h, m)].state # "unused"
  BY <1>1, <1>2, <1>3
<1> QED BY <1>3, <1>4, <1>5 DEF OnPath

(* A table that is not full has a slot that is not set.                    *)
LEMMA RoomLemma ==
    ASSUME NEW t, Formed(t), Listed(t), t.count < t.alloc
    PROVE  \E i \in Slots(t) : ~IsSet(t, i)
<1>1. t.alloc \in Nat /\ t.alloc > 0
  BY SizesLemma DEF Formed
<1>2. Cardinality(ToSet(t.order)) = t.count
  BY CardinalityInjective DEF Formed, Listed
<1>3. Cardinality(Slots(t)) = t.alloc
  BY <1>1, FS_Interval DEF Slots
<1>4. ToSet(t.order) \subseteq Slots(t)
  <2>1. \A n \in DOMAIN t.order : t.order[n] \in Slots(t)
    BY DEF Formed
  <2> QED BY <2>1 DEF ToSet
<1>5. ToSet(t.order) # Slots(t)
  BY <1>1, <1>2, <1>3
<1> QED BY <1>4, <1>5 DEF Listed

(* The first slot on the path of a hash that is not set: the one a new     *)
(* entry would take if no other entry moved.                               *)
LEMMA WorstLemma ==
    ASSUME NEW t, Formed(t), Listed(t), t.count < t.alloc, NEW h \in Nat
    PROVE  /\ Worst(t, h) \in 1 .. t.alloc
           /\ ~IsSet(t, Probe(t, h, Worst(t, h) - 1))
           /\ \A j \in 0 .. Worst(t, h) - 2 : IsSet(t, Probe(t, h, j))
<1>1. t.alloc \in Sizes /\ t.alloc \in Nat /\ t.alloc > 0
  BY SizesLemma DEF Formed
<1> DEFINE T == {i \in 0 .. t.alloc - 1 : ~IsSet(t, Probe(t, h, i))}
<1>2. T # {}
  <2>1. PICK x \in Slots(t) : ~IsSet(t, x)
    BY RoomLemma
  <2>2. PICK i \in 0 .. t.alloc - 1 : Probe(t, h, i) = x
    BY <1>1, <2>1, PathLemma DEF Slots
  <2> QED BY <2>1, <2>2
<1>3. Min(T) \in T /\ \A y \in T : Min(T) <= y
  <2>1. T \subseteq Nat
    BY <1>1
  <2> HIDE DEF T
  <2> QED BY <1>2, <2>1, MinFacts
<1> DEFINE w == Min(T)
<1>4. Worst(t, h) = 1 + w
  BY DEF Worst
<1>5. w \in 0 .. t.alloc - 1 /\ ~IsSet(t, Probe(t, h, w))
  BY <1>3
<1>6. \A y \in 0 .. t.alloc - 1 : ~IsSet(t, Probe(t, h, y)) => w <= y
  BY <1>3
<1> HIDE DEF w
<1>7. Worst(t, h) - 1 = w /\ Worst(t, h) \in 1 .. t.alloc
  BY <1>1, <1>4, <1>5
<1>8. \A j \in 0 .. Worst(t, h) - 2 : j \in 0 .. t.alloc - 1 /\ ~(w <= j)
  BY <1>1, <1>4, <1>5
<1> QED BY <1>5, <1>6, <1>7, <1>8

(* Where the search for a better place moves an entry on to: a slot further*)
(* on its own path that is not set.                                        *)
LEMMA MovesLemma ==
    ASSUME NEW t, NEW i, NEW len \in Nat, NEW worst \in Nat,
           Moves(t, i, len, worst) # 0
    PROVE  /\ Moves(t, i, len, worst) \in 1 .. worst
           /\ ~IsSet(t, Onward(t, hash[t.entries[i].key], i, Moves(t, i, len, worst)))
           /\ \A j \in 1 .. Moves(t, i, len, worst) - 1 :
                 IsSet(t, Onward(t, hash[t.entries[i].key], i, j))
<1> DEFINE h == hash[t.entries[i].key]
           tried == {j \in 1 .. worst : j = 1 \/ len + j < worst}
           free == {j \in tried : ~IsSet(t, Onward(t, h, i, j))}
           m == Moves(t, i, len, worst)
<1>1. m = IF free = {} THEN 0 ELSE Min(free)
  BY DEF Moves
<1>2. free # {} /\ m = Min(free)
  BY <1>1
<1>3. m \in free /\ \A j \in free : m <= j
  <2>1. free \subseteq Nat
    OBVIOUS
  <2> HIDE DEF free, m
  <2> QED BY <1>2, <2>1, MinFacts
<1> HIDE DEF h, m
<1>4. /\ m \in 1 .. worst
      /\ m = 1 \/ len + m < worst
      /\ ~IsSet(t, Onward(t, h, i, m))
      /\ \A j \in 1 .. worst :
            (j = 1 \/ len + j < worst) /\ ~IsSet(t, Onward(t, h, i, j)) => m <= j
  BY <1>3
<1>5. \A j \in 1 .. m - 1 : j \in 1 .. worst /\ len + j < worst /\ ~(m <= j)
  BY <1>4
<1>6. \A j \in 1 .. m - 1 : IsSet(t, Onward(t, h, i, j))
  BY <1>4, <1>5
<1> QED BY <1>4, <1>6 DEF h, m

(* What the search finds is an entry before the last two of the path that  *)
(* can be moved.                                                           *)
LEMMA BetterLemma ==
    ASSUME NEW t, NEW h, NEW worst \in Nat, worst > 2, Better(t, h, worst).len # 0
    PROVE  LET b == Better(t, h, worst)
           IN  /\ b.len \in 1 .. worst - 2
               /\ b.moves = Moves(t, Probe(t, h, b.len - 1), b.len, worst)
               /\ b.moves # 0
<1> DEFINE first == [len |-> 0, moves |-> worst]
           Then(n, before) ==
              LET m == Moves(t, Probe(t, h, n - 1), n, worst)
              IN  IF (n = 1 \/ (n < worst - 1 /\ n < before.moves)) /\ m > 0
                  THEN [len |-> n, moves |-> m]
                  ELSE before
           found[n \in 0 .. worst] ==
              IF n = 0 THEN first ELSE Then(n, found[n - 1])
           Fits(b) == b.len = 0 \/ /\ b.len \in 1 .. worst - 2
                                   /\ b.moves = Moves(t, Probe(t, h, b.len - 1), b.len, worst)
                                   /\ b.moves # 0
<1>1. Better(t, h, worst) = found[worst - 1]
  BY Zenon DEF Better
<1>2. ASSUME NEW n \in 1 .. worst - 1, NEW before, Fits(before)
      PROVE  Fits(Then(n, before))
  <2> DEFINE m == Moves(t, Probe(t, h, n - 1), n, worst)
             c == (n = 1 \/ (n < worst - 1 /\ n < before.moves)) /\ m > 0
  <2>1. CASE c
    <3>1. Then(n, before) = [len |-> n, moves |-> m]
      BY <2>1
    <3>2. n \in 1 .. worst - 2 /\ m # 0
      BY <2>1
    <3> QED BY <3>1, <3>2
  <2>2. CASE ~c
    <3>1. Then(n, before) = before
      BY <2>2
    <3> QED BY <3>1, <1>2
  <2> QED BY <2>1, <2>2
<1>3. Fits(first)
  OBVIOUS
<1> HIDE DEF first, Then, Fits
<1> DEFINE Eq(g, n) == g = [x \in 0 .. n |-> IF x = 0 THEN first ELSE Then(x, g[x - 1])]
<1>4. ASSUME NEW n \in Nat
      PROVE  \E g : Eq(g, n)
  <2> DEFINE Bad == {k \in Nat : ~\E g : Eq(g, k)}
  <2> SUFFICES ASSUME Bad # {}
               PROVE  FALSE
    OBVIOUS
  <2>1. PICK k \in Bad : \A j \in Bad : k <= j
    <3>1. Bad \subseteq Nat
      OBVIOUS
    <3> HIDE DEF Bad
    <3> QED BY <3>1, LeastNatural
  <2>2. k \in Nat /\ (~\E g : Eq(g, k)) /\ \A j \in Nat : j < k => \E g : Eq(g, j)
    BY <2>1
  <2> HIDE DEF Bad
  <2>3. CASE k = 0
    <3>1. Eq([x \in 0 .. 0 |-> first], 0)
      OBVIOUS
    <3> QED BY <2>2, <2>3, <3>1
  <2>4. CASE k # 0
    <3> DEFINE j == k - 1
    <3>1. PICK g : Eq(g, j)
      <4>1. j \in Nat /\ j < k
        BY <2>2, <2>4
      <4> HIDE DEF j, Eq
      <4> QED BY <4>1, <2>2
    <3> DEFINE f == [x \in 0 .. k |-> IF x = k THEN Then(k, g[k - 1]) ELSE g[x]]
    <3>2. \A x \in 0 .. k - 1 : f[x] = g[x]
      BY <2>2
    <3>3. \A x \in 0 .. k : f[x] = IF x = 0 THEN first ELSE Then(x, f[x - 1])
      <4> TAKE x \in 0 .. k
      <4>1. CASE x = k
        BY <4>1, <2>2, <2>4, <3>2
      <4>2. CASE x # k
        <5>1. x \in 0 .. k - 1 /\ (x # 0 => x - 1 \in 0 .. k - 1)
          BY <4>2, <2>2
        <5>2. g[x] = IF x = 0 THEN first ELSE Then(x, g[x - 1])
          BY <3>1, <5>1
        <5> QED BY <5>1, <5>2, <3>2
      <4> QED BY <4>1, <4>2
    <3>4. Eq(f, k)
      <4>1. f = [x \in 0 .. k |-> f[x]]
        OBVIOUS
      <4> HIDE DEF f
      <4> QED BY <3>3, <4>1
    <3> QED BY <2>2, <3>4
  <2> QED BY <2>3, <2>4
<1>5. Eq(found, worst)
  <2>1. \E g : Eq(g, worst)
    BY <1>4
  <2> QED BY <2>1, Zenon
<1> HIDE DEF found
<1>6. found[0] = first /\ \A n \in 1 .. worst - 1 : found[n] = Then(n, found[n - 1])
  BY <1>5
<1>7. \A n \in 0 .. worst - 1 : Fits(found[n])
  <2> DEFINE Bad == {k \in 0 .. worst - 1 : ~Fits(found[k])}
  <2> SUFFICES ASSUME Bad # {}
               PROVE  FALSE
    OBVIOUS
  <2>1. PICK k \in Bad : \A j \in Bad : k <= j
    <3>1. Bad \subseteq Nat
      OBVIOUS
    <3> HIDE DEF Bad
    <3> QED BY <3>1, LeastNatural
  <2>2. /\ k \in 0 .. worst - 1 /\ ~Fits(found[k])
        /\ \A j \in 0 .. worst - 1 : j < k => Fits(found[j])
    BY <2>1
  <2> HIDE DEF Bad
  <2>3. CASE k = 0
    BY <2>2, <2>3, <1>3, <1>6
  <2>4. CASE k # 0
    <3>1. k \in 1 .. worst - 1 /\ k - 1 \in 0 .. worst - 1 /\ k - 1 < k
      BY <2>2, <2>4
    <3> QED BY <3>1, <2>2, <1>2, <1>6
  <2> QED BY <2>3, <2>4
<1>8. Fits(Better(t, h, worst))
  BY <1>1, <1>7
<1> QED BY <1>8 DEF Fits

-------------------------------------------------------------------------------

(* Sequences as functions: one more element at the end, or at the front.   *)
LEMMA ExtendTuple ==
    ASSUME NEW n \in Nat, NEW f, f = [i \in 1 .. n |-> f[i]], NEW e
    PROVE  /\ Append(f, e) = [i \in 1 .. n + 1 |-> IF i <= n THEN f[i] ELSE e]
           /\ <<e>> \o f = [i \in 1 .. n + 1 |-> IF i = 1 THEN e ELSE f[i - 1]]
<1> DEFINE S == {f[i] : i \in 1 .. n} \cup {e}
<1>1. f \in [1 .. n -> S]
  <2>1. \A i \in 1 .. n : f[i] \in S
    OBVIOUS
  <2> HIDE DEF S
  <2> QED BY <2>1
<1>2. e \in S
  OBVIOUS
<1> HIDE DEF S
<1>3. f \in Seq(S) /\ Len(f) = n
  BY <1>1
<1> QED BY <1>2, <1>3

(* Putting a new element in the place of another.                          *)
LEMMA ReplaceInjective ==
    ASSUME NEW S, NEW q \in Seq(S), IsInjective(q), NEW e \in S, e \notin ToSet(q), NEW d
    PROVE  /\ ReplaceAll(q, d, e) \in Seq(S)
           /\ Len(ReplaceAll(q, d, e)) = Len(q)
           /\ \A i \in 1 .. Len(q) : ReplaceAll(q, d, e)[i] = IF q[i] = d THEN e ELSE q[i]
           /\ IsInjective(ReplaceAll(q, d, e))
           /\ ToSet(ReplaceAll(q, d, e)) =
                 IF d \in ToSet(q) THEN (ToSet(q) \ {d}) \cup {e} ELSE ToSet(q)
<1> DEFINE t == ReplaceAll(q, d, e)
<1>1. /\ Len(q) \in Nat
      /\ DOMAIN q = 1 .. Len(q)
      /\ \A i \in 1 .. Len(q) : q[i] \in S
  BY LenProperties
<1>2. t = [i \in 1 .. Len(q) |-> IF q[i] = d THEN e ELSE q[i]]
  BY DEF ReplaceAll
<1>3. t \in Seq(S) /\ Len(t) = Len(q) /\ DOMAIN t = 1 .. Len(q)
  BY <1>1, <1>2
<1>4. \A i \in 1 .. Len(q) : t[i] = IF q[i] = d THEN e ELSE q[i]
  BY <1>2
<1> HIDE DEF t
<1>5. \A i \in 1 .. Len(q) : q[i] # e /\ q[i] \in ToSet(q)
  BY <1>1 DEF ToSet
<1>6. \A i, j \in 1 .. Len(q) : q[i] = q[j] => i = j
  BY <1>1 DEF IsInjective
<1>7. IsInjective(t)
  BY <1>3, <1>4, <1>5, <1>6 DEF IsInjective
<1>8. ToSet(t) = {t[i] : i \in 1 .. Len(q)} /\ ToSet(q) = {q[i] : i \in 1 .. Len(q)}
  BY <1>1, <1>3 DEF ToSet
<1>9. CASE d \in ToSet(q)
  <2>1. PICK n \in 1 .. Len(q) : q[n] = d
    BY <1>8, <1>9
  <2>2. t[n] = e
    BY <2>1, <1>4
  <2>3. ToSet(t) = (ToSet(q) \ {d}) \cup {e}
    BY <2>1, <2>2, <1>4, <1>8
  <2> QED BY <2>3, <1>3, <1>4, <1>7, <1>9 DEF t
<1>10. CASE d \notin ToSet(q)
  <2>1. \A i \in 1 .. Len(q) : t[i] = q[i]
    BY <1>4, <1>5, <1>10
  <2>2. ToSet(t) = ToSet(q)
    BY <2>1, <1>8
  <2> QED BY <2>2, <1>3, <1>4, <1>7, <1>10 DEF t
<1> QED BY <1>9, <1>10

(* An entry moves to another slot of its path.                             *)
LEMMA MoveLemma ==
    ASSUME NEW hs, NEW t, Sound(hs, t), NEW old \in Slots(t), NEW new \in Slots(t),
           IsSet(t, old), ~IsSet(t, new), OnPath(t, hs[t.entries[old].key], new), NEW u,
           u = TableOf(t.alloc, [t.entries EXCEPT ![new] = t.entries[old], ![old] = Deleted],
                       Relinked(t.order, old, new), t.count)
    PROVE  /\ Sound(hs, u)
           /\ Items(u) = Items(t)
           /\ ~IsSet(u, old)
           /\ \A x \in Slots(t) :
                 t.entries[x].state # "unused" => u.entries[x].state # "unused"
           /\ \A k : NoKey(t, k) => NoKey(u, k)
<1>1. /\ u.alloc = t.alloc /\ u.count = t.count
      /\ u.order = ReplaceAll(t.order, old, new)
      /\ u.entries = [t.entries EXCEPT ![new] = t.entries[old], ![old] = Deleted]
      /\ u = TableOf(u.alloc, u.entries, u.order, u.count)
      /\ Slots(u) = Slots(t)
  BY DEF TableOf, Relinked, Slots
<1>2. /\ t.alloc \in Sizes /\ t.order \in Seq(Slots(t))
      /\ t.entries = [i \in Slots(t) |-> t.entries[i]]
      /\ IsInjective(t.order) /\ t.count = Len(t.order)
      /\ \A i \in Slots(t) : i \in ToSet(t.order) <=> IsSet(t, i)
  BY DEF Sound, Formed, Listed
<1>3. old # new
  OBVIOUS
<1>4. \A x \in Slots(t) : u.entries[x] = IF x = old THEN Deleted
                                         ELSE IF x = new THEN t.entries[old] ELSE t.entries[x]
  BY <1>1, <1>2, <1>3
<1>5. u.entries = [i \in Slots(t) |-> u.entries[i]]
  BY <1>1, <1>2
<1>6. \A x \in Slots(t) : IsSet(u, x) <=> x = new \/ (x # old /\ IsSet(t, x))
  BY <1>3, <1>4 DEF IsSet, Deleted
<1>7. \A x \in Slots(t) :
         t.entries[x].state # "unused" => u.entries[x].state # "unused"
  BY <1>3, <1>4 DEF IsSet, Deleted
<1>8. /\ u.order \in Seq(Slots(t)) /\ Len(u.order) = Len(t.order) /\ IsInjective(u.order)
      /\ ToSet(u.order) = (ToSet(t.order) \ {old}) \cup {new}
      /\ \A i \in 1 .. Len(t.order) :
            u.order[i] = IF t.order[i] = old THEN new ELSE t.order[i]
  <2>1. new \notin ToSet(t.order) /\ old \in ToSet(t.order)
    BY <1>2
  <2> DEFINE q == t.order
             S == Slots(t)
  <2>2. q \in Seq(S) /\ IsInjective(q) /\ new \in S /\ new \notin ToSet(q)
    BY <2>1, <1>2
  <2> HIDE DEF q, S
  <2>3. /\ ReplaceAll(q, old, new) \in Seq(S)
        /\ Len(ReplaceAll(q, old, new)) = Len(q)
        /\ \A i \in 1 .. Len(q) :
              ReplaceAll(q, old, new)[i] = IF q[i] = old THEN new ELSE q[i]
        /\ IsInjective(ReplaceAll(q, old, new))
        /\ ToSet(ReplaceAll(q, old, new)) =
              IF old \in ToSet(q) THEN (ToSet(q) \ {old}) \cup {new} ELSE ToSet(q)
    BY <2>2, ReplaceInjective, SMTT(40)
  <2> QED BY <2>1, <2>3, <1>1 DEF q, S
<1>9. Formed(u)
  BY <1>1, <1>2, <1>5, <1>8 DEF Formed
<1>10. Listed(u)
  BY <1>1, <1>2, <1>3, <1>6, <1>8 DEF Listed
<1>11. HasKeys(hs, t) /\ KeysOnce(t) /\ Reached(hs, t)
  BY DEF Sound
<1>12. \A x \in Slots(t) : IsSet(u, x) =>
          IF x = new THEN u.entries[x] = t.entries[old]
          ELSE x # old /\ IsSet(t, x) /\ u.entries[x] = t.entries[x]
  BY <1>3, <1>4, <1>6
<1>13. HasKeys(hs, u)
  BY <1>1, <1>11, <1>12 DEF HasKeys
<1>14. KeysOnce(u)
  BY <1>1, <1>11, <1>12, SMTT(40) DEF KeysOnce
<1>15. Reached(hs, u)
  <2> SUFFICES ASSUME NEW x \in Slots(t), IsSet(u, x)
               PROVE  OnPath(u, hs[u.entries[x].key], x)
    BY <1>1 DEF Reached
  <2>1. OnPath(t, hs[u.entries[x].key], x)
    BY <1>11, <1>12, SMTT(40) DEF Reached
  <2>2. hs[u.entries[x].key] \in Nat
    BY <1>1, <1>13 DEF HasKeys
  <2> QED BY <2>1, <2>2, <1>1, <1>2, <1>7, OnPathKept
<1>16. Items(u) = Items(t)
  <2>1. DOMAIN u.order = 1 .. Len(t.order) /\ DOMAIN t.order = 1 .. Len(t.order)
    BY <1>2, <1>8, LenProperties
  <2>2. ASSUME NEW i \in 1 .. Len(t.order)
        PROVE  u.entries[u.order[i]] = t.entries[t.order[i]]
    <3>1. t.order[i] \in Slots(t) /\ t.order[i] \in ToSet(t.order)
      BY <1>2, <2>1 DEF ToSet
    <3>2. IsSet(t, t.order[i])
      BY <3>1, <1>2
    <3> QED BY <3>1, <3>2, <1>3, <1>4, <1>8
  <2> QED BY <2>1, <2>2 DEF Items
<1>17. \A k : NoKey(t, k) => NoKey(u, k)
  BY <1>1, <1>12 DEF NoKey
<1>18. ~IsSet(u, old)
  BY <1>3, <1>6, SMTT(40)
<1> QED BY <1>7, <1>9, <1>10, <1>13, <1>14, <1>15, <1>16, <1>17, <1>18 DEF Sound

(* A new entry takes a slot that is not set on the path of its key.        *)
LEMMA PutLemma ==
    ASSUME NEW hs, NEW t, Sound(hs, t), NEW at \in Slots(t), ~IsSet(t, at),
           NEW slot, slot.state = "set", NEW k \in DOMAIN hs, hs[k] \in Nat, slot.key = k,
           NoKey(t, k), OnPath(t, hs[k], at), NEW o, NEW u,
           o = Behind(t.order, at) \/ o = Ahead(at, t.order),
           u = TableOf(t.alloc, Written(t.entries, at, slot), o, t.count + 1)
    PROVE  /\ Sound(hs, u)
           /\ o = Behind(t.order, at) => Items(u) = Behind(Items(t), ItemOf(slot))
           /\ o = Ahead(at, t.order) => Items(u) = Ahead(ItemOf(slot), Items(t))
<1>0. o = Append(t.order, at) \/ o = <<at>> \o t.order
  BY DEF Behind, Ahead
<1>1. /\ u.alloc = t.alloc /\ u.count = t.count + 1 /\ u.order = o
      /\ u.entries = [t.entries EXCEPT ![at] = slot]
      /\ u = TableOf(u.alloc, u.entries, u.order, u.count)
      /\ Slots(u) = Slots(t)
  BY DEF TableOf, Slots, Written
<1>2. /\ t.alloc \in Sizes /\ t.order \in Seq(Slots(t))
      /\ t.entries = [i \in Slots(t) |-> t.entries[i]]
      /\ IsInjective(t.order) /\ t.count = Len(t.order)
      /\ \A i \in Slots(t) : i \in ToSet(t.order) <=> IsSet(t, i)
  BY DEF Sound, Formed, Listed
<1>3. \A x \in Slots(t) : u.entries[x] = IF x = at THEN slot ELSE t.entries[x]
  BY <1>1, <1>2
<1>4. u.entries = [i \in Slots(t) |-> u.entries[i]]
  BY <1>1, <1>2
<1>5. \A x \in Slots(t) : IsSet(u, x) <=> x = at \/ IsSet(t, x)
  BY <1>3 DEF IsSet
<1>6. \A x \in Slots(t) :
         t.entries[x].state # "unused" => u.entries[x].state # "unused"
  BY <1>3
<1>7. at \notin ToSet(t.order)
  BY <1>2
<1>8. /\ o \in Seq(Slots(t)) /\ Len(o) = Len(t.order) + 1 /\ IsInjective(o)
      /\ ToSet(o) = ToSet(t.order) \cup {at}
  <2>1. CASE o = Append(t.order, at)
    BY <2>1, <1>2, <1>7, AppendInjectiveSeq
  <2>2. CASE o = <<at>> \o t.order
    <3>1. Len(o) = Len(t.order) + 1
      BY <2>2, <1>2
    <3> QED BY <2>2, <3>1, <1>2, <1>7, ConsInjective
  <2> QED BY <1>0, <2>1, <2>2
<1>9. Formed(u)
  BY <1>1, <1>2, <1>4, <1>8 DEF Formed
<1>10. Listed(u)
  BY <1>1, <1>2, <1>5, <1>8 DEF Listed
<1>11. HasKeys(hs, t) /\ KeysOnce(t) /\ Reached(hs, t)
  BY DEF Sound
<1>12. \A x \in Slots(t) : IsSet(u, x) =>
          IF x = at THEN u.entries[x] = slot /\ u.entries[x].key = k
          ELSE IsSet(t, x) /\ u.entries[x] = t.entries[x] /\ u.entries[x].key # k
  BY <1>3, <1>5 DEF NoKey
<1>13. HasKeys(hs, u)
  BY <1>1, <1>11, <1>12 DEF HasKeys
<1>14. KeysOnce(u)
  BY <1>1, <1>11, <1>12, SMTT(40) DEF KeysOnce
<1>15. Reached(hs, u)
  <2> SUFFICES ASSUME NEW x \in Slots(t), IsSet(u, x)
               PROVE  OnPath(u, hs[u.entries[x].key], x)
    BY <1>1 DEF Reached
  <2>1. OnPath(t, hs[u.entries[x].key], x)
    BY <1>11, <1>12 DEF Reached
  <2>2. hs[u.entries[x].key] \in Nat
    BY <1>1, <1>13 DEF HasKeys
  <2> QED BY <2>1, <2>2, <1>1, <1>2, <1>6, OnPathKept
<1>16. /\ Len(t.order) \in Nat
       /\ DOMAIN o = 1 .. Len(t.order) + 1 /\ DOMAIN t.order = 1 .. Len(t.order)
       /\ \A i \in 1 .. Len(t.order) : /\ t.order[i] \in Slots(t)
                                       /\ u.entries[t.order[i]] = t.entries[t.order[i]]
  <2>1. \A i \in 1 .. Len(t.order) : t.order[i] \in Slots(t) /\ t.order[i] # at
    BY <1>2, <1>7 DEF ToSet
  <2> QED BY <2>1, <1>2, <1>3, <1>8, LenProperties
<1> DEFINE its == [i \in 1 .. Len(t.order) |-> ItemOf(t.entries[t.order[i]])]
           all == [i \in 1 .. Len(t.order) + 1 |-> ItemOf(u.entries[o[i]])]
<1>17. Items(t) = its /\ Items(u) = all /\ u.entries[at] = slot
  BY <1>1, <1>3, <1>16 DEF Items
<1>18. ASSUME o = Append(t.order, at)
       PROVE  all = Append(its, ItemOf(slot))
  <2>1. /\ \A i \in 1 .. Len(t.order) : o[i] = t.order[i]
        /\ o[Len(t.order) + 1] = at
    BY <1>2, <1>18
  <2>3. \A i \in 1 .. Len(t.order) + 1 :
           all[i] = IF i <= Len(t.order) THEN its[i] ELSE ItemOf(slot)
    <3> TAKE i \in 1 .. Len(t.order) + 1
    <3>1. all[i] = ItemOf(u.entries[o[i]])
      OBVIOUS
    <3>2. CASE i <= Len(t.order)
      <4>1. i \in 1 .. Len(t.order)
        BY <3>2, <1>16
      <4> QED BY <3>1, <3>2, <4>1, <2>1, <1>16
    <3>3. CASE ~(i <= Len(t.order))
      <4>1. i = Len(t.order) + 1
        BY <3>3, <1>16
      <4> QED BY <3>1, <3>3, <4>1, <2>1, <1>17
    <3> QED BY <3>2, <3>3
  <2>5. Append(its, ItemOf(slot)) =
           [i \in 1 .. Len(t.order) + 1 |-> IF i <= Len(t.order) THEN its[i] ELSE ItemOf(slot)]
    BY <1>16, ExtendTuple
  <2> QED BY <2>3, <2>5
<1>19. ASSUME o = <<at>> \o t.order
       PROVE  all = <<ItemOf(slot)>> \o its
  <2>1. /\ \A i \in 1 .. Len(t.order) : o[i + 1] = t.order[i]
        /\ o[1] = at
    BY <1>2, <1>19
  <2>3. \A i \in 1 .. Len(t.order) + 1 :
           all[i] = IF i = 1 THEN ItemOf(slot) ELSE its[i - 1]
    <3> TAKE i \in 1 .. Len(t.order) + 1
    <3>1. all[i] = ItemOf(u.entries[o[i]])
      OBVIOUS
    <3>2. CASE i = 1
      BY <3>1, <3>2, <2>1, <1>17
    <3>3. CASE i # 1
      <4>1. i - 1 \in 1 .. Len(t.order) /\ (i - 1) + 1 = i
        BY <3>3, <1>16
      <4>2. o[i] = t.order[i - 1]
        BY <4>1, <2>1
      <4>3. its[i - 1] = ItemOf(t.entries[t.order[i - 1]])
        BY <4>1
      <4>4. all[i] = its[i - 1]
        BY <3>1, <4>1, <4>2, <4>3, <1>16
      <4> QED BY <3>3, <4>4
    <3> QED BY <3>2, <3>3
  <2>5. <<ItemOf(slot)>> \o its =
           [i \in 1 .. Len(t.order) + 1 |-> IF i = 1 THEN ItemOf(slot) ELSE its[i - 1]]
    BY <1>16, ExtendTuple
  <2> QED BY <2>3, <2>5
<1> QED BY <1>9, <1>10, <1>13, <1>14, <1>15, <1>17, <1>18, <1>19 DEF Sound, Behind, Ahead

-------------------------------------------------------------------------------

(* A few steps on from an entry, over set slots, the path of its hash goes *)
(* on, or is around again.                                                 *)
LEMMA OnwardLemma ==
    ASSUME NEW t, t.alloc \in Sizes, NEW h \in Nat, NEW old \in Slots(t), IsSet(t, old),
           OnPath(t, h, old), NEW m \in 1 .. t.alloc,
           \A j \in 1 .. m - 1 : IsSet(t, Onward(t, h, old, j))
    PROVE  /\ Onward(t, h, old, m) \in Slots(t)
           /\ OnPath(t, h, Onward(t, h, old, m))
<1> DEFINE a == t.alloc
<1>1. a \in Nat /\ a > 2 /\ Slots(t) = 0 .. a - 1
  BY SizesLemma DEF Slots
<1>2. PICK n \in 0 .. a - 1 : /\ Probe(t, h, n) = old
                              /\ \A q \in 0 .. n - 1 :
                                    t.entries[Probe(t, h, q)].state # "unused"
  BY <1>1 DEF OnPath
<1>3. /\ \A i \in Nat : Probe(t, h, i) \in 0 .. a - 1
      /\ \A i, j \in Nat : Onward(t, h, Probe(t, h, i), j) = Probe(t, h, i + j)
      /\ \A i \in Nat : Probe(t, h, i + a) = Probe(t, h, i)
  <2>1. \A i \in Nat : Probe(t, h, i) \in 0 .. t.alloc - 1
    BY PathLemma
  <2>2. \A i, j \in Nat : Onward(t, h, Probe(t, h, i), j) = Probe(t, h, i + j)
    BY PathLemma
  <2>3. \A i \in Nat : Probe(t, h, i + t.alloc) = Probe(t, h, i)
    BY PathLemma
  <2> QED BY <2>1, <2>2, <2>3
<1> HIDE DEF a
<1>4. n \in Nat /\ m \in Nat /\ m \in 1 .. a
  BY <1>1, <1>2 DEF a
<1>5. \A j \in Nat : Onward(t, h, old, j) = Probe(t, h, n + j)
  BY <1>2, <1>3, <1>4
<1>6. \A i : IsSet(t, i) => t.entries[i].state # "unused"
  BY DEF IsSet
<1>7. \A q \in 0 .. n + m - 1 : t.entries[Probe(t, h, q)].state # "unused"
  <2> TAKE q \in 0 .. n + m - 1
  <2>1. CASE q < n
    <3>1. q \in 0 .. n - 1
      BY <2>1, <1>4
    <3> QED BY <3>1, <1>2
  <2>2. CASE q = n
    BY <2>2, <1>2, <1>6
  <2>3. CASE q > n
    <3>1. q - n \in 1 .. m - 1 /\ q - n \in Nat /\ n + (q - n) = q
      BY <2>3, <1>4
    <3>2. IsSet(t, Probe(t, h, q))
      BY <3>1, <1>5
    <3> QED BY <3>2, <1>6
  <2> QED BY <2>1, <2>2, <2>3, <1>4
<1>8. Onward(t, h, old, m) = Probe(t, h, n + m) /\ Probe(t, h, n + m) \in 0 .. a - 1
  BY <1>3, <1>4, <1>5
<1>9. CASE n + m < a
  <2>1. n + m \in 0 .. a - 1
    BY <1>1, <1>4, <1>9
  <2> QED BY <2>1, <1>1, <1>7, <1>8 DEF OnPath
<1>10. CASE n + m >= a
  <2> DEFINE p == n + m - a
  <2>1. p \in 0 .. a - 1 /\ p \in Nat /\ p + a = n + m /\ \A q \in 0 .. p - 1 : q \in 0 .. n + m - 1
    BY <1>1, <1>2, <1>4, <1>10, SMTT(40)
  <2> HIDE DEF p
  <2>2. Probe(t, h, p) = Probe(t, h, n + m)
    BY <2>1, <1>3
  <2> QED BY <2>1, <2>2, <1>1, <1>7, <1>8 DEF OnPath
<1> QED BY <1>1, <1>4, <1>9, <1>10

(* The slot for a new entry, once an entry may have moved away from it.    *)
LEMMA PlaceLemma ==
    ASSUME NEW t, Sound(hash, t), t.count < t.alloc, NEW k \in Keys, hash[k] \in Nat,
           NoKey(t, k), NEW p, p = Place(t, hash[k])
    PROVE  /\ p.at \in Slots(t)
           /\ p.t = TableOf(t.alloc, p.t.entries, p.t.order, t.count)
           /\ \E u : MakesRoom(hash, t, k, p, u)
<1> DEFINE h == hash[k]
           worst == Worst(t, h)
           better == Better(t, h, worst)
           old == Probe(t, h, better.len - 1)
           g == hash[t.entries[old].key]
           new == Onward(t, g, old, better.moves)
           moved == [t EXCEPT !.entries[new] = t.entries[old],
                              !.order = Relinked(@, old, new)]
<1>1. /\ h \in Nat /\ t.alloc \in Sizes /\ t.alloc \in Nat /\ t.alloc > 2
      /\ Slots(t) = 0 .. t.alloc - 1
  BY SizesLemma DEF Sound, Formed, Slots
<1>2. /\ worst \in 1 .. t.alloc
      /\ ~IsSet(t, Probe(t, h, worst - 1))
      /\ \A j \in 0 .. worst - 2 : IsSet(t, Probe(t, h, j))
  BY <1>1, WorstLemma DEF Sound
<1>3. p = IF worst <= 2 \/ better.len = 0
          THEN [t |-> t, at |-> Probe(t, h, worst - 1)]
          ELSE [t |-> moved, at |-> old]
  BY DEF Place
<1>4. /\ \A i \in Nat : Probe(t, h, i) \in 0 .. t.alloc - 1
      /\ \A i : IsSet(t, i) => t.entries[i].state # "unused"
  BY <1>1, PathLemma DEF IsSet
<1>5. \A n \in 1 .. worst : /\ n - 1 \in Slots(t) /\ Probe(t, h, n - 1) \in Slots(t)
                            /\ OnPath(t, h, Probe(t, h, n - 1))
  <2> TAKE n \in 1 .. worst
  <2>1. n - 1 \in Nat /\ n - 1 \in Slots(t)
    BY <1>1, <1>2
  <2>2. \A j \in 0 .. n - 1 - 1 : t.entries[Probe(t, h, j)].state # "unused"
    <3>1. \A j \in 0 .. n - 1 - 1 : j \in 0 .. worst - 2
      BY <1>2
    <3> QED BY <3>1, <1>2, <1>4
  <2> QED BY <2>1, <2>2, <1>1, <1>4 DEF OnPath
<1> HIDE DEF h, worst, better, moved
<1>6. CASE worst <= 2 \/ better.len = 0
  <2>1. p.t = t /\ p.at = Probe(t, h, worst - 1) /\ worst \in 1 .. worst
    BY <1>2, <1>3, <1>6
  <2>2. p.at \in Slots(t) /\ ~IsSet(t, p.at) /\ OnPath(t, h, p.at)
    BY <2>1, <1>2, <1>5
  <2>3. t = TableOf(t.alloc, t.entries, t.order, t.count)
    BY DEF Sound, Formed
  <2>4. MakesRoom(hash, t, k, p, t)
    BY <2>1, <2>2 DEF h, MakesRoom
  <2> QED BY <2>1, <2>2, <2>3, <2>4
<1>7. CASE ~(worst <= 2 \/ better.len = 0)
  <2>1. p.t = moved /\ p.at = old /\ worst \in Nat /\ worst > 2 /\ better.len # 0
    BY <1>2, <1>3, <1>7
  <2>2. /\ better.len \in 1 .. worst - 2
        /\ better.moves = Moves(t, old, better.len, worst)
        /\ better.moves # 0
    BY <2>1, BetterLemma DEF better
  <2>3. better.len \in 1 .. worst /\ better.len \in Nat /\ better.len - 1 \in 0 .. worst - 2
    BY <2>1, <2>2
  <2>4. old \in Slots(t) /\ IsSet(t, old) /\ OnPath(t, h, old)
    BY <2>3, <1>2, <1>5
  <2> HIDE DEF old
  <2>5. /\ better.moves \in 1 .. worst
        /\ ~IsSet(t, new)
        /\ \A j \in 1 .. better.moves - 1 : IsSet(t, Onward(t, g, old, j))
    BY <2>1, <2>2, <2>3, MovesLemma
  <2>6. g \in Nat /\ OnPath(t, g, old) /\ better.moves \in 1 .. t.alloc
    BY <2>4, <2>5, <1>1, <1>2 DEF Sound, HasKeys, Reached
  <2>7. new \in Slots(t) /\ OnPath(t, g, new)
    BY <2>4, <2>5, <2>6, <1>1, OnwardLemma
  <2> HIDE DEF new
  <2> DEFINE u == TableOf(t.alloc, [t.entries EXCEPT ![new] = t.entries[old], ![old] = Deleted],
                          Relinked(t.order, old, new), t.count)
  <2>8. /\ Sound(hash, u)
        /\ Items(u) = Items(t)
        /\ ~IsSet(u, old)
        /\ \A x \in Slots(t) :
              t.entries[x].state # "unused" => u.entries[x].state # "unused"
        /\ NoKey(u, k)
    <3>1. OnPath(t, hash[t.entries[old].key], new)
      BY <2>7
    <3> HIDE DEF g
    <3> QED BY <3>1, <2>4, <2>5, <2>7, MoveLemma
  <2>9. /\ u.alloc = t.alloc /\ u.count = t.count
        /\ u.entries = [t.entries EXCEPT ![new] = t.entries[old], ![old] = Deleted]
        /\ u.order = Relinked(t.order, old, new)
    BY DEF TableOf
  <2>10. /\ t = TableOf(t.alloc, t.entries, t.order, t.count)
         /\ t.entries = [i \in Slots(t) |-> t.entries[i]]
    BY DEF Sound, Formed
  <2>11. moved = TableOf(t.alloc, [t.entries EXCEPT ![new] = t.entries[old]],
                         Relinked(t.order, old, new), t.count)
    <3> DEFINE al == t.alloc
               en == t.entries
               os == t.order
               co == t.count
               en2 == [en EXCEPT ![new] = en[old]]
               os2 == Relinked(os, old, new)
    <3>1. moved = [t EXCEPT !.entries = en2, !.order = os2]
      BY DEF moved
    <3>2. t = [alloc |-> al, entries |-> en, order |-> os, count |-> co]
      BY <2>10 DEF TableOf
    <3> HIDE DEF al, en, os, co, en2, os2
    <3>3. moved = [alloc |-> al, entries |-> en2, order |-> os2, count |-> co]
      BY <3>1, <3>2
    <3> QED BY <3>3 DEF al, en, os, co, en2, os2, TableOf
  <2>12. /\ moved.entries = [t.entries EXCEPT ![new] = t.entries[old]]
         /\ moved.order = Relinked(t.order, old, new)
         /\ moved = TableOf(t.alloc, moved.entries, moved.order, t.count)
    BY <2>11 DEF TableOf
  <2> HIDE DEF u
  <2>13. \A e : Written(moved.entries, old, e) = Written(u.entries, old, e)
    BY <2>4, <2>7, <2>9, <2>10, <2>12 DEF Written
  <2>14. OnPath(u, h, old)
    BY <2>4, <2>8, <2>9, <1>1, OnPathKept
  <2>15. MakesRoom(hash, t, k, p, u)
    BY <2>1, <2>8, <2>9, <2>12, <2>13, <2>14 DEF h, MakesRoom
  <2> QED BY <2>1, <2>4, <2>12, <2>15
<1> QED BY <1>6, <1>7

-------------------------------------------------------------------------------

(* lws_table_insert at the end of the order list.                          *)
LEMMA InsertedLemma ==
    ASSUME NEW t, Sound(hash, t), t.count < t.alloc, NEW k \in Keys, hash[k] \in Nat,
           NoKey(t, k), NEW slot, slot.state = "set", slot.key = k, NEW v,
           v = Inserted(t, k, slot)
    PROVE  /\ Sound(hash, v)
           /\ v.alloc = t.alloc
           /\ v.count = t.count + 1
           /\ Items(v) = Behind(Items(t), ItemOf(slot))
<1> PICK p : p = Place(t, hash[k])
  OBVIOUS
<1>1. /\ p.at \in Slots(t)
      /\ p.t = TableOf(t.alloc, p.t.entries, p.t.order, t.count)
      /\ \E u : MakesRoom(hash, t, k, p, u)
  BY PlaceLemma
<1>2. v = [p.t EXCEPT !.entries[p.at] = slot, !.order = Append(@, p.at), !.count = @ + 1]
  BY DEF Inserted
<1> DEFINE at == p.at
           os == p.t.order
           o == Behind(os, at)
           en == p.t.entries
           en2 == Written(en, at, slot)
<1>3. v = TableOf(t.alloc, en2, o, t.count + 1)
  <2> DEFINE pt == p.t
             al == t.alloc
             co == t.count
             co2 == t.count + 1
  <2>1. pt = [alloc |-> al, entries |-> en, order |-> os, count |-> co]
    BY <1>1 DEF TableOf
  <2>2. v = [pt EXCEPT !.entries = en2, !.order = o, !.count = co2]
    <3>1. p.t.count = t.count
      BY <2>1
    <3> QED BY <1>2, <3>1 DEF Written, Behind, Ahead
  <2> HIDE DEF pt, al, en, os, co, en2, o, co2
  <2>3. v = [alloc |-> al, entries |-> en2, order |-> o, count |-> co2]
    BY <2>1, <2>2
  <2> QED BY <2>3 DEF al, co2, TableOf
<1>4. PICK u : MakesRoom(hash, t, k, p, u)
  BY <1>1
<1>5. /\ Sound(hash, u) /\ Items(u) = Items(t) /\ NoKey(u, k)
      /\ u.alloc = t.alloc /\ u.order = os /\ u.count = t.count
      /\ ~IsSet(u, at) /\ OnPath(u, hash[k], at)
      /\ en2 = Written(u.entries, at, slot)
      /\ at \in Slots(u)
  BY <1>1, <1>4 DEF MakesRoom, Slots
<1>6. v = TableOf(u.alloc, Written(u.entries, at, slot), o, u.count + 1)
  BY <1>3, <1>5
<1>7. o = Behind(u.order, at)
  BY <1>5
<1> HIDE DEF at, os, o, en, en2
<1>8. /\ Sound(hash, v)
      /\ o = Behind(u.order, at) => Items(v) = Behind(Items(u), ItemOf(slot))
      /\ o = Ahead(at, u.order) => Items(v) = Ahead(ItemOf(slot), Items(u))
  <2>1. k \in DOMAIN hash /\ slot.key = k
    BY DEF Keys
  <2>2. /\ Sound(hash, u) /\ at \in Slots(u) /\ ~IsSet(u, at)
        /\ slot.state = "set" /\ k \in DOMAIN hash /\ hash[k] \in Nat /\ slot.key = k
        /\ NoKey(u, k) /\ OnPath(u, hash[k], at)
        /\ o = Behind(u.order, at) \/ o = Ahead(at, u.order)
        /\ v = TableOf(u.alloc, Written(u.entries, at, slot), o, u.count + 1)
    BY <2>1, <1>5, <1>6, <1>7
  <2> QED BY <2>2, PutLemma
<1>9. v.alloc = t.alloc /\ v.count = t.count + 1
  BY <1>3 DEF TableOf
<1> QED BY <1>5, <1>7, <1>8, <1>9

(* ... and at its front, as lws_table_rehash does.                         *)
LEMMA ReinsertedLemma ==
    ASSUME NEW t, Sound(hash, t), t.count < t.alloc, NEW slot, slot.state = "set",
           slot.key \in Keys, hash[slot.key] \in Nat, NoKey(t, slot.key), NEW v,
           v = Reinserted(slot, t)
    PROVE  /\ Sound(hash, v)
           /\ v.alloc = t.alloc
           /\ v.count = t.count + 1
           /\ Items(v) = Ahead(ItemOf(slot), Items(t))
<1> PICK k \in Keys : k = slot.key
  OBVIOUS
<1> PICK p : p = Place(t, hash[k])
  OBVIOUS
<1>1. /\ p.at \in Slots(t)
      /\ p.t = TableOf(t.alloc, p.t.entries, p.t.order, t.count)
      /\ \E u : MakesRoom(hash, t, k, p, u)
  BY PlaceLemma
<1>2. v = [p.t EXCEPT !.entries[p.at] = slot, !.order = <<p.at>> \o @, !.count = @ + 1]
  BY DEF Reinserted
<1> DEFINE at == p.at
           os == p.t.order
           o == Ahead(at, os)
           en == p.t.entries
           en2 == Written(en, at, slot)
<1>3. v = TableOf(t.alloc, en2, o, t.count + 1)
  <2> DEFINE pt == p.t
             al == t.alloc
             co == t.count
             co2 == t.count + 1
  <2>1. pt = [alloc |-> al, entries |-> en, order |-> os, count |-> co]
    BY <1>1 DEF TableOf
  <2>2. v = [pt EXCEPT !.entries = en2, !.order = o, !.count = co2]
    <3>1. p.t.count = t.count
      BY <2>1
    <3> QED BY <1>2, <3>1 DEF Written, Behind, Ahead
  <2> HIDE DEF pt, al, en, os, co, en2, o, co2
  <2>3. v = [alloc |-> al, entries |-> en2, order |-> o, count |-> co2]
    BY <2>1, <2>2
  <2> QED BY <2>3 DEF al, co2, TableOf
<1>4. PICK u : MakesRoom(hash, t, k, p, u)
  BY <1>1
<1>5. /\ Sound(hash, u) /\ Items(u) = Items(t) /\ NoKey(u, k)
      /\ u.alloc = t.alloc /\ u.order = os /\ u.count = t.count
      /\ ~IsSet(u, at) /\ OnPath(u, hash[k], at)
      /\ en2 = Written(u.entries, at, slot)
      /\ at \in Slots(u)
  BY <1>1, <1>4 DEF MakesRoom, Slots
<1>6. v = TableOf(u.alloc, Written(u.entries, at, slot), o, u.count + 1)
  BY <1>3, <1>5
<1>7. o = Ahead(at, u.order)
  BY <1>5
<1> HIDE DEF at, os, o, en, en2
<1>8. /\ Sound(hash, v)
      /\ o = Behind(u.order, at) => Items(v) = Behind(Items(u), ItemOf(slot))
      /\ o = Ahead(at, u.order) => Items(v) = Ahead(ItemOf(slot), Items(u))
  <2>1. k \in DOMAIN hash /\ slot.key = k
    BY DEF Keys
  <2>2. /\ Sound(hash, u) /\ at \in Slots(u) /\ ~IsSet(u, at)
        /\ slot.state = "set" /\ k \in DOMAIN hash /\ hash[k] \in Nat /\ slot.key = k
        /\ NoKey(u, k) /\ OnPath(u, hash[k], at)
        /\ o = Behind(u.order, at) \/ o = Ahead(at, u.order)
        /\ v = TableOf(u.alloc, Written(u.entries, at, slot), o, u.count + 1)
    BY <2>1, <1>5, <1>6, <1>7
  <2> QED BY <2>2, PutLemma
<1>9. v.alloc = t.alloc /\ v.count = t.count + 1
  BY <1>3 DEF TableOf
<1> QED BY <1>5, <1>7, <1>8, <1>9

(* lws_table_create and lws_table_clear: an empty table is sound.          *)
LEMMA EmptyLemma ==
    ASSUME NEW hs, NEW m \in Sizes, NEW t, t = Empty(m)
    PROVE  /\ Sound(hs, t) /\ t.alloc = m /\ t.count = 0
           /\ Items(t) = <<>>
           /\ \A k : NoKey(t, k)
<1>1. /\ t = TableOf(m, [i \in 0 .. m - 1 |-> Unused], <<>>, 0)
      /\ t.alloc = m /\ t.entries = [i \in 0 .. m - 1 |-> Unused]
      /\ t.order = <<>> /\ t.count = 0
      /\ Slots(t) = 0 .. m - 1
  BY DEF Empty, TableOf, Slots
<1>2. \A i \in Slots(t) : ~IsSet(t, i)
  <2>1. \A i \in Slots(t) : t.entries[i] = Unused
    BY <1>1
  <2> QED BY <2>1 DEF IsSet, Unused
<1>3. /\ t.order \in Seq(Slots(t)) /\ DOMAIN t.order = {} /\ Len(t.order) = 0
      /\ ToSet(t.order) = {} /\ IsInjective(t.order)
  <2> DEFINE q == t.order
  <2>1. q = <<>>
    BY <1>1
  <2>2. q \in Seq(Slots(t)) /\ DOMAIN q = {} /\ Len(q) = 0
    BY <2>1
  <2> HIDE DEF q
  <2>3. ToSet(q) = {} /\ IsInjective(q)
    BY <2>2 DEF ToSet, IsInjective
  <2> QED BY <2>2, <2>3 DEF q
<1>4. Formed(t)
  BY <1>1, <1>3 DEF Formed
<1>5. Listed(t)
  BY <1>1, <1>2, <1>3 DEF Listed
<1>6. HasKeys(hs, t) /\ KeysOnce(t) /\ Reached(hs, t) /\ \A k : NoKey(t, k)
  BY <1>2 DEF HasKeys, KeysOnce, Reached, NoKey
<1>7. Items(t) = <<>>
  BY <1>3 DEF Items
<1> QED BY <1>1, <1>4, <1>5, <1>6, <1>7 DEF Sound

(* lws_table_find.                                                         *)
LEMMA FindLemma ==
    ASSUME NEW t, Sound(hash, t), NEW k \in Keys, hash[k] \in Nat
    PROVE  /\ NoKey(t, k) => Find(t, k) = None
           /\ \A i \in Slots(t) : IsSet(t, i) /\ t.entries[i].key = k => Find(t, k) = i
<1> DEFINE h == hash[k]
           Ends(i) == LET e == t.entries[Probe(t, h, i)]
                      IN  e.state = "unused" \/ (e.state = "set" /\ e.key = k)
           stops == {i \in 0 .. t.alloc - 1 : Ends(i)}
           w == Min(stops)
<1>1. Find(t, k) = IF stops = {} THEN None
                   ELSE IF IsSet(t, Probe(t, h, w)) THEN Probe(t, h, w) ELSE None
  BY DEF Find
<1>2. /\ h \in Nat /\ t.alloc \in Sizes /\ t.alloc \in Nat /\ t.alloc > 2
      /\ Slots(t) = 0 .. t.alloc - 1
  BY SizesLemma DEF Sound, Formed, Slots
<1>3. \A i \in Nat : Probe(t, h, i) \in Slots(t)
  BY <1>2, PathLemma
<1>4. stops # {} => w \in stops /\ \A y \in stops : w <= y
  <2>1. stops \subseteq Nat
    BY <1>2
  <2> HIDE DEF stops
  <2> QED BY <2>1, MinFacts
<1>5. \A y : y \in stops <=> y \in 0 .. t.alloc - 1 /\ Ends(y)
  OBVIOUS
<1> HIDE DEF stops, w, h
<1>6. ASSUME NoKey(t, k)
      PROVE  Find(t, k) = None
  <2>1. CASE stops # {}
    <3>1. w \in 0 .. t.alloc - 1 /\ Ends(w) /\ Probe(t, h, w) \in Slots(t)
      BY <2>1, <1>2, <1>3, <1>4, <1>5, SMTT(40)
    <3>2. ~IsSet(t, Probe(t, h, w))
      BY <3>1, <1>6 DEF NoKey, IsSet
    <3> QED BY <3>2, <1>1
  <2> QED BY <2>1, <1>1
<1>7. ASSUME NEW i \in Slots(t), IsSet(t, i), t.entries[i].key = k
      PROVE  Find(t, k) = i
  <2>1. OnPath(t, h, i)
    BY <1>7 DEF Sound, Reached, h
  <2>2. PICK n \in 0 .. t.alloc - 1 :
           /\ Probe(t, h, n) = i
           /\ \A m \in 0 .. n - 1 : t.entries[Probe(t, h, m)].state # "unused"
    BY <2>1, <1>2 DEF OnPath
  <2>3. n \in stops
    BY <2>2, <1>5, <1>7 DEF IsSet
  <2>4. w \in 0 .. t.alloc - 1 /\ Ends(w) /\ w <= n /\ stops # {}
    BY <2>3, <1>4, <1>5
  <2>5. Probe(t, h, w) = i
    <3>1. CASE w = n
      BY <3>1, <2>2
    <3>2. CASE w # n
      <4>1. w \in 0 .. n - 1
        BY <3>2, <2>4, <1>2
      <4>2. t.entries[Probe(t, h, w)].state = "set" /\ t.entries[Probe(t, h, w)].key = k
        BY <4>1, <2>2, <2>4
      <4>3. Probe(t, h, w) \in Slots(t)
        BY <2>4, <1>3
      <4> QED BY <4>2, <4>3, <1>7 DEF Sound, KeysOnce, IsSet
    <3> QED BY <3>1, <3>2
  <2> QED BY <2>4, <2>5, <1>1, <1>7
<1> QED BY <1>6, <1>7

(* A list without its n-th entry.                                          *)
Lacking(its, n) ==
    [j \in 1 .. Len(its) - 1 |-> IF j < n THEN its[j] ELSE its[j + 1]]

(* What a table holds, entry by entry in the order of the list.            *)
LEMMA ItemsLemma ==
    ASSUME NEW t, Formed(t), Listed(t)
    PROVE  /\ Len(t.order) \in Nat /\ t.count = Len(t.order)
           /\ DOMAIN t.order = 1 .. Len(t.order)
           /\ Items(t) = [n \in 1 .. Len(t.order) |-> ItemOf(t.entries[t.order[n]])]
           /\ Items(t) = [n \in 1 .. Len(t.order) |-> Items(t)[n]]
           /\ Len(Items(t)) = Len(t.order)
           /\ DOMAIN Items(t) = 1 .. Len(t.order)
           /\ \A n \in 1 .. Len(t.order) :
                 /\ t.order[n] \in Slots(t)
                 /\ IsSet(t, t.order[n])
                 /\ Items(t)[n] = ItemOf(t.entries[t.order[n]])
                 /\ Items(t)[n].key = t.entries[t.order[n]].key
                 /\ Items(t)[n].value = t.entries[t.order[n]].value
                 /\ Items(t)[n].time = t.entries[t.order[n]].time
<1>1. t.order \in Seq(Slots(t))
  BY DEF Formed
<1>2. /\ Len(t.order) \in Nat /\ t.count = Len(t.order)
      /\ DOMAIN t.order = 1 .. Len(t.order)
      /\ \A n \in 1 .. Len(t.order) : t.order[n] \in Slots(t)
  BY <1>1, LenProperties DEF Listed
<1>3. Items(t) = [n \in 1 .. Len(t.order) |-> ItemOf(t.entries[t.order[n]])]
  BY <1>2 DEF Items
<1>4. \A n \in 1 .. Len(t.order) : IsSet(t, t.order[n])
  <2>1. \A n \in 1 .. Len(t.order) : t.order[n] \in ToSet(t.order)
    BY <1>2 DEF ToSet
  <2> QED BY <2>1, <1>2 DEF Listed
<1>5. \A n \in 1 .. Len(t.order) : Items(t)[n] = ItemOf(t.entries[t.order[n]])
  BY <1>3
<1>6. \A e : ItemOf(e).key = e.key /\ ItemOf(e).value = e.value /\ ItemOf(e).time = e.time
  BY DEF ItemOf
<1>7. Items(t) = [n \in 1 .. Len(t.order) |-> Items(t)[n]] /\ DOMAIN Items(t) = 1 .. Len(t.order)
  BY <1>3
<1>8. Len(Items(t)) = Len(t.order)
  BY <1>2, <1>7
<1> QED BY <1>2, <1>3, <1>4, <1>5, <1>6, <1>7, <1>8

(* A set slot is at one position of the order list.                        *)
LEMMA PositionLemma ==
    ASSUME NEW t, Formed(t), Listed(t), NEW i \in Slots(t), IsSet(t, i)
    PROVE  /\ PositionOf(t.order, i) \in 1 .. Len(t.order)
           /\ t.order[PositionOf(t.order, i)] = i
           /\ \A n \in 1 .. Len(t.order) : t.order[n] = i => n = PositionOf(t.order, i)
<1>1. DOMAIN t.order = 1 .. Len(t.order)
  BY ItemsLemma
<1>2. i \in ToSet(t.order)
  BY DEF Listed
<1>3. \E n \in DOMAIN t.order : t.order[n] = i
  BY <1>2 DEF ToSet
<1>4. PositionOf(t.order, i) \in DOMAIN t.order /\ t.order[PositionOf(t.order, i)] = i
  BY <1>3, Zenon DEF PositionOf
<1> QED BY <1>1, <1>4 DEF Listed, IsInjective

(* Other lists of the same slots leave the paths as they are.              *)
LEMMA SamePaths ==
    ASSUME NEW hs, NEW t, NEW u, u.alloc = t.alloc, u.entries = t.entries,
           HasKeys(hs, t) /\ KeysOnce(t) /\ Reached(hs, t)
    PROVE  HasKeys(hs, u) /\ KeysOnce(u) /\ Reached(hs, u)
<1>1. Slots(u) = Slots(t) /\ \A i : IsSet(u, i) <=> IsSet(t, i)
  BY DEF Slots, IsSet
<1>2. \A h, i : Probe(u, h, i) = Probe(t, h, i)
  BY DEF Probe, Onward, Step
<1>3. \A h, i : OnPath(u, h, i) <=> OnPath(t, h, i)
  BY <1>1, <1>2 DEF OnPath
<1> QED BY <1>1, <1>3 DEF HasKeys, KeysOnce, Reached

(* lws_table_remove.                                                       *)
LEMMA RemovedLemma ==
    ASSUME NEW hs, NEW t, Sound(hs, t), NEW i \in Slots(t), IsSet(t, i), NEW u,
           u = Removed(t, i)
    PROVE  /\ Sound(hs, u)
           /\ u.alloc = t.alloc
           /\ u.count = t.count - 1
           /\ Items(u) = Lacking(Items(t), PositionOf(t.order, i))
           /\ NoKey(u, t.entries[i].key)
           /\ \A k : NoKey(t, k) => NoKey(u, k)
<1> DEFINE n == PositionOf(t.order, i)
           os == t.order
           os2 == RemoveAt(os, n)
           en == t.entries
           en2 == Written(en, i, Deleted)
<1>1. /\ t = TableOf(t.alloc, en, os, t.count)
      /\ t.alloc \in Sizes /\ os \in Seq(Slots(t))
      /\ en = [x \in Slots(t) |-> en[x]]
      /\ IsInjective(os) /\ t.count = Len(os)
      /\ \A x \in Slots(t) : x \in ToSet(os) <=> IsSet(t, x)
  BY DEF Sound, Formed, Listed
<1>2. Formed(t) /\ Listed(t) /\ HasKeys(hs, t) /\ KeysOnce(t) /\ Reached(hs, t)
  BY DEF Sound
<1>3. n \in 1 .. Len(os) /\ os[n] = i /\ Len(os) \in Nat
  BY <1>2, PositionLemma, ItemsLemma
<1>4. u = TableOf(t.alloc, en2, os2, t.count - 1)
  <2> DEFINE al == t.alloc
             co == t.count
             co2 == t.count - 1
  <2>1. t = [alloc |-> al, entries |-> en, order |-> os, count |-> co]
    BY <1>1 DEF TableOf
  <2>2. u = [t EXCEPT !.entries = en2, !.order = os2, !.count = co2]
    BY DEF Removed, Unlinked, Written
  <2> HIDE DEF al, en, os, co, en2, os2, co2
  <2>3. u = [alloc |-> al, entries |-> en2, order |-> os2, count |-> co2]
    BY <2>1, <2>2
  <2> QED BY <2>3 DEF al, co2, TableOf
<1>5. /\ u.alloc = t.alloc /\ u.count = t.count - 1 /\ u.order = os2 /\ u.entries = en2
      /\ u = TableOf(u.alloc, u.entries, u.order, u.count)
      /\ Slots(u) = Slots(t)
  BY <1>4 DEF TableOf, Slots
<1>6. \A x \in Slots(t) : u.entries[x] = IF x = i THEN Deleted ELSE t.entries[x]
  BY <1>1, <1>5 DEF Written
<1>7. u.entries = [x \in Slots(t) |-> u.entries[x]]
  BY <1>1, <1>5 DEF Written
<1>8. \A x \in Slots(t) : IsSet(u, x) <=> x # i /\ IsSet(t, x)
  BY <1>6 DEF IsSet, Deleted
<1>9. \A x \in Slots(t) :
         t.entries[x].state # "unused" => u.entries[x].state # "unused"
  BY <1>6 DEF Deleted
<1>10. /\ os2 \in Seq(Slots(t)) /\ IsInjective(os2) /\ ToSet(os2) = ToSet(os) \ {os[n]}
       /\ Len(os2) = Len(os) - 1
       /\ \A j \in 1 .. Len(os) - 1 : os2[j] = IF j < n THEN os[j] ELSE os[j + 1]
  <2> HIDE DEF n, os
  <2> QED BY <1>1, <1>3, RemoveInjective, RemoveAtSeq, ZenonT(60)
<1>11. Formed(u)
  BY <1>1, <1>5, <1>7, <1>10 DEF Formed
<1>12. Listed(u)
  BY <1>1, <1>3, <1>5, <1>8, <1>10 DEF Listed
<1>13. \A x \in Slots(t) :
          IsSet(u, x) => IsSet(t, x) /\ x # i /\ u.entries[x] = t.entries[x]
  BY <1>6, <1>8
<1>14. HasKeys(hs, u)
  BY <1>2, <1>5, <1>13 DEF HasKeys
<1>15. KeysOnce(u)
  BY <1>2, <1>5, <1>13 DEF KeysOnce
<1>16. Reached(hs, u)
  <2> SUFFICES ASSUME NEW x \in Slots(t), IsSet(u, x)
               PROVE  OnPath(u, hs[u.entries[x].key], x)
    BY <1>5 DEF Reached
  <2>1. OnPath(t, hs[u.entries[x].key], x)
    BY <1>2, <1>13 DEF Reached
  <2>2. hs[u.entries[x].key] \in Nat
    BY <1>5, <1>14 DEF HasKeys
  <2> QED BY <2>1, <2>2, <1>1, <1>5, <1>9, OnPathKept
<1>17. NoKey(u, t.entries[i].key)
  BY <1>2, <1>5, <1>13 DEF NoKey, KeysOnce
<1>18. \A k : NoKey(t, k) => NoKey(u, k)
  BY <1>5, <1>13 DEF NoKey
<1>19. Items(u) = Lacking(Items(t), n)
  <2>1. /\ Items(t) = [j \in 1 .. Len(os) |-> Items(t)[j]]
        /\ Len(Items(t)) = Len(os)
        /\ \A j \in 1 .. Len(os) : /\ os[j] \in Slots(t)
                                   /\ Items(t)[j] = ItemOf(t.entries[os[j]])
    BY <1>2, ItemsLemma
  <2>2. Items(u) = [j \in 1 .. Len(os) - 1 |-> ItemOf(u.entries[os2[j]])]
    BY <1>5, <1>10, <1>11, <1>12, ItemsLemma
  <2> HIDE DEF os, os2, n
  <2>3. ASSUME NEW j \in 1 .. Len(os) - 1
        PROVE  ItemOf(u.entries[os2[j]]) = IF j < n THEN Items(t)[j] ELSE Items(t)[j + 1]
    <3> DEFINE m == IF j < n THEN j ELSE j + 1
    <3>1. m \in 1 .. Len(os) /\ m # n /\ os2[j] = os[m]
      BY <1>3, <1>10
    <3>2. os[m] # i /\ os[m] \in Slots(t)
      <4>1. DOMAIN os = 1 .. Len(os)
        BY <1>1, LenProperties
      <4> QED BY <4>1, <3>1, <2>1, <1>1, <1>3 DEF IsInjective
    <3>3. ItemOf(u.entries[os2[j]]) = Items(t)[m]
      BY <3>1, <3>2, <2>1, <1>6
    <3> QED BY <3>3
  <2> QED BY <2>1, <2>2, <2>3 DEF Lacking
<1> QED BY <1>5, <1>11, <1>12, <1>14, <1>15, <1>16, <1>17, <1>18, <1>19 DEF Sound

(* A list with another n-th entry.                                         *)
Changed(its, n, item) == [its EXCEPT ![n] = item]

(* An entry goes to the end of the order list.                             *)
LEMMA UsedLemma ==
    ASSUME NEW hs, NEW t, Sound(hs, t), NEW i \in Slots(t), IsSet(t, i), NEW u,
           u = [t EXCEPT !.order = Append(Unlinked(@, i), i)]
    PROVE  /\ Sound(hs, u)
           /\ u.alloc = t.alloc /\ u.entries = t.entries /\ u.count = t.count
           /\ Items(u) = Behind(Lacking(Items(t), PositionOf(t.order, i)),
                                Items(t)[PositionOf(t.order, i)])
           /\ PositionOf(u.order, i) = t.count
<1> DEFINE n == PositionOf(t.order, i)
           os == t.order
           os2 == RemoveAt(os, n)
           os3 == Append(os2, i)
           en == t.entries
<1>1. /\ t = TableOf(t.alloc, en, os, t.count)
      /\ t.alloc \in Sizes /\ os \in Seq(Slots(t))
      /\ en = [x \in Slots(t) |-> en[x]]
      /\ IsInjective(os) /\ t.count = Len(os)
      /\ \A x \in Slots(t) : x \in ToSet(os) <=> IsSet(t, x)
  BY DEF Sound, Formed, Listed
<1>2. Formed(t) /\ Listed(t) /\ HasKeys(hs, t) /\ KeysOnce(t) /\ Reached(hs, t)
  BY DEF Sound
<1>3. n \in 1 .. Len(os) /\ os[n] = i /\ Len(os) \in Nat
  BY <1>2, PositionLemma, ItemsLemma
<1>4. u = TableOf(t.alloc, en, os3, t.count)
  <2> DEFINE al == t.alloc
             co == t.count
  <2>1. t = [alloc |-> al, entries |-> en, order |-> os, count |-> co]
    BY <1>1 DEF TableOf
  <2>2. u = [t EXCEPT !.order = os3]
    BY DEF Unlinked
  <2> HIDE DEF al, en, os, co, os3
  <2>3. u = [alloc |-> al, entries |-> en, order |-> os3, count |-> co]
    BY <2>1, <2>2
  <2> QED BY <2>3 DEF al, co, TableOf
<1>5. /\ u.alloc = t.alloc /\ u.count = t.count /\ u.order = os3 /\ u.entries = t.entries
      /\ u = TableOf(u.alloc, u.entries, u.order, u.count)
      /\ Slots(u) = Slots(t)
  <2> HIDE DEF en, os3
  <2>1. /\ u.alloc = t.alloc /\ u.count = t.count /\ u.order = os3 /\ u.entries = en
    BY <1>4 DEF TableOf
  <2>2. u = TableOf(u.alloc, u.entries, u.order, u.count)
    BY <1>4, <2>1
  <2> QED BY <2>1, <2>2 DEF Slots, en
<1>6. \A x \in Slots(t) : IsSet(u, x) <=> IsSet(t, x)
  BY <1>5 DEF IsSet
<1>7. /\ os2 \in Seq(Slots(t)) /\ IsInjective(os2) /\ ToSet(os2) = ToSet(os) \ {i}
      /\ Len(os2) = Len(os) - 1
      /\ \A j \in 1 .. Len(os) - 1 : os2[j] = IF j < n THEN os[j] ELSE os[j + 1]
  <2> HIDE DEF n, os
  <2> QED BY <1>1, <1>3, RemoveInjective, RemoveAtSeq
<1>8. /\ os3 \in Seq(Slots(t)) /\ IsInjective(os3) /\ ToSet(os3) = ToSet(os2) \cup {i}
      /\ Len(os3) = Len(os2) + 1
      /\ \A j \in 1 .. Len(os2) : os3[j] = os2[j]
      /\ os3[Len(os2) + 1] = i
  <2> HIDE DEF os2
  <2>1. i \notin ToSet(os2)
    BY <1>7
  <2>2. /\ os3 \in Seq(Slots(t)) /\ IsInjective(os3) /\ ToSet(os3) = ToSet(os2) \cup {i}
        /\ Len(os3) = Len(os2) + 1
    BY <2>1, <1>7, AppendInjectiveSeq
  <2> QED BY <2>2, <1>7, AppendProperties
<1> HIDE DEF os2, os3
<1>9. i \in ToSet(os) /\ ToSet(os3) = ToSet(os) /\ Len(os3) = Len(os)
  BY <1>1, <1>3, <1>7, <1>8
<1>10. Formed(u)
  BY <1>1, <1>5, <1>8 DEF Formed
<1>11. Listed(u)
  BY <1>1, <1>5, <1>6, <1>8, <1>9 DEF Listed
<1>12. HasKeys(hs, u) /\ KeysOnce(u) /\ Reached(hs, u)
  <2>1. u.alloc = t.alloc /\ u.entries = t.entries
    BY <1>5
  <2>2. HasKeys(hs, t) /\ KeysOnce(t) /\ Reached(hs, t)
    BY <1>2
  <2> HIDE DEF en, os, n
  <2> QED BY ONLY <2>1, <2>2, SamePaths
<1>13. PositionOf(u.order, i) = t.count
  <2>1. Len(os) \in 1 .. Len(u.order) /\ u.order[Len(os)] = i
    BY <1>3, <1>5, <1>7, <1>8, <1>9
  <2>2. i \in Slots(u) /\ IsSet(u, i)
    BY <1>5, <1>6
  <2>3. \A j \in 1 .. Len(u.order) : u.order[j] = i => j = PositionOf(u.order, i)
    BY ONLY <2>2, <1>10, <1>11, PositionLemma
  <2> QED BY <2>1, <2>3, <1>1
<1>14. Items(u) = Behind(Lacking(Items(t), n), Items(t)[n])
  <2> DEFINE its == Items(t)
             less == Lacking(its, n)
  <2>1. /\ Len(its) = Len(os)
        /\ \A j \in 1 .. Len(os) : its[j] = ItemOf(t.entries[os[j]])
    BY <1>2, ItemsLemma
  <2>2. Items(u) = [j \in 1 .. Len(os) |-> ItemOf(t.entries[os3[j]])]
    <3>1. Items(u) = [j \in 1 .. Len(u.order) |-> ItemOf(u.entries[u.order[j]])]
      BY ONLY <1>10, <1>11, ItemsLemma
    <3> QED BY <3>1, <1>5, <1>9
  <2> HIDE DEF os, n, its
  <2> DEFINE m == Len(os) - 1
  <2>3. m \in Nat /\ Len(os) = m + 1
    BY <1>3
  <2>4. less = [j \in 1 .. m |-> IF j < n THEN its[j] ELSE its[j + 1]]
    BY <2>1 DEF Lacking
  <2>5. Behind(less, its[n]) = [j \in 1 .. m + 1 |-> IF j <= m THEN less[j] ELSE its[n]]
    <3>1. less = [j \in 1 .. m |-> less[j]]
      BY <2>4
    <3> HIDE DEF less, m
    <3> QED BY <3>1, <2>3, ExtendTuple DEF Behind
  <2>6. ASSUME NEW j \in 1 .. m + 1
        PROVE  ItemOf(t.entries[os3[j]]) = IF j <= m THEN less[j] ELSE its[n]
    <3>1. CASE j <= m
      <4>1. j \in 1 .. m /\ j \in 1 .. Len(os2) /\ j \in 1 .. Len(os) /\ j + 1 \in 1 .. Len(os)
        BY <3>1, <2>3, <1>7
      <4>2. os3[j] = IF j < n THEN os[j] ELSE os[j + 1]
        BY <4>1, <1>7, <1>8
      <4>3. less[j] = IF j < n THEN its[j] ELSE its[j + 1]
        BY <4>1, <2>4
      <4> QED BY <3>1, <4>1, <4>2, <4>3, <2>1
    <3>2. CASE ~(j <= m)
      <4>1. j = Len(os2) + 1
        BY <3>2, <2>3, <1>7
      <4> QED BY <3>2, <4>1, <1>3, <1>8, <2>1
    <3> QED BY <3>1, <3>2
  <2> QED BY <2>2, <2>3, <2>5, <2>6 DEF its
<1> QED BY <1>5, <1>10, <1>11, <1>12, <1>13, <1>14 DEF Sound

(* Table t with another entry in slot i.                                   *)
Rewritten(t, i, slot) == [t EXCEPT !.entries[i] = slot]

(* An entry gets another value.                                            *)
LEMMA UpdatedLemma ==
    ASSUME NEW hs, NEW t, Sound(hs, t), NEW i \in Slots(t), IsSet(t, i),
           NEW slot, slot.state = "set", slot.key = t.entries[i].key, NEW u,
           u = Rewritten(t, i, slot)
    PROVE  /\ Sound(hs, u)
           /\ u.alloc = t.alloc /\ u.count = t.count
           /\ Items(u) = Changed(Items(t), PositionOf(t.order, i), ItemOf(slot))
<1> DEFINE n == PositionOf(t.order, i)
           os == t.order
           en == t.entries
           en2 == Written(en, i, slot)
<1>1. /\ t = TableOf(t.alloc, en, os, t.count)
      /\ t.alloc \in Sizes /\ os \in Seq(Slots(t))
      /\ en = [x \in Slots(t) |-> en[x]]
      /\ IsInjective(os) /\ t.count = Len(os)
      /\ \A x \in Slots(t) : x \in ToSet(os) <=> IsSet(t, x)
  BY DEF Sound, Formed, Listed
<1>2. Formed(t) /\ Listed(t) /\ HasKeys(hs, t) /\ KeysOnce(t) /\ Reached(hs, t)
  BY DEF Sound
<1>3. n \in 1 .. Len(os) /\ os[n] = i /\ \A j \in 1 .. Len(os) : os[j] = i => j = n
  BY <1>2, PositionLemma
<1>4. u = TableOf(t.alloc, en2, os, t.count)
  <2> DEFINE al == t.alloc
             co == t.count
  <2>1. t = [alloc |-> al, entries |-> en, order |-> os, count |-> co]
    BY <1>1 DEF TableOf
  <2>2. u = [t EXCEPT !.entries = en2]
    BY DEF Rewritten, Written
  <2> HIDE DEF al, en, os, co, en2
  <2>3. u = [alloc |-> al, entries |-> en2, order |-> os, count |-> co]
    BY <2>1, <2>2
  <2> QED BY <2>3 DEF al, co, TableOf
<1>5. /\ u.alloc = t.alloc /\ u.count = t.count /\ u.order = os /\ u.entries = en2
      /\ u = TableOf(u.alloc, u.entries, u.order, u.count)
      /\ Slots(u) = Slots(t)
  <2> HIDE DEF os, en2
  <2>1. /\ u.alloc = t.alloc /\ u.count = t.count /\ u.order = os /\ u.entries = en2
    BY <1>4 DEF TableOf
  <2>2. u = TableOf(u.alloc, u.entries, u.order, u.count)
    BY <1>4, <2>1
  <2> QED BY <2>1, <2>2 DEF Slots
<1>6. \A x \in Slots(t) : u.entries[x] = IF x = i THEN slot ELSE t.entries[x]
  BY <1>1, <1>5 DEF Written
<1>7. u.entries = [x \in Slots(t) |-> u.entries[x]]
  BY <1>1, <1>5 DEF Written
<1>8. \A x \in Slots(t) : IsSet(u, x) <=> IsSet(t, x)
  BY <1>6 DEF IsSet
<1>9. \A x \in Slots(t) :
         t.entries[x].state # "unused" => u.entries[x].state # "unused"
  BY <1>6
<1>10. \A x \in Slots(t) : u.entries[x].key = t.entries[x].key
  BY <1>6
<1>11. Formed(u)
  BY <1>1, <1>5, <1>7 DEF Formed
<1>12. Listed(u)
  BY <1>1, <1>5, <1>8 DEF Listed
<1>13. HasKeys(hs, u)
  BY <1>2, <1>5, <1>8, <1>10 DEF HasKeys
<1>14. KeysOnce(u)
  BY <1>2, <1>5, <1>8, <1>10 DEF KeysOnce
<1>15. Reached(hs, u)
  <2> SUFFICES ASSUME NEW x \in Slots(t), IsSet(u, x)
               PROVE  OnPath(u, hs[u.entries[x].key], x)
    BY <1>5 DEF Reached
  <2>1. OnPath(t, hs[u.entries[x].key], x)
    BY <1>2, <1>8, <1>10 DEF Reached
  <2>2. hs[u.entries[x].key] \in Nat
    BY <1>5, <1>13 DEF HasKeys
  <2> QED BY <2>1, <2>2, <1>1, <1>5, <1>9, OnPathKept
<1>16. Items(u) = Changed(Items(t), n, ItemOf(slot))
  <2>1. /\ Items(t) = [j \in 1 .. Len(os) |-> Items(t)[j]]
        /\ \A j \in 1 .. Len(os) : /\ os[j] \in Slots(t)
                                   /\ Items(t)[j] = ItemOf(t.entries[os[j]])
    BY <1>2, ItemsLemma
  <2>2. Items(u) = [j \in 1 .. Len(os) |-> ItemOf(u.entries[os[j]])]
    <3>1. Items(u) = [j \in 1 .. Len(u.order) |-> ItemOf(u.entries[u.order[j]])]
      BY ONLY <1>11, <1>12, ItemsLemma
    <3> QED BY <3>1, <1>5
  <2> HIDE DEF os, n
  <2>3. \A j \in 1 .. Len(os) :
           ItemOf(u.entries[os[j]]) = IF j = n THEN ItemOf(slot) ELSE Items(t)[j]
    BY <2>1, <1>3, <1>6
  <2> QED BY <2>1, <2>2, <2>3, <1>3 DEF Changed
<1> QED BY <1>5, <1>11, <1>12, <1>13, <1>14, <1>15, <1>16 DEF Sound

(* Whether a key is in the table can be told from what the table holds.    *)
LEMMA NoKeyLemma ==
    ASSUME NEW t, Formed(t), Listed(t), NEW k
    PROVE  NoKey(t, k) <=> \A n \in DOMAIN Items(t) : Items(t)[n].key # k
<1>1. /\ DOMAIN Items(t) = 1 .. Len(t.order) /\ DOMAIN t.order = 1 .. Len(t.order)
      /\ \A n \in 1 .. Len(t.order) : /\ t.order[n] \in Slots(t)
                                      /\ IsSet(t, t.order[n])
                                      /\ Items(t)[n].key = t.entries[t.order[n]].key
  BY ItemsLemma
<1>2. \A i \in Slots(t) : IsSet(t, i) => \E n \in 1 .. Len(t.order) : t.order[n] = i
  BY <1>1 DEF Listed, ToSet
<1> QED BY <1>1, <1>2, SMTT(40) DEF NoKey

(* lws_table_rehash: the entries and their order stay what they were.      *)
LEMMA RehashedLemma ==
    ASSUME NEW t, Sound(hash, t), CanGrow(t), t.count <= LoadOf(t.alloc), NEW u,
           u = Rehashed(t)
    PROVE  /\ Sound(hash, u)
           /\ u.alloc \in Sizes /\ u.alloc > t.alloc
           /\ u.count = t.count
           /\ Items(u) = Items(t)
<1> DEFINE last == Len(t.order)
           size == SizeFor(t.alloc + 1)
           first == Empty(size)
           E(n) == t.entries[t.order[last + 1 - n]]
           Then(n, before) == Reinserted(E(n), before)
           after[n \in 0 .. last] ==
              IF n = 0 THEN first ELSE Then(n, after[n - 1])
           Fits(n, b) == /\ Sound(hash, b) /\ b.alloc = size /\ b.count = n
                         /\ \A j \in 1 .. n : Items(b)[j] = Items(t)[last - n + j]
<1>1. u = after[last]
  BY Zenon DEF Rehashed
<1>2. Formed(t) /\ Listed(t) /\ HasKeys(hash, t) /\ KeysOnce(t)
  BY DEF Sound
<1>3. /\ last \in Nat /\ t.count = last /\ DOMAIN t.order = 1 .. last
      /\ Items(t) = [n \in 1 .. last |-> Items(t)[n]]
      /\ \A n \in 1 .. last : /\ t.order[n] \in Slots(t)
                              /\ IsSet(t, t.order[n])
                              /\ Items(t)[n] = ItemOf(t.entries[t.order[n]])
                              /\ Items(t)[n].key = t.entries[t.order[n]].key
  BY <1>2, ItemsLemma
<1>4. size \in Sizes /\ size > t.alloc /\ size \in Nat /\ t.alloc \in Nat
  <2>1. t.alloc \in Nat /\ t.alloc \in Sizes
    BY <1>2, SizesLemma DEF Formed
  <2>2. \E m \in Sizes : m >= t.alloc + 1
    BY <2>1, SizesLemma DEF CanGrow
  <2>3. size \in Sizes /\ size >= t.alloc + 1
    BY <2>1, <2>2, SizeLemma
  <2> QED BY <2>1, <2>3, SizesLemma
<1>5. last < size
  <2>1. t.alloc \in Sizes
    BY <1>2 DEF Formed
  <2>2. LoadOf(t.alloc) \in Nat /\ LoadOf(t.alloc) < t.alloc
    BY <2>1, LoadLemma
  <2> QED BY <2>2, <1>3, <1>4
<1> HIDE DEF last, size, first
<1>6. ASSUME NEW n \in 1 .. last, NEW before, Fits(n - 1, before)
      PROVE  Fits(n, Then(n, before))
  <2> DEFINE p == last + 1 - n
             e == E(n)
             b == Then(n, before)
  <2>1. p \in 1 .. last /\ n - 1 \in Nat /\ n - 1 < size
    BY <1>3, <1>4, <1>5
  <2>2. /\ IsSet(t, t.order[p]) /\ t.order[p] \in Slots(t) /\ e = t.entries[t.order[p]]
        /\ Items(t)[p] = ItemOf(e) /\ Items(t)[p].key = e.key
    BY <2>1, <1>3
  <2>3. e.state = "set" /\ e.key \in Keys /\ hash[e.key] \in Nat
    BY <2>2, <1>2 DEF IsSet, HasKeys, Keys
  <2>4. /\ Sound(hash, before) /\ before.alloc = size /\ before.count = n - 1
        /\ \A j \in 1 .. n - 1 : Items(before)[j] = Items(t)[last - (n - 1) + j]
        /\ Formed(before) /\ Listed(before)
    BY <1>6 DEF Sound
  <2>5. /\ DOMAIN Items(before) = 1 .. n - 1
        /\ Items(before) = [j \in 1 .. n - 1 |-> Items(before)[j]]
    <3>1. /\ before.count = Len(before.order)
          /\ DOMAIN Items(before) = 1 .. Len(before.order)
          /\ Items(before) = [j \in 1 .. Len(before.order) |-> Items(before)[j]]
      BY ONLY <2>4, ItemsLemma
    <3> QED BY <3>1, <2>4
  <2> HIDE DEF p, e, b, E
  <2>6. NoKey(before, e.key)
    <3> SUFFICES ASSUME NEW j \in 1 .. n - 1
                 PROVE  Items(before)[j].key # e.key
      BY <2>4, <2>5, NoKeyLemma
    <3> DEFINE q == last - (n - 1) + j
    <3>1. q \in 1 .. last /\ q # p
      BY <1>3 DEF p
    <3>2. Items(before)[j] = Items(t)[q]
      BY <2>4
    <3> HIDE DEF q
    <3>3. /\ Items(t)[q].key = t.entries[t.order[q]].key
          /\ t.order[q] \in Slots(t) /\ IsSet(t, t.order[q])
      BY <3>1, <1>3
    <3>4. t.order[q] # t.order[p]
      BY <3>1, <2>1, <1>2, <1>3 DEF Listed, IsInjective
    <3> QED BY <3>2, <3>3, <3>4, <2>2, <1>2 DEF KeysOnce
  <2>7. b = Reinserted(e, before)
    BY DEF b, e
  <2>8. /\ Sound(hash, b)
        /\ b.alloc = before.alloc
        /\ b.count = before.count + 1
        /\ Items(b) = Ahead(ItemOf(e), Items(before))
    <3>1. before.count < before.alloc
      BY <2>1, <2>4
    <3> QED BY ONLY <3>1, <2>3, <2>4, <2>6, <2>7, ReinsertedLemma
  <2>9. b.alloc = size /\ b.count = n
    BY <2>4, <2>8
  <2>10. ASSUME NEW j \in 1 .. n
         PROVE  Items(b)[j] = Items(t)[last - n + j]
    <3> DEFINE m == n - 1
               its == Items(before)
               it == ItemOf(e)
    <3>1. m \in Nat /\ n = m + 1 /\ its = [i \in 1 .. m |-> its[i]]
      BY <2>5
    <3>2. Items(b) = [i \in 1 .. m + 1 |-> IF i = 1 THEN it ELSE its[i - 1]]
      <4>1. Items(b) = Ahead(it, its)
        BY <2>8
      <4> HIDE DEF m, its, it
      <4> QED BY <4>1, <3>1, ExtendTuple DEF Ahead
    <3>3. Items(b)[j] = IF j = 1 THEN it ELSE its[j - 1]
      BY <3>1, <3>2
    <3>4. CASE j = 1
      <4>1. last - n + j = p
        BY <3>4, <1>3 DEF p
      <4> QED BY <3>3, <3>4, <4>1, <2>2
    <3>5. CASE j # 1
      <4>1. j - 1 \in 1 .. n - 1 /\ last - (n - 1) + (j - 1) = last - n + j
        BY <3>5, <1>3
      <4> QED BY <3>3, <3>5, <4>1, <2>4
    <3> QED BY <3>4, <3>5
  <2> QED BY <2>8, <2>9, <2>10 DEF b
<1>7. Fits(0, first)
  <2>1. Sound(hash, first) /\ first.alloc = size /\ first.count = 0
    BY <1>4, EmptyLemma DEF first
  <2> QED BY <2>1
<1> HIDE DEF Then, Fits
<1> DEFINE Eq(g, n) == g = [x \in 0 .. n |-> IF x = 0 THEN first ELSE Then(x, g[x - 1])]
<1>8. ASSUME NEW n \in Nat
      PROVE  \E g : Eq(g, n)
  <2> DEFINE Bad == {k \in Nat : ~\E g : Eq(g, k)}
  <2> SUFFICES ASSUME Bad # {}
               PROVE  FALSE
    OBVIOUS
  <2>1. PICK k \in Bad : \A j \in Bad : k <= j
    <3>1. Bad \subseteq Nat
      OBVIOUS
    <3> HIDE DEF Bad
    <3> QED BY <3>1, LeastNatural
  <2>2. k \in Nat /\ (~\E g : Eq(g, k)) /\ \A j \in Nat : j < k => \E g : Eq(g, j)
    BY <2>1
  <2> HIDE DEF Bad
  <2>3. CASE k = 0
    <3>1. Eq([x \in 0 .. 0 |-> first], 0)
      OBVIOUS
    <3> QED BY <2>2, <2>3, <3>1
  <2>4. CASE k # 0
    <3> DEFINE j == k - 1
    <3>1. PICK g : Eq(g, j)
      <4>1. j \in Nat /\ j < k
        BY <2>2, <2>4
      <4> HIDE DEF j, Eq
      <4> QED BY <4>1, <2>2
    <3> DEFINE f == [x \in 0 .. k |-> IF x = k THEN Then(k, g[k - 1]) ELSE g[x]]
    <3>2. \A x \in 0 .. k - 1 : f[x] = g[x]
      BY <2>2
    <3>3. \A x \in 0 .. k : f[x] = IF x = 0 THEN first ELSE Then(x, f[x - 1])
      <4> TAKE x \in 0 .. k
      <4>1. CASE x = k
        BY <4>1, <2>2, <2>4, <3>2
      <4>2. CASE x # k
        <5>1. x \in 0 .. k - 1 /\ (x # 0 => x - 1 \in 0 .. k - 1)
          BY <4>2, <2>2
        <5>2. g[x] = IF x = 0 THEN first ELSE Then(x, g[x - 1])
          BY <3>1, <5>1
        <5> QED BY <5>1, <5>2, <3>2
      <4> QED BY <4>1, <4>2
    <3>4. Eq(f, k)
      <4>1. f = [x \in 0 .. k |-> f[x]]
        OBVIOUS
      <4> HIDE DEF f
      <4> QED BY <3>3, <4>1
    <3> QED BY <2>2, <3>4
  <2> QED BY <2>3, <2>4
<1>9. Eq(after, last)
  <2>1. \E g : Eq(g, last)
    BY <1>3, <1>8
  <2> QED BY <2>1, Zenon
<1> HIDE DEF after
<1>10. after[0] = first /\ \A n \in 1 .. last : after[n] = Then(n, after[n - 1])
  BY <1>3, <1>9
<1>11. \A n \in 0 .. last : Fits(n, after[n])
  <2> DEFINE Bad == {k \in 0 .. last : ~Fits(k, after[k])}
  <2> SUFFICES ASSUME Bad # {}
               PROVE  FALSE
    OBVIOUS
  <2>1. PICK k \in Bad : \A j \in Bad : k <= j
    <3>1. Bad \subseteq Nat
      OBVIOUS
    <3> HIDE DEF Bad
    <3> QED BY <3>1, LeastNatural
  <2>2. /\ k \in 0 .. last /\ ~Fits(k, after[k])
        /\ \A j \in 0 .. last : j < k => Fits(j, after[j])
    BY <2>1
  <2> HIDE DEF Bad
  <2>3. CASE k = 0
    BY <2>2, <2>3, <1>7, <1>10
  <2>4. CASE k # 0
    <3>1. k \in 1 .. last /\ k - 1 \in 0 .. last /\ k - 1 < k
      BY <2>2, <2>4, <1>3
    <3> QED BY <3>1, <2>2, <1>6, <1>10
  <2> QED BY <2>3, <2>4
<1>12. Fits(last, u)
  BY <1>1, <1>3, <1>11
<1>13. /\ Sound(hash, u) /\ u.alloc = size /\ u.count = last
       /\ \A j \in 1 .. last : Items(u)[j] = Items(t)[j]
  <2>1. \A j \in 1 .. last : last - last + j = j
    BY <1>3
  <2>2. /\ Sound(hash, u) /\ u.alloc = size /\ u.count = last
        /\ \A j \in 1 .. last : Items(u)[j] = Items(t)[last - last + j]
    BY <1>12 DEF Fits
  <2> QED BY <2>1, <2>2
<1>14. Items(u) = Items(t)
  <2>1. Formed(u) /\ Listed(u)
    BY <1>13 DEF Sound
  <2>2. /\ u.count = Len(u.order)
        /\ Items(u) = [n \in 1 .. Len(u.order) |-> Items(u)[n]]
    BY ONLY <2>1, ItemsLemma
  <2> QED BY <2>2, <1>3, <1>13
<1> QED BY <1>3, <1>4, <1>13, <1>14

-------------------------------------------------------------------------------

(* Table t is sound and keeps the load and the cap of setup s, and its size*)
(* that of the load it was made for.                                       *)
GoodFor(s, t) == /\ Sound(s.hash, t)
                 /\ t.count <= LoadOf(t.alloc)
                 /\ s.cap > 0 => t.count <= s.cap
                 /\ LoadOf(t.alloc) >= s.load

(* The inductive invariant.                                                *)
TableInv == /\ setup \in Setups
            /\ GoodFor(setup, table)

(* What the invariant says of the setup and of the table, in one place.    *)
LEMMA SetupLemma ==
    ASSUME TableInv
    PROVE  /\ \A k \in Keys : hash[k] \in Nat /\ k # None
           /\ Cap \in Nat /\ setup.load \in Nat
           /\ Sound(hash, table) /\ Formed(table) /\ Listed(table)
           /\ table.alloc \in Sizes /\ table.alloc \in Nat
           /\ LoadOf(table.alloc) \in Nat /\ LoadOf(table.alloc) < table.alloc
           /\ table.count \in Nat
           /\ None \notin Nat
<1>1. Setup(setup)
  BY TableAssumption DEF TableAssumption, TableInv
<1>2. \A k \in Keys : hash[k] \in Nat /\ k # None
  BY <1>1 DEF Setup, Keys, hash
<1>3. Cap \in Nat /\ setup.load \in Nat
  BY <1>1 DEF Setup, Cap
<1>4. Sound(hash, table) /\ Formed(table) /\ Listed(table)
  BY DEF TableInv, GoodFor, Sound, hash
<1>5. table.alloc \in Sizes
  BY <1>4 DEF Formed
<1>6. table.count \in Nat
  BY <1>4, ItemsLemma
<1>7. None \notin Nat
  BY TableAssumption DEF TableAssumption
<1> QED BY <1>2, <1>3, <1>4, <1>5, <1>6, <1>7, SizesLemma, LoadLemma

(* What lws_table_find finds.                                              *)
LEMMA FoundLemma ==
    ASSUME TableInv, NEW k \in Keys
    PROVE  /\ Find(table, k) = None <=> NoKey(table, k)
           /\ Find(table, k) # None => /\ Find(table, k) \in Slots(table)
                                       /\ IsSet(table, Find(table, k))
                                       /\ table.entries[Find(table, k)].key = k
<1>1. /\ NoKey(table, k) => Find(table, k) = None
      /\ \A i \in Slots(table) :
            IsSet(table, i) /\ table.entries[i].key = k => Find(table, k) = i
  BY SetupLemma, FindLemma
<1>2. ASSUME ~NoKey(table, k)
      PROVE  /\ Find(table, k) \in Slots(table)
             /\ IsSet(table, Find(table, k))
             /\ table.entries[Find(table, k)].key = k
             /\ Find(table, k) # None
  <2>1. PICK i \in Slots(table) : IsSet(table, i) /\ table.entries[i].key = k
    BY <1>2 DEF NoKey
  <2>2. Find(table, k) = i
    BY <2>1, <1>1
  <2>3. i # None
    BY SetupLemma DEF Slots
  <2> QED BY <2>1, <2>2, <2>3
<1> QED BY <1>1, <1>2

(* A new table satisfies the invariant.                                    *)
LEMMA InitGood ==
    ASSUME Init
    PROVE  TableInv
<1>1. setup \in Setups /\ Setup(setup)
  BY TableAssumption DEF TableAssumption, Init
<1> DEFINE n == RoomFor(setup.load)
           m == SizeFor(n)
<1>2. setup.load \in Nat /\ setup.cap \in Nat /\ n \in Nat /\ \E x \in Sizes : x >= n
  BY <1>1 DEF Setup, RoomFor
<1>3. m \in Sizes /\ m >= n
  <2> HIDE DEF n
  <2> QED BY <1>2, SizeLemma
<1>4. LoadOf(m) \in Nat /\ LoadOf(m) >= setup.load
  <2> HIDE DEF m
  <2> QED BY <1>2, <1>3, LoadLemma
<1>5. Sound(setup.hash, table) /\ table.alloc = m /\ table.count = 0
  <2>1. table = Empty(m)
    BY DEF Init
  <2> HIDE DEF m
  <2> QED BY <2>1, <1>3, EmptyLemma
<1> HIDE DEF m
<1> QED BY <1>1, <1>2, <1>4, <1>5 DEF TableInv, GoodFor

(* An entry that is used goes to the end of the order list if the table is *)
(* capped (lws_table.c:199-202).                                           *)
LEMMA UsedGood ==
    ASSUME TableInv, NEW i \in Slots(table), IsSet(table, i), NEW u, u = Used(table, i)
    PROVE  /\ GoodFor(setup, u)
           /\ u.alloc = table.alloc /\ u.entries = table.entries /\ u.count = table.count
           /\ Cap > 0 => /\ Items(u) = Behind(Lacking(Items(table), PositionOf(table.order, i)),
                                              Items(table)[PositionOf(table.order, i)])
                         /\ PositionOf(u.order, i) = table.count
           /\ ~(Cap > 0) => u = table
<1>1. CASE Cap > 0
  <2>1. u = [table EXCEPT !.order = Append(Unlinked(@, i), i)]
    BY <1>1 DEF Used
  <2>2. /\ Sound(hash, u)
        /\ u.alloc = table.alloc /\ u.entries = table.entries /\ u.count = table.count
        /\ Items(u) = Behind(Lacking(Items(table), PositionOf(table.order, i)),
                             Items(table)[PositionOf(table.order, i)])
        /\ PositionOf(u.order, i) = table.count
    BY <2>1, SetupLemma, UsedLemma, ZenonT(60)
  <2> QED BY <1>1, <2>2 DEF TableInv, GoodFor, hash
<1>2. CASE ~(Cap > 0)
  <2>1. u = table
    BY <1>2 DEF Used
  <2> QED BY <1>2, <2>1 DEF TableInv
<1> QED BY <1>1, <1>2

(* lws_table_set of a key in the table.                                    *)
LEMMA UpdatedGood ==
    ASSUME TableInv, NEW i \in Slots(table), IsSet(table, i), NEW slot, slot.state = "set",
           slot.key = table.entries[i].key, NEW u, u = [Used(table, i) EXCEPT !.entries[i] = slot]
    PROVE  /\ GoodFor(setup, u)
           /\ u.alloc = table.alloc
           /\ Items(u) = Changed(Items(Used(table, i)), PositionOf(Used(table, i).order, i),
                                 ItemOf(slot))
<1> DEFINE t == Used(table, i)
<1>1. /\ GoodFor(setup, t)
      /\ t.alloc = table.alloc /\ t.entries = table.entries /\ t.count = table.count
  BY UsedGood
<1>2. u = Rewritten(t, i, slot)
  BY DEF Rewritten
<1> HIDE DEF t
<1>3. /\ Sound(hash, t) /\ i \in Slots(t) /\ IsSet(t, i)
      /\ slot.key = t.entries[i].key /\ slot.state = "set"
  BY <1>1 DEF GoodFor, hash, Slots, IsSet
<1>4. /\ Sound(hash, u)
      /\ u.alloc = t.alloc /\ u.count = t.count
      /\ Items(u) = Changed(Items(t), PositionOf(t.order, i), ItemOf(slot))
  BY ONLY <1>2, <1>3, UpdatedLemma
<1> QED BY <1>1, <1>4 DEF t, GoodFor, hash

(* lws_table_set with no value: the entry of the key leaves.               *)
LEMMA RemovedGood ==
    ASSUME TableInv, NEW i \in Slots(table), IsSet(table, i), NEW u, u = Removed(table, i)
    PROVE  /\ GoodFor(setup, u)
           /\ u.alloc = table.alloc
           /\ u.count = table.count - 1
           /\ Items(u) = Lacking(Items(table), PositionOf(table.order, i))
           /\ \A k : NoKey(table, k) => NoKey(u, k)
<1>1. /\ Sound(hash, u)
      /\ u.alloc = table.alloc
      /\ u.count = table.count - 1
      /\ Items(u) = Lacking(Items(table), PositionOf(table.order, i))
      /\ \A k : NoKey(table, k) => NoKey(u, k)
  BY SetupLemma, RemovedLemma
<1>2. u.count \in Int /\ u.count <= table.count
  BY <1>1, SetupLemma
<1> QED BY <1>1, <1>2, SetupLemma DEF TableInv, GoodFor, hash, Cap

(* Room for a new entry under the cap: the first one goes.                 *)
LEMMA EvictedGood ==
    ASSUME TableInv, NEW u, u = Evicted(table)
    PROVE  /\ GoodFor(setup, u)
           /\ u.alloc = table.alloc
           /\ u.count <= table.count /\ u.count \in Nat
           /\ Cap > 0 => u.count < Cap
           /\ Items(u) = IF Cap > 0 /\ Len(Items(table)) = Cap
                         THEN Lacking(Items(table), 1) ELSE Items(table)
           /\ \A k : NoKey(table, k) => NoKey(u, k)
<1>1. Len(Items(table)) = table.count /\ Len(table.order) = table.count
  BY SetupLemma, ItemsLemma
<1>2. CASE Cap > 0 /\ table.count = Cap
  <2> DEFINE i == Head(table.order)
  <2>1. u = Removed(table, i)
    BY <1>2 DEF Evicted
  <2>2. table.order \in Seq(Slots(table)) /\ table.order # <<>> /\ 1 \in 1 .. Len(table.order)
    BY <1>1, <1>2, SetupLemma DEF Formed
  <2>3. i = table.order[1]
    BY <2>2
  <2>4. i \in Slots(table) /\ IsSet(table, i)
    BY <2>2, <2>3, SetupLemma, ItemsLemma
  <2> HIDE DEF i
  <2>5. PositionOf(table.order, i) = 1
    BY <2>2, <2>3, <2>4, SetupLemma, PositionLemma
  <2>6. /\ GoodFor(setup, u)
        /\ u.alloc = table.alloc
        /\ u.count = table.count - 1
        /\ Items(u) = Lacking(Items(table), 1)
        /\ \A k : NoKey(table, k) => NoKey(u, k)
    BY <2>1, <2>4, <2>5, RemovedGood
  <2>7. u.count \in Nat /\ u.count <= table.count /\ u.count < Cap
    BY <2>6, <1>2, SetupLemma
  <2> QED BY <1>1, <1>2, <2>6, <2>7
<1>3. CASE ~(Cap > 0 /\ table.count = Cap)
  <2>1. u = table
    BY <1>3 DEF Evicted
  <2>2. Cap > 0 => table.count < Cap
    BY <1>3, SetupLemma DEF TableInv, GoodFor, Cap
  <2> QED BY <1>1, <1>3, <2>1, <2>2, SetupLemma DEF TableInv
<1> QED BY <1>2, <1>3

(* Room for a new entry under the load: the table grows.                   *)
LEMMA GrownGood ==
    ASSUME TableInv, MustGrow(Evicted(table)) => CanGrow(Evicted(table)), NEW u,
           u = Grown(Evicted(table))
    PROVE  /\ GoodFor(setup, u)
           /\ u.count < LoadOf(u.alloc) /\ u.count \in Nat
           /\ Cap > 0 => u.count < Cap
           /\ Items(u) = Items(Evicted(table))
           /\ \A k : NoKey(table, k) => NoKey(u, k)
           /\ u.alloc # table.alloc => table.count >= setup.load
<1> DEFINE t == Evicted(table)
<1>1. /\ GoodFor(setup, t)
      /\ t.alloc = table.alloc
      /\ t.count <= table.count /\ t.count \in Nat
      /\ Cap > 0 => t.count < Cap
      /\ \A k : NoKey(table, k) => NoKey(t, k)
  BY EvictedGood
<1> HIDE DEF t
<1>2. /\ LoadOf(t.alloc) \in Nat /\ t.alloc \in Sizes /\ t.alloc \in Nat
      /\ Sound(hash, t) /\ t.count <= LoadOf(t.alloc) /\ LoadOf(t.alloc) >= setup.load
      /\ setup.load \in Nat /\ table.count \in Nat /\ Cap \in Nat
  BY <1>1, SetupLemma DEF GoodFor, hash
<1>3. CASE MustGrow(t)
  <2>1. CanGrow(t) /\ u = Rehashed(t) /\ t.count = LoadOf(t.alloc)
    BY <1>3 DEF t, Grown, MustGrow
  <2>2. /\ Sound(hash, u)
        /\ u.alloc \in Sizes /\ u.alloc > t.alloc
        /\ u.count = t.count
        /\ Items(u) = Items(t)
    BY <2>1, <1>2, RehashedLemma
  <2>3. LoadOf(u.alloc) > LoadOf(t.alloc) /\ LoadOf(u.alloc) \in Nat
    BY <2>2, <1>2, LoadLemma
  <2>4. \A k : NoKey(t, k) => NoKey(u, k)
    BY <2>2, <1>2, NoKeyLemma DEF Sound
  <2>5. u.count < LoadOf(u.alloc) /\ LoadOf(u.alloc) >= setup.load /\ table.count >= setup.load
    BY <2>1, <2>2, <2>3, <1>1, <1>2
  <2>6. GoodFor(setup, u)
    <3>1. Cap > 0 => u.count <= Cap
      BY <2>2, <1>1, <1>2
    <3>2. u.count <= LoadOf(u.alloc)
      BY <2>1, <2>2, <2>3, <1>1, <1>2
    <3> QED BY ONLY <2>2, <2>5, <3>1, <3>2 DEF GoodFor, hash, Cap
  <2> QED BY <2>2, <2>4, <2>5, <2>6, <1>1 DEF t
<1>4. CASE ~MustGrow(t)
  <2>1. u = t /\ t.count < LoadOf(t.alloc)
    <3>1. u = t
      BY <1>4 DEF t, Grown
    <3>2. t.count # LoadOf(t.alloc)
      BY <1>4 DEF MustGrow
    <3> QED BY <3>1, <3>2, <1>1, <1>2
  <2> QED BY <2>1, <1>1 DEF t
<1> QED BY <1>3, <1>4

(* lws_table_set of a key not in the table, after the eviction and the     *)
(* growth.                                                                 *)
LEMMA InsertedGood ==
    ASSUME TableInv, NEW k \in Keys, NoKey(table, k),
           MustGrow(Evicted(table)) => CanGrow(Evicted(table)),
           NEW slot, slot.state = "set", slot.key = k, NEW u,
           u = Inserted(Grown(Evicted(table)), k, slot)
    PROVE  /\ GoodFor(setup, u)
           /\ Items(u) = Behind(Items(Evicted(table)), ItemOf(slot))
           /\ u.alloc # table.alloc => table.count >= setup.load
<1> DEFINE t == Grown(Evicted(table))
<1>1. /\ GoodFor(setup, t)
      /\ t.count < LoadOf(t.alloc) /\ t.count \in Nat
      /\ Cap > 0 => t.count < Cap
      /\ Items(t) = Items(Evicted(table))
      /\ NoKey(t, k)
      /\ t.alloc # table.alloc => table.count >= setup.load
  BY GrownGood
<1>2. u = Inserted(t, k, slot)
  OBVIOUS
<1> HIDE DEF t
<1>3. Sound(hash, t) /\ t.alloc \in Sizes /\ Cap \in Nat /\ hash[k] \in Nat
  BY <1>1, SetupLemma DEF GoodFor, hash, Sound, Formed
<1>4. LoadOf(t.alloc) \in Nat /\ LoadOf(t.alloc) < t.alloc /\ t.alloc \in Nat
  BY <1>3, LoadLemma, SizesLemma
<1>5. /\ Sound(hash, u)
      /\ u.alloc = t.alloc
      /\ u.count = t.count + 1
      /\ Items(u) = Behind(Items(t), ItemOf(slot))
  <2>1. t.count < t.alloc
    BY <1>1, <1>4
  <2> QED BY <2>1, <1>1, <1>2, <1>3, InsertedLemma
<1>6. /\ u.count <= LoadOf(u.alloc)
      /\ Cap > 0 => u.count <= Cap
  BY <1>1, <1>3, <1>4, <1>5
<1>7. GoodFor(setup, u)
  BY <1>1, <1>5, <1>6 DEF GoodFor, hash, Cap
<1> QED BY <1>1, <1>5, <1>7

-------------------------------------------------------------------------------

(* The entry lws_table_set writes.                                         *)
LEMMA SlotFacts ==
    ASSUME NEW k, NEW v
    PROVE  /\ Slot(k, v).state = "set" /\ Slot(k, v).key = k
           /\ ItemOf(Slot(k, v)) =
                 [key |-> k, value |-> v, time |-> IF Timed THEN now ELSE 0]
  BY DEF Slot, SetSlot, ItemOf

(* An eviction does not change whether the table can grow.                 *)
LEMMA CanGrowLemma == TableInv => (CanGrow(Evicted(table)) <=> CanGrow(table))
  BY EvictedGood DEF CanGrow

(* No step leaves the invariant, and only one that finds the table full    *)
(* makes it larger.                                                        *)
LEMMA StepGood ==
    ASSUME TableInv, [Next]_vars
    PROVE  /\ TableInv'
           /\ table'.alloc # table.alloc => table.count >= setup.load
<1> SUFFICES /\ setup' = setup
             /\ GoodFor(setup, table')
             /\ table'.alloc # table.alloc => table.count >= setup.load
  BY DEF TableInv
<1>1. ASSUME table' = table, setup' = setup
      PROVE  /\ GoodFor(setup, table')
             /\ table'.alloc # table.alloc => table.count >= setup.load
  BY <1>1 DEF TableInv
<1>2. ASSUME NEW k \in Keys, Get(k)
      PROVE  /\ setup' = setup
             /\ GoodFor(setup, table')
             /\ table'.alloc # table.alloc => table.count >= setup.load
  <2> DEFINE i == Find(table, k)
  <2>1. setup' = setup /\ (table' = table \/ (i # None /\ table' = Used(table, i)))
    BY <1>2 DEF Get
  <2>2. CASE i # None /\ table' = Used(table, i)
    <3>1. i \in Slots(table) /\ IsSet(table, i)
      BY <2>2, FoundLemma
    <3> HIDE DEF i
    <3>2. GoodFor(setup, table') /\ table'.alloc = table.alloc
      BY <2>2, <3>1, UsedGood
    <3> QED BY <2>1, <3>2
  <2> QED BY <2>1, <2>2, <1>1
<1>3. ASSUME NEW k \in Keys, NEW v \in Values, Update(k, v)
      PROVE  /\ setup' = setup
             /\ GoodFor(setup, table')
             /\ table'.alloc # table.alloc => table.count >= setup.load
  <2> DEFINE i == Find(table, k)
             slot == Slot(k, v)
  <2>1. /\ setup' = setup /\ i # None
        /\ table' = [Used(table, i) EXCEPT !.entries[i] = slot]
    BY <1>3 DEF Update
  <2>2. i \in Slots(table) /\ IsSet(table, i) /\ table.entries[i].key = k
    BY <2>1, FoundLemma
  <2>3. slot.state = "set" /\ slot.key = k
    BY SlotFacts
  <2> HIDE DEF i, slot
  <2>4. GoodFor(setup, table') /\ table'.alloc = table.alloc
    BY <2>1, <2>2, <2>3, UpdatedGood
  <2> QED BY <2>1, <2>4
<1>4. ASSUME NEW k \in Keys, NEW v \in Values, Insert(k, v)
      PROVE  /\ setup' = setup
             /\ GoodFor(setup, table')
             /\ table'.alloc # table.alloc => table.count >= setup.load
  <2> DEFINE slot == Slot(k, v)
  <2>1. /\ setup' = setup /\ Find(table, k) = None
        /\ MustGrow(Evicted(table)) => CanGrow(table)
        /\ table' = Inserted(Grown(Evicted(table)), k, slot)
    BY <1>4 DEF Insert
  <2>2. NoKey(table, k)
    BY <2>1, FoundLemma
  <2>3. slot.state = "set" /\ slot.key = k
    BY SlotFacts
  <2>4. MustGrow(Evicted(table)) => CanGrow(Evicted(table))
    BY <2>1, CanGrowLemma
  <2> HIDE DEF slot
  <2>5. /\ GoodFor(setup, table')
        /\ table'.alloc # table.alloc => table.count >= setup.load
    BY <2>1, <2>2, <2>3, <2>4, InsertedGood
  <2> QED BY <2>1, <2>5
<1>5. ASSUME NEW k \in Keys, InsertFails(k)
      PROVE  /\ setup' = setup
             /\ GoodFor(setup, table')
             /\ table'.alloc # table.alloc => table.count >= setup.load
  <2>1. setup' = setup
    BY <1>5 DEF InsertFails
  <2>2. CASE table' = Evicted(table)
    BY <2>1, <2>2, EvictedGood
  <2>3. CASE /\ MustGrow(Evicted(table)) => CanGrow(table)
             /\ table' = Grown(Evicted(table))
    <3>1. MustGrow(Evicted(table)) => CanGrow(Evicted(table))
      BY <2>3, CanGrowLemma
    <3> QED BY <2>1, <2>3, <3>1, GrownGood
  <2> QED BY <2>2, <2>3, <1>5 DEF InsertFails
<1>6. ASSUME NEW k \in Keys, Delete(k)
      PROVE  /\ setup' = setup
             /\ GoodFor(setup, table')
             /\ table'.alloc # table.alloc => table.count >= setup.load
  <2> DEFINE i == Find(table, k)
  <2>1. setup' = setup /\ table' = IF i = None THEN table ELSE Removed(table, i)
    BY <1>6 DEF Delete
  <2>2. CASE i # None
    <3>1. i \in Slots(table) /\ IsSet(table, i) /\ table' = Removed(table, i)
      BY <2>1, <2>2, FoundLemma
    <3> HIDE DEF i
    <3>2. GoodFor(setup, table') /\ table'.alloc = table.alloc
      BY <3>1, RemovedGood
    <3> QED BY <2>1, <3>2
  <2> QED BY <2>1, <2>2, <1>1
<1>7. ASSUME Clear
      PROVE  /\ setup' = setup
             /\ GoodFor(setup, table')
             /\ table'.alloc # table.alloc => table.count >= setup.load
  <2>1. setup' = setup /\ table' = Empty(table.alloc)
    BY <1>7 DEF Clear
  <2>2. table.alloc \in Sizes /\ LoadOf(table.alloc) \in Nat /\ Cap \in Nat
    BY SetupLemma
  <2>3. Sound(setup.hash, table') /\ table'.alloc = table.alloc /\ table'.count = 0
    BY <2>1, <2>2, EmptyLemma
  <2>4. GoodFor(setup, table')
    BY <2>2, <2>3 DEF TableInv, GoodFor, Cap
  <2> QED BY <2>1, <2>3, <2>4
<1>8. ASSUME UNCHANGED <<setup, table>>
      PROVE  /\ setup' = setup
             /\ GoodFor(setup, table')
             /\ table'.alloc # table.alloc => table.count >= setup.load
  BY <1>1, <1>8
<1>9. Start \/ (\E k \in Keys : Continue(k)) \/ Tick \/ UNCHANGED vars
         => UNCHANGED <<setup, table>>
  BY DEF Start, Continue, Tick, vars
<1> QED BY <1>2, <1>3, <1>4, <1>5, <1>6, <1>7, <1>8, <1>9 DEF Next

(* The table is sound at every step of lws_table: a stored entry is on the *)
(* path of its key, each key is stored once, the order list holds the      *)
(* stored entries and nothing else, the count is their number, and the load*)
(* and the cap are kept.                                                   *)
THEOREM TableSound == Spec => []TableInv
<1>1. TableInv /\ [Next]_vars => TableInv'
  BY StepGood
<1> QED BY InitGood, <1>1, PTL DEF Spec

(* Every entry is found on the path of its key and no other is.            *)
THEOREM EntriesRetrievable == Spec => []Retrievable
<1>1. ASSUME TableInv
      PROVE  Retrievable
  <2> SUFFICES ASSUME NEW k \in Keys
               PROVE  LET own == {i \in Linked : table.entries[i].key = k}
                      IN  IF own = {} THEN Find(table, k) = None ELSE own = {Find(table, k)}
    BY DEF Retrievable
  <2> DEFINE own == {i \in Linked : table.entries[i].key = k}
  <2>1. \A i : i \in Linked <=> i \in Slots(table) /\ IsSet(table, i)
    <3>1. Linked = ToSet(table.order)
      BY DEF Linked, ToSet
    <3>2. \A n \in DOMAIN table.order : table.order[n] \in Slots(table)
      BY <1>1, SetupLemma, ItemsLemma
    <3> QED BY <1>1, <3>1, <3>2, SetupLemma DEF Listed, ToSet
  <2>2. NoKey(table, k) => own = {} /\ Find(table, k) = None
    BY <1>1, <2>1, FoundLemma DEF NoKey
  <2>3. ~NoKey(table, k) => own = {Find(table, k)}
    <3> SUFFICES ASSUME ~NoKey(table, k)
                 PROVE  own = {Find(table, k)}
      OBVIOUS
    <3>1. /\ Find(table, k) \in Slots(table) /\ IsSet(table, Find(table, k))
          /\ table.entries[Find(table, k)].key = k
      BY <1>1, FoundLemma
    <3>2. KeysOnce(table)
      BY <1>1, SetupLemma DEF Sound
    <3> QED BY <2>1, <3>1, <3>2 DEF KeysOnce
  <2> QED BY <2>2, <2>3
<1> QED BY <1>1, TableSound, PTL

(* The order list and the count.                                           *)
THEOREM OrderAlwaysSound == Spec => []OrderSound
<1>1. ASSUME TableInv
      PROVE  OrderSound
  <2>1. IsInjective(table.order) /\ table.count = Len(table.order)
    BY <1>1, SetupLemma DEF Listed
  <2>2. table.count <= LoadOf(table.alloc) /\ (Cap > 0 => table.count <= Cap)
    BY <1>1 DEF TableInv, GoodFor, Cap
  <2>3. LoadOf(table.alloc) < table.alloc
    BY <1>1, SetupLemma
  <2>4. Linked = {i \in DOMAIN table.entries : IsSet(table, i)}
    <3>1. Linked = ToSet(table.order)
      BY DEF Linked, ToSet
    <3>2. \A n \in DOMAIN table.order : table.order[n] \in Slots(table)
      BY <1>1, SetupLemma, ItemsLemma
    <3>3. DOMAIN table.entries = Slots(table)
      BY <1>1, SetupLemma DEF Formed
    <3> QED BY <1>1, <3>1, <3>2, <3>3, SetupLemma DEF Listed, ToSet
  <2> QED BY <2>1, <2>2, <2>3, <2>4 DEF OrderSound
<1> QED BY <1>1, TableSound, PTL

(* A table is not rehashed before it holds the entries it was made for.    *)
THEOREM RoomIsKept == Spec => CreatedForLoad
<1>1. TableInv /\ [Next]_vars
         => [table'.alloc # table.alloc => table.count >= setup.load]_vars
  BY StepGood
<1> QED BY <1>1, TableSound, PTL DEF Spec, CreatedForLoad

-------------------------------------------------------------------------------

(* The operators of the map, of what the table holds.                      *)
LEMMA MapOperators ==
    /\ \A k : Map!At(k) = {n \in DOMAIN Items(table) : Items(table)[n].key = k}
    /\ \A n : Map!Without(n) = Lacking(Items(table), n)
    /\ \A n, item : Map!Touched(n, item) =
                       IF Cap > 0 THEN Behind(Lacking(Items(table), n), item)
                       ELSE Changed(Items(table), n, item)
    /\ \A n : Map!Expired(n) <=> Timed /\ Items(table)[n].time + Timeout <= now
    /\ \A k, v : Map!Item(k, v) = ItemOf(Slot(k, v))
    /\ Map!Evicted = IF Cap > 0 /\ Len(Items(table)) = Cap THEN Tail(Items(table))
                     ELSE Items(table)
    /\ Kind.keys = Keys /\ Kind.values = Values
<1>1. /\ Kind.keys = Keys /\ Kind.values = Values /\ Kind.cap = Cap
      /\ Kind.timed = Timed /\ Kind.timeout = Timeout
  BY DEF Kind
<1>2. \A k : Map!At(k) = {n \in DOMAIN Items(table) : Items(table)[n].key = k}
  BY DEF Map!At
<1>3. \A n : Map!Without(n) = Lacking(Items(table), n)
  BY DEF Map!Without, Lacking
<1>4. \A n, item : Map!Touched(n, item) =
                      IF Cap > 0 THEN Behind(Lacking(Items(table), n), item)
                      ELSE Changed(Items(table), n, item)
  BY <1>1, <1>3 DEF Map!Touched, Behind, Changed
<1>5. \A n : Map!Expired(n) <=> Timed /\ Items(table)[n].time + Timeout <= now
  BY <1>1, Zenon DEF Map!Expired
<1>6. \A k, v : Map!Item(k, v) = ItemOf(Slot(k, v))
  BY <1>1, SlotFacts DEF Map!Item
<1>7. Map!Evicted = IF Cap > 0 /\ Len(Items(table)) = Cap THEN Tail(Items(table))
                    ELSE Items(table)
  BY <1>1 DEF Map!Evicted
<1> QED BY <1>1, <1>2, <1>3, <1>4, <1>5, <1>6, <1>7

(* The place of a key in the order.                                        *)
LEMMA PlaceInOrder ==
    ASSUME TableInv, NEW k \in Keys, NEW i, i = Find(table, k),
           NEW n, n = PositionOf(table.order, i)
    PROVE  /\ i = None => Map!At(k) = {}
           /\ i # None => /\ Map!At(k) = {n}
                          /\ i \in Slots(table) /\ IsSet(table, i)
                          /\ n \in 1 .. Len(Items(table))
                          /\ table.order[n] = i
                          /\ table.entries[i].key = k
                          /\ Items(table)[n].key = k
                          /\ Items(table)[n].value = table.entries[i].value
                          /\ Items(table)[n].time = table.entries[i].time
<1>1. /\ DOMAIN Items(table) = 1 .. Len(table.order)
      /\ Len(Items(table)) = Len(table.order)
      /\ \A m \in 1 .. Len(table.order) :
            /\ table.order[m] \in Slots(table)
            /\ IsSet(table, table.order[m])
            /\ Items(table)[m].key = table.entries[table.order[m]].key
            /\ Items(table)[m].value = table.entries[table.order[m]].value
            /\ Items(table)[m].time = table.entries[table.order[m]].time
  BY SetupLemma, ItemsLemma
<1>2. Map!At(k) = {m \in DOMAIN Items(table) : Items(table)[m].key = k}
  BY MapOperators
<1>3. ASSUME i = None
      PROVE  Map!At(k) = {}
  <2>1. NoKey(table, k)
    BY <1>3, FoundLemma
  <2>2. \A m \in 1 .. Len(table.order) : Items(table)[m].key # k
    BY <2>1, <1>1 DEF NoKey
  <2> QED BY <2>2, <1>1, <1>2
<1>4. ASSUME i # None
      PROVE  /\ Map!At(k) = {n}
             /\ i \in Slots(table) /\ IsSet(table, i)
             /\ n \in 1 .. Len(table.order)
             /\ table.order[n] = i
             /\ table.entries[i].key = k
  <2>1. i \in Slots(table) /\ IsSet(table, i) /\ table.entries[i].key = k
    BY <1>4, FoundLemma
  <2>2. /\ n \in 1 .. Len(table.order) /\ table.order[n] = i
        /\ \A m \in 1 .. Len(table.order) : table.order[m] = i => m = n
    BY <2>1, SetupLemma, PositionLemma
  <2>3. \A m \in 1 .. Len(table.order) : Items(table)[m].key = k => table.order[m] = i
    BY <2>1, <1>1, SetupLemma DEF Sound, KeysOnce
  <2> QED BY <2>1, <2>2, <2>3, <1>1, <1>2
<1> QED BY <1>1, <1>3, <1>4

(* Sequences as functions: the rest, and a change of the last or of none.  *)
LEMMA TupleFacts ==
    ASSUME NEW m \in Nat, NEW f, f = [j \in 1 .. m |-> f[j]]
    PROVE  /\ Len(f) = m
           /\ m > 0 => Tail(f) = Lacking(f, 1) /\ Head(f) = f[1] /\ f # <<>>
           /\ m = 0 => f = <<>>
           /\ \A n \in 1 .. m : Changed(f, n, f[n]) = f
           /\ \A n \in 1 .. m : \A x, y :
                 Changed(Behind(Lacking(f, n), x), m, y) = Behind(Lacking(f, n), y)
<1> DEFINE S == {f[j] : j \in 1 .. m}
<1>1. f \in [1 .. m -> S]
  <2>1. \A j \in 1 .. m : f[j] \in S
    OBVIOUS
  <2> HIDE DEF S
  <2> QED BY <2>1
<1> HIDE DEF S
<1>2. f \in Seq(S) /\ Len(f) = m /\ DOMAIN f = 1 .. m
  BY <1>1
<1>3. m = 0 => f = <<>>
  BY <1>2
<1>4. ASSUME m > 0
      PROVE  Tail(f) = Lacking(f, 1) /\ Head(f) = f[1] /\ f # <<>>
  <2>1. f # <<>> /\ Head(f) = f[1]
    BY <1>2, <1>4
  <2>2. Tail(f) \in Seq(S) /\ Len(Tail(f)) = m - 1 /\ \A j \in 1 .. m - 1 : Tail(f)[j] = f[j + 1]
    BY <1>2, <2>1, HeadTailProperties
  <2>3. Tail(f) = [j \in 1 .. m - 1 |-> f[j + 1]]
    <3>1. DOMAIN Tail(f) = 1 .. m - 1 /\ Tail(f) = [j \in DOMAIN Tail(f) |-> Tail(f)[j]]
      BY <2>2, LenProperties
    <3> QED BY <3>1, <2>2
  <2>4. Lacking(f, 1) = [j \in 1 .. m - 1 |-> f[j + 1]]
    BY <1>2 DEF Lacking
  <2> QED BY <2>1, <2>3, <2>4
<1>5. \A n \in 1 .. m : Changed(f, n, f[n]) = f
  BY DEF Changed
<1>6. ASSUME NEW n \in 1 .. m, NEW x, NEW y
      PROVE  Changed(Behind(Lacking(f, n), x), m, y) = Behind(Lacking(f, n), y)
  <2> DEFINE g == Lacking(f, n)
             p == m - 1
  <2>1. p \in Nat /\ m = p + 1 /\ g = [j \in 1 .. p |-> g[j]]
    BY <1>2 DEF Lacking
  <2> HIDE DEF g, p
  <2>2. \A z : Behind(g, z) = [j \in 1 .. p + 1 |-> IF j <= p THEN g[j] ELSE z]
    BY <2>1, ExtendTuple DEF Behind
  <2> DEFINE h == Behind(g, x)
  <2>3. h = [j \in 1 .. p + 1 |-> IF j <= p THEN g[j] ELSE x]
    BY <2>2
  <2>4. Changed(h, m, y) = [j \in 1 .. p + 1 |-> IF j = m THEN y ELSE h[j]]
    BY <2>3 DEF Changed
  <2>5. \A j \in 1 .. p + 1 : (IF j = m THEN y ELSE h[j]) = IF j <= p THEN g[j] ELSE y
    <3> TAKE j \in 1 .. p + 1
    <3>1. CASE j <= p
      BY <3>1, <2>1, <2>3
    <3>2. CASE ~(j <= p)
      BY <3>2, <2>1
    <3> QED BY <3>1, <3>2
  <2>6. Behind(g, y) = [j \in 1 .. p + 1 |-> IF j <= p THEN g[j] ELSE y]
    BY <2>2
  <2> HIDE DEF h
  <2>7. Changed(h, m, y) = Behind(g, y)
    BY <2>4, <2>5, <2>6
  <2> QED BY <2>7 DEF h, g
<1> QED BY <1>2, <1>3, <1>4, <1>5, <1>6

(* A new table is an empty map.                                            *)
LEMMA InitIsMap == Init /\ TableInv => Map!Init
<1> SUFFICES ASSUME Init, TableInv
             PROVE  Map!Init
  OBVIOUS
<1>1. /\ DOMAIN Items(table) = 1 .. Len(Items(table))
      /\ Len(Items(table)) = table.count
      /\ Items(table) = [n \in 1 .. Len(Items(table)) |-> Items(table)[n]]
  BY SetupLemma, ItemsLemma
<1>2. table.count = 0
  BY DEF Init, Empty
<1>3. Items(table) = <<>>
  BY <1>1, <1>2, TupleFacts
<1> QED BY <1>3 DEF Init, Map!Init

(* Every step of the table is one of the map, or changes nothing of it.    *)
LEMMA StepIsMap ==
    ASSUME TableInv, [Next]_vars
    PROVE  [Map!Next /\ UNCHANGED Kind]_(Map!vars)
<1> SUFFICES (Map!Next /\ UNCHANGED Kind) \/ UNCHANGED Map!vars
  OBVIOUS
<1> DEFINE its == Items(table)
           m == table.count
<1>1. /\ m \in Nat /\ Len(its) = m /\ Len(table.order) = m
      /\ its = [n \in 1 .. m |-> its[n]]
  BY SetupLemma, ItemsLemma
<1>2. /\ m > 0 => Tail(its) = Lacking(its, 1) /\ Head(its) = its[1] /\ its # <<>>
      /\ m = 0 => its = <<>>
      /\ \A n \in 1 .. m : Changed(its, n, its[n]) = its
      /\ \A n \in 1 .. m : \A x, y :
            Changed(Behind(Lacking(its, n), x), m, y) = Behind(Lacking(its, n), y)
  <2> HIDE DEF its, m
  <2> QED BY <1>1, TupleFacts
<1>3. ASSUME setup' = setup
      PROVE  UNCHANGED Kind
  BY <1>3 DEF Kind, Keys, Values, Cap, Timed, Timeout, hash
<1>4. Map!Evicted = Items(Evicted(table))
  <2>1. Items(Evicted(table)) = IF Cap > 0 /\ Len(its) = Cap THEN Lacking(its, 1) ELSE its
    BY EvictedGood
  <2>2. Cap > 0 /\ Len(its) = Cap => m > 0
    BY <1>1
  <2> QED BY <2>1, <2>2, <1>2, MapOperators
<1>5. ASSUME NEW k \in Keys, Get(k)
      PROVE  Map!Next /\ UNCHANGED Kind
  <2> DEFINE i == Find(table, k)
             n == PositionOf(table.order, i)
  <2>1. /\ i = None => Map!At(k) = {}
        /\ i # None => /\ Map!At(k) = {n}
                       /\ i \in Slots(table) /\ IsSet(table, i)
                       /\ n \in 1 .. m
                       /\ its[n].value = table.entries[i].value
                       /\ its[n].time = table.entries[i].time
    BY <1>1, PlaceInOrder
  <2>2. i # None => (Map!Expired(n) <=> IsExpired(i))
    BY <2>1, MapOperators DEF IsExpired
  <2>3. setup' = setup /\ now' = now
    BY <1>5 DEF Get
  <2>4. CASE (i = None \/ IsExpired(i)) /\ result' = None /\ UNCHANGED table
    <3>1. \A x \in Map!At(k) : Map!Expired(x)
      BY <2>1, <2>2, <2>4
    <3>2. UNCHANGED Items(table)
      BY <2>4
    <3>3. Map!Get(k)
      BY <2>3, <2>4, <3>1, <3>2 DEF Map!Get
    <3> QED BY <2>3, <3>3, <1>3, MapOperators DEF Map!Next
  <2>5. CASE /\ i # None /\ ~IsExpired(i)
             /\ result' = table.entries[i].value
             /\ table' = Used(table, i)
    <3>1. Items(table') = Map!Touched(n, its[n])
      <4>1. /\ Cap > 0 => Items(table') = Behind(Lacking(its, n), its[n])
            /\ ~(Cap > 0) => table' = table
        BY <2>1, <2>5, UsedGood
      <4> QED BY <4>1, <2>1, <2>5, <1>2, MapOperators
    <3>2. Map!Get(k)
      <4> HIDE DEF i, n
      <4>1. n \in Map!At(k) /\ ~Map!Expired(n) /\ result' = its[n].value
        BY <2>1, <2>2, <2>5
      <4> QED BY <2>3, <3>1, <4>1 DEF Map!Get
    <3> QED BY <2>3, <3>2, <1>3, MapOperators DEF Map!Next
  <2> QED BY <2>4, <2>5, <1>5 DEF Get
<1>6. ASSUME NEW k \in Keys, NEW v \in Values, Update(k, v)
      PROVE  Map!Next /\ UNCHANGED Kind
  <2> DEFINE i == Find(table, k)
             n == PositionOf(table.order, i)
             slot == Slot(k, v)
             t == Used(table, i)
  <2>1. /\ i # None /\ setup' = setup /\ now' = now /\ result' = "ok"
        /\ table' = [t EXCEPT !.entries[i] = slot]
    BY <1>6 DEF Update
  <2>2. /\ Map!At(k) = {n} /\ n \in 1 .. m
        /\ i \in Slots(table) /\ IsSet(table, i) /\ table.entries[i].key = k
    BY <2>1, <1>1, PlaceInOrder
  <2>3. slot.state = "set" /\ slot.key = k
    BY SlotFacts
  <2>4. Items(table') = Changed(Items(t), PositionOf(t.order, i), ItemOf(slot))
    <3> HIDE DEF i, slot
    <3> QED BY <2>1, <2>2, <2>3, UpdatedGood
  <2>5. /\ Cap > 0 => /\ Items(t) = Behind(Lacking(its, n), its[n])
                      /\ PositionOf(t.order, i) = m
        /\ ~(Cap > 0) => t = table
    BY <2>2, UsedGood
  <2> HIDE DEF slot, i, t
  <2>6. Items(table') = Map!Touched(n, ItemOf(slot))
    BY <2>2, <2>4, <2>5, <1>2, MapOperators
  <2>7. Map!Item(k, v) = ItemOf(slot)
    BY MapOperators DEF slot
  <2>8. Map!Set(k, v)
    BY <2>1, <2>2, <2>6, <2>7 DEF Map!Set
  <2> QED BY <2>1, <2>8, <1>3, MapOperators DEF Map!Next
<1>7. ASSUME NEW k \in Keys, NEW v \in Values, Insert(k, v)
      PROVE  Map!Next /\ UNCHANGED Kind
  <2> DEFINE slot == Slot(k, v)
  <2>1. /\ Find(table, k) = None /\ setup' = setup /\ now' = now /\ result' = "ok"
        /\ MustGrow(Evicted(table)) => CanGrow(Evicted(table))
        /\ table' = Inserted(Grown(Evicted(table)), k, slot)
    BY <1>7, CanGrowLemma DEF Insert
  <2>2. Map!At(k) = {} /\ NoKey(table, k)
    BY <2>1, PlaceInOrder, FoundLemma
  <2>3. slot.state = "set" /\ slot.key = k /\ Map!Item(k, v) = ItemOf(slot)
    BY SlotFacts, MapOperators
  <2> HIDE DEF slot
  <2>4. Items(table') = Append(Map!Evicted, Map!Item(k, v))
    BY <2>1, <2>2, <2>3, <1>4, InsertedGood DEF Behind
  <2>5. Map!Set(k, v)
    BY <2>1, <2>2, <2>4 DEF Map!Set
  <2> QED BY <2>1, <2>5, <1>3, MapOperators DEF Map!Next
<1>8. ASSUME NEW k \in Keys, InsertFails(k)
      PROVE  Map!Next /\ UNCHANGED Kind
  <2>1. Find(table, k) = None /\ setup' = setup /\ now' = now /\ result' = "failed"
    BY <1>8 DEF InsertFails
  <2>2. Map!At(k) = {}
    BY <2>1, PlaceInOrder
  <2>3. Items(table') = Map!Evicted
    <3>1. CASE table' = Evicted(table)
      BY <3>1, <1>4
    <3>2. CASE /\ MustGrow(Evicted(table)) => CanGrow(table)
               /\ table' = Grown(Evicted(table))
      BY <3>2, <1>4, CanGrowLemma, GrownGood
    <3> QED BY <3>1, <3>2, <1>8 DEF InsertFails
  <2>4. Map!SetFails(k)
    BY <2>1, <2>2, <2>3 DEF Map!SetFails
  <2> QED BY <2>1, <2>4, <1>3, MapOperators DEF Map!Next
<1>9. ASSUME NEW k \in Keys, Delete(k)
      PROVE  Map!Next /\ UNCHANGED Kind
  <2> DEFINE i == Find(table, k)
             n == PositionOf(table.order, i)
  <2>1. /\ setup' = setup /\ now' = now /\ result' = "ok"
        /\ table' = IF i = None THEN table ELSE Removed(table, i)
    BY <1>9 DEF Delete
  <2>2. Map!Remove(k)
    <3>1. CASE i = None
      <4>1. Map!At(k) = {} /\ table' = table
        BY <2>1, <3>1, PlaceInOrder
      <4>2. UNCHANGED Items(table)
        BY <4>1
      <4> QED BY <2>1, <4>1, <4>2 DEF Map!Remove
    <3>2. CASE i # None
      <4>1. /\ Map!At(k) = {n} /\ i \in Slots(table) /\ IsSet(table, i)
            /\ table' = Removed(table, i)
        BY <2>1, <3>2, PlaceInOrder
      <4>2. Items(table') = Map!Without(n)
        BY <4>1, RemovedGood, MapOperators
      <4> QED BY <2>1, <4>1, <4>2 DEF Map!Remove
    <3> QED BY <3>1, <3>2
  <2> QED BY <2>1, <2>2, <1>3, MapOperators DEF Map!Next
<1>10. ASSUME Clear
       PROVE  Map!Next /\ UNCHANGED Kind
  <2>1. setup' = setup /\ now' = now /\ result' = None /\ table' = Empty(table.alloc)
    BY <1>10 DEF Clear
  <2>2. Items(table') = <<>>
    BY <2>1, SetupLemma, EmptyLemma
  <2>3. Map!Clear
    BY <2>1, <2>2 DEF Map!Clear
  <2> QED BY <2>1, <2>3, <1>3 DEF Map!Next
<1>11. ASSUME NEW n \in Nat
       PROVE  KeyAt(n + 1) = IF n + 1 > m THEN None ELSE its[n + 1].key
  <2>1. n + 1 <= m => its[n + 1].key = table.entries[table.order[n + 1]].key
    BY <1>1, SetupLemma, ItemsLemma
  <2> QED BY <2>1, <1>1 DEF KeyAt
<1>12. ASSUME Start
       PROVE  Map!Next /\ UNCHANGED Kind
  <2>1. result' = KeyAt(1) /\ setup' = setup /\ table' = table /\ now' = now
    BY <1>12 DEF Start
  <2>2. KeyAt(1) = IF its = <<>> THEN None ELSE Head(its).key
    <3>1. KeyAt(0 + 1) = IF 0 + 1 > m THEN None ELSE its[0 + 1].key
      BY <1>11, 0 \in Nat
    <3>2. KeyAt(1) = IF 1 > m THEN None ELSE its[1].key
      BY <3>1, 0 + 1 = 1
    <3>3. (its = <<>> <=> 1 > m) /\ Head(its) = its[1]
      BY <1>1
    <3> QED BY <3>2, <3>3
  <2>3. UNCHANGED Items(table)
    BY <2>1
  <2>4. Map!Continue(None)
    BY <2>1, <2>2, <2>3 DEF Map!Continue
  <2> QED BY <2>1, <2>4, <1>3 DEF Map!Next
<1>13. ASSUME NEW k \in Keys, Continue(k)
       PROVE  Map!Next /\ UNCHANGED Kind
  <2> DEFINE i == Find(table, k)
             n == PositionOf(table.order, i)
  <2>1. /\ setup' = setup /\ table' = table /\ now' = now
        /\ result' = IF i = None THEN None ELSE KeyAt(1 + n)
    BY <1>13 DEF Continue
  <2>2. UNCHANGED Items(table)
    BY <2>1
  <2>3. k # None
    BY SetupLemma
  <2>4. result' = IF \E x \in Map!At(k) : x < Len(its)
                  THEN its[(CHOOSE x \in Map!At(k) : TRUE) + 1].key
                  ELSE None
    <3>1. CASE i = None
      BY <2>1, <3>1, PlaceInOrder
    <3>2. CASE i # None
      <4>1. Map!At(k) = {n} /\ n \in 1 .. m
        BY <3>2, <1>1, PlaceInOrder
      <4> HIDE DEF i, n
      <4>2. (CHOOSE x \in Map!At(k) : TRUE) = n
        BY <4>1
      <4>3. KeyAt(1 + n) = IF n + 1 > m THEN None ELSE its[n + 1].key
        <5>1. n \in Nat /\ 1 + n = n + 1
          BY <4>1, <1>1
        <5> QED BY <5>1, <1>11
      <4>4. (\E x \in Map!At(k) : x < Len(its)) <=> ~(n + 1 > m)
        BY <4>1, <1>1
      <4> QED BY <2>1, <3>2, <4>2, <4>3, <4>4
    <3> QED BY <3>1, <3>2
  <2>5. Map!Continue(k)
    BY <2>1, <2>2, <2>3, <2>4 DEF Map!Continue
  <2> QED BY <2>1, <2>5, <1>3, MapOperators DEF Map!Next
<1>14. ASSUME Tick
       PROVE  Map!Next /\ UNCHANGED Kind
  <2>1. setup' = setup /\ table' = table /\ now' = now + 1 /\ now < MaxTime /\ result' = result
    BY <1>14 DEF Tick
  <2>2. UNCHANGED Items(table)
    BY <2>1
  <2>3. Map!Tick
    BY <2>1, <2>2 DEF Map!Tick
  <2> QED BY <2>1, <2>3, <1>3 DEF Map!Next
<1>15. ASSUME UNCHANGED vars
       PROVE  UNCHANGED Map!vars
  <2>1. setup' = setup /\ table' = table /\ now' = now /\ result' = result
    BY <1>15 DEF vars
  <2>2. UNCHANGED Items(table) /\ UNCHANGED Kind
    BY <2>1, <1>3
  <2> QED BY <2>1, <2>2 DEF Map!vars
<1> QED BY <1>5, <1>6, <1>7, <1>8, <1>9, <1>10, <1>12, <1>13, <1>14, <1>15 DEF Next

(* The hash table is the map of module LwsMap to its users.                *)
THEOREM TableImplementsMap == Spec => ImplementsMap
<1>1. TableInv /\ [Next]_vars => [Map!Next /\ UNCHANGED Kind]_(Map!vars)
  BY StepIsMap
<1>2. Init => Map!Init
  BY InitGood, InitIsMap
<1> QED BY <1>1, <1>2, TableSound, PTL DEF Spec, ImplementsMap, Map!Spec
===============================================================================
