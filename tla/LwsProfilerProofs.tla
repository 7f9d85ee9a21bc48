--------------------------- MODULE LwsProfilerProofs ---------------------------
(***************************************************************************)
(* Proofs about LwsProfiler: for any functions, calls, errors and failing  *)
(* allocations, and any clock, the depths of the profiler match its stack, *)
(* without errors its times are the time spent, and the list in the        *)
(* monitor has every run once.                                             *)
(***************************************************************************)
EXTENDS LwsProfiler, SeqLemmas

-------------------------------------------------------------------------------
(* The inductive invariant.                                                *)

(* How often f is on the stack s.                                          *)
Count(s, f) == Cardinality({i \in DOMAIN s : s[i] = f})

(* A time read from the clock in the past.                                 *)
Past(t) == t \in Timespec /\ t.nsec < NanoMax /\ Value(t) <= now

RecordOK(r) == r \in Record /\ Past(r.self_start) /\ Past(r.total_start)

Profilers == [records : [Functions -> Record \cup {None}], stack : Seq(Functions)]

ProfilerOK(p) ==
    /\ p \in Profilers
    /\ \A f \in Functions : p.records[f] # None =>
          RecordOK(p.records[f]) /\ p.records[f].depth = Count(p.stack, f)
    /\ \A i \in DOMAIN p.stack : p.records[p.stack[i]] # None

(* The self time of function f up to its last exit, and that since then.   *)
StoredIn(p, f) == IF p.records[f] = None THEN 0 ELSE Value(p.records[f].self)

DueIn(p, f) == IF p.stack # <<>> /\ Last(p.stack) = f
               THEN now - Value(p.records[f].self_start)
               ELSE 0

SelfIn(p, f) == StoredIn(p, f) + DueIn(p, f)

(* The total time of function f.                                           *)
TotalTime(r) == Value(r.total) + IF r.depth > 0 THEN now - Value(r.total_start) ELSE 0

TotalIn(p, f) == IF p.records[f] = None THEN 0 ELSE TotalTime(p.records[f])

Types ==
    /\ active \in BOOLEAN /\ full \in BOOLEAN /\ clean \in BOOLEAN
    /\ frames \in Seq(Functions)
    /\ now \in Nat
    /\ selfTime \in [Functions -> Nat]
    /\ fullTime \in [Functions -> Nat]
    /\ merged \in [Functions -> [calls : Nat, self : Nat, total : Nat]]

(* A profiler that is not active has measured nothing.                     *)
IdleOK ==
    ~active => /\ profiler = NewProfiler
               /\ frames = <<>>
               /\ selfTime = NoTime
               /\ fullTime = NoTime
               /\ clean

(* Without errors the profiler knows where the time went.                  *)
CleanOK ==
    clean => /\ profiler.stack = frames
             /\ \A f \in Functions : /\ SelfIn(profiler, f) = selfTime[f]
                                     /\ TotalIn(profiler, f) = fullTime[f]

(* The list in the monitor.                                                *)
EntryOK(e, m) == /\ e \in [calls : Nat, self : Timespec, total : Timespec]
                 /\ e.calls = m.calls
                 /\ Value(e.self) = m.self
                 /\ Value(e.total) = m.total

ListOK ==
    /\ DOMAIN functions \subseteq Functions
    /\ \A f \in DOMAIN functions : EntryOK(functions[f], merged[f])
    /\ ~full => \A f \in Functions \ DOMAIN functions :
                   merged[f].calls = 0 /\ merged[f].self = 0 /\ merged[f].total = 0

IInv == Types /\ ProfilerOK(profiler) /\ IdleOK /\ CleanOK /\ ListOK

-------------------------------------------------------------------------------
(* Times.                                                                  *)

(* Multiples of a second.                                                 *)
LEMMA Product ==
    /\ NanoMax \in Nat \ {0}
    /\ \A a, b \in Int : (a + b) * NanoMax = a * NanoMax + b * NanoMax
    /\ \A a, b \in Int : (a - b) * NanoMax = a * NanoMax - b * NanoMax
    /\ \A a \in Int : a * NanoMax \in Int
    /\ \A a \in Nat : a * NanoMax \in Nat
    /\ \A a, b \in Int : a < b => a * NanoMax + NanoMax <= b * NanoMax
<1>1. NanoMax \in Nat \ {0}
  BY ProfilerAssumption
<1>2. \A a, b \in Int : (a + b) * NanoMax = a * NanoMax + b * NanoMax
  BY <1>1
<1>3. \A a, b \in Int : (a - b) * NanoMax = a * NanoMax - b * NanoMax
  BY <1>1
<1>4. \A a \in Nat : a * NanoMax \in Nat
  BY <1>1
<1>5. \A a, b \in Int : a < b => a * NanoMax + NanoMax <= b * NanoMax
  <2> TAKE a, b \in Int
  <2> HAVE a < b
  <2> DEFINE d == b - a - 1
  <2>1. d \in Nat /\ b = (a + 1) + d
    OBVIOUS
  <2> HIDE DEF d
  <2>2. b * NanoMax = (a + 1) * NanoMax + d * NanoMax
    BY <2>1, <1>2
  <2>3. (a + 1) * NanoMax = a * NanoMax + NanoMax
    BY <1>1
  <2>4. d * NanoMax \in Nat
    BY <2>1, <1>4
  <2>5. a * NanoMax \in Int
    BY <1>1
  <2> QED BY <2>2, <2>3, <2>4, <2>5, <1>1
<1> QED BY <1>1, <1>2, <1>3, <1>4, <1>5

(* A time is a number of nanoseconds.                                      *)
LEMMA ValueOf ==
    ASSUME NEW t \in Timespec
    PROVE  Value(t) \in Nat /\ t.sec \in Nat /\ t.nsec \in 0 .. NanoMax
  BY Product DEF Timespec, Value

(* The clock shows the time.                                               *)
LEMMA ClockNow ==
    ASSUME now \in Nat
    PROVE  Clock \in Timespec /\ Clock.nsec < NanoMax /\ Value(Clock) = now
<1>1. NanoMax \in Nat \ {0}
  BY ProfilerAssumption
<1>2. /\ now \div NanoMax \in Nat
      /\ now % NanoMax \in 0 .. NanoMax - 1
      /\ now = (now \div NanoMax) * NanoMax + (now % NanoMax)
  BY <1>1
<1> QED BY <1>1, <1>2 DEF Clock, Timespec, Value

(* A sum of times is a time.                                               *)
LEMMA CarriedTime ==
    ASSUME NEW s \in Nat, NEW n \in 0 .. 2 * NanoMax
    PROVE  /\ Carried(s, n) \in Timespec
           /\ Value(Carried(s, n)) = s * NanoMax + n
<1>1. NanoMax \in Nat \ {0}
  BY Product
<1>2. CASE n > NanoMax
  <2>1. (s + 1) * NanoMax = s * NanoMax + NanoMax /\ s * NanoMax \in Nat
    BY <1>1
  <2>2. Carried(s, n) = [sec |-> s + 1, nsec |-> n - NanoMax]
    BY <1>2 DEF Carried
  <2>3. n - NanoMax \in 0 .. NanoMax /\ s + 1 \in Nat
    BY <1>1, <1>2
  <2>4. (s + 1) * NanoMax + (n - NanoMax) = s * NanoMax + n
    BY <2>1, <1>1
  <2> QED BY <2>2, <2>3, <2>4 DEF Timespec, Value
<1>3. CASE ~(n > NanoMax)
  <2>1. Carried(s, n) = [sec |-> s, nsec |-> n] /\ n \in 0 .. NanoMax
    BY <1>1, <1>3 DEF Carried
  <2> QED BY <2>1 DEF Timespec, Value
<1> QED BY <1>2, <1>3

(* The sum of two times (lws_add_timespec).                                *)
LEMMA AddTimes ==
    ASSUME NEW t \in Timespec, NEW u \in Timespec
    PROVE  Add(t, u) \in Timespec /\ Value(Add(t, u)) = Value(t) + Value(u)
<1> DEFINE s == t.sec + u.sec
           n == t.nsec + u.nsec
<1>1. /\ t.sec \in Nat /\ u.sec \in Nat
      /\ t.nsec \in 0 .. NanoMax /\ u.nsec \in 0 .. NanoMax
  BY ValueOf
<1>2. s \in Nat /\ n \in 0 .. 2 * NanoMax
  BY <1>1, Product
<1>3. s * NanoMax = t.sec * NanoMax + u.sec * NanoMax
  BY <1>1, Product
<1>4. t.sec * NanoMax \in Nat /\ u.sec * NanoMax \in Nat
  BY <1>1, Product
<1>5. Add(t, u) = Carried(s, n)
  BY DEF Add
<1> HIDE DEF s
<1>6. Add(t, u) \in Timespec /\ Value(Add(t, u)) = s * NanoMax + n
  BY <1>2, <1>5, CarriedTime
<1> QED BY <1>1, <1>3, <1>4, <1>6 DEF Value

(* A time is lengthened by an interval.                                    *)
LEMMA AddInterval ==
    ASSUME NEW t \in Timespec, NEW u \in Timespec, NEW v \in Timespec,
           u.nsec < NanoMax, v.nsec < NanoMax, Value(u) <= Value(v)
    PROVE  /\ AddDelta(t, u, v) \in Timespec
           /\ Value(AddDelta(t, u, v)) = Value(t) + (Value(v) - Value(u))
<1> DEFINE s == t.sec + v.sec - u.sec
           n == t.nsec + v.nsec - u.nsec
<1>1. /\ t.sec \in Nat /\ u.sec \in Nat /\ v.sec \in Nat
      /\ t.nsec \in 0 .. NanoMax /\ u.nsec \in 0 .. NanoMax /\ v.nsec \in 0 .. NanoMax
      /\ NanoMax \in Nat \ {0}
  BY ValueOf, Product
<1>2. /\ t.sec * NanoMax \in Nat /\ u.sec * NanoMax \in Nat /\ v.sec * NanoMax \in Nat
  BY <1>1, Product
<1>3. s * NanoMax = t.sec * NanoMax + v.sec * NanoMax - u.sec * NanoMax
  <2>1. t.sec + v.sec \in Int
    BY <1>1
  <2>2. s * NanoMax = (t.sec + v.sec) * NanoMax - u.sec * NanoMax
    BY <1>1, <2>1, Product
  <2>3. (t.sec + v.sec) * NanoMax = t.sec * NanoMax + v.sec * NanoMax
    BY <1>1, Product
  <2> QED BY <2>2, <2>3, <1>2
<1>4. u.sec * NanoMax + u.nsec <= v.sec * NanoMax + v.nsec
  BY DEF Value
<1>5. u.sec <= v.sec /\ (v.nsec < u.nsec => u.sec < v.sec)
  <2>1. ~(v.sec < u.sec)
    <3>1. v.sec < u.sec => v.sec * NanoMax + NanoMax <= u.sec * NanoMax
      BY <1>1, Product
    <3> QED BY <3>1, <1>1, <1>2, <1>4
  <2>2. u.sec = v.sec => u.nsec <= v.nsec
    BY <1>1, <1>2, <1>4
  <2> QED BY <2>1, <2>2, <1>1
<1>6. s \in Nat /\ n \in Int /\ n <= 2 * NanoMax
  BY <1>1, <1>5
<1>7. CASE n < 0
  <2>1. AddDelta(t, u, v) = [sec |-> s - 1, nsec |-> n + NanoMax]
    BY <1>7 DEF AddDelta
  <2>2. s - 1 \in Nat /\ n + NanoMax \in 0 .. NanoMax
    BY <1>7, <1>1, <1>5
  <2>3. (s - 1) * NanoMax = s * NanoMax - NanoMax
    BY <1>6, <1>1
  <2> HIDE DEF s
  <2>4. AddDelta(t, u, v) \in Timespec
    BY <2>1, <2>2 DEF Timespec
  <2>5. Value(AddDelta(t, u, v)) = s * NanoMax - NanoMax + (n + NanoMax)
    BY <2>1, <2>3 DEF Value
  <2> QED BY <2>4, <2>5, <1>1, <1>2, <1>3 DEF Value
<1>8. CASE ~(n < 0)
  <2>1. AddDelta(t, u, v) = Carried(s, n)
    BY <1>8 DEF AddDelta
  <2>2. n \in 0 .. 2 * NanoMax
    BY <1>6, <1>8
  <2> HIDE DEF s
  <2>3. /\ AddDelta(t, u, v) \in Timespec
        /\ Value(AddDelta(t, u, v)) = s * NanoMax + n
    BY <2>1, <2>2, <1>6, CarriedTime
  <2> QED BY <2>3, <1>1, <1>2, <1>3 DEF Value
<1> QED BY <1>7, <1>8

-------------------------------------------------------------------------------
(* The stack.                                                              *)

(* An empty stack.                                                         *)
LEMMA CountEmpty == \A f : Count(<<>>, f) = 0
<1> TAKE f
<1>1. {i \in DOMAIN <<>> : <<>>[i] = f} = {}
  OBVIOUS
<1> QED BY <1>1, FS_EmptySet DEF Count

(* What is counted is on the stack.                                        *)
LEMMA CountOf ==
    ASSUME NEW s \in Seq(Functions), NEW f
    PROVE  /\ IsFiniteSet({i \in DOMAIN s : s[i] = f})
           /\ Count(s, f) \in Nat
           /\ Count(s, f) > 0 <=> \E i \in DOMAIN s : s[i] = f
<1> DEFINE C == {i \in DOMAIN s : s[i] = f}
<1>1. IsFiniteSet(DOMAIN s)
  <2>1. DOMAIN s = 1 .. Len(s) /\ Len(s) \in Nat
    BY LenProperties
  <2> QED BY <2>1, FS_Interval
<1>2. IsFiniteSet(C)
  <2>1. C \subseteq DOMAIN s
    OBVIOUS
  <2> QED BY <1>1, <2>1, FS_Subset
<1>3. Cardinality(C) \in Nat /\ (Cardinality(C) = 0 <=> C = {})
  BY <1>2, FS_CardinalityType, FS_EmptySet
<1> QED BY <1>2, <1>3 DEF Count

(* One more function on the stack.                                         *)
LEMMA CountAppend ==
    ASSUME NEW s \in Seq(Functions), NEW e \in Functions, NEW f
    PROVE  /\ Append(s, e) \in Seq(Functions)
           /\ Append(s, e) # <<>>
           /\ Last(Append(s, e)) = e
           /\ DOMAIN Append(s, e) = DOMAIN s \cup {Len(s) + 1}
           /\ \A i \in DOMAIN s : Append(s, e)[i] = s[i]
           /\ Append(s, e)[Len(s) + 1] = e
           /\ Count(Append(s, e), f) = Count(s, f) + IF f = e THEN 1 ELSE 0
<1> DEFINE t == Append(s, e)
           n == Len(s)
<1>1. /\ t \in Seq(Functions)
      /\ n \in Nat
      /\ DOMAIN s = 1 .. n
      /\ Len(t) = n + 1
      /\ DOMAIN t = 1 .. n + 1
      /\ \A i \in 1 .. n : t[i] = s[i]
      /\ t[n + 1] = e
  BY AppendProperties, LenProperties
<1>2. t # <<>> /\ Last(t) = e
  BY <1>1 DEF Last
<1> HIDE DEF t, n
<1>3. DOMAIN t = DOMAIN s \cup {n + 1} /\ n + 1 \notin DOMAIN s
  BY <1>1
<1> DEFINE C == {i \in DOMAIN s : s[i] = f}
           D == {i \in DOMAIN t : t[i] = f}
<1>4. IsFiniteSet(C) /\ Cardinality(C) \in Nat
  BY CountOf DEF Count
<1>5. CASE f = e
  <2>1. D = C \cup {n + 1} /\ n + 1 \notin C
    BY <1>1, <1>3, <1>5
  <2>2. Cardinality(D) = Cardinality(C) + 1
    BY <2>1, <1>4, FS_AddElement
  <2> QED BY <2>2, <1>1, <1>2, <1>3, <1>5 DEF Count, t, n
<1>6. CASE f # e
  <2>1. D = C
    BY <1>1, <1>3, <1>6
  <2>2. Count(t, f) = Count(s, f)
    BY <2>1 DEF Count
  <2>3. Count(s, f) + (IF f = e THEN 1 ELSE 0) = Count(s, f)
    BY <1>4, <1>6 DEF Count
  <2>4. Count(t, f) = Count(s, f) + IF f = e THEN 1 ELSE 0
    BY <2>2, <2>3
  <2> QED BY <2>4, <1>1, <1>2, <1>3 DEF t, n
<1> QED BY <1>5, <1>6

(* The function on top of the stack.                                       *)
LEMMA SplitLast ==
    ASSUME NEW s \in Seq(Functions), s # <<>>
    PROVE  /\ Front(s) \in Seq(Functions)
           /\ Last(s) \in Functions
           /\ s = Append(Front(s), Last(s))
<1>1. PICK q \in Seq(Functions), e \in Functions : s = Append(q, e)
  BY SequenceEmptyOrAppend
<1>2. /\ Len(q) \in Nat
      /\ Len(s) = Len(q) + 1
      /\ s[Len(q) + 1] = e
      /\ \A i \in 1 .. Len(q) : s[i] = q[i] /\ q[i] \in Functions
  BY <1>1, AppendProperties, LenProperties, ElementOfSeq
<1>3. Last(s) = e
  BY <1>2 DEF Last
<1>4. /\ Front(s) \in Seq(Functions)
      /\ Len(Front(s)) = Len(q)
      /\ \A i \in 1 .. Len(q) : Front(s)[i] = q[i]
  <2>1. Front(s) = SubSeq(s, 1, Len(q))
    BY <1>2 DEF Front
  <2>2. \A i \in 1 .. Len(q) : s[i] \in Functions
    BY <1>2
  <2>3. /\ SubSeq(s, 1, Len(q)) \in Seq(Functions)
        /\ Len(SubSeq(s, 1, Len(q))) = IF 1 <= Len(q) THEN Len(q) - 1 + 1 ELSE 0
        /\ \A i \in 1 .. Len(q) - 1 + 1 : SubSeq(s, 1, Len(q))[i] = s[1 + i - 1]
    BY ONLY <1>2, <2>2, SubSeqProperties
  <2>4. /\ (IF 1 <= Len(q) THEN Len(q) - 1 + 1 ELSE 0) = Len(q)
        /\ Len(q) - 1 + 1 = Len(q)
        /\ \A i \in 1 .. Len(q) : 1 + i - 1 = i
    BY <1>2
  <2>5. \A i \in 1 .. Len(q) : Front(s)[i] = s[1 + i - 1]
    BY <2>1, <2>3, <2>4, Zenon
  <2>6. \A i \in 1 .. Len(q) : Front(s)[i] = q[i]
    BY <2>5, <2>4, <1>2
  <2> QED BY <2>1, <2>3, <2>4, <2>6
<1>5. Front(s) = q
  BY <1>4, SeqEqual
<1> QED BY <1>1, <1>3, <1>5

-------------------------------------------------------------------------------
(* The operators of the hook, on one record ...                            *)

(* What the times of a record are.                                         *)
LEMMA PastTimes ==
    ASSUME NEW r, RecordOK(r), now \in Nat
    PROVE  /\ r \in Record
           /\ r.depth \in Nat /\ r.calls \in Nat
           /\ r.self_start \in Timespec /\ r.self_start.nsec < NanoMax
           /\ r.total_start \in Timespec /\ r.total_start.nsec < NanoMax
           /\ r.self \in Timespec /\ r.total \in Timespec
           /\ Value(r.self_start) \in Nat /\ Value(r.self_start) <= now
           /\ Value(r.total_start) \in Nat /\ Value(r.total_start) <= now
           /\ Value(r.self) \in Nat /\ Value(r.total) \in Nat
           /\ Past(Clock) /\ Value(Clock) = now
<1>1. /\ r \in Record
      /\ Past(r.self_start)
      /\ Past(r.total_start)
  BY DEF RecordOK
<1>2. /\ r.depth \in Nat /\ r.calls \in Nat
      /\ r.self \in Timespec /\ r.total \in Timespec
  BY <1>1 DEF Record
<1>3. /\ r.self_start \in Timespec /\ r.self_start.nsec < NanoMax
      /\ r.total_start \in Timespec /\ r.total_start.nsec < NanoMax
      /\ Value(r.self_start) <= now
      /\ Value(r.total_start) <= now
  BY <1>1 DEF Past
<1>4. /\ Value(r.self_start) \in Nat
      /\ Value(r.total_start) \in Nat
      /\ Value(r.self) \in Nat /\ Value(r.total) \in Nat
  BY <1>2, <1>3, ValueOf
<1>5. Past(Clock) /\ Value(Clock) = now
  BY ClockNow DEF Past
<1> QED BY <1>1, <1>2, <1>3, <1>4, <1>5

(* Self time is stored.                                                    *)
LEMMA ChargedRecord ==
    ASSUME NEW r, RecordOK(r), now \in Nat
    PROVE  /\ RecordOK(Charged(r))
           /\ Charged(r).depth = r.depth
           /\ Value(Charged(r).self) = Value(r.self) + (now - Value(r.self_start))
           /\ TotalTime(Charged(r)) = TotalTime(r)
<1> DEFINE d == AddDelta(r.self, r.self_start, Clock)
           c == Charged(r)
<1>1. /\ Clock \in Timespec /\ Clock.nsec < NanoMax /\ Value(Clock) = now
  BY ClockNow
<1>2. d \in Timespec /\ Value(d) = Value(r.self) + (now - Value(r.self_start))
  BY <1>1, PastTimes, AddInterval
<1> HIDE DEF d
<1>3. r \in Record
  BY PastTimes
<1>4. /\ c \in Record
      /\ c.self = d
      /\ c.depth = r.depth
      /\ c.total = r.total
      /\ c.self_start = r.self_start
      /\ c.total_start = r.total_start
  BY <1>2, <1>3 DEF Charged, Record, d
<1> HIDE DEF c
<1>5. RecordOK(c)
  BY <1>4 DEF RecordOK
<1>6. TotalTime(c) = TotalTime(r)
  BY <1>4 DEF TotalTime
<1> QED BY <1>2, <1>4, <1>5, <1>6 DEF c

(* The function is left, perhaps for good.                                 *)
LEMMA LeftRecord ==
    ASSUME NEW r, RecordOK(r), r.depth > 0, now \in Nat
    PROVE  /\ RecordOK(Left(r))
           /\ Left(r).depth = r.depth - 1
           /\ Left(r).self = r.self
           /\ TotalTime(Left(r)) = TotalTime(r)
<1> DEFINE d == AddDelta(r.total, r.total_start, Clock)
           l == Left(r)
<1>1. /\ Clock \in Timespec /\ Clock.nsec < NanoMax /\ Value(Clock) = now
  BY ClockNow
<1>2. d \in Timespec /\ Value(d) = Value(r.total) + (now - Value(r.total_start))
  BY <1>1, PastTimes, AddInterval
<1> HIDE DEF d
<1>3. r \in Record /\ r.depth \in Nat /\ Value(r.total) \in Nat
  BY PastTimes
<1>4. /\ l \in Record
      /\ l.self = r.self
      /\ l.depth = r.depth - 1
      /\ l.total = IF r.depth = 1 THEN d ELSE r.total
      /\ l.self_start = r.self_start
      /\ l.total_start = r.total_start
  <2>1. CASE r.depth = 1
    <3>1. l = [r EXCEPT !.depth = 0, !.total = d]
      BY <2>1 DEF Left, d
    <3>2. r.depth - 1 = 0
      BY <2>1
    <3> HIDE DEF l
    <3>3. l \in Record
      BY <3>1, <1>2, <1>3 DEF Record
    <3>4. /\ l.self = r.self /\ l.depth = 0 /\ l.total = d
          /\ l.self_start = r.self_start /\ l.total_start = r.total_start
      BY <3>1, <1>3 DEF Record
    <3> QED BY <2>1, <3>2, <3>3, <3>4
  <2>2. CASE r.depth # 1
    BY <2>2, <1>3 DEF Left, Record
  <2> QED BY <2>1, <2>2
<1> HIDE DEF l
<1>5. RecordOK(l)
  BY <1>4 DEF RecordOK
<1>6. TotalTime(l) = TotalTime(r)
  <2>1. CASE r.depth = 1
    BY <2>1, <1>2, <1>3, <1>4, PastTimes DEF TotalTime
  <2>2. CASE r.depth # 1
    BY <2>2, <1>3, <1>4 DEF TotalTime
  <2> QED BY <2>1, <2>2
<1> QED BY <1>4, <1>5, <1>6 DEF l

(* Self time starts.                                                       *)
LEMMA StartedRecord ==
    ASSUME NEW r, RecordOK(r), now \in Nat
    PROVE  /\ RecordOK(Started(r))
           /\ Started(r).depth = r.depth
           /\ Started(r).self = r.self
           /\ Value(Started(r).self_start) = now
           /\ TotalTime(Started(r)) = TotalTime(r)
<1> DEFINE s == Started(r)
<1>1. r \in Record /\ Past(Clock) /\ Value(Clock) = now
  BY PastTimes
<1>2. /\ s \in Record
      /\ s.depth = r.depth
      /\ s.self = r.self
      /\ s.total = r.total
      /\ s.self_start = Clock
      /\ s.total_start = r.total_start
  BY <1>1 DEF Started, Record, Past
<1> HIDE DEF s
<1>3. RecordOK(s) /\ TotalTime(s) = TotalTime(r)
  BY <1>1, <1>2 DEF RecordOK, TotalTime
<1> QED BY <1>1, <1>2, <1>3 DEF s

(* A call of the function begins.                                          *)
LEMMA BegunRecord ==
    ASSUME NEW r, RecordOK(r), now \in Nat
    PROVE  /\ RecordOK(Begun(r))
           /\ Begun(r).depth = r.depth + 1
           /\ Begun(r).self = r.self
           /\ Value(Begun(r).self_start) = now
           /\ TotalTime(Begun(r)) = TotalTime(r)
<1> DEFINE s == Started(r)
           b == Begun(r)
<1>1. /\ Past(Clock) /\ Clock \in Timespec /\ Value(Clock) = now
      /\ r.depth \in Nat /\ Value(r.total) \in Nat
  BY PastTimes DEF Past
<1>2. /\ RecordOK(s) /\ s \in Record /\ s.depth = r.depth /\ s.self = r.self
      /\ Value(s.self_start) = now
      /\ TotalTime(s) = TotalTime(r)
  BY StartedRecord DEF RecordOK
<1> HIDE DEF s
<1>3. /\ b \in Record
      /\ b.depth = r.depth + 1
      /\ b.self = s.self
      /\ b.total = s.total
      /\ b.self_start = s.self_start
      /\ b.total_start = IF r.depth = 0 THEN Clock ELSE s.total_start
  <2>1. b = [s EXCEPT !.total_start = IF r.depth = 0 THEN Clock ELSE @,
                      !.depth = @ + 1, !.calls = @ + 1]
    BY DEF Begun, s
  <2>2. s.total_start \in Timespec /\ s.depth + 1 \in Nat /\ s.calls + 1 \in Nat
    BY <1>2 DEF Record
  <2> HIDE DEF b
  <2>3. CASE r.depth = 0
    <3>1. b = [s EXCEPT !.total_start = Clock, !.depth = @ + 1, !.calls = @ + 1]
      BY <2>1, <2>3
    <3> QED BY <2>2, <2>3, <3>1, <1>1, <1>2 DEF Record
  <2>4. CASE r.depth # 0
    <3>1. b = [s EXCEPT !.depth = @ + 1, !.calls = @ + 1]
      BY <2>1, <2>4, <1>2 DEF Record
    <3> QED BY <2>2, <2>4, <3>1, <1>1, <1>2 DEF Record
  <2> QED BY <2>3, <2>4
<1> HIDE DEF b
<1>4. RecordOK(b)
  BY <1>1, <1>2, <1>3 DEF RecordOK
<1>5. TotalTime(b) = TotalTime(s)
  <2>1. CASE r.depth = 0
    <3>1. Value(b.total) \in Nat
      BY <1>4, PastTimes
    <3> QED BY <2>1, <3>1, <1>1, <1>2, <1>3 DEF TotalTime
  <2>2. CASE r.depth # 0
    BY <2>2, <1>1, <1>2, <1>3 DEF TotalTime
  <2> QED BY <2>1, <2>2
<1> QED BY <1>2, <1>3, <1>4, <1>5 DEF b

(* A new record has measured nothing.                                      *)
LEMMA NewRecordOK ==
    ASSUME now \in Nat
    PROVE  /\ RecordOK(NewRecord)
           /\ NewRecord.depth = 0
           /\ Value(NewRecord.self) = 0
           /\ TotalTime(NewRecord) = 0
<1>1. NanoMax \in Nat \ {0}
  BY Product
<1>2. Zero \in Timespec /\ Zero.nsec < NanoMax /\ Value(Zero) = 0
  BY <1>1 DEF Zero, Timespec, Value
<1>3. /\ NewRecord \in Record
      /\ NewRecord.depth = 0
      /\ NewRecord.self_start = Zero /\ NewRecord.self = Zero
      /\ NewRecord.total_start = Zero /\ NewRecord.total = Zero
  BY <1>2 DEF NewRecord, Record
<1> QED BY <1>2, <1>3 DEF RecordOK, Past, TotalTime

-------------------------------------------------------------------------------
(* ... and on the profiler.                                                *)

(* The function on top of the stack has a record and is active.            *)
LEMMA OnStack ==
    ASSUME NEW p, ProfilerOK(p), p.stack # <<>>
    PROVE  /\ Last(p.stack) \in Functions
           /\ p.records[Last(p.stack)] # None
           /\ RecordOK(p.records[Last(p.stack)])
           /\ p.records[Last(p.stack)].depth > 0
<1>1. p.stack \in Seq(Functions)
  BY DEF ProfilerOK, Profilers
<1>2. Len(p.stack) \in DOMAIN p.stack
  <2>1. Len(p.stack) \in Nat \ {0} /\ DOMAIN p.stack = 1 .. Len(p.stack)
    BY <1>1, EmptySeq, LenProperties
  <2> QED BY <2>1
<1>3. Last(p.stack) = p.stack[Len(p.stack)] /\ Last(p.stack) \in Functions
  BY <1>1, SplitLast DEF Last
<1>4. p.records[Last(p.stack)] # None
  BY <1>2, <1>3 DEF ProfilerOK
<1>5. Count(p.stack, Last(p.stack)) > 0
  BY <1>1, <1>2, <1>3, CountOf
<1> QED BY <1>3, <1>4, <1>5 DEF ProfilerOK

(* A profiler whose records and stack changed in the right way.            *)
LEMMA ProfilerStep ==
    ASSUME NEW p, ProfilerOK(p), NEW f \in Functions, NEW r, RecordOK(r),
           NEW s \in Seq(Functions), r.depth = Count(s, f),
           \A g \in Functions : g # f => Count(s, g) = Count(p.stack, g),
           \A i \in DOMAIN s : s[i] # f => \E j \in DOMAIN p.stack : p.stack[j] = s[i],
           NEW q \in Profilers, q.stack = s, q.records[f] = r,
           \A g \in Functions : g # f => q.records[g] = p.records[g]
    PROVE  ProfilerOK(q)
<1>1. r \in Record /\ r # None
  BY RecordAssumption DEF RecordOK
<1>2. /\ p \in Profilers
      /\ \A g \in Functions : p.records[g] # None =>
            RecordOK(p.records[g]) /\ p.records[g].depth = Count(p.stack, g)
      /\ \A i \in DOMAIN p.stack : p.records[p.stack[i]] # None
  BY DEF ProfilerOK
<1>4. ASSUME NEW g \in Functions, q.records[g] # None
      PROVE  RecordOK(q.records[g]) /\ q.records[g].depth = Count(q.stack, g)
  BY <1>2, <1>4
<1>5. ASSUME NEW i \in DOMAIN s
      PROVE  q.records[s[i]] # None
  <2>1. s[i] \in Functions
    BY ElementOfSeq, LenProperties
  <2>2. CASE s[i] = f
    BY <2>2, <1>1
  <2>3. CASE s[i] # f
    <3>1. PICK j \in DOMAIN p.stack : p.stack[j] = s[i]
      BY <2>3
    <3> QED BY <3>1, <2>1, <2>3, <1>2
  <2> QED BY <2>2, <2>3
<1> QED BY <1>4, <1>5 DEF ProfilerOK

(* After an exit without a return the time is stored.                      *)
LEMMA PausedProfiler ==
    ASSUME NEW p, ProfilerOK(p), now \in Nat
    PROVE  /\ ProfilerOK(Paused(p))
           /\ Paused(p).stack = p.stack
           /\ Known(Paused(p)) = Known(p)
           /\ \A g \in Functions : /\ StoredIn(Paused(p), g) = SelfIn(p, g)
                                   /\ TotalIn(Paused(p), g) = TotalIn(p, g)
<1> DEFINE q == Paused(p)
           f == Last(p.stack)
           r == Charged(p.records[f])
<1>0. \A g \in Functions : StoredIn(p, g) \in Nat
  <2> TAKE g \in Functions
  <2>1. p.records[g] # None => Value(p.records[g].self) \in Nat
    BY PastTimes DEF ProfilerOK
  <2> QED BY <2>1 DEF StoredIn
<1>1. CASE p.stack = <<>>
  <2>1. q = p
    BY <1>1 DEF Paused
  <2>2. \A g \in Functions : SelfIn(p, g) = StoredIn(p, g)
    BY <1>0, <1>1 DEF SelfIn, DueIn
  <2> QED BY <2>1, <2>2
<1>2. CASE p.stack # <<>>
  <2>1. /\ f \in Functions
        /\ p.records[f] # None
        /\ RecordOK(p.records[f])
    BY <1>2, OnStack
  <2>2. /\ RecordOK(r)
        /\ r.depth = p.records[f].depth
        /\ Value(r.self) = Value(p.records[f].self) + (now - Value(p.records[f].self_start))
        /\ TotalTime(r) = TotalTime(p.records[f])
    BY <2>1, ChargedRecord
  <2>3. /\ p \in Profilers /\ p.stack \in Seq(Functions)
        /\ p.records[f].depth = Count(p.stack, f)
    BY <2>1 DEF ProfilerOK, Profilers
  <2>4. q = [p EXCEPT !.records[f] = r, !.stack = p.stack]
    BY <1>2, <2>1, <2>3 DEF Paused, Profilers
  <2>5. r # None
    BY <2>2, RecordAssumption DEF RecordOK
  <2> HIDE DEF r, q, f
  <2>6. /\ q \in Profilers
        /\ q.stack = p.stack
        /\ q.records[f] = r
        /\ \A g \in Functions : g # f => q.records[g] = p.records[g]
    BY <2>1, <2>2, <2>3, <2>4 DEF Profilers, RecordOK
  <2>7. ProfilerOK(q)
    <3>1. r.depth = Count(p.stack, f)
      BY <2>2, <2>3
    <3> QED BY <2>1, <2>2, <2>3, <2>6, <3>1, ProfilerStep
  <2>8. Known(q) = Known(p)
    BY <2>1, <2>5, <2>6 DEF Known
  <2>9. ASSUME NEW g \in Functions
        PROVE  StoredIn(q, g) = SelfIn(p, g) /\ TotalIn(q, g) = TotalIn(p, g)
    <3>1. CASE g = f
      <4>1. StoredIn(q, f) = Value(r.self) /\ StoredIn(p, f) = Value(p.records[f].self)
        BY <2>1, <2>5, <2>6 DEF StoredIn
      <4>2. DueIn(p, f) = now - Value(p.records[f].self_start)
        BY <1>2 DEF DueIn, f
      <4>3. TotalIn(q, f) = TotalIn(p, f)
        BY <2>1, <2>2, <2>5, <2>6 DEF TotalIn
      <4> QED BY <3>1, <4>1, <4>2, <4>3, <2>2 DEF SelfIn
    <3>2. CASE g # f
      <4>1. StoredIn(q, g) = StoredIn(p, g) /\ TotalIn(q, g) = TotalIn(p, g)
        BY <3>2, <2>6 DEF StoredIn, TotalIn
      <4>2. DueIn(p, g) = 0
        BY <3>2 DEF DueIn, f
      <4> QED BY <4>1, <4>2, <1>0 DEF SelfIn
    <3> QED BY <3>1, <3>2
  <2> QED BY <2>6, <2>7, <2>8, <2>9 DEF q
<1> QED BY <1>1, <1>2

(* Stored times are numbers.                                               *)
LEMMA StoredType ==
    ASSUME NEW p, ProfilerOK(p), now \in Nat
    PROVE  \A g \in Functions : StoredIn(p, g) \in Nat /\ TotalIn(p, g) \in Nat
<1> TAKE g \in Functions
<1>1. CASE p.records[g] = None
  BY <1>1 DEF StoredIn, TotalIn
<1>2. CASE p.records[g] # None
  <2> DEFINE r == p.records[g]
  <2>1. RecordOK(r)
    BY <1>2 DEF ProfilerOK
  <2> HIDE DEF r
  <2>2. Value(r.self) \in Nat /\ TotalTime(r) \in Nat
    BY <2>1, PastTimes DEF TotalTime
  <2> QED BY <1>2, <2>2 DEF StoredIn, TotalIn, r
<1> QED BY <1>1, <1>2

(* So it is after a return or a tail call, and the function is left.       *)
LEMMA ExitedProfiler ==
    ASSUME NEW p, ProfilerOK(p), p.stack # <<>>, now \in Nat
    PROVE  /\ ProfilerOK(Exited(p))
           /\ Exited(p).stack = Front(p.stack)
           /\ Known(Exited(p)) = Known(p)
           /\ \A g \in Functions : /\ StoredIn(Exited(p), g) = SelfIn(p, g)
                                   /\ TotalIn(Exited(p), g) = TotalIn(p, g)
<1> DEFINE q == Exited(p)
           f == Last(p.stack)
           c == Charged(p.records[f])
           r == Left(c)
           s == Front(p.stack)
<1>1. /\ f \in Functions
      /\ p.records[f] # None
      /\ RecordOK(p.records[f])
      /\ p.records[f].depth > 0
  BY OnStack
<1>2. /\ RecordOK(c)
      /\ c.depth = p.records[f].depth
      /\ Value(c.self) = Value(p.records[f].self) + (now - Value(p.records[f].self_start))
      /\ TotalTime(c) = TotalTime(p.records[f])
  BY <1>1, ChargedRecord
<1>3. /\ RecordOK(r)
      /\ r.depth = p.records[f].depth - 1
      /\ r.self = c.self
      /\ TotalTime(r) = TotalTime(p.records[f])
  <2>1. c.depth > 0
    BY <1>1, <1>2
  <2> HIDE DEF c
  <2> QED BY <1>2, <2>1, LeftRecord
<1>4. /\ p \in Profilers /\ p.stack \in Seq(Functions)
      /\ p.records[f].depth = Count(p.stack, f)
  BY <1>1 DEF ProfilerOK, Profilers
<1>5. /\ s \in Seq(Functions)
      /\ p.stack = Append(s, f)
  BY <1>4, SplitLast
<1>6. q = [p EXCEPT !.records[f] = r, !.stack = s]
  BY DEF Exited
<1>7. r # None
  BY <1>3, RecordAssumption DEF RecordOK
<1> HIDE DEF q, f, c, r, s
<1>8. /\ q \in Profilers
      /\ q.stack = s
      /\ q.records[f] = r
      /\ \A g \in Functions : g # f => q.records[g] = p.records[g]
  BY <1>1, <1>3, <1>4, <1>5, <1>6 DEF Profilers, RecordOK
<1>9. ProfilerOK(q)
  <2>1. /\ \A i \in DOMAIN s : i \in DOMAIN p.stack /\ p.stack[i] = s[i]
        /\ \A g \in Functions : Count(p.stack, g) = Count(s, g) + IF g = f THEN 1 ELSE 0
    BY <1>1, <1>5, CountAppend
  <2>2. \A g \in Functions : Count(s, g) \in Nat
    BY <1>5, CountOf
  <2>3. r.depth = Count(s, f)
    BY <1>1, <1>3, <1>4, <2>1, <2>2
  <2>4. \A g \in Functions : g # f => Count(s, g) = Count(p.stack, g)
    BY <2>1, <2>2
  <2>5. \A i \in DOMAIN s : s[i] # f => \E j \in DOMAIN p.stack : p.stack[j] = s[i]
    BY <2>1
  <2> QED BY <1>1, <1>3, <1>5, <1>8, <2>3, <2>4, <2>5, ProfilerStep, ZenonT(60)
<1>10. Known(q) = Known(p)
  BY <1>1, <1>7, <1>8 DEF Known
<1>11. ASSUME NEW g \in Functions
       PROVE  StoredIn(q, g) = SelfIn(p, g) /\ TotalIn(q, g) = TotalIn(p, g)
  <2>1. CASE g = f
    <3>1. StoredIn(q, f) = Value(r.self) /\ StoredIn(p, f) = Value(p.records[f].self)
      BY <1>1, <1>7, <1>8 DEF StoredIn
    <3>2. DueIn(p, f) = now - Value(p.records[f].self_start)
      BY DEF DueIn, f
    <3>3. TotalIn(q, f) = TotalIn(p, f)
      BY <1>1, <1>3, <1>7, <1>8 DEF TotalIn
    <3> QED BY <2>1, <3>1, <3>2, <3>3, <1>2, <1>3 DEF SelfIn
  <2>2. CASE g # f
    <3>1. StoredIn(q, g) = StoredIn(p, g) /\ TotalIn(q, g) = TotalIn(p, g)
      BY <2>2, <1>8 DEF StoredIn, TotalIn
    <3>2. DueIn(p, g) = 0
      BY <2>2 DEF DueIn, f
    <3> QED BY <3>1, <3>2, StoredType DEF SelfIn
  <2> QED BY <2>1, <2>2
<1> QED BY <1>8, <1>9, <1>10, <1>11 DEF q, s

(* A new record changes no time.                                           *)
LEMMA CreatedProfiler ==
    ASSUME NEW p, ProfilerOK(p), NEW f \in Functions, now \in Nat
    PROVE  /\ ProfilerOK(Created(p, f))
           /\ Created(p, f).stack = p.stack
           /\ Known(Created(p, f)) = Known(p) \cup {f}
           /\ \A g \in Functions : /\ StoredIn(Created(p, f), g) = StoredIn(p, g)
                                   /\ TotalIn(Created(p, f), g) = TotalIn(p, g)
<1> DEFINE q == Created(p, f)
<1>1. CASE f \in Known(p)
  BY <1>1 DEF Created
<1>2. CASE f \notin Known(p)
  <2>1. p.records[f] = None
    BY <1>2 DEF Known
  <2>2. /\ p \in Profilers /\ p.stack \in Seq(Functions)
        /\ \A i \in DOMAIN p.stack : p.stack[i] # f
    BY <2>1 DEF ProfilerOK, Profilers
  <2>3. /\ RecordOK(NewRecord) /\ NewRecord \in Record /\ NewRecord.depth = 0
        /\ Value(NewRecord.self) = 0 /\ TotalTime(NewRecord) = 0
    BY NewRecordOK DEF RecordOK
  <2>4. q = [p EXCEPT !.records[f] = NewRecord]
    BY <1>2 DEF Created
  <2> HIDE DEF q
  <2>5. /\ q \in Profilers
        /\ q.stack = p.stack
        /\ q.records[f] = NewRecord
        /\ \A g \in Functions : g # f => q.records[g] = p.records[g]
    BY <2>2, <2>3, <2>4 DEF Profilers
  <2>6. NewRecord.depth = Count(p.stack, f)
    <3>1. Count(p.stack, f) \in Nat
      BY <2>2, CountOf
    <3>2. ~(Count(p.stack, f) > 0)
      BY <2>2, CountOf, Zenon
    <3> QED BY <2>3, <3>1, <3>2
  <2>7. ProfilerOK(q)
    BY <2>2, <2>3, <2>5, <2>6, ProfilerStep
  <2>8. NewRecord # None
    BY <2>3, RecordAssumption
  <2>9. Known(q) = Known(p) \cup {f}
    BY <2>5, <2>8 DEF Known
  <2>10. \A g \in Functions : StoredIn(q, g) = StoredIn(p, g) /\ TotalIn(q, g) = TotalIn(p, g)
    <3> TAKE g \in Functions
    <3>1. CASE g = f
      <4> HIDE DEF NewRecord
      <4> QED BY <3>1, <2>1, <2>3, <2>5, <2>8 DEF StoredIn, TotalIn
    <3>2. CASE g # f
      BY <3>2, <2>5 DEF StoredIn, TotalIn
    <3> QED BY <3>1, <3>2
  <2> QED BY <2>5, <2>7, <2>9, <2>10 DEF q
<1> QED BY <1>1, <1>2

(* From its entry on a function is charged.                                *)
LEMMA EnteredProfiler ==
    ASSUME NEW p, ProfilerOK(p), NEW f \in Functions, now \in Nat
    PROVE  /\ ProfilerOK(Entered(p, f))
           /\ Entered(p, f).stack = Append(p.stack, f)
           /\ Known(Entered(p, f)) = Known(p) \cup {f}
           /\ \A g \in Functions : /\ StoredIn(Entered(p, f), g) = StoredIn(p, g)
                                   /\ SelfIn(Entered(p, f), g) = StoredIn(p, g)
                                   /\ TotalIn(Entered(p, f), g) = TotalIn(p, g)
<1> DEFINE c == Created(p, f)
           q == Entered(p, f)
           r == Begun(c.records[f])
           s == Append(p.stack, f)
<1>1. /\ ProfilerOK(c)
      /\ c.stack = p.stack
      /\ Known(c) = Known(p) \cup {f}
      /\ \A g \in Functions : /\ StoredIn(c, g) = StoredIn(p, g)
                              /\ TotalIn(c, g) = TotalIn(p, g)
  BY CreatedProfiler
<1> HIDE DEF c
<1>2. /\ c \in Profilers /\ c.stack \in Seq(Functions)
      /\ c.records[f] # None
      /\ RecordOK(c.records[f])
      /\ c.records[f].depth = Count(c.stack, f)
  BY <1>1 DEF Known, ProfilerOK, Profilers
<1>3. /\ RecordOK(r)
      /\ r.depth = c.records[f].depth + 1
      /\ r.self = c.records[f].self
      /\ Value(r.self_start) = now
      /\ TotalTime(r) = TotalTime(c.records[f])
  BY <1>2, BegunRecord
<1>4. q = [c EXCEPT !.stack = Append(@, f), !.records[f] = r]
  BY DEF Entered, c
<1>5. r # None
  BY <1>3, RecordAssumption DEF RecordOK
<1>6. /\ s \in Seq(Functions) /\ s # <<>> /\ Last(s) = f
      /\ \A i \in DOMAIN s : s[i] # f => i \in DOMAIN c.stack /\ c.stack[i] = s[i]
      /\ \A g \in Functions : Count(s, g) = Count(c.stack, g) + IF g = f THEN 1 ELSE 0
  BY <1>1, <1>2, CountAppend
<1> HIDE DEF q, r, s
<1>7. /\ q \in Profilers
      /\ q.stack = s
      /\ q.records[f] = r
      /\ \A g \in Functions : g # f => q.records[g] = c.records[g]
  BY <1>1, <1>2, <1>3, <1>4, <1>6 DEF Profilers, RecordOK, s
<1>8. ProfilerOK(q)
  <2>1. \A g \in Functions : Count(c.stack, g) \in Nat
    BY <1>2, CountOf
  <2>2. r.depth = Count(s, f)
    BY <1>2, <1>3, <1>6
  <2>3. \A g \in Functions : g # f => Count(s, g) = Count(c.stack, g)
    BY <1>6, <2>1
  <2>4. \A i \in DOMAIN s : s[i] # f => \E j \in DOMAIN c.stack : c.stack[j] = s[i]
    BY <1>6
  <2> QED BY <1>1, <1>3, <1>6, <1>7, <2>2, <2>3, <2>4, ProfilerStep
<1>9. Known(q) = Known(p) \cup {f}
  BY <1>1, <1>5, <1>7 DEF Known
<1>10. ASSUME NEW g \in Functions
       PROVE  StoredIn(q, g) = StoredIn(c, g) /\ TotalIn(q, g) = TotalIn(c, g)
  <2>1. CASE g = f
    BY <2>1, <1>2, <1>3, <1>5, <1>7 DEF StoredIn, TotalIn
  <2>2. CASE g # f
    BY <2>2, <1>7 DEF StoredIn, TotalIn
  <2> QED BY <2>1, <2>2
<1>11. \A g \in Functions : DueIn(q, g) = 0
  BY <1>3, <1>6, <1>7 DEF DueIn
<1>12. \A g \in Functions : SelfIn(q, g) = StoredIn(q, g)
  BY <1>8, <1>11, StoredType DEF SelfIn
<1> QED BY <1>1, <1>7, <1>8, <1>9, <1>10, <1>12 DEF q, s

(* From the return to it on a function is charged.                         *)
LEMMA ResumedProfiler ==
    ASSUME NEW p, ProfilerOK(p), now \in Nat
    PROVE  /\ ProfilerOK(Resumed(p))
           /\ Resumed(p).stack = p.stack
           /\ Known(Resumed(p)) = Known(p)
           /\ \A g \in Functions : /\ SelfIn(Resumed(p), g) = StoredIn(p, g)
                                   /\ TotalIn(Resumed(p), g) = TotalIn(p, g)
<1> DEFINE q == Resumed(p)
           f == Last(p.stack)
           r == Started(p.records[f])
<1>1. CASE p.stack = <<>>
  <2>1. q = p
    BY <1>1 DEF Resumed
  <2>2. \A g \in Functions : SelfIn(p, g) = StoredIn(p, g)
    BY <1>1, StoredType DEF SelfIn, DueIn
  <2> QED BY <2>1, <2>2
<1>2. CASE p.stack # <<>>
  <2>1. /\ f \in Functions
        /\ p.records[f] # None
        /\ RecordOK(p.records[f])
    BY <1>2, OnStack
  <2>2. /\ RecordOK(r)
        /\ r.depth = p.records[f].depth
        /\ r.self = p.records[f].self
        /\ Value(r.self_start) = now
        /\ TotalTime(r) = TotalTime(p.records[f])
    BY <2>1, StartedRecord
  <2>3. /\ p \in Profilers /\ p.stack \in Seq(Functions)
        /\ p.records[f].depth = Count(p.stack, f)
    BY <2>1 DEF ProfilerOK, Profilers
  <2>4. q = [p EXCEPT !.records[f] = r]
    BY <1>2 DEF Resumed
  <2>5. r # None
    BY <2>2, RecordAssumption DEF RecordOK
  <2> HIDE DEF q, r
  <2>6. /\ q \in Profilers
        /\ q.stack = p.stack
        /\ q.records[f] = r
        /\ \A g \in Functions : g # f => q.records[g] = p.records[g]
    BY <2>1, <2>2, <2>3, <2>4 DEF Profilers, RecordOK
  <2>7. ProfilerOK(q)
    <3>1. r.depth = Count(p.stack, f)
      BY <2>2, <2>3
    <3> QED BY <2>1, <2>2, <2>3, <2>6, <3>1, ProfilerStep
  <2>8. Known(q) = Known(p)
    BY <2>1, <2>5, <2>6 DEF Known
  <2>9. \A g \in Functions : StoredIn(q, g) = StoredIn(p, g) /\ TotalIn(q, g) = TotalIn(p, g)
    BY <2>1, <2>2, <2>5, <2>6 DEF StoredIn, TotalIn
  <2>10. \A g \in Functions : DueIn(q, g) = 0
    BY <2>2, <2>6 DEF DueIn
  <2>11. \A g \in Functions : SelfIn(q, g) = StoredIn(q, g)
    BY <2>7, <2>10, StoredType DEF SelfIn
  <2> QED BY <2>6, <2>7, <2>8, <2>9, <2>11 DEF q
<1> QED BY <1>1, <1>2

(* An exit is safe also when errors left an empty stack.                   *)
LEMMA ExitedOK ==
    ASSUME NEW p, ProfilerOK(p), now \in Nat
    PROVE  ProfilerOK(Exited(p))
<1>1. CASE p.stack = <<>>
  BY <1>1 DEF Exited
<1>2. CASE p.stack # <<>>
  BY <1>2, ExitedProfiler
<1> QED BY <1>1, <1>2

(* A new profiler has measured nothing.                                    *)
LEMMA NewProfilerOK ==
    ASSUME now \in Nat
    PROVE  /\ ProfilerOK(NewProfiler)
           /\ NewProfiler.stack = <<>>
           /\ \A g \in Functions : /\ SelfIn(NewProfiler, g) = 0
                                   /\ TotalIn(NewProfiler, g) = 0
<1>1. /\ NewProfiler \in Profilers
      /\ NewProfiler.stack = <<>>
      /\ \A g \in Functions : NewProfiler.records[g] = None
  BY DEF NewProfiler, Profilers
<1>2. ProfilerOK(NewProfiler)
  BY <1>1 DEF ProfilerOK
<1>3. \A g \in Functions : SelfIn(NewProfiler, g) = 0 /\ TotalIn(NewProfiler, g) = 0
  BY <1>1 DEF SelfIn, StoredIn, DueIn, TotalIn
<1> QED BY <1>1, <1>2, <1>3

(* What the next profiler is, seen at the same time.                       *)
LEMMA SameTime ==
    ASSUME NEW p, now' = now, profiler' = p
    PROVE  /\ ProfilerOK(p) => ProfilerOK(profiler)'
           /\ \A g \in Functions : /\ SelfIn(profiler, g)' = SelfIn(p, g)
                                   /\ TotalIn(profiler, g)' = TotalIn(p, g)
<1>1. ProfilerOK(p) => ProfilerOK(profiler)'
  BY DEF ProfilerOK, RecordOK, Past
<1>2. \A g \in Functions : SelfIn(profiler, g)' = SelfIn(p, g)
  BY DEF SelfIn, StoredIn, DueIn
<1>3. \A g \in Functions : TotalIn(profiler, g)' = TotalIn(p, g)
  BY DEF TotalIn, TotalTime
<1> QED BY <1>1, <1>2, <1>3

(* Initially.                                                              *)
LEMMA InitInv == Init => IInv
<1> SUFFICES ASSUME Init PROVE IInv
  OBVIOUS
<1>1. now \in Nat /\ profiler = NewProfiler
  BY DEF Init
<1>2. Types
  <2>1. NoTime \in [Functions -> Nat]
    BY DEF NoTime
  <2>2. NoCounts \in [Functions -> [calls : Nat, self : Nat, total : Nat]]
    BY DEF NoCounts
  <2>3. <<>> \in Seq(Functions) /\ 0 \in Nat
    BY EmptySeq
  <2> QED BY <2>1, <2>2, <2>3 DEF Init, Types
<1>3. ProfilerOK(profiler)
  BY <1>1, NewProfilerOK
<1>4. IdleOK
  BY DEF Init, IdleOK
<1>5. CleanOK
  BY <1>1, NewProfilerOK DEF Init, CleanOK, NoTime
<1>6. ListOK
  BY DEF Init, ListOK, NoCounts
<1> QED BY <1>2, <1>3, <1>4, <1>5, <1>6 DEF IInv

(* The list is not touched.                                                *)
LEMMA SameList ==
    ASSUME ListOK, functions' = functions, full' = full, merged' = merged
    PROVE  ListOK'
  BY DEF ListOK, EntryOK

(* lws_start_profiler.                                                     *)
LEMMA StartInv == IInv /\ Start => IInv'
<1> SUFFICES ASSUME IInv, Start PROVE IInv'
  OBVIOUS
<1>1. Types'
  BY DEF IInv, Start, Types, run
<1>2. ProfilerOK(profiler)'
  BY SameTime DEF IInv, Start
<1>3. IdleOK'
  BY DEF Start, IdleOK
<1>4. CleanOK'
  BY SameTime DEF IInv, Start, CleanOK, run
<1>5. ListOK'
  BY SameList DEF IInv, Start
<1> QED BY <1>1, <1>2, <1>3, <1>4, <1>5 DEF IInv

(* A moment passes.                                                        *)
LEMMA TickProfiler ==
    ASSUME ProfilerOK(profiler), now \in Nat, now' = now + 1, profiler' = profiler
    PROVE  /\ ProfilerOK(profiler)'
           /\ \A g \in Functions :
                 /\ SelfIn(profiler, g)' = SelfIn(profiler, g)
                      + IF profiler.stack # <<>> /\ g = Last(profiler.stack) THEN 1 ELSE 0
                 /\ TotalIn(profiler, g)' = TotalIn(profiler, g)
                      + IF g \in ToSet(profiler.stack) THEN 1 ELSE 0
<1>1. ASSUME NEW r, RecordOK(r)
      PROVE  RecordOK(r)'
  BY <1>1, PastTimes DEF RecordOK, Past
<1>2. ProfilerOK(profiler)'
  BY <1>1 DEF ProfilerOK
<1>3. ASSUME NEW g \in Functions
      PROVE  SelfIn(profiler, g)' = SelfIn(profiler, g)
                + IF profiler.stack # <<>> /\ g = Last(profiler.stack) THEN 1 ELSE 0
  <2>1. StoredIn(profiler, g)' = StoredIn(profiler, g) /\ StoredIn(profiler, g) \in Nat
    BY StoredType DEF StoredIn
  <2>2. CASE profiler.stack # <<>> /\ g = Last(profiler.stack)
    <3>1. DueIn(profiler, g) = now - Value(profiler.records[g].self_start)
      BY <2>2 DEF DueIn
    <3>2. Value(profiler.records[g].self_start) \in Nat
      <4>1. RecordOK(profiler.records[g])
        BY <2>2, OnStack
      <4> QED BY <4>1, PastTimes
    <3>3. DueIn(profiler, g)' = now + 1 - Value(profiler.records[g].self_start)
      BY <2>2, <3>2 DEF DueIn
    <3> QED BY <2>1, <2>2, <3>1, <3>2, <3>3 DEF SelfIn
  <2>3. CASE ~(profiler.stack # <<>> /\ g = Last(profiler.stack))
    <3>1. DueIn(profiler, g) = 0 /\ DueIn(profiler, g)' = 0
      BY <2>3 DEF DueIn
    <3> QED BY <2>1, <2>3, <3>1 DEF SelfIn
  <2> QED BY <2>2, <2>3
<1>4. ASSUME NEW g \in Functions
      PROVE  TotalIn(profiler, g)' = TotalIn(profiler, g)
                + IF g \in ToSet(profiler.stack) THEN 1 ELSE 0
  <2> DEFINE r == profiler.records[g]
  <2>1. profiler.stack \in Seq(Functions)
    BY DEF ProfilerOK, Profilers
  <2>2. g \in ToSet(profiler.stack) <=> \E i \in DOMAIN profiler.stack : profiler.stack[i] = g
    BY DEF ToSet
  <2>3. CASE r = None
    <3>1. g \notin ToSet(profiler.stack)
      BY <2>2, <2>3 DEF ProfilerOK
    <3>2. TotalIn(profiler, g) = 0 /\ TotalIn(profiler, g)' = 0
      BY <2>3 DEF TotalIn
    <3> QED BY <3>1, <3>2
  <2>4. CASE r # None
    <3>1. RecordOK(r) /\ r.depth = Count(profiler.stack, g)
      BY <2>4 DEF ProfilerOK
    <3>2. r.depth > 0 <=> g \in ToSet(profiler.stack)
      BY <2>1, <2>2, <3>1, CountOf, ZenonT(60)
    <3>3. /\ Value(r.total_start) \in Nat /\ Value(r.total) \in Nat
      BY <3>1, PastTimes
    <3>4. r.depth \in Nat
      BY <3>1, PastTimes
    <3>5. /\ TotalIn(profiler, g) = Value(r.total)
                + IF r.depth > 0 THEN now - Value(r.total_start) ELSE 0
          /\ TotalIn(profiler, g)' = Value(r.total)
                + IF r.depth > 0 THEN now + 1 - Value(r.total_start) ELSE 0
      BY <2>4, <3>3, <3>4 DEF TotalIn, TotalTime
    <3> HIDE DEF r
    <3>6. CASE r.depth > 0
      BY <3>2, <3>3, <3>4, <3>5, <3>6
    <3>7. CASE ~(r.depth > 0)
      BY <3>2, <3>3, <3>4, <3>5, <3>7
    <3> QED BY <3>6, <3>7
  <2> QED BY <2>3, <2>4
<1> QED BY <1>2, <1>3, <1>4

LEMMA TickInv == IInv /\ Tick => IInv'
<1> SUFFICES ASSUME IInv, Tick PROVE IInv'
  OBVIOUS
<1>1. /\ Types /\ ProfilerOK(profiler) /\ CleanOK /\ ListOK
      /\ now \in Nat
  BY DEF IInv, Types
<1>2. Types'
  <2>1. /\ selfTime' \in [Functions -> Nat]
        /\ fullTime' \in [Functions -> Nat]
        /\ now' \in Nat
    <3>1. \A f \in Functions : selfTime[f] \in Nat /\ fullTime[f] \in Nat
      BY <1>1 DEF Types
    <3>2. \A f \in Functions :
             /\ selfTime[f] + (IF frames # <<>> /\ f = Last(frames) THEN 1 ELSE 0) \in Nat
             /\ fullTime[f] + (IF f \in ToSet(frames) THEN 1 ELSE 0) \in Nat
      BY <3>1
    <3> QED BY <1>1, <3>2 DEF Tick
  <2> QED BY <1>1, <2>1 DEF Tick, Types
<1>3. ProfilerOK(profiler)'
  BY <1>1, TickProfiler DEF Tick
<1>4. IdleOK'
  BY DEF Tick, IdleOK
<1>5. ASSUME clean'
      PROVE  /\ profiler'.stack = frames'
             /\ \A f \in Functions : /\ SelfIn(profiler, f)' = selfTime'[f]
                                     /\ TotalIn(profiler, f)' = fullTime'[f]
  <2>1. /\ profiler.stack = frames
        /\ \A f \in Functions : /\ SelfIn(profiler, f) = selfTime[f]
                                /\ TotalIn(profiler, f) = fullTime[f]
    BY <1>1, <1>5 DEF Tick, CleanOK
  <2>2. \A f \in Functions :
           /\ selfTime'[f] = selfTime[f]
                 + IF profiler.stack # <<>> /\ f = Last(profiler.stack) THEN 1 ELSE 0
           /\ fullTime'[f] = fullTime[f] + IF f \in ToSet(profiler.stack) THEN 1 ELSE 0
    BY <2>1 DEF Tick
  <2> QED BY <1>1, <2>1, <2>2, TickProfiler DEF Tick
<1>6. CleanOK'
  BY <1>5 DEF CleanOK
<1>7. ListOK'
  BY <1>1, SameList DEF Tick
<1> QED BY <1>2, <1>3, <1>4, <1>6, <1>7 DEF IInv

(* A call of the hook: the profiler is now p.                              *)
LEMMA HookInv ==
    ASSUME IInv, active, UNCHANGED <<active, functions, full, now, run, merged>>,
           frames' \in Seq(Functions), NEW p, profiler' = p, ProfilerOK(p),
           clean => /\ p.stack = frames'
                    /\ \A g \in Functions : /\ SelfIn(p, g) = SelfIn(profiler, g)
                                            /\ TotalIn(p, g) = TotalIn(profiler, g)
    PROVE  IInv'
<1>1. Types'
  BY DEF IInv, Types, run
<1>2. ProfilerOK(profiler)'
  BY SameTime
<1>3. IdleOK'
  BY DEF IdleOK
<1>4. ASSUME clean
      PROVE  \A g \in Functions : /\ SelfIn(profiler, g)' = selfTime'[g]
                                  /\ TotalIn(profiler, g)' = fullTime'[g]
  BY <1>4, SameTime DEF IInv, CleanOK, run
<1>5. CleanOK'
  BY <1>4 DEF CleanOK, run
<1>6. ListOK'
  BY SameList DEF IInv
<1> QED BY <1>1, <1>2, <1>3, <1>5, <1>6 DEF IInv

(* The hook on a call ...                                                  *)
LEMMA CallInv == ASSUME NEW f \in Functions PROVE IInv /\ Call(f) => IInv'
<1> SUFFICES ASSUME IInv, Call(f) PROVE IInv'
  OBVIOUS
<1> DEFINE q == Paused(profiler)
           p == Entered(q, f)
<1>1. now \in Nat /\ ProfilerOK(profiler) /\ frames \in Seq(Functions)
  BY DEF IInv, Types
<1>2. /\ ProfilerOK(q)
      /\ q.stack = profiler.stack
      /\ \A g \in Functions : /\ StoredIn(q, g) = SelfIn(profiler, g)
                              /\ TotalIn(q, g) = TotalIn(profiler, g)
  BY <1>1, PausedProfiler
<1> HIDE DEF q
<1>3. /\ ProfilerOK(p)
      /\ p.stack = Append(q.stack, f)
      /\ \A g \in Functions : /\ SelfIn(p, g) = StoredIn(q, g)
                              /\ TotalIn(p, g) = TotalIn(q, g)
  BY <1>1, <1>2, EnteredProfiler
<1>4. profiler' = p /\ frames' = Append(frames, f) /\ active
  BY DEF Call, q
<1>5. UNCHANGED <<active, functions, full, now, run, merged>>
  BY DEF Call
<1> HIDE DEF p
<1>6. frames' \in Seq(Functions)
  BY <1>1, <1>4, AppendProperties
<1>7. clean => p.stack = frames'
  BY <1>2, <1>3, <1>4 DEF IInv, CleanOK
<1> QED BY <1>2, <1>3, <1>4, <1>5, <1>6, <1>7, HookInv

(* ... on a tail call ...                                                  *)
LEMMA TailCallInv == ASSUME NEW f \in Functions PROVE IInv /\ TailCall(f) => IInv'
<1> SUFFICES ASSUME IInv, TailCall(f) PROVE IInv'
  OBVIOUS
<1> DEFINE q == Exited(profiler)
           p == Entered(q, f)
<1>1. now \in Nat /\ ProfilerOK(profiler) /\ frames \in Seq(Functions) /\ frames # <<>>
  BY DEF IInv, Types, TailCall, MayTailCall
<1>2. ProfilerOK(q)
  BY <1>1, ExitedOK
<1>3. ASSUME clean
      PROVE  /\ q.stack = Front(frames)
             /\ \A g \in Functions : /\ StoredIn(q, g) = SelfIn(profiler, g)
                                     /\ TotalIn(q, g) = TotalIn(profiler, g)
  <2>1. profiler.stack = frames
    BY <1>3 DEF IInv, CleanOK
  <2> QED BY <2>1, <1>1, ExitedProfiler
<1> HIDE DEF q
<1>4. /\ ProfilerOK(p)
      /\ p.stack = Append(q.stack, f)
      /\ \A g \in Functions : /\ SelfIn(p, g) = StoredIn(q, g)
                              /\ TotalIn(p, g) = TotalIn(q, g)
  BY <1>1, <1>2, EnteredProfiler
<1>5. profiler' = p /\ frames' = Append(Front(frames), f) /\ active
  BY DEF TailCall, MayTailCall, q
<1>6. UNCHANGED <<active, functions, full, now, run, merged>>
  BY DEF TailCall
<1> HIDE DEF p
<1>7. frames' \in Seq(Functions)
  BY <1>1, <1>5, SplitLast, AppendProperties
<1>8. clean => p.stack = frames'
  BY <1>3, <1>4, <1>5
<1> QED BY <1>3, <1>4, <1>5, <1>6, <1>7, <1>8, HookInv

(* ... and on a return.                                                    *)
LEMMA ReturnInv == IInv /\ Return => IInv'
<1> SUFFICES ASSUME IInv, Return PROVE IInv'
  OBVIOUS
<1> DEFINE q == Exited(profiler)
           p == Resumed(q)
<1>1. now \in Nat /\ ProfilerOK(profiler) /\ frames \in Seq(Functions) /\ frames # <<>>
  BY DEF IInv, Types, Return
<1>2. ProfilerOK(q)
  BY <1>1, ExitedOK
<1>3. ASSUME clean
      PROVE  /\ q.stack = Front(frames)
             /\ \A g \in Functions : /\ StoredIn(q, g) = SelfIn(profiler, g)
                                     /\ TotalIn(q, g) = TotalIn(profiler, g)
  <2>1. profiler.stack = frames
    BY <1>3 DEF IInv, CleanOK
  <2> QED BY <2>1, <1>1, ExitedProfiler
<1> HIDE DEF q
<1>4. /\ ProfilerOK(p)
      /\ p.stack = q.stack
      /\ \A g \in Functions : /\ SelfIn(p, g) = StoredIn(q, g)
                              /\ TotalIn(p, g) = TotalIn(q, g)
  BY <1>1, <1>2, ResumedProfiler
<1>5. profiler' = p /\ frames' = Front(frames) /\ active
  BY DEF Return, q
<1>6. UNCHANGED <<active, functions, full, now, run, merged>>
  BY DEF Return
<1> HIDE DEF p
<1>7. frames' \in Seq(Functions)
  BY <1>1, <1>5, SplitLast
<1>8. clean => p.stack = frames'
  BY <1>3, <1>4, <1>5
<1> QED BY <1>3, <1>4, <1>5, <1>6, <1>7, <1>8, HookInv

(* The end of the profiler.                                                *)
LEMMA EndedInv ==
    ASSUME IInv, Ended, frames' = <<>>, now' = now
    PROVE  /\ ProfilerOK(profiler)'
           /\ IdleOK'
           /\ CleanOK'
           /\ selfTime' \in [Functions -> Nat] /\ fullTime' \in [Functions -> Nat]
           /\ active' \in BOOLEAN /\ clean' \in BOOLEAN /\ frames' \in Seq(Functions)
<1>1. now \in Nat /\ profiler' = NewProfiler
  BY DEF IInv, Types, Ended
<1>2. /\ ProfilerOK(profiler)'
      /\ \A g \in Functions : SelfIn(profiler, g)' = 0 /\ TotalIn(profiler, g)' = 0
  BY <1>1, SameTime, NewProfilerOK
<1>3. IdleOK'
  BY DEF Ended, IdleOK
<1>4. selfTime' = NoTime /\ fullTime' = NoTime /\ NoTime \in [Functions -> Nat]
  BY DEF Ended, NoTime
<1>5. CleanOK'
  BY <1>1, <1>2, <1>4, NewProfilerOK DEF CleanOK, NoTime
<1>6. frames' \in Seq(Functions)
  BY EmptySeq
<1> QED BY <1>2, <1>3, <1>4, <1>5, <1>6 DEF Ended

(* An error, when the profiler was p.                                      *)
LEMMA UnwoundInv ==
    ASSUME IInv, active, UNCHANGED <<functions, full, now, merged>>,
           NEW p, ProfilerOK(p), Unwound(p)
    PROVE  IInv'
<1> DEFINE pcalls == {i \in DOMAIN frames : frames[i] = Pcall}
<1>1. ListOK'
  BY SameList DEF IInv
<1>2. CASE pcalls = {}
  <2>1. Ended /\ frames' = <<>>
    BY <1>2 DEF Unwound
  <2>2. Types'
    BY <2>1, EndedInv DEF IInv, Types
  <2> QED BY <1>1, <2>1, <2>2, EndedInv DEF IInv
<1>3. CASE pcalls # {}
  <2>1. /\ profiler' = p
        /\ frames' = SubSeq(frames, 1, Max(pcalls))
        /\ clean' = FALSE
        /\ UNCHANGED <<active, selfTime, fullTime>>
    BY <1>3 DEF Unwound
  <2>2. /\ frames \in Seq(Functions)
        /\ Len(frames) \in Nat
        /\ DOMAIN frames = 1 .. Len(frames)
        /\ \A i \in 1 .. Len(frames) : frames[i] \in Functions
    BY LenProperties, ElementOfSeq DEF IInv, Types
  <2>3. Max(pcalls) \in 1 .. Len(frames)
    <3>1. pcalls \subseteq 1 .. Len(frames)
      BY <2>2
    <3> HIDE DEF pcalls
    <3> QED BY <1>3, <2>2, <3>1, GreatestNatural
  <2>4. frames' \in Seq(Functions)
    <3> HIDE DEF pcalls
    <3>1. \A i \in 1 .. Max(pcalls) : frames[i] \in Functions
      BY <2>2, <2>3
    <3>2. Max(pcalls) \in Int
      BY <2>2, <2>3
    <3>3. SubSeq(frames, 1, Max(pcalls)) \in Seq(Functions)
      BY ONLY <3>1, <3>2, SubSeqProperties
    <3> QED BY <2>1, <3>3
  <2>5. Types'
    BY <2>1, <2>4 DEF IInv, Types
  <2>6. ProfilerOK(profiler)' /\ IdleOK' /\ CleanOK'
    BY <2>1, SameTime DEF IdleOK, CleanOK
  <2> QED BY <1>1, <2>5, <2>6 DEF IInv
<1> QED BY <1>2, <1>3

(* An error, which the hook does not see.                                  *)
LEMMA ErrorInv == IInv /\ Error => IInv'
<1> SUFFICES ASSUME IInv, Error PROVE IInv'
  OBVIOUS
<1>1. ProfilerOK(profiler)
  BY DEF IInv
<1>2. active /\ Unwound(profiler) /\ UNCHANGED <<functions, full, now, merged>>
  BY DEF Error
<1> QED BY <1>1, <1>2, UnwoundInv

(* An error of the hook itself.                                            *)
LEMMA HookFailsInv == ASSUME NEW f \in Functions PROVE IInv /\ HookFails(f) => IInv'
<1> SUFFICES ASSUME IInv, HookFails(f) PROVE IInv'
  OBVIOUS
<1> DEFINE a == Paused(profiler)
           b == Exited(profiler)
<1>1. now \in Nat /\ ProfilerOK(profiler)
  BY DEF IInv, Types
<1>2. ProfilerOK(a) /\ ProfilerOK(b)
  BY <1>1, PausedProfiler, ExitedOK
<1>3. /\ active
      /\ UNCHANGED <<functions, full, now, merged>>
      /\ \/ Unwound(a) \/ Unwound(Created(a, f))
         \/ Unwound(b) \/ Unwound(Created(b, f))
  BY DEF HookFails
<1> HIDE DEF a, b
<1>4. ProfilerOK(Created(a, f)) /\ ProfilerOK(Created(b, f))
  BY <1>1, <1>2, CreatedProfiler
<1> QED BY <1>2, <1>3, <1>4, UnwoundInv

-------------------------------------------------------------------------------
(* The end of a run: the merge.                                            *)

MergedWith(p) ==
    [f \in Functions |->
        IF f \notin Known(p) THEN merged[f]
        ELSE LET r == p.records[f]
             IN  [calls |-> merged[f].calls + r.calls,
                  self |-> merged[f].self + Value(r.self),
                  total |-> merged[f].total + Value(r.total)]]

(* What is merged is a number of calls and two times.                      *)
LEMMA MergedType ==
    ASSUME Types, NEW p, ProfilerOK(p)
    PROVE  MergedWith(p) \in [Functions -> [calls : Nat, self : Nat, total : Nat]]
<1>1. ASSUME NEW f \in Functions
      PROVE  MergedWith(p)[f] \in [calls : Nat, self : Nat, total : Nat]
  <2>1. merged[f] \in [calls : Nat, self : Nat, total : Nat]
    BY DEF Types
  <2>2. CASE f \notin Known(p)
    BY <2>1, <2>2 DEF MergedWith
  <2>3. CASE f \in Known(p)
    <3> DEFINE r == p.records[f]
    <3>1. RecordOK(r) /\ now \in Nat
      BY <2>3 DEF ProfilerOK, Known, Types
    <3> HIDE DEF r
    <3>2. r.calls \in Nat /\ Value(r.self) \in Nat /\ Value(r.total) \in Nat
      BY <3>1, PastTimes
    <3>3. MergedWith(p)[f] = [calls |-> merged[f].calls + r.calls,
                              self |-> merged[f].self + Value(r.self),
                              total |-> merged[f].total + Value(r.total)]
      BY <2>3 DEF MergedWith, r
    <3> QED BY <2>1, <3>2, <3>3
  <2> QED BY <2>2, <2>3
<1> QED BY <1>1 DEF MergedWith

(* The entries of the list after a merge, as far as there was memory.      *)
LEMMA ListedEntries ==
    ASSUME IInv, NEW p, ProfilerOK(p), NEW added, added \subseteq Unlisted(p),
           added # {} => ~full
    PROVE  /\ DOMAIN Listed(p, added) = DOMAIN functions \cup added
           /\ \A f \in DOMAIN Listed(p, added) :
                 f \in Functions /\ EntryOK(Listed(p, added)[f], MergedWith(p)[f])
<1> DEFINE l == Listed(p, added)
           m == MergedWith(p)
<1>1. /\ DOMAIN functions \subseteq Functions
      /\ added \subseteq Known(p) /\ added \cap DOMAIN functions = {}
      /\ Known(p) \subseteq Functions
      /\ now \in Nat
  BY DEF IInv, ListOK, Unlisted, Known, Types
<1>2. DOMAIN l = DOMAIN functions \cup added
  BY DEF Listed
<1>3. ASSUME NEW f \in DOMAIN functions \cup added
      PROVE  EntryOK(l[f], m[f])
  <2>1. f \in Functions /\ merged[f] \in [calls : Nat, self : Nat, total : Nat]
    BY <1>1 DEF IInv, Types
  <2>2. CASE f \in Known(p)
    <3> DEFINE r == p.records[f]
    <3>1. RecordOK(r)
      BY <2>2 DEF ProfilerOK, Known
    <3>2. m[f] = [calls |-> merged[f].calls + r.calls,
                  self |-> merged[f].self + Value(r.self),
                  total |-> merged[f].total + Value(r.total)]
      BY <2>1, <2>2 DEF MergedWith
    <3>3. l[f] = IF f \in added THEN Entry(r) ELSE Sum(functions[f], r)
      BY <2>2 DEF Listed
    <3> HIDE DEF r, l, m
    <3>4. /\ r.calls \in Nat /\ r.self \in Timespec /\ r.total \in Timespec
          /\ Value(r.self) \in Nat /\ Value(r.total) \in Nat
      BY <3>1, <1>1, PastTimes
    <3>5. CASE f \in added
      <4>1. merged[f].calls = 0 /\ merged[f].self = 0 /\ merged[f].total = 0
        BY <2>1, <3>5, <1>1 DEF IInv, ListOK
      <4>2. l[f] = [calls |-> r.calls, self |-> r.self, total |-> r.total]
        BY <3>3, <3>5 DEF Entry
      <4> QED BY <2>1, <3>2, <3>4, <4>1, <4>2 DEF EntryOK
    <3>6. CASE f \notin added
      <4> DEFINE e == functions[f]
      <4>1. EntryOK(e, merged[f])
        BY <3>6 DEF IInv, ListOK
      <4> HIDE DEF e
      <4>2. /\ e.calls \in Nat /\ e.self \in Timespec /\ e.total \in Timespec
        BY <4>1 DEF EntryOK
      <4>3. /\ Add(e.self, r.self) \in Timespec
            /\ Value(Add(e.self, r.self)) = Value(e.self) + Value(r.self)
            /\ Add(e.total, r.total) \in Timespec
            /\ Value(Add(e.total, r.total)) = Value(e.total) + Value(r.total)
        BY <3>4, <4>2, AddTimes
      <4>4. l[f] = [calls |-> e.calls + r.calls, self |-> Add(e.self, r.self),
                    total |-> Add(e.total, r.total)]
        BY <3>3, <3>6 DEF Sum, e
      <4> QED BY <3>2, <3>4, <4>1, <4>2, <4>3, <4>4 DEF EntryOK
    <3> QED BY <3>5, <3>6
  <2>3. CASE f \notin Known(p)
    <3>1. f \in DOMAIN functions /\ f \notin added
      BY <2>3, <1>1
    <3>2. l[f] = functions[f] /\ m[f] = merged[f]
      BY <2>1, <2>3, <3>1 DEF Listed, MergedWith
    <3> QED BY <3>1, <3>2 DEF IInv, ListOK
  <2> QED BY <2>2, <2>3
<1> QED BY <1>1, <1>2, <1>3

(* lws_stop_profiler.                                                      *)
LEMMA StopInv == IInv /\ Stop => IInv'
<1> SUFFICES ASSUME IInv, Stop PROVE IInv'
  OBVIOUS
<1> DEFINE p == Entered(Paused(profiler), Stopper)
<1>1. Ended /\ frames' = <<>> /\ now' = now
  BY DEF Stop
<1>2. ProfilerOK(p)
  <2>1. ProfilerOK(profiler) /\ now \in Nat /\ Stopper \in Functions
    BY ProfilerAssumption DEF IInv, Types
  <2>2. ProfilerOK(Paused(profiler))
    BY <2>1, PausedProfiler
  <2> QED BY <2>1, <2>2, EnteredProfiler
<1>3. merged' = MergedWith(p)
  BY DEF Stop, MergedWith
<1>4. PICK added \in SUBSET Unlisted(p) :
         /\ functions' = Listed(p, added)
         /\ added # {} => ~full
         /\ full' \in BOOLEAN
         /\ ~full' => ~full /\ added = Unlisted(p)
  <2>1. CASE ~full /\ functions' = Listed(p, Unlisted(p)) /\ UNCHANGED full
    BY <2>1 DEF IInv, Types
  <2>2. CASE /\ ~full
             /\ \E added \in SUBSET Unlisted(p) : functions' = Listed(p, added)
             /\ full' = TRUE
    BY <2>2
  <2>3. CASE full /\ functions' = Listed(p, {}) /\ UNCHANGED full
    BY <2>3 DEF IInv, Types
  <2> HIDE DEF p
  <2>4. \/ ~full /\ functions' = Listed(p, Unlisted(p)) /\ UNCHANGED full
        \/ /\ ~full
           /\ \E added \in SUBSET Unlisted(p) : functions' = Listed(p, added)
           /\ full' = TRUE
        \/ full /\ functions' = Listed(p, {}) /\ UNCHANGED full
    BY DEF Stop, p
  <2> QED BY <2>1, <2>2, <2>3, <2>4
<1> HIDE DEF p
<1>5. Types'
  BY <1>1, <1>2, <1>3, <1>4, EndedInv, MergedType DEF IInv, Types
<1>6. /\ DOMAIN functions' = DOMAIN functions \cup added
      /\ \A f \in DOMAIN functions' : f \in Functions /\ EntryOK(functions'[f], merged'[f])
  BY <1>2, <1>3, <1>4, ListedEntries
<1>7. ASSUME ~full', NEW f \in Functions \ DOMAIN functions'
      PROVE  merged'[f].calls = 0 /\ merged'[f].self = 0 /\ merged'[f].total = 0
  <2>1. f \notin DOMAIN functions /\ f \notin Known(p) /\ ~full
    BY <1>4, <1>6, <1>7 DEF Unlisted
  <2>2. merged'[f] = merged[f]
    BY <2>1, <1>3 DEF MergedWith
  <2> QED BY <2>1, <2>2 DEF IInv, ListOK
<1>8. ListOK'
  BY <1>6, <1>7 DEF ListOK, EntryOK
<1> QED BY <1>1, <1>5, <1>8, EndedInv DEF IInv

(* The monitor's list is cleared.                                          *)
LEMMA ClearInv == IInv /\ Clear => IInv'
<1> SUFFICES ASSUME IInv, Clear PROVE IInv'
  OBVIOUS
<1>1. NoCounts \in [Functions -> [calls : Nat, self : Nat, total : Nat]]
  BY DEF NoCounts
<1>2. Types'
  BY <1>1 DEF IInv, Clear, Types, run
<1>3. ProfilerOK(profiler)'
  BY SameTime DEF IInv, Clear
<1>4. IdleOK'
  BY DEF IInv, Clear, IdleOK, run
<1>5. CleanOK'
  BY SameTime DEF IInv, Clear, CleanOK, run
<1>6. ListOK'
  BY DEF Clear, ListOK, NoCounts
<1> QED BY <1>2, <1>3, <1>4, <1>5, <1>6 DEF IInv

(* Every step.                                                             *)
LEMMA NextInv == IInv /\ [Next]_vars => IInv'
<1> SUFFICES ASSUME IInv, [Next]_vars PROVE IInv'
  OBVIOUS
<1>1. ASSUME NEW f \in Functions \ {Stopper}, Call(f) \/ TailCall(f) \/ HookFails(f)
      PROVE  IInv'
  BY <1>1, CallInv, TailCallInv, HookFailsInv
<1>2. CASE UNCHANGED vars
  <2>1. UNCHANGED <<profiler, active, functions, full, frames, now, merged>>
    BY <1>2 DEF vars
  <2>2. UNCHANGED <<selfTime, fullTime, clean>>
    BY <1>2 DEF vars, run
  <2>3. Types'
    BY <2>1, <2>2 DEF IInv, Types
  <2>4. ProfilerOK(profiler)'
    BY <2>1, SameTime DEF IInv
  <2>5. IdleOK'
    BY <2>1, <2>2 DEF IInv, IdleOK
  <2>6. CleanOK'
    BY <2>1, <2>2, SameTime DEF IInv, CleanOK
  <2>7. ListOK'
    BY <2>1, SameList DEF IInv
  <2> QED BY <2>3, <2>4, <2>5, <2>6, <2>7 DEF IInv
<1> QED
  BY <1>1, <1>2, StartInv, TickInv, ReturnInv, ErrorInv, StopInv, ClearInv DEF Next

(* The invariant holds in every state.                                     *)
THEOREM Invariance == Spec => []IInv
  BY InitInv, NextInv, PTL DEF Spec

-------------------------------------------------------------------------------
(* Theorems.                                                               *)

(* The depth of a record is how often it is on the profiler's stack, so    *)
(* that no exit decrements a depth of zero: for any calls, and with any    *)
(* errors that leave the stack behind (lws_profiler_hook).                 *)
THEOREM DepthsAlwaysMatch == Spec => []DepthsMatch
<1>1. IInv => DepthsMatch
  BY DEF IInv, ProfilerOK, Known, Count, DepthsMatch
<1> QED BY <1>1, Invariance, PTL

(* Without caught errors self and total times are the time spent, and all  *)
(* times keep their nanoseconds within a second, so that a carry of one    *)
(* second is enough (lws_add_timespec, lws_add_timespec_delta).            *)
THEOREM TimesAlwaysTrue == Spec => []TimesTrue
<1>1. IInv => TimesTrue
  <2> SUFFICES ASSUME IInv PROVE TimesTrue
    OBVIOUS
  <2>1. ProfilerOK(profiler) /\ now \in Nat
    BY DEF IInv, Types
  <2>2. ASSUME NEW f \in Known(profiler)
        PROVE  /\ f \in Functions
               /\ {profiler.records[f].self, profiler.records[f].total} \subseteq Timespec
    <3>1. f \in Functions /\ RecordOK(profiler.records[f])
      BY <2>1 DEF Known, ProfilerOK
    <3> QED BY <2>1, <3>1, PastTimes
  <2>3. ASSUME active, clean, NEW f \in Known(profiler)
        PROVE  SelfOf(f) = selfTime[f] /\ TotalOf(f) = fullTime[f]
    <3>1. f \in Functions /\ profiler.records[f] # None
      BY DEF Known
    <3>2. SelfIn(profiler, f) = selfTime[f] /\ TotalIn(profiler, f) = fullTime[f]
      BY <2>3, <3>1 DEF IInv, CleanOK
    <3>3. SelfOf(f) = SelfIn(profiler, f)
      BY <2>3, <3>1 DEF SelfOf, Running, SelfIn, StoredIn, DueIn
    <3>4. TotalOf(f) = TotalIn(profiler, f)
      BY <3>1 DEF TotalOf, TotalIn, TotalTime
    <3> QED BY <3>2, <3>3, <3>4
  <2>4. active /\ clean => profiler.stack = frames
    BY DEF IInv, CleanOK
  <2>5. ASSUME NEW f \in DOMAIN functions
        PROVE  {functions[f].self, functions[f].total} \subseteq Timespec
    BY DEF IInv, ListOK, EntryOK
  <2> QED BY <2>2, <2>3, <2>4, <2>5 DEF TimesTrue
<1> QED BY <1>1, Invariance, PTL

(* The monitor's list has every run once, and every function unless memory *)
(* ran out (lws_stop_profiler, lws_update_functions).                      *)
THEOREM MonitorAlwaysAddsUp == Spec => []MonitorAddsUp
<1>1. IInv => MonitorAddsUp
  <2> SUFFICES ASSUME IInv PROVE MonitorAddsUp
    OBVIOUS
  <2>1. ASSUME NEW f \in DOMAIN functions
        PROVE  [calls |-> functions[f].calls, self |-> Value(functions[f].self),
                total |-> Value(functions[f].total)] = merged[f]
    <3>1. merged[f] \in [calls : Nat, self : Nat, total : Nat]
      BY DEF IInv, Types, ListOK
    <3>2. EntryOK(functions[f], merged[f])
      BY DEF IInv, ListOK
    <3> QED BY <3>1, <3>2 DEF EntryOK
  <2>2. ASSUME ~full, NEW f \in Functions, merged[f].calls > 0
        PROVE  f \in DOMAIN functions
    BY <2>2 DEF IInv, ListOK
  <2> QED BY <2>1, <2>2 DEF MonitorAddsUp
<1> QED BY <1>1, Invariance, PTL

(* A total time that is wrong after all functions have returned takes a    *)
(* caught error: without one it is the time spent (doc/Monitor.md:77-78).  *)
THEOREM CleanTotalIsTime == Spec => [](clean => TotalIsTime)
<1>1. IInv => (clean => TotalIsTime)
  <2> SUFFICES ASSUME IInv, clean, active, frames = <<>>, NEW f \in Known(profiler)
               PROVE  Value(profiler.records[f].total) = fullTime[f]
    BY DEF TotalIsTime
  <2> DEFINE r == profiler.records[f]
  <2>1. /\ f \in Functions /\ r # None /\ RecordOK(r) /\ now \in Nat
        /\ r.depth = Count(profiler.stack, f)
    BY DEF Known, IInv, Types, ProfilerOK
  <2>2. profiler.stack = <<>> /\ TotalIn(profiler, f) = fullTime[f]
    BY <2>1 DEF IInv, CleanOK
  <2>3. TotalIn(profiler, f) = TotalTime(r)
    BY <2>1 DEF TotalIn
  <2> HIDE DEF r
  <2>4. r.depth = 0 /\ Value(r.total) \in Nat
    BY <2>1, <2>2, CountEmpty, PastTimes
  <2>5. TotalTime(r) = Value(r.total)
    BY <2>4 DEF TotalTime
  <2> QED BY <2>2, <2>3, <2>5 DEF r
<1> QED BY <1>1, Invariance, PTL
===============================================================================
