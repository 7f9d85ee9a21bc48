---------------------------- MODULE LwsStatesProofs ----------------------------
(***************************************************************************)
(* Proofs about LwsStates, for every number of requests, states, threads   *)
(* and every configuration of the location.                                *)
(***************************************************************************)
EXTENDS LwsStates, TLAPS, SeqLemmas

(* What every operator on pools keeps: the idle list holds each idle       *)
(* object once, what is not live is blank, idle objects are reusable, the  *)
(* lifetime timer of objects in use is not lost.                           *)
PoolOK(p) ==
    /\ p \in Pool
    /\ InUse(p) \subseteq Live(p)
    /\ \A s \in States : s \notin Live(p) => p.obj[s] = Freed
    /\ ToSet(p.states) = Live(p) \ InUse(p)
    /\ IsInjective(p.states)
    /\ \A s \in ToSet(p.states) :
          LET o == p.obj[s] IN
          /\ ~o.close
          /\ ~o.timedout
          /\ StateRequestsMax > 0 => o.request_count < StateRequestsMax
          /\ HasTimeMax \/ HasTimeout => o.timer_set
    /\ HasTimeMax => \A s \in InUse(p) : p.obj[s].timer_set \/ p.obj[s].timedout

Counted(p) == p.states_n = Cardinality(Live(p))

-------------------------------------------------------------------------------
(* What each operator on pools does.                                       *)

LEMMA PoolFacts ==
    ASSUME NEW p, PoolOK(p)
    PROVE  /\ p.states \in Seq(States)
           /\ p.states_n \in 0 .. WORD - 1
           /\ p.obj \in [States -> Object]
           /\ IsFiniteSet(Live(p))
           /\ Cardinality(Live(p)) \in Nat
           /\ Cardinality(Live(p)) <= Cardinality(States)
           /\ Cardinality(States) \in Nat
           /\ WORD \in Nat
           /\ Cardinality(States) < WORD
<1>1. p \in Pool /\ Live(p) \in SUBSET States
  BY DEF PoolOK, Live
<1>2. IsFiniteSet(States) /\ WORD \in Nat /\ Cardinality(States) < WORD
  BY StatesAssumption
<1>3. /\ IsFiniteSet(Live(p))
      /\ Cardinality(Live(p)) <= Cardinality(States)
  BY <1>1, <1>2, FS_Subset
<1>4. Cardinality(Live(p)) \in Nat /\ Cardinality(States) \in Nat
  BY <1>2, <1>3, FS_CardinalityType
<1>5. /\ p.states \in Seq(States)
      /\ p.states_n \in 0 .. WORD - 1
      /\ p.obj \in [States -> Object]
  BY <1>1 DEF Pool
<1> QED BY <1>2, <1>3, <1>4, <1>5

(* lws_create_state followed by the in_use of lws_acquire_state.           *)
LEMMA CreatedOK ==
    ASSUME NEW p, PoolOK(p), NEW s \in States \ Live(p)
    PROVE  /\ PoolOK(Created(p, s))
           /\ InUse(Created(p, s)) = InUse(p) \cup {s}
           /\ Live(Created(p, s)) = Live(p) \cup {s}
           /\ Counted(p) => Counted(Created(p, s))
<1> DEFINE q == Created(p, s)
           new == [Freed EXCEPT !.live = TRUE, !.in_use = TRUE, !.timer_set = HasTimeMax]
<1>0. HasTimeMax \in BOOLEAN
  BY StatesAssumption
<1>1. /\ new \in Object
      /\ new.live /\ new.in_use /\ new.timer_set = HasTimeMax
  BY <1>0 DEF Freed, Object
<1> HIDE DEF new
<1>2. /\ q.states = p.states
      /\ q.states_n = Plus(p.states_n)
      /\ \A x \in States : q.obj[x] = IF x = s THEN new ELSE p.obj[x]
      /\ q \in Pool
  <2>1. Plus(p.states_n) \in 0 .. WORD - 1
    BY PoolFacts DEF Plus
  <2>2. p \in Pool
    BY DEF PoolOK
  <2> QED BY <1>1, <2>1, <2>2 DEF Created, Pool, new
<1> HIDE DEF q
<1>3. Live(q) = Live(p) \cup {s} /\ InUse(q) = InUse(p) \cup {s}
  BY <1>1, <1>2 DEF Live, InUse
<1>4. s \notin ToSet(p.states) /\ s \notin InUse(p)
  BY DEF PoolOK
<1>5. \A x \in ToSet(p.states) : x \in States /\ x # s
  BY <1>4, PoolFacts DEF PoolOK, Live
<1>6. PoolOK(q)
  BY <1>1, <1>2, <1>3, <1>4, <1>5 DEF PoolOK, Live, InUse
<1>7. ASSUME Counted(p)
      PROVE  Counted(q)
  <2>1. Cardinality(Live(q)) = Cardinality(Live(p)) + 1
    BY <1>3, PoolFacts, FS_AddElement
  <2>2. Cardinality(Live(q)) <= Cardinality(States)
    BY <1>6, PoolFacts
  <2>3. Plus(p.states_n) = p.states_n + 1
    BY <1>7, <2>1, <2>2, PoolFacts DEF Plus, Counted
  <2> QED BY <1>7, <1>2, <2>1, <2>3 DEF Counted
<1> QED BY <1>3, <1>6, <1>7 DEF q

(* lws_acquire_state with an idle state.                                   *)
LEMMA TakenIdleOK ==
    ASSUME NEW p, PoolOK(p), p.states # <<>>
    PROVE  /\ PoolOK(TakenIdle(p))
           /\ Head(p.states) \in States \ InUse(p)
           /\ InUse(TakenIdle(p)) = InUse(p) \cup {Head(p.states)}
           /\ Live(TakenIdle(p)) = Live(p)
           /\ Counted(p) => Counted(TakenIdle(p))
<1> DEFINE q == TakenIdle(p)
           s == Head(p.states)
           o == InUseNow(p.obj[s])
<1>0. HasTimeMax \in BOOLEAN /\ HasTimeout \in BOOLEAN
  BY StatesAssumption
<1>1. /\ s \in States
      /\ s \in ToSet(p.states)
      /\ Tail(p.states) \in Seq(States)
      /\ IsInjective(Tail(p.states))
      /\ ToSet(Tail(p.states)) = ToSet(p.states) \ {s}
  BY PoolFacts, TailInjective DEF PoolOK
<1>2. s \in Live(p) /\ s \notin InUse(p)
  BY <1>1 DEF PoolOK
<1> HIDE DEF s
<1>3. p.obj[s] \in Object
  BY <1>1, PoolFacts
<1>4. /\ o \in Object
      /\ o.in_use
      /\ o.live = p.obj[s].live
      /\ o.timer_set = IF HasTimeout THEN HasTimeMax ELSE p.obj[s].timer_set
  BY <1>0, <1>3 DEF Object, InUseNow
<1> HIDE DEF o
<1>5. /\ q.states = Tail(p.states)
      /\ q.states_n = p.states_n
      /\ \A x \in States : q.obj[x] = IF x = s THEN o ELSE p.obj[x]
      /\ q \in Pool
  <2>1. p \in Pool
    BY DEF PoolOK
  <2> QED BY <2>1, <1>1, <1>4 DEF TakenIdle, Pool, s, o
<1> HIDE DEF q
<1>6. Live(q) = Live(p) /\ InUse(q) = InUse(p) \cup {s}
  BY <1>1, <1>2, <1>4, <1>5 DEF Live, InUse
<1>7. ToSet(p.states) \subseteq States
  BY DEF PoolOK, Live
<1>8. HasTimeMax => o.timer_set
  BY <1>0, <1>1, <1>4 DEF PoolOK
<1>9. PoolOK(q)
  BY <1>1, <1>2, <1>4, <1>5, <1>6, <1>7, <1>8 DEF PoolOK, Live, InUse
<1> QED BY <1>1, <1>2, <1>5, <1>6, <1>9 DEF Counted, q, s

(* lws_close_state, for a state that is in use or has left the idle list.  *)
LEMMA ClosedOK ==
    ASSUME NEW p, PoolOK(p), NEW s \in Live(p),
           NEW t \in Seq(States), IsInjective(t), ToSet(t) = ToSet(p.states) \ {s}
    PROVE  LET q == Closed([p EXCEPT !.states = t], s)
           IN  /\ PoolOK(q)
               /\ q.states = t
               /\ InUse(q) = InUse(p) \ {s}
               /\ Live(q) = Live(p) \ {s}
               /\ Counted(p) => Counted(q)
<1> DEFINE q == Closed([p EXCEPT !.states = t], s)
<1>1. Freed \in Object /\ ~Freed.live /\ ~Freed.in_use
  BY DEF Freed, Object
<1>2. /\ q.states = t
      /\ q.states_n = Minus(p.states_n, 1)
      /\ \A x \in States : q.obj[x] = IF x = s THEN Freed ELSE p.obj[x]
      /\ q \in Pool
  <2>1. Minus(p.states_n, 1) \in 0 .. WORD - 1
    BY PoolFacts DEF Minus
  <2>2. p \in Pool
    BY DEF PoolOK
  <2> QED BY <1>1, <2>1, <2>2 DEF Closed, Pool
<1> HIDE DEF q
<1>3. Live(q) = Live(p) \ {s} /\ InUse(q) = InUse(p) \ {s}
  BY <1>1, <1>2 DEF Live, InUse
<1>4. ToSet(p.states) \subseteq States
  BY DEF PoolOK, Live
<1>5. PoolOK(q)
  <2>1. ToSet(q.states) = Live(q) \ InUse(q)
    BY <1>2, <1>3 DEF PoolOK
  <2>2. \A x \in ToSet(t) : x \in ToSet(p.states) /\ x # s
    OBVIOUS
  <2> QED BY <1>2, <1>3, <1>4, <2>1, <2>2 DEF PoolOK, Live, InUse
<1>6. ASSUME Counted(p)
      PROVE  Counted(q)
  <2>1. Cardinality(Live(q)) = Cardinality(Live(p)) - 1
    BY <1>3, PoolFacts, FS_RemoveElement
  <2>2. Cardinality(Live(q)) \in Nat
    BY <1>5, PoolFacts
  <2>3. Minus(p.states_n, 1) = p.states_n - 1
    BY <1>6, <2>1, <2>2, PoolFacts DEF Minus, Counted
  <2> QED BY <1>6, <1>2, <2>1, <2>3 DEF Counted
<1> QED BY <1>2, <1>3, <1>5, <1>6 DEF q

(* lws_release_state.                                                      *)
LEMMA ReleasedOK ==
    ASSUME NEW p, PoolOK(p), NEW s \in InUse(p)
    PROVE  /\ PoolOK(Released(p, s))
           /\ InUse(Released(p, s)) = InUse(p) \ {s}
           /\ Live(Released(p, s)) \subseteq Live(p)
           /\ Counted(p) => Counted(Released(p, s))
<1>1. /\ s \in Live(p)
      /\ s \in States
      /\ s \notin ToSet(p.states)
  BY DEF PoolOK, InUse
<1>2. CASE MustClose(p.obj[s])
  <2>1. [p EXCEPT !.states = p.states] = p
    BY DEF PoolOK, Pool
  <2>2. /\ PoolOK(Closed(p, s))
        /\ InUse(Closed(p, s)) = InUse(p) \ {s}
        /\ Live(Closed(p, s)) = Live(p) \ {s}
        /\ Counted(p) => Counted(Closed(p, s))
    <3>1. p.states \in Seq(States) /\ IsInjective(p.states)
      BY PoolFacts DEF PoolOK
    <3>2. ToSet(p.states) = ToSet(p.states) \ {s}
      BY <1>1
    <3> QED BY <1>1, <2>1, <3>1, <3>2, ClosedOK
  <2> QED BY <1>2, <2>2 DEF Released
<1>3. CASE ~MustClose(p.obj[s])
  <2> DEFINE q == Released(p, s)
             o == IdleAgain(p.obj[s])
  <2>0. HasTimeMax \in BOOLEAN /\ HasTimeout \in BOOLEAN /\ StateRequestsMax \in Nat
    BY StatesAssumption
  <2>1. p.obj[s] \in Object
    BY <1>1, PoolFacts
  <2>2. /\ o \in Object
        /\ ~o.in_use
        /\ o.live = p.obj[s].live
        /\ o.close = p.obj[s].close
        /\ o.timedout = p.obj[s].timedout
        /\ o.timer_set = IF HasTimeout THEN TRUE ELSE p.obj[s].timer_set
        /\ o.request_count = p.obj[s].request_count + 1
    <3>1. p.obj[s].request_count + 1 \in Nat
      BY <2>1 DEF Object
    <3>2. (IF HasTimeout THEN TRUE ELSE p.obj[s].timer_set) \in BOOLEAN
      BY <2>1 DEF Object
    <3> DEFINE n == p.obj[s].request_count + 1
               b == IF HasTimeout THEN TRUE ELSE p.obj[s].timer_set
    <3>3. o = [p.obj[s] EXCEPT !.request_count = n, !.in_use = FALSE, !.timer_set = b]
      BY DEF IdleAgain
    <3> HIDE DEF n, b, o
    <3>4. /\ o \in Object
          /\ ~o.in_use
          /\ o.live = p.obj[s].live
          /\ o.close = p.obj[s].close
          /\ o.timedout = p.obj[s].timedout
          /\ o.timer_set = b
          /\ o.request_count = n
      BY <2>1, <3>1, <3>2, <3>3 DEF Object, n, b
    <3> QED BY <3>4 DEF n, b
  <2>3. /\ <<s>> \o p.states \in Seq(States)
        /\ IsInjective(<<s>> \o p.states)
        /\ ToSet(<<s>> \o p.states) = ToSet(p.states) \cup {s}
    BY <1>1, PoolFacts, ConsInjective DEF PoolOK
  <2> HIDE DEF o
  <2>4. /\ q.states = <<s>> \o p.states
        /\ q.states_n = p.states_n
        /\ \A x \in States : q.obj[x] = IF x = s THEN o ELSE p.obj[x]
        /\ q \in Pool
    <3>1. p \in Pool
      BY DEF PoolOK
    <3> QED BY <1>1, <1>3, <2>2, <2>3, <3>1 DEF Released, Pool, o
  <2> HIDE DEF q
  <2>5. Live(q) = Live(p) /\ InUse(q) = InUse(p) \ {s}
    BY <1>1, <2>2, <2>4 DEF Live, InUse
  <2>6. /\ ~o.close
        /\ ~o.timedout
        /\ StateRequestsMax > 0 => o.request_count < StateRequestsMax
    BY <1>3, <2>0, <2>1, <2>2 DEF MustClose, AtMaximum, Object
  <2>7. HasTimeMax \/ HasTimeout => o.timer_set
    BY <1>3, <2>0, <2>2 DEF MustClose, PoolOK
  <2>8. ToSet(p.states) \subseteq States
    BY DEF PoolOK, Live
  <2>9. PoolOK(q)
    <3>1. ToSet(q.states) = Live(q) \ InUse(q)
      BY <1>1, <2>3, <2>4, <2>5 DEF PoolOK
    <3>2. \A x \in States : x \notin Live(q) => q.obj[x] = Freed
      BY <1>1, <2>4, <2>5 DEF PoolOK
    <3>3. \A x \in ToSet(q.states) : (x \in ToSet(p.states) /\ x # s) \/ x = s
      BY <1>1, <2>3, <2>4
    <3>4. ASSUME NEW x \in ToSet(q.states)
          PROVE  /\ ~q.obj[x].close
                 /\ ~q.obj[x].timedout
                 /\ StateRequestsMax > 0 => q.obj[x].request_count < StateRequestsMax
                 /\ HasTimeMax \/ HasTimeout => q.obj[x].timer_set
      <4>1. CASE x = s
        BY <4>1, <1>1, <2>4, <2>6, <2>7
      <4>2. CASE x # s
        BY <4>2, <3>3, <2>4, <2>8 DEF PoolOK
      <4> QED BY <4>1, <4>2
    <3>5. HasTimeMax => \A x \in InUse(q) : q.obj[x].timer_set \/ q.obj[x].timedout
      BY <2>4, <2>5 DEF PoolOK, InUse
    <3>6. InUse(q) \subseteq Live(q)
      BY <2>5 DEF PoolOK
    <3> QED BY <2>3, <2>4, <3>1, <3>2, <3>4, <3>5, <3>6 DEF PoolOK
  <2> QED BY <2>4, <2>5, <2>9 DEF Counted, q
<1> QED BY <1>2, <1>3

(* lws_acquire_state.                                                      *)
LEMMA AcquiredOK ==
    ASSUME NEW p, PoolOK(p), NEW s \in Acquirable(p)
    PROVE  /\ s \in States \ InUse(p)
           /\ PoolOK(Acquired(p, s))
           /\ InUse(Acquired(p, s)) = InUse(p) \cup {s}
           /\ Live(Acquired(p, s)) = Live(p) \cup {s}
           /\ Counted(p) => Counted(Acquired(p, s))
           /\ p.states # <<>> => Live(Acquired(p, s)) = Live(p)
<1>1. CASE p.states # <<>>
  <2>1. s = Head(p.states) /\ Acquired(p, s) = TakenIdle(p)
    BY <1>1 DEF Acquirable, Acquired
  <2>2. s \in Live(p)
    BY <1>1, <2>1, PoolFacts, TailInjective DEF PoolOK
  <2> QED BY <1>1, <2>1, <2>2, TakenIdleOK
<1>2. CASE p.states = <<>>
  <2>1. s \in States \ Live(p) /\ Acquired(p, s) = Created(p, s)
    BY <1>2 DEF Acquirable, Acquired
  <2>2. s \in States \ InUse(p)
    BY <2>1 DEF PoolOK
  <2> QED BY <1>2, <2>1, <2>2, CreatedOK
<1> QED BY <1>1, <1>2

(* lws_acquire_state and, when the task cannot be posted, at once          *)
(* lws_release_state.                                                      *)
LEMMA AcquiredReleasedOK ==
    ASSUME NEW p, PoolOK(p), NEW s \in Acquirable(p)
    PROVE  LET q == Released(Acquired(p, s), s)
           IN  /\ PoolOK(q)
               /\ InUse(q) = InUse(p)
               /\ Live(q) \subseteq Live(p) \cup {s}
               /\ p.states # <<>> => Live(q) \subseteq Live(p)
               /\ Counted(p) => Counted(q)
<1> DEFINE a == Acquired(p, s)
           q == Released(a, s)
<1>1. /\ s \in States \ InUse(p)
      /\ PoolOK(a)
      /\ InUse(a) = InUse(p) \cup {s}
      /\ Live(a) = Live(p) \cup {s}
      /\ Counted(p) => Counted(a)
      /\ p.states # <<>> => Live(a) = Live(p)
  BY AcquiredOK
<1>2. s \in InUse(a)
  BY <1>1
<1> HIDE DEF a
<1>3. /\ PoolOK(q)
      /\ InUse(q) = InUse(a) \ {s}
      /\ Live(q) \subseteq Live(a)
      /\ Counted(a) => Counted(q)
  BY <1>1, <1>2, ReleasedOK
<1> QED BY <1>1, <1>3 DEF a

(* lws_create_state when lws_init fails: all but the count stays right.    *)
LEMMA InitFailedOK ==
    ASSUME NEW p, PoolOK(p)
    PROVE  /\ PoolOK(InitFailed(p))
           /\ InUse(InitFailed(p)) = InUse(p)
           /\ Live(InitFailed(p)) = Live(p)
<1> DEFINE q == InitFailed(p)
<1>1. /\ q.states = p.states
      /\ q.obj = p.obj
      /\ q \in Pool
  <2>1. Minus(p.states_n, 1) \in 0 .. WORD - 1
    BY PoolFacts DEF Minus
  <2>2. p \in Pool
    BY DEF PoolOK
  <2> QED BY <2>1, <2>2 DEF InitFailed, Pool
<1> HIDE DEF q
<1>2. InUse(q) = InUse(p) /\ Live(q) = Live(p)
  BY <1>1 DEF InUse, Live
<1>3. PoolOK(q)
  BY <1>1, <1>2 DEF PoolOK
<1> QED BY <1>2, <1>3 DEF q

(* lws_setclose, or the end of lws_run_state after a Lua error.            *)
LEMMA DoomedOK ==
    ASSUME NEW p, PoolOK(p), NEW s \in InUse(p)
    PROVE  /\ PoolOK(Doomed(p, s))
           /\ Doomed(p, s).states = p.states
           /\ Doomed(p, s).states_n = p.states_n
           /\ InUse(Doomed(p, s)) = InUse(p)
           /\ Live(Doomed(p, s)) = Live(p)
<1> DEFINE q == Doomed(p, s)
           o == [p.obj[s] EXCEPT !.close = TRUE]
<1>1. s \in States /\ s \notin ToSet(p.states)
  BY DEF PoolOK, InUse
<1>2. p.obj[s] \in Object
  BY <1>1, PoolFacts
<1>3. /\ o \in Object
      /\ o.live = p.obj[s].live
      /\ o.in_use = p.obj[s].in_use
      /\ o.timer_set = p.obj[s].timer_set
      /\ o.timedout = p.obj[s].timedout
  BY <1>2 DEF Object
<1> HIDE DEF o
<1>4. /\ q.states = p.states
      /\ q.states_n = p.states_n
      /\ \A x \in States : q.obj[x] = IF x = s THEN o ELSE p.obj[x]
      /\ q \in Pool
  <2>1. p \in Pool
    BY DEF PoolOK
  <2> QED BY <1>1, <1>3, <2>1 DEF Doomed, Pool, o
<1> HIDE DEF q
<1>5. Live(q) = Live(p) /\ InUse(q) = InUse(p)
  BY <1>3, <1>4 DEF Live, InUse
<1>6. ToSet(p.states) \subseteq States
  BY DEF PoolOK, Live
<1>7. \A x \in States : x \notin Live(q) => q.obj[x] = Freed
  BY <1>1, <1>4, <1>5 DEF PoolOK
<1>8. HasTimeMax => \A x \in InUse(q) : q.obj[x].timer_set \/ q.obj[x].timedout
  BY <1>3, <1>4, <1>5 DEF PoolOK, InUse
<1>9. PoolOK(q)
  BY <1>1, <1>4, <1>5, <1>6, <1>7, <1>8 DEF PoolOK
<1> QED BY <1>4, <1>5, <1>9 DEF q

(* lws_state_timer_handler.                                                *)
LEMMA ExpiredOK ==
    ASSUME NEW p, PoolOK(p), NEW s \in States, p.obj[s].timer_set
    PROVE  /\ PoolOK(Expired(p, s))
           /\ InUse(Expired(p, s)) = InUse(p)
           /\ Live(Expired(p, s)) \subseteq Live(p)
           /\ ToSet(Expired(p, s).states) \subseteq ToSet(p.states)
           /\ p.states = <<>> => /\ Expired(p, s).states = <<>>
                                 /\ Expired(p, s).states_n = p.states_n
           /\ Counted(p) => Counted(Expired(p, s))
<1>0. s \in Live(p)
  BY DEF PoolOK, Freed
<1>1. CASE p.obj[s].in_use
  <2> DEFINE q == Expired(p, s)
             o == [p.obj[s] EXCEPT !.timer_set = FALSE, !.timedout = TRUE]
  <2>1. s \in InUse(p) /\ s \notin ToSet(p.states)
    BY <1>1 DEF PoolOK, InUse
  <2>2. p.obj[s] \in Object
    BY PoolFacts
  <2>3. /\ o \in Object
        /\ o.live = p.obj[s].live
        /\ o.in_use = p.obj[s].in_use
        /\ o.timedout
    BY <2>2 DEF Object
  <2> HIDE DEF o
  <2>4. /\ q.states = p.states
        /\ q.states_n = p.states_n
        /\ \A x \in States : q.obj[x] = IF x = s THEN o ELSE p.obj[x]
        /\ q \in Pool
    <3>1. p \in Pool
      BY DEF PoolOK
    <3> QED BY <1>1, <2>3, <3>1 DEF Expired, Pool, o
  <2> HIDE DEF q
  <2>5. Live(q) = Live(p) /\ InUse(q) = InUse(p)
    BY <2>3, <2>4 DEF Live, InUse
  <2>6. ToSet(p.states) \subseteq States
    BY DEF PoolOK, Live
  <2>7. \A x \in States : x \notin Live(q) => q.obj[x] = Freed
    BY <1>0, <2>4, <2>5 DEF PoolOK
  <2>8. HasTimeMax => \A x \in InUse(q) : q.obj[x].timer_set \/ q.obj[x].timedout
    BY <2>3, <2>4, <2>5 DEF PoolOK, InUse
  <2>9. PoolOK(q)
    BY <2>1, <2>4, <2>5, <2>6, <2>7, <2>8 DEF PoolOK
  <2> QED BY <2>4, <2>5, <2>9 DEF Counted, q
<1>2. CASE ~p.obj[s].in_use
  <2> DEFINE i == IdleAt(p, s)
             t == RemoveAt(p.states, i)
  <2>1. s \notin InUse(p) /\ s \in ToSet(p.states)
    BY <1>0, <1>2 DEF PoolOK, InUse
  <2>2. i \in 1 .. Len(p.states) /\ p.states[i] = s
    <3>1. \E j \in DOMAIN p.states : p.states[j] = s
      BY <2>1 DEF ToSet
    <3>2. DOMAIN p.states = 1 .. Len(p.states)
      BY PoolFacts, LenProperties
    <3> QED BY <3>1, <3>2 DEF IdleAt
  <2> HIDE DEF i
  <2>3. /\ t \in Seq(States)
        /\ IsInjective(t)
        /\ ToSet(t) = ToSet(p.states) \ {s}
    BY <2>2, PoolFacts, RemoveInjective DEF PoolOK
  <2>4. Expired(p, s) = Closed([p EXCEPT !.states = t], s)
    BY <1>2 DEF Expired, i
  <2> HIDE DEF t
  <2>5. InUse(p) \ {s} = InUse(p)
    BY <2>1
  <2> DEFINE q == Closed([p EXCEPT !.states = t], s)
  <2>6. /\ PoolOK(q)
        /\ q.states = t
        /\ InUse(q) = InUse(p) \ {s}
        /\ Live(q) = Live(p) \ {s}
        /\ Counted(p) => Counted(q)
    BY <1>0, <2>3, ClosedOK
  <2> HIDE DEF q
  <2>7. Expired(p, s) = q
    BY <2>4 DEF q
  <2>8. p.states # <<>>
    BY <2>1 DEF ToSet
  <2> QED BY <2>3, <2>5, <2>6, <2>7, <2>8
<1> QED BY <1>1, <1>2

(* lws_cleanup_loc_conf.                                                   *)
LEMMA EmptiedOK ==
    ASSUME NEW p, PoolOK(p)
    PROVE  /\ PoolOK(Emptied(p))
           /\ Emptied(p).states = <<>>
           /\ InUse(Emptied(p)) = InUse(p)
           /\ Live(Emptied(p)) = InUse(p)
           /\ Counted(p) => Counted(Emptied(p))
<1> DEFINE q == Emptied(p)
           k == Len(p.states)
<1>0. k \in Nat
  BY PoolFacts, LenProperties
<1>1. Cardinality(ToSet(p.states)) = k /\ IsFiniteSet(ToSet(p.states))
  BY PoolFacts, CardinalityInjective DEF PoolOK
<1>2. k <= Cardinality(Live(p))
  <2>1. ToSet(p.states) \in SUBSET Live(p)
    BY DEF PoolOK
  <2> QED BY <1>1, <2>1, PoolFacts, FS_Subset
<1>3. /\ q.states = <<>>
      /\ q.states_n = Minus(p.states_n, k)
      /\ \A x \in States : q.obj[x] = IF x \in ToSet(p.states) THEN Freed ELSE p.obj[x]
      /\ q \in Pool
  <2>1. Minus(p.states_n, k) \in 0 .. WORD - 1
    BY <1>0, <1>2, PoolFacts DEF Minus
  <2>2. p \in Pool /\ Freed \in Object /\ <<>> \in Seq(States)
    BY DEF PoolOK, Freed, Object
  <2>3. [s \in States |-> IF s \in ToSet(p.states) THEN Freed ELSE p.obj[s]]
           \in [States -> Object]
    BY <2>2, PoolFacts
  <2> HIDE DEF k
  <2> QED BY <2>1, <2>2, <2>3 DEF Emptied, Pool, k
<1> HIDE DEF q
<1>4. Live(q) = Live(p) \ ToSet(p.states) /\ InUse(q) = InUse(p)
  <2>1. \A x \in ToSet(p.states) : ~p.obj[x].in_use /\ x \in States
    BY DEF PoolOK, InUse, Live
  <2>2. ~Freed.live /\ ~Freed.in_use
    BY DEF Freed
  <2> QED BY <1>3, <2>1, <2>2 DEF Live, InUse
<1>5. Live(q) = InUse(p)
  BY <1>4 DEF PoolOK
<1>6. PoolOK(q)
  <2>1. ToSet(q.states) = {} /\ IsInjective(q.states)
    BY <1>3 DEF ToSet, IsInjective
  <2>2. \A x \in States : x \notin Live(q) => q.obj[x] = Freed
    BY <1>3, <1>4 DEF PoolOK
  <2>3. HasTimeMax => \A x \in InUse(q) : q.obj[x].timer_set \/ q.obj[x].timedout
    BY <1>3, <1>4 DEF PoolOK, InUse
  <2> QED BY <1>3, <1>4, <1>5, <2>1, <2>2, <2>3 DEF PoolOK
<1>7. ASSUME Counted(p)
      PROVE  Counted(q)
  <2>1. Cardinality(Live(q)) = Cardinality(Live(p)) - Cardinality(Live(p) \cap ToSet(p.states))
    BY <1>4, PoolFacts, FS_Difference
  <2>2. Live(p) \cap ToSet(p.states) = ToSet(p.states)
    BY DEF PoolOK
  <2>3. Minus(p.states_n, k) = p.states_n - k
    BY <1>0, <1>2, <1>7, PoolFacts DEF Minus, Counted
  <2> QED BY <1>1, <1>3, <1>7, <2>1, <2>2, <2>3 DEF Counted
<1> QED BY <1>3, <1>4, <1>5, <1>6, <1>7 DEF q

-------------------------------------------------------------------------------
(* The inductive invariant.  Beside the properties it says which requests  *)
(* have a task waiting; PoolOK adds that what is not live is blank, which  *)
(* is why a timer that expires belongs to a live object.                   *)

Owned == /\ \A r \in Active : ctxState[r] \in InUse(pool)
         /\ \A s \in InUse(pool) : \E r \in Active : ctxState[r] = s
         /\ \A r1, r2 \in Active : ctxState[r1] = ctxState[r2] => r1 = r2

TasksOK == /\ ToSet(tasks) = {r \in Requests : phase[r] = "posted"}
           /\ IsInjective(tasks)

IInv == /\ TypeOK
        /\ PoolOK(pool)
        /\ Owned
        /\ TasksOK
        /\ QueueCounted
        /\ NoLostWakeup

(* The part of TypeOK that a request's progress may change.                *)
RequestTypes == /\ phase \in [Requests -> Phase]
                /\ ctxState \in [Requests -> States \cup {NoState}]
                /\ tasks \in Seq(Requests)
                /\ hops \in Hops
                /\ reply \in [Requests -> {"none", "lua", "500", "503"}]

(* A request that is over leaves the others alone and is not active.       *)
LEMMA OverOK ==
    ASSUME RequestTypes, NEW r \in Requests,
           NEW code \in {"lua", "500", "503"}, Over(r, code)
    PROVE  /\ phase' \in [Requests -> Phase]
           /\ ctxState' \in [Requests -> States \cup {NoState}]
           /\ hops' \in Hops
           /\ reply' \in [Requests -> {"none", "lua", "500", "503"}]
           /\ phase'[r] \in {"answered", "new"}
           /\ \A x \in Requests \ {r} : /\ phase'[x] = phase[x]
                                        /\ ctxState'[x] = ctxState[x]
<1>1. hops' \in Hops
  <2>1. CASE UNCHANGED hops
    BY <2>1 DEF RequestTypes
  <2>2. CASE hops[r] < MaxHops[r] /\ hops' = [hops EXCEPT ![r] = @ + 1]
    <3>1. hops \in [Requests -> Nat] /\ \A x \in Requests : hops[x] <= MaxHops[x]
      BY DEF RequestTypes, Hops
    <3>2. MaxHops[r] \in Nat /\ hops[r] + 1 <= MaxHops[r]
      BY <2>2, <3>1, StatesAssumption
    <3> QED BY <2>2, <3>1, <3>2 DEF Hops
  <2> QED BY <2>1, <2>2 DEF Over
<1>2. \E v \in {"answered", "new"} : phase' = [phase EXCEPT ![r] = v]
  BY DEF Over
<1>3. /\ ctxState' = [ctxState EXCEPT ![r] = NoState]
      /\ reply' = [reply EXCEPT ![r] = code]
  BY DEF Over
<1> QED BY <1>1, <1>2, <1>3 DEF RequestTypes, Phase

(* lws_state_handler, for a new request or one just taken from the queue.  *)
LEMMA StateHandlerOK ==
    ASSUME RequestTypes, PoolOK(pool), Owned, TasksOK,
           NEW r \in Requests, phase[r] \in {"new", "queued"}, StateHandler(r)
    PROVE  /\ RequestTypes'
           /\ PoolOK(pool)'
           /\ Owned'
           /\ TasksOK'
           /\ phase'[r] \in {"posted", "answered", "new"}
           /\ \A x \in Requests \ {r} : phase'[x] = phase[x]
           /\ "init" \notin Failures /\ Counted(pool) => Counted(pool)'
<1>1. r \notin Active
  BY DEF Active
<1>2. ASSUME Over(r, "500"), UNCHANGED tasks, PoolOK(pool'), InUse(pool') = InUse(pool)
      PROVE  /\ RequestTypes'
             /\ Owned'
             /\ TasksOK'
             /\ phase'[r] \in {"posted", "answered", "new"}
             /\ \A x \in Requests \ {r} : phase'[x] = phase[x]
  <2>1. /\ phase' \in [Requests -> Phase]
        /\ ctxState' \in [Requests -> States \cup {NoState}]
        /\ hops' \in Hops
        /\ reply' \in [Requests -> {"none", "lua", "500", "503"}]
        /\ phase'[r] \in {"answered", "new"}
        /\ \A x \in Requests \ {r} : /\ phase'[x] = phase[x]
                                     /\ ctxState'[x] = ctxState[x]
    BY <1>2, OverOK
  <2>2. Active' = Active /\ \A x \in Active : ctxState'[x] = ctxState[x]
    BY <1>1, <2>1 DEF Active
  <2>3. Owned'
    BY <1>2, <2>2 DEF Owned
  <2>4. {x \in Requests : phase'[x] = "posted"} = {x \in Requests : phase[x] = "posted"}
    BY <1>1, <2>1 DEF Active
  <2>5. TasksOK'
    BY <1>2, <2>4 DEF TasksOK
  <2> QED BY <1>2, <2>1, <2>3, <2>5 DEF RequestTypes
<1>3. CASE AcquireFails(r)
  <2>1. pool' = pool \/ ("init" \in Failures /\ pool' = InitFailed(pool))
    BY <1>3 DEF AcquireFails
  <2>2. PoolOK(pool') /\ InUse(pool') = InUse(pool)
    BY <2>1, InitFailedOK
  <2>3. Over(r, "500") /\ UNCHANGED tasks
    BY <1>3 DEF AcquireFails
  <2> QED BY <1>2, <2>1, <2>2, <2>3
<1>4. CASE PostFails(r)
  <2>1. PICK s \in Acquirable(pool) : pool' = Released(Acquired(pool, s), s)
    BY <1>4 DEF PostFails
  <2>2. PoolOK(pool') /\ InUse(pool') = InUse(pool) /\ (Counted(pool) => Counted(pool'))
    BY <2>1, AcquiredReleasedOK
  <2>3. Over(r, "500") /\ UNCHANGED tasks
    BY <1>4 DEF PostFails
  <2> QED BY <1>2, <2>2, <2>3
<1>5. CASE Posted(r)
  <2>1. PICK s \in Acquirable(pool) : /\ pool' = Acquired(pool, s)
                                      /\ ctxState' = [ctxState EXCEPT ![r] = s]
    BY <1>5 DEF Posted
  <2>2. /\ s \in States \ InUse(pool)
        /\ PoolOK(pool')
        /\ InUse(pool') = InUse(pool) \cup {s}
        /\ Counted(pool) => Counted(pool')
    BY <2>1, AcquiredOK
  <2>3. /\ phase' = [phase EXCEPT ![r] = "posted"]
        /\ tasks' = Append(tasks, r)
        /\ UNCHANGED <<hops, reply>>
    BY <1>5 DEF Posted, PostedTasks
  <2>4. /\ phase' \in [Requests -> Phase]
        /\ ctxState' \in [Requests -> States \cup {NoState}]
        /\ phase'[r] = "posted"
        /\ ctxState'[r] = s
        /\ \A x \in Requests \ {r} : phase'[x] = phase[x] /\ ctxState'[x] = ctxState[x]
    BY <2>1, <2>2, <2>3 DEF RequestTypes, Phase
  <2>5. Active' = Active \cup {r} /\ \A x \in Active : ctxState'[x] = ctxState[x]
    BY <1>1, <2>4 DEF Active
  <2>6. Owned'
    BY <1>1, <2>2, <2>4, <2>5 DEF Owned
  <2>7. r \notin ToSet(tasks)
    BY DEF TasksOK
  <2>8. /\ tasks' \in Seq(Requests)
        /\ IsInjective(tasks')
        /\ ToSet(tasks') = ToSet(tasks) \cup {r}
    BY <2>3, <2>7, AppendInjectiveSeq DEF TasksOK, RequestTypes
  <2>9. TasksOK'
    BY <2>4, <2>8 DEF TasksOK
  <2> QED BY <2>2, <2>3, <2>4, <2>6, <2>8, <2>9 DEF RequestTypes
<1> QED BY <1>3, <1>4, <1>5 DEF StateHandler

(* The worker starts with no Lua state and no request.                     *)
LEMMA InitIInv == Init => IInv
<1> SUFFICES ASSUME Init
             PROVE  IInv
  OBVIOUS
<1>1. Freed \in Object /\ ~Freed.live /\ ~Freed.in_use
  BY DEF Freed, Object
<1>2. pool.states = <<>> /\ pool.states_n = 0 /\ pool.obj = [s \in States |-> Freed]
  BY DEF Init, NewPool
<1>3. /\ ToSet(<<>>) = {}
      /\ IsInjective(<<>>)
      /\ Len(<<>>) = 0
      /\ <<>> \in Seq(States)
      /\ <<>> \in Seq(Requests)
  BY DEF ToSet, IsInjective
<1>4. pool \in Pool
  <2>1. WORD \in Nat \ {0}
    <3>1. Cardinality(States) \in Nat /\ WORD \in Nat /\ Cardinality(States) < WORD
      BY StatesAssumption, FS_CardinalityType
    <3> QED BY <3>1
  <2> QED BY <1>1, <1>2, <1>3, <2>1 DEF Pool, Init, NewPool
<1>5. Live(pool) = {} /\ InUse(pool) = {}
  BY <1>1, <1>2 DEF Live, InUse
<1>6. PoolOK(pool)
  BY <1>2, <1>3, <1>4, <1>5 DEF PoolOK
<1>7. Active = {} /\ \A r \in Requests : phase[r] = "new"
  BY DEF Init, Active
<1>8. TypeOK
  <2>1. hops \in Hops
    BY StatesAssumption DEF Init, Hops
  <2> QED BY <1>3, <1>4, <2>1 DEF TypeOK, Init, Phase
<1>9. TasksOK /\ QueueCounted
  BY <1>3, <1>7, StatesAssumption DEF Init, TasksOK, QueueCounted
<1> QED BY <1>5, <1>6, <1>7, <1>8, <1>9 DEF IInv, Owned, NoLostWakeup, Init

(* A step of the request path keeps the queue as it counts itself.         *)
LEMMA QueueKept ==
    ASSUME TypeOK, QueueCounted, NEW r \in Requests, phase[r] # "queued",
           UNCHANGED <<requests, requests_n>>,
           phase' \in [Requests -> Phase], phase'[r] # "queued",
           \A x \in Requests \ {r} : phase'[x] = phase[x]
    PROVE  QueueCounted'
<1>1. {x \in Requests : phase'[x] = "queued"} = {x \in Requests : phase[x] = "queued"}
  OBVIOUS
<1> QED BY <1>1 DEF QueueCounted

(* Every handler keeps the invariant: one case per action.                 *)
LEMMA NextIInv == IInv /\ [Next]_vars => IInv'
<1> SUFFICES ASSUME IInv, [Next]_vars
             PROVE  IInv'
  OBVIOUS
<1>0. /\ TypeOK /\ RequestTypes /\ PoolOK(pool) /\ Owned
      /\ TasksOK /\ QueueCounted /\ NoLostWakeup
  BY DEF IInv, TypeOK, RequestTypes
<1>1. ASSUME NEW r \in Requests, BodyFails(r) \/ Abort(r)
      PROVE  IInv'
  <2>1. /\ phase[r] = "new"
        /\ \E c \in {"lua", "500", "503"} : Over(r, c)
        /\ UNCHANGED <<pc, pool, requests, requests_n, qev, tasks>>
    BY <1>1 DEF BodyFails, Abort, BodyHandlerCalled
  <2>2. /\ phase' \in [Requests -> Phase]
        /\ ctxState' \in [Requests -> States \cup {NoState}]
        /\ hops' \in Hops
        /\ reply' \in [Requests -> {"none", "lua", "500", "503"}]
        /\ phase'[r] \in {"answered", "new"}
        /\ \A x \in Requests \ {r} : phase'[x] = phase[x] /\ ctxState'[x] = ctxState[x]
    BY <1>0, <2>1, OverOK
  <2>3. Active' = Active /\ \A x \in Active : ctxState'[x] = ctxState[x]
    BY <2>1, <2>2 DEF Active
  <2>4. {x \in Requests : phase'[x] = "posted"} = {x \in Requests : phase[x] = "posted"}
    BY <2>1, <2>2
  <2>5. QueueCounted'
    BY <1>0, <2>1, <2>2, QueueKept
  <2>6. TypeOK'
    BY <1>0, <2>1, <2>2 DEF TypeOK
  <2>7. Owned' /\ TasksOK' /\ NoLostWakeup' /\ PoolOK(pool')
    BY <1>0, <2>1, <2>3, <2>4 DEF Owned, TasksOK, NoLostWakeup, CanProceed
  <2> QED BY <2>5, <2>6, <2>7 DEF IInv
<1>2. ASSUME NEW r \in Requests, Proceed(r)
      PROVE  IInv'
  <2>1. /\ phase[r] = "new"
        /\ CanProceed
        /\ StateHandler(r)
        /\ UNCHANGED <<pc, requests, requests_n, qev>>
    BY <1>2 DEF Proceed, BodyHandlerCalled
  <2>2. /\ RequestTypes'
        /\ PoolOK(pool)'
        /\ Owned'
        /\ TasksOK'
        /\ phase'[r] \in {"posted", "answered", "new"}
        /\ \A x \in Requests \ {r} : phase'[x] = phase[x]
    BY <1>0, <2>1, StateHandlerOK
  <2>3. QueueCounted'
    BY <1>0, <2>1, <2>2, QueueKept DEF RequestTypes
  <2>4. TypeOK'
    BY <1>0, <2>1, <2>2 DEF TypeOK, RequestTypes, PoolOK
  <2>5. NoLostWakeup'
    BY <1>0, <2>1 DEF NoLostWakeup
  <2> QED BY <2>2, <2>3, <2>4, <2>5 DEF IInv
<1>3. ASSUME NEW r \in Requests, Queue(r)
      PROVE  IInv'
  <2>1. /\ phase[r] = "new"
        /\ ~CanProceed
        /\ RequestsMax = 0 \/ requests_n < RequestsMax
        /\ requests_n' = requests_n + 1
        /\ requests' = Append(requests, r)
        /\ phase' = [phase EXCEPT ![r] = "queued"]
        /\ UNCHANGED <<pc, pool, qev, ctxState, tasks, hops, reply>>
    BY <1>3 DEF Queue, QueuedRequests, BodyHandlerCalled, HasRoom
  <2>2. /\ phase' \in [Requests -> Phase]
        /\ phase'[r] = "queued"
        /\ \A x \in Requests \ {r} : phase'[x] = phase[x]
    BY <1>0, <2>1 DEF TypeOK, Phase
  <2>3. r \notin ToSet(requests) /\ requests \in Seq(Requests) /\ IsInjective(requests)
    BY <1>0, <2>1 DEF QueueCounted, TypeOK
  <2>4. /\ requests' \in Seq(Requests)
        /\ Len(requests') = Len(requests) + 1
        /\ IsInjective(requests')
        /\ ToSet(requests') = ToSet(requests) \cup {r}
    BY <2>1, <2>3, AppendInjectiveSeq
  <2>5. QueueCounted'
    <3>1. ToSet(requests') = {x \in Requests : phase'[x] = "queued"}
      BY <1>0, <2>2, <2>4 DEF QueueCounted
    <3>2. RequestsMax > 0 => requests_n + 1 <= RequestsMax
      BY <1>0, <2>1, StatesAssumption DEF TypeOK
    <3>3. requests_n' = Len(requests')
      BY <1>0, <2>1, <2>4 DEF QueueCounted
    <3> QED BY <2>1, <2>4, <3>1, <3>2, <3>3 DEF QueueCounted
  <2>6. TypeOK'
    BY <1>0, <2>1, <2>2, <2>4 DEF TypeOK
  <2>7. Active' = Active
    BY <2>1, <2>2 DEF Active
  <2>8. {x \in Requests : phase'[x] = "posted"} = {x \in Requests : phase[x] = "posted"}
    BY <2>1, <2>2
  <2>9. Owned' /\ TasksOK' /\ NoLostWakeup' /\ PoolOK(pool')
    BY <1>0, <2>1, <2>7, <2>8 DEF Owned, TasksOK, NoLostWakeup, CanProceed
  <2> QED BY <2>5, <2>6, <2>9 DEF IInv
<1>4. ASSUME NEW r \in Requests, ThreadEnd(r)
      PROVE  IInv'
  <2>1. /\ phase[r] = "running"
        /\ phase' = [phase EXCEPT ![r] = "done"]
        /\ pool' = pool \/ pool' = Doomed(pool, ctxState[r])
        /\ UNCHANGED <<pc, requests, requests_n, qev, ctxState, tasks, hops, reply>>
    BY <1>4 DEF ThreadEnd
  <2>2. ctxState[r] \in InUse(pool)
    BY <1>0, <2>1 DEF Owned, Active
  <2>3. /\ PoolOK(pool')
        /\ pool'.states = pool.states
        /\ pool'.states_n = pool.states_n
        /\ InUse(pool') = InUse(pool)
    BY <1>0, <2>1, <2>2, DoomedOK
  <2>4. /\ phase' \in [Requests -> Phase]
        /\ phase'[r] = "done"
        /\ \A x \in Requests \ {r} : phase'[x] = phase[x]
    BY <1>0, <2>1 DEF TypeOK, Phase
  <2>5. QueueCounted'
    BY <1>0, <2>1, <2>4, QueueKept
  <2>6. Active' = Active
    BY <2>1, <2>4 DEF Active
  <2>7. {x \in Requests : phase'[x] = "posted"} = {x \in Requests : phase[x] = "posted"}
    BY <2>1, <2>4
  <2>8. Owned' /\ TasksOK' /\ NoLostWakeup'
    BY <1>0, <2>1, <2>3, <2>6, <2>7 DEF Owned, TasksOK, NoLostWakeup, CanProceed
  <2>9. TypeOK'
    BY <1>0, <2>1, <2>3, <2>4 DEF TypeOK, PoolOK
  <2> QED BY <2>3, <2>5, <2>8, <2>9 DEF IInv
<1>5. ASSUME NEW r \in Requests, Finalization(r)
      PROVE  IInv'
  <2>1. /\ phase[r] = "done"
        /\ pool' = Released(pool, ctxState[r])
        /\ qev' = (qev \/ requests # <<>>)
        /\ Over(r, "lua")
        /\ UNCHANGED <<pc, requests, requests_n, tasks>>
    BY <1>5 DEF Finalization, QueueEvent
  <2>2. r \in Active /\ ctxState[r] \in InUse(pool)
    BY <1>0, <2>1 DEF Owned, Active
  <2>3. PoolOK(pool') /\ InUse(pool') = InUse(pool) \ {ctxState[r]}
    BY <1>0, <2>1, <2>2, ReleasedOK
  <2>4. /\ phase' \in [Requests -> Phase]
        /\ ctxState' \in [Requests -> States \cup {NoState}]
        /\ hops' \in Hops
        /\ reply' \in [Requests -> {"none", "lua", "500", "503"}]
        /\ phase'[r] \in {"answered", "new"}
        /\ \A x \in Requests \ {r} : phase'[x] = phase[x] /\ ctxState'[x] = ctxState[x]
    BY <1>0, <2>1, OverOK
  <2>5. Active' = Active \ {r} /\ \A x \in Active' : ctxState'[x] = ctxState[x]
    BY <2>4 DEF Active
  <2>6. Owned'
    BY <1>0, <2>2, <2>3, <2>5 DEF Owned
  <2>7. {x \in Requests : phase'[x] = "posted"} = {x \in Requests : phase[x] = "posted"}
    BY <2>1, <2>4
  <2>8. TasksOK'
    BY <1>0, <2>1, <2>7 DEF TasksOK
  <2>9. QueueCounted'
    BY <1>0, <2>1, <2>4, QueueKept
  <2>10. qev' \in BOOLEAN
    BY <2>1
  <2>11. TypeOK'
    BY <1>0, <2>1, <2>3, <2>4, <2>10 DEF TypeOK, PoolOK
  <2>12. NoLostWakeup'
    BY <2>1 DEF NoLostWakeup
  <2> QED BY <2>3, <2>6, <2>8, <2>9, <2>11, <2>12 DEF IInv
<1>6. ASSUME NEW s \in States, StateTimer(s)
      PROVE  IInv'
  <2>1. /\ pool.obj[s].timer_set
        /\ pool' = Expired(pool, s)
        /\ UNCHANGED <<pc, requests, requests_n, qev, phase, ctxState, tasks, hops, reply>>
    BY <1>6 DEF StateTimer
  <2>2. /\ PoolOK(pool')
        /\ InUse(pool') = InUse(pool)
        /\ pool.states = <<>> => /\ pool'.states = <<>>
                                 /\ pool'.states_n = pool.states_n
    BY <1>0, <2>1, ExpiredOK
  <2>3. Active' = Active
    BY <2>1 DEF Active
  <2>4. Owned' /\ TasksOK' /\ QueueCounted'
    BY <1>0, <2>1, <2>2, <2>3 DEF Owned, TasksOK, QueueCounted
  <2>5. NoLostWakeup'
    BY <1>0, <2>1, <2>2 DEF NoLostWakeup, CanProceed
  <2>6. TypeOK'
    BY <1>0, <2>1, <2>2 DEF TypeOK, PoolOK
  <2> QED BY <2>2, <2>4, <2>5, <2>6 DEF IInv
<1>7. ASSUME QueueTimer \/ QueueDone
      PROVE  IInv'
  <2>1. UNCHANGED <<pool, requests, requests_n, phase, ctxState, tasks, hops, reply>>
    BY <1>7 DEF QueueTimer, QueueDone
  <2>2. pc' \in {"events", "draining"} /\ qev' \in BOOLEAN
    BY <1>0, <1>7 DEF QueueTimer, QueueDone, TypeOK
  <2>3. NoLostWakeup'
    BY <1>7, <2>1 DEF QueueTimer, QueueDone, NoLostWakeup, CanProceed
  <2>4. Active' = Active
    BY <2>1 DEF Active
  <2>5. Owned' /\ TasksOK' /\ QueueCounted' /\ PoolOK(pool')
    BY <1>0, <2>1, <2>4 DEF Owned, TasksOK, QueueCounted
  <2>6. TypeOK'
    BY <1>0, <2>1, <2>2 DEF TypeOK
  <2> QED BY <2>3, <2>5, <2>6 DEF IInv
<1>8. CASE QueueRound
  <2> DEFINE r == Head(requests)
  <2>1. /\ pc = "draining"
        /\ requests # <<>>
        /\ requests' = Tail(requests)
        /\ requests_n' = requests_n - 1
        /\ StateHandler(r)
        /\ UNCHANGED <<pc, qev>>
    BY <1>8 DEF QueueRound
  <2>2. /\ r \in Requests
        /\ r \in ToSet(requests)
        /\ requests' \in Seq(Requests)
        /\ Len(requests') = Len(requests) - 1
        /\ IsInjective(requests')
        /\ ToSet(requests') = ToSet(requests) \ {r}
    BY <1>0, <2>1, TailInjective DEF QueueCounted, TypeOK
  <2> HIDE DEF r
  <2>3. phase[r] = "queued"
    BY <1>0, <2>2 DEF QueueCounted
  <2>4. /\ RequestTypes'
        /\ PoolOK(pool)'
        /\ Owned'
        /\ TasksOK'
        /\ phase'[r] \in {"posted", "answered", "new"}
        /\ \A x \in Requests \ {r} : phase'[x] = phase[x]
    BY <1>0, <2>1, <2>2, <2>3, StateHandlerOK
  <2>5. QueueCounted' /\ requests_n' \in Nat
    <3>1. ToSet(requests') = {x \in Requests : phase'[x] = "queued"}
      BY <1>0, <2>2, <2>4 DEF QueueCounted
    <3>2. Len(requests') \in Nat /\ requests_n = Len(requests) /\ Len(requests) \in Nat
      BY <1>0, <2>2, LenProperties DEF QueueCounted, TypeOK
    <3>3. requests_n' = Len(requests') /\ (RequestsMax > 0 => requests_n' <= RequestsMax)
      BY <1>0, <2>1, <2>2, <3>2, StatesAssumption DEF QueueCounted
    <3> QED BY <2>2, <3>1, <3>2, <3>3 DEF QueueCounted
  <2>6. TypeOK'
    BY <1>0, <2>1, <2>2, <2>4, <2>5 DEF TypeOK, RequestTypes, PoolOK
  <2>7. NoLostWakeup'
    BY <2>1 DEF NoLostWakeup
  <2> QED BY <2>4, <2>5, <2>6, <2>7 DEF IInv
<1>9. CASE ThreadStart
  <2> DEFINE r == Head(tasks)
  <2>1. /\ tasks # <<>>
        /\ tasks' = Tail(tasks)
        /\ phase' = [phase EXCEPT ![r] = "running"]
        /\ UNCHANGED <<pc, pool, requests, requests_n, qev, ctxState, hops, reply>>
    BY <1>9 DEF ThreadStart
  <2>2. /\ r \in Requests
        /\ r \in ToSet(tasks)
        /\ tasks' \in Seq(Requests)
        /\ IsInjective(tasks')
        /\ ToSet(tasks') = ToSet(tasks) \ {r}
    BY <1>0, <2>1, TailInjective DEF TasksOK, TypeOK
  <2> HIDE DEF r
  <2>3. phase[r] = "posted"
    BY <1>0, <2>2 DEF TasksOK
  <2>4. /\ phase' \in [Requests -> Phase]
        /\ phase'[r] = "running"
        /\ \A x \in Requests \ {r} : phase'[x] = phase[x]
    BY <1>0, <2>1, <2>2 DEF TypeOK, Phase
  <2>5. QueueCounted'
    BY <1>0, <2>1, <2>2, <2>3, <2>4, QueueKept
  <2>6. TasksOK'
    BY <1>0, <2>2, <2>4 DEF TasksOK
  <2>7. Active' = Active
    BY <2>2, <2>3, <2>4 DEF Active
  <2>8. Owned' /\ NoLostWakeup' /\ PoolOK(pool')
    BY <1>0, <2>1, <2>7 DEF Owned, NoLostWakeup, CanProceed
  <2>9. TypeOK'
    BY <1>0, <2>1, <2>2, <2>4 DEF TypeOK
  <2> QED BY <2>5, <2>6, <2>8, <2>9 DEF IInv
<1>10. CASE Exit
  <2>1. /\ pc' = "exited"
        /\ pool' = Emptied(pool)
        /\ UNCHANGED <<requests, requests_n, qev, phase, ctxState, tasks, hops, reply>>
    BY <1>10 DEF Exit
  <2>2. PoolOK(pool') /\ InUse(pool') = InUse(pool)
    BY <1>0, <2>1, EmptiedOK
  <2>3. Active' = Active
    BY <2>1 DEF Active
  <2>4. Owned' /\ TasksOK' /\ QueueCounted' /\ NoLostWakeup'
    BY <1>0, <2>1, <2>2, <2>3 DEF Owned, TasksOK, QueueCounted, NoLostWakeup
  <2>5. TypeOK'
    BY <1>0, <2>1, <2>2 DEF TypeOK, PoolOK
  <2> QED BY <2>2, <2>4, <2>5 DEF IInv
<1>11. CASE UNCHANGED vars
  <2>1. Active' = Active
    BY <1>11 DEF Active, vars
  <2> QED BY <1>0, <1>11, <2>1
          DEF IInv, TypeOK, Owned, TasksOK, QueueCounted, NoLostWakeup, CanProceed, vars
<1> QED
  BY <1>1, <1>2, <1>3, <1>4, <1>5, <1>6, <1>7, <1>8, <1>9, <1>10, <1>11
     DEF Next, Handler, Exited

-------------------------------------------------------------------------------
(* Theorems.                                                               *)

(* The inductive invariant holds throughout.                               *)
THEOREM Invariant == Spec => []IInv
<1> QED BY InitIInv, NextIInv, PTL DEF Spec

(* Every variable keeps its type, whatever fails.                          *)
THEOREM TypeCorrect == Spec => []TypeOK
<1>1. IInv => TypeOK
  BY DEF IInv
<1> QED BY <1>1, Invariant, PTL

(* lws_acquire_state, lws_release_state, lws_close_state and the timer     *)
(* handler never let two requests share a Lua state, nor a request hold a  *)
(* closed or idle one, for any number of states, requests and threads and  *)
(* whatever fails.                                                         *)
THEOREM StatesAreExclusive == Spec => []ExclusiveUse
<1>1. IInv => ExclusiveUse
  BY DEF IInv, Owned, PoolOK, ExclusiveUse
<1> QED BY <1>1, Invariant, PTL

(* lws_release_state puts on the idle list, and lws_acquire_state finds    *)
(* there, only states that are due for nothing.                            *)
THEOREM IdleStatesReusable == Spec => []IdleReusable
<1>1. IInv => IdleReusable
  BY DEF IInv, PoolOK, IdleReusable
<1> QED BY <1>1, Invariant, PTL

(* lws_acquire_state never loses the maximum lifetime of a state.          *)
THEOREM LifetimesKept == Spec => []LifetimeKept
<1>1. IInv => LifetimeKept
  BY DEF IInv, PoolOK, LifetimeKept
<1> QED BY <1>1, Invariant, PTL

(* requests_n counts the queue of llcf->requests, within lws_requests_max. *)
THEOREM QueueIsCounted == Spec => []QueueCounted
<1>1. IInv => QueueCounted
  BY DEF IInv
<1> QED BY <1>1, Invariant, PTL

(* Whenever a queued request could run, the queue event is armed, although *)
(* lws_finalization_handler alone arms it.                                 *)
THEOREM NoWakeupIsLost == Spec => []NoLostWakeup
<1>1. IInv => NoLostWakeup
  BY DEF IInv
<1> QED BY <1>1, Invariant, PTL

-------------------------------------------------------------------------------
(* The number of states, provided lws_init does not fail: lws_create_state *)
(* then counts each state it hands out and lws_close_state counts only     *)
(* those.                                                                  *)

(* StatesCounted, its parts.                                               *)
CountHeld == pool.states_n = Cardinality(Live(pool))
BoundHeld == StatesMax > 0 => Cardinality(Live(pool)) <= StatesMax
CInv == IInv /\ CountHeld /\ BoundHeld

(* A step closes states or starts one below the limit.                     *)
LEMMA StateHandlerBounded ==
    ASSUME IInv, CountHeld, BoundHeld, "init" \notin Failures,
           NEW r \in Requests, CanProceed, StateHandler(r)
    PROVE  BoundHeld'
<1>0. /\ PoolOK(pool)
      /\ Counted(pool)
      /\ IsFiniteSet(Live(pool))
      /\ Cardinality(Live(pool)) \in Nat
      /\ StatesMax \in Nat
  BY PoolFacts, StatesAssumption DEF IInv, CountHeld, Counted
<1>1. /\ \A s \in Acquirable(pool) : pool.states # <<>> =>
            /\ Live(Acquired(pool, s)) = Live(pool)
            /\ Live(Released(Acquired(pool, s), s)) \subseteq Live(pool)
      /\ \A s \in Acquirable(pool) :
            /\ Live(Acquired(pool, s)) = Live(pool) \cup {s}
            /\ Live(Released(Acquired(pool, s), s)) \subseteq Live(pool) \cup {s}
  BY <1>0, AcquiredOK, AcquiredReleasedOK
<1>2. \/ Live(pool') \subseteq Live(pool)
      \/ /\ pool.states = <<>>
         /\ \E s \in States : Live(pool') \subseteq Live(pool) \cup {s}
  <2>1. CASE AcquireFails(r)
    BY <2>1 DEF AcquireFails
  <2>2. CASE PostFails(r)
    <3>1. PICK s \in Acquirable(pool) : pool' = Released(Acquired(pool, s), s)
      BY <2>2 DEF PostFails
    <3>2. s \in States
      BY <1>0, <3>1, AcquiredOK
    <3> QED BY <1>1, <3>1, <3>2
  <2>3. CASE Posted(r)
    <3>1. PICK s \in Acquirable(pool) : pool' = Acquired(pool, s)
      BY <2>3 DEF Posted
    <3>2. s \in States
      BY <1>0, <3>1, AcquiredOK
    <3> QED BY <1>1, <3>1, <3>2
  <2> QED BY <2>1, <2>2, <2>3 DEF StateHandler
<1>3. CASE Live(pool') \subseteq Live(pool)
  <2>1. Cardinality(Live(pool')) <= Cardinality(Live(pool)) /\ IsFiniteSet(Live(pool'))
    BY <1>0, <1>3, FS_Subset
  <2>2. Cardinality(Live(pool')) \in Nat
    BY <2>1, FS_CardinalityType
  <2> QED BY <1>0, <2>1, <2>2 DEF BoundHeld
<1>4. CASE pool.states = <<>> /\ \E s \in States : Live(pool') \subseteq Live(pool) \cup {s}
  <2>1. StatesMax > 0 => Cardinality(Live(pool)) < StatesMax
    BY <1>0, <1>4 DEF CanProceed, Counted
  <2>2. PICK s \in States : Live(pool') \subseteq Live(pool) \cup {s}
    BY <1>4
  <2>3. /\ IsFiniteSet(Live(pool) \cup {s})
        /\ Cardinality(Live(pool) \cup {s}) <= Cardinality(Live(pool)) + 1
        /\ Cardinality(Live(pool) \cup {s}) \in Nat
    <3>1. /\ IsFiniteSet(Live(pool) \cup {s})
          /\ Cardinality(Live(pool) \cup {s}) =
                IF s \in Live(pool) THEN Cardinality(Live(pool))
                                   ELSE Cardinality(Live(pool)) + 1
      BY <1>0, FS_AddElement
    <3> QED BY <1>0, <3>1
  <2>4. Cardinality(Live(pool')) <= Cardinality(Live(pool) \cup {s}) /\ IsFiniteSet(Live(pool'))
    BY <2>2, <2>3, FS_Subset
  <2>5. Cardinality(Live(pool')) \in Nat
    BY <2>4, FS_CardinalityType
  <2> QED BY <1>0, <2>1, <2>3, <2>4, <2>5 DEF BoundHeld
<1> QED BY <1>2, <1>3, <1>4

LEMMA NextCInv == "init" \notin Failures /\ CInv /\ [Next]_vars => CInv'
<1> SUFFICES ASSUME "init" \notin Failures, CInv, [Next]_vars
             PROVE  CInv'
  OBVIOUS
<1>0. /\ IInv /\ CountHeld /\ BoundHeld
      /\ RequestTypes /\ PoolOK(pool) /\ Owned /\ TasksOK /\ Counted(pool)
  BY DEF CInv, IInv, TypeOK, RequestTypes, CountHeld, Counted
<1>1. IInv'
  BY <1>0, NextIInv
<1>2. ASSUME Live(pool') \subseteq Live(pool)
      PROVE  BoundHeld'
  <2>1. IsFiniteSet(Live(pool)) /\ Cardinality(Live(pool)) \in Nat /\ StatesMax \in Nat
    BY <1>0, PoolFacts, StatesAssumption
  <2>2. Cardinality(Live(pool')) <= Cardinality(Live(pool)) /\ IsFiniteSet(Live(pool'))
    BY <1>2, <2>1, FS_Subset
  <2>3. Cardinality(Live(pool')) \in Nat
    BY <2>2, FS_CardinalityType
  <2> QED BY <1>0, <2>1, <2>2, <2>3 DEF BoundHeld
<1>3. CASE UNCHANGED pool
  BY <1>0, <1>1, <1>3 DEF CInv, CountHeld, BoundHeld
<1>4. ASSUME NEW r \in Requests, phase[r] \in {"new", "queued"}, CanProceed, StateHandler(r)
      PROVE  CInv'
  <2>1. Counted(pool')
    BY <1>0, <1>4, StateHandlerOK
  <2>2. BoundHeld'
    BY <1>0, <1>4, StateHandlerBounded
  <2> QED BY <1>1, <2>1, <2>2 DEF CInv, Counted, CountHeld
<1>5. ASSUME NEW r \in Requests, Proceed(r)
      PROVE  CInv'
  BY <1>4, <1>5 DEF Proceed, BodyHandlerCalled
<1>6. CASE QueueRound
  <2>1. Head(requests) \in Requests /\ phase[Head(requests)] = "queued"
    BY <1>0, <1>6, TailInjective DEF QueueRound, IInv, TypeOK, QueueCounted
  <2> QED BY <1>4, <1>6, <2>1 DEF QueueRound
<1>7. ASSUME NEW r \in Requests, ThreadEnd(r)
      PROVE  CInv'
  <2>1. pool' = pool \/ pool' = Doomed(pool, ctxState[r])
    BY <1>7 DEF ThreadEnd
  <2>2. ctxState[r] \in InUse(pool)
    BY <1>0, <1>7 DEF ThreadEnd, Owned, Active
  <2>3. pool'.states_n = pool.states_n /\ Live(pool') = Live(pool)
    BY <1>0, <2>1, <2>2, DoomedOK
  <2> QED BY <1>0, <1>1, <2>3 DEF CInv, CountHeld, BoundHeld
<1>8. ASSUME NEW r \in Requests, Finalization(r)
      PROVE  CInv'
  <2>1. pool' = Released(pool, ctxState[r]) /\ ctxState[r] \in InUse(pool)
    BY <1>0, <1>8 DEF Finalization, Owned, Active
  <2>2. Live(pool') \subseteq Live(pool) /\ Counted(pool')
    BY <1>0, <2>1, ReleasedOK
  <2> QED BY <1>1, <1>2, <2>2 DEF CInv, Counted, CountHeld
<1>9. ASSUME NEW s \in States, StateTimer(s)
      PROVE  CInv'
  <2>1. Live(pool') \subseteq Live(pool) /\ Counted(pool')
    BY <1>0, <1>9, ExpiredOK DEF StateTimer
  <2> QED BY <1>1, <1>2, <2>1 DEF CInv, Counted, CountHeld
<1>10. CASE Exit
  <2>1. Live(pool') = InUse(pool) /\ Counted(pool') /\ InUse(pool) \subseteq Live(pool)
    BY <1>0, <1>10, EmptiedOK DEF Exit, PoolOK
  <2> QED BY <1>1, <1>2, <2>1 DEF CInv, Counted, CountHeld
<1> QED
  BY <1>3, <1>5, <1>6, <1>7, <1>8, <1>9, <1>10
     DEF Next, Handler, BodyFails, Queue, Abort, QueueTimer, QueueDone, ThreadStart, Exited,
         vars

LEMMA InitCInv == Init => CInv
<1> SUFFICES ASSUME Init
             PROVE  CInv
  OBVIOUS
<1>1. IInv
  BY InitIInv
<1>2. Live(pool) = {} /\ pool.states_n = 0
  BY DEF Init, NewPool, Freed, Live
<1>3. Cardinality(Live(pool)) = 0
  BY <1>2, FS_EmptySet
<1> QED BY <1>1, <1>2, <1>3, StatesAssumption DEF CInv, CountHeld, BoundHeld

(* As long as lws_init does not fail, states_n is the number of Lua states *)
(* and their number stays within lws_states_max.                           *)
THEOREM StatesAreCounted ==
    "init" \notin Failures => (Spec => []StatesCounted)
<1> SUFFICES ASSUME "init" \notin Failures
             PROVE  Spec => []StatesCounted
  OBVIOUS
<1>1. CInv /\ [Next]_vars => CInv'
  BY NextCInv
<1>2. CInv => StatesCounted
  BY DEF CInv, CountHeld, BoundHeld, StatesCounted
<1> QED BY <1>1, <1>2, InitCInv, PTL DEF Spec

(* A queue that cannot move has a request whose finalization will move it. *)
THEOREM QueueCanMove == "init" \notin Failures => (Spec => []QueueHasWaker)
<1> SUFFICES ASSUME "init" \notin Failures
             PROVE  Spec => []QueueHasWaker
  OBVIOUS
<1>1. CInv /\ [Next]_vars => CInv'
  BY NextCInv
<1>2. CInv => QueueHasWaker
  <2> SUFFICES ASSUME CInv, pc = "events", requests # <<>>, ~qev
               PROVE  Active # {}
    BY DEF QueueHasWaker, CInv, IInv, TypeOK
  <2>1. /\ ~CanProceed
        /\ PoolOK(pool) /\ Owned
        /\ pool.states_n = Cardinality(Live(pool))
        /\ StatesMax \in Nat
    BY StatesAssumption DEF CInv, IInv, NoLostWakeup, CountHeld
  <2>2. pool.states = <<>> /\ Cardinality(Live(pool)) # 0
    BY <2>1, PoolFacts DEF CanProceed
  <2>3. Live(pool) # {}
    BY <2>2, FS_EmptySet
  <2>4. Live(pool) \subseteq InUse(pool)
    BY <2>1, <2>2 DEF PoolOK, ToSet
  <2> QED BY <2>1, <2>3, <2>4 DEF Owned
<1> QED BY <1>1, <1>2, InitCInv, PTL DEF Spec

(* A state marked for close, or expired, while a request runs in it is     *)
(* never put back on the idle list: lws_release_state closes it.           *)
THEOREM DoomedAreClosed == Spec => DoomedNeverIdle
<1> DEFINE Doom == \A s \in InUse(pool) : pool.obj[s].close \/ pool.obj[s].timedout
                                        => s \notin ToSet(pool'.states)
<1>1. ASSUME IInv, [Next]_vars
      PROVE  Doom \/ UNCHANGED vars
  <2>0. /\ PoolOK(pool) /\ Owned /\ RequestTypes
        /\ PoolOK(pool')
        /\ \A s \in InUse(pool) : s \notin ToSet(pool.states)
    BY <1>1, NextIInv DEF IInv, TypeOK, RequestTypes, PoolOK
  <2>1. ASSUME InUse(pool) \subseteq InUse(pool')
        PROVE  Doom
    BY <2>0, <2>1 DEF PoolOK
  <2>2. ASSUME NEW r \in Requests, StateHandler(r)
        PROVE  Doom
    <3>1. CASE AcquireFails(r)
      BY <2>0, <2>1, <3>1, InitFailedOK DEF AcquireFails
    <3>2. CASE PostFails(r)
      BY <2>0, <2>1, <3>2, AcquiredReleasedOK DEF PostFails
    <3>3. CASE Posted(r)
      BY <2>0, <2>1, <3>3, AcquiredOK DEF Posted
    <3> QED BY <2>2, <3>1, <3>2, <3>3 DEF StateHandler
  <2>3. ASSUME NEW r \in Requests, Handler(r)
        PROVE  Doom
    <3>1. CASE BodyFails(r) \/ Queue(r) \/ Abort(r)
      BY <2>1, <3>1 DEF BodyFails, Queue, Abort
    <3>2. CASE Proceed(r)
      BY <2>2, <3>2 DEF Proceed
    <3>3. CASE ThreadEnd(r)
      <4>1. pool' = pool \/ pool' = Doomed(pool, ctxState[r])
        BY <3>3 DEF ThreadEnd
      <4>2. ctxState[r] \in InUse(pool)
        BY <2>0, <3>3 DEF ThreadEnd, Owned, Active
      <4> QED BY <2>0, <2>1, <4>1, <4>2, DoomedOK
    <3>4. CASE Finalization(r)
      <4> DEFINE s == ctxState[r]
      <4>1. pool' = Released(pool, s) /\ s \in InUse(pool)
        BY <2>0, <3>4 DEF Finalization, Owned, Active
      <4> HIDE DEF s
      <4>2. InUse(pool') = InUse(pool) \ {s}
        BY <2>0, <4>1, ReleasedOK
      <4>3. \A x \in InUse(pool) \ {s} : x \notin ToSet(pool'.states)
        BY <2>0, <4>2 DEF PoolOK
      <4>4. ASSUME pool.obj[s].close \/ pool.obj[s].timedout
            PROVE  s \notin ToSet(pool'.states)
        <5>1. pool' = Closed(pool, s)
          BY <4>1, <4>4 DEF Released, MustClose
        <5>2. pool'.states = pool.states
          BY <2>0, <5>1 DEF Closed, PoolOK, Pool
        <5> QED BY <2>0, <4>1, <5>2
      <4> QED BY <4>3, <4>4
    <3> QED BY <2>3, <3>1, <3>2, <3>3, <3>4 DEF Handler
  <2>4. ASSUME NEW s \in States, StateTimer(s)
        PROVE  Doom
    BY <2>0, <2>1, <2>4, ExpiredOK DEF StateTimer
  <2>5. CASE QueueRound
    <3>1. Head(requests) \in Requests
      BY <1>1, <2>5, TailInjective DEF QueueRound, IInv, TypeOK, QueueCounted
    <3> QED BY <2>2, <2>5, <3>1 DEF QueueRound
  <2>6. CASE QueueTimer \/ QueueDone \/ ThreadStart
    BY <2>1, <2>6 DEF QueueTimer, QueueDone, ThreadStart
  <2>7. CASE Exit
    BY <2>0, <2>1, <2>7, EmptiedOK DEF Exit
  <2> QED BY <1>1, <2>3, <2>4, <2>5, <2>6, <2>7 DEF Next, Exited
<1>2. IInv /\ [Next]_vars => [Doom]_vars
  BY <1>1
<1> QED BY <1>2, Invariant, PTL DEF Spec, DoomedNeverIdle

-------------------------------------------------------------------------------
(* LwsStates implements LwsService: the pool of Lua states, its timers and *)
(* threads serve requests as the location promises, as long as lws_init    *)
(* does not fail.                                                          *)

(* A request holds a Lua state of its own, so as many requests are being   *)
(* served as states are in use.                                            *)
LEMMA ActiveCounted ==
    ASSUME PoolOK(pool), Owned
    PROVE  /\ Cardinality(Active) = Cardinality(InUse(pool))
           /\ Cardinality(Active) \in Nat
<1> DEFINE f == [r \in Active |-> ctxState[r]]
<1>1. f \in [Active -> InUse(pool)]
  BY DEF Owned
<1>2. \A a, b \in Active : f[a] = f[b] => a = b
  BY DEF Owned
<1>3. \A s \in InUse(pool) : \E r \in Active : f[r] = s
  BY DEF Owned
<1> HIDE DEF f
<1>4. f \in Bijection(Active, InUse(pool))
  BY <1>1, <1>2, <1>3 DEF Bijection, Injection, Surjection, IsInjective
<1>5. ExistsBijection(Active, InUse(pool))
  BY <1>4 DEF ExistsBijection
<1>6. IsFiniteSet(Active)
  <2>1. IsFiniteSet(Requests) /\ Active \in SUBSET Requests
    BY StatesAssumption DEF Active
  <2> QED BY <2>1, FS_Subset
<1>7. Cardinality(InUse(pool)) = Cardinality(Active)
  BY <1>5, <1>6, FS_Bijection
<1>8. Cardinality(Active) \in Nat
  BY <1>6, FS_CardinalityType
<1> QED BY <1>7, <1>8

(* The requests the service sees running.                                  *)
LEMMA RunningIsActive ==
    ASSUME phase \in [Requests -> Phase]
    PROVE  Service!Running = Active
<1>1. \A r \in Requests : ServiceStatus[r] = "running" <=>
                          phase[r] \in {"posted", "running", "done"}
  BY DEF ServiceStatus, StatusOf, Phase
<1> QED BY <1>1 DEF Service!Running, Active

(* The test of the handlers, on idle states and states_n, says exactly     *)
(* whether fewer than lws_states_max requests are being served.            *)
LEMMA SlotIffCanProceed == CInv => (CanProceed <=> Service!HasSlot)
<1> SUFFICES ASSUME CInv
             PROVE  CanProceed <=> Service!HasSlot
  OBVIOUS
<1>1. /\ PoolOK(pool) /\ Owned /\ TypeOK
      /\ pool.states_n = Cardinality(Live(pool))
      /\ StatesMax > 0 => Cardinality(Live(pool)) <= StatesMax
      /\ StatesMax \in Nat
  BY StatesAssumption DEF CInv, IInv, CountHeld, BoundHeld
<1>2. /\ Cardinality(Service!Running) = Cardinality(InUse(pool))
      /\ Cardinality(InUse(pool)) \in Nat
  BY <1>1, ActiveCounted, RunningIsActive DEF TypeOK
<1>3. IsFiniteSet(Live(pool)) /\ Cardinality(Live(pool)) \in Nat
  BY <1>1, PoolFacts
<1>4. Service!Cardinality(Service!Running) = Cardinality(Service!Running)
  BY DEF Service!Cardinality, Cardinality
<1>5. CASE pool.states = <<>>
  <2>1. ToSet(pool.states) = {}
    BY <1>5 DEF ToSet
  <2>2. InUse(pool) = Live(pool)
    BY <1>1, <2>1 DEF PoolOK
  <2> QED BY <1>1, <1>2, <1>3, <1>4, <1>5, <2>2 DEF CanProceed, Service!HasSlot
<1>6. CASE pool.states # <<>>
  <2>1. Head(pool.states) \in ToSet(pool.states)
    BY <1>1, <1>6, PoolFacts, TailInjective DEF PoolOK
  <2>2. InUse(pool) # Live(pool) /\ InUse(pool) \subseteq Live(pool)
    BY <1>1, <2>1 DEF PoolOK
  <2>3. /\ Cardinality(InUse(pool)) <= Cardinality(Live(pool))
        /\ Cardinality(InUse(pool)) # Cardinality(Live(pool))
    BY <1>3, <2>2, FS_Subset
  <2> QED BY <1>1, <1>2, <1>3, <1>4, <1>6, <2>3 DEF CanProceed, Service!HasSlot
<1> QED BY <1>5, <1>6

(* One request moves: how the service sees it.                             *)
LEMMA StatusMoves ==
    ASSUME NEW r \in Requests, NEW v \in Phase, phase \in [Requests -> Phase],
           phase' = [phase EXCEPT ![r] = v]
    PROVE  ServiceStatus' = [ServiceStatus EXCEPT ![r] = StatusOf(v)]
BY DEF ServiceStatus

LEMMA OverIsOver ==
    ASSUME NEW r \in Requests, NEW code, phase \in [Requests -> Phase], Over(r, code)
    PROVE  Service!Over(r, code)
<1>1. \/ phase' = [phase EXCEPT ![r] = "answered"]
      \/ phase' = [phase EXCEPT ![r] = "new"]
  BY DEF Over
<1>2. StatusOf("answered") = "answered" /\ StatusOf("new") = "new"
  BY DEF StatusOf
<1>3. \/ ServiceStatus' = [ServiceStatus EXCEPT ![r] = "answered"]
      \/ ServiceStatus' = [ServiceStatus EXCEPT ![r] = "new"]
  BY <1>1, <1>2, StatusMoves DEF Phase
<1>4. reply' = [reply EXCEPT ![r] = code]
  BY DEF Over
<1> QED BY <1>3, <1>4 DEF Service!Over

LEMMA InitImplements == Init => Service!Init
BY DEF Init, Service!Init, ServiceStatus, StatusOf

(* Every step of the location is a step of the service or none.            *)
LEMMA StepImplements == CInv /\ [Next]_vars => [Service!Next]_(Service!vars)
<1> SUFFICES ASSUME CInv, [Next]_vars
             PROVE  Service!Next \/ UNCHANGED Service!vars
  OBVIOUS
<1>0. /\ phase \in [Requests -> Phase]
      /\ requests \in Seq(Requests)
      /\ IsInjective(requests)
      /\ ToSet(requests) = {r \in Requests : phase[r] = "queued"}
      /\ requests_n = Len(requests)
      /\ ToSet(tasks) = {r \in Requests : phase[r] = "posted"}
      /\ tasks \in Seq(Requests)
      /\ IsInjective(tasks)
  BY DEF CInv, IInv, TypeOK, QueueCounted, TasksOK
<1>00. /\ StatusOf("new") = "new"
       /\ StatusOf("queued") = "waiting"
       /\ StatusOf("posted") = "running"
       /\ StatusOf("running") = "running"
       /\ StatusOf("done") = "running"
  BY DEF StatusOf
<1>1. CanProceed <=> Service!HasSlot
  BY SlotIffCanProceed
<1>2. HasRoom <=> Service!HasRoom
  BY <1>0 DEF HasRoom, Service!HasRoom
<1>3. \A r \in Requests : phase[r] = "new" => ServiceStatus[r] = "new"
  BY <1>00 DEF ServiceStatus
<1>4. ASSUME UNCHANGED <<phase, requests, reply>>
      PROVE  UNCHANGED Service!vars
  BY <1>4 DEF Service!vars, ServiceStatus
<1>5. ASSUME NEW r \in Requests, Handler(r)
      PROVE  Service!Next \/ UNCHANGED Service!vars
  <2>1. CASE BodyFails(r)
    <3>1. ServiceStatus[r] = "new" /\ Service!Over(r, "500") /\ UNCHANGED requests
      BY <1>0, <1>3, <2>1, OverIsOver DEF BodyFails, BodyHandlerCalled
    <3> QED BY <3>1 DEF Service!Fail, Service!Next
  <2>2. CASE Proceed(r)
    <3>1. ServiceStatus[r] = "new" /\ Service!HasSlot /\ UNCHANGED requests
      BY <1>1, <1>3, <2>2 DEF Proceed, BodyHandlerCalled
    <3>2. CASE AcquireFails(r) \/ PostFails(r)
      <4>1. Service!Over(r, "500")
        BY <1>0, <3>2, OverIsOver DEF AcquireFails, PostFails
      <4> QED BY <3>1, <4>1 DEF Service!Fail, Service!Next
    <3>3. CASE Posted(r)
      <4>1. phase' = [phase EXCEPT ![r] = "posted"] /\ UNCHANGED reply
        BY <3>3 DEF Posted
      <4>2. ServiceStatus' = [ServiceStatus EXCEPT ![r] = "running"]
        BY <1>0, <1>00, <4>1, StatusMoves DEF Phase
      <4> QED BY <3>1, <4>1, <4>2 DEF Service!Start, Service!Next
    <3> QED BY <2>2, <3>2, <3>3 DEF Proceed, StateHandler
  <2>3. CASE Queue(r)
    <3>1. /\ ServiceStatus[r] = "new"
          /\ ~Service!HasSlot
          /\ Service!HasRoom
          /\ requests' = Append(requests, r)
          /\ phase' = [phase EXCEPT ![r] = "queued"]
          /\ UNCHANGED reply
      BY <1>1, <1>2, <1>3, <2>3 DEF Queue, BodyHandlerCalled, QueuedRequests
    <3>2. ServiceStatus' = [ServiceStatus EXCEPT ![r] = "waiting"]
      BY <1>0, <1>00, <3>1, StatusMoves DEF Phase
    <3> QED BY <3>1, <3>2 DEF Service!Wait, Service!Next
  <2>4. CASE Abort(r)
    <3>1. /\ ServiceStatus[r] = "new"
          /\ ~Service!HasSlot
          /\ ~Service!HasRoom
          /\ Service!Over(r, "503")
          /\ UNCHANGED requests
      BY <1>0, <1>1, <1>2, <1>3, <2>4, OverIsOver DEF Abort, BodyHandlerCalled
    <3> QED BY <3>1 DEF Service!TurnAway, Service!Next
  <2>5. CASE ThreadEnd(r)
    <3>1. /\ phase[r] = "running"
          /\ phase' = [phase EXCEPT ![r] = "done"]
          /\ UNCHANGED <<requests, reply>>
      BY <2>5 DEF ThreadEnd
    <3>2. ServiceStatus' = [ServiceStatus EXCEPT ![r] = "running"]
      BY <1>0, <1>00, <3>1, StatusMoves DEF Phase
    <3>3. ServiceStatus[r] = "running"
      BY <1>00, <3>1 DEF ServiceStatus
    <3>4. ServiceStatus' = ServiceStatus
      BY <3>2, <3>3 DEF ServiceStatus
    <3> QED BY <3>1, <3>4 DEF Service!vars
  <2>6. CASE Finalization(r)
    <3>1. ServiceStatus[r] = "running" /\ Service!Over(r, "lua") /\ UNCHANGED requests
      BY <1>0, <1>00, <2>6, OverIsOver DEF Finalization, ServiceStatus
    <3> QED BY <3>1 DEF Service!Finish, Service!Next
  <2> QED BY <1>5, <2>1, <2>2, <2>3, <2>4, <2>5, <2>6 DEF Handler
<1>6. CASE QueueRound
  <2> DEFINE r == Head(requests)
  <2>1. /\ requests # <<>>
        /\ Service!HasSlot
        /\ requests' = Tail(requests)
        /\ StateHandler(r)
        /\ r \in Requests
    BY <1>0, <1>1, <1>6, TailInjective DEF QueueRound
  <2>2. CASE AcquireFails(r) \/ PostFails(r)
    <3>1. Service!Over(r, "500")
      BY <1>0, <2>1, <2>2, OverIsOver DEF AcquireFails, PostFails
    <3> QED BY <2>1, <3>1 DEF Service!StartOldest, Service!Next
  <2>3. CASE Posted(r)
    <3>1. phase' = [phase EXCEPT ![r] = "posted"] /\ UNCHANGED reply
      BY <2>3 DEF Posted
    <3>2. ServiceStatus' = [ServiceStatus EXCEPT ![r] = "running"]
      BY <1>0, <1>00, <2>1, <3>1, StatusMoves DEF Phase
    <3> QED BY <2>1, <3>1, <3>2 DEF Service!StartOldest, Service!Next
  <2> QED BY <2>1, <2>2, <2>3 DEF StateHandler
<1>7. CASE ThreadStart
  <2> DEFINE r == Head(tasks)
  <2>1. /\ phase' = [phase EXCEPT ![r] = "running"]
        /\ UNCHANGED <<requests, reply>>
        /\ r \in Requests
        /\ r \in ToSet(tasks)
    BY <1>0, <1>7, TailInjective DEF ThreadStart
  <2> HIDE DEF r
  <2>2. ServiceStatus' = [ServiceStatus EXCEPT ![r] = "running"]
    BY <1>0, <1>00, <2>1, StatusMoves DEF Phase
  <2>3. ServiceStatus[r] = "running"
    BY <1>0, <1>00, <2>1 DEF ServiceStatus
  <2>4. ServiceStatus' = ServiceStatus
    BY <2>2, <2>3 DEF ServiceStatus
  <2> QED BY <2>1, <2>4 DEF Service!vars
<1>8. CASE QueueTimer \/ QueueDone \/ Exit \/ Exited \/ UNCHANGED vars
  BY <1>4, <1>8 DEF QueueTimer, QueueDone, Exit, Exited, vars
<1>9. ASSUME NEW s \in States, StateTimer(s)
      PROVE  UNCHANGED Service!vars
  BY <1>4, <1>9 DEF StateTimer
<1> QED BY <1>5, <1>6, <1>7, <1>8, <1>9 DEF Next

(* lws_body_handler, lws_queue_handler, lws_state_handler and              *)
(* lws_finalization_handler together keep the promises of LwsService, for  *)
(* any number of requests, states and threads, any limits and timers.      *)
THEOREM Implements == "init" \notin Failures => (Spec => ImplementsService)
<1> SUFFICES ASSUME "init" \notin Failures
             PROVE  Spec => ImplementsService
  OBVIOUS
<1>1. CInv /\ [Next]_vars => CInv'
  BY NextCInv
<1> QED BY <1>1, InitCInv, InitImplements, StepImplements, PTL
        DEF Spec, ImplementsService, Service!Spec
===============================================================================
