--------------------------- MODULE LwsMonitorProofs ---------------------------
(***************************************************************************)
(* Proofs about LwsMonitor, for any number of workers, of memory blocks of *)
(* a Lua state and of POST requests, and for words of any width:           *)
(*                                                                         *)
(*   - the switch of the profiler is honest, and whenever it is turned, no *)
(*     Lua state keeps the hook of the profiler for the next request;      *)
(*   - the counters add up at every moment, modulo the word, to what the   *)
(*     workers hold and have lost in crashes;                              *)
(*   - the memory of each Lua state is accounted for, and within its limit.*)
(***************************************************************************)
EXTENDS LwsMonitor, SeqLemmas

(* The records are used by their fields only; what the counters hold does  *)
(* not matter here.                                                        *)
MonitorOK ==
    /\ DOMAIN monitor = {"states_n", "requests_n", "memory_used", "request_count", "profiler"}
    /\ monitor.profiler \in {0, 1, 2}

(* A POST request that is refused with a conflict has seen it.             *)
PostOK(p) ==
    /\ DOMAIN p = {"pairs", "status", "disabled", "enabled"}
    /\ p.disabled \in BOOLEAN /\ p.enabled \in BOOLEAN
    /\ p.status = 409 => IF Head(p.pairs).value = "0" THEN p.disabled ELSE p.enabled

(* It has seen the switch as it is now.                                    *)
Seen(p, profiler) == IF profiler = 0 THEN p.disabled ELSE p.enabled

(* Between the two tries to disable the profiler it is in the state that   *)
(* the second try is for, or has been disabled already.                    *)
Retrying(p, profiler) == /\ p.status = 0
                         /\ Head(p.pairs).value = "0"
                         /\ p.disabled \/ profiler = 2

(* The invariant of the switch.                                            *)
SwitchInv ==
    /\ MonitorOK
    /\ DOMAIN at = Workers
    /\ DOMAIN post = Workers
    /\ \A w \in Workers :
          /\ PostOK(post[w])
          /\ AtPost(w) => Seen(post[w], monitor.profiler)
          /\ at[w] = "retry" => Retrying(post[w], monitor.profiler)

(* The hook of a Lua state is set while a request runs that acquired it    *)
(* with the profiler on; after that only if the state will be closed.      *)
HookOK(s) ==
    /\ DOMAIN s = {"in_use", "blocks", "memory_used", "memory_monitor", "profiler", "close",
                   "hook", "ran"}
    /\ s.hook \in BOOLEAN
    /\ s.ran \in {"not yet", "runs", "ran"}
    /\ ~s.in_use => ~s.hook
    /\ s.ran = "not yet" => ~s.hook
    /\ s.ran = "runs" => (s.hook <=> s.profiler # 0)
    /\ s.ran = "ran" /\ ~s.close => ~s.hook

(* A state that is about to be reported is not marked for close.           *)
HookInv ==
    /\ DOMAIN at = Workers
    /\ DOMAIN state = Workers
    /\ \A w \in Workers :
          /\ state[w] # None => HookOK(state[w])
          /\ at[w] = "report" => /\ HookOK(state[w])
                                 /\ state[w].ran = "ran" /\ ~state[w].close

-------------------------------------------------------------------------------
(* The switch.                                                             *)

(* A POST request that just came has not been refused.                     *)
LEMMA NewPostOK == \A body : PostOK(NewPost(body)) /\ NewPost(body).status = 0
  BY DEF PostOK, NewPost

(* What a POST request sees of the switch it remembers.                    *)
LEMMA NotedOK ==
    ASSUME NEW p, NEW x, PostOK(p)
    PROVE  /\ PostOK(Noted(p, x)) /\ Seen(Noted(p, x), x)
           /\ Noted(p, x).pairs = p.pairs /\ Noted(p, x).status = p.status
           /\ p.disabled => Noted(p, x).disabled
           /\ p.enabled => Noted(p, x).enabled
           /\ x = 0 => Noted(p, x).disabled
<1> DEFINE q == Noted(p, x)
<1>1. /\ DOMAIN q = DOMAIN p /\ q.pairs = p.pairs /\ q.status = p.status
      /\ q.disabled = (p.disabled \/ x = 0)
      /\ q.enabled = (p.enabled \/ x # 0)
  BY DEF Noted, PostOK
<1> HIDE DEF q
<1>2. PostOK(q)
  BY <1>1 DEF PostOK
<1>3. Seen(q, x)
  BY <1>1 DEF Seen
<1>4. /\ p.disabled => q.disabled
      /\ p.enabled => q.enabled
      /\ x = 0 => q.disabled
  BY <1>1
<1> QED BY <1>1, <1>2, <1>3, <1>4 DEF q

(* Steps that leave the switch and the POST requests alone, but that a     *)
(* worker goes somewhere else than to a POST request.                      *)
LEMMA SwitchUntouched ==
    ASSUME SwitchInv, UNCHANGED post, MonitorOK', monitor'.profiler = monitor.profiler,
           DOMAIN at' = Workers,
           \A w \in Workers : at'[w] = at[w] \/ at'[w] \notin {"pair", "retry"}
    PROVE  SwitchInv'
  BY DEF SwitchInv, AtPost, PostOK, Seen, Retrying

(* Adding to a counter leaves the switch as it is.                         *)
LEMMA FetchAddOK ==
    ASSUME MonitorOK, NEW counter \in {"states_n", "requests_n", "memory_used", "request_count"},
           NEW d, FetchAdd(counter, d)
    PROVE  MonitorOK' /\ monitor'.profiler = monitor.profiler
  BY DEF MonitorOK, FetchAdd

(* A worker's handler counts, or does not, and goes elsewhere or nowhere.  *)
Counts == \/ UNCHANGED monitor
          \/ \E c \in {"states_n", "requests_n", "memory_used", "request_count"} :
                \E d : FetchAdd(c, d)

(* The other handlers do not go to where POST requests are.                *)
GoesElsewhere(w) == UNCHANGED at \/ \E n \in {"loop", "close", "report", "closed"} : Goto(w, n)

(* They do not.                                                            *)
LEMMA HandlerGoes ==
    ASSUME NEW w \in Workers, Handler(w)
    PROVE  UNCHANGED post /\ Counts /\ GoesElsewhere(w)
<1>1. CASE Queue(w)
  BY <1>1 DEF Queue, Counts, GoesElsewhere
<1>2. CASE Dequeue(w)
  BY <1>2 DEF Dequeue, Counts, GoesElsewhere
<1>3. CASE Acquire(w)
  BY <1>3 DEF Acquire, Counts, GoesElsewhere
<1>4. CASE FailToCreate(w)
  BY <1>4 DEF FailToCreate, Counts, GoesElsewhere, workerVars
<1>5. CASE Timeout(w)
  BY <1>5 DEF Timeout, Counts, GoesElsewhere
<1>6. CASE Release(w)
  <2>1. PICK due \in BOOLEAN : Goto(w, IF state[w].close \/ due THEN "close" ELSE "report")
    BY <1>6 DEF Release
  <2>2. Goto(w, "close") \/ Goto(w, "report")
    BY <2>1
  <2> QED BY <1>6, <2>2 DEF Release, Counts, GoesElsewhere
<1>7. CASE Report(w)
  BY <1>7 DEF Report, Counts, GoesElsewhere
<1>8. CASE Close(w)
  BY <1>8 DEF Close, Counts, GoesElsewhere
<1>9. CASE Closed(w)
  BY <1>9 DEF Closed, Counts, GoesElsewhere
<1> QED BY <1>1, <1>2, <1>3, <1>4, <1>5, <1>6, <1>7, <1>8, <1>9 DEF Handler

(* Steps other than those of POST requests leave the switch as it is.      *)
LEMMA HandlerSwitch ==
    ASSUME SwitchInv, NEW w \in Workers, Handler(w)
    PROVE  SwitchInv' /\ monitor'.profiler = monitor.profiler
<1>1. UNCHANGED post /\ Counts /\ GoesElsewhere(w)
  BY HandlerGoes
<1>2. MonitorOK' /\ monitor'.profiler = monitor.profiler
  <2>1. CASE UNCHANGED monitor
    BY <2>1 DEF SwitchInv, MonitorOK
  <2>2. CASE ~UNCHANGED monitor
    BY <1>1, <2>2, FetchAddOK DEF Counts, SwitchInv
  <2> QED BY <2>1, <2>2
<1>3. /\ DOMAIN at' = Workers
      /\ \A v \in Workers : at'[v] = at[v] \/ at'[v] \notin {"pair", "retry"}
  BY <1>1 DEF GoesElsewhere, Goto, SwitchInv
<1> QED BY <1>1, <1>2, <1>3, SwitchUntouched

(* The thread of a Lua state leaves the switch as it is.                   *)
LEMMA ThreadSwitch ==
    ASSUME SwitchInv, NEW w \in Workers, Thread(w) \/ UNCHANGED vars
    PROVE  SwitchInv' /\ monitor'.profiler = monitor.profiler
<1>1. UNCHANGED <<monitor, at, post>>
  BY DEF Thread, Reallocate, StartRun, EndRun, vars, workerVars
<1> QED BY <1>1 DEF SwitchInv, MonitorOK, PostOK, AtPost, Seen, Retrying

(* A crash forgets the POST request of the worker.                         *)
LEMMA CrashSwitch ==
    ASSUME SwitchInv, NEW w \in Workers, Crash(w)
    PROVE  SwitchInv' /\ monitor'.profiler = monitor.profiler
<1>1. /\ UNCHANGED monitor
      /\ post' = [post EXCEPT ![w] = NewPost(<<>>)]
      /\ at' = [at EXCEPT ![w] = "loop"]
  BY DEF Crash, NoPost, Goto
<1>2. PostOK(NewPost(<<>>))
  BY NewPostOK
<1> QED BY <1>1, <1>2 DEF SwitchInv, MonitorOK, PostOK, AtPost, Seen, Retrying

(* A pair is done, and the switch turned, or not.                          *)
LEMMA AppliesOK ==
    ASSUME SwitchInv, NEW w \in Workers, AtPost(w), post[w].status = 0,
           NEW x \in {0, 1, 2}, Applies(w, x),
           x = monitor.profiler \/ x = 0 \/ monitor.profiler = 0
    PROVE  SwitchInv' /\ monitor'.profiler = x
<1>1. /\ monitor' = [monitor EXCEPT !.profiler = x]
      /\ post' = NotedAll([post EXCEPT ![w].pairs = Tail(@)], x)
      /\ at' = [at EXCEPT ![w] = "pair"]
  BY DEF Applies, Goto
<1>2. MonitorOK' /\ monitor'.profiler = x
  BY <1>1 DEF MonitorOK, SwitchInv
<1>3. DOMAIN at' = Workers /\ DOMAIN post' = Workers
  BY <1>1 DEF SwitchInv, NotedAll
<1>4. ASSUME NEW v \in Workers
      PROVE  /\ PostOK(post'[v])
             /\ AtPost(v)' => Seen(post'[v], x)
             /\ at'[v] = "retry" => Retrying(post'[v], x)
  <2>1. CASE v = w
    <3> DEFINE p == [post[w] EXCEPT !.pairs = Tail(@)]
    <3>1. PostOK(p)
      BY DEF PostOK, SwitchInv
    <3>2. post'[v] = Noted(p, x) /\ at'[v] = "pair"
      BY <1>1, <2>1 DEF NotedAll, SwitchInv, AtPost
    <3> QED BY <3>1, <3>2, NotedOK
  <2>2. CASE v # w /\ AtPost(v)
    <3>1. post'[v] = Noted(post[v], x) /\ at'[v] = at[v]
      BY <1>1, <2>2 DEF NotedAll, SwitchInv
    <3>2. PostOK(post[v]) /\ (at[v] = "retry" => Retrying(post[v], monitor.profiler))
      BY DEF SwitchInv
    <3>3. PostOK(Noted(post[v], x)) /\ Seen(Noted(post[v], x), x)
      BY <3>2, NotedOK
    <3>4. at[v] = "retry" => Retrying(Noted(post[v], x), x)
      BY <3>2, NotedOK DEF Retrying
    <3> QED BY <3>1, <3>3, <3>4
  <2>3. CASE v # w /\ ~AtPost(v)
    <3>1. post'[v] = post[v] /\ at'[v] = at[v]
      BY <1>1, <2>3 DEF NotedAll, SwitchInv
    <3> QED BY <2>3, <3>1 DEF SwitchInv, AtPost
  <2> QED BY <2>1, <2>2, <2>3
<1> QED BY <1>2, <1>3, <1>4 DEF SwitchInv, AtPost

(* A pair is refused; with a conflict only if there was one.               *)
LEMMA RefusesOK ==
    ASSUME SwitchInv, NEW w \in Workers, AtPost(w), NEW status, Refuses(w, status),
           status = 409 => IF Head(post[w].pairs).value = "0" THEN post[w].disabled
                                                              ELSE post[w].enabled
    PROVE  SwitchInv' /\ monitor'.profiler = monitor.profiler
<1>1. /\ UNCHANGED monitor
      /\ post' = [post EXCEPT ![w].status = status]
      /\ at' = [at EXCEPT ![w] = "pair"]
  BY DEF Refuses, Goto
<1>2. PostOK([post[w] EXCEPT !.status = status])
  BY DEF SwitchInv, PostOK
<1>3. Seen([post[w] EXCEPT !.status = status], monitor.profiler)
  BY DEF SwitchInv, PostOK, Seen
<1> QED BY <1>1, <1>2, <1>3 DEF SwitchInv, MonitorOK, AtPost

(* A step of a POST request.                                               *)
LEMMA PostSwitch ==
    ASSUME SwitchInv, NEW w \in Workers, PostHandler(w)
    PROVE  /\ SwitchInv'
           /\ monitor'.profiler # monitor.profiler => 0 \in {monitor.profiler, monitor'.profiler}
<1>1. CASE Post(w)
  <2>1. PICK body \in setup.bodies :
            post' = [post EXCEPT ![w] = Noted(NewPost(body), monitor.profiler)]
    BY <1>1 DEF Post
  <2>2. UNCHANGED monitor /\ at' = [at EXCEPT ![w] = "pair"]
    BY <1>1 DEF Post, Goto
  <2>3. /\ PostOK(Noted(NewPost(body), monitor.profiler))
        /\ Seen(Noted(NewPost(body), monitor.profiler), monitor.profiler)
    BY NewPostOK, NotedOK
  <2> QED BY <2>1, <2>2, <2>3 DEF SwitchInv, MonitorOK, AtPost
<1>2. CASE Enable(w)
  <2>1. IsPair(w, "profiler", {"1", "2"}) /\ AtPost(w) /\ post[w].status = 0
    BY <1>2 DEF Enable, IsPair, AtPost
  <2>2. CASE Enabling(monitor.profiler)
    <3>1. PICK x \in {1, 2} : Applies(w, x)
      BY <1>2, <2>2 DEF Enable
    <3> QED BY <2>1, <2>2, <3>1, AppliesOK DEF Enabling
  <2>3. CASE ~Enabling(monitor.profiler)
    <3>1. Refuses(w, 409)
      BY <1>2, <2>3 DEF Enable
    <3>2. Head(post[w].pairs).value # "0" /\ post[w].enabled
      BY <2>1, <2>3 DEF IsPair, Enabling, SwitchInv, Seen
    <3> QED BY <2>1, <3>1, <3>2, RefusesOK
  <2> QED BY <2>2, <2>3
<1>3. CASE Disable(w)
  <2>1. IsPair(w, "profiler", {"0"}) /\ AtPost(w) /\ post[w].status = 0
    BY <1>3 DEF Disable, IsPair, AtPost
  <2>2. CASE monitor.profiler = 1
    BY <1>3, <2>1, <2>2, AppliesOK DEF Disable
  <2>3. CASE monitor.profiler # 1
    <3>1. UNCHANGED <<monitor, post>> /\ at' = [at EXCEPT ![w] = "retry"]
      BY <1>3, <2>3 DEF Disable, Goto
    <3>2. Retrying(post[w], monitor.profiler)
      BY <2>1, <2>3 DEF IsPair, Retrying, SwitchInv, MonitorOK, Seen
    <3> QED BY <2>1, <3>1, <3>2 DEF SwitchInv, MonitorOK, AtPost
  <2> QED BY <2>2, <2>3
<1>4. CASE Retry(w)
  <2>1. AtPost(w) /\ Retrying(post[w], monitor.profiler)
    BY <1>4 DEF Retry, AtPost, SwitchInv
  <2>2. CASE monitor.profiler = Retried
    <3>1. Applies(w, 0)
      BY <1>4, <2>2 DEF Retry
    <3> QED BY <2>1, <3>1, AppliesOK DEF Retrying
  <2>3. CASE monitor.profiler # Retried
    <3>1. Refuses(w, 409)
      BY <1>4, <2>3 DEF Retry
    <3>2. Head(post[w].pairs).value = "0" /\ post[w].disabled
      BY <2>1, <2>3 DEF Retrying, Retried
    <3> QED BY <2>1, <3>1, <3>2, RefusesOK
  <2> QED BY <2>2, <2>3
<1>5. CASE Other(w)
  <2>1. AtPost(w) /\ post[w].status = 0
    BY <1>5 DEF Other, IsPair, AtPost
  <2>2. Refuses(w, 400) \/ Applies(w, monitor.profiler)
    BY <1>5 DEF Other
  <2>3. CASE Refuses(w, 400)
    BY <2>1, <2>3, RefusesOK
  <2>4. CASE Applies(w, monitor.profiler)
    <3>1. monitor.profiler \in {0, 1, 2}
      BY DEF SwitchInv, MonitorOK
    <3> QED BY <2>1, <2>4, <3>1, AppliesOK
  <2> QED BY <2>2, <2>3, <2>4
<1>6. CASE Answer(w)
  <2>1. /\ UNCHANGED monitor
        /\ post' = [post EXCEPT ![w] = NewPost(<<>>)]
        /\ at' = [at EXCEPT ![w] = "loop"]
    BY <1>6 DEF Answer, NoPost, Goto
  <2>2. PostOK(NewPost(<<>>))
    BY NewPostOK
  <2> QED BY <2>1, <2>2 DEF SwitchInv, MonitorOK, PostOK, AtPost, Seen, Retrying
<1> QED BY <1>1, <1>2, <1>3, <1>4, <1>5, <1>6 DEF PostHandler

(* Every step keeps the invariant, and turns the switch properly.          *)
LEMMA NextSwitch ==
    ASSUME SwitchInv, [Next]_vars
    PROVE  /\ SwitchInv'
           /\ monitor'.profiler # monitor.profiler => 0 \in {monitor.profiler, monitor'.profiler}
<1>1. CASE UNCHANGED vars
  <2>1. UNCHANGED <<monitor, at, post>>
    BY <1>1 DEF vars, workerVars
  <2> QED BY <2>1 DEF SwitchInv, MonitorOK, PostOK, AtPost, Seen, Retrying
<1>2. ASSUME NEW w \in Workers, Handler(w) \/ PostHandler(w) \/ Thread(w) \/ Crash(w)
      PROVE  /\ SwitchInv'
             /\ monitor'.profiler # monitor.profiler => 0 \in {monitor.profiler, monitor'.profiler}
  BY <1>2, HandlerSwitch, PostSwitch, ThreadSwitch, CrashSwitch
<1> QED BY <1>1, <1>2 DEF Next

(* There are no POST requests at first.                                    *)
LEMMA InitSwitch == Init => SwitchInv
<1> SUFFICES ASSUME Init PROVE SwitchInv
  OBVIOUS
<1>1. MonitorOK
  BY DEF Init, NewMonitor, MonitorOK
<1>2. DOMAIN at = Workers /\ DOMAIN post = Workers
  BY DEF Init
<1>3. \A w \in Workers : PostOK(post[w]) /\ at[w] = "loop"
  BY NewPostOK DEF Init, NoPost
<1> QED BY <1>1, <1>2, <1>3 DEF SwitchInv, AtPost

(* The profiler is only ever turned between disabled and enabled, by       *)
(* however many POST requests at once, and one that is told of a conflict  *)
(* had one.                                                                *)
THEOREM SwitchIsHonest == Spec => SwitchHonest
<1>1. SwitchInv /\ [Next]_vars => SwitchInv'
  BY NextSwitch
<1>2. SwitchInv /\ [Next]_vars =>
        [/\ monitor'.profiler # monitor.profiler => 0 \in {monitor.profiler, monitor'.profiler}
         /\ \A w \in Workers : post'[w].status = 409 =>
               IF Head(post'[w].pairs).value = "0" THEN post'[w].disabled
                                                  ELSE post'[w].enabled]_vars
  BY NextSwitch DEF SwitchInv, PostOK
<1> QED BY InitSwitch, <1>1, <1>2, PTL DEF Spec, SwitchHonest

-------------------------------------------------------------------------------
(* The hook.                                                               *)

(* Steps that leave the Lua states alone.                                  *)
LEMMA StutterHook ==
    ASSUME HookInv, UNCHANGED state, DOMAIN at' = Workers,
           \A w \in Workers : at'[w] = at[w] \/ at'[w] # "report"
    PROVE  HookInv'
  BY DEF HookInv, HookOK

(* Steps that change one Lua state, and where its worker is.               *)
LEMMA OneState ==
    ASSUME HookInv, NEW w \in Workers, NEW s,
           state' = [state EXCEPT ![w] = s],
           s # None => HookOK(s),
           \/ UNCHANGED at
           \/ \E n : at' = [at EXCEPT ![w] = n],
           at'[w] = "report" => HookOK(s) /\ s.ran = "ran" /\ ~s.close
    PROVE  HookInv'
<1>1. DOMAIN at' = Workers /\ DOMAIN state' = Workers
  BY DEF HookInv
<1>2. ASSUME NEW v \in Workers
      PROVE  /\ state'[v] # None => HookOK(state'[v])
             /\ at'[v] = "report" => /\ HookOK(state'[v])
                                     /\ state'[v].ran = "ran" /\ ~state'[v].close
  <2>1. CASE v = w
    BY <2>1 DEF HookInv
  <2>2. CASE v # w
    BY <2>2 DEF HookInv
  <2> QED BY <2>1, <2>2
<1> QED BY <1>1, <1>2 DEF HookInv

(* The thread sets the hook and clears it, as the request was told.        *)
LEMMA ThreadHook ==
    ASSUME HookInv, NEW w \in Workers, Thread(w)
    PROVE  HookInv'
<1> DEFINE s == state[w]
<1>1. CASE Reallocate(w)
  <2>1. PICK b, nsize, used :
            state' = [state EXCEPT ![w].blocks[b] = nsize,
                                   ![w].memory_used = IF limited THEN used ELSE @]
    BY <1>1 DEF Reallocate
  <2>2. s # None /\ s.ran = "runs" /\ HookOK(s) /\ UNCHANGED at
    BY <1>1 DEF Reallocate, Runs, HookInv
  <2> DEFINE t == [s EXCEPT !.blocks[b] = nsize, !.memory_used = IF limited THEN used ELSE @]
  <2>3. state' = [state EXCEPT ![w] = t]
    BY <2>1 DEF HookInv
  <2>4. HookOK(t) /\ t.ran = "runs"
    BY <2>2 DEF HookOK
  <2>5. at[w] # "report"
    BY <2>2 DEF HookInv
  <2> HIDE DEF t
  <2> QED BY <2>2, <2>3, <2>4, <2>5, OneState
<1>2. CASE StartRun(w)
  <2> DEFINE t == [s EXCEPT !.ran = "runs", !.hook = s.profiler # 0]
  <2>1. s # None /\ s.in_use /\ s.ran = "not yet" /\ HookOK(s) /\ UNCHANGED at
    BY <1>2 DEF StartRun, HookInv
  <2>2. state' = [state EXCEPT ![w] = t]
    BY <1>2 DEF StartRun, HookInv
  <2>3. HookOK(t)
    BY <2>1 DEF HookOK
  <2>4. at[w] # "report"
    BY <2>1 DEF HookInv
  <2> HIDE DEF t
  <2> QED BY <2>1, <2>2, <2>3, <2>4, OneState
<1>3. CASE EndRun(w)
  <2>1. PICK failed \in BOOLEAN :
            state' = [state EXCEPT ![w].ran = "ran", ![w].close = failed,
                                   ![w].hook = IF ~failed /\ IsProfiled(s) THEN FALSE ELSE @]
    BY <1>3 DEF EndRun
  <2> DEFINE t == [s EXCEPT !.ran = "ran", !.close = failed,
                            !.hook = IF ~failed /\ IsProfiled(s) THEN FALSE ELSE @]
  <2>2. s # None /\ s.in_use /\ s.ran = "runs" /\ HookOK(s) /\ UNCHANGED at
    BY <1>3 DEF EndRun, Runs, HookInv
  <2>3. state' = [state EXCEPT ![w] = t]
    BY <2>1 DEF HookInv
  <2>4. HookOK(t)
    BY <2>2 DEF HookOK, IsProfiled
  <2>5. at[w] # "report"
    BY <2>2 DEF HookInv
  <2> HIDE DEF t
  <2> QED BY <2>2, <2>3, <2>4, <2>5, OneState
<1> QED BY <1>1, <1>2, <1>3 DEF Thread

(* A Lua state is released for the next request without the hook.          *)
LEMMA HandlerHook ==
    ASSUME HookInv, NEW w \in Workers, Handler(w)
    PROVE  HookInv'
<1> DEFINE s == state[w]
<1>1. CASE Queue(w) \/ Dequeue(w) \/ FailToCreate(w) \/ Timeout(w) \/ Close(w)
  <2>1. UNCHANGED state /\ (UNCHANGED at \/ \E n \in {"close", "closed"} : Goto(w, n))
    BY <1>1 DEF Queue, Dequeue, FailToCreate, Timeout, Close, workerVars
  <2>2. DOMAIN at' = Workers /\ \A v \in Workers : at'[v] = at[v] \/ at'[v] # "report"
    BY <2>1 DEF Goto, HookInv
  <2> QED BY <2>1, <2>2, StutterHook
<1>2. CASE Acquire(w)
  <2>1. UNCHANGED at /\ at[w] = "loop"
    BY <1>2 DEF Acquire
  <2>2. CASE s = None
    <3> DEFINE t == [NewState EXCEPT !.profiler = monitor.profiler]
    <3>1. state' = [state EXCEPT ![w] = t]
      BY <1>2, <2>2 DEF Acquire
    <3>2. HookOK(t)
      BY DEF HookOK, NewState
    <3> HIDE DEF t
    <3> QED BY <2>1, <3>1, <3>2, OneState
  <2>3. CASE s # None
    <3> DEFINE t == [s EXCEPT !.in_use = TRUE, !.ran = "not yet", !.profiler = monitor.profiler]
    <3>1. state' = [state EXCEPT ![w] = t] /\ ~s.in_use
      BY <1>2, <2>3 DEF Acquire, HookInv
    <3>2. HookOK(t)
      BY <2>3, <3>1 DEF HookOK, HookInv
    <3> HIDE DEF t
    <3> QED BY <2>1, <3>1, <3>2, OneState
  <2> QED BY <2>2, <2>3
<1>3. CASE Release(w)
  <2> DEFINE t == [s EXCEPT !.ran = "ran"]
  <2>1. PICK due \in BOOLEAN : Goto(w, IF s.close \/ due THEN "close" ELSE "report")
    BY <1>3 DEF Release
  <2>2. s # None /\ s.in_use /\ s.ran # "runs" /\ HookOK(s)
    BY <1>3 DEF Release, HookInv
  <2>3. state' = [state EXCEPT ![w] = t]
    BY <1>3 DEF Release, HookInv
  <2>4. HookOK(t)
    BY <2>2 DEF HookOK
  <2>5. t.close = s.close /\ t.ran = "ran"
    BY <2>2 DEF HookOK
  <2>6. at'[w] = "report" => ~s.close
    BY <2>1 DEF Goto, HookInv
  <2> HIDE DEF t
  <2> QED BY <2>1, <2>3, <2>4, <2>5, <2>6, OneState DEF Goto
<1>4. CASE Report(w)
  <2>1. PICK t \in Collected(s) : state' = [state EXCEPT ![w] = Reported(t)]
    BY <1>4 DEF Report
  <2>2. s.ran = "ran" /\ ~s.close /\ HookOK(s)
    BY <1>4 DEF Report, HookInv
  <2>3. HookOK(t) /\ t.ran = "ran" /\ ~t.close
    <3>1. \/ \E used : t = [s EXCEPT !.memory_used = used]
          \/ \E blocks, used : t = [s EXCEPT !.blocks = blocks, !.memory_used = used]
      BY <2>1 DEF Collected
    <3> QED BY <2>2, <3>1 DEF HookOK
  <2>4. HookOK(Reported(t))
    BY <2>3 DEF HookOK, Reported
  <2>5. at' = [at EXCEPT ![w] = "loop"]
    BY <1>4 DEF Report, Goto
  <2>6. at'[w] # "report"
    BY <2>5 DEF HookInv
  <2> QED BY <2>1, <2>4, <2>5, <2>6, OneState
<1>5. CASE Closed(w)
  <2>1. state' = [state EXCEPT ![w] = None] /\ at' = [at EXCEPT ![w] = "loop"]
    BY <1>5 DEF Closed, Goto
  <2>2. at'[w] # "report"
    BY <2>1 DEF HookInv
  <2> QED BY <2>1, <2>2, OneState
<1> QED BY <1>1, <1>2, <1>3, <1>4, <1>5 DEF Handler

(* Turning the switch does nothing to the Lua states.                      *)
LEMMA PostHook ==
    ASSUME HookInv, NEW w \in Workers, PostHandler(w)
    PROVE  HookInv'
<1>1. UNCHANGED state /\ \E n \in {"loop", "pair", "retry"} : Goto(w, n)
  BY DEF PostHandler, Post, Enable, Disable, Retry, Other, Answer, Applies, Refuses, postRest
<1>2. DOMAIN at' = Workers /\ \A v \in Workers : at'[v] = at[v] \/ at'[v] # "report"
  BY <1>1 DEF Goto, HookInv
<1> QED BY <1>1, <1>2, StutterHook

(* Every step keeps the invariant.                                         *)
LEMMA NextHook == HookInv /\ [Next]_vars => HookInv'
<1> SUFFICES ASSUME HookInv, [Next]_vars PROVE HookInv'
  OBVIOUS
<1>1. CASE UNCHANGED vars
  BY <1>1 DEF vars, workerVars, HookInv, HookOK
<1>2. ASSUME NEW w \in Workers, Crash(w) PROVE HookInv'
  <2>1. state' = [state EXCEPT ![w] = None] /\ at' = [at EXCEPT ![w] = "loop"]
    BY <1>2 DEF Crash, Goto
  <2>2. at'[w] # "report"
    BY <2>1 DEF HookInv
  <2> QED BY <2>1, <2>2, OneState
<1> QED BY <1>1, <1>2, HandlerHook, PostHook, ThreadHook DEF Next

(* A state that is free to serve the next request has no hook of the       *)
(* profiler left, whenever the switch is turned.                           *)
THEOREM HookIsCleared == Spec => []HookCleared
<1>1. Init => HookInv
  BY DEF Init, HookInv
<1>2. HookInv => HookCleared
  BY DEF HookInv, HookOK, HookCleared
<1> QED BY <1>1, <1>2, NextHook, PTL DEF Spec

-------------------------------------------------------------------------------
(* Sums.                                                                   *)

(* Induction over the subsets of a finite set, where the set P stands for  *)
(* what is to be shown of them.                                            *)
LEMMA SubsetInduction ==
    ASSUME NEW D, IsFiniteSet(D), NEW P,
           \A s \in SUBSET D : (\A t \in SUBSET s : t # s => t \in P) => s \in P
    PROVE  \A s \in SUBSET D : s \in P
<1> DEFINE Bad == {s \in SUBSET D : s \notin P}
           T == {Cardinality(s) : s \in Bad}
<1> SUFFICES ASSUME Bad # {}
             PROVE  FALSE
  OBVIOUS
<1>1. \A s \in SUBSET D : IsFiniteSet(s) /\ Cardinality(s) \in Nat
  BY FS_Subset, FS_CardinalityType
<1>2. T \subseteq Nat /\ T # {}
  BY <1>1
<1>3. PICK n \in T : \A m \in T : n <= m
  <2> HIDE DEF T
  <2> QED BY <1>2, LeastNatural
<1>4. PICK s \in Bad : Cardinality(s) = n
  OBVIOUS
<1>5. ASSUME NEW t \in SUBSET s, t # s
      PROVE  t \in P
  <2>1. Cardinality(t) < Cardinality(s)
    BY <1>1, <1>5, FS_Subset
  <2>2. Cardinality(t) \in Nat /\ Cardinality(s) \in Nat
    BY <1>1
  <2>3. t \notin P => Cardinality(t) \in T
    OBVIOUS
  <2> QED BY <2>1, <2>2, <2>3, <1>3, <1>4
<1> QED BY <1>4, <1>5

(* The element that a fold takes next, and what a fold is that adds up.    *)
Picked(s) == CHOOSE x \in s : TRUE

Adding(f, it, s) == IF s = {} THEN 0 ELSE f[Picked(s)] + it[s \ {Picked(s)}]

AddsUp(f, it) == it = [s \in SUBSET DOMAIN f |-> Adding(f, it, s)]

(* The sum of f over the set s.                                            *)
Part(f, s) == (CHOOSE it : AddsUp(f, it))[s]

(* A sum is that over the whole domain.                                    *)
LEMMA TotalIsPart == \A f : Total(f) = Part(f, DOMAIN f)
  BY Zenon DEF Total, FoldFunction, FoldFunctionOnSet, MapThenFoldSet, Part, AddsUp, Adding, Picked

(* It is one of the elements.                                              *)
LEMMA PickedIn == \A s : s # {} => Picked(s) \in s
  BY Zenon DEF Picked

(* The sums of a finite function exist.                                    *)
LEMMA SumsExist ==
    ASSUME NEW f, IsFiniteSet(DOMAIN f)
    PROVE  \E it : AddsUp(f, it)
<1> DEFINE D == DOMAIN f
           L(n) == {s \in SUBSET D : Cardinality(s) <= n}
           Eq(it, n) == it = [s \in L(n) |-> Adding(f, it, s)]
<1>1. \A s \in SUBSET D : IsFiniteSet(s) /\ Cardinality(s) \in Nat
  BY FS_Subset, FS_CardinalityType
<1>2. \A s \in SUBSET D : s # {} => /\ s \ {Picked(s)} \in SUBSET D
                                    /\ Cardinality(s \ {Picked(s)}) = Cardinality(s) - 1
  BY <1>1, PickedIn, FS_RemoveElement
<1>3. \E it : Eq(it, 0)
  <2>1. L(0) = {{}}
    BY <1>1, FS_EmptySet
  <2>2. Eq([s \in L(0) |-> 0], 0)
    BY <2>1 DEF Adding
  <2> QED BY <2>2
<1>4. ASSUME NEW n \in Nat, NEW it, Eq(it, n)
      PROVE  \E jt : Eq(jt, n + 1)
  <2> DEFINE jt == [s \in L(n + 1) |-> Adding(f, it, s)]
  <2>1. \A s \in L(n + 1) : s # {} => s \ {Picked(s)} \in L(n)
    BY <1>1, <1>2
  <2>2. \A s \in L(n) : jt[s] = it[s]
    BY <1>1, <1>4
  <2>3. \A s \in L(n + 1) : Adding(f, jt, s) = Adding(f, it, s)
    <3> HIDE DEF jt, L
    <3> QED BY <2>1, <2>2 DEF Adding
  <2>4. Eq(jt, n + 1)
    <3>1. jt = [s \in L(n + 1) |-> Adding(f, it, s)]
      OBVIOUS
    <3> HIDE DEF jt, L
    <3> QED BY <2>3, <3>1
  <2> QED BY <2>4
<1> HIDE DEF Eq
<1>5. ASSUME NEW n \in Nat
      PROVE  \E it : Eq(it, n)
  <2> DEFINE T == {m \in Nat : ~\E it : Eq(it, m)}
  <2> SUFFICES ASSUME T # {}
               PROVE  FALSE
    OBVIOUS
  <2>1. PICK m \in T : \A k \in T : m <= k
    <3>1. T \subseteq Nat
      OBVIOUS
    <3> HIDE DEF T
    <3> QED BY <3>1, LeastNatural
  <2>2. m \in Nat /\ m # 0
    BY <1>3
  <2>3. m - 1 \in Nat /\ m - 1 \notin T /\ (m - 1) + 1 = m
    BY <2>1, <2>2
  <2>4. PICK it : Eq(it, m - 1)
    BY <2>3
  <2> QED BY <2>3, <2>4, <1>4
<1>6. PICK it : Eq(it, Cardinality(D))
  BY <1>1, <1>5
<1>7. L(Cardinality(D)) = SUBSET D
  BY <1>1, FS_Subset
<1>8. AddsUp(f, it)
  <2>1. it = [s \in L(Cardinality(D)) |-> Adding(f, it, s)]
    BY <1>6 DEF Eq
  <2> HIDE DEF L
  <2> QED BY <2>1, <1>7 DEF AddsUp
<1> QED BY <1>8

(* How a sum is made.                                                      *)
LEMMA PartSteps ==
    ASSUME NEW f, IsFiniteSet(DOMAIN f)
    PROVE  /\ Part(f, {}) = 0
           /\ \A s \in SUBSET DOMAIN f :
                 s # {} => /\ Picked(s) \in s
                           /\ Part(f, s) = f[Picked(s)] + Part(f, s \ {Picked(s)})
<1> DEFINE it == CHOOSE i : AddsUp(f, i)
<1>1. AddsUp(f, it)
  BY SumsExist, Zenon
<1>2. \A s : Part(f, s) = it[s]
  BY DEF Part
<1> HIDE DEF it
<1>3. \A s \in SUBSET DOMAIN f : it[s] = Adding(f, it, s)
  BY <1>1 DEF AddsUp
<1>4. {} \in SUBSET DOMAIN f
  OBVIOUS
<1> QED BY <1>2, <1>3, <1>4, PickedIn DEF Adding

(* Sums of integers are integers, and ...                                  *)
LEMMA PartInt ==
    ASSUME NEW D, IsFiniteSet(D), NEW f \in [D -> Int]
    PROVE  \A s \in SUBSET D : Part(f, s) \in Int
<1> DEFINE P == {s \in SUBSET D : Part(f, s) \in Int}
<1>1. ASSUME NEW s \in SUBSET D, \A t \in SUBSET s : t # s => t \in P
      PROVE  s \in P
  <2>1. CASE s = {}
    BY <2>1, PartSteps
  <2>2. CASE s # {}
    <3>1. Picked(s) \in s /\ Part(f, s) = f[Picked(s)] + Part(f, s \ {Picked(s)})
      BY <2>2, PartSteps
    <3>2. s \ {Picked(s)} \in P
      BY <3>1, <1>1
    <3> QED BY <3>1, <3>2
  <2> QED BY <2>1, <2>2
<1>2. \A s \in SUBSET D : s \in P
  <2> HIDE DEF P
  <2> QED BY <1>1, SubsetInduction
<1> QED BY <1>2

(* ... those of natural numbers natural numbers.                           *)
LEMMA PartNat ==
    ASSUME NEW D, IsFiniteSet(D), NEW f \in [D -> Nat]
    PROVE  \A s \in SUBSET D : Part(f, s) \in Nat
<1> DEFINE P == {s \in SUBSET D : Part(f, s) \in Nat}
<1>1. ASSUME NEW s \in SUBSET D, \A t \in SUBSET s : t # s => t \in P
      PROVE  s \in P
  <2>1. CASE s = {}
    BY <2>1, PartSteps
  <2>2. CASE s # {}
    <3>1. Picked(s) \in s /\ Part(f, s) = f[Picked(s)] + Part(f, s \ {Picked(s)})
      BY <2>2, PartSteps
    <3>2. s \ {Picked(s)} \in P
      BY <3>1, <1>1
    <3> QED BY <3>1, <3>2
  <2> QED BY <2>1, <2>2
<1>2. \A s \in SUBSET D : s \in P
  <2> HIDE DEF P
  <2> QED BY <1>1, SubsetInduction
<1> QED BY <1>2

(* Any element may be taken first.                                         *)
LEMMA PartTake ==
    ASSUME NEW D, IsFiniteSet(D), NEW f \in [D -> Int]
    PROVE  \A s \in SUBSET D : \A w \in s : Part(f, s) = f[w] + Part(f, s \ {w})
<1> DEFINE Takes(s) == \A w \in s : Part(f, s) = f[w] + Part(f, s \ {w})
           P == {s \in SUBSET D : Takes(s)}
<1>1. ASSUME NEW s \in SUBSET D, \A t \in SUBSET s : t # s => t \in P, NEW w \in s
      PROVE  Part(f, s) = f[w] + Part(f, s \ {w})
  <2> DEFINE x == Picked(s)
  <2>1. x \in s /\ Part(f, s) = f[x] + Part(f, s \ {x})
    BY PartSteps
  <2> HIDE DEF x
  <2>2. CASE w = x
    BY <2>1, <2>2
  <2>3. CASE w # x
    <3> DEFINE r == (s \ {x}) \ {w}
    <3>1. s \ {x} \in P /\ w \in s \ {x}
      BY <2>1, <2>3, <1>1
    <3>2. s \ {w} \in P /\ x \in s \ {w}
      BY <2>1, <2>3, <1>1
    <3>3. (s \ {w}) \ {x} = r
      OBVIOUS
    <3>4. Part(f, s \ {x}) = f[w] + Part(f, r)
      BY <3>1
    <3>5. Part(f, s \ {w}) = f[x] + Part(f, r)
      BY <3>2, <3>3
    <3>6. Part(f, r) \in Int /\ f[x] \in Int /\ f[w] \in Int
      BY <2>1, PartInt
    <3> QED BY <2>1, <3>4, <3>5, <3>6
  <2> QED BY <2>2, <2>3
<1>2. \A s \in SUBSET D : s \in P
  <2>1. \A s \in SUBSET D : (\A t \in SUBSET s : t # s => t \in P) => s \in P
    BY <1>1
  <2> HIDE DEF P
  <2> QED BY <2>1, SubsetInduction
<1> QED BY <1>2

(* The sum of what is the same.                                            *)
LEMMA PartSame ==
    ASSUME NEW D, IsFiniteSet(D), NEW f, NEW g, DOMAIN f = D, DOMAIN g = D
    PROVE  \A s \in SUBSET D : (\A x \in s : f[x] = g[x]) => Part(f, s) = Part(g, s)
<1> DEFINE Same(s) == (\A x \in s : f[x] = g[x]) => Part(f, s) = Part(g, s)
           P == {s \in SUBSET D : Same(s)}
<1>1. ASSUME NEW s \in SUBSET D, \A t \in SUBSET s : t # s => t \in P
      PROVE  s \in P
  <2>1. CASE s = {}
    BY <2>1, PartSteps
  <2>2. CASE s # {}
    <3>1. /\ Picked(s) \in s
          /\ Part(f, s) = f[Picked(s)] + Part(f, s \ {Picked(s)})
          /\ Part(g, s) = g[Picked(s)] + Part(g, s \ {Picked(s)})
      BY <2>2, PartSteps
    <3>2. s \ {Picked(s)} \in P
      BY <3>1, <1>1
    <3> QED BY <3>1, <3>2
  <2> QED BY <2>1, <2>2
<1>2. \A s \in SUBSET D : s \in P
  <2> HIDE DEF P
  <2> QED BY <1>1, SubsetInduction
<1> QED BY <1>2

(* A sum when one of its terms changes, as one worker's share of a counter *)
(* does, or one block of memory.                                           *)
LEMMA TotalChanged ==
    ASSUME NEW D, IsFiniteSet(D), NEW f \in [D -> Int], NEW g \in [D -> Int], NEW w \in D,
           \A x \in D : x # w => g[x] = f[x]
    PROVE  /\ Total(f) \in Int /\ Total(g) \in Int
           /\ Total(g) = Total(f) - f[w] + g[w]
<1>1. Total(f) = Part(f, D) /\ Total(g) = Part(g, D) /\ D \in SUBSET D
  BY TotalIsPart
<1>2. Part(f, D) = f[w] + Part(f, D \ {w}) /\ Part(g, D) = g[w] + Part(g, D \ {w})
  BY <1>1, PartTake
<1>3. Part(g, D \ {w}) = Part(f, D \ {w})
  <2>1. D \ {w} \in SUBSET D /\ \A x \in D \ {w} : f[x] = g[x]
    OBVIOUS
  <2>2. DOMAIN f = D /\ DOMAIN g = D
    OBVIOUS
  <2> QED BY ONLY <2>1, <2>2, IsFiniteSet(D), PartSame
<1>4. Part(f, D \ {w}) \in Int /\ f[w] \in Int /\ g[w] \in Int
  BY PartInt
<1> QED BY <1>1, <1>2, <1>3, <1>4

(* The sum of what is the same.                                            *)
LEMMA TotalSame ==
    ASSUME NEW D, IsFiniteSet(D), NEW f, NEW g, DOMAIN f = D, DOMAIN g = D,
           \A x \in D : f[x] = g[x]
    PROVE  Total(f) = Total(g)
<1>1. Total(f) = Part(f, D) /\ Total(g) = Part(g, D) /\ D \in SUBSET D
  BY TotalIsPart
<1> QED BY <1>1, PartSame

(* The sum of nothing.                                                     *)
LEMMA TotalZero ==
    ASSUME NEW D, IsFiniteSet(D), NEW f, DOMAIN f = D, \A x \in D : f[x] = 0
    PROVE  Total(f) = 0
<1> DEFINE P == {s \in SUBSET D : Part(f, s) = 0}
<1>1. ASSUME NEW s \in SUBSET D, \A t \in SUBSET s : t # s => t \in P
      PROVE  s \in P
  <2>1. CASE s = {}
    BY <2>1, PartSteps
  <2>2. CASE s # {}
    <3>1. Picked(s) \in s /\ Part(f, s) = f[Picked(s)] + Part(f, s \ {Picked(s)})
      BY <2>2, PartSteps
    <3>2. s \ {Picked(s)} \in P
      BY <3>1, <1>1
    <3> QED BY <3>1, <3>2
  <2> QED BY <2>1, <2>2
<1>2. \A s \in SUBSET D : s \in P
  <2> HIDE DEF P
  <2> QED BY <1>1, SubsetInduction
<1> QED BY <1>2, TotalIsPart

(* What a sum of sizes is.                                                 *)
LEMMA TotalNat ==
    ASSUME NEW D, IsFiniteSet(D), NEW f \in [D -> Nat]
    PROVE  Total(f) \in Nat /\ \A w \in D : f[w] <= Total(f)
<1>1. Total(f) = Part(f, D) /\ D \in SUBSET D
  BY TotalIsPart
<1>2. ASSUME NEW w \in D
      PROVE  f[w] <= Part(f, D)
  <2>1. f \in [D -> Int]
    OBVIOUS
  <2>2. Part(f, D) = f[w] + Part(f, D \ {w})
    BY <1>1, <2>1, PartTake
  <2>3. Part(f, D \ {w}) \in Nat /\ f[w] \in Nat
    BY PartNat
  <2> QED BY <2>2, <2>3
<1> QED BY <1>1, <1>2, PartNat

(* What is left when the garbage is collected.                             *)
LEMMA TotalSplit ==
    ASSUME NEW D, IsFiniteSet(D), NEW f \in [D -> Nat], NEW G \in SUBSET D,
           NEW h, h = [b \in D |-> IF b \in G THEN 0 ELSE f[b]],
           NEW r, r = [b \in G |-> f[b]]
    PROVE  Total(h) = Total(f) - Total(r)
<1> DEFINE Splits(s) == Part(f, s) = Part(h, s) + Part(r, s \cap G)
           P == {s \in SUBSET D : Splits(s)}
<1>1. IsFiniteSet(G) /\ f \in [D -> Int] /\ h \in [D -> Int] /\ r \in [G -> Int]
  BY FS_Subset
<1>2. ASSUME NEW s \in SUBSET D, \A t \in SUBSET s : t # s => t \in P
      PROVE  Splits(s)
  <2>1. CASE s = {}
    <3>1. s \cap G = {} /\ Part(f, {}) = 0 /\ Part(h, {}) = 0 /\ Part(r, {}) = 0
      BY <2>1, <1>1, PartSteps
    <3> QED BY <2>1, <3>1
  <2>2. CASE s # {}
    <3> DEFINE x == Picked(s)
               t == s \ {x}
    <3>1. x \in s /\ Part(f, s) = f[x] + Part(f, t)
      BY <2>2, PartSteps
    <3>2. Part(h, s) = h[x] + Part(h, t)
      BY <2>2, <1>1, PartSteps
    <3> HIDE DEF x
    <3>3. Part(f, t) = Part(h, t) + Part(r, t \cap G)
      BY <3>1, <1>2
    <3>4. /\ Part(f, t) \in Int /\ Part(h, t) \in Int /\ Part(r, t \cap G) \in Int
          /\ f[x] \in Int
      <4>1. t \in SUBSET D /\ t \cap G \in SUBSET G
        OBVIOUS
      <4> QED BY <4>1, <3>1, <1>1, PartInt
    <3>5. CASE x \in G
      <4>1. t \cap G = (s \cap G) \ {x} /\ x \in s \cap G /\ s \cap G \in SUBSET G
        BY <3>1, <3>5
      <4>2. Part(r, s \cap G) = r[x] + Part(r, t \cap G)
        <5>1. Part(r, s \cap G) = r[x] + Part(r, (s \cap G) \ {x})
          BY ONLY <4>1, <1>1, PartTake
        <5> QED BY <5>1, <4>1
      <4>3. h[x] = 0 /\ r[x] = f[x]
        BY <3>1, <3>5
      <4> QED BY <3>1, <3>2, <3>3, <3>4, <4>2, <4>3
    <3>6. CASE x \notin G
      <4>1. t \cap G = s \cap G
        BY <3>6
      <4>2. h[x] = f[x]
        BY <3>1, <3>6
      <4>3. Part(r, s \cap G) = Part(r, t \cap G)
        BY <4>1
      <4> HIDE DEF t
      <4> QED BY <3>1, <3>2, <3>3, <3>4, <4>2, <4>3
    <3> QED BY <3>5, <3>6
  <2> QED BY <2>1, <2>2
<1>3. \A s \in SUBSET D : s \in P
  <2>1. \A s \in SUBSET D : (\A t \in SUBSET s : t # s => t \in P) => s \in P
    BY <1>2
  <2> HIDE DEF P
  <2> QED BY <2>1, SubsetInduction
<1>4. Part(f, D) = Part(h, D) + Part(r, G)
  <2>1. D \cap G = G
    OBVIOUS
  <2> QED BY <1>3, <2>1
<1>5. Total(f) = Part(f, D) /\ Total(h) = Part(h, D) /\ Total(r) = Part(r, G)
  BY TotalIsPart
<1>6. Part(h, D) \in Int /\ Part(r, G) \in Int
  BY <1>1, PartInt
<1> QED BY <1>4, <1>5, <1>6

-------------------------------------------------------------------------------
(* Words.                                                                  *)

(* The remainder and the quotient, also of negative numbers.               *)
LEMMA ModFacts ==
    ASSUME NEW a \in Int, NEW m \in Nat \ {0}
    PROVE  /\ a % m \in 0 .. m - 1
           /\ a \div m \in Int
           /\ a = m * (a \div m) + (a % m)
  OBVIOUS

(* There is only one remainder.                                            *)
LEMMA ModUnique ==
    ASSUME NEW a \in Int, NEW m \in Nat \ {0}, NEW q \in Int, NEW r \in 0 .. m - 1,
           a = m * q + r
    PROVE  a % m = r
<1>1. PICK p \in Int, s \in 0 .. m - 1 : s = a % m /\ a = m * p + s
  BY ModFacts
<1>2. CASE p < q
  <2>1. PICK e \in Nat : q = p + 1 + e
    BY <1>2
  <2>2. m * q = m * p + m + m * e
    BY <2>1
  <2>3. m * e \in Nat
    OBVIOUS
  <2> QED BY <1>1, <2>2, <2>3
<1>3. CASE q < p
  <2>1. PICK e \in Nat : p = q + 1 + e
    BY <1>3
  <2>2. m * p = m * q + m + m * e
    BY <2>1
  <2>3. m * e \in Nat
    OBVIOUS
  <2> QED BY <1>1, <2>2, <2>3
<1> QED BY <1>1, <1>2, <1>3

(* ngx_atomic_fetch_add: adding to a word is adding, as far as words go.   *)
LEMMA WordAdds ==
    ASSUME NEW a \in Int, NEW d \in Int, NEW m \in Nat \ {0}
    PROVE  ((a % m) + d) % m = (a + d) % m
<1>1. PICK q \in Int, r \in 0 .. m - 1 : r = a % m /\ a = m * q + r
  BY ModFacts
<1>2. PICK p \in Int, s \in 0 .. m - 1 : s = (r + d) % m /\ r + d = m * p + s
  <2>1. r + d \in Int
    OBVIOUS
  <2> QED BY <2>1, ModFacts
<1>3. a + d = m * (q + p) + s
  <2> DEFINE x == m * q
             y == m * p
  <2>1. m * (q + p) = x + y /\ x \in Int /\ y \in Int
    OBVIOUS
  <2>2. a = x + r /\ r + d = y + s
    BY <1>1, <1>2
  <2> HIDE DEF x, y
  <2> QED BY <2>1, <2>2
<1>4. (a + d) % m = s
  <2>1. a + d \in Int /\ q + p \in Int
    OBVIOUS
  <2> QED BY <2>1, <1>3, ModUnique
<1> QED BY <1>1, <1>2, <1>4

(* Zero is a word.                                                         *)
LEMMA ZeroWord == 0 % Word = 0
  BY MonitorAssumption DEF MonitorAssumption

(* A number that fits into a word is that word.                            *)
LEMMA WordSmall ==
    ASSUME NEW m \in Nat \ {0}, NEW a \in 0 .. m - 1
    PROVE  a % m = a
<1>1. a = m * 0 + a
  OBVIOUS
<1> QED BY <1>1, ModUnique

-------------------------------------------------------------------------------
(* The counters and the memory.                                            *)

(* The counters that are shared out among the workers.                     *)
Counters == {"states_n", "requests_n", "memory_used"}

(* Where the event loop of a worker may be.                                *)
Places == {"loop", "pair", "retry", "report", "close", "closed"}

(* The records are what they are declared as, and a worker that is about   *)
(* to report or to close a Lua state has one.                              *)
Typed == /\ setup \in Setups
         /\ state \in [Workers -> LuaState \cup {None}]
         /\ queued \in [Workers -> Nat]
         /\ at \in [Workers -> Places]
         /\ DOMAIN lost = Counters
         /\ \A c \in Counters : lost[c] \in Nat
         /\ uncounted \in Nat
         /\ served \in Nat
         /\ \A w \in Workers : at[w] \in {"report", "close", "closed"} => state[w] # None

(* The memory of a Lua state is accounted for.                             *)
MemOK(s) == /\ limited => s.memory_used = Total(s.blocks) /\ s.memory_used <= setup.max
            /\ ~s.in_use => s.memory_monitor = Total(s.blocks)

(* The inductive invariant.                                                *)
CountInv == Typed /\ CountersAddUp /\ MemoryAccounted

(* What counter c should be.                                               *)
Balance(c) == Held(c) + lost[c] - (IF c = "states_n" THEN uncounted ELSE 0)

(* What a step of worker w should add to counter c.                        *)
Moved(w, c) == Holds(w, c)' - Holds(w, c) + lost'[c] - lost[c]
               - (IF c = "states_n" THEN uncounted' - uncounted ELSE 0)

(* What each worker holds of counter c.                                    *)
HeldBy(c) == [w \in Workers |-> Holds(w, c)]

(* The assumptions, as they are used.                                      *)
LEMMA WordFacts ==
    /\ Word \in Nat \ {0} /\ IsFiniteSet(Workers) /\ IsFiniteSet(Blocks)
    /\ None \notin LuaState
  BY MonitorAssumption DEF MonitorAssumption

(* What the workers hold together.                                         *)
LEMMA SumIsTotal == \A c : Held(c) = Total(HeldBy(c))
  BY Zenon DEF Held, Total, HeldBy

(* The same of the counters, to speak of it after a step too.              *)
Totals == \A c \in Counters : Held(c) = Total(HeldBy(c))

(* It holds after a step too.                                              *)
LEMMA TotalsNext == Totals'
<1>1. Totals
  BY SumIsTotal DEF Totals
<1> QED BY <1>1, PTL

(* What a worker holds.                                                    *)
LEMMA HoldsFacts ==
    ASSUME Typed, NEW w \in Workers
    PROVE  /\ Holds(w, "states_n") = IF state[w] # None /\ at[w] # "closed" THEN 1 ELSE 0
           /\ Holds(w, "requests_n") = queued[w]
           /\ Holds(w, "memory_used") =
                 IF state[w] # None THEN state[w].memory_monitor ELSE 0
           /\ \A c \in Counters : Holds(w, c) \in Nat
<1>1. /\ Holds(w, "states_n") = IF state[w] # None /\ at[w] # "closed" THEN 1 ELSE 0
      /\ Holds(w, "requests_n") = queued[w]
      /\ Holds(w, "memory_used") = IF state[w] # None THEN state[w].memory_monitor ELSE 0
  BY DEF Holds
<1>2. state[w] # None => state[w].memory_monitor \in Nat
  BY DEF Typed, LuaState
<1>3. queued[w] \in Nat
  BY DEF Typed
<1> QED BY <1>1, <1>2, <1>3 DEF Counters

(* Nobody holds less than nothing ...                                      *)
HoldNat == \A w \in Workers : \A c \in Counters : Holds(w, c) \in Nat

(* ... before a step ...                                                   *)
LEMMA HoldsTyped == Typed => HoldNat
  BY HoldsFacts DEF HoldNat

(* ... and after it.                                                       *)
LEMMA HoldsTypedNext == Typed' => HoldNat'
  BY HoldsTyped, PTL

(* The two of a worker.                                                    *)
LEMMA HoldsFactsNext ==
    ASSUME Typed, Typed', NEW w \in Workers
    PROVE  \A c \in Counters : Holds(w, c) \in Nat /\ Holds(w, c)' \in Nat
  BY HoldsTyped, HoldsTypedNext DEF HoldNat

(* What the workers hold together, when one of them takes a step.          *)
LEMMA SumMoves ==
    ASSUME Typed, Typed', NEW w \in Workers, NEW c \in Counters,
           \A v \in Workers : v # w => /\ state'[v] = state[v]
                                       /\ queued'[v] = queued[v]
                                       /\ at'[v] = at[v]
    PROVE  /\ Held(c) \in Int /\ Held(c)' \in Int
           /\ Held(c)' = Held(c) - Holds(w, c) + Holds(w, c)'
<1>1. /\ \A v \in Workers : Holds(v, c) \in Nat
      /\ \A v \in Workers : Holds(v, c)' \in Nat
  BY HoldsTyped, HoldsTypedNext DEF HoldNat
<1>2. \A v \in Workers : v # w => Holds(v, c)' = Holds(v, c)
  BY DEF Holds
<1>3. /\ HeldBy(c) \in [Workers -> Int] /\ HeldBy(c)' \in [Workers -> Int]
      /\ \A v \in Workers : v # w => HeldBy(c)'[v] = HeldBy(c)[v]
      /\ HeldBy(c)[w] = Holds(w, c) /\ HeldBy(c)'[w] = Holds(w, c)'
  BY <1>1, <1>2 DEF HeldBy
<1>4. Held(c) = Total(HeldBy(c)) /\ Held(c)' = Total(HeldBy(c)')
  BY SumIsTotal, TotalsNext DEF Totals
<1> DEFINE f == HeldBy(c)
           g == HeldBy(c)'
<1> HIDE DEF f, g
<1>5. f \in [Workers -> Int] /\ g \in [Workers -> Int]
      /\ \A v \in Workers : v # w => g[v] = f[v]
  BY <1>3 DEF f, g
<1>6. Total(f) \in Int /\ Total(g) \in Int /\ Total(g) = Total(f) - f[w] + g[w]
  BY ONLY <1>5, WordFacts, TotalChanged, w \in Workers
<1> QED BY <1>3, <1>4, <1>6 DEF f, g

(* A step that adds to each counter what its balance has changed.          *)
LEMMA CountersKept ==
    ASSUME Typed, Typed', CountersAddUp, NEW w \in Workers,
           \A v \in Workers : v # w => /\ state'[v] = state[v]
                                       /\ queued'[v] = queued[v]
                                       /\ at'[v] = at[v],
           \A c \in Counters : \/ monitor'[c] = (monitor[c] + Moved(w, c)) % Word
                               \/ monitor'[c] = monitor[c] /\ Moved(w, c) = 0,
           \/ monitor'.request_count = (monitor.request_count + (served' - served)) % Word
           \/ monitor'.request_count = monitor.request_count /\ served' = served
    PROVE  CountersAddUp'
<1>1. ASSUME NEW c \in Counters
      PROVE  monitor'[c] = Balance(c)' % Word
  <2>1. /\ Held(c) \in Int /\ Held(c)' \in Int
        /\ Held(c)' = Held(c) - Holds(w, c) + Holds(w, c)'
    BY SumMoves
  <2>2. Holds(w, c) \in Int /\ Holds(w, c)' \in Int
    BY HoldsTyped, HoldsTypedNext DEF HoldNat
  <2>3. /\ lost[c] \in Int /\ lost'[c] \in Int /\ uncounted \in Int /\ uncounted' \in Int
    BY DEF Typed
  <2> DEFINE b == Balance(c)
             d == Moved(w, c)
             e == IF c = "states_n" THEN uncounted ELSE 0
             f == IF c = "states_n" THEN uncounted' ELSE 0
  <2>4. b' = b + d /\ b \in Int /\ d \in Int
    <3>1. b = Held(c) + lost[c] - e /\ b' = Held(c)' + lost'[c] - f
      BY DEF Balance
    <3>2. e \in Int /\ f \in Int
      BY <2>3
    <3>3. d = Holds(w, c)' - Holds(w, c) + lost'[c] - lost[c] - (f - e)
      BY <2>3 DEF Moved
    <3> HIDE DEF b, d, e, f
    <3> QED BY <3>1, <3>2, <3>3, <2>1, <2>2, <2>3
  <2>5. monitor[c] = b % Word
    BY DEF CountersAddUp, Balance, Typed
  <2> HIDE DEF b, d
  <2>6. ((b % Word) + d) % Word = (b + d) % Word
    BY <2>4, WordFacts, WordAdds
  <2>7. monitor'[c] = (monitor[c] + d) % Word \/ (monitor'[c] = monitor[c] /\ d = 0)
    BY DEF d
  <2>8. monitor'[c] = (b + d) % Word
    BY <2>4, <2>5, <2>6, <2>7
  <2>9. monitor'[c] = b' % Word
    BY <2>4, <2>8
  <2> QED BY <2>9 DEF b
<1>2. monitor'.request_count = served' % Word
  <2>1. served \in Int /\ served' \in Int /\ served' - served \in Int
        /\ served + (served' - served) = served'
    <3>1. served \in Nat /\ served' \in Nat
      BY DEF Typed
    <3>2. \A i, j \in Nat : i \in Int /\ j \in Int /\ j - i \in Int /\ i + (j - i) = j
      OBVIOUS
    <3> QED BY <3>1, <3>2
  <2>2. ((served % Word) + (served' - served)) % Word = served' % Word
    BY <2>1, WordFacts, WordAdds
  <2>3. monitor.request_count = served % Word
    BY DEF CountersAddUp
  <2> QED BY <2>2, <2>3
<1>3. DOMAIN lost' = Counters
  BY DEF Typed
<1> QED BY <1>1, <1>2, <1>3 DEF CountersAddUp, Balance

(* Memory, where one Lua state changes.                                    *)
LEMMA MemoryKept ==
    ASSUME Typed, MemoryAccounted, NEW w \in Workers, NEW s,
           state' = [state EXCEPT ![w] = s], setup' = setup,
           s # None => MemOK(s)
    PROVE  MemoryAccounted'
<1>1. \A v \in Workers : state[v] # None => MemOK(state[v])
  BY DEF MemoryAccounted, MemOK
<1>2. limited' = limited
  BY DEF limited
<1>3. ASSUME NEW v \in Workers, state'[v] # None
      PROVE  MemOK(state'[v])
  BY <1>1, <1>3 DEF Typed
<1> QED BY <1>2, <1>3 DEF MemoryAccounted, MemOK

(* The types, where one worker takes a step.                               *)
LEMMA TypedKept ==
    ASSUME Typed, NEW w \in Workers, NEW s, s \in LuaState \cup {None},
           state' = [state EXCEPT ![w] = s], setup' = setup,
           queued' \in [Workers -> Nat],
           \/ UNCHANGED at /\ s # None
           \/ \E n \in Places : /\ at' = [at EXCEPT ![w] = n]
                                /\ n \in {"report", "close", "closed"} => s # None,
           DOMAIN lost' = Counters, \A c \in Counters : lost'[c] \in Nat,
           uncounted' \in Nat, served' \in Nat
    PROVE  Typed'
<1>1. state' \in [Workers -> LuaState \cup {None}]
  BY DEF Typed
<1>2. at' \in [Workers -> Places]
  BY DEF Typed
<1>3. ASSUME NEW v \in Workers, at'[v] \in {"report", "close", "closed"}
      PROVE  state'[v] # None
  <2>1. CASE v = w
    BY <2>1, <1>3 DEF Typed
  <2>2. CASE v # w
    BY <2>2, <1>3 DEF Typed
  <2> QED BY <2>1, <2>2
<1> QED BY <1>1, <1>2, <1>3 DEF Typed

(* What a step should add to each counter.                                 *)
LEMMA MovedFacts ==
    ASSUME Typed, Typed', NEW w \in Workers
    PROVE  /\ Moved(w, "states_n") =
                 (IF state'[w] # None /\ at'[w] # "closed" THEN 1 ELSE 0)
                 - (IF state[w] # None /\ at[w] # "closed" THEN 1 ELSE 0)
                 + lost'["states_n"] - lost["states_n"] - (uncounted' - uncounted)
           /\ Moved(w, "requests_n") =
                 queued'[w] - queued[w] + lost'["requests_n"] - lost["requests_n"]
           /\ Moved(w, "memory_used") =
                 (IF state'[w] # None THEN state'[w].memory_monitor ELSE 0)
                 - (IF state[w] # None THEN state[w].memory_monitor ELSE 0)
                 + lost'["memory_used"] - lost["memory_used"]
<1>1. /\ Holds(w, "states_n")' = IF state'[w] # None /\ at'[w] # "closed" THEN 1 ELSE 0
      /\ Holds(w, "requests_n")' = queued'[w]
      /\ Holds(w, "memory_used")' = IF state'[w] # None THEN state'[w].memory_monitor ELSE 0
  BY DEF Holds
<1>2. \A c \in Counters : Holds(w, c) \in Int /\ Holds(w, c)' \in Int
                          /\ lost[c] \in Int /\ lost'[c] \in Int
  BY HoldsFactsNext DEF Typed
<1>3. {"states_n", "requests_n", "memory_used"} = Counters
  BY DEF Counters
<1> QED BY <1>1, <1>2, <1>3, HoldsFacts DEF Moved

(* A counter is added to.                                                  *)
LEMMA FetchAddFacts ==
    ASSUME MonitorOK, NEW d
    PROVE  /\ FetchAdd("states_n", d) =>
                 /\ monitor'["states_n"] = (monitor["states_n"] + d) % Word
                 /\ monitor'["requests_n"] = monitor["requests_n"]
                 /\ monitor'["memory_used"] = monitor["memory_used"]
                 /\ monitor'.request_count = monitor.request_count
           /\ FetchAdd("requests_n", d) =>
                 /\ monitor'["states_n"] = monitor["states_n"]
                 /\ monitor'["requests_n"] = (monitor["requests_n"] + d) % Word
                 /\ monitor'["memory_used"] = monitor["memory_used"]
                 /\ monitor'.request_count = monitor.request_count
           /\ FetchAdd("memory_used", d) =>
                 /\ monitor'["states_n"] = monitor["states_n"]
                 /\ monitor'["requests_n"] = monitor["requests_n"]
                 /\ monitor'["memory_used"] = (monitor["memory_used"] + d) % Word
                 /\ monitor'.request_count = monitor.request_count
           /\ FetchAdd("request_count", d) =>
                 /\ monitor'["states_n"] = monitor["states_n"]
                 /\ monitor'["requests_n"] = monitor["requests_n"]
                 /\ monitor'["memory_used"] = monitor["memory_used"]
                 /\ monitor'.request_count = (monitor.request_count + d) % Word
  BY DEF MonitorOK, FetchAdd

(* A step that counts nothing: one Lua state changes, but neither whether  *)
(* there is one nor what was reported of it.                               *)
Quiet(w, s, n) ==
    /\ s \in LuaState \cup {None}
    /\ state' = [state EXCEPT ![w] = s]
    /\ s = None <=> state[w] = None
    /\ s # None => MemOK(s) /\ s.memory_monitor = state[w].memory_monitor
    /\ UNCHANGED <<setup, queued, lost, uncounted, served>>
    /\ \A c \in Counters : monitor'[c] = monitor[c]
    /\ monitor'.request_count = monitor.request_count
    /\ \/ UNCHANGED at
       \/ /\ at' = [at EXCEPT ![w] = n] /\ n \in Places
          /\ at[w] # "closed" /\ n # "closed"
          /\ n \in {"report", "close"} => s # None

(* It keeps the invariant.                                                 *)
LEMMA QuietStep ==
    ASSUME CountInv, NEW w \in Workers, NEW s, NEW n, Quiet(w, s, n)
    PROVE  CountInv'
<1> USE DEF Quiet
<1>1. Typed /\ CountersAddUp /\ MemoryAccounted
  BY DEF CountInv
<1>2. /\ at' \in [Workers -> Places]
      /\ (at'[w] # "closed" <=> at[w] # "closed")
      /\ \A v \in Workers : v # w => at'[v] = at[v]
  BY <1>1 DEF Typed
<1>3. state' \in [Workers -> LuaState \cup {None}] /\ state'[w] = s
      /\ \A v \in Workers : v # w => state'[v] = state[v]
  BY <1>1 DEF Typed
<1>4. Typed'
  <2>1. ASSUME NEW v \in Workers, at'[v] \in {"report", "close", "closed"}
        PROVE  state'[v] # None
    <3>1. CASE v # w
      BY <2>1, <3>1, <1>1, <1>2, <1>3 DEF Typed
    <3>2. CASE v = w
      BY <2>1, <3>2, <1>1, <1>3 DEF Typed
    <3> QED BY <3>1, <3>2
  <2> QED BY <2>1, <1>1, <1>2, <1>3 DEF Typed
<1>5. \A c \in Counters : Moved(w, c) = 0
  <2>1. /\ queued[w] \in Nat /\ uncounted \in Nat
        /\ lost["states_n"] \in Nat /\ lost["requests_n"] \in Nat /\ lost["memory_used"] \in Nat
        /\ state[w] # None => state[w].memory_monitor \in Nat
    BY <1>1 DEF Typed, LuaState, Counters
  <2>3. /\ queued' = queued /\ lost' = lost /\ uncounted' = uncounted
        /\ (state'[w] = None <=> state[w] = None)
        /\ state'[w] # None => state'[w].memory_monitor = state[w].memory_monitor
    BY <1>3
  <2> HIDE DEF Quiet
  <2>4. Moved(w, "states_n") = 0
    BY <1>1, <1>2, <1>4, <2>1, <2>3, MovedFacts
  <2>5. Moved(w, "requests_n") = 0
    BY <1>1, <1>4, <2>1, <2>3, MovedFacts
  <2>6. Moved(w, "memory_used") = 0
    BY <1>1, <1>4, <2>1, <2>3, MovedFacts
  <2>2. /\ Moved(w, "states_n") = 0
        /\ Moved(w, "requests_n") = 0
        /\ Moved(w, "memory_used") = 0
    BY <2>4, <2>5, <2>6
  <2> QED BY <2>2 DEF Counters
<1>6. CountersAddUp'
  BY <1>1, <1>2, <1>3, <1>4, <1>5, CountersKept
<1>7. MemoryAccounted'
  BY <1>1, MemoryKept
<1> QED BY <1>4, <1>6, <1>7 DEF CountInv

(* Lua states keep their fields.                                           *)
LEMMA StateFields ==
    ASSUME NEW s \in LuaState
    PROVE  /\ s # None
           /\ s.blocks \in [Blocks -> Nat]
           /\ s.memory_used \in Nat /\ s.memory_monitor \in Nat
           /\ s.close \in BOOLEAN /\ s.in_use \in BOOLEAN /\ s.profiler \in Nat
           /\ s.hook \in BOOLEAN /\ s.ran \in {"not yet", "runs", "ran"}
  BY WordFacts DEF LuaState

(* lws_alloc_checked: the count of a limited Lua state follows its blocks, *)
(* and stays within the limit.                                             *)
LEMMA ReallocateCounts ==
    ASSUME CountInv, NEW w \in Workers, Reallocate(w)
    PROVE  CountInv'
<1> DEFINE s == state[w]
<1>1. Typed /\ MemoryAccounted
  BY DEF CountInv
<1>2. s \in LuaState /\ s # None /\ s.in_use /\ s.ran = "runs"
  BY <1>1 DEF Reallocate, Runs, Typed
<1>3. PICK b \in Blocks, nsize \in setup.sizes \cup {0}, tag \in Tags :
         /\ limited /\ nsize # 0 => IsAllowed(s, NewUsed(s, b, tag, nsize))
         /\ state' = [state EXCEPT ![w].blocks[b] = nsize,
                                   ![w].memory_used = IF limited THEN NewUsed(s, b, tag, nsize)
                                                      ELSE @]
  BY DEF Reallocate
<1> DEFINE new == [s.blocks EXCEPT ![b] = nsize]
           used == IF limited THEN NewUsed(s, b, tag, nsize) ELSE s.memory_used
           t == [s EXCEPT !.blocks = new, !.memory_used = used]
<1>4. state' = [state EXCEPT ![w] = t]
  BY <1>1, <1>2, <1>3 DEF Typed, LuaState
<1>5. /\ setup \in Setups /\ Setup(setup) /\ setup.max \in 0 .. Word \div 2 - 1
      /\ nsize \in Nat /\ nsize < Word /\ (nsize = 0 \/ nsize <= Word \div 2 - 1)
  <2>1. Setup(setup)
    BY <1>1, MonitorAssumption DEF MonitorAssumption, Typed
  <2> QED BY <2>1, <1>1, WordFacts DEF Setup, Typed
<1>6. /\ s.blocks \in [Blocks -> Nat] /\ new \in [Blocks -> Nat]
      /\ new[b] = nsize /\ \A x \in Blocks : x # b => new[x] = s.blocks[x]
  BY <1>2, <1>5, StateFields
<1>7. /\ Total(s.blocks) \in Nat /\ Total(new) \in Nat /\ s.blocks[b] \in Nat
      /\ s.blocks[b] <= Total(s.blocks)
      /\ Total(new) = Total(s.blocks) - s.blocks[b] + nsize
  <2> HIDE DEF new
  <2>1. s.blocks \in [Blocks -> Int] /\ new \in [Blocks -> Int]
    BY <1>6
  <2>2. Total(new) = Total(s.blocks) - s.blocks[b] + new[b]
    BY <1>6, <2>1, WordFacts, TotalChanged
  <2> QED BY <2>2, <1>6, WordFacts, TotalNat
<1>8. limited => used = Total(new) /\ used <= setup.max
  <2> SUFFICES ASSUME limited
               PROVE  used = Total(new) /\ used <= setup.max
    OBVIOUS
  <2>1. s.memory_used = Total(s.blocks) /\ s.memory_used <= setup.max
    BY <1>1, <1>2 DEF MemoryAccounted
  <2>2. used = Total(new) % Word
    BY <2>1, <1>7 DEF NewUsed
  <2>3. Total(new) \in 0 .. Word - 1
    BY <2>1, <1>5, <1>7, WordFacts
  <2>4. used = Total(new)
    BY <2>2, <2>3, WordFacts, WordSmall
  <2>5. CASE nsize = 0
    BY <2>1, <2>4, <2>5, <1>5, <1>7
  <2>6. CASE nsize # 0
    <3>1. NewUsed(s, b, tag, nsize) <= setup.max
      BY <1>3, <2>6 DEF IsAllowed
    <3> QED BY <3>1, <2>4
  <2> QED BY <2>4, <2>5, <2>6
<1>9. used \in Nat
  BY <1>2, <1>7, <1>8, StateFields
<1> HIDE DEF used, new
<1>10. /\ t \in LuaState /\ t.blocks = new /\ t.memory_used = used
       /\ t.in_use = s.in_use /\ t.memory_monitor = s.memory_monitor
  BY <1>2, <1>6, <1>9 DEF LuaState
<1>11. MemOK(t) /\ t # None
  <2>1. t # None
    BY <1>10, StateFields
  <2> HIDE DEF t
  <2> QED BY <2>1, <1>2, <1>8, <1>10 DEF MemOK
<1>12. UNCHANGED <<setup, monitor, queued, at, lost, uncounted, served>>
  BY DEF Reallocate
<1>13. Quiet(w, t, "loop")
  <2>1. t \in LuaState /\ t # None /\ state' = [state EXCEPT ![w] = t]
    BY <1>4, <1>10, <1>11
  <2>2. t.memory_monitor = state[w].memory_monitor /\ MemOK(t) /\ s # None
    BY <1>2, <1>10, <1>11
  <2> HIDE DEF t
  <2> QED BY <2>1, <2>2, <1>12 DEF Quiet
<1> HIDE DEF t
<1> QED BY <1>13, QuietStep

(* The other steps of the thread, and those of POST requests, do not count.*)
LEMMA ThreadCounts ==
    ASSUME CountInv, NEW w \in Workers, Thread(w)
    PROVE  CountInv'
<1> DEFINE s == state[w]
<1>1. Typed /\ MemoryAccounted
  BY DEF CountInv
<1>2. CASE StartRun(w)
  <2> DEFINE t == [s EXCEPT !.ran = "runs", !.hook = s.profiler # 0]
  <2>1. s \in LuaState /\ s # None
    BY <1>1, <1>2 DEF StartRun, Typed
  <2>2. state' = [state EXCEPT ![w] = t]
    BY <1>1, <1>2 DEF StartRun, Typed
  <2>3. UNCHANGED <<setup, monitor, queued, at, lost, uncounted, served>>
    BY <1>2 DEF StartRun
  <2>4. /\ t \in LuaState /\ t.blocks = s.blocks /\ t.memory_used = s.memory_used
        /\ t.in_use = s.in_use /\ t.memory_monitor = s.memory_monitor
    BY <2>1 DEF LuaState
  <2> HIDE DEF t
  <2>5. MemOK(s) /\ t # None
    BY <1>1, <2>1, <2>4, StateFields DEF MemoryAccounted, MemOK
  <2>6. MemOK(t)
    BY <2>4, <2>5 DEF MemOK
  <2>7. Quiet(w, t, "loop")
    BY <2>1, <2>2, <2>3, <2>4, <2>5, <2>6 DEF Quiet
  <2> QED BY <2>7, QuietStep
<1>3. CASE EndRun(w)
  <2>1. PICK failed \in BOOLEAN :
            state' = [state EXCEPT ![w].ran = "ran", ![w].close = failed,
                                   ![w].hook = IF ~failed /\ IsProfiled(s) THEN FALSE ELSE @]
    BY <1>3 DEF EndRun
  <2> DEFINE t == [s EXCEPT !.ran = "ran", !.close = failed,
                            !.hook = IF ~failed /\ IsProfiled(s) THEN FALSE ELSE @]
  <2>2. s \in LuaState /\ s # None
    BY <1>1, <1>3 DEF EndRun, Runs, Typed
  <2>3. state' = [state EXCEPT ![w] = t]
    BY <1>1, <2>1, <2>2 DEF Typed, LuaState
  <2>4. UNCHANGED <<setup, monitor, queued, at, lost, uncounted, served>>
    BY <1>3 DEF EndRun
  <2>5. /\ t \in LuaState /\ t.blocks = s.blocks /\ t.memory_used = s.memory_used
        /\ t.in_use = s.in_use /\ t.memory_monitor = s.memory_monitor
    BY <2>2 DEF LuaState
  <2> HIDE DEF t
  <2>6. MemOK(s) /\ t # None
    BY <1>1, <2>2, <2>5, StateFields DEF MemoryAccounted, MemOK
  <2>7. MemOK(t)
    BY <2>5, <2>6 DEF MemOK
  <2>8. Quiet(w, t, "loop")
    BY <2>2, <2>3, <2>4, <2>5, <2>6, <2>7 DEF Quiet
  <2> QED BY <2>8, QuietStep
<1> QED BY <1>2, <1>3, ReallocateCounts DEF Thread

(* The steps of POST requests do not count either.                         *)
LEMMA PostCounts ==
    ASSUME CountInv, MonitorOK, NEW w \in Workers, PostHandler(w)
    PROVE  CountInv'
<1> DEFINE s == state[w]
<1>1. Typed /\ MemoryAccounted
  BY DEF CountInv
<1>2. UNCHANGED <<state, setup, queued, lost, uncounted, served>>
  BY DEF PostHandler, Post, Enable, Disable, Retry, Other, Answer, Applies, Refuses, postRest
<1>3. UNCHANGED monitor \/ \E x : monitor' = [monitor EXCEPT !.profiler = x]
  BY DEF PostHandler, Post, Enable, Disable, Retry, Other, Answer, Applies, Refuses, postRest
<1>4. /\ at[w] \in {"loop", "pair", "retry"}
      /\ \E n \in {"loop", "pair", "retry"} : at' = [at EXCEPT ![w] = n]
  BY DEF PostHandler, Post, Enable, Disable, Retry, Other, Answer, Applies, Refuses, Goto, IsPair
<1>5. /\ \A c \in Counters : monitor'[c] = monitor[c]
      /\ monitor'.request_count = monitor.request_count
  BY <1>3 DEF MonitorOK, Counters
<1>6. s \in LuaState \cup {None} /\ state' = [state EXCEPT ![w] = s]
  BY <1>1, <1>2 DEF Typed
<1>7. s # None => MemOK(s)
  BY <1>1 DEF MemoryAccounted, MemOK
<1>8. PICK n \in {"loop", "pair", "retry"} : at' = [at EXCEPT ![w] = n]
  BY <1>4
<1>9. Quiet(w, s, n)
  BY <1>2, <1>4, <1>5, <1>6, <1>7, <1>8 DEF Quiet, Places
<1> QED BY <1>9, QuietStep

(* A counter is added to, or left alone if there is nothing to add.        *)
Adds(c, d) == \/ monitor'[c] = (monitor[c] + d) % Word
              \/ monitor'[c] = monitor[c] /\ d = 0

(* What a worker has in the counters with Lua state s, at place n.         *)
States(s, n) == IF s # None /\ n # "closed" THEN 1 ELSE 0

Memory(s) == IF s # None THEN s.memory_monitor ELSE 0

(* A step of worker w, which has Lua state s, q requests in its queue and  *)
(* is at place n then, ...                                                 *)
Becomes(w, s, q, n) ==
    /\ s \in LuaState \cup {None}
    /\ s # None => MemOK(s)
    /\ q \in Nat
    /\ n \in Places
    /\ n \in {"report", "close", "closed"} => s # None
    /\ state' = [state EXCEPT ![w] = s]
    /\ queued' = [queued EXCEPT ![w] = q]
    /\ at' = [at EXCEPT ![w] = n]
    /\ setup' = setup

(* ... whatever is lost, ...                                               *)
Losses == /\ DOMAIN lost' = Counters
          /\ \A c \in Counters : lost'[c] \in Nat
          /\ uncounted' \in Nat
          /\ served' \in Nat

(* ... and adds to each counter what its share has become larger by.       *)
CountsUp(w, s, q, n) ==
    /\ Adds("states_n", States(s, n) - States(state[w], at[w])
                        + lost'["states_n"] - lost["states_n"] - (uncounted' - uncounted))
    /\ Adds("requests_n", q - queued[w] + lost'["requests_n"] - lost["requests_n"])
    /\ Adds("memory_used", Memory(s) - Memory(state[w])
                           + lost'["memory_used"] - lost["memory_used"])
    /\ Adds("request_count", served' - served)

(* It keeps the invariant.                                                 *)
LEMMA CountedStep ==
    ASSUME CountInv, NEW w \in Workers, NEW s, NEW q, NEW n,
           Becomes(w, s, q, n), Losses, CountsUp(w, s, q, n)
    PROVE  CountInv'
<1>1. Typed /\ CountersAddUp /\ MemoryAccounted
  BY DEF CountInv
<1>2. /\ queued' \in [Workers -> Nat] /\ queued'[w] = q
      /\ state'[w] = s /\ at'[w] = n /\ at' \in [Workers -> Places]
      /\ \A v \in Workers : v # w => /\ state'[v] = state[v]
                                     /\ queued'[v] = queued[v]
                                     /\ at'[v] = at[v]
  BY <1>1 DEF Typed, Becomes
<1>3. Typed'
  BY <1>1, <1>2, TypedKept DEF Becomes, Losses
<1>4. /\ Adds("states_n", Moved(w, "states_n"))
      /\ Adds("requests_n", Moved(w, "requests_n"))
      /\ Adds("memory_used", Moved(w, "memory_used"))
  BY <1>1, <1>2, <1>3, MovedFacts DEF States, Memory, CountsUp
<1>5. \A c \in Counters : \/ monitor'[c] = (monitor[c] + Moved(w, c)) % Word
                          \/ monitor'[c] = monitor[c] /\ Moved(w, c) = 0
  BY <1>4 DEF Adds, Counters
<1>6. \/ monitor'.request_count = (monitor.request_count + (served' - served)) % Word
      \/ monitor'.request_count = monitor.request_count /\ served' = served
  <2>1. served' - served = 0 => served' = served
    <3>1. served \in Nat /\ served' \in Nat
      BY <1>1, <1>3 DEF Typed
    <3>2. \A i, j \in Nat : j - i = 0 => j = i
      OBVIOUS
    <3> QED BY <3>1, <3>2
  <2> QED BY <2>1 DEF Adds, CountsUp
<1>7. CountersAddUp'
  BY <1>1, <1>2, <1>3, <1>5, <1>6, CountersKept
<1>8. MemoryAccounted'
  BY <1>1, MemoryKept DEF Becomes
<1> QED BY <1>3, <1>7, <1>8 DEF CountInv

(* What a step adds when one counter is added to.                          *)
LEMMA OneAdds ==
    ASSUME MonitorOK, NEW d
    PROVE  /\ FetchAdd("states_n", d) => /\ Adds("states_n", d) /\ Adds("requests_n", 0)
                                         /\ Adds("memory_used", 0) /\ Adds("request_count", 0)
           /\ FetchAdd("requests_n", d) => /\ Adds("states_n", 0) /\ Adds("requests_n", d)
                                           /\ Adds("memory_used", 0) /\ Adds("request_count", 0)
           /\ FetchAdd("memory_used", d) => /\ Adds("states_n", 0) /\ Adds("requests_n", 0)
                                            /\ Adds("memory_used", d) /\ Adds("request_count", 0)
           /\ FetchAdd("request_count", d) => /\ Adds("states_n", 0) /\ Adds("requests_n", 0)
                                              /\ Adds("memory_used", 0)
                                              /\ Adds("request_count", d)
           /\ UNCHANGED monitor => /\ Adds("states_n", 0) /\ Adds("requests_n", 0)
                                   /\ Adds("memory_used", 0) /\ Adds("request_count", 0)
  BY FetchAddFacts DEF Adds

(* What is known of a worker before a step of it.                          *)
LEMMA Before ==
    ASSUME CountInv, NEW w \in Workers
    PROVE  /\ state[w] \in LuaState \cup {None}
           /\ state[w] # None => /\ state[w] \in LuaState /\ MemOK(state[w])
                                 /\ state[w].memory_monitor \in Nat
           /\ state = [state EXCEPT ![w] = state[w]]
           /\ queued = [queued EXCEPT ![w] = queued[w]]
           /\ at = [at EXCEPT ![w] = at[w]] /\ at[w] \in Places
           /\ queued[w] \in Nat /\ uncounted \in Nat /\ served \in Nat
           /\ DOMAIN lost = Counters /\ \A c \in Counters : lost[c] \in Nat
           /\ lost["states_n"] \in Nat /\ lost["requests_n"] \in Nat
           /\ lost["memory_used"] \in Nat
           /\ at[w] \in {"report", "close", "closed"} => state[w] # None
<1>1. Typed /\ MemoryAccounted
  BY DEF CountInv
<1>2. /\ state[w] \in LuaState \cup {None}
      /\ state = [state EXCEPT ![w] = state[w]]
      /\ queued = [queued EXCEPT ![w] = queued[w]]
      /\ queued[w] \in Nat /\ uncounted \in Nat /\ served \in Nat
      /\ DOMAIN lost = Counters /\ \A c \in Counters : lost[c] \in Nat
      /\ at[w] \in {"report", "close", "closed"} => state[w] # None
      /\ at[w] \in Places
  BY <1>1 DEF Typed
<1>3. at = [at EXCEPT ![w] = at[w]]
  BY <1>1 DEF Typed
<1>4. state[w] # None => /\ state[w] \in LuaState /\ MemOK(state[w])
                         /\ state[w].memory_monitor \in Nat
  BY <1>1, <1>2, StateFields DEF MemoryAccounted, MemOK
<1> QED BY <1>2, <1>3, <1>4 DEF Counters

(* The request queue.                                                      *)
LEMMA QueueCounts ==
    ASSUME CountInv, MonitorOK, NEW w \in Workers, Queue(w) \/ Dequeue(w)
    PROVE  CountInv'
<1>1. PICK d \in {1, -1} : /\ queued' = [queued EXCEPT ![w] = queued[w] + d]
                           /\ queued[w] + d \in Nat
                           /\ FetchAdd("requests_n", d)
  <2>1. queued[w] \in Nat
    BY Before
  <2> QED BY <2>1 DEF Queue, Dequeue
<1>2. UNCHANGED <<setup, state, at, lost, uncounted, served>>
  BY DEF Queue, Dequeue
<1>3. /\ Adds("states_n", 0) /\ Adds("requests_n", d)
      /\ Adds("memory_used", 0) /\ Adds("request_count", 0)
  BY <1>1, OneAdds
<1>4. /\ 0 = States(state[w], at[w]) - States(state[w], at[w])
             + lost'["states_n"] - lost["states_n"] - (uncounted' - uncounted)
      /\ d = (queued[w] + d) - queued[w] + lost'["requests_n"] - lost["requests_n"]
      /\ 0 = Memory(state[w]) - Memory(state[w]) + lost'["memory_used"] - lost["memory_used"]
      /\ 0 = served' - served
  BY <1>1, <1>2, Before DEF States, Memory
<1>5. CountsUp(w, state[w], queued[w] + d, at[w])
  BY <1>3, <1>4 DEF CountsUp
<1>6. Becomes(w, state[w], queued[w] + d, at[w]) /\ Losses
  BY <1>1, <1>2, Before DEF Becomes, Losses
<1> QED BY <1>5, <1>6, CountedStep

(* A step that leaves the queue alone, and has no losses.                  *)
NoLosses == /\ lost' = lost
            /\ queued' = queued
            /\ setup' = setup
            /\ uncounted' = uncounted

(* They are numbers.                                                       *)
LEMMA SharesTyped ==
    ASSUME NEW s \in LuaState \cup {None}, NEW n
    PROVE  States(s, n) \in Int /\ Memory(s) \in Int
<1>1. States(s, n) \in Int
  BY DEF States
<1>2. s \in LuaState => s.memory_monitor \in Nat
  BY StateFields
<1>3. Memory(s) \in Int
  BY <1>2 DEF Memory
<1> QED BY <1>1, <1>3

(* It keeps the invariant if it counts what it does.                       *)
LEMMA PlainStep ==
    ASSUME CountInv, MonitorOK, NEW w \in Workers, NEW s, NEW n, NoLosses,
           s \in LuaState \cup {None}, s # None => MemOK(s),
           n \in Places, n \in {"report", "close", "closed"} => s # None,
           state' = [state EXCEPT ![w] = s], at' = [at EXCEPT ![w] = n],
           served' \in Nat,
           Adds("states_n", States(s, n) - States(state[w], at[w])),
           Adds("requests_n", 0),
           Adds("memory_used", Memory(s) - Memory(state[w])),
           Adds("request_count", served' - served)
    PROVE  CountInv'
<1>1. Becomes(w, s, queued[w], n) /\ Losses
  BY Before DEF Becomes, Losses, NoLosses
<1>2. /\ States(s, n) \in Int /\ States(state[w], at[w]) \in Int
      /\ Memory(s) \in Int /\ Memory(state[w]) \in Int
  <2>1. state[w] \in LuaState \cup {None}
    BY Before
  <2> QED BY <2>1, SharesTyped
<1>3. /\ lost["states_n"] \in Nat /\ lost["requests_n"] \in Nat /\ lost["memory_used"] \in Nat
      /\ queued[w] \in Nat /\ uncounted \in Nat
  BY Before
<1>4. /\ States(s, n) - States(state[w], at[w]) + lost'["states_n"] - lost["states_n"]
         - (uncounted' - uncounted) = States(s, n) - States(state[w], at[w])
      /\ queued[w] - queued[w] + lost'["requests_n"] - lost["requests_n"] = 0
      /\ Memory(s) - Memory(state[w]) + lost'["memory_used"] - lost["memory_used"]
         = Memory(s) - Memory(state[w])
  BY <1>2, <1>3 DEF NoLosses
<1>5. CountsUp(w, s, queued[w], n)
  BY <1>4 DEF CountsUp
<1> QED BY <1>1, <1>5, CountedStep

(* The limit is a number.                                                  *)
LEMMA MaxTyped == setup \in Setups => setup.max \in Nat
<1> SUFFICES ASSUME setup \in Setups
             PROVE  setup.max \in Nat
  OBVIOUS
<1>1. Setup(setup)
  BY MonitorAssumption DEF MonitorAssumption
<1> QED BY <1>1 DEF Setup

(* A state that was just made has no memory yet.                           *)
LEMMA NewStateOK ==
    ASSUME NEW p \in Nat, setup \in Setups,
           NEW t, t = [NewState EXCEPT !.profiler = p]
    PROVE  t \in LuaState /\ MemOK(t) /\ t.memory_monitor = 0
<1>1. /\ t \in LuaState /\ t.blocks = [b \in Blocks |-> 0] /\ t.memory_used = 0
      /\ t.memory_monitor = 0 /\ t.in_use = TRUE
  BY DEF NewState, LuaState
<1>2. Total(t.blocks) = 0
  BY <1>1, WordFacts, TotalZero
<1>3. setup.max \in Nat
  BY MaxTyped
<1> QED BY <1>1, <1>2, <1>3 DEF MemOK

(* A request takes a Lua state that is counted, or counts a new one.       *)
LEMMA AcquireCounts ==
    ASSUME CountInv, MonitorOK, NEW w \in Workers, Acquire(w)
    PROVE  CountInv'
<1> DEFINE s == state[w]
<1>1. /\ NoLosses /\ UNCHANGED at /\ at[w] = "loop" /\ served' = served
      /\ at' = [at EXCEPT ![w] = "loop"] /\ "loop" \in Places
  BY Before DEF Acquire, NoLosses, Places
<1>2. monitor.profiler \in Nat /\ setup \in Setups /\ served \in Nat
  BY Before DEF MonitorOK, CountInv, Typed
<1>3. CASE s = None
  <2> DEFINE t == [NewState EXCEPT !.profiler = monitor.profiler]
  <2>1. state' = [state EXCEPT ![w] = t] /\ FetchAdd("states_n", 1)
    BY <1>3 DEF Acquire
  <2>2. t \in LuaState /\ MemOK(t) /\ t.memory_monitor = 0
    BY <1>2, NewStateOK
  <2> HIDE DEF t
  <2>3. t # None
    BY <2>2, StateFields
  <2>4. /\ States(t, "loop") - States(state[w], at[w]) = 1
        /\ Memory(t) - Memory(state[w]) = 0
        /\ served' - served = 0
    BY <1>1, <1>2, <1>3, <2>2, <2>3 DEF States, Memory
  <2>5. /\ Adds("states_n", 1) /\ Adds("requests_n", 0)
        /\ Adds("memory_used", 0) /\ Adds("request_count", 0)
    BY <2>1, OneAdds
  <2> QED BY <1>1, <1>2, <2>1, <2>2, <2>3, <2>4, <2>5, PlainStep
<1>4. CASE s # None
  <2> DEFINE t == [s EXCEPT !.in_use = TRUE, !.ran = "not yet", !.profiler = monitor.profiler]
  <2>1. /\ s \in LuaState /\ MemOK(s)
        /\ UNCHANGED <<setup, monitor, queued, at, lost, uncounted, served>>
    BY <1>4, Before DEF Acquire
  <2>2. state' = [state EXCEPT ![w] = t]
    BY <1>4, <2>1, Before DEF Acquire, CountInv, Typed
  <2>3. /\ t \in LuaState /\ t.blocks = s.blocks /\ t.memory_used = s.memory_used
        /\ t.in_use = TRUE /\ t.memory_monitor = s.memory_monitor
    BY <1>2, <2>1 DEF LuaState
  <2> HIDE DEF t
  <2>4. MemOK(t) /\ t # None
    BY <2>1, <2>3, StateFields DEF MemOK
  <2>5. Quiet(w, t, "loop")
    BY <1>4, <2>1, <2>2, <2>3, <2>4 DEF Quiet
  <2> QED BY <2>5, QuietStep
<1> QED BY <1>3, <1>4

(* A state that cannot be initialized.                                     *)
LEMMA FailCounts ==
    ASSUME CountInv, MonitorOK, NEW w \in Workers, FailToCreate(w)
    PROVE  CountInv'
<1>1. /\ UNCHANGED <<setup, state, queued, at, lost, served>> /\ uncounted' = uncounted + 1
      /\ FetchAdd("states_n", -1)
  BY DEF FailToCreate, workerVars
<1>2. Becomes(w, state[w], queued[w], at[w]) /\ Losses
  BY <1>1, Before DEF Becomes, Losses
<1>3. /\ Adds("states_n", -1) /\ Adds("requests_n", 0)
      /\ Adds("memory_used", 0) /\ Adds("request_count", 0)
  BY <1>1, OneAdds
<1>4. /\ States(state[w], at[w]) \in Int /\ Memory(state[w]) \in Int
      /\ lost["states_n"] \in Nat /\ lost["requests_n"] \in Nat /\ lost["memory_used"] \in Nat
      /\ queued[w] \in Nat /\ uncounted \in Nat /\ served \in Nat
  BY Before DEF States, Memory
<1>5. /\ States(state[w], at[w]) - States(state[w], at[w]) + lost'["states_n"]
         - lost["states_n"] - (uncounted' - uncounted) = -1
      /\ queued[w] - queued[w] + lost'["requests_n"] - lost["requests_n"] = 0
      /\ Memory(state[w]) - Memory(state[w]) + lost'["memory_used"] - lost["memory_used"] = 0
      /\ served' - served = 0
  BY <1>1, <1>4
<1>6. CountsUp(w, state[w], queued[w], at[w])
  BY <1>3, <1>5 DEF CountsUp
<1> QED BY <1>2, <1>6, CountedStep

(* An idle state that times out is counted until it is closed.             *)
LEMMA TimeoutCounts ==
    ASSUME CountInv, NEW w \in Workers, Timeout(w)
    PROVE  CountInv'
<1>1. Quiet(w, state[w], "close")
  BY Before DEF Timeout, Goto, Quiet, Places
<1> QED BY <1>1, QuietStep

(* A request is counted when it gives its Lua state back.                  *)
LEMMA ReleaseCounts ==
    ASSUME CountInv, MonitorOK, NEW w \in Workers, Release(w)
    PROVE  CountInv'
<1> DEFINE s == state[w]
           t == [s EXCEPT !.ran = "ran"]
<1>1. s \in LuaState /\ MemOK(s) /\ served \in Nat
  BY Before DEF Release
<1>2. /\ NoLosses /\ state' = [state EXCEPT ![w] = t] /\ FetchAdd("request_count", 1)
      /\ served' = served + 1 /\ at[w] = "loop"
  BY DEF Release, NoLosses
<1>3. PICK n \in {"close", "report"} : at' = [at EXCEPT ![w] = n]
  BY DEF Release, Goto
<1>4. /\ t \in LuaState /\ t.blocks = s.blocks /\ t.memory_used = s.memory_used
      /\ t.in_use = s.in_use /\ t.memory_monitor = s.memory_monitor
  BY <1>1 DEF LuaState
<1>5. s # None
  BY DEF Release
<1> HIDE DEF t
<1>6. MemOK(t) /\ t # None
  BY <1>1, <1>4, StateFields DEF MemOK
<1>7. /\ States(t, n) - States(state[w], at[w]) = 0
      /\ Memory(t) - Memory(state[w]) = 0
      /\ served' - served = 1
  <2>1. States(t, n) = 1 /\ States(state[w], at[w]) = 1
    BY <1>2, <1>3, <1>5, <1>6 DEF States
  <2>2. Memory(t) = s.memory_monitor /\ Memory(s) = s.memory_monitor
    BY <1>4, <1>5, <1>6 DEF Memory
  <2>3. s.memory_monitor \in Nat
    BY <1>1, StateFields
  <2> QED BY <1>1, <1>2, <2>1, <2>2, <2>3
<1>8. /\ Adds("states_n", 0) /\ Adds("requests_n", 0)
      /\ Adds("memory_used", 0) /\ Adds("request_count", 1)
  BY <1>2, OneAdds
<1>9. n \in Places /\ served' \in Nat
  BY <1>1, <1>2, <1>3 DEF Places
<1> QED BY <1>2, <1>3, <1>4, <1>6, <1>7, <1>8, <1>9, PlainStep

(* What is reported of a state: its memory, less what was collected.       *)
LEMMA CollectedOK ==
    ASSUME setup \in Setups, NEW s \in LuaState, MemOK(s), NEW t \in Collected(s)
    PROVE  /\ t \in LuaState /\ t.memory_monitor = s.memory_monitor
           /\ t.memory_used = Total(t.blocks)
           /\ limited => t.memory_used <= setup.max
<1> DEFINE used == IF limited THEN s.memory_used ELSE Total(s.blocks)
<1>1. /\ s.blocks \in [Blocks -> Nat] /\ s.memory_used \in Nat
      /\ Total(s.blocks) \in Nat
  BY StateFields, WordFacts, TotalNat
<1>2. used = Total(s.blocks) /\ used \in Nat /\ (limited => used <= setup.max)
  BY <1>1 DEF MemOK
<1>3. CASE t = [s EXCEPT !.memory_used = used]
  <2> HIDE DEF used
  <2>1. /\ t \in LuaState /\ t.memory_monitor = s.memory_monitor
        /\ t.memory_used = used /\ t.blocks = s.blocks
    BY <1>2, <1>3 DEF LuaState
  <2> QED BY <2>1, <1>2
<1>4. ASSUME NEW garbage \in SUBSET Blocks, NEW h, NEW r,
             h = [b \in Blocks |-> IF b \in garbage THEN 0 ELSE s.blocks[b]],
             r = [b \in garbage |-> s.blocks[b]],
             t = [s EXCEPT !.blocks = h, !.memory_used = used - Total(r)]
      PROVE  /\ t \in LuaState /\ t.memory_monitor = s.memory_monitor
             /\ t.memory_used = Total(t.blocks)
             /\ limited => t.memory_used <= setup.max
  <2>1. h \in [Blocks -> Nat] /\ r \in [garbage -> Nat] /\ IsFiniteSet(garbage)
    BY <1>1, <1>4, WordFacts, FS_Subset
  <2>2. Total(h) = Total(s.blocks) - Total(r)
    BY <1>1, <1>4, WordFacts, TotalSplit
  <2>3. Total(h) \in Nat /\ Total(r) \in Nat
    BY <2>1, WordFacts, TotalNat
  <2> DEFINE u == used - Total(r)
  <2>4. u = Total(h) /\ u \in Nat /\ (limited => u <= setup.max)
    <3>1. u = Total(h) /\ u <= used
      BY <1>2, <2>2, <2>3
    <3>2. setup.max \in Nat
      BY MaxTyped
    <3> QED BY <3>1, <3>2, <1>2, <2>3
  <2>5. t = [s EXCEPT !.blocks = h, !.memory_used = u]
    BY <1>4
  <2> HIDE DEF u, used
  <2>6. /\ t \in LuaState /\ t.memory_monitor = s.memory_monitor
        /\ t.memory_used = u /\ t.blocks = h
    BY <2>1, <2>4, <2>5 DEF LuaState
  <2> QED BY <2>4, <2>6
<1>5. \/ t = [s EXCEPT !.memory_used = used]
      \/ \E garbage \in SUBSET Blocks :
            t = [s EXCEPT !.blocks = [b \in Blocks |-> IF b \in garbage THEN 0 ELSE s.blocks[b]],
                          !.memory_used = used - Total([b \in garbage |-> s.blocks[b]])]
  BY DEF Collected
<1> HIDE DEF used
<1> QED BY <1>3, <1>4, <1>5

(* What a Lua state reports is by how much its memory has changed.         *)
LEMMA ReportCounts ==
    ASSUME CountInv, MonitorOK, NEW w \in Workers, Report(w)
    PROVE  CountInv'
<1> DEFINE s == state[w]
<1>1. s # None /\ s \in LuaState /\ MemOK(s) /\ served \in Nat
  BY Before DEF Report
<1>2. PICK t \in Collected(s) : /\ FetchAdd("memory_used", t.memory_used - t.memory_monitor)
                                /\ state' = [state EXCEPT ![w] = Reported(t)]
  BY DEF Report
<1>3. /\ NoLosses /\ served' = served /\ at[w] = "report" /\ at' = [at EXCEPT ![w] = "loop"]
      /\ "loop" \in Places
  BY DEF Report, NoLosses, Goto, Places
<1>4. /\ t \in LuaState /\ t.memory_monitor = s.memory_monitor
      /\ t.memory_used = Total(t.blocks)
      /\ limited => t.memory_used <= setup.max
  BY <1>1, CollectedOK DEF CountInv, Typed
<1> DEFINE z == Reported(t)
<1>5. /\ z \in LuaState /\ z.blocks = t.blocks /\ z.memory_used = t.memory_used
      /\ z.in_use = FALSE /\ z.memory_monitor = t.memory_used
  BY <1>4 DEF Reported, LuaState
<1> HIDE DEF z
<1>6. MemOK(z) /\ z # None
  BY <1>4, <1>5, StateFields DEF MemOK
<1>7. States(z, "loop") - States(state[w], at[w]) = 0
  <2>1. States(z, "loop") = 1 /\ States(state[w], at[w]) = 1
    BY <1>1, <1>3, <1>6 DEF States
  <2> QED BY <2>1
<1>8. Memory(z) - Memory(state[w]) = t.memory_used - t.memory_monitor
  BY <1>1, <1>4, <1>5, <1>6 DEF Memory
<1>9. /\ Adds("states_n", 0) /\ Adds("requests_n", 0)
      /\ Adds("memory_used", t.memory_used - t.memory_monitor) /\ Adds("request_count", 0)
  BY <1>2, OneAdds
<1>10. served' - served = 0 /\ served' \in Nat
  BY <1>1, <1>3
<1>11. state' = [state EXCEPT ![w] = z]
  BY <1>2 DEF z
<1> QED BY <1>3, <1>5, <1>6, <1>7, <1>8, <1>9, <1>10, <1>11, PlainStep

(* A state that is closed is no longer counted, and then ...               *)
LEMMA CloseCounts ==
    ASSUME CountInv, MonitorOK, NEW w \in Workers, Close(w)
    PROVE  CountInv'
<1> DEFINE s == state[w]
<1>1. /\ s # None /\ s \in LuaState /\ MemOK(s) /\ served \in Nat
      /\ state = [state EXCEPT ![w] = s] /\ Memory(s) \in Int
  BY Before, SharesTyped DEF Close
<1>2. /\ NoLosses /\ served' = served /\ at[w] = "close" /\ at' = [at EXCEPT ![w] = "closed"]
      /\ "closed" \in Places /\ state' = state /\ FetchAdd("states_n", -1)
  BY DEF Close, NoLosses, Goto, Places
<1>3. States(s, "closed") - States(state[w], at[w]) = -1
  <2>1. States(s, "closed") = 0 /\ States(state[w], at[w]) = 1
    BY <1>1, <1>2 DEF States
  <2> QED BY <2>1
<1>4. Memory(s) - Memory(state[w]) = 0 /\ served' - served = 0 /\ served' \in Nat
  BY <1>1, <1>2
<1>5. /\ Adds("states_n", -1) /\ Adds("requests_n", 0)
      /\ Adds("memory_used", 0) /\ Adds("request_count", 0)
  BY <1>2, OneAdds
<1>6. state' = [state EXCEPT ![w] = s]
  BY <1>1, <1>2
<1> HIDE DEF s
<1> QED BY <1>1, <1>2, <1>3, <1>4, <1>5, <1>6, PlainStep, ZenonT(60)

(* ... neither is the memory it had reported.                              *)
LEMMA ClosedCounts ==
    ASSUME CountInv, MonitorOK, NEW w \in Workers, Closed(w)
    PROVE  CountInv'
<1> DEFINE s == state[w]
<1>1. /\ s # None /\ s \in LuaState /\ served \in Nat /\ s.memory_monitor \in Nat
  BY Before DEF Closed
<1>2. /\ NoLosses /\ served' = served /\ at[w] = "closed" /\ at' = [at EXCEPT ![w] = "loop"]
      /\ "loop" \in Places /\ state' = [state EXCEPT ![w] = None]
      /\ FetchAdd("memory_used", -s.memory_monitor)
  BY DEF Closed, NoLosses, Goto, Places, Share
<1>3. States(None, "loop") - States(state[w], at[w]) = 0
  <2>1. States(None, "loop") = 0 /\ States(state[w], at[w]) = 0
    BY <1>2 DEF States
  <2> QED BY <2>1
<1>4. Memory(None) - Memory(state[w]) = -s.memory_monitor
  BY <1>1 DEF Memory
<1>5. served' - served = 0 /\ served' \in Nat
  BY <1>1, <1>2
<1>6. /\ Adds("states_n", 0) /\ Adds("requests_n", 0)
      /\ Adds("memory_used", -s.memory_monitor) /\ Adds("request_count", 0)
  BY <1>2, OneAdds
<1> QED BY <1>2, <1>3, <1>4, <1>5, <1>6, PlainStep

(* A crash: what the worker held is lost, and still counted.               *)
LEMMA CrashCounts ==
    ASSUME CountInv, NEW w \in Workers, Crash(w)
    PROVE  CountInv'
<1> DEFINE s == state[w]
<1>1. Typed
  BY DEF CountInv
<1>2. /\ lost["states_n"] \in Nat /\ lost["requests_n"] \in Nat /\ lost["memory_used"] \in Nat
      /\ queued[w] \in Nat /\ uncounted \in Nat /\ served \in Nat /\ DOMAIN lost = Counters
      /\ States(s, at[w]) \in Int /\ Memory(s) \in Int
      /\ \A c \in Counters : lost[c] \in Nat
  BY Before, SharesTyped
<1>3. /\ Holds(w, "states_n") = States(s, at[w])
      /\ Holds(w, "requests_n") = queued[w]
      /\ Holds(w, "memory_used") = Memory(s)
      /\ \A c \in Counters : Holds(w, c) \in Nat
  BY <1>1, HoldsFacts DEF States, Memory
<1>4. /\ state' = [state EXCEPT ![w] = None] /\ queued' = [queued EXCEPT ![w] = 0]
      /\ at' = [at EXCEPT ![w] = "loop"]
      /\ UNCHANGED <<setup, monitor, uncounted, served>>
      /\ lost' = [c \in Counters |-> lost[c] + Holds(w, c)]
  BY <1>2 DEF Crash, Goto
<1>5. /\ DOMAIN lost' = Counters /\ \A c \in Counters : lost'[c] \in Nat
      /\ lost'["states_n"] = lost["states_n"] + States(s, at[w])
      /\ lost'["requests_n"] = lost["requests_n"] + queued[w]
      /\ lost'["memory_used"] = lost["memory_used"] + Memory(s)
  BY <1>2, <1>3, <1>4 DEF Counters
<1>6. Becomes(w, None, 0, "loop") /\ Losses
  BY <1>2, <1>4, <1>5 DEF Becomes, Losses, Places
<1>7. States(None, "loop") = 0 /\ Memory(None) = 0
  BY DEF States, Memory
<1>8. /\ States(None, "loop") - States(state[w], at[w]) + lost'["states_n"]
         - lost["states_n"] - (uncounted' - uncounted) = 0
      /\ 0 - queued[w] + lost'["requests_n"] - lost["requests_n"] = 0
      /\ Memory(None) - Memory(state[w]) + lost'["memory_used"] - lost["memory_used"] = 0
      /\ served' - served = 0
  BY <1>2, <1>4, <1>5, <1>7
<1>9. /\ Adds("states_n", 0) /\ Adds("requests_n", 0)
      /\ Adds("memory_used", 0) /\ Adds("request_count", 0)
  BY <1>4 DEF Adds
<1>10. CountsUp(w, None, 0, "loop")
  BY <1>8, <1>9 DEF CountsUp
<1> QED BY <1>6, <1>10, CountedStep

(* Nothing is counted at first.                                            *)
LEMMA InitCounts == Init => CountInv
<1> SUFFICES ASSUME Init
             PROVE  CountInv
  OBVIOUS
<1>1. Typed
  BY DEF Init, Typed, Counters, Places
<1>2. ASSUME NEW c \in Counters
      PROVE  monitor[c] = Balance(c) % Word
  <2>1. \A w \in Workers : Holds(w, c) = 0
    BY DEF Init, Holds, Counters
  <2>2. Held(c) = 0
    <3>1. Held(c) = Total(HeldBy(c))
      BY SumIsTotal
    <3>2. DOMAIN HeldBy(c) = Workers /\ \A w \in Workers : HeldBy(c)[w] = 0
      BY <2>1 DEF HeldBy
    <3> QED BY <3>1, <3>2, WordFacts, TotalZero
  <2>3. lost[c] = 0 /\ uncounted = 0 /\ monitor[c] = 0
    BY DEF Init, NewMonitor, Counters
  <2>4. Balance(c) = 0
    BY <2>2, <2>3 DEF Balance
  <2> QED BY <2>3, <2>4, ZeroWord
<1>3. monitor.request_count = served % Word
  BY ZeroWord DEF Init, NewMonitor
<1>4. CountersAddUp
  BY <1>1, <1>2, <1>3 DEF CountersAddUp, Balance, Typed
<1>5. MemoryAccounted
  BY DEF Init, MemoryAccounted
<1> QED BY <1>1, <1>4, <1>5 DEF CountInv

(* Every step keeps the invariant.                                         *)
LEMMA NextCounts == CountInv /\ MonitorOK /\ [Next]_vars => CountInv'
<1> SUFFICES ASSUME CountInv, MonitorOK, [Next]_vars
             PROVE  CountInv'
  OBVIOUS
<1>1. CASE UNCHANGED vars
  <2>1. /\ UNCHANGED <<setup, monitor, state, queued, at, lost, uncounted, served>>
    BY <1>1 DEF vars, workerVars
  <2>4. ASSUME NEW c \in Counters
        PROVE  Held(c)' = Held(c)
    <3>1. \A w \in Workers : Holds(w, c)' = Holds(w, c)
      BY <2>1 DEF Holds
    <3>2. HeldBy(c)' = HeldBy(c)
      BY <3>1 DEF HeldBy
    <3>3. Held(c) = Total(HeldBy(c)) /\ Held(c)' = Total(HeldBy(c)')
      BY SumIsTotal, TotalsNext DEF Totals
    <3> QED BY <3>2, <3>3
  <2>2. CountersAddUp'
    BY <2>1, <2>4 DEF CountInv, CountersAddUp, Typed
  <2>3. MemoryAccounted'
    BY <2>1 DEF CountInv, MemoryAccounted, limited
  <2> QED BY <2>1, <2>2, <2>3 DEF CountInv, Typed
<1>2. ASSUME NEW w \in Workers, Handler(w)
      PROVE  CountInv'
  BY <1>2, QueueCounts, AcquireCounts, FailCounts, TimeoutCounts, ReleaseCounts, ReportCounts,
     CloseCounts, ClosedCounts DEF Handler
<1> QED BY <1>1, <1>2, PostCounts, ThreadCounts, CrashCounts DEF Next

(* The invariant holds; that the monitor is a record is from the other.    *)
LEMMA CountsInvariant == Spec => []CountInv
<1>1. Spec => []SwitchInv
  <2>1. SwitchInv /\ [Next]_vars => SwitchInv'
    BY NextSwitch
  <2> QED BY <2>1, InitSwitch, PTL DEF Spec
<1>2. SwitchInv => MonitorOK
  BY DEF SwitchInv
<1> QED BY <1>1, <1>2, InitCounts, NextCounts, PTL DEF Spec

(* The counters that the workers share (ngx_atomic_fetch_add) add up at    *)
(* every moment, modulo the word, whatever the workers are at and however  *)
(* many have crashed: states_n, requests_n and memory_used to what the     *)
(* workers hold and have lost, and request_count to the requests served.   *)
THEOREM CountersAlwaysAddUp == Spec => []CountersAddUp
<1>1. CountInv => CountersAddUp
  BY DEF CountInv
<1> QED BY <1>1, CountsInvariant, PTL

(* What lws_alloc_checked counts for a limited Lua state is what its blocks*)
(* take, never more than lws_state_memory_max; and what any idle Lua state *)
(* has reported to the monitor is what its blocks take.                    *)
THEOREM MemoryIsAccounted == Spec => []MemoryAccounted
<1>1. CountInv => MemoryAccounted
  BY DEF CountInv
<1> QED BY <1>1, CountsInvariant, PTL
===============================================================================
