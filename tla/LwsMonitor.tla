------------------------------ MODULE LwsMonitor ------------------------------
(***************************************************************************)
(* The counters and the profiler switch of the monitor, in memory that all *)
(* worker processes of NGINX share (lws_monitor.c), and what the workers   *)
(* do to them: Lua states are created, serve requests and are closed       *)
(* (lws_state.c), requests are queued (lws_module.c), POST requests turn   *)
(* the switch, a worker crashes.  Each Lua state keeps account of its own  *)
(* memory in its allocator, and the workers report it.                     *)
(*                                                                         *)
(* The steps of a worker are as small as its accesses to shared memory: an *)
(* ngx_atomic_fetch_add or ngx_atomic_cmp_set each.  Every worker has one  *)
(* event loop, "at" some point of a handler or free, and one Lua state at  *)
(* most, which a thread of the pool runs; how many states a worker has is  *)
(* the matter of LwsStates.  What GET reports is these counters as it      *)
(* reads them, one by one.                                                 *)
(*                                                                         *)
(* A definition named X_<Mistake> is X with a plausible mistake in it.  No *)
(* specification uses it; it serves to see that a property depends on X.   *)
(***************************************************************************)
EXTENDS Integers, Sequences, FiniteSetsExt, Functions

CONSTANTS Workers,
          None,
          Word,      \* 2^w of the words the counters are kept in
          Blocks,    \* the memory blocks of a Lua state
          Tags,      \* what Lua passes as the old size of a new block
          Setups     \* the configurations in question

(* A configuration: lws_state_memory_max (0 = unlimited) and lws_gc (0 =   *)
(* never), the sizes a Lua state asks for, the bodies of POST requests,    *)
(* sequences of pairs.  Bounds: the requests that a worker has queued, and *)
(* in all those served, the POST requests, and the crashes (and the states *)
(* that cannot be initialized).  Lua refuses a size of half the address    *)
(* space by itself (luaM_toobig).                                          *)
Setup(s) ==
    /\ DOMAIN s = {"max", "gc", "sizes", "bodies", "queued", "requests", "posts", "crashes"}
    /\ s.sizes \subseteq 1 .. Word \div 2 - 1
    /\ s.max \in 0 .. Word \div 2 - 1
    /\ {s.gc, s.queued, s.requests, s.posts, s.crashes} \subseteq Nat

(* A Lua state: used by a request; the memory blocks it really has; the    *)
(* fields of lws_state_t; and whether the profiler's hook is set.          *)
LuaState == [in_use : BOOLEAN, blocks : [Blocks -> Nat], memory_used : Nat,
             memory_monitor : Nat, profiler : Nat, close : BOOLEAN, hook : BOOLEAN,
             ran : {"not yet", "runs", "ran"}]

ASSUME MonitorAssumption ==
    /\ IsFiniteSet(Workers)
    /\ IsFiniteSet(Blocks)
    /\ None \notin Workers \cup LuaState
    /\ Word \in Nat \ {0}
    /\ Tags \subseteq Nat
    /\ \A s \in Setups : Setup(s)

VARIABLES setup,     \* the configuration, which does not change
          monitor,   \* the lws_monitor_t: its counters and "profiler"
          state,     \* the lws_state_t of each worker, or None
          queued,    \* llcf->requests_n of each worker
          at,        \* where the event loop of each worker is, "loop" if free
          post,      \* the POST request that each worker is at, or NoPost
          \* What really happens.
          lost,      \* what crashed workers have left in the counters
          uncounted, \* the states that were closed before they were counted
          served,    \* the requests that were served
          posts,     \* the POST requests so far
          crashes    \* the crashes so far

workerVars == <<state, queued, at, post>>

vars == <<setup, monitor, workerVars, lost, uncounted, served, posts, crashes>>

limited == setup.max # 0

NewMonitor == [states_n |-> 0, requests_n |-> 0, memory_used |-> 0, request_count |-> 0,
               profiler |-> 0]

(* A state that was just made, for a request.                              *)
NewState == [in_use |-> TRUE, blocks |-> [b \in Blocks |-> 0], memory_used |-> 0,
             memory_monitor |-> 0, profiler |-> 0, close |-> FALSE, hook |-> FALSE,
             ran |-> "not yet"]

(* A POST request: the pairs that are left of its body, and the status it  *)
(* is refused with; and whether the profiler was disabled, and enabled, at *)
(* some moment since the request came.                                     *)
NewPost(body) == [pairs |-> body, status |-> 0, disabled |-> FALSE, enabled |-> FALSE]

NoPost == NewPost(<<>>)

Init == /\ setup \in Setups
        /\ monitor = NewMonitor
        /\ state = [w \in Workers |-> None]
        /\ queued = [w \in Workers |-> 0]
        /\ at = [w \in Workers |-> "loop"]
        /\ post = [w \in Workers |-> NoPost]
        /\ lost = [states_n |-> 0, requests_n |-> 0, memory_used |-> 0]
        /\ uncounted = 0
        /\ served = 0
        /\ posts = 0
        /\ crashes = 0

(* ngx_atomic_fetch_add, of d or of what d is as a word.                   *)
FetchAdd(counter, d) == monitor' = [monitor EXCEPT ![counter] = (@ + d) % Word]

Goto(w, next) == at' = [at EXCEPT ![w] = next]

-------------------------------------------------------------------------------
(* Memory, in the thread that runs the Lua state.                          *)

Total(blocks) == FoldFunction(LAMBDA x, y : x + y, 0, blocks)

(* lws_alloc_checked: what memory_used becomes when a block goes from osize*)
(* to nsize.                                                               *)
NewUsed_Tagged(s, b, tag, nsize) ==
    (s.memory_used - (IF s.blocks[b] = 0 THEN tag ELSE s.blocks[b]) + nsize) % Word

NewUsed(s, b, tag, nsize) == (s.memory_used - s.blocks[b] + nsize) % Word

IsAllowed_Below(s, used) == s.memory_used <= setup.max

IsAllowed(s, used) == used <= setup.max

(* The thread calls the allocator.  A refusal, or a realloc that fails, is *)
(* nothing that happens here.                                              *)
Runs(w) == state[w] # None /\ state[w].in_use /\ state[w].ran = "runs"

Reallocate(w) ==
    /\ Runs(w)
    /\ \E b \in Blocks, nsize \in setup.sizes \cup {0}, tag \in Tags :
          LET s    == state[w]
              used == NewUsed(s, b, tag, nsize)
          IN  /\ nsize # s.blocks[b]
              /\ limited /\ nsize # 0 => IsAllowed(s, used)
              /\ state' = [state EXCEPT ![w].blocks[b] = nsize,
                                        ![w].memory_used = IF limited THEN used ELSE @]
    /\ UNCHANGED <<setup, monitor, queued, at, post, lost, uncounted, served, posts, crashes>>

(* lws_run, as far as the profiler goes: it is started and stopped by the  *)
(* switch as it was when the request acquired the state; not if a chunk    *)
(* fails, but then the state is marked for close.                          *)
StartRun(w) ==
    /\ state[w] # None /\ state[w].in_use /\ state[w].ran = "not yet"
    /\ state' = [state EXCEPT ![w].ran = "runs", ![w].hook = state[w].profiler # 0]
    /\ UNCHANGED <<setup, monitor, queued, at, post, lost, uncounted, served, posts, crashes>>

IsProfiled_Now(s) == monitor.profiler # 0

IsProfiled(s) == s.profiler # 0

EndRun(w) ==
    /\ Runs(w)
    /\ \E failed \in BOOLEAN :
          state' = [state EXCEPT ![w].ran = "ran",
                                 ![w].close = failed,
                                 ![w].hook = IF ~failed /\ IsProfiled(state[w]) THEN FALSE ELSE @]
    /\ UNCHANGED <<setup, monitor, queued, at, post, lost, uncounted, served, posts, crashes>>

-------------------------------------------------------------------------------
(* Requests and Lua states, in the event loop of a worker.                 *)

(* lws_body_handler puts a request into the queue, lws_queue_handler takes *)
(* it out.                                                                 *)
Queue(w) == /\ at[w] = "loop"
            /\ queued[w] < setup.queued
            /\ queued' = [queued EXCEPT ![w] = @ + 1]
            /\ FetchAdd("requests_n", 1)
            /\ UNCHANGED <<setup, state, at, post, lost, uncounted, served, posts, crashes>>

Dequeue(w) == /\ at[w] = "loop"
              /\ queued[w] > 0
              /\ queued' = [queued EXCEPT ![w] = @ - 1]
              /\ FetchAdd("requests_n", -1)
              /\ UNCHANGED <<setup, state, at, post, lost, uncounted, served, posts, crashes>>

(* lws_acquire_state: a request gets the idle state, or a new one.         *)
Acquire(w) == /\ at[w] = "loop"
              /\ served < setup.requests
              /\ \/ /\ state[w] = None
                    /\ state' = [state EXCEPT ![w] = [NewState EXCEPT
                                                        !.profiler = monitor.profiler]]
                    /\ FetchAdd("states_n", 1)
                 \/ /\ state[w] # None
                    /\ ~state[w].in_use
                    /\ state' = [state EXCEPT ![w].in_use = TRUE, ![w].ran = "not yet",
                                              ![w].profiler = monitor.profiler]
                    /\ UNCHANGED monitor
              /\ UNCHANGED <<setup, queued, at, post, lost, uncounted, served, posts, crashes>>

(* A state that cannot be initialized is closed, which takes one from a    *)
(* counter that the state was not added to (lws_create_state).             *)
FailToCreate(w) == /\ at[w] = "loop"
                   /\ state[w] = None
                   /\ served < setup.requests
                   /\ uncounted < setup.crashes
                   /\ uncounted' = uncounted + 1
                   /\ FetchAdd("states_n", -1)
                   /\ UNCHANGED <<setup, workerVars, lost, served, posts, crashes>>

(* lws_release_state, also for a request that no thread could be given:    *)
(* the request is counted; the state is closed if it is marked, or due by  *)
(* its age or number of requests, ...                                      *)
Release(w) == /\ at[w] = "loop"
              /\ state[w] # None /\ state[w].in_use /\ state[w].ran # "runs"
              /\ FetchAdd("request_count", 1)
              /\ state' = [state EXCEPT ![w].ran = "ran"]
              /\ served' = served + 1
              /\ \E due \in BOOLEAN : Goto(w, IF state[w].close \/ due THEN "close" ELSE "report")
              /\ UNCHANGED <<setup, queued, post, lost, uncounted, posts, crashes>>

(* ... else its memory is measured, and collected if there is much of it,  *)
(* and reported.                                                           *)
Collected(s) ==
    LET used == IF limited THEN s.memory_used ELSE Total(s.blocks) IN
    IF setup.gc = 0 \/ used <= setup.gc
    THEN {[s EXCEPT !.memory_used = used]}
    ELSE {[s EXCEPT !.blocks = [b \in Blocks |-> IF b \in garbage THEN 0 ELSE @[b]],
                    !.memory_used = used - Total([b \in garbage |-> s.blocks[b]])]
             : garbage \in SUBSET Blocks}

Reported_Unnoted(s) == [s EXCEPT !.in_use = FALSE]

Reported(s) == [s EXCEPT !.in_use = FALSE, !.memory_monitor = s.memory_used]

Report(w) == /\ at[w] = "report"
             /\ \E s \in Collected(state[w]) :
                   /\ FetchAdd("memory_used", s.memory_used - s.memory_monitor)
                   /\ state' = [state EXCEPT ![w] = Reported(s)]
             /\ Goto(w, "loop")
             /\ UNCHANGED <<setup, queued, post, lost, uncounted, served, posts, crashes>>

(* An idle state times out.                                                *)
Timeout(w) == /\ at[w] = "loop"
              /\ state[w] # None /\ ~state[w].in_use
              /\ Goto(w, "close")
              /\ UNCHANGED <<setup, monitor, state, queued, post, lost, uncounted, served, posts,
                             crashes>>

(* lws_close_state: the state is no longer counted, nor is its memory.     *)
Share_AsUsed(s) == s.memory_used

Share(s) == s.memory_monitor

Close(w) == /\ at[w] = "close"
            /\ FetchAdd("states_n", -1)
            /\ Goto(w, "closed")
            /\ UNCHANGED <<setup, state, queued, post, lost, uncounted, served, posts, crashes>>

Closed(w) == /\ at[w] = "closed"
             /\ FetchAdd("memory_used", -Share(state[w]))
             /\ state' = [state EXCEPT ![w] = None]
             /\ Goto(w, "loop")
             /\ UNCHANGED <<setup, queued, post, lost, uncounted, served, posts, crashes>>

-------------------------------------------------------------------------------
(* POST requests: lws_monitor_body_handler takes the pairs of the body one *)
(* by one, lws_monitor_modification_handler sets what each is about, and   *)
(* the first that is refused ends the request.                             *)
AtPost(w) == at[w] \in {"pair", "retry"}

Noted(p, profiler) == [p EXCEPT !.disabled = @ \/ profiler = 0, !.enabled = @ \/ profiler # 0]

NotedAll(ps, profiler) ==
    [w \in Workers |-> IF AtPost(w) THEN Noted(ps[w], profiler) ELSE ps[w]]

Post(w) == /\ at[w] = "loop"
           /\ posts < setup.posts
           /\ \E body \in setup.bodies :
                 post' = [post EXCEPT ![w] = Noted(NewPost(body), monitor.profiler)]
           /\ posts' = posts + 1
           /\ Goto(w, "pair")
           /\ UNCHANGED <<setup, monitor, state, queued, lost, uncounted, served, crashes>>

postRest == <<setup, state, queued, lost, uncounted, served, posts, crashes>>

IsPair(w, key, values) ==
    /\ at[w] = "pair"
    /\ post[w].pairs # <<>>
    /\ post[w].status = 0
    /\ Head(post[w].pairs).key = key
    /\ Head(post[w].pairs).value \in values

(* A pair is done, with the switch turned to "profiler", or it is refused. *)
Applies(w, profiler) == /\ monitor' = [monitor EXCEPT !.profiler = profiler]
                        /\ post' = NotedAll([post EXCEPT ![w].pairs = Tail(@)], profiler)
                        /\ Goto(w, "pair")
                        /\ UNCHANGED postRest

Refuses(w, status) == /\ post' = [post EXCEPT ![w].status = status]
                      /\ Goto(w, "pair")
                      /\ UNCHANGED <<monitor, postRest>>

(* ngx_atomic_cmp_set: from one of the disabled and enabled states.        *)
Enabling_Anyway(profiler) == TRUE

Enabling(profiler) == profiler = 0

Enable(w) == /\ IsPair(w, "profiler", {"1", "2"})
             /\ IF Enabling(monitor.profiler)
                THEN Applies(w, IF Head(post[w].pairs).value = "1" THEN 1 ELSE 2)
                ELSE Refuses(w, 409)

(* To disable it takes two tries: from 1, then from 2.                     *)
Disable(w) == /\ IsPair(w, "profiler", {"0"})
              /\ IF monitor.profiler = 1
                 THEN Applies(w, 0)
                 ELSE Goto(w, "retry") /\ UNCHANGED <<monitor, post, postRest>>

Retried_NotAtAll == 1

Retried == 2

Retry(w) == /\ at[w] = "retry"
            /\ IF monitor.profiler = Retried THEN Applies(w, 0) ELSE Refuses(w, 409)

(* Other values are refused; "[]" for functions clears them (LwsProfiler); *)
(* another key is passed over.                                             *)
Other(w) == \/ IsPair(w, "profiler", {"x"}) /\ Refuses(w, 400)
            \/ IsPair(w, "functions", {"x"}) /\ Refuses(w, 400)
            \/ IsPair(w, "functions", {"[]"}) /\ Applies(w, monitor.profiler)
            \/ IsPair(w, "other", {"x"}) /\ Applies(w, monitor.profiler)

(* The request is answered.                                                *)
Answer(w) == /\ at[w] = "pair"
             /\ post[w].pairs = <<>> \/ post[w].status # 0
             /\ post' = [post EXCEPT ![w] = NoPost]
             /\ Goto(w, "loop")
             /\ UNCHANGED <<monitor, postRest>>

-------------------------------------------------------------------------------
(* A worker crashes, at any point, and NGINX starts another one in its     *)
(* place; the shared memory stays as it is.                                *)
Holds(w, counter) ==
    CASE counter = "states_n"    -> IF state[w] # None /\ at[w] # "closed" THEN 1 ELSE 0
      [] counter = "requests_n"  -> queued[w]
      [] counter = "memory_used" -> IF state[w] # None THEN state[w].memory_monitor ELSE 0

Crash(w) == /\ crashes < setup.crashes
            /\ crashes' = crashes + 1
            /\ lost' = [c \in DOMAIN lost |-> lost[c] + Holds(w, c)]
            /\ state' = [state EXCEPT ![w] = None]
            /\ queued' = [queued EXCEPT ![w] = 0]
            /\ post' = [post EXCEPT ![w] = NoPost]
            /\ Goto(w, "loop")
            /\ UNCHANGED <<setup, monitor, uncounted, served, posts>>

Handler(w) == \/ Queue(w) \/ Dequeue(w) \/ Acquire(w) \/ FailToCreate(w) \/ Timeout(w)
              \/ Release(w) \/ Report(w) \/ Close(w) \/ Closed(w)

PostHandler(w) == Post(w) \/ Enable(w) \/ Disable(w) \/ Retry(w) \/ Other(w) \/ Answer(w)

Thread(w) == Reallocate(w) \/ StartRun(w) \/ EndRun(w)

Next == \E w \in Workers : Handler(w) \/ PostHandler(w) \/ Thread(w) \/ Crash(w)

Spec == Init /\ [][Next]_vars

-------------------------------------------------------------------------------
(* Properties.                                                             *)

(* The counters add up at every moment, whatever the workers are at: to    *)
(* what they hold, and have lost in crashes; a state that could not be     *)
(* initialized is taken off though it was never there.                     *)
Held(counter) == FoldFunction(LAMBDA x, y : x + y, 0, [w \in Workers |-> Holds(w, counter)])

CountersAddUp ==
    /\ \A c \in DOMAIN lost :
          monitor[c] = (Held(c) + lost[c] - (IF c = "states_n" THEN uncounted ELSE 0)) % Word
    /\ monitor.request_count = served % Word

(* The memory that the allocator of a limited state counts is what the     *)
(* state really has, and never more than it may have, so that a block can  *)
(* always be made smaller, which Lua relies on.  What an unlimited state   *)
(* reports is what it has then.                                            *)
MemoryAccounted ==
    \A w \in Workers : state[w] # None =>
        LET s == state[w] IN
        /\ limited => s.memory_used = Total(s.blocks) /\ s.memory_used <= setup.max
        /\ ~s.in_use => s.memory_monitor = Total(s.blocks)

(* A state that is free to serve the next request has no hook of the       *)
(* profiler left, though the switch may be turned during the request.      *)
HookCleared == \A w \in Workers : state[w] # None /\ ~state[w].in_use => ~state[w].hook

(* The switch of the profiler is only ever turned between disabled and one *)
(* of the enabled states, by however many POST requests at once; and one   *)
(* that is told of a conflict had one: the profiler was at some moment of  *)
(* the request in the way, disabled already, or enabled                    *)
(* (doc/Monitor.md:105-115).                                               *)
SwitchHonest ==
    [][/\ monitor'.profiler # monitor.profiler => 0 \in {monitor.profiler, monitor'.profiler}
       /\ \A w \in Workers : post'[w].status = 409 =>
             IF Head(post'[w].pairs).value = "0" THEN post'[w].disabled ELSE post'[w].enabled]_vars
===============================================================================
