------------------------------- MODULE LwsStates -------------------------------
(***************************************************************************)
(* The Lua states and the request queue of one location in one NGINX       *)
(* worker process: lws_state.c and the request path of lws_module.c from   *)
(* the body handler to the finalization handler.                           *)
(*                                                                         *)
(* Two kinds of threads run this code.  The event loop thread runs one     *)
(* handler at a time: the body handler of a request, the queue handler,    *)
(* the timer handler of a state, the finalization handler.  The threads of *)
(* the pool run Lua.  Every handler of the event loop is one action, but   *)
(* for the loop of the queue handler, which is one action per round, with  *)
(* pc = "draining" keeping other events out (pool threads stay in).        *)
(*                                                                         *)
(* Time is abstract: an armed state timer may expire at any moment.        *)
(*                                                                         *)
(* A definition named X_<Mistake> is X with a plausible mistake in it.  No *)
(* specification uses it; it serves to see that a property depends on X.   *)
(***************************************************************************)
EXTENDS Naturals, FiniteSets, SequencesExt

CONSTANTS Requests,          \* the HTTP requests that reach the location
          States,            \* the addresses of lws_state_t objects
          NoState,           \* a null ctx->state
          Threads,           \* number of threads of the thread pool
          StatesMax,         \* lws_states_max, 0 = unrestricted
          RequestsMax,       \* lws_requests_max, 0 = unrestricted
          StateRequestsMax,  \* lws_state_requests_max, 0 = unlimited
          HasTimeMax,        \* lws_state_time_max is positive
          HasTimeout,        \* lws_state_timeout is positive
          MaxHops,           \* internal redirects NGINX still allows each request
          Failures,          \* the calls that may fail
          WORD               \* 2^w, w the width of ngx_uint_t

(* The calls whose failure the handlers deal with: the request body stream,*)
(* lua_newstate, the protected call of lws_init, the thread task.          *)
FailingCalls == {"body", "newstate", "init", "post"}

ASSUME StatesAssumption ==
    /\ IsFiniteSet(Requests)
    /\ IsFiniteSet(States)
    /\ NoState \notin States
    /\ Threads \in Nat
    /\ StatesMax \in Nat
    /\ RequestsMax \in Nat
    /\ StateRequestsMax \in Nat
    /\ HasTimeMax \in BOOLEAN
    /\ HasTimeout \in BOOLEAN
    /\ MaxHops \in [Requests -> Nat]
    /\ Failures \subseteq FailingCalls
    /\ WORD \in Nat
    /\ Cardinality(States) < WORD
    /\ StatesMax < WORD

VARIABLES pc,          \* what the event loop thread is in
          pool,        \* the location's Lua states: see Pool
          requests,    \* llcf->requests, the queued requests
          requests_n,  \* llcf->requests_n
          qev,         \* llcf->qev.timer_set
          phase,       \* where each request is
          ctxState,    \* ctx->state of each request
          tasks,       \* the waiting tasks of the thread pool
          hops,        \* internal redirects each request has taken
          reply        \* how each request last ended

vars == <<pc, pool, requests, requests_n, qev, phase, ctxState, tasks, hops, reply>>

Phase == {"new", "queued", "posted", "running", "done", "answered"}

(* A request that holds a Lua state.                                       *)
Active == {r \in Requests : phase[r] \in {"posted", "running", "done"}}

-------------------------------------------------------------------------------
(* Lua states: the lws_state_t objects, the list of idle ones and their    *)
(* number, as the code counts it.  The operators below map such a pool to  *)
(* the pool a call leaves behind.                                          *)

Object == [live : BOOLEAN, in_use : BOOLEAN, close : BOOLEAN, timedout : BOOLEAN,
           timer_set : BOOLEAN, request_count : Nat]

Pool == [states : Seq(States), states_n : 0 .. WORD - 1, obj : [States -> Object]]

Freed == [live |-> FALSE, in_use |-> FALSE, close |-> FALSE, timedout |-> FALSE,
          timer_set |-> FALSE, request_count |-> 0]

NewPool == [states |-> <<>>, states_n |-> 0, obj |-> [s \in States |-> Freed]]

Live(p) == {s \in States : p.obj[s].live}

InUse(p) == {s \in States : p.obj[s].in_use}

(* Unsigned arithmetic on states_n.                                        *)
Plus(n) == IF n = WORD - 1 THEN 0 ELSE n + 1

Minus_Signed(n, k) == n - k

Minus(n, k) == IF n >= k THEN n - k ELSE n + WORD - k

(* lws_create_state on success.  The timer is armed if there is a maximum  *)
(* lifetime.  The caller, lws_acquire_state, sets in_use.                  *)
Created(p, s) ==
    [p EXCEPT !.states_n = Plus(@),
              !.obj[s] = [Freed EXCEPT !.live = TRUE, !.in_use = TRUE,
                                       !.timer_set = HasTimeMax]]

(* lws_create_state when lws_init fails: the new object goes to            *)
(* lws_close_state, which counts it out; it was not counted in.            *)
InitFailed(p) == [p EXCEPT !.states_n = Minus(@, 1)]

(* lws_close_state.                                                        *)
Closed_Uncounted(p, s) == [p EXCEPT !.obj[s] = Freed]

Closed(p, s) == [p EXCEPT !.states_n = Minus(@, 1), !.obj[s] = Freed]

(* lws_acquire_state with an idle state: the first of the list.  If there  *)
(* is an idle timeout, it is lifted and the timer armed for the maximum    *)
(* lifetime alone.                                                         *)
InUseNow_TimerLifted(o) ==
    [o EXCEPT !.in_use = TRUE, !.timer_set = IF HasTimeout THEN FALSE ELSE @]

InUseNow(o) == [o EXCEPT !.in_use = TRUE,
                         !.timer_set = IF HasTimeout THEN HasTimeMax ELSE @]

TakenIdle_StillListed(p) == [p EXCEPT !.obj[Head(p.states)] = InUseNow(@)]

TakenIdle(p) == [p EXCEPT !.states = Tail(@), !.obj[Head(p.states)] = InUseNow(@)]

(* The states lws_acquire_state may return, and what it leaves behind.     *)
Acquirable(p) == IF p.states # <<>> THEN {Head(p.states)} ELSE States \ Live(p)

Acquired(p, s) == IF p.states # <<>> THEN TakenIdle(p) ELSE Created(p, s)

(* lws_release_state: count the request, then close the state or put it    *)
(* first on the idle list with its idle timeout running.                   *)
AtMaximum(o) == StateRequestsMax > 0 /\ o.request_count + 1 >= StateRequestsMax

MustClose_IgnoringExpiry(o) == o.close \/ AtMaximum(o)

MustClose_IgnoringClose(o) == o.timedout \/ AtMaximum(o)

MustClose(o) == o.close \/ o.timedout \/ AtMaximum(o)

IdleAgain(o) == [o EXCEPT !.request_count = @ + 1,
                          !.in_use = FALSE,
                          !.timer_set = IF HasTimeout THEN TRUE ELSE @]

Released(p, s) ==
    IF MustClose(p.obj[s])
    THEN Closed(p, s)
    ELSE [p EXCEPT !.states = <<s>> \o @, !.obj[s] = IdleAgain(@)]

(* lws_state_timer_handler: the timer of state s expires.  An idle state   *)
(* leaves the list and is closed; one in use is left to its release, which *)
(* sees the timedout flag the event loop has set.                          *)
IdleAt(p, s) == CHOOSE i \in DOMAIN p.states : p.states[i] = s

Expired(p, s) ==
    IF p.obj[s].in_use
    THEN [p EXCEPT !.obj[s] = [@ EXCEPT !.timer_set = FALSE, !.timedout = TRUE]]
    ELSE Closed([p EXCEPT !.states = RemoveAt(@, IdleAt(p, s))], s)

(* lws_cleanup_loc_conf: close every idle state.                           *)
Emptied(p) ==
    [p EXCEPT !.states = <<>>,
              !.states_n = Minus(@, Len(p.states)),
              !.obj = [s \in States |-> IF s \in ToSet(p.states) THEN Freed ELSE @[s]]]

(* lws_run_state after a Lua error, or lws.setclose.                       *)
Doomed(p, s) == [p EXCEPT !.obj[s] = [@ EXCEPT !.close = TRUE]]

-------------------------------------------------------------------------------
Init == /\ pc = "events"
        /\ pool = NewPool
        /\ requests = <<>>
        /\ requests_n = 0
        /\ qev = FALSE
        /\ phase = [r \in Requests |-> "new"]
        /\ ctxState = [r \in Requests |-> NoState]
        /\ tasks = <<>>
        /\ hops = [r \in Requests |-> 0]
        /\ reply = [r \in Requests |-> "none"]

(* The test of the body handler and of the queue handler.                  *)
CanProceed == \/ pool.states # <<>>
              \/ StatesMax = 0
              \/ pool.states_n < StatesMax

HasRoom_OneTooMany == RequestsMax = 0 \/ requests_n <= RequestsMax

HasRoom == RequestsMax = 0 \/ requests_n < RequestsMax

(* ngx_http_finalize_request, or the redirect before it.  The request ends *)
(* here, unless an error page or lws.redirect leads it, by an internal     *)
(* redirect, back to the body handler of this location.                    *)
Over(r, code) ==
    /\ reply' = [reply EXCEPT ![r] = code]
    /\ ctxState' = [ctxState EXCEPT ![r] = NoState]
    /\ \/ /\ phase' = [phase EXCEPT ![r] = "answered"]
          /\ UNCHANGED hops
       \/ /\ hops[r] < MaxHops[r]
          /\ phase' = [phase EXCEPT ![r] = "new"]
          /\ hops' = [hops EXCEPT ![r] = @ + 1]

(* lws_state_handler: acquire a state and post the task.                   *)
AcquireFails(r) ==
    /\ pool.states = <<>>
    /\ \/ "newstate" \in Failures /\ UNCHANGED pool
       \/ "init" \in Failures /\ pool' = InitFailed(pool)
    /\ Over(r, "500")
    /\ UNCHANGED tasks

PostFails(r) ==
    /\ "post" \in Failures
    /\ \E s \in Acquirable(pool) : pool' = Released(Acquired(pool, s), s)
    /\ Over(r, "500")
    /\ UNCHANGED tasks

PostedTasks_Dropped(r) == tasks

PostedTasks(r) == Append(tasks, r)

Posted(r) ==
    /\ \E s \in Acquirable(pool) : /\ pool' = Acquired(pool, s)
                                   /\ ctxState' = [ctxState EXCEPT ![r] = s]
    /\ phase' = [phase EXCEPT ![r] = "posted"]
    /\ tasks' = PostedTasks(r)
    /\ UNCHANGED <<hops, reply>>

StateHandler(r) == AcquireFails(r) \/ PostFails(r) \/ Posted(r)

(* lws_body_handler: proceed, queue or abort.  The event loop calls it     *)
(* between other handlers; for a request that comes back by an internal    *)
(* redirect it may be called from within the queue handler's loop.         *)
BodyHandlerCalled(r) == /\ phase[r] = "new"
                        /\ \/ pc = "events"
                           \/ pc = "draining" /\ hops[r] > 0

BodyFails(r) == /\ BodyHandlerCalled(r)
                /\ "body" \in Failures
                /\ Over(r, "500")
                /\ UNCHANGED <<pc, pool, requests, requests_n, qev, tasks>>

Proceed(r) == /\ BodyHandlerCalled(r)
              /\ CanProceed
              /\ StateHandler(r)
              /\ UNCHANGED <<pc, requests, requests_n, qev>>

QueuedRequests_Youngest(r) == <<r>> \o requests

QueuedRequests(r) == Append(requests, r)

Queue(r) == /\ BodyHandlerCalled(r)
            /\ ~CanProceed
            /\ HasRoom
            /\ requests_n' = requests_n + 1
            /\ requests' = QueuedRequests(r)
            /\ phase' = [phase EXCEPT ![r] = "queued"]
            /\ UNCHANGED <<pc, pool, qev, ctxState, tasks, hops, reply>>

Abort(r) == /\ BodyHandlerCalled(r)
            /\ ~CanProceed
            /\ ~HasRoom
            /\ Over(r, "503")
            /\ UNCHANGED <<pc, pool, requests, requests_n, qev, tasks>>

(* lws_queue_handler: the event loop clears timer_set and calls it; each   *)
(* round of its loop starts the oldest queued request.                     *)
QueueTimer == /\ pc = "events"
              /\ qev
              /\ qev' = FALSE
              /\ pc' = "draining"
              /\ UNCHANGED <<pool, requests, requests_n, phase, ctxState, tasks, hops, reply>>

QueueRound == /\ pc = "draining"
              /\ requests # <<>>
              /\ CanProceed
              /\ requests' = Tail(requests)
              /\ requests_n' = requests_n - 1
              /\ StateHandler(Head(requests))
              /\ UNCHANGED <<pc, qev>>

QueueDone == /\ pc = "draining"
             /\ requests = <<>> \/ ~CanProceed
             /\ pc' = "events"
             /\ UNCHANGED <<pool, requests, requests_n, qev, phase, ctxState, tasks, hops,
                            reply>>

(* lws_thread_handler, on a thread of the pool: run Lua with the state of  *)
(* the request.  The state is marked for close after a Lua error or by     *)
(* lws.setclose.                                                           *)
ThreadStart == /\ pc # "exited"
               /\ tasks # <<>>
               /\ Cardinality({r \in Requests : phase[r] = "running"}) < Threads
               /\ tasks' = Tail(tasks)
               /\ phase' = [phase EXCEPT ![Head(tasks)] = "running"]
               /\ UNCHANGED <<pc, pool, requests, requests_n, qev, ctxState, hops, reply>>

ThreadEnd(r) == /\ pc # "exited"
                /\ phase[r] = "running"
                /\ phase' = [phase EXCEPT ![r] = "done"]
                /\ \/ UNCHANGED pool
                   \/ pool' = Doomed(pool, ctxState[r])
                /\ UNCHANGED <<pc, requests, requests_n, qev, ctxState, tasks, hops, reply>>

(* lws_finalization_handler: release the state, arm the queue event if a   *)
(* request is queued, answer.                                              *)
QueueEvent_Unarmed == qev

QueueEvent_IfIdle == \/ qev
                     \/ requests # <<>> /\ pool.states # <<>>

QueueEvent == qev \/ requests # <<>>

Finalization(r) == /\ pc = "events"
                   /\ phase[r] = "done"
                   /\ pool' = Released(pool, ctxState[r])
                   /\ qev' = QueueEvent
                   /\ Over(r, "lua")
                   /\ UNCHANGED <<pc, requests, requests_n, tasks>>

StateTimer(s) == /\ pc = "events"
                 /\ pool.obj[s].timer_set
                 /\ pool' = Expired(pool, s)
                 /\ UNCHANGED <<pc, requests, requests_n, qev, phase, ctxState, tasks, hops,
                                reply>>

(* The worker exits: NGINX first joins the pool threads, then the cleanup  *)
(* handler of the location closes the idle states.                         *)
Exit == /\ pc = "events"
        /\ tasks = <<>>
        /\ \A r \in Requests : phase[r] # "running"
        /\ pc' = "exited"
        /\ pool' = Emptied(pool)
        /\ UNCHANGED <<requests, requests_n, qev, phase, ctxState, tasks, hops, reply>>

Exited == pc = "exited" /\ UNCHANGED vars

Handler(r) == \/ BodyFails(r)
              \/ Proceed(r)
              \/ Queue(r)
              \/ Abort(r)
              \/ ThreadEnd(r)
              \/ Finalization(r)

Next == \/ \E r \in Requests : Handler(r)
        \/ \E s \in States : StateTimer(s)
        \/ QueueTimer
        \/ QueueRound
        \/ QueueDone
        \/ ThreadStart
        \/ Exit
        \/ Exited

Spec == Init /\ [][Next]_vars

(* The event loop runs the handlers of events that are due, and a pool     *)
(* thread takes a waiting task; that Lua code ends is assumed, for nothing *)
(* in the code interrupts it.  Clients need not send, timers need not      *)
(* expire and the worker need not exit.                                    *)
Fairness == /\ WF_vars(QueueTimer)
            /\ WF_vars(QueueRound)
            /\ WF_vars(QueueDone)
            /\ WF_vars(ThreadStart)
            /\ \A r \in Requests : WF_vars(ThreadEnd(r)) /\ WF_vars(Finalization(r))

FairSpec == Spec /\ Fairness

-------------------------------------------------------------------------------
(* Properties.                                                             *)

(* Internal redirects that requests may have taken.                        *)
Hops == {h \in [Requests -> Nat] : \A r \in Requests : h[r] <= MaxHops[r]}

(* Type invariant.                                                         *)
TypeOK == /\ pc \in {"events", "draining", "exited"}
          /\ pool \in Pool
          /\ requests \in Seq(Requests)
          /\ requests_n \in Nat
          /\ qev \in BOOLEAN
          /\ phase \in [Requests -> Phase]
          /\ ctxState \in [Requests -> States \cup {NoState}]
          /\ tasks \in Seq(Requests)
          /\ hops \in Hops
          /\ reply \in [Requests -> {"none", "lua", "500", "503"}]

(* No Lua state is ever run by two requests, or run after it was closed or *)
(* while it is on the idle list: the in_use objects are exactly those the  *)
(* requests between acquisition and release hold, one each, and the idle   *)
(* list holds each other live object exactly once.  (lws_acquire_state,    *)
(* lws_release_state and lws_state_timer_handler keep this together.)      *)
ExclusiveUse ==
    /\ \A r \in Active : ctxState[r] \in InUse(pool)
    /\ \A s \in InUse(pool) : \E r \in Active : ctxState[r] = s
    /\ \A r1, r2 \in Active : ctxState[r1] = ctxState[r2] => r1 = r2
    /\ ToSet(pool.states) = Live(pool) \ InUse(pool)
    /\ IsInjective(pool.states)
    /\ InUse(pool) \subseteq Live(pool)

(* A state on the idle list may serve another request: nothing marked it   *)
(* for close, its timer has not expired, it is below                       *)
(* lws_state_requests_max; and if its life is limited, its timer is armed, *)
(* so that it cannot stay for ever (lws_release_state re-arms what         *)
(* lws_acquire_state disarmed).                                            *)
IdleReusable ==
    \A s \in ToSet(pool.states) :
        LET o == pool.obj[s] IN
        /\ ~o.close
        /\ ~o.timedout
        /\ StateRequestsMax > 0 => o.request_count < StateRequestsMax
        /\ HasTimeMax \/ HasTimeout => o.timer_set

(* A state in use with a maximum lifetime has its timer armed or has       *)
(* already been told that it expired (lws_set_state_timer in               *)
(* lws_acquire_state keeps the lifetime when it lifts the idle timeout).   *)
LifetimeKept ==
    HasTimeMax => \A s \in InUse(pool) : pool.obj[s].timer_set \/ pool.obj[s].timedout

(* llcf->states_n is the "number of Lua states (active + inactive)"        *)
(* (lws_module.h:79) and lws_states_max bounds it.                         *)
StatesCounted ==
    /\ pool.states_n = Cardinality(Live(pool))
    /\ StatesMax > 0 => pool.states_n <= StatesMax

(* The queue holds exactly the requests that wait, once each; requests_n   *)
(* counts them and lws_requests_max bounds them.                           *)
QueueCounted ==
    /\ requests_n = Len(requests)
    /\ ToSet(requests) = {r \in Requests : phase[r] = "queued"}
    /\ IsInjective(requests)
    /\ RequestsMax > 0 => requests_n <= RequestsMax

(* No lost wakeup: whenever the event loop is between handlers and a       *)
(* queued request could run, the queue event is armed, although only the   *)
(* finalization handler arms it.                                           *)
NoLostWakeup == pc = "events" /\ requests # <<>> /\ CanProceed => qev

(* A queue that cannot move has somebody to move it: a request holds a Lua *)
(* state, and its finalization will arm the queue event.                   *)
QueueHasWaker ==
    pc # "exited" /\ requests # <<>> => qev \/ pc = "draining" \/ Active # {}

(* A state that is marked for close or has expired while a request runs in *)
(* it never reaches the idle list: it stays in use until it is closed.     *)
DoomedNeverIdle ==
    [][\A s \in InUse(pool) :
          pool.obj[s].close \/ pool.obj[s].timedout
              => s \notin ToSet(pool'.states)]_vars

(* The location keeps the promises of LwsService: service at once below    *)
(* the limit, first come first served from the queue, 503 only when        *)
(* lws_states_max requests run and the queue is full.                      *)
StatusOf(ph) == CASE ph = "queued" -> "waiting"
                  [] ph \in {"posted", "running", "done"} -> "running"
                  [] OTHER -> ph

ServiceStatus == [r \in Requests |-> StatusOf(phase[r])]

Service == INSTANCE LwsService WITH status <- ServiceStatus, waiting <- requests

ImplementsService == Service!Spec

(* A queued request is taken from the queue, and a request that holds a    *)
(* Lua state is answered, unless the worker exits first.                   *)
QueuedIsServed ==
    \A r \in Requests : phase[r] = "queued" ~> phase[r] # "queued" \/ pc = "exited"

ActiveIsAnswered ==
    \A r \in Requests : r \in Active ~> r \notin Active \/ pc = "exited"
===============================================================================
