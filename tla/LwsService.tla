------------------------------ MODULE LwsService ------------------------------
(***************************************************************************)
(* What a location with a `lws' directive promises its requests, seen from *)
(* outside: no Lua states, no timers, no threads.  A request is served at  *)
(* once while fewer than StatesMax requests are being served; otherwise it *)
(* waits in arrival order; it is turned away (503) only when StatesMax     *)
(* requests are being served and the queue is full.  An allocation failure *)
(* may end a request with 500 at the moment it would start.                *)
(*                                                                         *)
(* lws_states_max and lws_requests_max are 0 when unrestricted             *)
(* (lws_module.h:67-68).  Module LwsStates implements this specification.  *)
(***************************************************************************)
EXTENDS Naturals, FiniteSets, Sequences

CONSTANTS Requests,     \* the HTTP requests that reach the location
          StatesMax,    \* lws_states_max
          RequestsMax   \* lws_requests_max

VARIABLES status,    \* what each request is doing
          waiting,   \* the queued requests, oldest first
          reply      \* how each request last ended

vars == <<status, waiting, reply>>

Status == {"new", "waiting", "running", "answered"}

Reply == {"none", "lua", "500", "503"}

Init == /\ status = [r \in Requests |-> "new"]
        /\ waiting = <<>>
        /\ reply = [r \in Requests |-> "none"]

-------------------------------------------------------------------------------

Running == {r \in Requests : status[r] = "running"}

HasSlot == StatesMax = 0 \/ Cardinality(Running) < StatesMax

HasRoom == RequestsMax = 0 \/ Len(waiting) < RequestsMax

(* A request is over: its client has the reply, or the reply led (by an    *)
(* internal redirect or an error page) back into this location.            *)
Over(r, code) == /\ \/ status' = [status EXCEPT ![r] = "answered"]
                    \/ status' = [status EXCEPT ![r] = "new"]
                 /\ reply' = [reply EXCEPT ![r] = code]

(* Whether others wait is not asked: a new request may overtake them when  *)
(* a slot has just become free (lws_module.c:782).                         *)
Start(r) == /\ status[r] = "new"
            /\ HasSlot
            /\ status' = [status EXCEPT ![r] = "running"]
            /\ UNCHANGED <<waiting, reply>>

Wait(r) == /\ status[r] = "new"
           /\ ~HasSlot
           /\ HasRoom
           /\ status' = [status EXCEPT ![r] = "waiting"]
           /\ waiting' = Append(waiting, r)
           /\ UNCHANGED reply

TurnAway(r) == /\ status[r] = "new"
               /\ ~HasSlot
               /\ ~HasRoom
               /\ Over(r, "503")
               /\ UNCHANGED waiting

Fail(r) == /\ status[r] = "new"
           /\ Over(r, "500")
           /\ UNCHANGED waiting

StartOldest == /\ waiting # <<>>
               /\ HasSlot
               /\ waiting' = Tail(waiting)
               /\ \/ /\ status' = [status EXCEPT ![Head(waiting)] = "running"]
                     /\ UNCHANGED reply
                  \/ Over(Head(waiting), "500")

Finish(r) == /\ status[r] = "running"
             /\ Over(r, "lua")
             /\ UNCHANGED waiting

Next == \/ \E r \in Requests : \/ Start(r)
                               \/ Wait(r)
                               \/ TurnAway(r)
                               \/ Fail(r)
                               \/ Finish(r)
        \/ StartOldest

Spec == Init /\ [][Next]_vars
===============================================================================
