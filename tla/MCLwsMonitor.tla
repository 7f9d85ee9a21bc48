----------------------------- MODULE MCLwsMonitor -----------------------------
(***************************************************************************)
(* Constants for model checking LwsMonitor.                                *)
(***************************************************************************)
EXTENDS LwsMonitor, TLC

CONSTANTS w1, w2, b1, b2

MonitorSymmetry == Permutations(Workers) \cup Permutations(Blocks)

Pair(k, v) == [key |-> k, value |-> v]

(* Each value of the switch; pairs after one another; wrong values.        *)
MCBodies == {<<Pair("profiler", "0")>>,
             <<Pair("profiler", "2")>>,
             <<Pair("functions", "[]"), Pair("profiler", "1")>>,
             <<Pair("profiler", "1"), Pair("functions", "x")>>,
             <<Pair("other", "x"), Pair("profiler", "x")>>}

(* Lua states with limited memory, or with garbage collection.             *)
Limited == [max |-> 3, gc |-> 0, sizes |-> {1, 3}, bodies |-> {}, queued |-> 1,
            requests |-> 2, posts |-> 0, crashes |-> 1]

Collecting == [Limited EXCEPT !.max = 0, !.gc = 1, !.queued = 0]

Both == [Limited EXCEPT !.gc = 1, !.queued = 0]

(* POST requests while requests run.                                       *)
Switching == [Limited EXCEPT !.max = 0, !.sizes = {}, !.bodies = MCBodies, !.queued = 0,
                             !.posts = 4, !.crashes = 0, !.requests = 1]

AnySetup == {Limited, Collecting, Both, Switching}
===============================================================================
