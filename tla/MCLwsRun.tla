------------------------------- MODULE MCLwsRun -------------------------------
(***************************************************************************)
(* Constants for model checking LwsRun.                                    *)
(***************************************************************************)
EXTENDS LwsRun, TLC

CONSTANTS r1, r2, i, p, m, q

RequestSymmetry == Permutations(Requests)

(* All four chunks, and redirects; anything may fail.                      *)
Chunked == [main |-> {m}, init |-> i, pre |-> p, post |-> q, cap |-> 0, timeout |-> 0,
            failures |-> FailingCalls, comes |-> {}, hops |-> 1, time |-> 0]

(* One file is main and post chunk, another one is init and pre chunk.     *)
Shared == [Chunked EXCEPT !.main = {m, q}, !.init = p, !.failures = {"load"}, !.hops = 0]

(* Two files that come and go, a cache with room for one of them.          *)
Files2 == [Chunked EXCEPT !.main = {m, q}, !.init = None, !.pre = None, !.post = None,
                          !.cap = 1, !.timeout = 1, !.failures = {"cache"},
                          !.comes = {m}, !.hops = 0, !.time = 2]

(* Two redirects, one after the other.                                     *)
Redirecting == [Chunked EXCEPT !.init = None, !.post = None, !.failures = {}, !.hops = 2]

RedirectSetups == {Redirecting}

AnySetup == {Chunked, Shared, Files2, Redirecting}
===============================================================================
