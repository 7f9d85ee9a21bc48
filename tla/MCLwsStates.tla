------------------------------ MODULE MCLwsStates ------------------------------
(***************************************************************************)
(* Constants for model checking LwsStates.                                 *)
(***************************************************************************)
EXTENDS LwsStates, TLC

CONSTANTS r1, r2, r3, r4, s1, s2, s3, s4

(* Requests and objects are interchangeable: sound for the safety runs.    *)
Symmetry == Permutations(Requests) \cup Permutations(States)

(* A word of three bits; the objects of every run fit it.                  *)
Word == 8

AnyFailure == FailingCalls

(* No request may be redirected, each once, or one of them once.           *)
NoHops == [r \in Requests |-> 0]

OneHop == [r \in Requests |-> 1]

OneHopOfOne == [r \in Requests |-> IF r = r1 THEN 1 ELSE 0]

(* Everything that may fail but the initialization of a Lua state.         *)
NoInitFailure == FailingCalls \ {"init"}
===============================================================================
