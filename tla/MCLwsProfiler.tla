----------------------------- MODULE MCLwsProfiler -----------------------------
(***************************************************************************)
(* Constants for model checking LwsProfiler.                               *)
(***************************************************************************)
EXTENDS LwsProfiler

CONSTANTS main, callee

LuaFunctions == {main, callee, Pcall, Stopper}

(* The program does not tell the two apart.                                *)
LuaSymmetry == Permutations({main, callee})
===============================================================================
