------------------------------ MODULE MCLwsStream ------------------------------
(***************************************************************************)
(* Constants for model checking LwsStream.                                 *)
(***************************************************************************)
EXTENDS LwsStream

AnyFailure == FailingCalls

(* The stream handler re-registers the event after this many reads; the    *)
(* code's 16 is more than the pieces of a run.                             *)
FewReads == 2
===============================================================================
