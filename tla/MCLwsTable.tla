------------------------------ MODULE MCLwsTable ------------------------------
(* Small tables for TLC: keys whose paths collide in small tables.          *)
EXTENDS LwsTable

CONSTANTS k1, k2, k3, k4, k5

(* A growing table as the one of request headers.  Multiples of 77 start at *)
(* slot 0 of tables of 7 and of 11 slots.                                   *)
Growing == [hash : {(k1 :> 0) @@ (k2 :> 77) @@ (k3 :> 77) @@ (k4 :> 154) @@ (k5 :> 231),
                    (k1 :> 3) @@ (k2 :> 0) @@ (k3 :> 7) @@ (k4 :> 18) @@ (k5 :> 84)},
            values : {{"v1"}}, load : {4}, cap : {0}, timed : {FALSE}, timeout : {0}]

(* A capped and timed table as the cache of file states.  Of the three      *)
(* paths two start at the same slot of a table of 3 slots, and others of a  *)
(* table of 5.                                                              *)
Capped == [hash : {(k1 :> 0) @@ (k2 :> i) @@ (k3 :> j) : i \in {0, 6}, j \in {6, 20}},
           values : {{"v1", "v2"}}, load : {0}, cap : {2}, timed : {TRUE}, timeout : {1}]

SmallSetups == Growing \cup Capped

SmallSizes == {3, 5, 7, 11, 13}

AnyFailure == FailingCalls
===============================================================================
