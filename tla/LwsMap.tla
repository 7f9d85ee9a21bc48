-------------------------------- MODULE LwsMap --------------------------------
(***************************************************************************)
(* What a table of lws_table.c promises its users: a map that keeps the    *)
(* order of insertion, or, if it is capped, the order of use, and then     *)
(* evicts the entry used longest ago; entries of a timed table time out.   *)
(* A new entry may fail for want of memory, and a capped table may have    *)
(* evicted by then.  Module LwsTable implements this specification.        *)
(***************************************************************************)
EXTENDS Naturals, Sequences

CONSTANTS None,     \* no value: a null pointer
          MaxTime   \* bound: the clock stops there

VARIABLES kind,    \* what map it is: keys and values, the cap (0 = not capped),
                   \* whether it is timed, and its timeout
          items,   \* the entries in order: sequence of [key, value, time]
          now,     \* time(NULL)
          result   \* what the last call returned

vars == <<kind, items, now, result>>

Init == items = <<>> /\ now = 0 /\ result = None

At(k) == {i \in DOMAIN items : items[i].key = k}

Without(i) == [j \in 1 .. Len(items) - 1 |-> IF j < i THEN items[j] ELSE items[j + 1]]

Item(k, v) == [key |-> k, value |-> v, time |-> IF kind.timed THEN now ELSE 0]

Expired(i) == kind.timed /\ items[i].time + kind.timeout <= now

(* The entries before a new one is made.                                   *)
Evicted == IF kind.cap > 0 /\ Len(items) = kind.cap THEN Tail(items) ELSE items

Touched(i, item) == IF kind.cap > 0 THEN Append(Without(i), item) ELSE [items EXCEPT ![i] = item]

Get(k) == /\ \/ /\ \A i \in At(k) : Expired(i)
                /\ result' = None
                /\ UNCHANGED items
             \/ \E i \in At(k) : /\ ~Expired(i)
                                 /\ result' = items[i].value
                                 /\ items' = Touched(i, items[i])
          /\ UNCHANGED now

Set(k, v) == /\ \/ /\ At(k) = {}
                   /\ items' = Append(Evicted, Item(k, v))
                \/ \E i \in At(k) : items' = Touched(i, Item(k, v))
             /\ result' = "ok"
             /\ UNCHANGED now

SetFails(k) == /\ At(k) = {}
               /\ items' = Evicted
               /\ result' = "failed"
               /\ UNCHANGED now

Remove(k) == /\ \/ At(k) = {} /\ UNCHANGED items
                \/ \E i \in At(k) : items' = Without(i)
             /\ result' = "ok"
             /\ UNCHANGED now

Clear == items' = <<>> /\ result' = None /\ UNCHANGED now

(* The entry after that of key k; the first one if k is None.              *)
Continue(k) == /\ result' = IF k = None
                            THEN IF items = <<>> THEN None ELSE Head(items).key
                            ELSE IF \E i \in At(k) : i < Len(items)
                                 THEN items[(CHOOSE i \in At(k) : TRUE) + 1].key
                                 ELSE None
               /\ UNCHANGED <<items, now>>

Tick == now < MaxTime /\ now' = now + 1 /\ UNCHANGED <<items, result>>

Next == \/ \E k \in kind.keys : \/ Get(k)
                                \/ \E v \in kind.values : Set(k, v)
                                \/ SetFails(k)
                                \/ Remove(k)
                                \/ Continue(k)
        \/ Continue(None)
        \/ Clear
        \/ Tick

(* A map stays of the kind it was made.                                    *)
Spec == Init /\ [][Next /\ UNCHANGED kind]_vars
===============================================================================
