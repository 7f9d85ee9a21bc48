------------------------------- MODULE LwsTable -------------------------------
(***************************************************************************)
(* The hash table of lws_table.c: open addressing with double hashing,     *)
(* deleted slots that stay on the probe paths, and Brent's method, which   *)
(* may move an entry to a later slot of its own path to make room for a    *)
(* new one; an order list through the entries; a cap with eviction; a      *)
(* timeout.                                                                *)
(*                                                                         *)
(* The probe loops are stated by what they find: the first slot of a path  *)
(* that ends the loop.  Every hash function is possible, for the program   *)
(* seeds it at random (lws_table_init_hash).                               *)
(*                                                                         *)
(* A definition named X_<Mistake> is X with a plausible mistake in it.  No *)
(* specification uses it; it serves to see that a property depends on X.   *)
(***************************************************************************)
EXTENDS Naturals, FiniteSets, SequencesExt

CONSTANTS Setups,    \* the tables the program makes: see Setup
          None,      \* a null pointer
          Sizes,     \* lws_table_sizes as a set
          MaxTime,   \* bound: the clock stops there
          Failures   \* the calls that may fail

(* Allocation of the slots, and of the copy of a key.                      *)
FailingCalls == {"rehash", "key"}

(* lws_table_size: the least size that is large enough.                    *)
SizeFor(n) == Min({s \in Sizes : s >= n})

(* lws_table_load: the number of entries that make the table grow.         *)
LoadOf_Full(alloc) == alloc

LoadOf(alloc) == alloc \div 2 + alloc \div 4 + alloc \div 8

(* The size lws_table_create asks for (but for the largest tables).        *)
RoomFor_Exact(n) == n

RoomFor(n) == n + n \div 7 + 3

(* How the program makes and uses a table: the hashes of its keys, its     *)
(* values, the load lws_table_create is asked for, the cap (0 = none) of   *)
(* lws_table_set_cap, and whether lws_table_set_timeout was called and     *)
(* with what.                                                              *)
Setup(s) == /\ DOMAIN s = {"hash", "values", "load", "cap", "timed", "timeout"}
            /\ None \notin DOMAIN s.hash
            /\ \A k \in DOMAIN s.hash : s.hash[k] \in Nat
            /\ s.values \cap {None, "ok", "failed"} = {}
            /\ s.load \in Nat
            /\ \E n \in Sizes : n >= RoomFor(s.load)
            /\ s.cap \in Nat
            /\ s.timed \in BOOLEAN
            /\ s.timeout \in Nat

(* The sizes are primes, so that every probe path visits every slot.       *)
Prime(n) == \A d \in 2 .. n - 1 : n % d # 0

ASSUME TableAssumption ==
    /\ None \notin Nat
    /\ Sizes \subseteq Nat \ {0, 1, 2}
    /\ \A n \in Sizes : Prime(n)
    /\ \A s \in Setups : Setup(s)
    /\ MaxTime \in Nat
    /\ Failures \subseteq FailingCalls

VARIABLES setup,   \* how the table was made
          table,   \* the table: see Empty
          now,     \* time(NULL)
          result   \* what the last call returned

vars == <<setup, table, now, result>>

hash == setup.hash

Keys == DOMAIN hash

Values == setup.values

Cap == setup.cap

Timed == setup.timed

Timeout == setup.timeout

Unused == [state |-> "unused"]

Deleted == [state |-> "deleted"]

SetSlot(k, v, t) == [state |-> "set", key |-> k, value |-> v, time |-> t]

(* A table: its slots 0 .. alloc - 1, and the order list as the sequence   *)
(* of the slots it links.  The count of entries is the length of the list  *)
(* (see OrderSound for the program's own count).                           *)
Empty(alloc) == [alloc |-> alloc, entries |-> [i \in 0 .. alloc - 1 |-> Unused],
                 order |-> <<>>, count |-> 0]

Init == /\ setup \in Setups
        /\ table = Empty(SizeFor(RoomFor(setup.load)))
        /\ now = 0
        /\ result = None

-------------------------------------------------------------------------------
(* Probing.                                                                *)

(* The i-th slot, from 0, of the path of hash h in table t; and the slot   *)
(* j steps on from slot i of that path.                                    *)
Step(t, h) == (h % (t.alloc - 2)) + 1

Onward(t, h, i, j) == (i + j * Step(t, h)) % t.alloc

Probe(t, h, i) == Onward(t, h, h % t.alloc, i)

IsSet(t, i) == t.entries[i].state = "set"

(* lws_table_find: follow the path to the key, to an unused slot or around.*)
Find(t, k) ==
    LET Ends(i) == LET e == t.entries[Probe(t, hash[k], i)]
                   IN  e.state = "unused" \/ (e.state = "set" /\ e.key = k)
        stops == {i \in 0 .. t.alloc - 1 : Ends(i)}
    IN  IF stops = {} THEN None
        ELSE LET i == Probe(t, hash[k], Min(stops))
             IN  IF IsSet(t, i) THEN i ELSE None

(* lws_table_insert, the worst case: the number of probes to a slot that   *)
(* is not set.                                                             *)
Worst(t, h) == 1 + Min({i \in 0 .. t.alloc - 1 : ~IsSet(t, Probe(t, h, i))})

(* How many steps the entry in slot i would move to a slot that is not     *)
(* set, 0 if too many to help a new entry that comes to be the len-th on   *)
(* its path.  One step is always tried.                                    *)
Moves(t, i, len, worst) ==
    LET h == hash[t.entries[i].key]
        tried == {j \in 1 .. worst : j = 1 \/ len + j < worst}
        free == {j \in tried : ~IsSet(t, Onward(t, h, i, j))}
    IN  IF free = {} THEN 0 ELSE Min(free)

(* The search of a better overall outcome after n entries of the path: the *)
(* last one found, as the entry's place on the path and its steps.  It     *)
(* goes on while a later entry could still be better.                      *)
Better(t, h, worst) ==
    LET found[n \in 0 .. worst] ==
          IF n = 0 THEN [len |-> 0, moves |-> worst]
          ELSE LET before == found[n - 1]
                   m == Moves(t, Probe(t, h, n - 1), n, worst)
               IN  IF (n = 1 \/ (n < worst - 1 /\ n < before.moves)) /\ m > 0
                   THEN [len |-> n, moves |-> m]
                   ELSE before
    IN  found[worst - 1]

(* The move: the order list follows it.                                    *)
Relinked_Not(order, old, new) == order

Relinked(order, old, new) == ReplaceAll(order, old, new)

(* lws_table_insert: the table, after a move if there is a better outcome, *)
(* and the slot for the new entry.                                         *)
Place(t, h) ==
    LET worst == Worst(t, h)
        better == Better(t, h, worst)
        old == Probe(t, h, better.len - 1)
        new == Onward(t, hash[t.entries[old].key], old, better.moves)
    IN  IF worst <= 2 \/ better.len = 0
        THEN [t |-> t, at |-> Probe(t, h, worst - 1)]
        ELSE [t |-> [t EXCEPT !.entries[new] = t.entries[old],
                              !.order = Relinked(@, old, new)],
              at |-> old]

-------------------------------------------------------------------------------
(* The operations on tables.                                               *)

(* lws_table_remove.                                                       *)
PositionOf(order, i) == CHOOSE n \in DOMAIN order : order[n] = i

Unlinked(order, i) == RemoveAt(order, PositionOf(order, i))

Removed_Unused(t, i) == [t EXCEPT !.entries[i] = Unused,
                                  !.order = Unlinked(@, i),
                                  !.count = @ - 1]

Removed(t, i) == [t EXCEPT !.entries[i] = Deleted,
                           !.order = Unlinked(@, i),
                           !.count = @ - 1]

(* Insertion at the end of the order list.                                 *)
Inserted(t, k, slot) ==
    LET p == Place(t, hash[k])
    IN  [p.t EXCEPT !.entries[p.at] = slot,
                    !.order = Append(@, p.at),
                    !.count = @ + 1]

(* lws_table_rehash: the entries go, the last one first, to the front of   *)
(* the new table's order list.                                             *)
Reinserted_AtEnd(slot, t) == Inserted(t, slot.key, slot)

Reinserted(slot, t) ==
    LET p == Place(t, hash[slot.key])
    IN  [p.t EXCEPT !.entries[p.at] = slot,
                    !.order = <<p.at>> \o @,
                    !.count = @ + 1]

CanGrow(t) == \E s \in Sizes : s > t.alloc

Rehashed(t) ==
    LET last == Len(t.order)
        after[n \in 0 .. last] ==
          IF n = 0 THEN Empty(SizeFor(t.alloc + 1))
          ELSE Reinserted(t.entries[t.order[last + 1 - n]], after[n - 1])
    IN  after[last]

(* The last of the order list was used last, if the table is capped.       *)
Used(t, i) == IF Cap > 0 THEN [t EXCEPT !.order = Append(Unlinked(@, i), i)] ELSE t

(* The table lws_table_set goes on with to make a new entry.               *)
Evicted_Last(t) == IF Cap > 0 /\ t.count = Cap THEN Removed(t, Last(t.order)) ELSE t

Evicted(t) == IF Cap > 0 /\ t.count = Cap THEN Removed(t, Head(t.order)) ELSE t

MustGrow_Late(t) == t.count > LoadOf(t.alloc)

MustGrow(t) == t.count = LoadOf(t.alloc)

Grown(t) == IF MustGrow(t) THEN Rehashed(t) ELSE t

-------------------------------------------------------------------------------
(* lws_table_get.                                                          *)
IsExpired(i) == i # None /\ Timed /\ table.entries[i].time + Timeout <= now

Get(k) == LET i == Find(table, k) IN
          /\ \/ /\ i = None \/ IsExpired(i)
                /\ result' = None
                /\ UNCHANGED table
             \/ /\ i # None /\ ~IsExpired(i)
                /\ result' = table.entries[i].value
                /\ table' = Used(table, i)
          /\ UNCHANGED <<setup, now>>

(* lws_table_set with a value.                                             *)
Slot(k, v) == SetSlot(k, v, IF Timed THEN now ELSE 0)

Update(k, v) == LET i == Find(table, k) IN
                /\ i # None
                /\ table' = [Used(table, i) EXCEPT !.entries[i] = Slot(k, v)]
                /\ result' = "ok"
                /\ UNCHANGED <<setup, now>>

Insert(k, v) == /\ Find(table, k) = None
                /\ MustGrow(Evicted(table)) => CanGrow(table)
                /\ table' = Inserted(Grown(Evicted(table)), k, Slot(k, v))
                /\ result' = "ok"
                /\ UNCHANGED <<setup, now>>

(* The table cannot grow, or the key cannot be copied.                     *)
InsertFails(k) ==
    /\ Find(table, k) = None
    /\ \/ /\ MustGrow(Evicted(table))
          /\ "rehash" \in Failures \/ ~CanGrow(table)
          /\ table' = Evicted(table)
       \/ /\ "key" \in Failures
          /\ MustGrow(Evicted(table)) => CanGrow(table)
          /\ table' = Grown(Evicted(table))
    /\ result' = "failed"
    /\ UNCHANGED <<setup, now>>

(* lws_table_set with a null value.                                        *)
Delete(k) == LET i == Find(table, k) IN
             /\ table' = IF i = None THEN table ELSE Removed(table, i)
             /\ result' = "ok"
             /\ UNCHANGED <<setup, now>>

(* lws_table_clear.                                                        *)
Clear == /\ table' = Empty(table.alloc)
         /\ result' = None
         /\ UNCHANGED <<setup, now>>

(* lws_table_next, from the start or after key k.                          *)
KeyAt(n) == IF n > Len(table.order) THEN None ELSE table.entries[table.order[n]].key

Start == /\ result' = KeyAt(1)
         /\ UNCHANGED <<setup, table, now>>

Continue(k) == LET i == Find(table, k) IN
               /\ result' = IF i = None THEN None
                            ELSE KeyAt(1 + PositionOf(table.order, i))
               /\ UNCHANGED <<setup, table, now>>

(* Time passes.                                                            *)
Tick == /\ Timed
        /\ now < MaxTime
        /\ now' = now + 1
        /\ UNCHANGED <<setup, table, result>>

Next == \/ \E k \in Keys : \/ Get(k)
                           \/ \E v \in Values : Update(k, v) \/ Insert(k, v)
                           \/ InsertFails(k)
                           \/ Delete(k)
                           \/ Continue(k)
        \/ Start
        \/ Clear
        \/ Tick

Spec == Init /\ [][Next]_vars

-------------------------------------------------------------------------------
(* Properties.                                                             *)

Linked == {table.order[n] : n \in DOMAIN table.order}

(* The probe path of a key leads to its entry, the one in the order list,  *)
(* and to none if the key has none: neither a removal on the path, nor the *)
(* move of an entry, nor a rehash loses an entry, leaves it twice or       *)
(* brings it back (lws_table_find, lws_table_insert, lws_table_rehash).    *)
Retrievable == \A k \in Keys :
                   LET own == {i \in Linked : table.entries[i].key = k}
                   IN  IF own = {} THEN Find(table, k) = None ELSE own = {Find(table, k)}

(* The order list links every set slot once and no other, the count of the *)
(* table is the length of the list and within the load and the cap; so     *)
(* there always is a slot that is not set, which ends the search of        *)
(* lws_table_insert for one.                                               *)
OrderSound == /\ IsInjective(table.order)
              /\ Linked = {i \in DOMAIN table.entries : IsSet(table, i)}
              /\ table.count = Len(table.order)
              /\ table.count <= LoadOf(table.alloc)
              /\ LoadOf(table.alloc) < table.alloc
              /\ Cap > 0 => table.count <= Cap

(* A table created for a load takes that many entries before it is         *)
(* rehashed: "t->load >= load" in lws_table_create.                        *)
CreatedForLoad == [][table'.alloc # table.alloc => table.count >= setup.load]_vars

(* What a table holds, in order, and what kind of map it is.               *)
ItemOf(e) == [key |-> e.key, value |-> e.value, time |-> e.time]

Items(t) == [n \in DOMAIN t.order |-> ItemOf(t.entries[t.order[n]])]

Kind == [keys |-> Keys, values |-> Values, cap |-> Cap, timed |-> Timed, timeout |-> Timeout]

(* To its users, the table is the map of module LwsMap: order of insertion *)
(* or of use, eviction, timeout and the outcome of each call are those of  *)
(* a plain sequence of entries, whatever the slots, moves and rehashes.    *)
Map == INSTANCE LwsMap WITH kind <- Kind, items <- Items(table)

ImplementsMap == Map!Spec
===============================================================================
