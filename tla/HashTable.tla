------------------------------ MODULE HashTable ------------------------------
(***************************************************************************)
(* SDL's hash table (src/src/SDL_hashtable.c): open addressing with linear *)
(* probing and robin hood insertion.  Every operation holds the table's    *)
(* read/write lock (module RWLock) from beginning to end, so that each is  *)
(* one step.                                                               *)
(*                                                                         *)
(* The hash of a key is a number below the largest table that the bounds   *)
(* allow, chosen initially: of a hash the code only uses the bits under    *)
(* the mask and its equality, and keys that match have equal hashes.       *)
(***************************************************************************)
EXTENDS Naturals, FiniteSets, FiniteSetsExt

CONSTANTS Keys, Values, NoValue, NoKey,
          Hashes,       \* bound: the hashes of keys that are looked at
          Buckets,      \* of 1, 2, 4...: the sizes a table is created with
          MaxSizes      \* what is tried for MAX_HASHTABLE_SIZE

ASSUME NoneAssumption == NoValue \notin Values /\ NoKey \notin Keys
ASSUME HashesAssumption == Hashes \subseteq Nat
ASSUME SizesAssumption == Buckets \subseteq {2 ^ n : n \in 0..26} /\ MaxSizes \subseteq {2 ^ n : n \in 0..26}

VARIABLES
    table,                \* the SDL_HashItem of every slot
    hash_mask,            \* the number of slots less one
    max_probe_len,
    num_occupied_slots,
    result,               \* what the last call returned
    hash, max_size        \* never change

tableVars == <<table, hash_mask, max_probe_len, num_occupied_slots>>
vars == <<tableVars, result, hash, max_size>>

Empty == [live |-> FALSE, key |-> NoKey, value |-> NoValue, probe_len |-> 0]
EmptyTable(mask) == [i \in 0..mask |-> Empty]

\* CalculateHashBucketsFromEstimate gives a power of two.
Init ==
    /\ hash \in [Keys -> Hashes]
    /\ max_size \in MaxSizes
    /\ \E size \in Buckets : size <= max_size /\ hash_mask = size - 1
    /\ table = EmptyTable(hash_mask)
    /\ max_probe_len = 0 /\ num_occupied_slots = 0 /\ result = TRUE

-----------------------------------------------------------------------------
(* Looking up.                                                             *)

\* The slot that is n steps after the one a key would like best.
Slot(mask, k, n) == (hash[k] + n) % (mask + 1)

\* get_probe_length
ProbeLength(mask, k, i) == (i + mask + 1 - Slot(mask, k, 0)) % (mask + 1)

\* Mutant: the search ends at an item that is as near to its own best slot.
StopsEarly(k, n) ==
    LET item == table[Slot(hash_mask, k, n)]
    IN  ~item.live \/ item.key = k \/ n >= item.probe_len \/ n + 1 > max_probe_len

\* find_item ends its search after n steps at the latest.
Stops(k, n) ==
    LET item == table[Slot(hash_mask, k, n)]
    IN  ~item.live \/ item.key = k \/ n > item.probe_len \/ n + 1 > max_probe_len

\* find_first_item: the slot where the search ends, and whether the key is there.
EndOfSearch(k) == Slot(hash_mask, k, Min({n \in 0..(hash_mask + 1) : Stops(k, n)}))
Found(k) == LET item == table[EndOfSearch(k)] IN item.live /\ item.key = k

\* SDL_FindInHashTable
Find(k) == IF Found(k) THEN table[EndOfSearch(k)].value ELSE NoValue

\* SDL_IterateHashTable with a callback that goes on: it drops out when it has seen as many
\* items as there are.
Iterate ==
    LET seen(i) == Cardinality({j \in DOMAIN table : j < i /\ table[j].live})
    IN  {<<table[i].key, table[i].value>> :
            i \in {j \in DOMAIN table : table[j].live /\
                      (seen(j) = 0 \/ seen(j) < num_occupied_slots)}}

-----------------------------------------------------------------------------
(* Inserting and deleting.                                                 *)

\* One turn of the loop of insert_item: an item that is farther from its best slot than the
\* one it meets takes its place, and that one goes on.
Turn(state, i) ==
    LET there == state.table[i]
        new == ProbeLength(state.mask, state.item.key, i)
        put == [state EXCEPT !.table[i] = [state.item EXCEPT !.probe_len = new],
                             !.max = IF @ < new THEN new ELSE @,
                             !.item = there]
    IN  IF state.item.live /\ (~there.live \/ there.probe_len < new) THEN put ELSE state

\* insert_item: a table, with its mask and its longest probe, and with an item more.
InsertItem(item, t) ==
    LET after[n \in 0..(t.mask + 1)] ==
            IF n = 0 THEN [table |-> t.table, mask |-> t.mask, max |-> t.max, item |-> item]
            ELSE LET state == after[n - 1] IN Turn(state, Slot(t.mask, item.key, n - 1))
        end == after[t.mask + 1]
    IN  [table |-> end.table, mask |-> t.mask, max |-> end.max]

\* Mutant: the item after the gap moves even from the slot it likes best.
NextFree(i) ==
    Min({n \in 1..(hash_mask + 1) : ~table[(i + n) % (hash_mask + 1)].live})

\* How many slots after i the gap can go: up to an item that is in its best slot, or none.
NextHome(i) ==
    Min({n \in 1..(hash_mask + 1) : table[(i + n) % (hash_mask + 1)].probe_len < 1})

\* delete_item: the items after it move back by one.
Deleted(i) ==
    LET size == hash_mask + 1
        steps == NextHome(i)
        moved == {(i + n) % size : n \in 0..(steps - 2)}
        last == (i + steps - 1) % size
        next(j) == table[(j + 1) % size]
    IN  [j \in DOMAIN table |->
            IF j = last THEN Empty
            ELSE IF j \in moved THEN [next(j) EXCEPT !.probe_len = @ - 1]
            ELSE table[j]]

\* resize: the live items are inserted in the order of their slots.
Resized(t, mask) ==
    LET after[i \in 0..(mask + 1)] ==
            IF i = 0
            THEN [table |-> EmptyTable(2 * mask + 1), mask |-> 2 * mask + 1, max |-> 0]
            ELSE LET state == after[i - 1]
                 IN  IF t[i - 1].live THEN InsertItem(t[i - 1], state) ELSE state
    IN  after[mask + 1]

\* Mutant: the table may fill up.
Full(size) == size

\* 217 is roughly 85% of 256.
Threshold(size) == (217 * size) \div 256

-----------------------------------------------------------------------------
(* The operations.                                                         *)

\* Insertion of a key that is not in t, num of whose slots are occupied.
InsertInto(t, num, k, v) ==
    LET size == hash_mask + 1
        item == [live |-> TRUE, key |-> k, value |-> v, probe_len |-> 0]
        Keep == table' = t /\ num_occupied_slots' = num /\ result' = FALSE
                /\ UNCHANGED <<hash_mask, max_probe_len>>
        Put(base) ==
            LET new == InsertItem(item, base)
            IN  /\ table' = new.table /\ hash_mask' = new.mask /\ max_probe_len' = new.max
                /\ num_occupied_slots' = num + 1 /\ result' = TRUE
    IN  IF size >= max_size THEN Keep
        ELSE IF num + 1 > Threshold(size) THEN Put(Resized(t, hash_mask)) \/ Keep
        ELSE Put([table |-> t, mask |-> hash_mask, max |-> max_probe_len])

\* SDL_InsertIntoHashTable; memory for a larger table may be refused.
InsertIntoHashTable(k, v, replace) ==
    /\ IF ~Found(k) THEN InsertInto(table, num_occupied_slots, k, v)
       ELSE IF replace THEN InsertInto(Deleted(EndOfSearch(k)), num_occupied_slots - 1, k, v)
       ELSE result' = FALSE /\ UNCHANGED tableVars
    /\ UNCHANGED <<hash, max_size>>

RemoveFromHashTable(k) ==
    /\ IF Found(k)
       THEN /\ table' = Deleted(EndOfSearch(k))
            /\ num_occupied_slots' = num_occupied_slots - 1
       ELSE UNCHANGED <<table, num_occupied_slots>>
    /\ result' = Found(k)
    /\ UNCHANGED <<hash_mask, max_probe_len, hash, max_size>>

\* The longest probe is kept.
ClearHashTable ==
    /\ table' = EmptyTable(hash_mask) /\ num_occupied_slots' = 0
    /\ UNCHANGED <<hash_mask, max_probe_len, result, hash, max_size>>

Next ==
    \/ \E k \in Keys :
          \/ \E v \in Values, replace \in BOOLEAN : InsertIntoHashTable(k, v, replace)
          \/ RemoveFromHashTable(k)
    \/ ClearHashTable

Spec == Init /\ [][Next]_vars

-----------------------------------------------------------------------------
(* Properties.                                                             *)

\* The shape that the searches rely on, and the assertions of find_item, insert_item and
\* delete_item: the count is exact, a slot is free, every item knows how far it is from its
\* best slot, and lies there or next to one that is at most one step nearer to its own.
RobinHood ==
    /\ num_occupied_slots = Cardinality({i \in DOMAIN table : table[i].live})
    /\ \E i \in DOMAIN table : ~table[i].live
    /\ DOMAIN table = 0..hash_mask
    /\ \A i \in DOMAIN table :
          LET before == table[(i + hash_mask) % (hash_mask + 1)]
          IN  IF table[i].live
              THEN /\ table[i].probe_len = ProbeLength(hash_mask, table[i].key, i)
                   /\ table[i].probe_len <= max_probe_len
                   /\ table[i].probe_len > 0 => before.live
                                                /\ table[i].probe_len <= before.probe_len + 1
              ELSE table[i] = Empty

\* The table is a map: what searches find is what was put in last, iterations visit those
\* items, and an insertion fails only for a key that is there, at the largest size, or when
\* the table must grow, through every displacement, shift and growth.
Map == INSTANCE HashMap
    WITH map <- [k \in Keys |-> Find(k)], items <- Iterate,
         room <- Threshold(hash_mask + 1), limited <- hash_mask + 1 >= max_size
TableIsMap == Map!Spec
=============================================================================
