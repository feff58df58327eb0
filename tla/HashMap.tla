------------------------------- MODULE HashMap -------------------------------
(***************************************************************************)
(* What SDL's hash table promises (src/src/SDL_hashtable.h): a map from    *)
(* keys to values.  map is what a look-up of each key gives, items what an *)
(* iteration visits and result what the last call returned.  An insertion  *)
(* fails only when there is no room: room keys find a place without more   *)
(* memory, and a limited table takes nothing.                              *)
(***************************************************************************)
EXTENDS Naturals, FiniteSets

CONSTANTS Keys, Values, NoValue

VARIABLES map, items, result, room, limited

vars == <<map, items, result, room, limited>>

Init ==
    /\ map = [k \in Keys |-> NoValue] /\ items = {} /\ result = TRUE
    /\ room \in Nat /\ limited \in BOOLEAN

\* Only the keys ks change, and all of them to v.
Set(ks, v) ==
    /\ \A k \in Keys : map'[k] = IF k \in ks THEN v ELSE map[k]
    /\ items' = {<<k, map'[k]>> : k \in {x \in Keys : map'[x] # NoValue}}

\* How many keys there are besides k.
Others(k) == Cardinality({x \in Keys \ {k} : map[x] # NoValue})

\* Key k finds a place, if need be after growth.
Insert(k, v) ==
    /\ ~limited
    /\ result' = TRUE /\ Set({k}, v)
    /\ IF Others(k) < room THEN UNCHANGED <<room, limited>>
       ELSE room' > room /\ limited' \in BOOLEAN

\* Nothing more is taken, or memory would be needed, which may be refused.
MayBeRefused(k) == limited \/ Others(k) >= room

\* A key that is there and may not be replaced, or no place.
InsertFails(k) ==
    /\ result' = FALSE /\ Set({}, NoValue) /\ UNCHANGED <<room, limited>>
    /\ map[k] # NoValue \/ MayBeRefused(k)

\* "If replace is true, SDL will remove the previous item first": and does so also when
\* the new one then finds no place.
ReplaceFails(k) ==
    /\ result' = FALSE /\ Set({k}, NoValue) /\ UNCHANGED <<room, limited>>
    /\ map[k] # NoValue /\ MayBeRefused(k)

Remove(k) ==
    result' = (map[k] # NoValue) /\ Set({k}, NoValue) /\ UNCHANGED <<room, limited>>

Clear == Set(Keys, NoValue) /\ UNCHANGED <<result, room, limited>>

Next ==
    \/ \E k \in Keys : \/ \E v \in Values : Insert(k, v)
                       \/ InsertFails(k) \/ ReplaceFails(k) \/ Remove(k)
    \/ Clear

Spec == Init /\ [][Next]_vars
=============================================================================
