--------------------------- MODULE HashTable_proofs ---------------------------
(***************************************************************************)
(* Proofs about HashTable, for any keys, values and hashes and tables of   *)
(* any size: the shape that searches rely on is kept by every operation,   *)
(* and the table is a map.                                                 *)
(***************************************************************************)
EXTENDS HashTable, Lists_proofs

-----------------------------------------------------------------------------
(* Going around in a table of N slots.                                     *)

IsRest(N, y, r) == \E q \in Nat : y = N * q + r

LEMMA ModUnique ==
    ASSUME NEW N \in Nat \ {0}, NEW r \in 0..N - 1, NEW x, IsRest(N, x, r)
    PROVE  x % N = r
BY DEF IsRest

LEMMA ModWrap ==
    ASSUME NEW N \in Nat \ {0}, NEW x \in 0..2 * N - 1
    PROVE  x % N = IF x < N THEN x ELSE x - N
<1>1. CASE x < N BY <1>1
<1>2. CASE x >= N BY <1>2
<1> QED BY <1>1, <1>2

LEMMA ModRange ==
    ASSUME NEW N \in Nat \ {0}, NEW x \in Nat
    PROVE  x % N \in 0..N - 1
OBVIOUS

LEMMA ModOf ==
    ASSUME NEW N \in Nat \ {0}, NEW x \in Nat
    PROVE  IsRest(N, x, x % N)
<1> DEFINE Divides(y) == \E r \in 0..N - 1 : IsRest(N, y, r)
           T == {y \in Nat : Divides(y)}
<1>1. 0 \in T
  <2>1. 0 = N * 0 + 0 /\ 0 \in 0..N - 1 OBVIOUS
  <2> QED BY <2>1 DEF IsRest
<1>2. ASSUME NEW y \in T PROVE y + 1 \in T
  <2>1. PICK r \in 0..N - 1 : IsRest(N, y, r) OBVIOUS
  <2>2. PICK q \in Nat : y = N * q + r BY <2>1 DEF IsRest
  <2>3. CASE r = N - 1
    <3>1. y + 1 = N * (q + 1) + 0 /\ q + 1 \in Nat BY <2>2, <2>3
    <3>2. IsRest(N, y + 1, 0) BY <3>1, Zenon DEF IsRest
    <3>3. 0 \in 0..N - 1 OBVIOUS
    <3> QED BY <3>2, <3>3
  <2>4. CASE r # N - 1
    <3>1. y + 1 = N * q + (r + 1) BY <2>2
    <3>2. IsRest(N, y + 1, r + 1) BY <3>1, Zenon DEF IsRest
    <3>3. r + 1 \in 0..N - 1 BY <2>4
    <3> QED BY <3>2, <3>3
  <2> QED BY <2>3, <2>4
<1>3. T = Nat
  <2>1. T \in SUBSET Nat OBVIOUS
  <2> HIDE DEF T
  <2> QED BY <1>1, <1>2, <2>1, NatInd
<1>4. PICK r \in 0..N - 1 : IsRest(N, x, r) BY <1>3
<1>5. x % N = r BY <1>4, ModUnique
<1> QED BY <1>4, <1>5

LEMMA ModAdd ==
    ASSUME NEW N \in Nat \ {0}, NEW x \in Nat, NEW y \in Nat
    PROVE  (x + y) % N = ((x % N) + y) % N
<1> DEFINE r == x % N
           s == (r + y) % N
<1>1. r \in Nat BY ModRange
<1>2. IsRest(N, x, r) BY ModOf
<1> HIDE DEF r
<1>3. s \in 0..N - 1 /\ IsRest(N, r + y, s)
  <2>1. r + y \in Nat BY <1>1
  <2> QED BY <2>1, ModRange, ModOf
<1> HIDE DEF s
<1>4. PICK q \in Nat : x = N * q + r BY <1>2 DEF IsRest
<1>5. PICK p \in Nat : r + y = N * p + s BY <1>3 DEF IsRest
<1>6. x + y = N * (q + p) + s /\ q + p \in Nat BY <1>1, <1>3, <1>4, <1>5
<1>7. IsRest(N, x + y, s) BY <1>6, Zenon DEF IsRest
<1>8. (x + y) % N = s BY <1>3, <1>7, ModUnique
<1> QED BY <1>8 DEF s, r

-----------------------------------------------------------------------------
(* Slots.                                                                  *)

Slots(mask) == 0..mask
After(mask, i) == IF i = mask THEN 0 ELSE i + 1
Before(mask, i) == IF i = 0 THEN mask ELSE i - 1

\* The slot n steps after i, and how many steps there are from i to j.
Ahead(mask, i, n) == IF i + n <= mask THEN i + n ELSE i + n - mask - 1
Steps(mask, i, j) == IF j >= i THEN j - i ELSE j + mask + 1 - i

LEMMA AheadIs ==
    ASSUME NEW mask \in Nat, NEW i \in Slots(mask), NEW n \in 0..mask + 1
    PROVE  /\ (i + n) % (mask + 1) = Ahead(mask, i, n)
           /\ Ahead(mask, i, n) \in Slots(mask)
<1> DEFINE N == mask + 1
           x == i + n
<1>1. N \in Nat \ {0} /\ x \in 0..2 * N - 1 BY DEF Slots
<1> HIDE DEF N, x
<1>2. x % N = IF x < N THEN x ELSE x - N BY <1>1, ModWrap
<1>3. x % N = Ahead(mask, i, n)
  <2>1. CASE x < N BY <1>2, <2>1 DEF Ahead, N, x, Slots
  <2>2. CASE ~(x < N) BY <1>1, <1>2, <2>2 DEF Ahead, N, x, Slots
  <2> QED BY <2>1, <2>2
<1>4. Ahead(mask, i, n) \in Slots(mask) BY DEF Ahead, Slots
<1> QED BY <1>3, <1>4 DEF N, x

LEMMA SlotIs ==
    ASSUME NEW mask \in Nat, NEW k, hash[k] \in Nat
    PROVE  /\ Slot(mask, k, 0) \in Slots(mask)
           /\ \A n \in 0..mask + 1 : Slot(mask, k, n) = Ahead(mask, Slot(mask, k, 0), n)
           /\ \A i \in Slots(mask) : ProbeLength(mask, k, i) = Steps(mask, Slot(mask, k, 0), i)
<1> DEFINE N == mask + 1
           h == Slot(mask, k, 0)
<1>1. N \in Nat \ {0} OBVIOUS
<1>2. h = hash[k] % N BY DEF Slot
<1>3. h \in Slots(mask) BY <1>1, <1>2, ModRange DEF Slots
<1>4. ASSUME NEW n \in 0..mask + 1 PROVE Slot(mask, k, n) = Ahead(mask, h, n)
  <2> DEFINE x == hash[k]
  <2> HIDE DEF N, x
  <2>1. (x + n) % N = ((x % N) + n) % N BY <1>1, ModAdd DEF x
  <2>2. (h + n) % N = Ahead(mask, h, n) BY <1>3, AheadIs DEF N
  <2> QED BY <1>2, <2>1, <2>2 DEF Slot, N, x
<1>5. ASSUME NEW i \in Slots(mask) PROVE ProbeLength(mask, k, i) = Steps(mask, h, i)
  <2> HIDE DEF h
  <2> DEFINE x == i + mask + 1 - h
  <2>1. x \in 0..2 * N - 1 BY <1>3 DEF Slots
  <2> HIDE DEF x, N
  <2>2. x % N = IF x < N THEN x ELSE x - N BY <1>1, <2>1, ModWrap
  <2>3. x % N = Steps(mask, h, i)
    <3>1. CASE x < N BY <1>3, <2>2, <3>1 DEF Slots, Steps, x, N
    <3>2. CASE ~(x < N) BY <1>3, <2>1, <2>2, <3>2 DEF Slots, Steps, x, N
    <3> QED BY <3>1, <3>2
  <2> QED BY <2>3 DEF ProbeLength, h, x, N
<1> QED BY <1>3, <1>4, <1>5

LEMMA Around ==
    ASSUME NEW mask \in Nat, NEW i \in Slots(mask)
    PROVE  /\ After(mask, i) \in Slots(mask) /\ Before(mask, i) \in Slots(mask)
           /\ After(mask, Before(mask, i)) = i /\ Before(mask, After(mask, i)) = i
           /\ Ahead(mask, i, 0) = i
           /\ Ahead(mask, i, 1) = After(mask, i) /\ Ahead(mask, i, mask) = Before(mask, i)
BY DEF Slots, After, Before, Ahead

LEMMA StepsAre ==
    ASSUME NEW mask \in Nat, NEW i \in Slots(mask), NEW j \in Slots(mask)
    PROVE  /\ Steps(mask, i, j) \in 0..mask
           /\ Ahead(mask, i, Steps(mask, i, j)) = j
           /\ Steps(mask, i, After(mask, j)) =
                IF Steps(mask, i, j) = mask THEN 0 ELSE Steps(mask, i, j) + 1
BY DEF Slots, After, Ahead, Steps

LEMMA StepsAhead ==
    ASSUME NEW mask \in Nat, NEW i \in Slots(mask), NEW n \in 0..mask
    PROVE  /\ Ahead(mask, i, n) \in Slots(mask) /\ Steps(mask, i, Ahead(mask, i, n)) = n
           /\ After(mask, Ahead(mask, i, n)) = Ahead(mask, i, n + 1)
BY DEF Slots, After, Ahead, Steps

\* How far slots are from the one a key likes best.
LEMMA ProbeIs ==
    ASSUME NEW mask \in Nat, NEW k, hash[k] \in Nat, NEW i \in Slots(mask)
    PROVE  /\ ProbeLength(mask, k, i) \in 0..mask
           /\ Slot(mask, k, ProbeLength(mask, k, i)) = i
           /\ ProbeLength(mask, k, After(mask, i)) =
                IF ProbeLength(mask, k, i) = mask THEN 0 ELSE ProbeLength(mask, k, i) + 1
<1> DEFINE h == Slot(mask, k, 0)
<1>1. /\ h \in Slots(mask)
      /\ \A n \in 0..mask + 1 : Slot(mask, k, n) = Ahead(mask, h, n)
      /\ \A j \in Slots(mask) : ProbeLength(mask, k, j) = Steps(mask, h, j)
  BY SlotIs
<1> HIDE DEF h
<1>2. After(mask, i) \in Slots(mask) BY Around
<1>3. Steps(mask, h, i) \in 0..mask + 1 BY <1>1, StepsAre
<1> QED BY <1>1, <1>2, <1>3, StepsAre

LEMMA ProbeSlot ==
    ASSUME NEW mask \in Nat, NEW k, hash[k] \in Nat, NEW n \in 0..mask
    PROVE  /\ Slot(mask, k, n) \in Slots(mask) /\ ProbeLength(mask, k, Slot(mask, k, n)) = n
           /\ Slot(mask, k, n + 1) = After(mask, Slot(mask, k, n))
<1> DEFINE h == Slot(mask, k, 0)
<1>1. /\ h \in Slots(mask)
      /\ \A m \in 0..mask + 1 : Slot(mask, k, m) = Ahead(mask, h, m)
      /\ \A j \in Slots(mask) : ProbeLength(mask, k, j) = Steps(mask, h, j)
  BY SlotIs
<1> HIDE DEF h
<1>2. Slot(mask, k, n) = Ahead(mask, h, n) /\ Slot(mask, k, n + 1) = Ahead(mask, h, n + 1)
  BY <1>1
<1> QED BY <1>1, <1>2, StepsAhead

-----------------------------------------------------------------------------
(* The shape of a table.                                                   *)

Items == [live : BOOLEAN, key : Keys \cup {NoKey}, value : Values \cup {NoValue}, probe_len : Nat]

\* An item in slot i of t, no more than max from its best slot, and next to one that is at
\* most one step nearer to its own.
ItemOK(t, mask, max, i) ==
    /\ t[i].key \in Keys /\ t[i].value \in Values
    /\ t[i].probe_len = ProbeLength(mask, t[i].key, i) /\ t[i].probe_len <= max
    /\ t[i].probe_len > 0 => /\ t[Before(mask, i)].live
                             /\ t[i].probe_len <= t[Before(mask, i)].probe_len + 1

Shape(t, mask, max) ==
    /\ t \in [Slots(mask) -> Items]
    /\ \A i \in Slots(mask) : IF t[i].live THEN ItemOK(t, mask, max, i) ELSE t[i] = Empty
    /\ \A i, j \in Slots(mask) : t[i].live /\ t[j].live /\ t[i].key = t[j].key => i = j

Live(t) == {i \in DOMAIN t : t[i].live}

\* Key k is in table t with value v.
Holds(t, k, v) == \E i \in DOMAIN t : t[i].live /\ t[i].key = k /\ t[i].value = v
HasKey(t, k) == \E i \in DOMAIN t : t[i].live /\ t[i].key = k

LEMMA EmptyShape ==
    ASSUME NEW mask \in Nat, NEW max \in Nat
    PROVE  /\ Shape(EmptyTable(mask), mask, max)
           /\ Live(EmptyTable(mask)) = {}
           /\ \A k, v : ~Holds(EmptyTable(mask), k, v) /\ ~HasKey(EmptyTable(mask), k)
BY DEF EmptyTable, Empty, Shape, Items, Live, Holds, HasKey, Slots

\* With one more item than a table has slots there would be no table.
LEMMA LiveFinite ==
    ASSUME NEW mask \in Nat, NEW max, NEW t, Shape(t, mask, max)
    PROVE  /\ IsFiniteSet(Live(t)) /\ Cardinality(Live(t)) \in 0..mask + 1
           /\ Cardinality(Live(t)) <= mask <=> \E i \in Slots(mask) : ~t[i].live
<1> DEFINE S == Slots(mask)
<1>1. IsFiniteSet(S) /\ Cardinality(S) = mask + 1
  <2>1. IsFiniteSet(0..mask) /\ Cardinality(0..mask) = IF 0 > mask THEN 0 ELSE mask - 0 + 1
    BY FS_Interval
  <2> QED BY <2>1 DEF Slots
<1>2. DOMAIN t = S /\ Live(t) \subseteq S BY DEF Shape, Live
<1> HIDE DEF S
<1>3. IsFiniteSet(Live(t)) /\ Cardinality(Live(t)) <= mask + 1 BY <1>1, <1>2, FS_Subset
<1>4. Cardinality(Live(t)) \in Nat BY <1>3, FS_CardinalityType
<1>5. Cardinality(Live(t)) = mask + 1 <=> Live(t) = S BY <1>1, <1>2, FS_Subset
<1>6. Live(t) = S <=> ~\E i \in Slots(mask) : ~t[i].live BY <1>2 DEF Live, S
<1> QED BY <1>3, <1>4, <1>5, <1>6

-----------------------------------------------------------------------------
(* Insertion.                                                              *)

HashOK == \A k \in Keys : hash[k] \in Nat

\* An item of key k may lie in slot i, and take the place of what is there.
MayLie(t, mask, k, i) ==
    LET p == ProbeLength(mask, k, i)
    IN p > 0 => t[Before(mask, i)].live /\ p <= t[Before(mask, i)].probe_len + 1

\* Table u is t with an item of key k and value v put in slot i.
IsPut(u, t, mask, i, k, v) ==
    /\ u \in [Slots(mask) -> Items]
    /\ u[i].live /\ u[i].key = k /\ u[i].value = v /\ u[i].probe_len = ProbeLength(mask, k, i)
    /\ \A j \in Slots(mask) : j # i => u[j] = t[j]

\* It may be put there, and then no item is more than top from its best slot.
MayPut(t, mask, max, top, i, k) ==
    /\ Shape(t, mask, max) /\ k \in Keys /\ ~HasKey(t, k) /\ MayLie(t, mask, k, i)
    /\ t[i].live => t[i].probe_len < ProbeLength(mask, k, i)
    /\ max \in Nat /\ top \in Nat /\ max <= top /\ ProbeLength(mask, k, i) <= top

\* What is then in table u.
HasPut(u, t, mask, top, i, k, v) ==
    /\ Shape(u, mask, top)
    /\ Live(u) = Live(t) \cup {i}
    /\ \A x, y : Holds(u, x, y) \/ (t[i].live /\ x = t[i].key /\ y = t[i].value)
                   <=> Holds(t, x, y) \/ (x = k /\ y = v)
    /\ t[i].live => ~HasKey(u, t[i].key)

LEMMA PutShape ==
    ASSUME HashOK, NEW mask \in Nat, NEW t, NEW max, NEW top, NEW i \in Slots(mask), NEW k, NEW v,
           MayPut(t, mask, max, top, i, k), NEW u, v \in Values, IsPut(u, t, mask, i, k, v)
    PROVE  HasPut(u, t, mask, top, i, k, v)
<1>0. /\ Shape(t, mask, max) /\ k \in Keys /\ ~HasKey(t, k) /\ MayLie(t, mask, k, i)
      /\ t[i].live => t[i].probe_len < ProbeLength(mask, k, i)
      /\ max \in Nat /\ top \in Nat /\ max <= top /\ ProbeLength(mask, k, i) <= top
  BY DEF MayPut
<1> DEFINE p == ProbeLength(mask, k, i)
<1>1. p \in 0..mask BY <1>0, ProbeIs DEF HashOK
<1>2. DOMAIN t = Slots(mask) /\ DOMAIN u = Slots(mask) BY <1>0 DEF Shape, IsPut
<1>3. t[i].live => t[i].probe_len < p BY <1>0
<1>4. /\ u[i].live /\ u[i].key = k /\ u[i].value = v /\ u[i].probe_len = p
      /\ \A j \in Slots(mask) : j # i => u[j] = t[j]
  BY DEF IsPut
<1>5. max <= top /\ p <= top /\ max \in Nat /\ top \in Nat BY <1>0
<1>6. u \in [Slots(mask) -> Items] BY DEF IsPut
<1>7. \A j \in Slots(mask) : t[j].live => t[j].key # k BY <1>0, <1>2 DEF HasKey
<1>8. ASSUME NEW j \in Slots(mask)
      PROVE  IF u[j].live THEN ItemOK(u, mask, top, j) ELSE u[j] = Empty
  <2> DEFINE b == Before(mask, j)
  <2>1. b \in Slots(mask) BY Around
  <2> HIDE DEF b
  <2>2. CASE j = i
    <3>1. CASE p = 0
      <4>1. u[i].probe_len = 0 BY <1>4, <3>1
      <4>2. ~(u[i].probe_len > 0) BY <4>1
      <4>3. u[i].probe_len <= top BY <1>5, <4>1
      <4>4. u[i].key \in Keys /\ u[i].value \in Values BY <1>0, <1>4
      <4>5. u[i].probe_len = ProbeLength(mask, u[i].key, i) BY <1>4
      <4>6. ItemOK(u, mask, top, i) BY <4>2, <4>3, <4>4, <4>5, Zenon DEF ItemOK
      <4> QED BY <1>4, <2>2, <4>6, Zenon
    <3>2. CASE p > 0
      <4>1. t[b].live /\ p <= t[b].probe_len + 1
        BY <1>0, <2>2, <3>2 DEF MayLie, b
      <4>2. b # i
        <5>1. mask # 0 BY <1>1, <3>2
        <5> QED BY <2>2, <5>1 DEF b, Before, Slots
      <4>3. u[b] = t[b] BY <1>4, <2>1, <4>2
      <4> QED BY <1>0, <1>4, <1>5, <2>2, <4>1, <4>3 DEF ItemOK, b
    <3> QED BY <1>1, <3>1, <3>2
  <2>3. CASE j # i /\ ~t[j].live BY <1>0, <1>4, <2>3 DEF Shape
  <2>4. CASE j # i /\ t[j].live
    <3>1. ItemOK(t, mask, max, j) /\ u[j] = t[j] /\ t[j].probe_len \in Nat
      BY <1>0, <1>4, <2>4 DEF Shape, Items
    <3>2. t[j].probe_len > 0 => u[b].live /\ t[j].probe_len <= u[b].probe_len + 1
      <4>1. CASE b # i BY <1>4, <2>1, <3>1, <4>1 DEF ItemOK, b
      <4>2. CASE b = i
        <5> SUFFICES ASSUME t[j].probe_len > 0
                     PROVE  u[i].live /\ t[j].probe_len <= u[i].probe_len + 1
          BY <4>2
        <5>1. t[i].live /\ t[j].probe_len <= t[i].probe_len + 1 BY <3>1, <4>2 DEF ItemOK, b
        <5>2. t[i].probe_len \in Nat BY <1>0 DEF Shape, Items
        <5>3. t[i].probe_len < p BY <1>3, <5>1
        <5> HIDE DEF p
        <5> QED BY <1>1, <1>4, <3>1, <5>1, <5>2, <5>3
      <4> QED BY <4>1, <4>2
    <3>3. t[j].probe_len <= top BY <1>5, <3>1 DEF ItemOK
    <3> QED BY <2>4, <3>1, <3>2, <3>3 DEF ItemOK, b
  <2> QED BY <2>2, <2>3, <2>4
<1>9. ASSUME NEW j \in Slots(mask), NEW l \in Slots(mask), u[j].live, u[l].live, u[j].key = u[l].key
      PROVE  j = l
  BY <1>0, <1>4, <1>7, <1>9 DEF Shape
<1>10. Shape(u, mask, top) BY <1>6, <1>8, <1>9 DEF Shape
<1>11. Live(u) = Live(t) \cup {i} BY <1>2, <1>4 DEF Live
<1>14. \A x, y : Holds(u, x, y) \/ (t[i].live /\ x = t[i].key /\ y = t[i].value)
                   <=> Holds(t, x, y) \/ (x = k /\ y = v)
  <2> SUFFICES ASSUME NEW x, NEW y
               PROVE  Holds(u, x, y) \/ (t[i].live /\ x = t[i].key /\ y = t[i].value)
                        <=> Holds(t, x, y) \/ (x = k /\ y = v)
    OBVIOUS
  <2> DEFINE Other == \E j \in Slots(mask) : j # i /\ t[j].live /\ t[j].key = x /\ t[j].value = y
  <2>1. Holds(u, x, y) <=> (x = k /\ y = v) \/ Other BY <1>2, <1>4 DEF Holds
  <2>2. Holds(t, x, y) <=> (t[i].live /\ t[i].key = x /\ t[i].value = y) \/ Other
    BY <1>2 DEF Holds
  <2> HIDE DEF Other
  <2> QED BY <2>1, <2>2
<1>15. t[i].live => ~HasKey(u, t[i].key)
  <2> SUFFICES ASSUME t[i].live, NEW j \in Slots(mask), u[j].live, u[j].key = t[i].key
               PROVE  FALSE
    BY <1>2 DEF HasKey
  <2>1. j = i BY <1>0, <1>2, <1>4 DEF Shape
  <2>2. t[i].key = k BY <1>4, <2>1
  <2> QED BY <1>7, <2>2
<1> QED BY <1>10, <1>11, <1>14, <1>15 DEF HasPut

-----------------------------------------------------------------------------
(* The loop of insert_item.                                                *)

State(u, mask, max, item) == [table |-> u, mask |-> mask, max |-> max, item |-> item]

Moved(s, u, max, item) == [s EXCEPT !.table = u, !.max = max, !.item = item]

LEMMA StateMoved ==
    ASSUME NEW t, NEW mask, NEW top, NEW carried, NEW u, NEW max, NEW item
    PROVE  Moved(State(t, mask, top, carried), u, max, item) = State(u, mask, max, item)
<1> DEFINE Fields == {"table", "mask", "max", "item"}
           s == State(t, mask, top, carried)
           x == Moved(s, u, max, item)
           y == State(u, mask, max, item)
<1>1. DOMAIN x = Fields /\ x.table = u /\ x.mask = mask /\ x.max = max /\ x.item = item
  BY DEF Moved, State
<1>2. DOMAIN y = Fields /\ y.table = u /\ y.mask = mask /\ y.max = max /\ y.item = item
  BY DEF State
<1>3. x = [f \in Fields |-> x[f]] BY <1>1 DEF Moved
<1>4. y = [f \in Fields |-> y[f]] BY <1>2 DEF State
<1> HIDE DEF x, y
<1>5. \A f \in Fields : x[f] = y[f] BY <1>1, <1>2
<1>6. [f \in Fields |-> x[f]] = [f \in Fields |-> y[f]] BY <1>5
<1>7. x = y BY <1>3, <1>4, <1>6
<1> QED BY <1>7 DEF x, y

LEMMA TurnIs ==
    ASSUME NEW u, NEW mask, NEW max, NEW item, NEW i
    PROVE  LET new == ProbeLength(mask, item.key, i)
           IN  Turn(State(u, mask, max, item), i) =
                  IF item.live /\ (~u[i].live \/ u[i].probe_len < new)
                  THEN State([u EXCEPT ![i] = [item EXCEPT !.probe_len = new]], mask,
                             IF max < new THEN new ELSE max, u[i])
                  ELSE State(u, mask, max, item)
<1> DEFINE s == State(u, mask, max, item)
           new == ProbeLength(mask, item.key, i)
           put == [item EXCEPT !.probe_len = new]
           high == IF max < new THEN new ELSE max
           Fits == item.live /\ (~u[i].live \/ u[i].probe_len < new)
<1>1. s.table = u /\ s.mask = mask /\ s.max = max /\ s.item = item BY DEF State
<1>2. [s EXCEPT !.table[i] = put, !.max = high, !.item = u[i]]
        = State([u EXCEPT ![i] = put], mask, high, u[i])
  <2> HIDE DEF put, high
  <2>1. [s EXCEPT !.table[i] = put] = [s EXCEPT !.table = [s.table EXCEPT ![i] = put]] OBVIOUS
  <2> DEFINE w == [u EXCEPT ![i] = put]
             there == u[i]
  <2> HIDE DEF w, there
  <2>2. Moved(s, w, high, there) = State(w, mask, high, there) BY StateMoved
  <2> QED BY <1>1, <2>1, <2>2 DEF w, there, Moved
<1> HIDE DEF s
<1>3. CASE Fits
  <2>1. Turn(s, i) = [s EXCEPT !.table[i] = put, !.max = high, !.item = u[i]]
    BY <1>1, <1>3 DEF Turn
  <2> QED BY <1>2, <1>3, <2>1 DEF s
<1>4. CASE ~Fits
  <2>1. Turn(s, i) = s BY <1>1, <1>4 DEF Turn
  <2> QED BY <1>4, <2>1 DEF s
<1> QED BY <1>3, <1>4

\* The loop has passed n slots, none of which is free, and may put its item into the next.
Carried(u, item, t, mask, k, n) ==
    /\ item.key \in Keys /\ item.value \in Values /\ ~HasKey(u, item.key)
    /\ Live(u) = Live(t)
    /\ \A m \in 0..n - 1 : u[Slot(mask, k, m)].live
    /\ MayLie(u, mask, item.key, Slot(mask, k, n))

\* Table u is t, with the item of key k and value v that is put into it but without the one
\* that the loop still carries.
Turned(u, top, item, t, mask, max, k, v, n) ==
    /\ top \in Nat /\ max <= top /\ Shape(u, mask, top) /\ item \in Items
    /\ \A x, y : Holds(u, x, y) \/ (item.live /\ x = item.key /\ y = item.value)
                   <=> Holds(t, x, y) \/ (x = k /\ y = v)
    /\ item.live => Carried(u, item, t, mask, k, n)
    /\ ~item.live => \E j \in Slots(mask) \ Live(t) : Live(u) = Live(t) \cup {j}

Puts(w, high, u, top, item, i, new) ==
    /\ w = [u EXCEPT ![i] = [item EXCEPT !.probe_len = new]]
    /\ high = IF top < new THEN new ELSE top

\* The item is put down, and the one that was there goes on.
LEMMA TurnPuts ==
    ASSUME HashOK, NEW mask \in Nat, NEW max \in Nat, NEW t, NEW k \in Keys, NEW v \in Values,
           NEW n \in 0..mask, NEW u, NEW top, NEW item,
           Turned(u, top, item, t, mask, max, k, v, n),
           NEW i, i = Slot(mask, k, n), NEW new, new = ProbeLength(mask, item.key, i),
           item.live, ~u[i].live \/ u[i].probe_len < new,
           NEW w, NEW high, Puts(w, high, u, top, item, i, new)
    PROVE  Turned(w, high, u[i], t, mask, max, k, v, n + 1)
<1>1. /\ top \in Nat /\ max <= top /\ Shape(u, mask, top) /\ item \in Items
      /\ item.key \in Keys /\ item.value \in Values /\ ~HasKey(u, item.key)
      /\ Live(u) = Live(t)
      /\ \A m \in 0..n - 1 : u[Slot(mask, k, m)].live
      /\ MayLie(u, mask, item.key, i)
  BY DEF Turned, Carried
<1>2. \A x, y : Holds(u, x, y) \/ (item.live /\ x = item.key /\ y = item.value)
                  <=> Holds(t, x, y) \/ (x = k /\ y = v)
  BY DEF Turned
<1>3. i \in Slots(mask) /\ Slot(mask, k, n + 1) = After(mask, i) BY ProbeSlot DEF HashOK
<1>4. After(mask, i) \in Slots(mask) /\ Before(mask, After(mask, i)) = i BY <1>3, Around
<1>5. new \in 0..mask BY <1>1, <1>3, ProbeIs DEF HashOK
<1>6. high \in Nat /\ top <= high /\ new <= high /\ max <= high BY <1>1, <1>5 DEF Puts
<1>7. u \in [Slots(mask) -> Items] BY <1>1 DEF Shape
<1>8. IsPut(w, u, mask, i, item.key, item.value)
  <2> DEFINE put == [item EXCEPT !.probe_len = new]
  <2>1. /\ put \in Items /\ put.live /\ put.key = item.key /\ put.value = item.value
        /\ put.probe_len = new
    BY <1>1, <1>5 DEF Items
  <2> HIDE DEF put
  <2>2. w \in [Slots(mask) -> Items] /\ w[i] = put /\ \A j \in Slots(mask) : j # i => w[j] = u[j]
    BY <1>3, <1>7, <2>1 DEF put, Puts
  <2> QED BY <2>1, <2>2 DEF IsPut
<1>9. /\ u[i].live => u[i].probe_len < ProbeLength(mask, item.key, i)
      /\ ProbeLength(mask, item.key, i) <= high
  BY <1>6
<1>10. /\ Shape(w, mask, high)
       /\ Live(w) = Live(u) \cup {i}
       /\ \A x, y : Holds(w, x, y) \/ (u[i].live /\ x = u[i].key /\ y = u[i].value)
                      <=> Holds(u, x, y) \/ (x = item.key /\ y = item.value)
       /\ u[i].live => ~HasKey(w, u[i].key)
  <2>1. MayPut(u, mask, top, high, i, item.key) BY <1>1, <1>6, <1>9 DEF MayPut
  <2>2. HasPut(w, u, mask, high, i, item.key, item.value) BY <1>1, <1>3, <1>8, <2>1, PutShape
  <2> QED BY <2>2 DEF HasPut
<1>11. \A x, y : Holds(w, x, y) \/ (u[i].live /\ x = u[i].key /\ y = u[i].value)
                   <=> Holds(t, x, y) \/ (x = k /\ y = v)
  BY <1>2, <1>10
<1>12. u[i] \in Items BY <1>3, <1>7
<1>13. ASSUME u[i].live
       PROVE  /\ u[i].key \in Keys /\ u[i].value \in Values
              /\ Live(w) = Live(t)
              /\ \A m \in 0..n : w[Slot(mask, k, m)].live
              /\ MayLie(w, mask, u[i].key, After(mask, i))
  <2>1. ItemOK(u, mask, top, i) BY <1>1, <1>3, <1>13 DEF Shape
  <2>2. u[i].key \in Keys /\ u[i].value \in Values BY <2>1 DEF ItemOK
  <2>3. i \in Live(u) BY <1>3, <1>7, <1>13 DEF Live
  <2>4. Live(w) = Live(t) BY <1>1, <1>10, <2>3
  <2>5. ASSUME NEW m \in 0..n PROVE w[Slot(mask, k, m)].live
    <3>1. Slot(mask, k, m) \in Slots(mask) /\ w[i].live BY ProbeSlot, <1>8 DEF HashOK, IsPut
    <3>2. CASE Slot(mask, k, m) = i BY <3>1, <3>2
    <3>3. CASE Slot(mask, k, m) # i
      <4>1. m \in 0..n - 1 BY <3>3
      <4>2. w[Slot(mask, k, m)] = u[Slot(mask, k, m)] BY <1>8, <3>1, <3>3 DEF IsPut
      <4> QED BY <1>1, <4>1, <4>2
    <3> QED BY <3>2, <3>3
  <2>6. MayLie(w, mask, u[i].key, After(mask, i))
    <3> DEFINE q == ProbeLength(mask, u[i].key, i)
    <3>1. /\ q \in 0..mask
          /\ ProbeLength(mask, u[i].key, After(mask, i)) = IF q = mask THEN 0 ELSE q + 1
      BY <1>3, <2>2, ProbeIs DEF HashOK
    <3>2. q = u[i].probe_len /\ q < new BY <1>13, <2>1 DEF ItemOK
    <3>3. w[i].live /\ w[i].probe_len = new BY <1>8 DEF IsPut
    <3> HIDE DEF q
    <3>4. ProbeLength(mask, u[i].key, After(mask, i)) <= w[i].probe_len + 1
      BY <1>5, <3>1, <3>2, <3>3
    <3> QED BY <1>4, <3>3, <3>4 DEF MayLie
  <2> QED BY <2>2, <2>4, <2>5, <2>6
<1>14. ASSUME ~u[i].live PROVE \E j \in Slots(mask) \ Live(t) : Live(w) = Live(t) \cup {j}
  <2>1. i \notin Live(t) BY <1>1, <1>14 DEF Live
  <2> QED BY <1>1, <1>3, <1>10, <2>1
<1>15. n + 1 - 1 = n OBVIOUS
<1>16. u[i].live => Carried(w, u[i], t, mask, k, n + 1)
  BY <1>3, <1>10, <1>13, <1>15 DEF Carried
<1>17. high \in Nat /\ max <= high /\ Shape(w, mask, high) BY <1>6, <1>10
<1> HIDE DEF ProbeLength
<1> QED BY <1>11, <1>12, <1>14, <1>16, <1>17, ZenonT(60) DEF Turned

\* The item goes on to the next slot.
LEMMA TurnPasses ==
    ASSUME HashOK, NEW mask \in Nat, NEW max \in Nat, NEW t, NEW k \in Keys, NEW v \in Values,
           NEW n \in 0..mask, NEW u, NEW top, NEW item,
           Turned(u, top, item, t, mask, max, k, v, n),
           NEW i, i = Slot(mask, k, n),
           ~(item.live /\ (~u[i].live \/ u[i].probe_len < ProbeLength(mask, item.key, i)))
    PROVE  Turned(u, top, item, t, mask, max, k, v, n + 1)
<1>1. CASE ~item.live BY <1>1 DEF Turned
<1>2. CASE item.live
  <2> DEFINE p == ProbeLength(mask, item.key, i)
  <2>1. Shape(u, mask, top) /\ item.key \in Keys /\ \A m \in 0..n - 1 : u[Slot(mask, k, m)].live
    BY <1>2 DEF Turned, Carried
  <2>2. i \in Slots(mask) /\ Slot(mask, k, n + 1) = After(mask, i) BY ProbeSlot DEF HashOK
  <2>3. After(mask, i) \in Slots(mask) /\ Before(mask, After(mask, i)) = i BY <2>2, Around
  <2>4. p \in 0..mask /\ ProbeLength(mask, item.key, After(mask, i)) = IF p = mask THEN 0 ELSE p + 1
    BY <2>1, <2>2, ProbeIs DEF HashOK
  <2>5. u[i].probe_len \in Nat BY <2>1, <2>2 DEF Shape, Items
  <2>6. u[i].live /\ ~(u[i].probe_len < p) BY <1>2
  <2> HIDE DEF p
  <2>7. ProbeLength(mask, item.key, After(mask, i)) <= u[i].probe_len + 1 BY <2>4, <2>5, <2>6
  <2>8. MayLie(u, mask, item.key, Slot(mask, k, n + 1)) BY <2>2, <2>3, <2>6, <2>7 DEF MayLie
  <2>9. ASSUME NEW m \in 0..n PROVE u[Slot(mask, k, m)].live
    <3>1. CASE m = n BY <2>6, <3>1
    <3>2. CASE m # n
      <4>1. m \in 0..n - 1 BY <3>2
      <4> QED BY <2>1, <4>1
    <3> QED BY <3>1, <3>2
  <2>10. n + 1 - 1 = n OBVIOUS
  <2>11. Carried(u, item, t, mask, k, n + 1) BY <1>2, <2>8, <2>9, <2>10 DEF Turned, Carried
  <2> QED BY <1>2, <2>11, Zenon DEF Turned
<1> QED BY <1>1, <1>2

LEMMA TurnStep ==
    ASSUME HashOK, NEW mask \in Nat, NEW max \in Nat, NEW t, NEW k \in Keys, NEW v \in Values,
           NEW n \in 0..mask, NEW u, NEW top, NEW item,
           Turned(u, top, item, t, mask, max, k, v, n)
    PROVE  \E w, high, there :
              /\ Turn(State(u, mask, top, item), Slot(mask, k, n)) = State(w, mask, high, there)
              /\ Turned(w, high, there, t, mask, max, k, v, n + 1)
<1> DEFINE i == Slot(mask, k, n)
           new == ProbeLength(mask, item.key, i)
           w == [u EXCEPT ![i] = [item EXCEPT !.probe_len = new]]
           high == IF top < new THEN new ELSE top
           Fits == item.live /\ (~u[i].live \/ u[i].probe_len < new)
<1>1. Turn(State(u, mask, top, item), i) =
        IF Fits THEN State(w, mask, high, u[i]) ELSE State(u, mask, top, item)
  BY TurnIs
<1>2. CASE Fits
  <2>1. Puts(w, high, u, top, item, i, new) BY DEF Puts
  <2>2. Turned(w, high, u[i], t, mask, max, k, v, n + 1)
    <3> HIDE DEF w, high, i, new
    <3>1. i = Slot(mask, k, n) /\ new = ProbeLength(mask, item.key, i) BY DEF i, new
    <3>2. item.live /\ (~u[i].live \/ u[i].probe_len < new) BY <1>2
    <3> QED BY <2>1, <3>1, <3>2, TurnPuts
  <2> HIDE DEF w, high
  <2> QED BY <1>1, <1>2, <2>2
<1>3. CASE ~Fits
  <2>1. Turned(u, top, item, t, mask, max, k, v, n + 1)
    <3> HIDE DEF i, w, high
    <3>1. i = Slot(mask, k, n) BY DEF i
    <3>2. ~(item.live /\ (~u[i].live \/ u[i].probe_len < ProbeLength(mask, item.key, i)))
      BY <1>3
    <3> QED BY <3>1, <3>2, TurnPasses
  <2> HIDE DEF w, high, Fits
  <2> QED BY <1>1, <1>3, <2>1
<1> QED BY <1>2, <1>3

\* f is what the loop does in n turns.
Inserting(f, item, t, n) ==
    f = [m \in 0..n |-> IF m = 0 THEN State(t.table, t.mask, t.max, item)
                        ELSE Turn(f[m - 1], Slot(t.mask, item.key, m - 1))]

LEMMA InsertingExists ==
    ASSUME NEW item, NEW t, NEW k \in Nat
    PROVE  \E f : Inserting(f, item, t, k)
<1> DEFINE s == State(t.table, t.mask, t.max, item)
           Do(state, m) == Turn(state, Slot(t.mask, item.key, m - 1))
           S == {n \in Nat : \E f : Inserting(f, item, t, n)}
<1>1. 0 \in S
  <2> DEFINE f == [m \in 0..0 |-> s]
  <2>1. Inserting(f, item, t, 0) BY DEF Inserting
  <2> QED BY <2>1
<1>2. ASSUME NEW n \in S PROVE n + 1 \in S
  <2>1. PICK f : Inserting(f, item, t, n) OBVIOUS
  <2> DEFINE g == [m \in 0..n + 1 |-> IF m = n + 1 THEN Do(f[n], n + 1) ELSE f[m]]
             h == [m \in 0..n + 1 |-> IF m = 0 THEN s ELSE Do(g[m - 1], m)]
  <2>2. \A m \in 0..n : f[m] = IF m = 0 THEN s ELSE Do(f[m - 1], m)
    BY <2>1 DEF Inserting
  <2> HIDE DEF Do, s
  <2>3. ASSUME NEW m \in 0..n + 1 PROVE g[m] = h[m]
    <3>1. CASE m = 0
      <4>1. g[0] = f[0] /\ h[0] = s OBVIOUS
      <4>2. f[0] = s BY <2>2
      <4> QED BY <3>1, <4>1, <4>2
    <3>2. CASE m = n + 1
      <4>1. g[n] = f[n] OBVIOUS
      <4>2. g[n + 1] = Do(f[n], n + 1) OBVIOUS
      <4>3. h[n + 1] = Do(g[n + 1 - 1], n + 1) OBVIOUS
      <4>4. n + 1 - 1 = n OBVIOUS
      <4> QED BY <3>2, <4>1, <4>2, <4>3, <4>4
    <3>3. CASE m \in 1..n
      <4>1. g[m] = f[m] /\ g[m - 1] = f[m - 1] BY <3>3
      <4>2. h[m] = Do(g[m - 1], m) BY <3>3
      <4>3. f[m] = Do(f[m - 1], m) BY <2>2, <3>3
      <4> QED BY <4>1, <4>2, <4>3
    <3> QED BY <3>1, <3>2, <3>3
  <2>4. g = h BY <2>3
  <2> HIDE DEF g
  <2>5. Inserting(g, item, t, n + 1) BY <2>4 DEF Inserting, Do, s
  <2> QED BY <2>5
<1> HIDE DEF S
<1>3. S \in SUBSET Nat BY DEF S
<1>4. S = Nat BY <1>1, <1>2, <1>3, NatInd
<1> QED BY <1>4 DEF S

\* A table with its mask and its longest probe.
Base(u, mask, max) == [table |-> u, mask |-> mask, max |-> max]

LEMMA InsertItemIs ==
    ASSUME NEW item, NEW t, t.mask + 1 \in Nat
    PROVE  \E f : /\ Inserting(f, item, t, t.mask + 1)
                  /\ InsertItem(item, t) =
                        Base(f[t.mask + 1].table, t.mask, f[t.mask + 1].max)
<1> DEFINE after == CHOOSE f : Inserting(f, item, t, t.mask + 1)
<1>1. Inserting(after, item, t, t.mask + 1) BY InsertingExists
<1>2. InsertItem(item, t) = Base(after[t.mask + 1].table, t.mask, after[t.mask + 1].max)
  BY DEF InsertItem, Inserting, Base, State
<1> QED BY <1>1, <1>2

\* Table u is t, with an item of key k and value v more.
Inserted(u, top, t, mask, max, k, v) ==
    /\ top \in Nat /\ max <= top /\ Shape(u, mask, top)
    /\ Cardinality(Live(u)) = Cardinality(Live(t)) + 1
    /\ \A x, y : Holds(u, x, y) <=> Holds(t, x, y) \/ (x = k /\ y = v)

\* An item that can be put into table t.
Insertable(item, t, mask, max) ==
    /\ Shape(t, mask, max) /\ max \in Nat /\ \E i \in Slots(mask) : ~t[i].live
    /\ item \in Items /\ item.live /\ item.key \in Keys /\ item.value \in Values
    /\ ~HasKey(t, item.key)

LEMMA InsertShape ==
    ASSUME HashOK, NEW mask \in Nat, NEW max, NEW t, NEW item, Insertable(item, t, mask, max)
    PROVE  \E u, top : /\ InsertItem(item, Base(t, mask, max)) = Base(u, mask, top)
                       /\ Inserted(u, top, t, mask, max, item.key, item.value)
<1> DEFINE b == Base(t, mask, max)
           k == item.key
           v == item.value
<1>1. b.table = t /\ b.mask = mask /\ b.max = max BY DEF Base
<1> HIDE DEF b
<1>2. PICK f : /\ Inserting(f, item, b, mask + 1)
               /\ InsertItem(item, b) = Base(f[mask + 1].table, mask, f[mask + 1].max)
  <2>1. b.mask + 1 \in Nat BY <1>1
  <2> QED BY <1>1, <2>1, InsertItemIs
<1>3. /\ f[0] = State(t, mask, max, item)
      /\ \A n \in 0..mask : f[n + 1] = Turn(f[n], Slot(mask, k, n))
  <2>1. f = [m \in 0..mask + 1 |-> IF m = 0 THEN State(t, mask, max, item)
                                   ELSE Turn(f[m - 1], Slot(mask, k, m - 1))]
    BY <1>1, <1>2 DEF Inserting
  <2>2. f[0] = State(t, mask, max, item) BY <2>1
  <2>3. ASSUME NEW n \in 0..mask PROVE f[n + 1] = Turn(f[n], Slot(mask, k, n))
    <3>1. n + 1 \in 0..mask + 1 /\ n + 1 # 0 /\ n + 1 - 1 = n OBVIOUS
    <3> QED BY <2>1, <3>1
  <2> QED BY <2>2, <2>3
<1>4. /\ Shape(t, mask, max) /\ max \in Nat /\ \E i \in Slots(mask) : ~t[i].live
      /\ item \in Items /\ item.live /\ k \in Keys /\ v \in Values /\ ~HasKey(t, k)
  BY DEF Insertable
<1> HIDE DEF k, v
<1> DEFINE Done(n) == \E u, top, it : /\ f[n] = State(u, mask, top, it)
                                      /\ Turned(u, top, it, t, mask, max, k, v, n)
           S == {n \in Nat : n <= mask + 1 => Done(n)}
<1>5. 0 \in S
  <2>1. MayLie(t, mask, k, Slot(mask, k, 0))
    <3>1. ProbeLength(mask, k, Slot(mask, k, 0)) = 0 BY <1>4, ProbeSlot DEF HashOK
    <3> QED BY <3>1 DEF MayLie
  <2>2. Carried(t, item, t, mask, k, 0) BY <1>4, <2>1 DEF Carried, k, v
  <2>3. max <= max BY <1>4
  <2>4. \A x, y : Holds(t, x, y) \/ (item.live /\ x = item.key /\ y = item.value)
                    <=> Holds(t, x, y) \/ (x = k /\ y = v)
    BY <1>4 DEF k, v
  <2>5. Turned(t, max, item, t, mask, max, k, v, 0)
    BY <1>4, <2>2, <2>3, <2>4, Zenon DEF Turned
  <2> QED BY <1>3, <2>5
<1>6. ASSUME NEW n \in S PROVE n + 1 \in S
  <2> SUFFICES ASSUME n + 1 <= mask + 1 PROVE Done(n + 1)
    OBVIOUS
  <2>1. n \in 0..mask /\ n <= mask + 1 OBVIOUS
  <2>2. PICK u, top, it : /\ f[n] = State(u, mask, top, it)
                          /\ Turned(u, top, it, t, mask, max, k, v, n)
    BY <2>1
  <2>3. f[n + 1] = Turn(State(u, mask, top, it), Slot(mask, k, n)) BY <1>3, <2>1, <2>2
  <2>4. \E w, high, there :
           /\ Turn(State(u, mask, top, it), Slot(mask, k, n)) = State(w, mask, high, there)
           /\ Turned(w, high, there, t, mask, max, k, v, n + 1)
    BY <1>4, <2>1, <2>2, TurnStep
  <2> QED BY <2>3, <2>4
<1>7. Done(mask + 1)
  <2>1. S \in SUBSET Nat OBVIOUS
  <2>2. mask + 1 \in Nat /\ mask + 1 <= mask + 1 OBVIOUS
  <2> HIDE DEF Done
  <2>3. S = Nat
    <3> HIDE DEF S
    <3> QED BY <1>5, <1>6, <2>1, NatInd
  <2> QED BY <2>2, <2>3
<1>8. PICK u, top, it : /\ f[mask + 1] = State(u, mask, top, it)
                        /\ Turned(u, top, it, t, mask, max, k, v, mask + 1)
  BY <1>7
<1>9. Shape(u, mask, top) /\ top \in Nat /\ max <= top BY <1>8 DEF Turned
<1>10. DOMAIN u = Slots(mask) /\ DOMAIN t = Slots(mask) BY <1>4, <1>9 DEF Shape
<1>11. ~it.live
  <2> SUFFICES ASSUME it.live PROVE FALSE
    OBVIOUS
  <2>1. Live(u) = Live(t) /\ \A m \in 0..mask + 1 - 1 : u[Slot(mask, k, m)].live
    BY <1>8 DEF Turned, Carried
  <2>2. ASSUME NEW i \in Slots(mask) PROVE u[i].live
    <3>1. ProbeLength(mask, k, i) \in 0..mask /\ Slot(mask, k, ProbeLength(mask, k, i)) = i
      BY <1>4, ProbeIs DEF HashOK
    <3>2. ProbeLength(mask, k, i) \in 0..mask + 1 - 1 BY <3>1
    <3> QED BY <2>1, <3>1, <3>2
  <2> QED BY <1>4, <1>10, <2>1, <2>2 DEF Live
<1>12. Cardinality(Live(u)) = Cardinality(Live(t)) + 1
  <2>1. PICK j \in Slots(mask) \ Live(t) : Live(u) = Live(t) \cup {j}
    BY <1>8, <1>11 DEF Turned
  <2>2. IsFiniteSet(Live(t)) BY <1>4, LiveFinite
  <2> QED BY <2>1, <2>2, FS_AddElement
<1>13. \A x, y : Holds(u, x, y) <=> Holds(t, x, y) \/ (x = k /\ y = v)
  BY <1>8, <1>11 DEF Turned
<1>14. Inserted(u, top, t, mask, max, k, v) BY <1>9, <1>12, <1>13 DEF Inserted
<1>15. InsertItem(item, b) = Base(u, mask, top) BY <1>2, <1>8 DEF State
<1> QED BY <1>14, <1>15 DEF b, k, v

-----------------------------------------------------------------------------
(* Deletion.                                                               *)

LEMMA MinIs ==
    ASSUME NEW T \in SUBSET Nat, T # {}
    PROVE  Min(T) \in T /\ \A n \in T : Min(T) <= n
<1>1. \E n \in T : \A m \in T : n <= m BY NatMin
<1> QED BY <1>1 DEF Min

LEMMA StepsBack ==
    ASSUME NEW mask \in Nat, NEW i \in Slots(mask), NEW j \in Slots(mask)
    PROVE  /\ Steps(mask, i, Before(mask, j)) =
                IF Steps(mask, i, j) = 0 THEN mask ELSE Steps(mask, i, j) - 1
           /\ Steps(mask, i, i) = 0
           /\ \A l \in Slots(mask) : Steps(mask, i, l) = Steps(mask, i, j) => l = j
BY DEF Slots, Before, Steps

\* The item in slot i of table t can go: the s - 1 items after it are not in their best slots,
\* and what follows them is, or is nothing.
Gap(t, mask, i, s) ==
    /\ i \in Slots(mask) /\ t[i].live /\ s \in 1..mask
    /\ \A j \in Slots(mask) :
          /\ Steps(mask, i, j) \in 1..s - 1 => t[j].live /\ t[j].probe_len >= 1
          /\ Steps(mask, i, j) = s => ~(t[j].probe_len >= 1)

\* Table d is t without the item in slot i, the items after it moved back.
Shifted(d, t, mask, i, s) ==
    /\ d \in [Slots(mask) -> Items]
    /\ \A j \in Slots(mask) :
          LET n == Steps(mask, i, j)
              next == t[After(mask, j)]
          IN  /\ n = s - 1 => d[j] = Empty
              /\ n < s - 1 => /\ d[j].live = next.live /\ d[j].key = next.key
                              /\ d[j].value = next.value /\ d[j].probe_len = next.probe_len - 1
              /\ n > s - 1 => d[j] = t[j]

\* What is then in table d.
HasDeleted(d, t, mask, max, i) ==
    /\ Shape(d, mask, max)
    /\ \E j \in Live(t) : Live(d) = Live(t) \ {j}
    /\ \A x, y : Holds(d, x, y) <=> Holds(t, x, y) /\ x # t[i].key

LEMMA ShiftShape ==
    ASSUME HashOK, NEW mask \in Nat, NEW max \in Nat, NEW t, Shape(t, mask, max), NEW i, NEW s,
           Gap(t, mask, i, s), NEW d, Shifted(d, t, mask, i, s)
    PROVE  HasDeleted(d, t, mask, max, i)
<1> DEFINE st(j) == Steps(mask, i, j)
           A(j) == After(mask, j)
           B(j) == Before(mask, j)
<1>1. /\ i \in Slots(mask) /\ t[i].live /\ s \in 1..mask
      /\ \A j \in Slots(mask) :
            /\ st(j) \in 1..s - 1 => t[j].live /\ t[j].probe_len >= 1
            /\ st(j) = s => ~(t[j].probe_len >= 1)
  BY DEF Gap
<1>2. \A j \in Slots(mask) :
         /\ st(j) = s - 1 => d[j] = Empty
         /\ st(j) < s - 1 => /\ d[j].live = t[A(j)].live /\ d[j].key = t[A(j)].key
                             /\ d[j].value = t[A(j)].value
                             /\ d[j].probe_len = t[A(j)].probe_len - 1
         /\ st(j) > s - 1 => d[j] = t[j]
  BY DEF Shifted
<1>3. \A j \in Slots(mask) :
         /\ A(j) \in Slots(mask) /\ B(j) \in Slots(mask) /\ B(A(j)) = j /\ A(B(j)) = j
         /\ st(j) \in 0..mask
         /\ st(A(j)) = IF st(j) = mask THEN 0 ELSE st(j) + 1
         /\ st(B(j)) = IF st(j) = 0 THEN mask ELSE st(j) - 1
  BY <1>1, Around, StepsAre, StepsBack
<1>4. st(i) = 0 /\ \A j, l \in Slots(mask) : st(j) = st(l) => j = l BY <1>1, StepsBack
<1>5. d \in [Slots(mask) -> Items] /\ DOMAIN d = Slots(mask) /\ DOMAIN t = Slots(mask)
  BY DEF Shape, Shifted
<1>6. \A j \in Slots(mask) : IF t[j].live THEN ItemOK(t, mask, max, j) ELSE t[j] = Empty
  BY DEF Shape
<1>7. \A j \in Slots(mask) : t[j].live \in BOOLEAN /\ t[j].probe_len \in Nat
  BY DEF Shape, Items
<1>8. ~Empty.live BY DEF Empty
<1> HIDE DEF st, A, B
\* Where an item was before.
<1> DEFINE from(j) == IF st(j) < s - 1 THEN A(j) ELSE j
<1>9. ASSUME NEW j \in Slots(mask), d[j].live
      PROVE  /\ from(j) \in Slots(mask) /\ from(j) # i /\ t[from(j)].live
             /\ d[j].key = t[from(j)].key /\ d[j].value = t[from(j)].value
             /\ st(j) < s - 1 \/ st(j) > s - 1
  <2>1. CASE st(j) < s - 1
    <3>1. st(A(j)) = st(j) + 1 /\ st(A(j)) # 0 BY <1>1, <1>3, <2>1
    <3>2. A(j) \in Slots(mask) /\ A(j) # i BY <1>3, <1>4, <3>1
    <3> QED BY <1>2, <1>9, <2>1, <3>2
  <2>2. CASE st(j) > s - 1
    <3>1. st(j) # 0 BY <1>1, <2>2
    <3>2. j # i BY <1>4, <3>1
    <3>3. d[j] = t[j] BY <1>2, <2>2
    <3>4. ~(st(j) < s - 1) BY <1>1, <1>3, <2>2
    <3> QED BY <1>9, <2>2, <3>2, <3>3, <3>4
  <2>3. CASE st(j) = s - 1 BY <1>2, <1>8, <1>9, <2>3
  <2> QED BY <1>1, <1>3, <2>1, <2>2, <2>3
<1>10. ASSUME NEW j \in Slots(mask), d[j].live, NEW l \in Slots(mask), d[l].live, from(j) = from(l)
       PROVE  j = l
  <2>1. (st(j) < s - 1 \/ st(j) > s - 1) /\ (st(l) < s - 1 \/ st(l) > s - 1) BY <1>9, <1>10
  <2>2. CASE st(j) < s - 1 /\ st(l) < s - 1 BY <1>3, <1>10, <2>2
  <2>3. CASE st(j) < s - 1 /\ ~(st(l) < s - 1)
    <3>1. A(j) = l BY <1>10, <2>3
    <3>2. st(l) = st(j) + 1 BY <1>1, <1>3, <2>3, <3>1
    <3> QED BY <1>1, <1>3, <2>1, <2>3, <3>2
  <2>4. CASE ~(st(j) < s - 1) /\ st(l) < s - 1
    <3>1. A(l) = j BY <1>10, <2>4
    <3>2. st(j) = st(l) + 1 BY <1>1, <1>3, <2>4, <3>1
    <3> QED BY <1>1, <1>3, <2>1, <2>4, <3>2
  <2>5. CASE ~(st(j) < s - 1) /\ ~(st(l) < s - 1) BY <1>10, <2>5
  <2> QED BY <2>2, <2>3, <2>4, <2>5
<1>11. ASSUME NEW l \in Slots(mask), t[l].live, l # i
       PROVE  \E j \in Slots(mask) : d[j].live /\ from(j) = l
  <2>1. st(l) # 0 BY <1>1, <1>4, <1>11
  <2>2. CASE st(l) <= s - 1
    <3>1. B(l) \in Slots(mask) /\ A(B(l)) = l /\ st(B(l)) = st(l) - 1 BY <1>3, <2>1
    <3>2. st(B(l)) < s - 1 BY <1>1, <1>3, <2>1, <2>2, <3>1
    <3>3. from(B(l)) = l BY <3>1, <3>2
    <3>4. d[B(l)].live = t[l].live BY <1>2, <3>1, <3>2
    <3> QED BY <1>11, <3>1, <3>3, <3>4
  <2>3. CASE st(l) > s - 1
    <3>1. d[l] = t[l] BY <1>2, <2>3
    <3>2. ~(st(l) < s - 1) BY <1>1, <1>3, <2>3
    <3>3. from(l) = l BY <3>2
    <3> QED BY <1>11, <3>1, <3>3
  <2> QED BY <1>1, <1>3, <2>2, <2>3
<1> HIDE DEF from
\* Every item is next to one that is at most one step nearer.
<1>12. ASSUME NEW j \in Slots(mask), d[j].live PROVE ItemOK(d, mask, max, j)
  <2>1. CASE st(j) < s - 1
    <3> DEFINE a == A(j)
    <3>1. a \in Slots(mask) /\ B(a) = j /\ st(a) = st(j) + 1 BY <1>1, <1>3, <2>1
    <3>2. t[a].live /\ t[a].probe_len >= 1
      <4>1. st(a) \in 1..s - 1 BY <1>1, <1>3, <2>1, <3>1
      <4> QED BY <1>1, <3>1, <4>1
    <3>3. ItemOK(t, mask, max, a) BY <1>6, <3>1, <3>2
    <3>4. /\ d[j].key = t[a].key /\ d[j].value = t[a].value
          /\ d[j].probe_len = t[a].probe_len - 1
      BY <1>2, <2>1
    <3> HIDE DEF a
    <3>5. /\ t[a].key \in Keys /\ t[a].value \in Values
          /\ t[a].probe_len = ProbeLength(mask, t[a].key, a) /\ t[a].probe_len <= max
          /\ t[j].live /\ t[a].probe_len <= t[j].probe_len + 1
      <4>1. t[a].probe_len > 0 BY <1>7, <3>1, <3>2
      <4> QED BY <3>1, <3>3, <4>1 DEF ItemOK, B
    <3>6. ProbeLength(mask, t[a].key, j) = t[a].probe_len - 1
      <4> DEFINE k == t[a].key
                 p == ProbeLength(mask, k, j)
      <4>1. k \in Keys BY <3>5
      <4> HIDE DEF k
      <4>2. p \in 0..mask /\ ProbeLength(mask, k, After(mask, j)) = IF p = mask THEN 0 ELSE p + 1
        BY <4>1, ProbeIs DEF HashOK
      <4>3. t[a].probe_len = ProbeLength(mask, k, After(mask, j)) BY <3>5 DEF k, a, A
      <4> HIDE DEF p
      <4>4. p = t[a].probe_len - 1 BY <3>2, <4>2, <4>3
      <4> QED BY <4>4 DEF p, k
    <3>7. d[j].probe_len \in Nat /\ d[j].probe_len <= max /\ d[j].probe_len <= t[j].probe_len
      BY <1>7, <3>1, <3>2, <3>4, <3>5
    <3>8. ASSUME d[j].probe_len > 0
          PROVE  d[B(j)].live /\ d[j].probe_len <= d[B(j)].probe_len + 1
      <4>1. t[j].probe_len > 0 BY <1>7, <3>7, <3>8
      <4>2. t[B(j)].live /\ t[j].probe_len <= t[B(j)].probe_len + 1
        BY <1>6, <3>5, <4>1 DEF ItemOK, B
      <4>3. B(j) \in Slots(mask) BY <1>3
      <4>4. CASE st(j) = 0
        <5>1. st(B(j)) > s - 1 BY <1>1, <1>3, <4>4
        <5>2. d[B(j)] = t[B(j)] BY <1>2, <4>3, <5>1
        <5> QED BY <1>7, <3>1, <3>7, <4>2, <4>3, <5>2
      <4>5. CASE st(j) # 0
        <5>1. st(B(j)) < s - 1 BY <1>1, <1>3, <2>1, <4>5
        <5>2. d[B(j)].live = t[j].live /\ d[B(j)].probe_len = t[j].probe_len - 1
          BY <1>2, <1>3, <4>3, <5>1
        <5> QED BY <1>7, <3>5, <3>7, <5>2
      <4> QED BY <4>4, <4>5
    <3> QED BY <3>4, <3>5, <3>6, <3>7, <3>8 DEF ItemOK, B
  <2>2. CASE st(j) > s - 1
    <3>1. d[j] = t[j] BY <1>2, <2>2
    <3>2. ItemOK(t, mask, max, j) BY <1>6, <1>12, <3>1
    <3>3. ASSUME t[j].probe_len > 0 PROVE d[B(j)] = t[B(j)]
      <4>1. st(j) # s
        <5>1. t[j].probe_len >= 1 BY <1>7, <3>3
        <5> QED BY <1>1, <5>1
      <4>2. st(B(j)) > s - 1 BY <1>1, <1>3, <2>2, <4>1
      <4> QED BY <1>2, <1>3, <4>2
    <3> QED BY <3>1, <3>2, <3>3 DEF ItemOK, B
  <2>3. CASE st(j) = s - 1 BY <1>2, <1>8, <1>12, <2>3
  <2> QED BY <1>1, <1>3, <2>1, <2>2, <2>3
<1>13. ASSUME NEW j \in Slots(mask), ~d[j].live PROVE d[j] = Empty
  <2>1. CASE st(j) < s - 1
    <3>1. A(j) \in Slots(mask) /\ st(A(j)) \in 1..s - 1
      <4>1. A(j) \in Slots(mask) /\ st(A(j)) = st(j) + 1 BY <1>1, <1>3, <2>1
      <4>2. st(j) + 1 \in 1..s - 1 BY <1>1, <1>3, <2>1
      <4> QED BY <4>1, <4>2
    <3>2. t[A(j)].live BY <1>1, <3>1
    <3> QED BY <1>2, <1>13, <2>1, <3>2
  <2>2. CASE st(j) > s - 1 BY <1>2, <1>6, <1>13, <2>2
  <2>3. CASE st(j) = s - 1 BY <1>2, <2>3
  <2> QED BY <1>1, <1>3, <2>1, <2>2, <2>3
<1>14. ASSUME NEW j \in Slots(mask), NEW l \in Slots(mask), d[j].live, d[l].live,
             d[j].key = d[l].key
       PROVE  j = l
  <2>1. t[from(j)].key = t[from(l)].key BY <1>9, <1>14
  <2>2. from(j) = from(l) BY <1>9, <1>14, <2>1 DEF Shape
  <2> QED BY <1>10, <1>14, <2>2
<1>15. Shape(d, mask, max) BY <1>5, <1>12, <1>13, <1>14 DEF Shape
<1>16. \E j \in Live(t) : Live(d) = Live(t) \ {j}
  <2>1. PICK j \in Slots(mask) : st(j) = s - 1
    <3>1. s - 1 \in 0..mask BY <1>1
    <3>2. Ahead(mask, i, s - 1) \in Slots(mask) /\ Steps(mask, i, Ahead(mask, i, s - 1)) = s - 1
      <4> DEFINE n == s - 1
      <4> HIDE DEF n
      <4>1. n \in 0..mask BY <3>1 DEF n
      <4>2. Ahead(mask, i, n) \in Slots(mask) /\ Steps(mask, i, Ahead(mask, i, n)) = n
        BY <1>1, <4>1, StepsAhead
      <4> QED BY <4>2 DEF n
    <3> QED BY <3>2 DEF st
  <2>2. t[j].live
    <3>1. CASE st(j) = 0 BY <1>1, <1>4, <3>1
    <3>2. CASE st(j) # 0
      <4>1. st(j) \in 1..s - 1 BY <1>1, <1>3, <2>1, <3>2
      <4> QED BY <1>1, <4>1
    <3> QED BY <3>1, <3>2
  <2>3. ASSUME NEW l \in Slots(mask) PROVE d[l].live <=> t[l].live /\ l # j
    <3>1. CASE st(l) = s - 1
      <4>1. l = j /\ ~d[l].live BY <1>2, <1>4, <1>8, <2>1, <3>1
      <4> QED BY <4>1
    <3>2. CASE st(l) > s - 1
      <4>1. d[l] = t[l] BY <1>2, <3>2
      <4>2. l # j BY <1>1, <1>3, <2>1, <3>2
      <4> QED BY <4>1, <4>2
    <3>3. CASE st(l) < s - 1
      <4>1. A(l) \in Slots(mask) /\ st(A(l)) \in 1..s - 1
        <5>1. A(l) \in Slots(mask) /\ st(A(l)) = st(l) + 1 BY <1>1, <1>3, <3>3
        <5>2. st(l) + 1 \in 1..s - 1 BY <1>1, <1>3, <3>3
        <5> QED BY <5>1, <5>2
      <4>2. t[A(l)].live /\ d[l].live = t[A(l)].live BY <1>1, <1>2, <3>3, <4>1
      <4>3. t[l].live
        <5>1. CASE st(l) = 0 BY <1>1, <1>4, <5>1
        <5>2. CASE st(l) # 0
          <6>1. st(l) \in 1..s - 1 BY <1>1, <1>3, <3>3, <5>2
          <6> QED BY <1>1, <6>1
        <5> QED BY <5>1, <5>2
      <4>4. l # j BY <1>1, <1>3, <2>1, <3>3
      <4> QED BY <4>2, <4>3, <4>4
    <3> QED BY <1>1, <1>3, <3>1, <3>2, <3>3
  <2>4. j \in Live(t) BY <1>5, <2>2 DEF Live
  <2>5. Live(d) = Live(t) \ {j} BY <1>5, <2>3 DEF Live
  <2> QED BY <2>4, <2>5
<1>17. ASSUME NEW x, NEW y PROVE Holds(d, x, y) <=> Holds(t, x, y) /\ x # t[i].key
  <2>1. ASSUME Holds(d, x, y) PROVE Holds(t, x, y) /\ x # t[i].key
    <3>1. PICK j \in Slots(mask) : d[j].live /\ d[j].key = x /\ d[j].value = y
      BY <1>5, <2>1 DEF Holds
    <3>2. /\ from(j) \in Slots(mask) /\ from(j) # i /\ t[from(j)].live
          /\ x = t[from(j)].key /\ y = t[from(j)].value
      BY <1>9, <3>1
    <3>3. x # t[i].key BY <1>1, <3>2 DEF Shape
    <3> QED BY <1>5, <3>2, <3>3 DEF Holds
  <2>2. ASSUME Holds(t, x, y), x # t[i].key PROVE Holds(d, x, y)
    <3>1. PICK l \in Slots(mask) : t[l].live /\ t[l].key = x /\ t[l].value = y
      BY <1>5, <2>2 DEF Holds
    <3>2. l # i BY <2>2, <3>1
    <3>3. PICK j \in Slots(mask) : d[j].live /\ from(j) = l BY <1>11, <3>1, <3>2
    <3>4. d[j].key = x /\ d[j].value = y BY <1>9, <3>1, <3>3
    <3> QED BY <1>5, <3>3, <3>4 DEF Holds
  <2> QED BY <2>1, <2>2
<1> QED BY <1>15, <1>16, <1>17 DEF HasDeleted

\* The lock that every operation holds has a table of this kind under it.
Table ==
    /\ HashOK /\ hash_mask \in Nat /\ max_probe_len \in Nat
    /\ Shape(table, hash_mask, max_probe_len)
    /\ \E i \in Slots(hash_mask) : ~table[i].live

LEMMA NextHomeIs ==
    ASSUME Table, NEW i \in Slots(hash_mask), table[i].live
    PROVE  Gap(table, hash_mask, i, NextHome(i))
<1> DEFINE mask == hash_mask
           size == mask + 1
           T == {n \in 1..size : table[(i + n) % size].probe_len < 1}
<1>1. mask \in Nat /\ Shape(table, mask, max_probe_len) BY DEF Table
<1>2. /\ \A j \in Slots(mask) : table[j].probe_len \in Nat
      /\ \A j \in Slots(mask) : ~table[j].live => table[j].probe_len = 0
  BY <1>1 DEF Shape, Items, Empty
<1>3. NextHome(i) = Min(T) BY DEF NextHome
<1> HIDE DEF mask
<1>4. \A n \in 1..size : n \in T <=> table[Ahead(mask, i, n)].probe_len < 1
  <2> SUFFICES ASSUME NEW n \in 1..size
               PROVE  n \in T <=> table[Ahead(mask, i, n)].probe_len < 1
    OBVIOUS
  <2>1. (i + n) % size = Ahead(mask, i, n)
    <3>1. n \in 0..mask + 1 BY <1>1
    <3>2. i \in Slots(mask) BY DEF mask
    <3> QED BY <1>1, <3>1, <3>2, AheadIs
  <2> QED BY <2>1
<1>5. i \in Slots(mask) BY DEF mask
<1>6. PICK j \in Slots(mask) : ~table[j].live BY DEF Table, mask
<1> DEFINE far == Steps(mask, i, j)
<1>7. far \in T /\ far <= mask
  <2>1. far \in 0..mask /\ Ahead(mask, i, far) = j /\ far # 0
    <3>1. far \in 0..mask /\ Ahead(mask, i, far) = j BY <1>1, <1>5, <1>6, StepsAre
    <3>2. i # j BY <1>6
    <3>3. far # 0 BY <1>1, <1>5, <1>6, <3>2, StepsBack
    <3> QED BY <3>1, <3>3
  <2> HIDE DEF far, T
  <2>2. far \in 1..size BY <1>1, <2>1
  <2>3. table[j].probe_len < 1 BY <1>2, <1>6
  <2> QED BY <1>1, <1>4, <2>1, <2>2, <2>3
<1> HIDE DEF far
<1>8. T \in SUBSET Nat BY <1>1
<1>9. T \subseteq 1..size OBVIOUS
<1> HIDE DEF T
<1> DEFINE s == Min(T)
<1>10. s \in T /\ \A n \in T : s <= n BY <1>7, <1>8, MinIs
<1> HIDE DEF s
<1>11. s \in 1..mask
  <2>1. s \in 1..size /\ s <= far /\ far \in Nat BY <1>7, <1>8, <1>9, <1>10
  <2> QED BY <1>1, <1>7, <2>1
<1>12. ASSUME NEW l \in Slots(mask)
       PROVE  /\ Steps(mask, i, l) \in 1..s - 1 => table[l].live /\ table[l].probe_len >= 1
              /\ Steps(mask, i, l) = s => ~(table[l].probe_len >= 1)
  <2> DEFINE n == Steps(mask, i, l)
  <2>1. n \in 0..mask /\ Ahead(mask, i, n) = l BY <1>1, <1>5, StepsAre
  <2> HIDE DEF n
  <2>2. ASSUME n \in 1..s - 1 PROVE table[l].live /\ table[l].probe_len >= 1
    <3>1. n \in 1..size /\ ~(s <= n) BY <1>1, <1>11, <2>1, <2>2
    <3>2. ~(table[l].probe_len < 1) BY <1>4, <1>10, <2>1, <3>1
    <3> QED BY <1>2, <3>2
  <2>3. ASSUME n = s PROVE ~(table[l].probe_len >= 1)
    <3>1. n \in 1..size BY <1>1, <1>11, <2>3
    <3>2. table[l].probe_len < 1 BY <1>4, <1>10, <2>1, <2>3, <3>1
    <3> QED BY <1>2, <3>2
  <2> QED BY <2>2, <2>3 DEF n
<1>13. Gap(table, mask, i, s) BY <1>5, <1>11, <1>12 DEF Gap
<1> QED BY <1>3, <1>13 DEF s, mask

LEMMA DeletedIs ==
    ASSUME Table, NEW i \in Slots(hash_mask), table[i].live
    PROVE  HasDeleted(Deleted(i), table, hash_mask, max_probe_len, i)
<1> DEFINE mask == hash_mask
           size == mask + 1
           s == NextHome(i)
           moved == {(i + n) % size : n \in 0..s - 2}
           last == (i + s - 1) % size
           next(j) == table[(j + 1) % size]
           d == Deleted(i)
<1>1. /\ mask \in Nat /\ Shape(table, mask, max_probe_len) /\ HashOK /\ max_probe_len \in Nat
      /\ i \in Slots(mask)
  BY DEF Table
<1>2. Gap(table, mask, i, s) BY NextHomeIs
<1>3. d = [j \in DOMAIN table |->
              IF j = last THEN Empty
              ELSE IF j \in moved THEN [next(j) EXCEPT !.probe_len = @ - 1]
              ELSE table[j]]
  BY DEF Deleted
<1>4. DOMAIN table = Slots(mask) /\ table \in [Slots(mask) -> Items] BY <1>1 DEF Shape
<1>5. s \in 1..mask
      /\ \A j \in Slots(mask) : Steps(mask, i, j) \in 1..s - 1 => table[j].probe_len >= 1
  BY <1>2 DEF Gap
<1> HIDE DEF mask, s, d
<1>6. last = Ahead(mask, i, s - 1)
  <2> DEFINE n == s - 1
  <2>1. n \in 0..mask + 1 /\ i + s - 1 = i + n BY <1>1, <1>5 DEF Slots
  <2> HIDE DEF n
  <2>2. (i + n) % size = Ahead(mask, i, n) BY <1>1, <2>1, AheadIs
  <2>3. last = (i + n) % size BY <2>1
  <2> QED BY <2>2, <2>3 DEF n
<1>7. moved = {Ahead(mask, i, n) : n \in 0..s - 2}
  <2>1. \A n \in 0..s - 2 : (i + n) % size = Ahead(mask, i, n)
    <3> SUFFICES ASSUME NEW n \in 0..s - 2 PROVE (i + n) % size = Ahead(mask, i, n)
      OBVIOUS
    <3>1. n \in 0..mask + 1 BY <1>1, <1>5
    <3> QED BY <1>1, <3>1, AheadIs
  <2> HIDE DEF size
  <2> QED BY <2>1
<1>8. \A j \in Slots(mask) : next(j) = table[After(mask, j)]
  <2> SUFFICES ASSUME NEW j \in Slots(mask) PROVE (j + 1) % size = After(mask, j)
    OBVIOUS
  <2>1. 1 \in 0..mask + 1 BY <1>1
  <2>2. (j + 1) % size = Ahead(mask, j, 1) BY <1>1, <2>1, AheadIs
  <2> QED BY <1>1, <2>2, Around
<1> HIDE DEF last, moved, next
<1>9. ASSUME NEW j \in Slots(mask)
      PROVE  /\ d[j] \in Items
             /\ LET n == Steps(mask, i, j)
                    after == table[After(mask, j)]
                IN  /\ n = s - 1 => d[j] = Empty
                    /\ n < s - 1 => /\ d[j].live = after.live /\ d[j].key = after.key
                                    /\ d[j].value = after.value
                                    /\ d[j].probe_len = after.probe_len - 1
                    /\ n > s - 1 => d[j] = table[j]
  <2> DEFINE n == Steps(mask, i, j)
             a == After(mask, j)
             x == table[a]
  <2>1. n \in 0..mask /\ Ahead(mask, i, n) = j BY <1>1, StepsAre
  <2>2. a \in Slots(mask) /\ Steps(mask, i, a) = IF n = mask THEN 0 ELSE n + 1
    BY <1>1, Around, StepsAre
  <2>3. \A m \in 0..mask : Ahead(mask, i, m) = j => m = n
    <3> SUFFICES ASSUME NEW m \in 0..mask, Ahead(mask, i, m) = j PROVE m = n
      OBVIOUS
    <3> QED BY <1>1, StepsAhead
  <2> HIDE DEF n, a
  <2>4. j = last <=> n = s - 1
    <3>1. s - 1 \in 0..mask BY <1>1, <1>5
    <3> QED BY <1>6, <2>1, <2>3, <3>1
  <2>5. j \in moved <=> n < s - 1
    <3>1. ASSUME j \in moved PROVE n < s - 1
      <4>1. PICK m \in 0..s - 2 : j = Ahead(mask, i, m) BY <1>7, <3>1
      <4>2. m \in 0..mask /\ m < s - 1 BY <1>1, <1>5
      <4> QED BY <2>3, <4>1, <4>2
    <3>2. ASSUME n < s - 1 PROVE j \in moved
      <4>1. n \in 0..s - 2 BY <1>1, <1>5, <2>1, <3>2
      <4> QED BY <1>7, <2>1, <4>1
    <3> QED BY <3>1, <3>2
  <2>6. CASE n = s - 1
    <3>1. d[j] = Empty BY <1>3, <1>4, <2>4, <2>6
    <3>2. Empty \in Items BY DEF Empty, Items
    <3>3. ~(n < s - 1) /\ ~(n > s - 1) BY <1>1, <1>5, <2>1, <2>6
    <3> QED BY <2>6, <3>1, <3>2, <3>3 DEF n, a
  <2>7. CASE n < s - 1
    <3>1. j # last /\ j \in moved BY <1>1, <1>5, <2>1, <2>4, <2>5, <2>7
    <3>2. d[j] = [x EXCEPT !.probe_len = @ - 1] BY <1>3, <1>4, <1>8, <3>1 DEF a
    <3>3. x \in Items BY <1>4, <2>2
    <3>4. x.probe_len >= 1
      <4>1. Steps(mask, i, a) \in 1..s - 1 BY <1>1, <1>5, <2>1, <2>2, <2>7
      <4> QED BY <1>5, <2>2, <4>1
    <3> HIDE DEF x
    <3>5. x.probe_len - 1 \in Nat BY <3>3, <3>4 DEF Items
    <3>6. /\ d[j] \in Items /\ d[j].live = x.live /\ d[j].key = x.key /\ d[j].value = x.value
          /\ d[j].probe_len = x.probe_len - 1
      BY <3>2, <3>3, <3>5 DEF Items
    <3>7. ~(n = s - 1) /\ ~(n > s - 1) BY <1>1, <1>5, <2>1, <2>7
    <3> QED BY <3>6, <3>7 DEF n, a, x
  <2>8. CASE n > s - 1
    <3>1. ~(n = s - 1) /\ ~(n < s - 1) BY <1>1, <1>5, <2>1, <2>8
    <3>2. d[j] = table[j] BY <1>3, <1>4, <2>4, <2>5, <3>1
    <3>3. d[j] \in Items BY <1>4, <3>2
    <3> QED BY <3>1, <3>2, <3>3 DEF n, a
  <2> QED BY <1>1, <1>5, <2>1, <2>6, <2>7, <2>8
<1>10. d \in [Slots(mask) -> Items]
  <2>1. DOMAIN d = Slots(mask) /\ d = [j \in Slots(mask) |-> d[j]] BY <1>3, <1>4
  <2> QED BY <1>9, <2>1
<1>11. Shifted(d, table, mask, i, s) BY <1>9, <1>10 DEF Shifted
<1>12. HasDeleted(d, table, mask, max_probe_len, i) BY <1>1, <1>2, <1>11, ShiftShape
<1> QED BY <1>12 DEF d, mask

-----------------------------------------------------------------------------
(* Growth.                                                                 *)

\* f is what n turns of the loop of resize do.
Resizing(f, t, mask, n) ==
    f = [m \in 0..n |-> IF m = 0 THEN Base(EmptyTable(2 * mask + 1), 2 * mask + 1, 0)
                        ELSE IF t[m - 1].live THEN InsertItem(t[m - 1], f[m - 1]) ELSE f[m - 1]]

LEMMA ResizingExists ==
    ASSUME NEW t, NEW mask, NEW k \in Nat
    PROVE  \E f : Resizing(f, t, mask, k)
<1> DEFINE s == Base(EmptyTable(2 * mask + 1), 2 * mask + 1, 0)
           Do(state, m) == IF t[m - 1].live THEN InsertItem(t[m - 1], state) ELSE state
           S == {n \in Nat : \E f : Resizing(f, t, mask, n)}
<1>1. 0 \in S
  <2> DEFINE f == [m \in 0..0 |-> s]
  <2>1. Resizing(f, t, mask, 0) BY DEF Resizing
  <2> QED BY <2>1
<1>2. ASSUME NEW n \in S PROVE n + 1 \in S
  <2>1. PICK f : Resizing(f, t, mask, n) OBVIOUS
  <2> DEFINE g == [m \in 0..n + 1 |-> IF m = n + 1 THEN Do(f[n], n + 1) ELSE f[m]]
             h == [m \in 0..n + 1 |-> IF m = 0 THEN s ELSE Do(g[m - 1], m)]
  <2>2. \A m \in 0..n : f[m] = IF m = 0 THEN s ELSE Do(f[m - 1], m)
    BY <2>1 DEF Resizing
  <2> HIDE DEF Do, s
  <2>3. ASSUME NEW m \in 0..n + 1 PROVE g[m] = h[m]
    <3>1. CASE m = 0
      <4>1. g[0] = f[0] /\ h[0] = s OBVIOUS
      <4>2. f[0] = s BY <2>2
      <4> QED BY <3>1, <4>1, <4>2
    <3>2. CASE m = n + 1
      <4>1. g[n] = f[n] OBVIOUS
      <4>2. g[n + 1] = Do(f[n], n + 1) OBVIOUS
      <4>3. h[n + 1] = Do(g[n + 1 - 1], n + 1) OBVIOUS
      <4>4. n + 1 - 1 = n OBVIOUS
      <4> QED BY <3>2, <4>1, <4>2, <4>3, <4>4
    <3>3. CASE m \in 1..n
      <4>1. g[m] = f[m] /\ g[m - 1] = f[m - 1] BY <3>3
      <4>2. h[m] = Do(g[m - 1], m) BY <3>3
      <4>3. f[m] = Do(f[m - 1], m) BY <2>2, <3>3
      <4> QED BY <4>1, <4>2, <4>3
    <3> QED BY <3>1, <3>2, <3>3
  <2>4. g = h BY <2>3
  <2> HIDE DEF g
  <2>5. Resizing(g, t, mask, n + 1) BY <2>4 DEF Resizing, Do, s
  <2> QED BY <2>5
<1> HIDE DEF S
<1>3. S \in SUBSET Nat BY DEF S
<1>4. S = Nat BY <1>1, <1>2, <1>3, NatInd
<1> QED BY <1>4 DEF S

LEMMA ResizedIs ==
    ASSUME NEW t, NEW mask \in Nat
    PROVE  \E f : Resizing(f, t, mask, mask + 1) /\ Resized(t, mask) = f[mask + 1]
<1> DEFINE after == CHOOSE f : Resizing(f, t, mask, mask + 1)
<1>1. Resizing(after, t, mask, mask + 1) BY ResizingExists
<1>2. Resized(t, mask) = after[mask + 1] BY DEF Resized, Resizing, Base
<1> QED BY <1>1, <1>2

\* Table u holds the items of the first n slots of t.
Below(t, n) == {j \in Live(t) : j < n}

Grown(u, top, t, wide, n) ==
    /\ top \in Nat /\ Shape(u, wide, top)
    /\ Cardinality(Live(u)) = Cardinality(Below(t, n))
    /\ \A x, y : Holds(u, x, y) <=> \E j \in Below(t, n) : t[j].key = x /\ t[j].value = y

LEMMA GrowStep ==
    ASSUME HashOK, NEW mask \in Nat, NEW max, NEW t, Shape(t, mask, max), NEW n \in 0..mask,
           t[n].live, NEW wide \in Nat, mask < wide, NEW u, NEW top, Grown(u, top, t, wide, n)
    PROVE  \E w, high : /\ InsertItem(t[n], Base(u, wide, top)) = Base(w, wide, high)
                        /\ Grown(w, high, t, wide, n + 1)
<1> DEFINE item == t[n]
           k == item.key
           v == item.value
<1>1. /\ top \in Nat /\ Shape(u, wide, top)
      /\ Cardinality(Live(u)) = Cardinality(Below(t, n))
      /\ \A x, y : Holds(u, x, y) <=> \E j \in Below(t, n) : t[j].key = x /\ t[j].value = y
  BY DEF Grown
<1>2. n \in Slots(mask) /\ DOMAIN t = Slots(mask) /\ n \in Live(t) BY DEF Slots, Shape, Live
<1>3. item \in Items /\ k \in Keys /\ v \in Values BY <1>2 DEF Shape, ItemOK
<1>4. ~HasKey(u, k)
  <2> SUFFICES ASSUME HasKey(u, k) PROVE FALSE
    OBVIOUS
  <2>1. PICK j \in DOMAIN u : u[j].live /\ u[j].key = k BY DEF HasKey
  <2>2. Holds(u, k, u[j].value) BY <2>1 DEF Holds
  <2>3. PICK l \in Below(t, n) : t[l].key = k BY <1>1, <2>2
  <2>4. l \in Slots(mask) /\ t[l].live /\ l < n BY <1>2, <2>3 DEF Below, Live
  <2>5. l = n BY <1>2, <2>3, <2>4 DEF Shape
  <2> QED BY <2>4, <2>5
<1>5. Below(t, n + 1) = Below(t, n) \cup {n} /\ n \notin Below(t, n)
  <2>1. \A j \in Live(t) : j < n + 1 <=> j < n \/ j = n BY <1>2 DEF Slots, Live
  <2>2. \A j : j \in Below(t, n + 1) <=> j \in Below(t, n) \/ j = n
    BY <1>2, <2>1 DEF Below
  <2>3. n \notin Below(t, n) BY DEF Below
  <2> QED BY <2>2, <2>3
<1>6. IsFiniteSet(Below(t, n)) /\ Cardinality(Below(t, n)) <= mask
      /\ Cardinality(Below(t, n)) \in Nat
  <2>1. IsFiniteSet(Live(t)) /\ Cardinality(Live(t)) \in 0..mask + 1 BY LiveFinite
  <2>2. Below(t, n) \subseteq Live(t) /\ Below(t, n) # Live(t) BY <1>2 DEF Below
  <2>3. /\ IsFiniteSet(Below(t, n)) /\ Cardinality(Below(t, n)) <= Cardinality(Live(t))
        /\ Cardinality(Below(t, n)) = Cardinality(Live(t)) => Below(t, n) = Live(t)
    BY <2>1, <2>2, FS_Subset
  <2>4. Cardinality(Below(t, n)) \in Nat BY <2>3, FS_CardinalityType
  <2> QED BY <2>1, <2>2, <2>3, <2>4
<1>7. \E i \in Slots(wide) : ~u[i].live
  <2>1. Cardinality(Live(u)) <= wide BY <1>1, <1>6
  <2> QED BY <1>1, <2>1, LiveFinite
<1>8. Insertable(item, u, wide, top) BY <1>1, <1>3, <1>4, <1>7 DEF Insertable
<1> HIDE DEF item
<1>9. PICK w, high : /\ InsertItem(item, Base(u, wide, top)) = Base(w, wide, high)
                     /\ Inserted(w, high, u, wide, top, item.key, item.value)
  BY <1>8, InsertShape
<1>10. /\ high \in Nat /\ Shape(w, wide, high)
       /\ Cardinality(Live(w)) = Cardinality(Live(u)) + 1
       /\ \A x, y : Holds(w, x, y) <=> Holds(u, x, y) \/ (x = k /\ y = v)
  BY <1>9 DEF Inserted
<1>11. Cardinality(Live(w)) = Cardinality(Below(t, n + 1))
  <2>1. Cardinality(Below(t, n + 1)) = Cardinality(Below(t, n)) + 1
    BY <1>5, <1>6, FS_AddElement
  <2> QED BY <1>1, <1>10, <2>1
<1>12. ASSUME NEW x, NEW y
       PROVE  Holds(w, x, y) <=> \E j \in Below(t, n + 1) : t[j].key = x /\ t[j].value = y
  BY <1>1, <1>5, <1>10 DEF item
<1>13. Grown(w, high, t, wide, n + 1) BY <1>10, <1>11, <1>12 DEF Grown
<1> QED BY <1>9, <1>13 DEF item

\* A table of twice the size, that holds what t does.
LEMMA ResizeShape ==
    ASSUME HashOK, NEW mask \in Nat, NEW max, NEW t, Shape(t, mask, max)
    PROVE  \E u, top : /\ Resized(t, mask) = Base(u, 2 * mask + 1, top)
                       /\ top \in Nat /\ Shape(u, 2 * mask + 1, top)
                       /\ Cardinality(Live(u)) = Cardinality(Live(t))
                       /\ \A x, y : Holds(u, x, y) <=> Holds(t, x, y)
<1> DEFINE wide == 2 * mask + 1
<1>1. wide \in Nat /\ mask < wide OBVIOUS
<1>2. PICK f : Resizing(f, t, mask, mask + 1) /\ Resized(t, mask) = f[mask + 1] BY ResizedIs
<1>3. f = [m \in 0..mask + 1 |->
              IF m = 0 THEN Base(EmptyTable(wide), wide, 0)
              ELSE IF t[m - 1].live THEN InsertItem(t[m - 1], f[m - 1]) ELSE f[m - 1]]
  BY <1>2 DEF Resizing
<1> HIDE DEF wide
<1>4. f[0] = Base(EmptyTable(wide), wide, 0) BY <1>3
<1>5. ASSUME NEW n \in 0..mask
      PROVE  f[n + 1] = IF t[n].live THEN InsertItem(t[n], f[n]) ELSE f[n]
  <2>1. n + 1 \in 0..mask + 1 /\ n + 1 # 0 /\ n + 1 - 1 = n OBVIOUS
  <2> QED BY <1>3, <2>1
<1>6. DOMAIN t = Slots(mask) /\ \A j \in Live(t) : j \in 0..mask BY DEF Shape, Live, Slots
<1> DEFINE Done(n) == \E u, top : f[n] = Base(u, wide, top) /\ Grown(u, top, t, wide, n)
           S == {n \in Nat : n <= mask + 1 => Done(n)}
<1>7. 0 \in S
  <2>1. Below(t, 0) = {} BY <1>6 DEF Below
  <2>2. 0 \in Nat /\ Cardinality({}) = 0 BY FS_EmptySet
  <2>3. Grown(EmptyTable(wide), 0, t, wide, 0) BY <1>1, <2>1, <2>2, EmptyShape DEF Grown
  <2> QED BY <1>4, <2>3
<1>8. ASSUME NEW n \in S PROVE n + 1 \in S
  <2> SUFFICES ASSUME n + 1 <= mask + 1 PROVE Done(n + 1)
    OBVIOUS
  <2>1. n \in 0..mask /\ n <= mask + 1 OBVIOUS
  <2>2. PICK u, top : f[n] = Base(u, wide, top) /\ Grown(u, top, t, wide, n) BY <2>1
  <2>3. CASE t[n].live
    <3>1. f[n + 1] = InsertItem(t[n], Base(u, wide, top)) BY <1>5, <2>1, <2>2, <2>3
    <3>2. \E w, high : /\ InsertItem(t[n], Base(u, wide, top)) = Base(w, wide, high)
                       /\ Grown(w, high, t, wide, n + 1)
      BY <1>1, <2>1, <2>2, <2>3, GrowStep
    <3> QED BY <3>1, <3>2
  <2>4. CASE ~t[n].live
    <3>1. f[n + 1] = Base(u, wide, top) BY <1>5, <2>1, <2>2, <2>4
    <3>2. Below(t, n + 1) = Below(t, n)
      <4>1. n \notin Live(t) BY <2>4 DEF Live
      <4> QED BY <1>6, <4>1 DEF Below
    <3>3. Grown(u, top, t, wide, n + 1) BY <2>2, <3>2 DEF Grown
    <3> QED BY <3>1, <3>3
  <2> QED BY <2>3, <2>4
<1>9. Done(mask + 1)
  <2>1. S \in SUBSET Nat OBVIOUS
  <2>2. mask + 1 \in Nat /\ mask + 1 <= mask + 1 OBVIOUS
  <2> HIDE DEF Done
  <2>3. S = Nat
    <3> HIDE DEF S
    <3> QED BY <1>7, <1>8, <2>1, NatInd
  <2> QED BY <2>2, <2>3
<1>10. PICK u, top : f[mask + 1] = Base(u, wide, top) /\ Grown(u, top, t, wide, mask + 1)
  BY <1>9
<1>11. Below(t, mask + 1) = Live(t) BY <1>6 DEF Below
<1>12. /\ top \in Nat /\ Shape(u, wide, top) /\ Cardinality(Live(u)) = Cardinality(Live(t))
       /\ \A x, y : Holds(u, x, y) <=> \E j \in Live(t) : t[j].key = x /\ t[j].value = y
  BY <1>10, <1>11 DEF Grown
<1>13. \A x, y : Holds(u, x, y) <=> Holds(t, x, y) BY <1>12 DEF Holds, Live
<1> QED BY <1>2, <1>10, <1>12, <1>13 DEF wide

-----------------------------------------------------------------------------
(* Looking up.                                                             *)

\* On the way to a key every item is as far from its best slot as the search is from its start.
LEMMA WayIs ==
    ASSUME Table, NEW k \in Keys, NEW i \in Slots(hash_mask), table[i].live, table[i].key = k
    PROVE  LET p == ProbeLength(hash_mask, k, i)
           IN  /\ p \in 0..hash_mask /\ p <= max_probe_len /\ Slot(hash_mask, k, p) = i
               /\ \A n \in 0..p : /\ table[Slot(hash_mask, k, n)].live
                                  /\ table[Slot(hash_mask, k, n)].probe_len >= n
<1> DEFINE mask == hash_mask
           p == ProbeLength(mask, k, i)
           at(n) == Slot(mask, k, n)
<1>1. /\ mask \in Nat /\ Shape(table, mask, max_probe_len) /\ HashOK /\ i \in Slots(mask)
  BY DEF Table
<1>2. \A j \in Slots(mask) : /\ table[j].live => ItemOK(table, mask, max_probe_len, j)
                             /\ table[j].probe_len \in Nat
  BY <1>1 DEF Shape, Items
<1> HIDE DEF mask
<1>3. p \in 0..mask /\ at(p) = i BY <1>1, ProbeIs DEF HashOK
<1>4. p = table[i].probe_len /\ p <= max_probe_len BY <1>1, <1>2 DEF ItemOK
<1>5. \A n \in 0..mask : at(n) \in Slots(mask) /\ at(n + 1) = After(mask, at(n))
  BY <1>1, ProbeSlot DEF HashOK
<1> HIDE DEF p, at
<1> DEFINE Far(n) == table[at(n)].live /\ table[at(n)].probe_len >= n
           S == {m \in Nat : m <= p => Far(p - m)}
<1>6. 0 \in S
  <2>1. p - 0 = p BY <1>3
  <2>2. p >= p BY <1>3
  <2> QED BY <1>3, <1>4, <2>1, <2>2
<1>7. ASSUME NEW m \in S PROVE m + 1 \in S
  <2> SUFFICES ASSUME m + 1 <= p PROVE Far(p - (m + 1))
    OBVIOUS
  <2> DEFINE n == p - (m + 1)
  <2>1. n \in 0..mask /\ n + 1 = p - m /\ m <= p
    <3>1. m \in Nat /\ p \in 0..mask /\ m + 1 <= p BY <1>3
    <3> HIDE DEF S
    <3> QED BY <1>1, <3>1
  <2> HIDE DEF n
  <2>2. Far(n + 1) BY <2>1
  <2>3. at(n) \in Slots(mask) /\ at(n + 1) \in Slots(mask) /\ Before(mask, at(n + 1)) = at(n)
    <3>1. at(n) \in Slots(mask) /\ at(n + 1) = After(mask, at(n)) BY <1>5, <2>1
    <3> QED BY <1>1, <3>1, Around
  <2>4. ItemOK(table, mask, max_probe_len, at(n + 1)) BY <1>2, <2>2, <2>3
  <2>5. table[at(n + 1)].probe_len > 0 BY <1>2, <2>1, <2>2, <2>3
  <2>6. table[at(n)].live /\ table[at(n + 1)].probe_len <= table[at(n)].probe_len + 1
    BY <2>3, <2>4, <2>5 DEF ItemOK
  <2>7. table[at(n)].probe_len >= n BY <1>2, <2>1, <2>2, <2>3, <2>6
  <2> QED BY <2>6, <2>7 DEF n
<1>8. S = Nat
  <2>1. S \in SUBSET Nat OBVIOUS
  <2> HIDE DEF S
  <2> QED BY <1>6, <1>7, <2>1, NatInd
<1>9. ASSUME NEW n \in 0..p PROVE Far(n)
  <2>1. p - n \in Nat /\ p - n <= p /\ p - (p - n) = n BY <1>3
  <2>2. p - n \in S BY <1>8, <2>1
  <2>3. Far(p - (p - n)) BY <2>1, <2>2
  <2> QED BY <2>1, <2>3
<1> QED BY <1>3, <1>4, <1>9 DEF at, p, mask

\* find_first_item is right: in a table of that shape its search, which gives up at a free slot,
\* at an item nearer to its own best slot, or after max_probe_len steps, finds every key there is.
THEOREM SearchIs ==
    ASSUME Table, NEW k \in Keys
    PROVE  /\ EndOfSearch(k) \in Slots(hash_mask)
           /\ Found(k) <=> HasKey(table, k)
<1> DEFINE mask == hash_mask
           at(n) == Slot(mask, k, n)
           T == {n \in 0..(mask + 1) : Stops(k, n)}
           m == Min(T)
<1>1. /\ mask \in Nat /\ Shape(table, mask, max_probe_len) /\ HashOK /\ max_probe_len \in Nat
  BY DEF Table
<1>2. EndOfSearch(k) = at(m) BY DEF EndOfSearch
<1>3. \A n \in 0..(mask + 1) : n \in T <=>
         ~table[at(n)].live \/ table[at(n)].key = k \/ n > table[at(n)].probe_len
            \/ n + 1 > max_probe_len
  BY DEF Stops
<1>4. DOMAIN table = Slots(mask) BY <1>1 DEF Shape
<1>5. T \subseteq 0..(mask + 1) OBVIOUS
<1> HIDE DEF T, mask
<1>6. \A j \in Slots(mask) : ProbeLength(mask, k, j) \in 0..mask /\ at(ProbeLength(mask, k, j)) = j
  BY <1>1, ProbeIs DEF HashOK
<1>7. \A n \in 0..mask : at(n) \in Slots(mask) /\ ProbeLength(mask, k, at(n)) = n
  BY <1>1, ProbeSlot DEF HashOK
<1> HIDE DEF at
<1>8. PICK n \in 0..mask : n \in T
  <2>1. PICK j \in Slots(mask) : ~table[j].live BY DEF Table, mask
  <2> DEFINE n == ProbeLength(mask, k, j)
  <2>2. n \in 0..mask /\ at(n) = j BY <1>6
  <2> HIDE DEF n
  <2>3. n \in 0..(mask + 1) BY <1>1, <2>2
  <2> QED BY <1>3, <2>1, <2>2, <2>3
<1>9. m \in T /\ \A l \in T : m <= l
  <2>1. T \in SUBSET Nat BY <1>1, <1>5
  <2> QED BY <1>8, <2>1, MinIs
<1> HIDE DEF m
<1>10. m \in 0..mask BY <1>1, <1>5, <1>8, <1>9
<1>11. at(m) \in Slots(mask) BY <1>7, <1>10
<1>12. ASSUME Found(k) PROVE HasKey(table, k)
  BY <1>2, <1>4, <1>11, <1>12 DEF Found, HasKey
<1>13. ASSUME HasKey(table, k) PROVE Found(k)
  <2>1. PICK i \in Slots(mask) : table[i].live /\ table[i].key = k BY <1>4, <1>13 DEF HasKey
  <2> DEFINE p == ProbeLength(mask, k, i)
  <2>2. /\ p \in 0..mask /\ p <= max_probe_len /\ at(p) = i
        /\ \A l \in 0..p : table[at(l)].live /\ table[at(l)].probe_len >= l
    BY <2>1, WayIs DEF mask, at
  <2> HIDE DEF p
  <2>3. p \in T
    <3>1. p \in 0..(mask + 1) BY <1>1, <2>2
    <3> QED BY <1>3, <2>1, <2>2, <3>1
  <2>4. m <= p BY <1>9, <2>3
  <2>5. m \in 0..p BY <1>10, <2>2, <2>4
  <2>6. CASE m = p BY <1>2, <2>1, <2>2, <2>6 DEF Found
  <2>7. CASE m # p
    <3>1. m < p BY <1>10, <2>2, <2>4, <2>7
    <3>2. table[at(m)].live /\ table[at(m)].probe_len >= m BY <2>2, <2>5
    <3>3. ~(m > table[at(m)].probe_len)
      <4>1. table[at(m)].probe_len \in Nat BY <1>1, <1>11 DEF Shape, Items
      <4> QED BY <1>10, <3>2, <4>1
    <3>4. ~(m + 1 > max_probe_len) BY <1>1, <1>10, <2>2, <3>1
    <3>5. table[at(m)].key = k
      <4>1. m \in 0..(mask + 1) BY <1>1, <1>10
      <4> QED BY <1>3, <1>9, <3>2, <3>3, <3>4, <4>1
    <3> QED BY <1>2, <3>2, <3>5 DEF Found
  <2> QED BY <2>6, <2>7
<1> QED BY <1>2, <1>11, <1>12, <1>13 DEF mask

LEMMA FindIs ==
    ASSUME Table, NEW k \in Keys
    PROVE  /\ Find(k) \in Values \cup {NoValue}
           /\ \A v \in Values : Find(k) = v <=> Holds(table, k, v)
<1> DEFINE e == EndOfSearch(k)
<1>1. e \in Slots(hash_mask) BY SearchIs
<1>2. Shape(table, hash_mask, max_probe_len) /\ DOMAIN table = Slots(hash_mask)
  BY DEF Table, Shape
<1>4. CASE Found(k)
  <2>1. table[e].live /\ table[e].key = k BY <1>4 DEF Found
  <2>2. table[e].value \in Values BY <1>1, <1>2, <2>1 DEF Shape, ItemOK
  <2>3. Find(k) = table[e].value BY <1>4 DEF Find
  <2>4. ASSUME NEW v \in Values PROVE table[e].value = v <=> Holds(table, k, v)
    <3>1. ASSUME Holds(table, k, v) PROVE table[e].value = v
      <4>1. PICK j \in Slots(hash_mask) : table[j].live /\ table[j].key = k /\ table[j].value = v
        BY <1>2, <3>1 DEF Holds
      <4>2. j = e BY <1>1, <1>2, <2>1, <4>1 DEF Shape
      <4> QED BY <4>1, <4>2
    <3>2. ASSUME table[e].value = v PROVE Holds(table, k, v)
      BY <1>1, <1>2, <2>1, <3>2 DEF Holds
    <3> QED BY <3>1, <3>2
  <2> QED BY <2>2, <2>3, <2>4
<1>5. CASE ~Found(k)
  <2>1. Find(k) = NoValue BY <1>5 DEF Find
  <2>2. ~HasKey(table, k) BY <1>5, SearchIs
  <2>3. \A v : ~Holds(table, k, v) BY <2>2 DEF Holds, HasKey
  <2> QED BY <2>1, <2>3, NoneAssumption
<1> QED BY <1>4, <1>5

\* An iteration sees every item.
LEMMA IterateIs ==
    ASSUME Table, num_occupied_slots = Cardinality(Live(table))
    PROVE  Iterate = {<<table[i].key, table[i].value>> : i \in Live(table)}
<1> DEFINE seen(i) == Cardinality({j \in DOMAIN table : j < i /\ table[j].live})
           S == {j \in DOMAIN table : table[j].live /\
                    (seen(j) = 0 \/ seen(j) < num_occupied_slots)}
<1>1. Iterate = {<<table[i].key, table[i].value>> : i \in S} BY DEF Iterate
<1>2. hash_mask \in Nat /\ Shape(table, hash_mask, max_probe_len) /\ DOMAIN table = Slots(hash_mask)
  BY DEF Table, Shape
<1>3. ASSUME NEW i \in Live(table) PROVE seen(i) < num_occupied_slots
  <2> DEFINE B == {j \in DOMAIN table : j < i /\ table[j].live}
  <2>1. IsFiniteSet(Live(table)) BY <1>2, LiveFinite
  <2>2. i \in Nat /\ ~(i < i) BY <1>2 DEF Live, Slots
  <2>3. B \subseteq Live(table) /\ B # Live(table) BY <2>2 DEF Live
  <2> HIDE DEF B
  <2>4. /\ IsFiniteSet(B) /\ Cardinality(B) <= Cardinality(Live(table))
        /\ Cardinality(B) = Cardinality(Live(table)) => B = Live(table)
    BY <2>1, <2>3, FS_Subset
  <2>5. Cardinality(B) \in Nat /\ Cardinality(Live(table)) \in Nat BY <2>1, <2>4, FS_CardinalityType
  <2>6. Cardinality(B) < Cardinality(Live(table)) BY <2>3, <2>4, <2>5
  <2> QED BY <2>6 DEF B
<1> HIDE DEF seen
<1>4. S = Live(table) BY <1>3 DEF Live
<1> QED BY <1>1, <1>4

-----------------------------------------------------------------------------
(* The shape is kept.                                                      *)

HashInv ==
    /\ Table
    /\ hash \in [Keys -> Nat]
    /\ num_occupied_slots = Cardinality(Live(table))

Power(n) == 2 ^ n

LEMMA SizesAre ==
    ASSUME NEW size \in Buckets
    PROVE  size \in Nat \ {0}
<1>1. PICK n \in 0..26 : size = Power(n) BY SizesAssumption DEF Power
<1>2. /\ Power(0) = 1 /\ Power(1) = 2 /\ Power(2) = 4 /\ Power(3) = 8 /\ Power(4) = 16
      /\ Power(5) = 32 /\ Power(6) = 64 /\ Power(7) = 128 /\ Power(8) = 256
      /\ Power(9) = 512 /\ Power(10) = 1024 /\ Power(11) = 2048 /\ Power(12) = 4096
      /\ Power(13) = 8192 /\ Power(14) = 16384 /\ Power(15) = 32768 /\ Power(16) = 65536
      /\ Power(17) = 131072 /\ Power(18) = 262144 /\ Power(19) = 524288
      /\ Power(20) = 1048576 /\ Power(21) = 2097152 /\ Power(22) = 4194304
      /\ Power(23) = 8388608 /\ Power(24) = 16777216 /\ Power(25) = 33554432
      /\ Power(26) = 67108864
  BY DEF Power
<1>3. n \in {0, 1, 2, 3, 4, 5, 6, 7, 8, 9, 10, 11, 12, 13, 14, 15, 16, 17, 18, 19, 20, 21, 22, 23,
             24, 25, 26}
  OBVIOUS
<1> HIDE DEF Power
<1> QED BY <1>1, <1>2, <1>3

\* The invariant in the next state, of a table in this one.
LEMMA NextInv ==
    ASSUME hash \in [Keys -> Nat], hash' = hash, NEW u, NEW mask \in Nat, NEW top \in Nat,
           Shape(u, mask, top), \E i \in Slots(mask) : ~u[i].live,
           table' = u, hash_mask' = mask, max_probe_len' = top,
           num_occupied_slots' = Cardinality(Live(u))
    PROVE  HashInv'
<1>1. HashOK' BY DEF HashOK
<1>2. Shape(table, hash_mask, max_probe_len)'
  <2>1. ASSUME NEW i \in Slots(mask), u[i].live PROVE ItemOK(table, hash_mask, max_probe_len, i)'
    <3>1. ItemOK(u, mask, top, i) BY <2>1 DEF Shape
    <3> QED BY <3>1 DEF ItemOK, ProbeLength, Slot, Before
  <2>2. /\ u \in [Slots(mask) -> Items]
        /\ \A i \in Slots(mask) : ~u[i].live => u[i] = Empty
        /\ \A i, j \in Slots(mask) : u[i].live /\ u[j].live /\ u[i].key = u[j].key => i = j
    BY DEF Shape
  <2> QED BY <2>1, <2>2 DEF Shape, Slots
<1>3. Table' BY <1>1, <1>2 DEF Table, Slots
<1>4. (num_occupied_slots = Cardinality(Live(table)))' BY DEF Live
<1> QED BY <1>3, <1>4 DEF HashInv

LEMMA InitInv == Init => HashInv
<1> SUFFICES ASSUME Init PROVE HashInv
  OBVIOUS
<1>1. hash \in [Keys -> Nat] BY HashesAssumption DEF Init
<1>2. hash_mask \in Nat
  <2>1. PICK size \in Buckets : hash_mask = size - 1 BY DEF Init
  <2> QED BY <2>1, SizesAre
<1>3. table = EmptyTable(hash_mask) /\ max_probe_len = 0 /\ num_occupied_slots = 0 BY DEF Init
<1>4. Shape(table, hash_mask, max_probe_len) /\ Live(table) = {}
  BY <1>2, <1>3, EmptyShape
<1>5. \E i \in Slots(hash_mask) : ~table[i].live
  <2>1. 0 \in Slots(hash_mask) BY <1>2 DEF Slots
  <2>2. ~table[0].live BY <1>3, <2>1 DEF EmptyTable, Empty, Slots
  <2> QED BY <2>1, <2>2
<1>6. Cardinality({}) = 0 BY FS_EmptySet
<1> QED BY <1>1, <1>2, <1>3, <1>4, <1>5, <1>6 DEF HashInv, Table, HashOK

\* Beside num items there may be no place for one more; there was one, if need be after growth.
Room == Threshold(hash_mask + 1)
Limited == hash_mask + 1 >= max_size
NoRoom(num) == hash_mask' = hash_mask /\ (Limited \/ num >= Room)
MadeRoom(num) == ~Limited /\ IF num < Room THEN hash_mask' = hash_mask ELSE Room' > Room

LEMMA RoomGrows ==
    ASSUME NEW mask \in Nat
    PROVE  /\ Threshold(mask + 1) \in Nat /\ Threshold(2 * mask + 2) \in Nat
           /\ Threshold(2 * mask + 2) > Threshold(mask + 1)
<1> DEFINE x == 217 * (mask + 1)
           y == 217 * (2 * mask + 2)
           q == x \div 256
           r == y \div 256
<1>1. x \in Nat /\ y \in Nat /\ y = x + x /\ x >= 217 OBVIOUS
<1> HIDE DEF x, y
<1>2. /\ q \in Nat /\ 256 * q <= x /\ x < 256 * q + 256
      /\ r \in Nat /\ 256 * r <= y /\ y < 256 * r + 256
  BY <1>1
<1> HIDE DEF q, r
<1>3. r > q BY <1>1, <1>2
<1>4. Threshold(mask + 1) = q /\ Threshold(2 * mask + 2) = r BY DEF Threshold, q, r, x, y
<1> QED BY <1>2, <1>3, <1>4

\* What a call that puts an item of key k and value v into table t, of num items, leaves.
InsertedInto(t, num, k, v) ==
    /\ HashInv'
    /\ \/ /\ result' = FALSE /\ NoRoom(num)
          /\ \A x, y : Holds(table', x, y) <=> Holds(t, x, y)
       \/ /\ result' = TRUE /\ MadeRoom(num)
          /\ \A x, y : Holds(table', x, y) <=> Holds(t, x, y) \/ (x = k /\ y = v)

LEMMA PutIs ==
    ASSUME HashOK, NEW u, NEW mask \in Nat, NEW top \in Nat, Shape(u, mask, top),
           Cardinality(Live(u)) + 1 <= mask, NEW k \in Keys, NEW v \in Values, ~HasKey(u, k),
           NEW item, item = [live |-> TRUE, key |-> k, value |-> v, probe_len |-> 0]
    PROVE  \E w, high :
              /\ InsertItem(item, Base(u, mask, top)) = Base(w, mask, high)
              /\ high \in Nat /\ Shape(w, mask, high) /\ \E i \in Slots(mask) : ~w[i].live
              /\ Cardinality(Live(w)) = Cardinality(Live(u)) + 1
              /\ \A x, y : Holds(w, x, y) <=> Holds(u, x, y) \/ (x = k /\ y = v)
<1>1. item \in Items /\ item.live /\ item.key = k /\ item.value = v BY DEF Items
<1>2. Cardinality(Live(u)) \in 0..mask + 1 BY LiveFinite
<1>3. Cardinality(Live(u)) <= mask BY <1>2
<1>4. \E i \in Slots(mask) : ~u[i].live BY <1>3, LiveFinite
<1>5. Insertable(item, u, mask, top) BY <1>1, <1>4 DEF Insertable
<1>6. \E w, high : /\ InsertItem(item, Base(u, mask, top)) = Base(w, mask, high)
                   /\ Inserted(w, high, u, mask, top, item.key, item.value)
  BY <1>5, InsertShape
<1>7. PICK w, high : /\ InsertItem(item, Base(u, mask, top)) = Base(w, mask, high)
                     /\ Inserted(w, high, u, mask, top, k, v)
  BY <1>1, <1>6
<1>8. /\ high \in Nat /\ Shape(w, mask, high)
      /\ Cardinality(Live(w)) = Cardinality(Live(u)) + 1
      /\ \A x, y : Holds(w, x, y) <=> Holds(u, x, y) \/ (x = k /\ y = v)
  BY <1>7 DEF Inserted
<1>9. \E i \in Slots(mask) : ~w[i].live
  <2>1. Cardinality(Live(w)) <= mask BY <1>8
  <2> QED BY <1>8, <2>1, LiveFinite
<1> QED BY <1>7, <1>8, <1>9

LEMMA InsertIntoIs ==
    ASSUME HashOK, hash \in [Keys -> Nat], hash' = hash, hash_mask \in Nat, max_probe_len \in Nat,
           NEW t, Shape(t, hash_mask, max_probe_len), \E i \in Slots(hash_mask) : ~t[i].live,
           NEW num, num = Cardinality(Live(t)), NEW k \in Keys, NEW v \in Values, ~HasKey(t, k),
           InsertInto(t, num, k, v)
    PROVE  InsertedInto(t, num, k, v)
<1> DEFINE size == hash_mask + 1
           item == [live |-> TRUE, key |-> k, value |-> v, probe_len |-> 0]
           Keep == table' = t /\ num_occupied_slots' = num /\ result' = FALSE
                   /\ UNCHANGED <<hash_mask, max_probe_len>>
           Put(base) == LET new == InsertItem(item, base)
                        IN  /\ table' = new.table /\ hash_mask' = new.mask
                            /\ max_probe_len' = new.max
                            /\ num_occupied_slots' = num + 1 /\ result' = TRUE
           Direct == Base(t, hash_mask, max_probe_len)
<1>1. \/ Keep /\ (Limited \/ num >= Threshold(size))
      \/ ~Limited /\ num >= Threshold(size) /\ Put(Resized(t, hash_mask))
      \/ ~Limited /\ num + 1 <= Threshold(size) /\ Put(Direct)
  <2>1. num \in Nat /\ Threshold(size) \in Nat
    <3>1. Cardinality(Live(t)) \in 0..hash_mask + 1 BY LiveFinite
    <3> QED BY <3>1 DEF Threshold
  <2>2. \/ num + 1 > Threshold(size) /\ num >= Threshold(size)
        \/ num + 1 <= Threshold(size)
    BY <2>1
  <2> HIDE DEF Keep
  <2>3. IF size >= max_size THEN Keep
        ELSE IF num + 1 > Threshold(size) THEN Put(Resized(t, hash_mask)) \/ Keep
        ELSE Put(Direct)
    BY DEF InsertInto, Base, Keep
  <2>4. IF Limited THEN Keep
        ELSE IF num + 1 > Threshold(size) THEN Put(Resized(t, hash_mask)) \/ Keep
        ELSE Put(Direct)
    BY <2>3 DEF Limited
  <2> HIDE DEF Put, Direct, size
  <2>5. CASE Limited BY <2>4, <2>5
  <2>6. CASE ~Limited /\ num + 1 > Threshold(size)
    <3>1. Put(Resized(t, hash_mask)) \/ Keep BY <2>4, <2>6
    <3>2. num >= Threshold(size) BY <2>1, <2>6
    <3> QED BY <2>6, <3>1, <3>2
  <2>7. CASE ~Limited /\ num + 1 <= Threshold(size)
    <3>1. ~(num + 1 > Threshold(size)) BY <2>1, <2>7
    <3>2. Put(Direct) BY <2>4, <2>7, <3>1
    <3> QED BY <2>7, <3>2
  <2> QED BY <2>2, <2>5, <2>6, <2>7
<1>2. Cardinality(Live(t)) \in 0..hash_mask + 1 /\ Cardinality(Live(t)) <= hash_mask
  BY LiveFinite
<1>3. CASE Keep /\ (Limited \/ num >= Threshold(size))
  <2>1. HashInv' BY <1>3, NextInv
  <2>2. NoRoom(num) BY <1>3 DEF NoRoom, Room
  <2> QED BY <1>3, <2>1, <2>2 DEF InsertedInto
<1>4. ASSUME NEW u, NEW mask \in Nat, NEW top \in Nat, Shape(u, mask, top),
             Cardinality(Live(u)) = num, num + 1 <= mask, ~Limited,
             IF num < Room THEN mask = hash_mask ELSE Threshold(mask + 1) > Room,
             \A x, y : Holds(u, x, y) <=> Holds(t, x, y), Put(Base(u, mask, top))
      PROVE  InsertedInto(t, num, k, v)
  <2>1. ~HasKey(u, k)
    <3> SUFFICES ASSUME HasKey(u, k) PROVE FALSE
      OBVIOUS
    <3>1. PICK i \in DOMAIN u : u[i].live /\ u[i].key = k BY DEF HasKey
    <3>2. Holds(t, k, u[i].value) BY <1>4, <3>1 DEF Holds
    <3> QED BY <3>2 DEF Holds, HasKey
  <2> DEFINE thing == item
  <2>2. thing = [live |-> TRUE, key |-> k, value |-> v, probe_len |-> 0] OBVIOUS
  <2> HIDE DEF thing
  <2>3. PICK w, high :
              /\ InsertItem(thing, Base(u, mask, top)) = Base(w, mask, high)
              /\ high \in Nat /\ Shape(w, mask, high) /\ \E i \in Slots(mask) : ~w[i].live
              /\ Cardinality(Live(w)) = Cardinality(Live(u)) + 1
              /\ \A x, y : Holds(w, x, y) <=> Holds(u, x, y) \/ (x = k /\ y = v)
    <3>1. Cardinality(Live(u)) + 1 <= mask BY <1>4
    <3> QED BY <1>4, <2>1, <2>2, <3>1, PutIs
  <2>4. /\ table' = w /\ hash_mask' = mask /\ max_probe_len' = high
        /\ num_occupied_slots' = num + 1 /\ result' = TRUE
    BY <1>4, <2>3 DEF Base, thing
  <2>5. num_occupied_slots' = Cardinality(Live(w)) BY <1>4, <2>3, <2>4
  <2>6. HashInv' BY <2>3, <2>4, <2>5, NextInv
  <2>7. \A x, y : Holds(table', x, y) <=> Holds(t, x, y) \/ (x = k /\ y = v)
    BY <1>4, <2>3, <2>4
  <2>8. Room' = Threshold(mask + 1) BY <2>4 DEF Room, Threshold
  <2>9. MadeRoom(num) BY <1>4, <2>4, <2>8 DEF MadeRoom
  <2> QED BY <2>4, <2>6, <2>7, <2>9 DEF InsertedInto
<1> HIDE DEF Put, Keep
<1>5. CASE ~Limited /\ num >= Threshold(size) /\ Put(Resized(t, hash_mask))
  <2>1. PICK u, top : /\ Resized(t, hash_mask) = Base(u, 2 * hash_mask + 1, top)
                      /\ top \in Nat /\ Shape(u, 2 * hash_mask + 1, top)
                      /\ Cardinality(Live(u)) = Cardinality(Live(t))
                      /\ \A x, y : Holds(u, x, y) <=> Holds(t, x, y)
    BY ResizeShape
  <2> DEFINE wide == 2 * hash_mask + 1
  <2>2. wide \in Nat /\ num + 1 <= wide BY <1>2
  <2>3. Put(Base(u, wide, top)) BY <1>5, <2>1
  <2>4. Shape(u, wide, top) /\ Cardinality(Live(u)) = num BY <2>1
  <2>5. IF num < Room THEN wide = hash_mask ELSE Threshold(wide + 1) > Room
    <3>1. wide + 1 = 2 * hash_mask + 2 OBVIOUS
    <3>2. ~(num < Room) BY <1>2, <1>5, RoomGrows DEF Room
    <3> HIDE DEF wide
    <3> QED BY <3>1, <3>2, RoomGrows DEF Room
  <2> HIDE DEF wide
  <2> QED BY <1>4, <1>5, <2>1, <2>2, <2>3, <2>4, <2>5
<1>6. CASE ~Limited /\ num + 1 <= Threshold(size) /\ Put(Direct)
  <2>1. num + 1 <= hash_mask
    <3>1. size \in Nat /\ size > 0 OBVIOUS
    <3>2. (217 * size) \div 256 < size /\ (217 * size) \div 256 \in Nat BY <3>1
    <3>3. num \in Nat BY <1>2
    <3> QED BY <1>6, <3>2, <3>3 DEF Threshold
  <2>2. num < Room BY <1>2, <1>6, RoomGrows DEF Room
  <2> QED BY <1>4, <1>6, <2>1, <2>2
<1> QED BY <1>1, <1>3, <1>5, <1>6

\* A call changes what the table holds of the keys ks only, and to v.
Sets(ks, v) ==
    \A x \in Keys, y \in Values :
        Holds(table', x, y) <=> IF x \in ks THEN y = v ELSE Holds(table, x, y)

LEMMA NotHeld ==
    ASSUME NEW t, NEW k
    PROVE  ~HasKey(t, k) <=> \A y : ~Holds(t, k, y)
BY DEF HasKey, Holds

LEMMA DeleteIs ==
    ASSUME HashInv, NEW k \in Keys, Found(k), NEW t, t = Deleted(EndOfSearch(k))
    PROVE  /\ Shape(t, hash_mask, max_probe_len) /\ \E i \in Slots(hash_mask) : ~t[i].live
           /\ Cardinality(Live(t)) = num_occupied_slots - 1
           /\ ~HasKey(t, k)
           /\ \A x, y : Holds(t, x, y) <=> Holds(table, x, y) /\ x # k
<1> DEFINE e == EndOfSearch(k)
<1>1. Table /\ num_occupied_slots = Cardinality(Live(table)) BY DEF HashInv
<1>2. e \in Slots(hash_mask) /\ table[e].live /\ table[e].key = k BY <1>1, SearchIs DEF Found
<1> HIDE DEF e
<1>3. t = Deleted(e) BY DEF e
<1>4. HasDeleted(t, table, hash_mask, max_probe_len, e) BY <1>1, <1>2, <1>3, DeletedIs
<1>5. /\ Shape(t, hash_mask, max_probe_len)
      /\ \E j \in Live(table) : Live(t) = Live(table) \ {j}
      /\ \A x, y : Holds(t, x, y) <=> Holds(table, x, y) /\ x # k
  BY <1>2, <1>4 DEF HasDeleted
<1>6. /\ hash_mask \in Nat /\ Shape(table, hash_mask, max_probe_len)
      /\ \E i \in Slots(hash_mask) : ~table[i].live
  BY <1>1 DEF Table
<1>7. IsFiniteSet(Live(table)) /\ Cardinality(Live(table)) \in 0..hash_mask + 1
  BY <1>6, LiveFinite
<1>8. Cardinality(Live(t)) = num_occupied_slots - 1
  <2>1. PICK j \in Live(table) : Live(t) = Live(table) \ {j} BY <1>5
  <2> QED BY <1>1, <1>7, <2>1, FS_RemoveElement
<1>9. \E i \in Slots(hash_mask) : ~t[i].live
  <2>1. Cardinality(Live(t)) <= hash_mask BY <1>1, <1>6, <1>7, <1>8
  <2> QED BY <1>5, <1>6, <2>1, LiveFinite
<1>10. ~HasKey(t, k) BY <1>5, NotHeld
<1> QED BY <1>5, <1>8, <1>9, <1>10

\* How many items there are of other keys than k.
OtherItems(k) == IF HasKey(table, k) THEN num_occupied_slots - 1 ELSE num_occupied_slots

LEMMA InsertStep ==
    ASSUME HashInv, NEW k \in Keys, NEW v \in Values, NEW replace \in BOOLEAN,
           InsertIntoHashTable(k, v, replace)
    PROVE  /\ HashInv'
           /\ max_size' = max_size
           /\ \/ result' = TRUE /\ Sets({k}, v) /\ MadeRoom(OtherItems(k))
              \/ /\ result' = FALSE /\ Sets({}, NoValue) /\ hash_mask' = hash_mask
                 /\ HasKey(table, k) \/ NoRoom(OtherItems(k))
              \/ /\ result' = FALSE /\ Sets({k}, NoValue)
                 /\ HasKey(table, k) /\ NoRoom(OtherItems(k))
<1>1. /\ Table /\ HashOK /\ hash \in [Keys -> Nat] /\ hash_mask \in Nat /\ max_probe_len \in Nat
      /\ Shape(table, hash_mask, max_probe_len) /\ \E i \in Slots(hash_mask) : ~table[i].live
      /\ num_occupied_slots = Cardinality(Live(table))
  BY DEF HashInv, Table
<1>2. hash' = hash /\ NoValue \notin Values /\ max_size' = max_size
  BY NoneAssumption DEF InsertIntoHashTable
<1>3. Found(k) <=> HasKey(table, k) BY <1>1, SearchIs
<1>4. CASE ~Found(k)
  <2>1. InsertInto(table, num_occupied_slots, k, v) BY <1>4 DEF InsertIntoHashTable
  <2>2. InsertedInto(table, num_occupied_slots, k, v)
    BY <1>1, <1>2, <1>3, <1>4, <2>1, InsertIntoIs
  <2>3. \A y : ~Holds(table, k, y) BY <1>3, <1>4, NotHeld
  <2>6. OtherItems(k) = num_occupied_slots BY <1>3, <1>4 DEF OtherItems
  <2>4. CASE /\ result' = FALSE /\ NoRoom(num_occupied_slots)
             /\ \A x, y : Holds(table', x, y) <=> Holds(table, x, y)
    <3>1. Sets({}, NoValue) BY <2>4, Zenon DEF Sets
    <3>2. hash_mask' = hash_mask BY <2>4 DEF NoRoom
    <3> QED BY <1>2, <2>2, <2>4, <2>6, <3>1, <3>2 DEF InsertedInto
  <2>5. CASE /\ result' = TRUE /\ MadeRoom(num_occupied_slots)
             /\ \A x, y : Holds(table', x, y) <=> Holds(table, x, y) \/ (x = k /\ y = v)
    <3>1. Sets({k}, v) BY <2>3, <2>5, Zenon DEF Sets
    <3> QED BY <1>2, <2>2, <2>5, <2>6, <3>1 DEF InsertedInto
  <2> QED BY <2>2, <2>4, <2>5 DEF InsertedInto
<1>5. CASE Found(k) /\ replace
  <2> DEFINE t == Deleted(EndOfSearch(k))
             num == num_occupied_slots - 1
  <2>1. InsertInto(t, num, k, v) BY <1>5 DEF InsertIntoHashTable
  <2>2. /\ Shape(t, hash_mask, max_probe_len) /\ \E i \in Slots(hash_mask) : ~t[i].live
        /\ Cardinality(Live(t)) = num
        /\ ~HasKey(t, k)
        /\ \A x, y : Holds(t, x, y) <=> Holds(table, x, y) /\ x # k
    BY <1>5, DeleteIs
  <2>6. OtherItems(k) = num BY <1>3, <1>5 DEF OtherItems
  <2> HIDE DEF t, num
  <2>3. InsertedInto(t, num, k, v) BY <1>1, <1>2, <2>1, <2>2, InsertIntoIs
  <2>4. CASE /\ result' = FALSE /\ NoRoom(num)
             /\ \A x, y : Holds(table', x, y) <=> Holds(t, x, y)
    <3>1. Sets({k}, NoValue) BY <1>2, <2>2, <2>4, Zenon DEF Sets
    <3> QED BY <1>2, <1>3, <1>5, <2>3, <2>4, <2>6, <3>1 DEF InsertedInto
  <2>5. CASE /\ result' = TRUE /\ MadeRoom(num)
             /\ \A x, y : Holds(table', x, y) <=> Holds(t, x, y) \/ (x = k /\ y = v)
    <3>1. Sets({k}, v) BY <2>2, <2>5, Zenon DEF Sets
    <3> QED BY <1>2, <2>3, <2>5, <2>6, <3>1 DEF InsertedInto
  <2> QED BY <2>3, <2>4, <2>5 DEF InsertedInto
<1>6. CASE Found(k) /\ ~replace
  <2>1. /\ result' = FALSE /\ table' = table /\ hash_mask' = hash_mask
        /\ max_probe_len' = max_probe_len /\ num_occupied_slots' = num_occupied_slots
    BY <1>6 DEF InsertIntoHashTable, tableVars
  <2>2. HashInv' BY <1>1, <1>2, <2>1, NextInv
  <2>3. Sets({}, NoValue) BY <2>1 DEF Sets
  <2> QED BY <1>2, <1>3, <1>6, <2>1, <2>2, <2>3
<1> QED BY <1>4, <1>5, <1>6

LEMMA RemoveStep ==
    ASSUME HashInv, NEW k \in Keys, RemoveFromHashTable(k)
    PROVE  /\ HashInv' /\ Sets({k}, NoValue) /\ result' = Found(k) /\ (Found(k) <=> HasKey(table, k))
           /\ UNCHANGED <<hash_mask, max_size>>
<1>1. /\ Table /\ hash \in [Keys -> Nat] /\ hash_mask \in Nat /\ max_probe_len \in Nat
      /\ Shape(table, hash_mask, max_probe_len) /\ \E i \in Slots(hash_mask) : ~table[i].live
      /\ num_occupied_slots = Cardinality(Live(table))
  BY DEF HashInv, Table
<1>2. /\ hash' = hash /\ NoValue \notin Values /\ hash_mask' = hash_mask
      /\ max_probe_len' = max_probe_len /\ result' = Found(k) /\ max_size' = max_size
  BY NoneAssumption DEF RemoveFromHashTable
<1>3. Found(k) <=> HasKey(table, k) BY <1>1, SearchIs
<1>4. CASE Found(k)
  <2> DEFINE t == Deleted(EndOfSearch(k))
  <2>1. table' = t /\ num_occupied_slots' = num_occupied_slots - 1
    BY <1>4 DEF RemoveFromHashTable
  <2>2. /\ Shape(t, hash_mask, max_probe_len) /\ \E i \in Slots(hash_mask) : ~t[i].live
        /\ Cardinality(Live(t)) = num_occupied_slots - 1
        /\ \A x, y : Holds(t, x, y) <=> Holds(table, x, y) /\ x # k
    BY <1>4, DeleteIs
  <2> HIDE DEF t
  <2>3. HashInv' BY <1>1, <1>2, <2>1, <2>2, NextInv
  <2>4. \A x, y : Holds(table', x, y) <=> Holds(table, x, y) /\ x # k BY <2>1, <2>2
  <2>5. Sets({k}, NoValue) BY <1>2, <2>4, Zenon DEF Sets
  <2> QED BY <1>2, <1>3, <2>3, <2>5
<1>5. CASE ~Found(k)
  <2>1. table' = table /\ num_occupied_slots' = num_occupied_slots
    BY <1>5 DEF RemoveFromHashTable
  <2>2. HashInv' BY <1>1, <1>2, <2>1, NextInv
  <2>3. \A y : ~Holds(table, k, y) BY <1>3, <1>5, NotHeld
  <2>4. Sets({k}, NoValue) BY <1>2, <2>1, <2>3, Zenon DEF Sets
  <2> QED BY <1>2, <1>3, <2>2, <2>4
<1> QED BY <1>4, <1>5

LEMMA ClearStep ==
    ASSUME HashInv, ClearHashTable
    PROVE  /\ HashInv' /\ Sets(Keys, NoValue) /\ result' = result
           /\ UNCHANGED <<hash_mask, max_size>>
<1> DEFINE t == EmptyTable(hash_mask)
<1>1. /\ hash \in [Keys -> Nat] /\ hash_mask \in Nat /\ max_probe_len \in Nat BY DEF HashInv, Table
<1>2. /\ hash' = hash /\ NoValue \notin Values /\ hash_mask' = hash_mask
      /\ max_probe_len' = max_probe_len /\ result' = result
      /\ table' = t /\ num_occupied_slots' = 0 /\ max_size' = max_size
  BY NoneAssumption DEF ClearHashTable
<1>3. Shape(t, hash_mask, max_probe_len) /\ Live(t) = {} /\ \A k, v : ~Holds(t, k, v)
  BY <1>1, EmptyShape
<1>4. \E i \in Slots(hash_mask) : ~t[i].live
  <2>1. 0 \in Slots(hash_mask) BY <1>1 DEF Slots
  <2>2. ~t[0].live BY <2>1 DEF EmptyTable, Empty, Slots
  <2> QED BY <2>1, <2>2
<1> HIDE DEF t
<1>5. Cardinality(Live(t)) = 0 BY <1>3, FS_EmptySet
<1>6. HashInv' BY <1>1, <1>2, <1>3, <1>4, <1>5, NextInv
<1>7. Sets(Keys, NoValue) BY <1>2, <1>3, Zenon DEF Sets
<1> QED BY <1>2, <1>6, <1>7

LEMMA StutterStep ==
    ASSUME HashInv, UNCHANGED vars
    PROVE  /\ HashInv' /\ Sets({}, NoValue) /\ result' = result
           /\ UNCHANGED <<hash_mask, max_size>>
<1>1. /\ hash \in [Keys -> Nat] /\ hash_mask \in Nat /\ max_probe_len \in Nat
      /\ Shape(table, hash_mask, max_probe_len) /\ \E i \in Slots(hash_mask) : ~table[i].live
      /\ num_occupied_slots = Cardinality(Live(table))
  BY DEF HashInv, Table
<1>2. /\ hash' = hash /\ hash_mask' = hash_mask /\ max_probe_len' = max_probe_len
      /\ result' = result /\ table' = table /\ num_occupied_slots' = num_occupied_slots
      /\ max_size' = max_size
  BY DEF vars, tableVars
<1>3. HashInv' BY <1>1, <1>2, NextInv
<1>4. Sets({}, NoValue) BY <1>2 DEF Sets
<1> QED BY <1>2, <1>3, <1>4

\* HashInv is an invariant: no insertion, replacement, deletion, growth or clearing, and no
\* refusal of memory, leaves a table of another shape, a wrong count, or no free slot.
THEOREM HashHolds == Spec => []HashInv
<1>1. HashInv /\ [Next]_vars => HashInv'
  <2> SUFFICES ASSUME HashInv, [Next]_vars PROVE HashInv'
    OBVIOUS
  <2>1. ASSUME NEW k \in Keys, NEW v \in Values, NEW replace \in BOOLEAN,
               InsertIntoHashTable(k, v, replace)
        PROVE  HashInv'
    BY <2>1, InsertStep
  <2>2. ASSUME NEW k \in Keys, RemoveFromHashTable(k) PROVE HashInv' BY <2>2, RemoveStep
  <2>3. CASE ClearHashTable BY <2>3, ClearStep
  <2>4. CASE UNCHANGED vars BY <2>4, StutterStep
  <2> QED BY <2>1, <2>2, <2>3, <2>4 DEF Next
<1> QED BY <1>1, InitInv, PTL DEF Spec

\* Through every displacement, shift and growth the count of items is exact, a slot is free, and
\* every item lies in its best slot or next to one that is at most one step nearer to its own,
\* within the longest probe: what the searches rely on and the assertions of find_item,
\* insert_item and delete_item say.
THEOREM KeepsShape == Spec => []RobinHood
<1>1. HashInv => RobinHood
  <2> SUFFICES ASSUME HashInv PROVE RobinHood
    OBVIOUS
  <2>1. /\ hash_mask \in Nat /\ Shape(table, hash_mask, max_probe_len)
        /\ \E i \in Slots(hash_mask) : ~table[i].live
        /\ num_occupied_slots = Cardinality(Live(table))
    BY DEF HashInv, Table
  <2>2. DOMAIN table = 0..hash_mask /\ Slots(hash_mask) = 0..hash_mask BY <2>1 DEF Shape, Slots
  <2>3. ASSUME NEW i \in 0..hash_mask
        PROVE  (i + hash_mask) % (hash_mask + 1) = Before(hash_mask, i)
    <3>1. i \in Slots(hash_mask) /\ hash_mask \in 0..hash_mask + 1 BY <2>1 DEF Slots
    <3>2. (i + hash_mask) % (hash_mask + 1) = Ahead(hash_mask, i, hash_mask)
      BY <2>1, <3>1, AheadIs
    <3> QED BY <2>1, <3>1, <3>2, Around
  <2>4. \A i \in 0..hash_mask :
           IF table[i].live THEN ItemOK(table, hash_mask, max_probe_len, i) ELSE table[i] = Empty
    BY <2>1, <2>2 DEF Shape
  <2>5. ASSUME NEW i \in 0..hash_mask
        PROVE  LET before == table[(i + hash_mask) % (hash_mask + 1)]
               IN  IF table[i].live
                   THEN /\ table[i].probe_len = ProbeLength(hash_mask, table[i].key, i)
                        /\ table[i].probe_len <= max_probe_len
                        /\ table[i].probe_len > 0 => before.live
                                                     /\ table[i].probe_len <= before.probe_len + 1
                   ELSE table[i] = Empty
    BY <2>3, <2>4, Zenon DEF ItemOK
  <2> QED BY <2>1, <2>2, <2>5 DEF RobinHood, Live
<1> QED BY <1>1, HashHolds, PTL

-----------------------------------------------------------------------------
(* The table is a map.                                                     *)

\* What searches find and iterations visit is what the table holds.
MapOK ==
    /\ \A k \in Keys : /\ Find(k) \in Values \cup {NoValue}
                       /\ \A v \in Values : Find(k) = v <=> Holds(table, k, v)
    /\ Iterate = {<<k, Find(k)>> : k \in {x \in Keys : Find(x) # NoValue}}

LEMMA MapIs == HashInv => MapOK
<1> SUFFICES ASSUME HashInv PROVE MapOK
  OBVIOUS
<1>1. Table /\ num_occupied_slots = Cardinality(Live(table)) BY DEF HashInv
<1>2. \A k \in Keys : /\ Find(k) \in Values \cup {NoValue}
                      /\ \A v \in Values : Find(k) = v <=> Holds(table, k, v)
  BY <1>1, FindIs
<1>3. Iterate = {<<table[i].key, table[i].value>> : i \in Live(table)} BY <1>1, IterateIs
<1> DEFINE F == {x \in Keys : Find(x) # NoValue}
<1>4. ASSUME NEW i \in Live(table)
      PROVE  table[i].key \in F /\ Find(table[i].key) = table[i].value
  <2>1. table[i].live /\ i \in Slots(hash_mask) BY <1>1 DEF Live, Table, Shape
  <2>2. table[i].key \in Keys /\ table[i].value \in Values BY <1>1, <2>1 DEF Table, Shape, ItemOK
  <2>3. Holds(table, table[i].key, table[i].value) BY <2>1 DEF Holds, Live
  <2>4. Find(table[i].key) = table[i].value BY <1>2, <2>2, <2>3
  <2> QED BY <2>2, <2>4, NoneAssumption
<1>5. ASSUME NEW x \in F PROVE \E i \in Live(table) : table[i].key = x /\ table[i].value = Find(x)
  <2>1. Find(x) \in Values BY <1>2
  <2>2. Holds(table, x, Find(x)) BY <1>2, <2>1
  <2> QED BY <2>2 DEF Holds, Live
<1>6. {<<table[i].key, table[i].value>> : i \in Live(table)} = {<<k, Find(k)>> : k \in F}
  <2> HIDE DEF F
  <2> QED BY <1>4, <1>5
<1> QED BY <1>2, <1>3, <1>6 DEF MapOK

LEMMA SetsIsSet ==
    ASSUME MapOK, MapOK', NEW ks, NEW v \in Values \cup {NoValue}, Sets(ks, v)
    PROVE  Map!Set(ks, v)
<1>1. /\ \A k \in Keys : /\ Find(k) \in Values \cup {NoValue}
                         /\ \A y \in Values : Find(k) = y <=> Holds(table, k, y)
      /\ NoValue \notin Values
  BY NoneAssumption DEF MapOK
<1>2. /\ \A k \in Keys : /\ Find(k)' \in Values \cup {NoValue}
                         /\ \A y \in Values : Find(k)' = y <=> Holds(table', k, y)
      /\ Iterate' = {<<k, Find(k)'>> : k \in {x \in Keys : Find(x)' # NoValue}}
  BY DEF MapOK, Holds
<1>3. ASSUME NEW k \in Keys PROVE Find(k)' = IF k \in ks THEN v ELSE Find(k)
  <2> DEFINE new == Find(k)'
             old == Find(k)
  <2>1. /\ new \in Values \cup {NoValue} /\ old \in Values \cup {NoValue}
        /\ \A y \in Values : new = y <=> (IF k \in ks THEN y = v ELSE old = y)
    BY <1>1, <1>2 DEF Sets
  <2> HIDE DEF new, old
  <2>2. new = IF k \in ks THEN v ELSE old BY <1>1, <2>1
  <2> QED BY <2>2 DEF new, old
<1>4. \A k \in Keys : [x \in Keys |-> Find(x)]'[k] = Find(k)' OBVIOUS
<1> QED BY <1>2, <1>3, <1>4 DEF Map!Set

\* The items of other keys are as many as those keys that a search finds.
LEMMA OthersAre ==
    ASSUME HashInv, MapOK, NEW k \in Keys
    PROVE  Map!Others(k) = OtherItems(k)
<1> DEFINE D == {i \in Live(table) : table[i].key # k}
           F == {x \in Keys \ {k} : Find(x) # NoValue}
           f == [i \in D |-> table[i].key]
<1>1. /\ hash_mask \in Nat /\ Shape(table, hash_mask, max_probe_len)
      /\ num_occupied_slots = Cardinality(Live(table))
  BY DEF HashInv, Table
<1>2. DOMAIN table = Slots(hash_mask) BY <1>1 DEF Shape
<1>3. IsFiniteSet(Live(table)) /\ IsFiniteSet(D) BY <1>1, LiveFinite, FS_Subset
<1>4. ASSUME NEW i \in D PROVE table[i].key \in F
  <2>1. i \in Slots(hash_mask) /\ table[i].live /\ table[i].key # k BY <1>2 DEF Live
  <2>2. table[i].key \in Keys /\ table[i].value \in Values BY <1>1, <2>1 DEF Shape, ItemOK
  <2>3. Holds(table, table[i].key, table[i].value) BY <1>2, <2>1 DEF Holds
  <2>4. Find(table[i].key) = table[i].value BY <2>2, <2>3 DEF MapOK
  <2> QED BY <2>1, <2>2, <2>4, NoneAssumption
<1>5. ASSUME NEW x \in F PROVE \E i \in D : table[i].key = x
  <2>1. Find(x) \in Values BY DEF MapOK
  <2>2. Holds(table, x, Find(x)) BY <2>1 DEF MapOK
  <2> QED BY <2>2 DEF Holds, Live
<1>6. \A i, j \in D : table[i].key = table[j].key => i = j
  BY <1>1, <1>2 DEF Live, Shape
<1>7. Cardinality(F) = Cardinality(D)
  <2> HIDE DEF D, F
  <2>1. f \in [D -> F] BY <1>4
  <2>2. \A i, j \in D : f[i] = f[j] => i = j BY <1>6
  <2>3. \A x \in F : \E i \in D : f[i] = x BY <1>5
  <2> HIDE DEF f
  <2>4. f \in Bijection(D, F) BY <2>1, <2>2, <2>3 DEF Bijection, Injection, Surjection, IsInjective
  <2>5. ExistsBijection(D, F) BY <2>4 DEF ExistsBijection
  <2> QED BY <1>3, <2>5, FS_Bijection
<1>8. Cardinality(D) = OtherItems(k)
  <2>1. CASE ~HasKey(table, k)
    <3>1. D = Live(table) BY <2>1 DEF HasKey, Live
    <3> QED BY <1>1, <2>1, <3>1 DEF OtherItems
  <2>2. CASE HasKey(table, k)
    <3>1. PICK e \in Live(table) : table[e].key = k BY <2>2 DEF HasKey, Live
    <3>2. D = Live(table) \ {e} BY <1>1, <1>2, <3>1 DEF Live, Shape
    <3> QED BY <1>1, <1>3, <2>2, <3>1, <3>2, FS_RemoveElement DEF OtherItems
  <2> QED BY <2>1, <2>2
<1>9. {x \in Keys \ {k} : [y \in Keys |-> Find(y)][x] # NoValue} = F OBVIOUS
<1> HIDE DEF D, F
<1> QED BY <1>7, <1>8, <1>9 DEF Map!Others, Map!Cardinality, Cardinality

\* The table's size tells whether there is room.
LEMMA SameRoom ==
    ASSUME UNCHANGED <<hash_mask, max_size>>
    PROVE  UNCHANGED <<Room, Limited>>
BY DEF Room, Limited, Threshold

Kept == Map!Next \/ UNCHANGED Map!vars

LEMMA StepKept ==
    ASSUME HashInv, MapOK, MapOK', [Next]_vars
    PROVE  Kept
<1>1. NoValue \in Values \cup {NoValue} /\ Values \subseteq Values \cup {NoValue} OBVIOUS
<1>2. \A k \in Keys : Find(k) # NoValue <=> HasKey(table, k)
  <2>1. \A k \in Keys : Find(k) # NoValue <=> \E v \in Values : Find(k) = v
    BY NoneAssumption DEF MapOK
  <2>2. \A k \in Keys : HasKey(table, k) => \E v \in Values : Holds(table, k, v)
    <3> SUFFICES ASSUME NEW k \in Keys, HasKey(table, k)
                 PROVE  \E v \in Values : Holds(table, k, v)
      OBVIOUS
    <3>1. PICK i \in DOMAIN table : table[i].live /\ table[i].key = k BY DEF HasKey
    <3>2. table[i].value \in Values BY <3>1 DEF HashInv, Table, Shape, ItemOK
    <3> QED BY <3>1, <3>2 DEF Holds
  <2>3. \A k \in Keys, v \in Values : Holds(table, k, v) => HasKey(table, k)
    BY DEF Holds, HasKey
  <2> QED BY <2>1, <2>2, <2>3 DEF MapOK
<1>3. ASSUME NEW k \in Keys, NEW v \in Values, NEW replace \in BOOLEAN,
             InsertIntoHashTable(k, v, replace)
      PROVE  Kept
  <2> DEFINE n == OtherItems(k)
  <2>1. /\ max_size' = max_size
        /\ \/ result' = TRUE /\ Sets({k}, v) /\ MadeRoom(n)
           \/ /\ result' = FALSE /\ Sets({}, NoValue) /\ hash_mask' = hash_mask
              /\ HasKey(table, k) \/ NoRoom(n)
           \/ /\ result' = FALSE /\ Sets({k}, NoValue)
              /\ HasKey(table, k) /\ NoRoom(n)
    BY <1>3, InsertStep
  <2>5. Map!Others(k) = n BY OthersAre
  <2> HIDE DEF n
  <2>6. NoRoom(n) => Map!MayBeRefused(k)
    BY <2>5 DEF NoRoom, Room, Limited, Map!MayBeRefused
  <2>2. CASE result' = TRUE /\ Sets({k}, v) /\ MadeRoom(n)
    <3>1. Map!Set({k}, v) BY <1>1, <2>2, SetsIsSet
    <3>2. ~Limited /\ IF n < Room THEN UNCHANGED <<Room, Limited>> ELSE Room' > Room
      BY <2>1, <2>2, SameRoom DEF MadeRoom
    <3>3. Limited' \in BOOLEAN BY DEF Limited
    <3>4. Map!Insert(k, v) BY <2>2, <2>5, <3>1, <3>2, <3>3 DEF Map!Insert, Room, Limited
    <3> QED BY <3>4 DEF Kept, Map!Next
  <2>3. CASE /\ result' = FALSE /\ Sets({}, NoValue) /\ hash_mask' = hash_mask
             /\ HasKey(table, k) \/ NoRoom(n)
    <3>1. Map!Set({}, NoValue) BY <1>1, <2>3, SetsIsSet
    <3>2. HasKey(table, k) => Find(k) # NoValue BY <1>2
    <3>3. UNCHANGED <<Room, Limited>> BY <2>1, <2>3, SameRoom
    <3>4. Map!InsertFails(k)
      BY <2>3, <2>6, <3>1, <3>2, <3>3 DEF Map!InsertFails, Room, Limited
    <3> QED BY <3>4 DEF Kept, Map!Next
  <2>4. CASE /\ result' = FALSE /\ Sets({k}, NoValue)
             /\ HasKey(table, k) /\ NoRoom(n)
    <3>1. Map!Set({k}, NoValue) BY <1>1, <2>4, SetsIsSet
    <3>2. Find(k) # NoValue BY <1>2, <2>4
    <3>3. UNCHANGED <<Room, Limited>> BY <2>1, <2>4, SameRoom DEF NoRoom
    <3>4. Map!ReplaceFails(k)
      BY <2>4, <2>6, <3>1, <3>2, <3>3 DEF Map!ReplaceFails, Room, Limited
    <3> QED BY <3>4 DEF Kept, Map!Next
  <2> QED BY <2>1, <2>2, <2>3, <2>4
<1>4. ASSUME NEW k \in Keys, RemoveFromHashTable(k) PROVE Kept
  <2>1. /\ Sets({k}, NoValue) /\ result' = Found(k) /\ (Found(k) <=> HasKey(table, k))
        /\ UNCHANGED <<Room, Limited>>
    BY <1>4, RemoveStep, SameRoom
  <2>2. Map!Set({k}, NoValue) BY <1>1, <2>1, SetsIsSet
  <2>3. result' = (Find(k) # NoValue)
    <3>1. Found(k) <=> Find(k) # NoValue BY <1>2, <2>1
    <3>2. Found(k) \in BOOLEAN BY DEF Found
    <3> QED BY <2>1, <3>1, <3>2
  <2>4. Map!Remove(k) BY <2>1, <2>2, <2>3 DEF Map!Remove, Room, Limited
  <2> QED BY <2>4 DEF Kept, Map!Next
<1>5. CASE ClearHashTable
  <2>1. Sets(Keys, NoValue) /\ result' = result /\ UNCHANGED <<Room, Limited>>
    BY <1>5, ClearStep, SameRoom
  <2>2. Map!Set(Keys, NoValue) BY <1>1, <2>1, SetsIsSet
  <2>3. Map!Clear BY <2>1, <2>2 DEF Map!Clear, Room, Limited
  <2> QED BY <2>3 DEF Kept, Map!Next
<1>6. CASE UNCHANGED vars
  <2>1. Sets({}, NoValue) /\ result' = result /\ UNCHANGED <<Room, Limited>>
    BY <1>6, StutterStep, SameRoom
  <2>2. Map!Set({}, NoValue) BY <1>1, <2>1, SetsIsSet
  <2>3. \A k \in Keys : Find(k)' = Find(k) BY <2>2 DEF Map!Set
  <2>4. [k \in Keys |-> Find(k)]' = [k \in Keys |-> Find(k)] BY <2>3
  <2>5. Iterate' = Iterate
    <3>1. Iterate' = {<<k, Find(k)'>> : k \in {x \in Keys : Find(x)' # NoValue}} BY DEF MapOK
    <3>2. Iterate = {<<k, Find(k)>> : k \in {x \in Keys : Find(x) # NoValue}} BY DEF MapOK
    <3> QED BY <2>3, <3>1, <3>2
  <2> QED BY <2>1, <2>4, <2>5 DEF Kept, Map!vars, Room, Limited
<1> QED BY <1>3, <1>4, <1>5, <1>6 DEF Next

\* The table is a map: what a search finds is what was put in last, iterations visit those
\* items, and every call returns what a map's would, through every displacement, shift and
\* growth and when memory is refused.  An insertion is refused only for a key that is there, at
\* the largest size, or when the table is 85% full and has to grow.
THEOREM KeepsMap == Spec => TableIsMap
<1>1. Init => Map!Init
  <2> SUFFICES ASSUME Init PROVE Map!Init
    OBVIOUS
  <2>1. HashInv /\ MapOK BY InitInv, MapIs
  <2>2. hash_mask \in Nat /\ max_probe_len \in Nat /\ table = EmptyTable(hash_mask)
    BY <2>1 DEF Init, HashInv, Table
  <2>3. \A k, v : ~Holds(table, k, v) BY <2>2, EmptyShape
  <2>4. \A k \in Keys : Find(k) = NoValue BY <2>1, <2>3 DEF MapOK
  <2>5. [k \in Keys |-> Find(k)] = [k \in Keys |-> NoValue] BY <2>4
  <2>6. Iterate = {} BY <2>1, <2>4 DEF MapOK
  <2>7. Room \in Nat /\ Limited \in BOOLEAN BY <2>2, RoomGrows DEF Room, Limited
  <2> QED BY <2>5, <2>6, <2>7 DEF Init, Map!Init, Room, Limited
<1>2. HashInv /\ MapOK /\ MapOK' /\ [Next]_vars => [Map!Next]_Map!vars
  BY StepKept DEF Kept
<1> QED BY <1>1, <1>2, HashHolds, MapIs, PTL DEF Spec, TableIsMap, Map!Spec
=============================================================================
