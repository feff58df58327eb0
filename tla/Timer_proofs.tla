---------------------------- MODULE Timer_proofs ----------------------------
(***************************************************************************)
(* Proofs about Timer.                                                     *)
(***************************************************************************)
EXTENDS Timer, Lists_proofs

-----------------------------------------------------------------------------
(* SDL_AddTimerInternal: what insertion keeps of a list.                   *)

\* r is ts with s put at n.
Inserted(r, ts, s, n) ==
    /\ Len(r) = Len(ts) + 1
    /\ \A i \in 1..Len(ts) + 1 :
          r[i] = IF i < n THEN ts[i] ELSE IF i = n THEN s ELSE ts[i - 1]

LEMMA PartsInserted ==
    ASSUME NEW S, NEW ts \in Seq(S), NEW s \in S, NEW n \in 1..Len(ts) + 1
    PROVE  LET r == SubSeq(ts, 1, n - 1) \o <<s>> \o SubSeq(ts, n, Len(ts))
           IN  r \in Seq(S) /\ Inserted(r, ts, s, n)
<1> DEFINE a == SubSeq(ts, 1, n - 1)
           b == SubSeq(ts, n, Len(ts))
           c == a \o <<s>>
<1>1. Len(ts) \in Nat BY LenProperties
<1>2. /\ a \in Seq(S) /\ Len(a) = n - 1
      /\ \A i \in 1..n - 1 : a[i] = ts[i]
  <2>1. \A i \in 1..n - 1 : ts[i] \in S BY <1>1, ElementOfSeq
  <2>2. 1 \in Int /\ n - 1 \in Int BY <1>1
  <2>3. /\ a \in Seq(S) /\ Len(a) = IF 1 <= n - 1 THEN (n - 1) - 1 + 1 ELSE 0
        /\ \A i \in 1..(n - 1) - 1 + 1 : a[i] = ts[1 + i - 1]
    BY <2>1, <2>2, SubSeqProperties
  <2> QED BY <2>3, <1>1
<1>3. /\ b \in Seq(S) /\ Len(b) = Len(ts) - n + 1
      /\ \A i \in 1..Len(ts) - n + 1 : b[i] = ts[n + i - 1]
  <2>1. \A i \in n..Len(ts) : ts[i] \in S BY <1>1, ElementOfSeq
  <2>2. n \in Int /\ Len(ts) \in Int BY <1>1
  <2>3. /\ b \in Seq(S) /\ Len(b) = IF n <= Len(ts) THEN Len(ts) - n + 1 ELSE 0
        /\ \A i \in 1..Len(ts) - n + 1 : b[i] = ts[n + i - 1]
    BY <2>1, <2>2, SubSeqProperties
  <2> QED BY <2>3, <1>1
<1> HIDE DEF a, b
<1>4. <<s>> \in Seq(S) /\ Len(<<s>>) = 1 /\ <<s>>[1] = s BY SingletonIn
<1>5. /\ c \in Seq(S) /\ Len(c) = n
      /\ \A i \in 1..n : c[i] = IF i < n THEN ts[i] ELSE s
  <2>1. /\ c \in Seq(S) /\ Len(c) = Len(a) + Len(<<s>>)
        /\ \A i \in 1..Len(a) + Len(<<s>>) :
              c[i] = IF i <= Len(a) THEN a[i] ELSE <<s>>[i - Len(a)]
    BY <1>2, <1>4, ConcatProperties
  <2>2. ASSUME NEW i \in 1..n, i < n PROVE c[i] = ts[i] BY <2>1, <2>2, <1>1, <1>2, <1>4
  <2>3. c[n] = s BY <2>1, <1>1, <1>2, <1>4
  <2> QED BY <2>1, <2>2, <2>3, <1>1, <1>2, <1>4
<1> HIDE DEF c
<1> DEFINE r == c \o b
<1>6. /\ r \in Seq(S) /\ Len(r) = Len(c) + Len(b)
      /\ \A i \in 1..Len(c) + Len(b) : r[i] = IF i <= Len(c) THEN c[i] ELSE b[i - Len(c)]
  BY <1>5, <1>3, ConcatProperties
<1> HIDE DEF r
<1>7. Len(c) + Len(b) = Len(ts) + 1 BY <1>1, <1>3, <1>5
<1>8. ASSUME NEW i \in 1..Len(ts) + 1, i > n PROVE r[i] = ts[i - 1]
  <2>1. i - n \in 1..Len(ts) - n + 1 /\ n + (i - n) - 1 = i - 1 BY <1>8, <1>1
  <2>2. b[i - n] = ts[i - 1] BY <2>1, <1>3
  <2> QED BY <2>2, <1>8, <1>6, <1>7, <1>5, <1>1
<1>9. ASSUME NEW i \in 1..Len(ts) + 1, i <= n PROVE r[i] = IF i < n THEN ts[i] ELSE s
  BY <1>9, <1>6, <1>7, <1>5, <1>1
<1>10. Inserted(r, ts, s, n) BY <1>6, <1>7, <1>8, <1>9, <1>1 DEF Inserted
<1> QED BY <1>6, <1>10 DEF r, c, a, b

LEMMA InsertedIn ==
    ASSUME NEW S, NEW ts \in Seq(S), NEW s \in S, NEW n \in 1..Len(ts) + 1,
           NEW r \in Seq(S), Inserted(r, ts, s, n)
    PROVE  /\ \A x : InSeq(r, x) <=> InSeq(ts, x) \/ x = s
           /\ Once(ts) /\ ~InSeq(ts, s) => Once(r)
<1>1. Len(ts) \in Nat BY LenProperties
<1>2. ASSUME NEW x, InSeq(r, x), x # s PROVE InSeq(ts, x)
  <2>1. PICK i \in 1..Len(ts) + 1 : r[i] = x BY <1>2 DEF InSeq, Inserted
  <2>2. CASE i < n
    <3>1. i \in 1..Len(ts) /\ ts[i] = x BY <2>1, <2>2, <1>1 DEF Inserted
    <3> QED BY <3>1 DEF InSeq
  <2>3. CASE i > n
    <3>1. i - 1 \in 1..Len(ts) /\ ts[i - 1] = x BY <2>1, <2>3, <1>1 DEF Inserted
    <3> QED BY <3>1 DEF InSeq
  <2>4. i # n BY <2>1, <1>2 DEF Inserted
  <2> QED BY <2>2, <2>3, <2>4, <1>1
<1>3. ASSUME NEW x, InSeq(ts, x) PROVE InSeq(r, x)
  <2>1. PICK i \in 1..Len(ts) : ts[i] = x BY <1>3 DEF InSeq
  <2>2. CASE i < n
    <3>1. i \in 1..Len(ts) + 1 /\ r[i] = x BY <2>1, <2>2, <1>1 DEF Inserted
    <3> QED BY <3>1 DEF InSeq, Inserted
  <2>3. CASE i >= n
    <3> DEFINE j == i + 1
    <3>1. j \in 1..Len(ts) + 1 /\ j > n /\ j - 1 = i BY <2>3, <1>1
    <3>2. r[j] = x BY <3>1, <2>1, <1>1 DEF Inserted
    <3> QED BY <3>1, <3>2 DEF InSeq, Inserted
  <2> QED BY <2>2, <2>3, <1>1
<1>4. InSeq(r, s)
  <2>1. r[n] = s BY <1>1 DEF Inserted
  <2> QED BY <2>1 DEF InSeq, Inserted
<1>5. ASSUME Once(ts), ~InSeq(ts, s) PROVE Once(r)
  <2>1. SUFFICES ASSUME NEW i \in 1..Len(ts) + 1, NEW j \in 1..Len(ts) + 1, r[i] = r[j]
                 PROVE  i = j
    BY DEF Once, Inserted
  <2> DEFINE At(k) == IF k < n THEN k ELSE k - 1
  <2>2. ASSUME NEW k \in 1..Len(ts) + 1, k # n
        PROVE  At(k) \in 1..Len(ts) /\ r[k] = ts[At(k)]
    BY <2>2, <1>1 DEF Inserted
  <2>3. ASSUME NEW k \in 1..Len(ts) + 1, k # n PROVE r[k] # s
    BY <2>2, <2>3, <1>5 DEF InSeq
  <2>4. r[n] = s BY <1>1 DEF Inserted
  <2>5. CASE i = n \/ j = n BY <2>1, <2>3, <2>4, <2>5
  <2>6. CASE i # n /\ j # n
    <3>1. At(i) \in 1..Len(ts) /\ At(j) \in 1..Len(ts) /\ ts[At(i)] = ts[At(j)]
      BY <2>1, <2>2, <2>6
    <3> HIDE DEF At
    <3>2. At(i) = At(j) BY <3>1, <1>5 DEF Once
    <3> USE DEF At
    <3> QED BY <3>2, <2>6, <1>1
  <2> QED BY <2>5, <2>6
<1> QED BY <1>2, <1>3, <1>4, <1>5

\* The list is in the order of at.
Sorted(ts, at) == \A i, j \in 1..Len(ts) : i < j => at[ts[i]] <= at[ts[j]]

\* AddSorted inserts, before the first that comes later.
LEMMA AddSortedInserts ==
    ASSUME NEW S, NEW ts \in Seq(S), NEW s \in S, NEW at \in [S -> Nat]
    PROVE  \E n \in 1..Len(ts) + 1 :
              /\ AddSorted(ts, s, at) \in Seq(S)
              /\ Inserted(AddSorted(ts, s, at), ts, s, n)
              /\ \A i \in 1..Len(ts) : i < n => at[ts[i]] <= at[s]
              /\ n <= Len(ts) => at[ts[n]] > at[s]
<1> DEFINE later == {i \in DOMAIN ts : at[ts[i]] > at[s]}
           n == IF later = {} THEN Len(ts) + 1
                ELSE CHOOSE i \in later : \A j \in later : i <= j
<1>1. Len(ts) \in Nat /\ DOMAIN ts = 1..Len(ts) BY LenProperties
<1>2. \A i \in 1..Len(ts) : at[ts[i]] \in Nat /\ at[s] \in Nat BY ElementOfSeq
<1>3. /\ n \in 1..Len(ts) + 1
      /\ \A i \in 1..Len(ts) : i < n => i \notin later
      /\ n <= Len(ts) => n \in later
  <2>1. CASE later = {} BY SMTT(30), <2>1, <1>1
  <2>2. CASE later # {}
    <3>1. later \in SUBSET Nat BY <1>1
    <3> HIDE DEF later
    <3>2. \E i \in later : \A j \in later : i <= j BY <2>2, <3>1, NatMin
    <3>3. n \in later /\ \A j \in later : n <= j BY <2>2, <3>2
    <3> HIDE DEF n
    <3> USE DEF later
    <3>4. n \in 1..Len(ts) BY <3>3, <1>1
    <3> QED BY SMTT(30), <3>3, <3>4, <1>1
  <2> QED BY <2>1, <2>2
<1>4. AddSorted(ts, s, at) = SubSeq(ts, 1, n - 1) \o <<s>> \o SubSeq(ts, n, Len(ts))
  BY DEF AddSorted
<1> HIDE DEF n
<1>5. AddSorted(ts, s, at) \in Seq(S) /\ Inserted(AddSorted(ts, s, at), ts, s, n)
  BY <1>3, <1>4, PartsInserted
<1>6. \A i \in 1..Len(ts) : i < n => at[ts[i]] <= at[s] BY <1>1, <1>2, <1>3
<1>7. n <= Len(ts) => at[ts[n]] > at[s] BY <1>3
<1> QED BY <1>3, <1>5, <1>6, <1>7

\* So the list stays without repetition, and sorted.
LEMMA AddSortedKeeps ==
    ASSUME NEW S, NEW ts \in Seq(S), NEW s \in S, NEW at \in [S -> Nat]
    PROVE  /\ AddSorted(ts, s, at) \in Seq(S)
           /\ \A x : InSeq(AddSorted(ts, s, at), x) <=> InSeq(ts, x) \/ x = s
           /\ Once(ts) /\ ~InSeq(ts, s) => Once(AddSorted(ts, s, at))
           /\ Sorted(ts, at) => Sorted(AddSorted(ts, s, at), at)
<1> DEFINE r == AddSorted(ts, s, at)
<1>1. PICK n \in 1..Len(ts) + 1 :
         /\ r \in Seq(S) /\ Inserted(r, ts, s, n)
         /\ \A i \in 1..Len(ts) : i < n => at[ts[i]] <= at[s]
         /\ n <= Len(ts) => at[ts[n]] > at[s]
  BY AddSortedInserts
<1> HIDE DEF r
<1>2. Len(ts) \in Nat BY LenProperties
<1>3. \A i \in 1..Len(ts) : at[ts[i]] \in Nat /\ at[s] \in Nat BY ElementOfSeq
<1>4. ASSUME Sorted(ts, at) PROVE Sorted(r, at)
  <2>1. \A i \in 1..Len(ts) : i >= n => at[s] <= at[ts[i]]
    <3> SUFFICES ASSUME NEW i \in 1..Len(ts), i >= n PROVE at[s] <= at[ts[i]]
      OBVIOUS
    <3>1. n \in 1..Len(ts) BY <1>2
    <3>2. at[ts[n]] > at[s] BY <3>1, <1>1
    <3>3. at[ts[n]] <= at[ts[i]] BY <3>1, <1>3, <1>4 DEF Sorted
    <3> QED BY <3>1, <3>2, <3>3, <1>3
  <2>2. SUFFICES ASSUME NEW i \in 1..Len(ts) + 1, NEW j \in 1..Len(ts) + 1, i < j
                 PROVE  at[r[i]] <= at[r[j]]
    BY <1>1 DEF Sorted, Inserted
  <2>3. /\ r[i] = IF i < n THEN ts[i] ELSE IF i = n THEN s ELSE ts[i - 1]
        /\ r[j] = IF j < n THEN ts[j] ELSE IF j = n THEN s ELSE ts[j - 1]
    BY <1>1 DEF Inserted
  <2>4. CASE j < n
    <3>1. i \in 1..Len(ts) /\ j \in 1..Len(ts) BY <2>2, <2>4, <1>2
    <3> QED BY <3>1, <2>2, <2>3, <2>4, <1>4 DEF Sorted
  <2>5. CASE j = n
    <3>1. i \in 1..Len(ts) /\ i < n BY <2>2, <2>5, <1>2
    <3> QED BY <3>1, <2>3, <2>5, <1>1
  <2>6. CASE j > n /\ i < n
    <3>1. i \in 1..Len(ts) /\ j - 1 \in 1..Len(ts) /\ i < j - 1 BY <2>2, <2>6, <1>2
    <3>2. at[ts[i]] <= at[ts[j - 1]] BY <3>1, <1>4 DEF Sorted
    <3> QED BY <3>2, <2>3, <2>6
  <2>7. CASE j > n /\ i = n
    <3>1. j - 1 \in 1..Len(ts) /\ j - 1 >= n BY <2>2, <2>7, <1>2
    <3> QED BY <3>1, <2>1, <2>3, <2>7
  <2>8. CASE j > n /\ i > n
    <3>1. i - 1 \in 1..Len(ts) /\ j - 1 \in 1..Len(ts) /\ i - 1 < j - 1 BY <2>2, <2>8, <1>2
    <3>2. at[ts[i - 1]] <= at[ts[j - 1]] BY <3>1, <1>4 DEF Sorted
    <3> QED BY SMTT(30), <3>2, <2>3, <2>8
  <2> QED BY <2>4, <2>5, <2>6, <2>7, <2>8, <1>2
<1>5. /\ \A x : InSeq(r, x) <=> InSeq(ts, x) \/ x = s
      /\ Once(ts) /\ ~InSeq(ts, s) => Once(r)
  BY <1>1, InsertedIn
<1> QED BY <1>1, <1>4, <1>5 DEF r

-----------------------------------------------------------------------------
(* The pending timers, sorted in one after the other.                      *)

\* The first k pending timers have been sorted in by f.
Adding(f, k) ==
    f = [n \in 0..k |-> IF n = 0 THEN timers ELSE AddSorted(f[n - 1], pending[n], scheduled)]

LEMMA AddingExists ==
    ASSUME NEW k \in Nat
    PROVE  \E f : Adding(f, k)
<1> DEFINE S == {n \in Nat : \E f : Adding(f, n)}
<1>1. 0 \in S
  <2> DEFINE f == [n \in 0..0 |-> timers]
  <2>1. Adding(f, 0) BY DEF Adding
  <2> QED BY <2>1
<1>2. ASSUME NEW n \in S PROVE n + 1 \in S
  <2>1. PICK f : Adding(f, n) OBVIOUS
  <2> DEFINE g == [m \in 0..n + 1 |->
                     IF m = n + 1 THEN AddSorted(f[n], pending[n + 1], scheduled) ELSE f[m]]
             h == [m \in 0..n + 1 |->
                     IF m = 0 THEN timers ELSE AddSorted(g[m - 1], pending[m], scheduled)]
  <2>2. ASSUME NEW m \in 0..n + 1 PROVE g[m] = h[m]
    <3>1. CASE m = 0
      <4>1. g[0] = f[0] /\ h[0] = timers OBVIOUS
      <4>2. f[0] = timers BY <2>1 DEF Adding
      <4> QED BY <3>1, <4>1, <4>2
    <3>2. CASE m = n + 1
      <4>1. g[n] = f[n] OBVIOUS
      <4>2. g[n + 1] = AddSorted(f[n], pending[n + 1], scheduled) OBVIOUS
      <4>3. h[n + 1] = AddSorted(g[n + 1 - 1], pending[n + 1], scheduled) OBVIOUS
      <4>4. n + 1 - 1 = n OBVIOUS
      <4> QED BY <3>2, <4>1, <4>2, <4>3, <4>4
    <3>3. CASE m \in 1..n
      <4>1. g[m] = f[m] /\ g[m - 1] = f[m - 1] BY <3>3
      <4>2. h[m] = AddSorted(g[m - 1], pending[m], scheduled) BY <3>3
      <4>3. f[m] = AddSorted(f[m - 1], pending[m], scheduled) BY <2>1, <3>3 DEF Adding
      <4> QED BY <4>1, <4>2, <4>3
    <3> QED BY <3>1, <3>2, <3>3
  <2>3. g = h BY <2>2
  <2>4. Adding(g, n + 1) BY <2>3 DEF Adding
  <2> HIDE DEF g
  <2> QED BY <2>4
<1> HIDE DEF S
<1>3. S \in SUBSET Nat BY DEF S
<1>4. S = Nat BY <1>1, <1>2, <1>3, NatInd
<1> QED BY <1>4 DEF S

LEMMA AddPendingAdds ==
    ASSUME pending \in Seq(Structs)
    PROVE  \E f : Adding(f, Len(pending)) /\ AddPending = f[Len(pending)]
<1>1. Len(pending) \in Nat BY LenProperties
<1> DEFINE add == CHOOSE f : Adding(f, Len(pending))
<1>2. Adding(add, Len(pending)) BY <1>1, AddingExists
<1>3. AddPending = add[Len(pending)] BY DEF AddPending, Adding
<1> QED BY <1>2, <1>3

LEMMA AddPendingKeeps ==
    ASSUME pending \in Seq(Structs), timers \in Seq(Structs), scheduled \in [Structs -> Nat]
    PROVE  /\ AddPending \in Seq(Structs)
           /\ \A x : InSeq(AddPending, x) <=> InSeq(timers, x) \/ InSeq(pending, x)
           /\ /\ Once(timers) /\ Once(pending)
              /\ \A x \in Structs : ~(InSeq(timers, x) /\ InSeq(pending, x))
              => Once(AddPending)
           /\ Sorted(timers, scheduled) => Sorted(AddPending, scheduled)
<1> DEFINE k == Len(pending)
           Alone == /\ Once(timers) /\ Once(pending)
                    /\ \A x \in Structs : ~(InSeq(timers, x) /\ InSeq(pending, x))
           First(n, x) == \E i \in 1..n : pending[i] = x
<1>1. k \in Nat BY LenProperties
<1>2. PICK f : Adding(f, k) /\ AddPending = f[k] BY AddPendingAdds
<1> DEFINE Good(n) == /\ f[n] \in Seq(Structs)
                      /\ \A x : InSeq(f[n], x) <=> InSeq(timers, x) \/ First(n, x)
                      /\ Alone => Once(f[n])
                      /\ Sorted(timers, scheduled) => Sorted(f[n], scheduled)
           S == {n \in Nat : n <= k => Good(n)}
<1> HIDE DEF k
<1>3. 0 \in S
  <2>1. f[0] = timers BY <1>1, <1>2 DEF Adding
  <2>2. \A x : ~First(0, x) OBVIOUS
  <2> HIDE DEF First
  <2> QED BY <2>1, <2>2
<1>4. ASSUME NEW n \in S PROVE n + 1 \in S
  <2> SUFFICES ASSUME n + 1 <= k PROVE Good(n + 1)
    OBVIOUS
  <2> DEFINE p == pending[n + 1]
             ts == f[n]
  <2>1. Good(n) BY <1>1
  <2>2. n + 1 \in 1..k /\ n + 1 - 1 = n /\ n + 1 # 0 BY <1>1
  <2>3. f[n + 1] = AddSorted(ts, p, scheduled) BY <1>1, <1>2, <2>2 DEF Adding
  <2>4. p \in Structs BY <2>2, ElementOfSeq DEF k
  <2>5. ts \in Seq(Structs) BY <2>1
  <2>6. \A x : First(n + 1, x) <=> First(n, x) \/ x = p
    <3>1. \A i : i \in 1..n + 1 <=> i \in 1..n \/ i = n + 1 OBVIOUS
    <3> QED BY <3>1
  <2>7. ASSUME Alone PROVE ~InSeq(ts, p)
    <3>1. InSeq(pending, p) BY <2>2 DEF InSeq, k
    <3>2. ~InSeq(timers, p) BY <3>1, <2>4, <2>7
    <3>3. ~First(n, p)
      <4> SUFFICES ASSUME NEW i \in 1..n, pending[i] = p PROVE FALSE
        OBVIOUS
      <4>1. i \in 1..k /\ i # n + 1 BY <1>1
      <4> QED BY <4>1, <2>2, <2>7 DEF Once, k
    <3> QED BY <3>2, <3>3, <2>1
  <2>8. /\ Alone => Once(ts)
        /\ Sorted(timers, scheduled) => Sorted(ts, scheduled)
        /\ \A x : InSeq(ts, x) <=> InSeq(timers, x) \/ First(n, x)
    BY <2>1
  <2> HIDE DEF p, ts, First, Alone
  <2>9. /\ AddSorted(ts, p, scheduled) \in Seq(Structs)
        /\ \A x : InSeq(AddSorted(ts, p, scheduled), x) <=> InSeq(ts, x) \/ x = p
        /\ Once(ts) /\ ~InSeq(ts, p) => Once(AddSorted(ts, p, scheduled))
        /\ Sorted(ts, scheduled) => Sorted(AddSorted(ts, p, scheduled), scheduled)
    BY <2>4, <2>5, AddSortedKeeps
  <2> QED BY <2>3, <2>6, <2>7, <2>8, <2>9
<1>5. S = Nat
  <2>1. S \in SUBSET Nat OBVIOUS
  <2> HIDE DEF S
  <2> QED BY <1>3, <1>4, <2>1, NatInd
<1>6. Good(k)
  <2> HIDE DEF S, Good
  <2>1. k \in S BY <1>1, <1>5
  <2> USE DEF S
  <2>2. k <= k BY <1>1
  <2> QED BY <2>1, <2>2
<1>7. \A x : First(k, x) <=> InSeq(pending, x) BY DEF InSeq, k
<1> QED BY <1>2, <1>6, <1>7

-----------------------------------------------------------------------------
(* Who holds what, and under which ids.                                    *)

\* TypeOK without the bound on the lengths of the lists.
Loose ==
    /\ init \in {"UNINITIALIZED", "INITIALIZED", "UNINITIALIZING"}
    /\ active \in BOOLEAN /\ sem \in Nat
    /\ pending \in Seq(Structs) /\ freelist \in Seq(Structs) /\ timers \in Seq(Structs)
    /\ timerID \in [Structs -> Ids \cup {NoId}]
    /\ scheduled \in [Structs -> Nat]
    /\ canceled \in [Structs -> BOOLEAN]
    /\ entry \in [Ids -> {"none", "mapped", "taken", "freed"}]
    /\ owner \in [Ids -> Structs \cup {NoStruct}]
    /\ allocated \subseteq Structs /\ lastId \in Ids \cup {NoId}
    /\ tpc \in ThreadStates /\ tick \in Nat /\ wakeAt \in Nat
    /\ current \in Structs \cup {NoStruct} /\ unused \in Seq(Structs)
    /\ cpc \in [Callers -> CallStates]
    /\ ctimer \in [Callers -> Structs \cup {NoStruct}]
    /\ cid \in [Callers -> Ids \cup {NoId}] /\ rid \in [Callers -> Ids \cup {NoId}]
    /\ now \in 0..MaxNow
    /\ known \subseteq Ids /\ removed \subseteq Ids

\* What a caller has in its hands where it is.
CallerOK(c) ==
    /\ cpc[c] \in {"idle", "init", "fail", "pop", "signal", "return", "quit", "join", "cleanup"}
          => ctimer[c] = NoStruct
    /\ cpc[c] \in {"fill", "map", "pend"} => ctimer[c] \in Structs
    /\ cpc[c] \in {"map", "pend", "signal", "return"} => cid[c] \in Ids
    /\ cpc[c] \in {"find", "check", "cancel"} => rid[c] \in Ids

ThreadOK ==
    /\ tpc \in {"check", "callback"} <=> current # NoStruct
    /\ init = "UNINITIALIZED" => tpc = "off"

\* The timer has been filled in.
Filled(s) ==
    \/ InSeq(pending, s) \/ InSeq(freelist, s) \/ InSeq(timers, s) \/ InSeq(unused, s)
    \/ current = s
    \/ \E c \in Callers : ctimer[c] = s /\ cpc[c] \in {"map", "pend"}

Numbered == \A s \in Structs : Filled(s) => timerID[s] \in Ids

IdsLeft == lastId + Cardinality(Awaiting) <= MaxId

Shape == Loose /\ (\A c \in Callers : CallerOK(c)) /\ ThreadOK /\ Numbered /\ IdsLeft

LEMMA AwaitingFinite == IsFiniteSet(Awaiting) /\ Cardinality(Awaiting) \in Nat
<1>1. IsFiniteSet(Callers) BY CallersAssumption, FS_AddElement DEF Callers
<1>2. Awaiting \in SUBSET Callers BY DEF Awaiting
<1>3. IsFiniteSet(Awaiting) BY <1>1, <1>2, FS_Subset
<1> QED BY <1>3, FS_CardinalityType

\* The ids left after a step: it lets nobody in, or the caller c, or gives c its id.
LEMMA IdsLeftKept ==
    ASSUME Shape, lastId' = lastId, Awaiting' \subseteq Awaiting
    PROVE  IdsLeft'
<1>1. Awaiting' \in SUBSET Awaiting OBVIOUS
<1>2. Cardinality(Awaiting') <= Cardinality(Awaiting) BY <1>1, AwaitingFinite, FS_Subset
<1>3. IsFiniteSet(Awaiting') BY <1>1, AwaitingFinite, FS_Subset
<1>4. Cardinality(Awaiting') \in Nat BY <1>3, FS_CardinalityType
<1>5. lastId \in Int /\ MaxId \in Int BY BoundsAssumption DEF Shape, Loose, Ids, NoId
<1> QED BY <1>2, <1>4, <1>5, AwaitingFinite DEF Shape, IdsLeft

LEMMA IdsLeftEnter ==
    ASSUME Shape, NEW c \in Callers, lastId' = lastId, lastId + Cardinality(Awaiting) < MaxId,
           Awaiting' \subseteq Awaiting \cup {c}
    PROVE  IdsLeft'
<1>1. Awaiting' \in SUBSET (Awaiting \cup {c}) OBVIOUS
<1>2. /\ IsFiniteSet(Awaiting \cup {c})
      /\ Cardinality(Awaiting \cup {c}) = IF c \in Awaiting THEN Cardinality(Awaiting)
                                                            ELSE Cardinality(Awaiting) + 1
  BY AwaitingFinite, FS_AddElement
<1>3. IsFiniteSet(Awaiting') /\ Cardinality(Awaiting') <= Cardinality(Awaiting \cup {c})
  BY <1>1, <1>2, FS_Subset
<1>4. Cardinality(Awaiting') \in Nat BY <1>3, FS_CardinalityType
<1>5. lastId \in Int /\ MaxId \in Int BY BoundsAssumption DEF Shape, Loose, Ids, NoId
<1> QED BY <1>2, <1>3, <1>4, <1>5, AwaitingFinite DEF IdsLeft

LEMMA IdsLeftTaken ==
    ASSUME Shape, NEW c \in Awaiting
    PROVE  /\ lastId + 1 \in Ids
           /\ lastId' = lastId + 1 /\ Awaiting' \subseteq Awaiting \ {c} => IdsLeft'
<1>1. /\ IsFiniteSet(Awaiting \ {c})
      /\ Cardinality(Awaiting \ {c}) = Cardinality(Awaiting) - 1
  BY AwaitingFinite, FS_RemoveElement
<1>2. Cardinality(Awaiting \ {c}) \in Nat BY <1>1, FS_CardinalityType
<1>3. lastId \in Nat /\ MaxId \in Nat BY BoundsAssumption DEF Shape, Loose, Ids, NoId
<1>4. lastId + 1 \in Ids BY <1>1, <1>2, <1>3, AwaitingFinite DEF Shape, IdsLeft, Ids
<1>5. ASSUME lastId' = lastId + 1, Awaiting' \subseteq Awaiting \ {c} PROVE IdsLeft'
  <2>1. Awaiting' \in SUBSET (Awaiting \ {c}) BY <1>5
  <2>2. IsFiniteSet(Awaiting') /\ Cardinality(Awaiting') <= Cardinality(Awaiting \ {c})
    BY <2>1, <1>1, FS_Subset
  <2>3. Cardinality(Awaiting') \in Nat BY <2>2, FS_CardinalityType
  <2> QED BY <2>2, <2>3, <1>1, <1>2, <1>3, <1>5, AwaitingFinite DEF Shape, IdsLeft
<1> QED BY <1>4, <1>5

LEMMA InitShape == Init => Shape
<1> SUFFICES ASSUME Init PROVE Shape
  OBVIOUS
<1>1. <<>> \in Seq(Structs) BY EmptySeq
<1>2. Loose
  <2>1. /\ init \in {"UNINITIALIZED", "INITIALIZED", "UNINITIALIZING"}
        /\ active \in BOOLEAN /\ lastId \in Ids \cup {NoId}
    BY DEF Init
  <2>6. sem \in Nat /\ tick \in Nat /\ wakeAt \in Nat /\ now \in 0..MaxNow
    <3>1. sem = 0 /\ tick = 0 /\ wakeAt = 0 /\ now = 0 BY DEF Init
    <3> QED BY <3>1, BoundsAssumption
  <2>2. /\ pending \in Seq(Structs) /\ freelist \in Seq(Structs) /\ timers \in Seq(Structs)
        /\ unused \in Seq(Structs)
    BY <1>1 DEF Init
  <2>3. /\ timerID \in [Structs -> Ids \cup {NoId}]
        /\ scheduled \in [Structs -> Nat]
        /\ canceled \in [Structs -> BOOLEAN]
        /\ entry \in [Ids -> {"none", "mapped", "taken", "freed"}]
        /\ owner \in [Ids -> Structs \cup {NoStruct}]
    BY DEF Init
  <2>4. /\ allocated \subseteq Structs /\ current \in Structs \cup {NoStruct}
        /\ tpc \in ThreadStates
        /\ known \subseteq Ids /\ removed \subseteq Ids
    BY DEF Init, ThreadStates
  <2>5. /\ cpc \in [Callers -> CallStates]
        /\ ctimer \in [Callers -> Structs \cup {NoStruct}]
        /\ cid \in [Callers -> Ids \cup {NoId}] /\ rid \in [Callers -> Ids \cup {NoId}]
    BY DEF Init, CallStates
  <2> QED BY <2>1, <2>2, <2>3, <2>4, <2>5, <2>6 DEF Loose
<1>3. (\A c \in Callers : CallerOK(c)) /\ ThreadOK BY DEF Init, CallerOK, ThreadOK
<1>4. Numbered
  <2> SUFFICES ASSUME NEW s \in Structs, Filled(s) PROVE FALSE
    BY DEF Numbered
  <2> QED BY NothingInEmpty, StructsAssumption DEF Init, Filled
<1>5. IdsLeft
  <2>1. Awaiting = {} BY DEF Init, Awaiting
  <2> QED BY <2>1, FS_EmptySet, BoundsAssumption DEF Init, IdsLeft, NoId
<1> QED BY <1>2, <1>3, <1>4, <1>5 DEF Shape

\* The lists, the ids and what the timer thread processes stay.
ListsStay == UNCHANGED <<pending, freelist, timers, unused, current, timerID>>

LEMMA NumberedKept ==
    ASSUME Shape, ListsStay,
           \A c \in Callers : cpc'[c] \in {"map", "pend"} /\ ctimer'[c] \in Structs
                              => cpc[c] \in {"map", "pend"} /\ ctimer'[c] = ctimer[c]
    PROVE  Numbered'
<1> SUFFICES ASSUME NEW s \in Structs, Filled(s)' PROVE timerID'[s] \in Ids
  BY DEF Numbered
<1>1. Filled(s) BY DEF Filled, ListsStay
<1> QED BY <1>1 DEF Shape, Numbered, ListsStay

-----------------------------------------------------------------------------
(* No step changes that: the steps that leave the lists alone.             *)

USE DEF dataVars, timerVars, entryVars, heapVars, threadVars, callVars, historyVars

LEMMA AddTimerShape ==
    ASSUME Shape, NEW c \in Callers, AddTimer(c)
    PROVE  Shape'
<1>1. Loose'
  BY BoundsAssumption DEF Shape, Loose, CallerOK, AddTimer, CanCall, CallStates, ThreadStates
<1>2. \A d \in Callers : CallerOK(d)'
  BY StructsAssumption DEF Shape, Loose, CallerOK, AddTimer, CanCall
<1>3. ThreadOK'
  BY DEF Shape, ThreadOK, AddTimer, CanCall
<1>4. Numbered'
  <2>1. ListsStay BY DEF AddTimer, ListsStay
  <2>2. \A d \in Callers : cpc'[d] \in {"map", "pend"} /\ ctimer'[d] \in Structs
           => cpc[d] \in {"map", "pend"} /\ ctimer'[d] = ctimer[d]
    BY DEF Shape, Loose, AddTimer, CanCall
  <2> QED BY <2>1, <2>2, NumberedKept
<1>5. IdsLeft'
  <2>1. Awaiting' \subseteq Awaiting \cup {c} /\ lastId' = lastId
    BY DEF Shape, Loose, AddTimer, Awaiting
  <2> QED BY <2>1, IdsLeftEnter DEF AddTimer
<1> QED BY <1>1, <1>2, <1>3, <1>4, <1>5 DEF Shape

LEMMA SignalThreadShape ==
    ASSUME Shape, NEW c \in Callers, SignalThread(c)
    PROVE  Shape'
<1>1. Loose'
  BY BoundsAssumption DEF Shape, Loose, CallerOK, SignalThread, Signal, CallStates, ThreadStates
<1>2. \A d \in Callers : CallerOK(d)'
  BY StructsAssumption DEF Shape, Loose, CallerOK, SignalThread, Signal
<1>3. ThreadOK'
  BY DEF Shape, ThreadOK, SignalThread, Signal
<1>4. Numbered'
  <2>1. ListsStay BY DEF SignalThread, ListsStay
  <2>2. \A d \in Callers : cpc'[d] \in {"map", "pend"} /\ ctimer'[d] \in Structs
           => cpc[d] \in {"map", "pend"} /\ ctimer'[d] = ctimer[d]
    BY DEF Shape, Loose, SignalThread, Signal
  <2> QED BY <2>1, <2>2, NumberedKept
<1>5. IdsLeft'
  <2>1. Awaiting' \subseteq Awaiting /\ lastId' = lastId
    BY DEF Shape, Loose, CallerOK, SignalThread, Signal, Awaiting
  <2> QED BY <2>1, IdsLeftKept
<1> QED BY <1>1, <1>2, <1>3, <1>4, <1>5 DEF Shape

LEMMA ReturnShape ==
    ASSUME Shape, NEW c \in Callers, Return(c)
    PROVE  Shape'
<1>1. Loose'
  BY BoundsAssumption DEF Shape, Loose, CallerOK, Return, CallStates, ThreadStates
<1>2. \A d \in Callers : CallerOK(d)'
  BY StructsAssumption DEF Shape, Loose, CallerOK, Return
<1>3. ThreadOK'
  BY DEF Shape, ThreadOK, Return
<1>4. Numbered'
  <2>1. ListsStay BY DEF Return, ListsStay
  <2>2. \A d \in Callers : cpc'[d] \in {"map", "pend"} /\ ctimer'[d] \in Structs
           => cpc[d] \in {"map", "pend"} /\ ctimer'[d] = ctimer[d]
    BY DEF Shape, Loose, Return
  <2> QED BY <2>1, <2>2, NumberedKept
<1>5. IdsLeft'
  <2>1. Awaiting' \subseteq Awaiting /\ lastId' = lastId
    BY DEF Shape, Loose, CallerOK, Return, Awaiting
  <2> QED BY <2>1, IdsLeftKept
<1> QED BY <1>1, <1>2, <1>3, <1>4, <1>5 DEF Shape

LEMMA CheckInitShape ==
    ASSUME Shape, NEW c \in Callers, CheckInit(c)
    PROVE  Shape'
<1>1. Loose'
  <2>1. cpc' \in [Callers -> CallStates] BY DEF Shape, Loose, CheckInit, CallStates
  <2>2. /\ init' \in {"UNINITIALIZED", "INITIALIZED", "UNINITIALIZING"}
        /\ sem' \in Nat
    <3>1. init' = init \/ init' = "INITIALIZED" BY Zenon DEF CheckInit
    <3>2. sem' = sem \/ sem' = 0 BY Zenon DEF CheckInit
    <3> QED BY <3>1, <3>2 DEF Shape, Loose
  <2>4. active' \in BOOLEAN
    <3>1. active' = active \/ active' = TRUE BY Zenon DEF CheckInit
    <3> QED BY <3>1 DEF Shape, Loose
  <2>3. tpc' \in ThreadStates BY DEF Shape, Loose, CheckInit, ThreadStates
  <2> QED BY <2>1, <2>2, <2>3, <2>4 DEF Shape, Loose, CheckInit
<1>2. \A d \in Callers : CallerOK(d)'
  BY StructsAssumption DEF Shape, Loose, CallerOK, CheckInit
<1>3. ThreadOK'
  BY DEF Shape, ThreadOK, CheckInit
<1>4. Numbered'
  <2>1. ListsStay BY DEF CheckInit, ListsStay
  <2>2. \A d \in Callers : cpc'[d] \in {"map", "pend"} /\ ctimer'[d] \in Structs
           => cpc[d] \in {"map", "pend"} /\ ctimer'[d] = ctimer[d]
    BY DEF Shape, Loose, CheckInit
  <2> QED BY <2>1, <2>2, NumberedKept
<1>5. IdsLeft'
  <2>1. Awaiting' \subseteq Awaiting /\ lastId' = lastId
    BY DEF Shape, Loose, CallerOK, CheckInit, Awaiting
  <2> QED BY <2>1, IdsLeftKept
<1> QED BY <1>1, <1>2, <1>3, <1>4, <1>5 DEF Shape

LEMMA RemoveTimerShape ==
    ASSUME Shape, NEW c \in Callers, NEW i \in Ids, RemoveTimer(c, i)
    PROVE  Shape'
<1>1. Loose'
  BY BoundsAssumption DEF Shape, Loose, CallerOK, RemoveTimer, CanCall, CallStates, ThreadStates
<1>2. \A d \in Callers : CallerOK(d)'
  BY StructsAssumption DEF Shape, Loose, CallerOK, RemoveTimer, CanCall
<1>3. ThreadOK'
  BY DEF Shape, ThreadOK, RemoveTimer, CanCall
<1>4. Numbered'
  <2>1. ListsStay BY DEF RemoveTimer, ListsStay
  <2>2. \A d \in Callers : cpc'[d] \in {"map", "pend"} /\ ctimer'[d] \in Structs
           => cpc[d] \in {"map", "pend"} /\ ctimer'[d] = ctimer[d]
    BY DEF Shape, Loose, RemoveTimer, CanCall
  <2> QED BY <2>1, <2>2, NumberedKept
<1>5. IdsLeft'
  <2>1. Awaiting' \subseteq Awaiting /\ lastId' = lastId
    BY DEF Shape, Loose, CallerOK, RemoveTimer, CanCall, Awaiting
  <2> QED BY <2>1, IdsLeftKept
<1> QED BY <1>1, <1>2, <1>3, <1>4, <1>5 DEF Shape

LEMMA FindShape ==
    ASSUME Shape, NEW c \in Callers, Find(c)
    PROVE  Shape'
<1>1. Loose'
  <2>1. AfterRemove(c) \in CallStates BY DEF AfterRemove, CallStates
  <2>2. cpc' \in [Callers -> CallStates]
    <3>1. "check" \in CallStates BY DEF CallStates
    <3> QED BY ZenonT(60), <2>1, <3>1 DEF Shape, Loose, Find
  <2>3. rid' \in [Callers -> Ids \cup {NoId}] BY DEF Shape, Loose, Find
  <2>4. entry' \in [Ids -> {"none", "mapped", "taken", "freed"}] BY DEF Shape, Loose, Find
  <2> QED BY <2>2, <2>3, <2>4 DEF Shape, Loose, Find
<1>2. \A d \in Callers : CallerOK(d)'
  BY StructsAssumption DEF Shape, Loose, CallerOK, Find, AfterRemove
<1>3. ThreadOK'
  BY DEF Shape, ThreadOK, Find, AfterRemove
<1>4. Numbered'
  <2>1. ListsStay BY DEF Find, ListsStay
  <2>2. \A d \in Callers : cpc'[d] \in {"map", "pend"} /\ ctimer'[d] \in Structs
           => cpc[d] \in {"map", "pend"} /\ ctimer'[d] = ctimer[d]
    BY DEF Shape, Loose, Find, AfterRemove
  <2> QED BY <2>1, <2>2, NumberedKept
<1>5. IdsLeft'
  <2>1. Awaiting' \subseteq Awaiting /\ lastId' = lastId
    BY DEF Shape, Loose, CallerOK, Find, AfterRemove, Awaiting
  <2> QED BY <2>1, IdsLeftKept
<1> QED BY <1>1, <1>2, <1>3, <1>4, <1>5 DEF Shape

LEMMA CheckCanceledShape ==
    ASSUME Shape, NEW c \in Callers, CheckCanceled(c)
    PROVE  Shape'
<1>1. Loose'
  BY ZenonT(60), BoundsAssumption
     DEF Shape, Loose, CallerOK, CheckCanceled, AfterRemove, CallStates, ThreadStates
<1>2. \A d \in Callers : CallerOK(d)'
  <2>1. CASE canceled[owner[rid[c]]]
    <3>1. /\ AfterRemove(c) \in {"fill", "idle"}
          /\ AfterRemove(c) = "fill" => ctimer[c] \in Structs
          /\ AfterRemove(c) = "idle" => ctimer[c] = NoStruct
      BY DEF AfterRemove, Shape, Loose
    <3>2. /\ cpc' = [cpc EXCEPT ![c] = AfterRemove(c)]
          /\ rid' = [rid EXCEPT ![c] = NoId] /\ UNCHANGED <<ctimer, cid>>
      BY <2>1 DEF CheckCanceled
    <3> QED BY <3>1, <3>2 DEF Shape, Loose, CallerOK
  <2>2. CASE ~canceled[owner[rid[c]]]
    BY <2>2, StructsAssumption DEF Shape, Loose, CallerOK, CheckCanceled
  <2> QED BY <2>1, <2>2
<1>3. ThreadOK'
  BY DEF Shape, ThreadOK, CheckCanceled, AfterRemove
<1>4. Numbered'
  <2>1. ListsStay BY DEF CheckCanceled, ListsStay
  <2>2. \A d \in Callers : cpc'[d] \in {"map", "pend"} /\ ctimer'[d] \in Structs
           => cpc[d] \in {"map", "pend"} /\ ctimer'[d] = ctimer[d]
    BY DEF Shape, Loose, CheckCanceled, AfterRemove
  <2> QED BY <2>1, <2>2, NumberedKept
<1>5. IdsLeft'
  <2>1. Awaiting' \subseteq Awaiting /\ lastId' = lastId
    BY DEF Shape, Loose, CallerOK, CheckCanceled, AfterRemove, Awaiting
  <2> QED BY <2>1, IdsLeftKept
<1> QED BY <1>1, <1>2, <1>3, <1>4, <1>5 DEF Shape

LEMMA CancelShape ==
    ASSUME Shape, NEW c \in Callers, Cancel(c)
    PROVE  Shape'
<1>1. Loose'
  BY BoundsAssumption DEF Shape, Loose, CallerOK, Cancel, AfterRemove, CallStates, ThreadStates
<1>2. \A d \in Callers : CallerOK(d)'
  BY StructsAssumption DEF Shape, Loose, CallerOK, Cancel, AfterRemove
<1>3. ThreadOK'
  BY DEF Shape, ThreadOK, Cancel, AfterRemove
<1>4. Numbered'
  <2>1. ListsStay BY DEF Cancel, ListsStay
  <2>2. \A d \in Callers : cpc'[d] \in {"map", "pend"} /\ ctimer'[d] \in Structs
           => cpc[d] \in {"map", "pend"} /\ ctimer'[d] = ctimer[d]
    BY DEF Shape, Loose, Cancel, AfterRemove
  <2> QED BY <2>1, <2>2, NumberedKept
<1>5. IdsLeft'
  <2>1. Awaiting' \subseteq Awaiting /\ lastId' = lastId
    BY DEF Shape, Loose, CallerOK, Cancel, AfterRemove, Awaiting
  <2> QED BY <2>1, IdsLeftKept
<1> QED BY <1>1, <1>2, <1>3, <1>4, <1>5 DEF Shape

LEMMA QuitFailedShape ==
    ASSUME Shape, NEW c \in Callers, QuitFailed(c)
    PROVE  Shape'
<1>1. Loose'
  BY BoundsAssumption DEF Shape, Loose, CallerOK, QuitFailed, CallStates, ThreadStates
<1>2. \A d \in Callers : CallerOK(d)'
  BY StructsAssumption DEF Shape, Loose, CallerOK, QuitFailed
<1>3. ThreadOK'
  BY DEF Shape, ThreadOK, QuitFailed
<1>4. Numbered'
  <2>1. ListsStay BY DEF QuitFailed, ListsStay
  <2>2. \A d \in Callers : cpc'[d] \in {"map", "pend"} /\ ctimer'[d] \in Structs
           => cpc[d] \in {"map", "pend"} /\ ctimer'[d] = ctimer[d]
    BY DEF Shape, Loose, QuitFailed
  <2> QED BY <2>1, <2>2, NumberedKept
<1>5. IdsLeft'
  <2>1. Awaiting' \subseteq Awaiting /\ lastId' = lastId
    BY DEF Shape, Loose, CallerOK, QuitFailed, Awaiting
  <2> QED BY <2>1, IdsLeftKept
<1> QED BY <1>1, <1>2, <1>3, <1>4, <1>5 DEF Shape

LEMMA QuitShape ==
    ASSUME Shape, NEW c \in Apps, Quit(c)
    PROVE  Shape'
<1>0. c \in Callers BY DEF Callers
<1>1. Loose'
  BY <1>0, BoundsAssumption DEF Shape, Loose, CallerOK, Quit, CallStates, ThreadStates
<1>2. \A d \in Callers : CallerOK(d)'
  BY <1>0, StructsAssumption DEF Shape, Loose, CallerOK, Quit
<1>3. ThreadOK'
  BY DEF Shape, ThreadOK, Quit
<1>4. Numbered'
  <2>1. ListsStay BY DEF Quit, ListsStay
  <2>2. \A d \in Callers : cpc'[d] \in {"map", "pend"} /\ ctimer'[d] \in Structs
           => cpc[d] \in {"map", "pend"} /\ ctimer'[d] = ctimer[d]
    BY <1>0 DEF Shape, Loose, Quit
  <2> QED BY <2>1, <2>2, NumberedKept
<1>5. IdsLeft'
  <2>1. Awaiting' \subseteq Awaiting /\ lastId' = lastId
    BY <1>0 DEF Shape, Loose, CallerOK, Quit, Awaiting
  <2> QED BY <2>1, IdsLeftKept
<1> QED BY <1>1, <1>2, <1>3, <1>4, <1>5 DEF Shape

LEMMA QuitSignalShape ==
    ASSUME Shape, NEW c \in Callers, QuitSignal(c)
    PROVE  Shape'
<1>1. Loose'
  BY BoundsAssumption DEF Shape, Loose, CallerOK, QuitSignal, Signal, CallStates, ThreadStates
<1>2. \A d \in Callers : CallerOK(d)'
  BY StructsAssumption DEF Shape, Loose, CallerOK, QuitSignal, Signal
<1>3. ThreadOK'
  BY DEF Shape, ThreadOK, QuitSignal, Signal
<1>4. Numbered'
  <2>1. ListsStay BY DEF QuitSignal, ListsStay
  <2>2. \A d \in Callers : cpc'[d] \in {"map", "pend"} /\ ctimer'[d] \in Structs
           => cpc[d] \in {"map", "pend"} /\ ctimer'[d] = ctimer[d]
    BY DEF Shape, Loose, QuitSignal, Signal
  <2> QED BY <2>1, <2>2, NumberedKept
<1>5. IdsLeft'
  <2>1. Awaiting' \subseteq Awaiting /\ lastId' = lastId
    BY DEF Shape, Loose, CallerOK, QuitSignal, Signal, Awaiting
  <2> QED BY <2>1, IdsLeftKept
<1> QED BY <1>1, <1>2, <1>3, <1>4, <1>5 DEF Shape

LEMMA CheckActiveShape ==
    ASSUME Shape, CheckActive
    PROVE  Shape'
<1>1. Loose'
  BY BoundsAssumption DEF Shape, Loose, CallerOK, CheckActive, CallStates, ThreadStates
<1>2. \A d \in Callers : CallerOK(d)'
  BY StructsAssumption DEF Shape, Loose, CallerOK, CheckActive
<1>3. ThreadOK'
  BY DEF Shape, ThreadOK, CheckActive
<1>4. Numbered'
  <2>1. ListsStay BY DEF CheckActive, ListsStay
  <2>2. \A d \in Callers : cpc'[d] \in {"map", "pend"} /\ ctimer'[d] \in Structs
           => cpc[d] \in {"map", "pend"} /\ ctimer'[d] = ctimer[d]
    BY DEF Shape, Loose, CheckActive
  <2> QED BY <2>1, <2>2, NumberedKept
<1>5. IdsLeft'
  <2>1. Awaiting' \subseteq Awaiting /\ lastId' = lastId
    BY DEF Shape, Loose, CallerOK, CheckActive, Awaiting
  <2> QED BY <2>1, IdsLeftKept
<1> QED BY <1>1, <1>2, <1>3, <1>4, <1>5 DEF Shape

LEMMA WakeShape ==
    ASSUME Shape, Wake
    PROVE  Shape'
<1>1. Loose'
  BY BoundsAssumption DEF Shape, Loose, CallerOK, Wake, Signaled, CallStates, ThreadStates
<1>2. \A d \in Callers : CallerOK(d)'
  BY StructsAssumption DEF Shape, Loose, CallerOK, Wake, Signaled
<1>3. ThreadOK'
  BY DEF Shape, ThreadOK, Wake, Signaled
<1>4. Numbered'
  <2>1. ListsStay BY DEF Wake, ListsStay
  <2>2. \A d \in Callers : cpc'[d] \in {"map", "pend"} /\ ctimer'[d] \in Structs
           => cpc[d] \in {"map", "pend"} /\ ctimer'[d] = ctimer[d]
    BY DEF Shape, Loose, Wake, Signaled
  <2> QED BY <2>1, <2>2, NumberedKept
<1>5. IdsLeft'
  <2>1. Awaiting' \subseteq Awaiting /\ lastId' = lastId
    BY DEF Shape, Loose, CallerOK, Wake, Signaled, Awaiting
  <2> QED BY <2>1, IdsLeftKept
<1> QED BY <1>1, <1>2, <1>3, <1>4, <1>5 DEF Shape

LEMMA TickShape ==
    ASSUME Shape, Tick
    PROVE  Shape'
<1>1. Loose'
  BY BoundsAssumption DEF Shape, Loose, CallerOK, Tick, CallStates, ThreadStates
<1>2. \A d \in Callers : CallerOK(d)'
  BY StructsAssumption DEF Shape, Loose, CallerOK, Tick
<1>3. ThreadOK'
  BY DEF Shape, ThreadOK, Tick
<1>4. Numbered'
  <2>1. ListsStay BY DEF Tick, ListsStay
  <2>2. \A d \in Callers : cpc'[d] \in {"map", "pend"} /\ ctimer'[d] \in Structs
           => cpc[d] \in {"map", "pend"} /\ ctimer'[d] = ctimer[d]
    BY DEF Shape, Loose, Tick
  <2> QED BY <2>1, <2>2, NumberedKept
<1>5. IdsLeft'
  <2>1. Awaiting' \subseteq Awaiting /\ lastId' = lastId
    BY DEF Shape, Loose, CallerOK, Tick, Awaiting
  <2> QED BY <2>1, IdsLeftKept
<1> QED BY <1>1, <1>2, <1>3, <1>4, <1>5 DEF Shape

-----------------------------------------------------------------------------
(* The steps that move a timer from one place to another.                  *)

LEMMA PopShape ==
    ASSUME Shape, NEW c \in Callers, Pop(c)
    PROVE  Shape'
<1>1. CASE freelist # <<>> /\ freelist' = Tail(freelist)
  <2> DEFINE s == Head(freelist)
  <2>1. /\ s \in Structs /\ InSeq(freelist, s) /\ Tail(freelist) \in Seq(Structs)
        /\ \A x : InSeq(Tail(freelist), x) => InSeq(freelist, x)
    BY <1>1, HeadTailIn DEF Shape, Loose
  <2>2. /\ cpc[c] = "pop" /\ freelist' = Tail(freelist)
        /\ ctimer' = [ctimer EXCEPT ![c] = s]
        /\ rid' = [rid EXCEPT ![c] = timerID[s]]
        /\ cpc' = [cpc EXCEPT ![c] = "find"]
        /\ UNCHANGED <<allocated, init, active, sem, pending, timers, timerVars, entryVars, lastId,
                       threadVars, cid, now, historyVars>>
    BY <1>1 DEF Pop, AfterPop
  <2>3. timerID[s] \in Ids BY <2>1 DEF Shape, Numbered, Filled
  <2> HIDE DEF s
  <2>4. Loose' BY <2>1, <2>2, <2>3 DEF Shape, Loose, CallStates
  <2>5. \A d \in Callers : CallerOK(d)' BY <2>2, <2>3 DEF Shape, Loose, CallerOK
  <2>6. ThreadOK' BY <2>2 DEF Shape, ThreadOK
  <2>7. Numbered'
    <3> SUFFICES ASSUME NEW x \in Structs, Filled(x)' PROVE timerID'[x] \in Ids
      BY DEF Numbered
    <3>1. \A d \in Callers : ctimer'[d] = x /\ cpc'[d] \in {"map", "pend"}
                             => ctimer[d] = x /\ cpc[d] \in {"map", "pend"}
      BY <2>2 DEF Shape, Loose
    <3>2. InSeq(freelist', x) => InSeq(freelist, x) BY <2>1, <2>2
    <3>3. Filled(x) BY <2>2, <3>1, <3>2 DEF Filled
    <3> QED BY <3>3, <2>2 DEF Shape, Numbered
  <2>8. Awaiting' \subseteq Awaiting BY <2>2 DEF Shape, Loose, Awaiting
  <2>9. IdsLeft' BY <2>2, <2>8, IdsLeftKept
  <2> QED BY <2>4, <2>5, <2>6, <2>7, <2>9 DEF Shape
<1>2. CASE UNCHANGED freelist
  <2>1. /\ cpc[c] = "pop" /\ UNCHANGED <<freelist, rid>>
        /\ \/ /\ \E s \in Structs \ allocated :
                    allocated' = allocated \cup {s} /\ ctimer' = [ctimer EXCEPT ![c] = s]
              /\ cpc' = [cpc EXCEPT ![c] = "fill"]
           \/ cpc' = [cpc EXCEPT ![c] = "idle"] /\ UNCHANGED <<ctimer, allocated>>
        /\ UNCHANGED <<init, active, sem, pending, timers, timerVars, entryVars, lastId,
                       threadVars, cid, now, historyVars>>
    <3>1. ~(freelist # <<>> /\ freelist' = Tail(freelist))
      <4> SUFFICES ASSUME freelist # <<>>, freelist = Tail(freelist) PROVE FALSE
        BY <1>2
      <4>1. Len(Tail(freelist)) = Len(freelist) - 1 /\ Len(freelist) \in Nat
        BY HeadTailProperties, LenProperties DEF Shape, Loose
      <4> QED BY <4>1
    <3> QED BY <3>1 DEF Pop
  <2>2. Loose'
    <3>1. cpc' \in [Callers -> CallStates] BY <2>1 DEF Shape, Loose, CallStates
    <3>2. ctimer' \in [Callers -> Structs \cup {NoStruct}] /\ allocated' \subseteq Structs
      <4>1. CASE UNCHANGED <<ctimer, allocated>> BY <4>1 DEF Shape, Loose
      <4>2. ASSUME NEW s \in Structs, allocated' = allocated \cup {s},
                   ctimer' = [ctimer EXCEPT ![c] = s]
            PROVE  ctimer' \in [Callers -> Structs \cup {NoStruct}] /\ allocated' \subseteq Structs
        BY <4>2 DEF Shape, Loose
      <4> QED BY <2>1, <4>1, <4>2
    <3> QED BY <2>1, <3>1, <3>2 DEF Shape, Loose
  <2>3. \A d \in Callers : CallerOK(d)'
    <3>1. /\ cpc'[c] \in {"fill", "idle"}
          /\ cpc'[c] = "fill" => ctimer'[c] \in Structs
          /\ cpc'[c] = "idle" => ctimer'[c] = NoStruct
      BY <2>1 DEF Shape, Loose, CallerOK
    <3>2. \A d \in Callers \ {c} : cpc'[d] = cpc[d] /\ ctimer'[d] = ctimer[d]
      BY <2>1 DEF Shape, Loose
    <3> QED BY <2>1, <3>1, <3>2 DEF Shape, CallerOK
  <2>4. ThreadOK' BY <2>1 DEF Shape, ThreadOK
  <2>5. Numbered'
    <3>1. ListsStay BY <2>1 DEF ListsStay
    <3>2. \A d \in Callers : cpc'[d] \in {"map", "pend"} /\ ctimer'[d] \in Structs
             => cpc[d] \in {"map", "pend"} /\ ctimer'[d] = ctimer[d]
      BY <2>1 DEF Shape, Loose
    <3> QED BY <3>1, <3>2, NumberedKept
  <2>6. Awaiting' \subseteq Awaiting BY <2>1 DEF Shape, Loose, Awaiting
  <2>7. IdsLeft' BY <2>1, <2>6, IdsLeftKept
  <2> QED BY <2>2, <2>3, <2>4, <2>5, <2>7 DEF Shape
<1> QED BY <1>1, <1>2 DEF Pop

LEMMA FillShape ==
    ASSUME Shape, NEW c \in Callers, Fill(c)
    PROVE  Shape'
<1> DEFINE s == ctimer[c]
<1>1. s \in Structs /\ cpc[c] = "fill" BY DEF Fill, Shape, CallerOK
<1>2. c \in Awaiting BY <1>1 DEF Awaiting
<1>3. lastId + 1 \in Ids BY <1>2, IdsLeftTaken
<1> DEFINE new == lastId + 1
<1>4. PICK n \in Intervals : scheduled' = [scheduled EXCEPT ![s] = now + n] BY DEF Fill
<1>5. /\ lastId' = new /\ timerID' = [timerID EXCEPT ![s] = new]
      /\ canceled' = [canceled EXCEPT ![s] = FALSE]
      /\ cid' = [cid EXCEPT ![c] = new] /\ cpc' = [cpc EXCEPT ![c] = "map"]
      /\ UNCHANGED <<dataVars, entryVars, allocated, threadVars, ctimer, rid, now, historyVars>>
  BY DEF Fill
<1>6. Awaiting' \subseteq Awaiting \ {c} BY <1>1, <1>5 DEF Shape, Loose, Awaiting
<1>7. IdsLeft' BY <1>2, <1>5, <1>6, IdsLeftTaken
<1>8. new \in Ids BY <1>3
<1> HIDE DEF new
<1>9. Loose'
  <2>1. scheduled' \in [Structs -> Nat]
    <3>1. now + n \in Nat BY BoundsAssumption DEF Shape, Loose
    <3> QED BY <1>4, <3>1 DEF Shape, Loose
  <2>2. /\ timerID' \in [Structs -> Ids \cup {NoId}] /\ canceled' \in [Structs -> BOOLEAN]
        /\ cid' \in [Callers -> Ids \cup {NoId}] /\ lastId' \in Ids \cup {NoId}
    BY <1>5, <1>8 DEF Shape, Loose
  <2>3. cpc' \in [Callers -> CallStates] BY <1>5 DEF Shape, Loose, CallStates
  <2> QED BY <1>5, <2>1, <2>2, <2>3 DEF Shape, Loose
<1>10. \A d \in Callers : CallerOK(d)' BY <1>1, <1>5, <1>8 DEF Shape, Loose, CallerOK
<1>11. ThreadOK' BY <1>5 DEF Shape, ThreadOK
<1>12. Numbered'
  <2> SUFFICES ASSUME NEW x \in Structs, Filled(x)' PROVE timerID'[x] \in Ids
    BY DEF Numbered
  <2>1. CASE x = s BY <1>1, <1>5, <1>8, <2>1 DEF Shape, Loose
  <2>2. CASE x # s
    <3>1. \A d \in Callers : ctimer'[d] = x /\ cpc'[d] \in {"map", "pend"}
                             => ctimer[d] = x /\ cpc[d] \in {"map", "pend"}
      BY <1>5, <2>2 DEF Shape, Loose
    <3>2. Filled(x) BY <1>5, <3>1 DEF Filled
    <3> QED BY <3>2, <2>2, <1>5 DEF Shape, Loose, Numbered
  <2> QED BY <2>1, <2>2
<1> QED BY <1>7, <1>9, <1>10, <1>11, <1>12 DEF Shape

LEMMA MapShape ==
    ASSUME Shape, NEW c \in Callers, Map(c)
    PROVE  Shape'
<1>1. /\ cpc[c] = "map" /\ cpc' \in {[cpc EXCEPT ![c] = "pend"], [cpc EXCEPT ![c] = "idle"]}
      /\ UNCHANGED <<dataVars, timerVars, lastId, threadVars, rid, now, historyVars>>
  BY DEF Map
<1>2. Loose'
  <2>1. cpc' \in [Callers -> CallStates] BY <1>1 DEF Shape, Loose, CallStates
  <2>2. /\ entry' \in [Ids -> {"none", "mapped", "taken", "freed"}]
        /\ owner' \in [Ids -> Structs \cup {NoStruct}]
    BY DEF Shape, Loose, Map
  <2>3. /\ allocated' \subseteq Structs /\ ctimer' \in [Callers -> Structs \cup {NoStruct}]
        /\ cid' \in [Callers -> Ids \cup {NoId}]
    BY DEF Shape, Loose, Map
  <2> QED BY <1>1, <2>1, <2>2, <2>3 DEF Shape, Loose
<1>3. \A d \in Callers : CallerOK(d)' BY StructsAssumption DEF Shape, Loose, CallerOK, Map
<1>4. ThreadOK' BY <1>1 DEF Shape, ThreadOK
<1>5. Numbered'
  <2>1. ListsStay BY <1>1 DEF ListsStay
  <2>2. \A d \in Callers : cpc'[d] \in {"map", "pend"} /\ ctimer'[d] \in Structs
           => cpc[d] \in {"map", "pend"} /\ ctimer'[d] = ctimer[d]
    BY StructsAssumption DEF Shape, Loose, Map
  <2> QED BY <2>1, <2>2, NumberedKept
<1>6. Awaiting' \subseteq Awaiting BY DEF Shape, Loose, Awaiting, Map
<1>7. IdsLeft' BY <1>1, <1>6, IdsLeftKept
<1> QED BY <1>2, <1>3, <1>4, <1>5, <1>7 DEF Shape

LEMMA PendShape ==
    ASSUME Shape, NEW c \in Callers, Pend(c)
    PROVE  Shape'
<1> DEFINE s == ctimer[c]
           l == <<s>> \o pending
<1>1. s \in Structs /\ cpc[c] = "pend" BY DEF Pend, Shape, CallerOK
<1>2. l \in Seq(Structs) /\ \A x : InSeq(l, x) <=> InSeq(pending, x) \/ x = s
  <2>1. /\ <<s>> \in Seq(Structs) /\ \A x : InSeq(<<s>>, x) <=> x = s
    BY <1>1, SingletonIn
  <2>2. pending \in Seq(Structs) BY DEF Shape, Loose
  <2> HIDE DEF s
  <2> QED BY <2>1, <2>2, ConcatIn
<1>3. /\ pending' = l /\ ctimer' = [ctimer EXCEPT ![c] = NoStruct]
      /\ cpc' = [cpc EXCEPT ![c] = "signal"]
      /\ UNCHANGED <<init, active, sem, freelist, timers, timerVars, entryVars, heapVars,
                     threadVars, cid, rid, now, historyVars>>
  BY DEF Pend, Pended
<1> HIDE DEF l
<1>4. Loose' BY <1>2, <1>3 DEF Shape, Loose, CallStates
<1>5. \A d \in Callers : CallerOK(d)' BY <1>1, <1>3 DEF Shape, Loose, CallerOK
<1>6. ThreadOK' BY <1>3 DEF Shape, ThreadOK
<1>7. Numbered'
  <2> SUFFICES ASSUME NEW x \in Structs, Filled(x)' PROVE timerID'[x] \in Ids
    BY DEF Numbered
  <2>1. \A d \in Callers : ctimer'[d] = x /\ cpc'[d] \in {"map", "pend"}
                           => ctimer[d] = x /\ cpc[d] \in {"map", "pend"}
    BY <1>3 DEF Shape, Loose
  <2>2. InSeq(pending', x) => InSeq(pending, x) \/ x = s BY <1>2, <1>3
  <2>3. Filled(x) BY <2>1, <2>2, <1>1, <1>3 DEF Filled
  <2> QED BY <2>3, <1>3 DEF Shape, Numbered
<1>8. Awaiting' \subseteq Awaiting BY <1>3 DEF Shape, Loose, Awaiting
<1>9. IdsLeft' BY <1>3, <1>8, IdsLeftKept
<1> QED BY <1>4, <1>5, <1>6, <1>7, <1>9 DEF Shape

LEMMA QuitJoinShape ==
    ASSUME Shape, NEW c \in Callers, QuitJoin(c)
    PROVE  Shape'
<1>1. /\ cpc[c] \in {"join", "cleanup"} /\ tpc = "off" /\ allocated' \subseteq allocated
      /\ timers' = <<>> /\ freelist' = <<>> /\ init' = "UNINITIALIZED"
      /\ cpc' = [cpc EXCEPT ![c] = "idle"]
      /\ UNCHANGED <<active, sem, pending, timerVars, owner, lastId, threadVars, ctimer, cid, rid,
                     now, historyVars>>
  BY DEF QuitJoin
<1>2. Loose'
  <2>1. <<>> \in Seq(Structs) BY EmptySeq
  <2>2. entry' \in [Ids -> {"none", "mapped", "taken", "freed"}] BY DEF Shape, Loose, QuitJoin
  <2>3. cpc' \in [Callers -> CallStates] BY <1>1 DEF Shape, Loose, CallStates
  <2> QED BY <1>1, <2>1, <2>2, <2>3 DEF Shape, Loose
<1>3. \A d \in Callers : CallerOK(d)' BY <1>1 DEF Shape, Loose, CallerOK
<1>4. ThreadOK' BY <1>1 DEF Shape, ThreadOK
<1>5. Numbered'
  <2> SUFFICES ASSUME NEW x \in Structs, Filled(x)' PROVE timerID'[x] \in Ids
    BY DEF Numbered
  <2>1. \A d \in Callers : ctimer'[d] = x /\ cpc'[d] \in {"map", "pend"}
                           => ctimer[d] = x /\ cpc[d] \in {"map", "pend"}
    BY <1>1 DEF Shape, Loose
  <2>2. ~InSeq(timers', x) /\ ~InSeq(freelist', x) BY <1>1, NothingInEmpty
  <2>3. Filled(x) BY <2>1, <2>2, <1>1 DEF Filled
  <2> QED BY <2>3, <1>1 DEF Shape, Numbered
<1>6. Awaiting' \subseteq Awaiting BY <1>1 DEF Shape, Loose, Awaiting
<1>7. IdsLeft' BY <1>1, <1>6, IdsLeftKept
<1> QED BY <1>2, <1>3, <1>4, <1>5, <1>7 DEF Shape

LEMMA MaintainShape ==
    ASSUME Shape, Maintain
    PROVE  Shape'
<1> DEFINE ts == AddPending
           fs == unused \o freelist
<1>1. ts \in Seq(Structs) /\ \A x : InSeq(ts, x) <=> InSeq(timers, x) \/ InSeq(pending, x)
  BY AddPendingKeeps DEF Shape, Loose
<1>2. fs \in Seq(Structs) /\ \A x : InSeq(fs, x) <=> InSeq(unused, x) \/ InSeq(freelist, x)
  BY ConcatIn DEF Shape, Loose
<1>3. /\ tpc = "maintain" /\ timers' = ts /\ pending' = <<>> /\ freelist' = fs
      /\ unused' = <<>> /\ tpc' = "active"
      /\ UNCHANGED <<init, active, sem, timerVars, entryVars, heapVars, tick, wakeAt, current,
                     callVars, now, historyVars>>
  BY DEF Maintain
<1> HIDE DEF ts, fs
<1>4. Loose'
  <2>1. <<>> \in Seq(Structs) BY EmptySeq
  <2> QED BY <1>1, <1>2, <1>3, <2>1 DEF Shape, Loose, ThreadStates
<1>5. (\A d \in Callers : CallerOK(d)') /\ ThreadOK'
  BY <1>3 DEF Shape, CallerOK, ThreadOK
<1>6. Numbered'
  <2> SUFFICES ASSUME NEW x \in Structs, Filled(x)' PROVE timerID'[x] \in Ids
    BY DEF Numbered
  <2>1. /\ InSeq(timers', x) => InSeq(timers, x) \/ InSeq(pending, x)
        /\ InSeq(freelist', x) => InSeq(unused, x) \/ InSeq(freelist, x)
        /\ ~InSeq(pending', x) /\ ~InSeq(unused', x)
    BY <1>1, <1>2, <1>3, NothingInEmpty
  <2>2. Filled(x) BY <2>1, <1>3 DEF Filled
  <2> QED BY <2>2, <1>3 DEF Shape, Numbered
<1>7. IdsLeft' BY <1>3, IdsLeftKept DEF Awaiting
<1> QED BY <1>4, <1>5, <1>6, <1>7 DEF Shape

LEMMA ProcessTimersShape ==
    ASSUME Shape, ProcessTimers
    PROVE  Shape'
<1>1. /\ tpc = "loop"
      /\ UNCHANGED <<init, active, sem, pending, freelist, timerVars, entryVars, heapVars, tick,
                     unused, callVars, now, historyVars>>
  BY DEF ProcessTimers
<1>2. CASE timers # <<>> /\ tick >= scheduled[Head(timers)]
  <2> DEFINE s == Head(timers)
  <2>1. /\ s \in Structs /\ InSeq(timers, s) /\ Tail(timers) \in Seq(Structs)
        /\ \A x : InSeq(Tail(timers), x) => InSeq(timers, x)
    BY <1>2, HeadTailIn DEF Shape, Loose
  <2>2. current' = s /\ timers' = Tail(timers) /\ tpc' = "check" /\ UNCHANGED wakeAt
    BY <1>2 DEF ProcessTimers
  <2> HIDE DEF s
  <2>3. Loose' BY <1>1, <2>1, <2>2 DEF Shape, Loose, ThreadStates
  <2>4. (\A d \in Callers : CallerOK(d)') /\ ThreadOK'
    BY <1>1, <2>1, <2>2, StructsAssumption DEF Shape, CallerOK, ThreadOK
  <2>5. Numbered'
    <3> SUFFICES ASSUME NEW x \in Structs, Filled(x)' PROVE timerID'[x] \in Ids
      BY DEF Numbered
    <3>1. /\ InSeq(timers', x) => InSeq(timers, x)
          /\ current' = x => InSeq(timers, x)
      BY <2>1, <2>2
    <3>2. Filled(x) BY <3>1, <1>1 DEF Filled
    <3> QED BY <3>2, <1>1 DEF Shape, Numbered
  <2>6. IdsLeft' BY <1>1, IdsLeftKept DEF Awaiting
  <2> QED BY <2>3, <2>4, <2>5, <2>6 DEF Shape
<1>3. CASE ~(timers # <<>> /\ tick >= scheduled[Head(timers)])
  <2>1. wakeAt' = NextTime(timers) /\ tpc' = "wait" /\ UNCHANGED <<current, timers>>
    BY <1>3 DEF ProcessTimers
  <2>2. NextTime(timers) \in Nat
    <3>1. CASE timers = <<>> BY <3>1, BoundsAssumption DEF NextTime, Never
    <3>2. CASE timers # <<>>
      <4>1. Head(timers) \in Structs BY <3>2, HeadTailProperties DEF Shape, Loose
      <4> QED BY <3>2, <4>1 DEF NextTime, Shape, Loose
    <3> QED BY <3>1, <3>2
  <2>3. Loose' BY <1>1, <2>1, <2>2 DEF Shape, Loose, ThreadStates
  <2>4. (\A d \in Callers : CallerOK(d)') /\ ThreadOK'
    BY <1>1, <2>1 DEF Shape, CallerOK, ThreadOK
  <2>5. ListsStay BY <1>1, <2>1 DEF ListsStay
  <2>6. Numbered' BY <1>1, <2>5, NumberedKept
  <2>7. IdsLeft' BY <1>1, IdsLeftKept DEF Awaiting
  <2> QED BY <2>3, <2>4, <2>6, <2>7 DEF Shape
<1> QED BY <1>2, <1>3

\* What Finish does, in whichever action.
LEMMA FinishShape ==
    ASSUME Shape, tpc \in {"check", "callback"}, Finish,
           UNCHANGED <<init, active, sem, pending, freelist, timerID, entryVars, heapVars, tick,
                       wakeAt, callVars, now, historyVars>>
    PROVE  Shape'
<1> DEFINE us == Append(unused, current)
<1>1. current \in Structs BY DEF Shape, Loose, ThreadOK
<1>2. us \in Seq(Structs) /\ \A x : InSeq(us, x) <=> InSeq(unused, x) \/ x = current
  BY <1>1, AppendIn DEF Shape, Loose
<1>3. /\ unused' = us /\ canceled' = [canceled EXCEPT ![current] = TRUE]
      /\ current' = NoStruct /\ tpc' = "loop" /\ UNCHANGED <<scheduled, timers>>
  BY DEF Finish
<1> HIDE DEF us
<1>4. Loose' BY <1>2, <1>3 DEF Shape, Loose, ThreadStates
<1>5. (\A d \in Callers : CallerOK(d)') /\ ThreadOK'
  BY <1>3 DEF Shape, CallerOK, ThreadOK
<1>6. Numbered'
  <2> SUFFICES ASSUME NEW x \in Structs, Filled(x)' PROVE timerID'[x] \in Ids
    BY DEF Numbered
  <2>1. /\ InSeq(unused', x) => InSeq(unused, x) \/ x = current
        /\ current' # x
    BY <1>2, <1>3, StructsAssumption
  <2>2. Filled(x) BY <2>1, <1>3 DEF Filled
  <2> QED BY <2>2 DEF Shape, Numbered
<1>7. IdsLeft' BY IdsLeftKept DEF Awaiting
<1> QED BY <1>4, <1>5, <1>6, <1>7 DEF Shape

LEMMA CheckTimerShape ==
    ASSUME Shape, CheckTimer
    PROVE  Shape'
<1>1. CASE Finish /\ UNCHANGED known BY <1>1, FinishShape DEF CheckTimer
<1>2. CASE tpc' = "callback" /\ known' = known \cup {timerID[current]}
           /\ UNCHANGED <<unused, canceled, current, scheduled, timers>>
  <2>1. /\ tpc = "check"
        /\ UNCHANGED <<init, active, sem, pending, freelist, timerID, entryVars, heapVars, tick,
                       wakeAt, callVars, now, removed>>
    BY DEF CheckTimer
  <2>2. timerID[current] \in Ids BY <2>1 DEF Shape, Loose, ThreadOK, Numbered, Filled
  <2>3. Loose' BY <1>2, <2>1, <2>2 DEF Shape, Loose, ThreadStates
  <2>4. (\A d \in Callers : CallerOK(d)') /\ ThreadOK'
    BY <1>2, <2>1 DEF Shape, CallerOK, ThreadOK
  <2>5. ListsStay BY <1>2, <2>1 DEF ListsStay
  <2>6. Numbered' BY <2>1, <2>5, NumberedKept
  <2>7. IdsLeft' BY <2>1, IdsLeftKept DEF Awaiting
  <2> QED BY <2>3, <2>4, <2>6, <2>7 DEF Shape
<1> QED BY <1>1, <1>2 DEF CheckTimer

\* An interval schedules the timer again.
LEMMA AgainEffect ==
    ASSUME Shape, tpc = "callback", NEW n \in Intervals,
           scheduled' = [scheduled EXCEPT ![current] = tick + n],
           timers' = AddSorted(timers, current, scheduled')
    PROVE  /\ current \in Structs /\ scheduled' \in [Structs -> Nat]
           /\ timers' \in Seq(Structs)
           /\ \A x : InSeq(timers', x) <=> InSeq(timers, x) \/ x = current
           /\ Once(timers) /\ ~InSeq(timers, current) => Once(timers')
           /\ Sorted(timers, scheduled') => Sorted(timers', scheduled')
<1>1. current \in Structs BY DEF Shape, Loose, ThreadOK
<1>2. scheduled' \in [Structs -> Nat]
  <2>1. tick + n \in Nat BY BoundsAssumption DEF Shape, Loose
  <2> QED BY <2>1 DEF Shape, Loose
<1> DEFINE at == scheduled'
<1>3. at \in [Structs -> Nat] /\ timers \in Seq(Structs) BY <1>2 DEF Shape, Loose
<1>4. timers' = AddSorted(timers, current, at) OBVIOUS
<1> HIDE DEF at
<1>5. /\ timers' \in Seq(Structs)
      /\ \A x : InSeq(timers', x) <=> InSeq(timers, x) \/ x = current
      /\ Once(timers) /\ ~InSeq(timers, current) => Once(timers')
      /\ Sorted(timers, at) => Sorted(timers', at)
  <2> DEFINE ts == timers
             s == current
             r == AddSorted(ts, s, at)
  <2>1. ts \in Seq(Structs) /\ s \in Structs BY <1>1, <1>3
  <2> HIDE DEF ts, s
  <2>2. /\ r \in Seq(Structs)
        /\ \A x : InSeq(r, x) <=> InSeq(ts, x) \/ x = s
        /\ Once(ts) /\ ~InSeq(ts, s) => Once(r)
        /\ Sorted(ts, at) => Sorted(r, at)
    BY <2>1, <1>3, AddSortedKeeps
  <2>3. timers' = r BY <1>4 DEF ts, s
  <2> HIDE DEF r
  <2> QED BY <2>2, <2>3 DEF ts, s
<1> QED BY <1>1, <1>2, <1>5 DEF at

LEMMA CallbackReturnsShape ==
    ASSUME Shape, CallbackReturns
    PROVE  Shape'
<1>1. CASE Finish BY <1>1, FinishShape DEF CallbackReturns
<1>2. ASSUME NEW n \in Intervals,
             scheduled' = [scheduled EXCEPT ![current] = tick + n],
             timers' = AddSorted(timers, current, scheduled'),
             current' = NoStruct, tpc' = "loop", UNCHANGED <<unused, canceled>>
      PROVE  Shape'
  <2>1. /\ tpc = "callback"
        /\ UNCHANGED <<init, active, sem, pending, freelist, timerID, entryVars, heapVars, tick,
                       wakeAt, callVars, now, historyVars>>
    BY DEF CallbackReturns
  <2>2. /\ scheduled' \in [Structs -> Nat] /\ timers' \in Seq(Structs)
        /\ \A x : InSeq(timers', x) <=> InSeq(timers, x) \/ x = current
    BY <1>2, <2>1, AgainEffect
  <2>3. Loose' BY <1>2, <2>1, <2>2 DEF Shape, Loose, ThreadStates
  <2>4. (\A d \in Callers : CallerOK(d)') /\ ThreadOK'
    BY <1>2, <2>1 DEF Shape, CallerOK, ThreadOK
  <2>5. Numbered'
    <3> SUFFICES ASSUME NEW x \in Structs, Filled(x)' PROVE timerID'[x] \in Ids
      BY DEF Numbered
    <3>1. current' # x BY <1>2, StructsAssumption
    <3>2. Filled(x) BY <2>1, <2>2, <3>1, <1>2 DEF Filled
    <3> QED BY <3>2, <2>1 DEF Shape, Numbered
  <2>6. IdsLeft' BY <2>1, IdsLeftKept DEF Awaiting
  <2> QED BY <2>3, <2>4, <2>5, <2>6 DEF Shape
<1>3. \/ Finish
      \/ /\ \E n \in Intervals : /\ scheduled' = [scheduled EXCEPT ![current] = tick + n]
                                 /\ timers' = AddSorted(timers, current, scheduled')
         /\ current' = NoStruct /\ tpc' = "loop" /\ UNCHANGED <<unused, canceled>>
  BY DEF CallbackReturns
<1> QED BY <1>1, <1>2, <1>3

LEMMA StutterShape ==
    ASSUME Shape, UNCHANGED vars
    PROVE  Shape'
<1>1. Awaiting' = Awaiting BY DEF Awaiting, vars
<1>2. Loose' /\ (\A d \in Callers : CallerOK(d)') /\ ThreadOK'
  BY DEF Shape, Loose, CallerOK, ThreadOK, vars
<1>3. Numbered' BY NumberedKept DEF ListsStay, vars
<1>4. IdsLeft' BY <1>1, IdsLeftKept DEF vars
<1> QED BY <1>2, <1>3, <1>4 DEF Shape

LEMMA ShapeHolds == Spec => []Shape
<1>1. ASSUME Shape, Next PROVE Shape'
  <2>1. ASSUME NEW c \in Callers, Call(c) PROVE Shape'
    BY <1>1, <2>1, AddTimerShape, RemoveTimerShape DEF Call
  <2>2. ASSUME NEW c \in Callers, Continue(c) PROVE Shape'
    BY <1>1, <2>2, CheckInitShape, QuitFailedShape, PopShape, FillShape, MapShape, PendShape,
       SignalThreadShape, ReturnShape, FindShape, CheckCanceledShape, CancelShape,
       QuitSignalShape, QuitJoinShape
       DEF Continue
  <2>3. ASSUME NEW a \in Apps, Quit(a) PROVE Shape'
    BY <1>1, <2>3, QuitShape
  <2>4. CASE TimerThread
    BY <1>1, <2>4, MaintainShape, CheckActiveShape, ProcessTimersShape, CheckTimerShape,
       CallbackReturnsShape, WakeShape DEF TimerThread
  <2>5. CASE Tick BY <1>1, <2>5, TickShape
  <2> QED BY <1>1, <2>1, <2>2, <2>3, <2>4, <2>5 DEF Next
<1> QED BY <1>1, InitShape, StutterShape, PTL DEF Spec

-----------------------------------------------------------------------------
(* A timer that is allocated is in one place.                              *)

Held(s) == \E c \in Callers : ctimer[c] = s

PlaceOK(s) ==
    /\ s \in allocated <=> \/ InSeq(pending, s) \/ InSeq(freelist, s) \/ InSeq(timers, s)
                           \/ InSeq(unused, s) \/ current = s \/ Held(s)
    /\ InSeq(pending, s) => /\ ~InSeq(freelist, s) /\ ~InSeq(timers, s) /\ ~InSeq(unused, s)
                            /\ current # s /\ ~Held(s)
    /\ InSeq(freelist, s) => /\ ~InSeq(timers, s) /\ ~InSeq(unused, s)
                             /\ current # s /\ ~Held(s)
    /\ InSeq(timers, s) => ~InSeq(unused, s) /\ current # s /\ ~Held(s)
    /\ InSeq(unused, s) => current # s /\ ~Held(s)
    /\ current = s => ~Held(s)

OneHolder == \A c, d \in Callers : ctimer[c] = ctimer[d] /\ ctimer[c] \in Structs => c = d

Placed ==
    /\ Once(pending) /\ Once(freelist) /\ Once(timers) /\ Once(unused)
    /\ OneHolder
    /\ \A s \in Structs : PlaceOK(s)

placeVars == <<pending, freelist, timers, unused, current, allocated, ctimer>>

LEMMA QuietPlaced ==
    ASSUME Placed, UNCHANGED placeVars
    PROVE  Placed'
  BY DEF Placed, OneHolder, PlaceOK, Held, placeVars

LEMMA InitPlaced == Init => Placed
<1> SUFFICES ASSUME Init PROVE Placed
  OBVIOUS
<1>1. Once(pending) /\ Once(freelist) /\ Once(timers) /\ Once(unused)
  BY NothingInEmpty DEF Init
<1>2. OneHolder BY StructsAssumption DEF Init, OneHolder
<1>3. ASSUME NEW s \in Structs PROVE PlaceOK(s)
  <2>1. ~Held(s) /\ current # s BY StructsAssumption DEF Init, Held
  <2>2. ~InSeq(pending, s) /\ ~InSeq(freelist, s) /\ ~InSeq(timers, s) /\ ~InSeq(unused, s)
    BY NothingInEmpty DEF Init
  <2>3. s \notin allocated BY DEF Init
  <2> QED BY <2>1, <2>2, <2>3 DEF PlaceOK
<1> QED BY <1>1, <1>2, <1>3 DEF Placed

LEMMA PopPlaced ==
    ASSUME Shape, Placed, NEW c \in Callers, Pop(c)
    PROVE  Placed'
<1>1. cpc[c] = "pop" /\ ctimer[c] = NoStruct BY DEF Pop, Shape, CallerOK
<1>2. UNCHANGED <<pending, timers, unused, current>> BY DEF Pop
<1>3. CASE freelist # <<>> /\ freelist' = Tail(freelist)
  <2> DEFINE s == Head(freelist)
  <2>1. /\ s \in Structs /\ InSeq(freelist, s) /\ Once(Tail(freelist))
        /\ \A x : InSeq(Tail(freelist), x) <=> InSeq(freelist, x) /\ x # s
    BY <1>3, HeadTailIn DEF Shape, Loose, Placed
  <2>2. ctimer' = [ctimer EXCEPT ![c] = s] /\ UNCHANGED allocated BY <1>3 DEF Pop
  <2> HIDE DEF s
  <2>3. ~Held(s) BY <2>1 DEF Placed, PlaceOK
  <2>4. OneHolder' BY <2>2, <2>3 DEF Shape, Loose, Placed, OneHolder, Held
  <2>5. ASSUME NEW x \in Structs PROVE PlaceOK(x)'
    <3>1. Held(x)' <=> Held(x) \/ x = s
      BY <1>1, <2>2, StructsAssumption DEF Held, Shape, Loose
    <3>2. InSeq(freelist', x) <=> InSeq(freelist, x) /\ x # s BY <1>3, <2>1
    <3>3. PlaceOK(x) /\ PlaceOK(s) BY <2>1 DEF Placed
    <3> QED BY <3>1, <3>2, <3>3, <2>1, <2>2, <1>2 DEF PlaceOK
  <2>6. Once(pending') /\ Once(freelist') /\ Once(timers') /\ Once(unused')
    BY <1>2, <1>3, <2>1 DEF Placed
  <2> QED BY <2>4, <2>5, <2>6 DEF Placed
<1>4. ASSUME NEW s \in Structs \ allocated, allocated' = allocated \cup {s},
             ctimer' = [ctimer EXCEPT ![c] = s], UNCHANGED freelist
      PROVE  Placed'
  <2>1. /\ ~Held(s) /\ current # s
        /\ ~InSeq(pending, s) /\ ~InSeq(freelist, s) /\ ~InSeq(timers, s) /\ ~InSeq(unused, s)
    BY DEF Placed, PlaceOK
  <2>2. OneHolder' BY <1>4, <2>1 DEF Shape, Loose, Placed, OneHolder, Held
  <2>3. ASSUME NEW x \in Structs PROVE PlaceOK(x)'
    <3>1. Held(x)' <=> Held(x) \/ x = s
      BY <1>1, <1>4, StructsAssumption DEF Held, Shape, Loose
    <3>2. PlaceOK(x) BY DEF Placed
    <3> QED BY <3>1, <3>2, <2>1, <1>2, <1>4 DEF PlaceOK
  <2>4. Once(pending') /\ Once(freelist') /\ Once(timers') /\ Once(unused')
    BY <1>2, <1>4 DEF Placed
  <2> QED BY <2>2, <2>3, <2>4 DEF Placed
<1>5. CASE UNCHANGED <<freelist, ctimer, allocated>> BY <1>5, <1>2, QuietPlaced DEF placeVars
<1>6. \/ freelist # <<>> /\ freelist' = Tail(freelist)
      \/ /\ \E s \in Structs \ allocated :
                allocated' = allocated \cup {s} /\ ctimer' = [ctimer EXCEPT ![c] = s]
         /\ UNCHANGED freelist
      \/ UNCHANGED <<freelist, ctimer, allocated>>
  BY DEF Pop
<1> QED BY <1>3, <1>4, <1>5, <1>6

LEMMA MapPlaced ==
    ASSUME Shape, Placed, NEW c \in Callers, Map(c)
    PROVE  Placed'
<1> DEFINE s == ctimer[c]
<1>1. s \in Structs BY DEF Map, Shape, CallerOK
<1>2. UNCHANGED <<pending, freelist, timers, unused, current>> BY DEF Map
<1>3. CASE UNCHANGED <<allocated, ctimer>> BY <1>2, <1>3, QuietPlaced DEF placeVars
<1>4. CASE allocated' = allocated \ {s} /\ ctimer' = [ctimer EXCEPT ![c] = NoStruct]
  <2>1. OneHolder' BY <1>4, StructsAssumption DEF Shape, Loose, Placed, OneHolder
  <2>2. ASSUME NEW x \in Structs PROVE PlaceOK(x)'
    <3>1. Held(x)' <=> Held(x) /\ x # s
      <4>1. \A d \in Callers : ctimer'[d] = x <=> ctimer[d] = x /\ d # c
        BY <1>4, StructsAssumption DEF Shape, Loose
      <4>2. \A d \in Callers : ctimer[d] = s => d = c BY <1>1 DEF Placed, OneHolder
      <4> QED BY <4>1, <4>2 DEF Held
    <3>2. PlaceOK(x) /\ PlaceOK(s) /\ Held(s) BY <1>1 DEF Placed, Held
    <3> HIDE DEF s
    <3> QED BY <3>1, <3>2, <1>2, <1>4 DEF PlaceOK
  <2>3. Once(pending') /\ Once(freelist') /\ Once(timers') /\ Once(unused')
    BY <1>2 DEF Placed
  <2> QED BY <2>1, <2>2, <2>3 DEF Placed
<1> QED BY <1>3, <1>4 DEF Map

LEMMA PendPlaced ==
    ASSUME Shape, Placed, NEW c \in Callers, Pend(c)
    PROVE  Placed'
<1> DEFINE s == ctimer[c]
           l == <<s>> \o pending
<1>1. s \in Structs /\ Held(s) BY DEF Pend, Shape, CallerOK, Held
<1>2. PlaceOK(s) BY <1>1 DEF Placed
<1>3. /\ \A x : InSeq(l, x) <=> InSeq(pending, x) \/ x = s
      /\ Once(l)
  <2>1. <<s>> \in Seq(Structs) /\ Once(<<s>>) /\ \A x : InSeq(<<s>>, x) <=> x = s
    BY <1>1, SingletonIn
  <2>2. pending \in Seq(Structs) /\ Once(pending) BY DEF Shape, Loose, Placed
  <2>3. ~InSeq(pending, s) BY <1>1, <1>2 DEF PlaceOK
  <2> HIDE DEF s
  <2>4. \A x \in Structs : ~(InSeq(<<s>>, x) /\ InSeq(pending, x)) BY <2>1, <2>3
  <2> QED BY <2>1, <2>2, <2>4, ConcatIn, ConcatOnce
<1>4. /\ pending' = l /\ ctimer' = [ctimer EXCEPT ![c] = NoStruct]
      /\ UNCHANGED <<freelist, timers, unused, current, allocated>>
  BY DEF Pend, Pended
<1> HIDE DEF l
<1>5. OneHolder' BY <1>4, StructsAssumption DEF Shape, Loose, Placed, OneHolder
<1>6. ASSUME NEW x \in Structs PROVE PlaceOK(x)'
  <2>1. Held(x)' <=> Held(x) /\ x # s
    <3>1. \A d \in Callers : ctimer'[d] = x <=> ctimer[d] = x /\ d # c
      BY <1>4, StructsAssumption DEF Shape, Loose
    <3>2. \A d \in Callers : ctimer[d] = s => d = c BY <1>1 DEF Placed, OneHolder
    <3> QED BY <3>1, <3>2 DEF Held
  <2>2. InSeq(pending', x) <=> InSeq(pending, x) \/ x = s BY <1>3, <1>4
  <2>3. PlaceOK(x) BY DEF Placed
  <2> HIDE DEF s
  <2> QED BY <2>1, <2>2, <2>3, <1>1, <1>2, <1>4 DEF PlaceOK
<1>7. Once(pending') /\ Once(freelist') /\ Once(timers') /\ Once(unused')
  BY <1>3, <1>4 DEF Placed
<1> QED BY <1>5, <1>6, <1>7 DEF Placed

LEMMA QuitJoinPlaced ==
    ASSUME Shape, Placed, NEW c \in Callers, QuitJoin(c)
    PROVE  Placed'
<1>1. /\ allocated' = allocated \ Freed(allocated) /\ timers' = <<>> /\ freelist' = <<>>
      /\ UNCHANGED <<pending, unused, current, ctimer>>
  BY DEF QuitJoin
<1>2. ASSUME NEW x \in Structs
      PROVE  x \in allocated' <=> x \in allocated /\ ~InSeq(timers, x) /\ ~InSeq(freelist, x)
  <2> DEFINE l == timers \o freelist
  <2>1. l \in Seq(Structs) /\ (InSeq(l, x) <=> InSeq(timers, x) \/ InSeq(freelist, x))
    BY ConcatIn DEF Shape, Loose
  <2>2. DOMAIN l = 1..Len(l) BY <2>1, LenProperties
  <2>3. x \in Freed(allocated) <=> x \in allocated /\ InSeq(l, x) BY <2>2 DEF Freed, InSeq
  <2> HIDE DEF l
  <2> QED BY <2>1, <2>3, <1>1
<1>3. OneHolder' BY <1>1 DEF Placed, OneHolder
<1>4. ASSUME NEW x \in Structs PROVE PlaceOK(x)'
  <2>1. ~InSeq(timers', x) /\ ~InSeq(freelist', x) BY <1>1, NothingInEmpty
  <2>2. Held(x)' <=> Held(x) BY <1>1 DEF Held
  <2>3. PlaceOK(x) BY DEF Placed
  <2> QED BY <2>1, <2>2, <2>3, <1>1, <1>2 DEF PlaceOK
<1>5. Once(pending') /\ Once(freelist') /\ Once(timers') /\ Once(unused')
  BY <1>1, NothingInEmpty DEF Placed
<1> QED BY <1>3, <1>4, <1>5 DEF Placed

LEMMA MaintainPlaced ==
    ASSUME Shape, Placed, Maintain
    PROVE  Placed'
<1> DEFINE ts == AddPending
           fs == unused \o freelist
<1>1. \A x \in Structs : PlaceOK(x) BY DEF Placed
<1>2. Once(ts) /\ \A x : InSeq(ts, x) <=> InSeq(timers, x) \/ InSeq(pending, x)
  <2>1. \A x \in Structs : ~(InSeq(timers, x) /\ InSeq(pending, x)) BY <1>1 DEF PlaceOK
  <2> QED BY <2>1, AddPendingKeeps DEF Shape, Loose, Placed
<1>3. Once(fs) /\ \A x : InSeq(fs, x) <=> InSeq(unused, x) \/ InSeq(freelist, x)
  <2>1. \A x \in Structs : ~(InSeq(unused, x) /\ InSeq(freelist, x)) BY <1>1 DEF PlaceOK
  <2> QED BY <2>1, ConcatIn, ConcatOnce DEF Shape, Loose, Placed
<1>4. /\ timers' = ts /\ pending' = <<>> /\ freelist' = fs /\ unused' = <<>>
      /\ UNCHANGED <<current, ctimer, allocated>>
  BY DEF Maintain
<1> HIDE DEF ts, fs
<1>5. OneHolder' BY <1>4 DEF Placed, OneHolder
<1>6. ASSUME NEW x \in Structs PROVE PlaceOK(x)'
  <2>1. /\ InSeq(timers', x) <=> InSeq(timers, x) \/ InSeq(pending, x)
        /\ InSeq(freelist', x) <=> InSeq(unused, x) \/ InSeq(freelist, x)
        /\ ~InSeq(pending', x) /\ ~InSeq(unused', x)
    BY <1>2, <1>3, <1>4, NothingInEmpty
  <2>2. Held(x)' <=> Held(x) BY <1>4 DEF Held
  <2> QED BY <2>1, <2>2, <1>1, <1>4 DEF PlaceOK
<1>7. Once(pending') /\ Once(freelist') /\ Once(timers') /\ Once(unused')
  BY <1>2, <1>3, <1>4, NothingInEmpty
<1> QED BY <1>5, <1>6, <1>7 DEF Placed

LEMMA ProcessTimersPlaced ==
    ASSUME Shape, Placed, ProcessTimers
    PROVE  Placed'
<1>1. UNCHANGED <<pending, freelist, unused, ctimer, allocated>> BY DEF ProcessTimers
<1>2. CASE timers # <<>> /\ tick >= scheduled[Head(timers)]
  <2> DEFINE s == Head(timers)
  <2>1. /\ s \in Structs /\ InSeq(timers, s) /\ Once(Tail(timers))
        /\ \A x : InSeq(Tail(timers), x) <=> InSeq(timers, x) /\ x # s
    BY <1>2, HeadTailIn DEF Shape, Loose, Placed
  <2>2. current' = s /\ timers' = Tail(timers) BY <1>2 DEF ProcessTimers
  <2>3. current = NoStruct BY DEF Shape, ThreadOK, ProcessTimers
  <2> HIDE DEF s
  <2>4. OneHolder' BY <1>1 DEF Placed, OneHolder
  <2>5. ASSUME NEW x \in Structs PROVE PlaceOK(x)'
    <3>1. InSeq(timers', x) <=> InSeq(timers, x) /\ x # s BY <2>1, <2>2
    <3>2. Held(x)' <=> Held(x) BY <1>1 DEF Held
    <3>3. PlaceOK(x) /\ PlaceOK(s) /\ current # x BY <2>1, <2>3, StructsAssumption DEF Placed
    <3> QED BY <3>1, <3>2, <3>3, <2>1, <2>2, <1>1 DEF PlaceOK
  <2>6. Once(pending') /\ Once(freelist') /\ Once(timers') /\ Once(unused')
    BY <1>1, <2>1, <2>2 DEF Placed
  <2> QED BY <2>4, <2>5, <2>6 DEF Placed
<1>3. CASE ~(timers # <<>> /\ tick >= scheduled[Head(timers)])
  <2>1. UNCHANGED <<current, timers>> BY <1>3 DEF ProcessTimers
  <2> QED BY <1>1, <2>1, QuietPlaced DEF placeVars
<1> QED BY <1>2, <1>3

LEMMA FinishPlaced ==
    ASSUME Shape, Placed, tpc \in {"check", "callback"}, Finish,
           UNCHANGED <<pending, freelist, ctimer, allocated>>
    PROVE  Placed'
<1>1. current \in Structs BY DEF Shape, Loose, ThreadOK
<1>2. PlaceOK(current) BY <1>1 DEF Placed
<1>3. /\ \A x : InSeq(Append(unused, current), x) <=> InSeq(unused, x) \/ x = current
      /\ Once(Append(unused, current))
  <2>1. ~InSeq(unused, current) BY <1>2 DEF PlaceOK
  <2> QED BY <1>1, <2>1, AppendIn DEF Shape, Loose, Placed
<1>4. unused' = Append(unused, current) /\ current' = NoStruct /\ UNCHANGED timers
  BY DEF Finish
<1>5. OneHolder' BY DEF Placed, OneHolder
<1>6. ASSUME NEW x \in Structs PROVE PlaceOK(x)'
  <2>1. InSeq(unused', x) <=> InSeq(unused, x) \/ x = current BY <1>3, <1>4
  <2>2. (Held(x)' <=> Held(x)) /\ current' # x BY <1>4, StructsAssumption DEF Held
  <2>3. PlaceOK(x) BY DEF Placed
  <2> QED BY <2>1, <2>2, <2>3, <1>2, <1>4 DEF PlaceOK
<1>7. Once(pending') /\ Once(freelist') /\ Once(timers') /\ Once(unused')
  BY <1>3, <1>4 DEF Placed
<1> QED BY <1>5, <1>6, <1>7 DEF Placed

LEMMA CallbackReturnsPlaced ==
    ASSUME Shape, Placed, CallbackReturns
    PROVE  Placed'
<1>1. tpc = "callback" /\ UNCHANGED <<pending, freelist, ctimer, allocated>>
  BY DEF CallbackReturns
<1>2. CASE Finish BY <1>1, <1>2, FinishPlaced
<1>3. ASSUME NEW n \in Intervals,
             scheduled' = [scheduled EXCEPT ![current] = tick + n],
             timers' = AddSorted(timers, current, scheduled'),
             current' = NoStruct, UNCHANGED unused
      PROVE  Placed'
  <2>1. /\ current \in Structs
        /\ \A x : InSeq(timers', x) <=> InSeq(timers, x) \/ x = current
        /\ Once(timers) /\ ~InSeq(timers, current) => Once(timers')
    BY <1>1, <1>3, AgainEffect
  <2>2. PlaceOK(current) BY <2>1 DEF Placed
  <2>3. Once(timers') BY <2>1, <2>2 DEF Placed, PlaceOK
  <2>4. OneHolder' BY <1>1 DEF Placed, OneHolder
  <2>5. ASSUME NEW x \in Structs PROVE PlaceOK(x)'
    <3>1. (Held(x)' <=> Held(x)) /\ current' # x BY <1>1, <1>3, StructsAssumption DEF Held
    <3>2. PlaceOK(x) BY DEF Placed
    <3> QED BY <3>1, <3>2, <2>1, <2>2, <1>1, <1>3 DEF PlaceOK
  <2>6. Once(pending') /\ Once(freelist') /\ Once(unused') BY <1>1, <1>3 DEF Placed
  <2> QED BY <2>3, <2>4, <2>5, <2>6 DEF Placed
<1>4. \/ Finish
      \/ /\ \E n \in Intervals : /\ scheduled' = [scheduled EXCEPT ![current] = tick + n]
                                 /\ timers' = AddSorted(timers, current, scheduled')
         /\ current' = NoStruct /\ UNCHANGED unused
  BY DEF CallbackReturns
<1> QED BY <1>2, <1>3, <1>4

LEMMA PlacedHolds == Spec => []Placed
<1>1. ASSUME Shape, Placed, Next PROVE Placed'
  <2>1. ASSUME NEW c \in Callers, Call(c) PROVE Placed'
    BY <1>1, <2>1, QuietPlaced DEF Call, AddTimer, RemoveTimer, placeVars
  <2>2. ASSUME NEW c \in Callers, Continue(c) PROVE Placed'
    <3>1. CASE CheckInit(c) \/ Fill(c) \/ SignalThread(c) \/ Return(c)
      BY <1>1, <3>1, QuietPlaced DEF CheckInit, Fill, SignalThread, Return, placeVars
    <3>4. CASE QuitSignal(c) \/ QuitFailed(c)
      BY <1>1, <3>4, QuietPlaced DEF QuitSignal, QuitFailed, placeVars
    <3>2. CASE Find(c) \/ CheckCanceled(c) \/ Cancel(c)
      BY <1>1, <3>2, QuietPlaced DEF Find, CheckCanceled, Cancel, placeVars
    <3>3. CASE Pop(c) \/ Map(c) \/ Pend(c) \/ QuitJoin(c)
      BY <1>1, <3>3, PopPlaced, MapPlaced, PendPlaced, QuitJoinPlaced
    <3> QED BY <2>2, <3>1, <3>2, <3>3, <3>4 DEF Continue
  <2>3. ASSUME NEW a \in Apps, Quit(a) PROVE Placed'
    BY <1>1, <2>3, QuietPlaced DEF Quit, placeVars
  <2>4. CASE CheckActive \/ Wake \/ Tick
    BY <1>1, <2>4, QuietPlaced DEF CheckActive, Wake, Tick, placeVars
  <2>5. CASE CheckTimer
    <3>1. tpc = "check" /\ UNCHANGED <<pending, freelist, ctimer, allocated>>
      BY <2>5 DEF CheckTimer
    <3>2. Finish \/ UNCHANGED <<unused, current, timers>> BY <2>5 DEF CheckTimer
    <3> QED BY <1>1, <3>1, <3>2, FinishPlaced, QuietPlaced DEF placeVars
  <2>6. CASE Maintain \/ ProcessTimers \/ CallbackReturns
    BY <1>1, <2>6, MaintainPlaced, ProcessTimersPlaced, CallbackReturnsPlaced
  <2> QED BY <1>1, <2>1, <2>2, <2>3, <2>4, <2>5, <2>6 DEF Next, TimerThread
<1>2. ASSUME Placed, UNCHANGED vars PROVE Placed'
  BY <1>2, QuietPlaced DEF vars, placeVars
<1> QED BY <1>1, <1>2, InitPlaced, ShapeHolds, PTL DEF Spec

-----------------------------------------------------------------------------
(* From that: the number of places, and the lengths of the lists.          *)

\* An element of a list without repetition is counted once.
LEMMA CountedOnce ==
    ASSUME NEW S, NEW q \in Seq(S), Once(q), NEW s
    PROVE  Cardinality({i \in DOMAIN q : q[i] = s}) = IF InSeq(q, s) THEN 1 ELSE 0
<1> DEFINE D == {i \in DOMAIN q : q[i] = s}
<1>1. DOMAIN q = 1..Len(q) BY LenProperties
<1>2. CASE InSeq(q, s)
  <2>1. PICK i \in 1..Len(q) : q[i] = s BY <1>2 DEF InSeq
  <2>2. D = {i} BY <2>1, <1>1 DEF Once
  <2>3. Cardinality({i}) = 1 BY FS_Singleton
  <2> QED BY <2>2, <2>3, <1>2
<1>3. CASE ~InSeq(q, s)
  <2>1. D = {} BY <1>1, <1>3 DEF InSeq
  <2> QED BY <2>1, <1>3, FS_EmptySet
<1> QED BY <1>2, <1>3

\* It is no longer than the set it is a list of.
LEMMA OnceIsShort ==
    ASSUME NEW S, IsFiniteSet(S), NEW q \in Seq(S), Once(q)
    PROVE  q \in UNION {[1..n -> S] : n \in 0..Cardinality(S)}
<1>1. Len(q) \in Nat /\ q \in [1..Len(q) -> S] BY LenProperties
<1>2. q \in Injection(1..Len(q), S) BY <1>1 DEF Once, Injection, IsInjective
<1>3. Cardinality(1..Len(q)) <= Cardinality(S) BY <1>2, FS_Injection
<1>4. Cardinality(1..Len(q)) = Len(q)
  <2>1. 1 \in Int /\ Len(q) \in Int BY <1>1
  <2>2. Cardinality(1..Len(q)) = IF 1 > Len(q) THEN 0 ELSE Len(q) - 1 + 1 BY <2>1, FS_Interval
  <2> QED BY <2>2, <1>1
<1>5. Cardinality(S) \in Nat BY FS_CardinalityType
<1>6. Len(q) \in 0..Cardinality(S) BY <1>1, <1>3, <1>4, <1>5
<1> QED BY <1>1, <1>6

\* SDL_CreateTimer, SDL_TimerThread and SDL_QuitTimers: a timer that is allocated is in one
\* place, whatever the threads and the callbacks do.
THEOREM InOnePlace == Spec => []OnePlace
<1>1. ASSUME Shape, Placed PROVE OnePlace
  <2> SUFFICES ASSUME NEW s \in Structs
               PROVE  Places(s) = IF s \in allocated THEN 1 ELSE 0
    BY DEF OnePlace
  <2> DEFINE a == pending \o freelist
             b == a \o timers
             l == b \o unused
             H == {c \in Callers : ctimer[c] = s}
  <2>1. \A x \in Structs : PlaceOK(x) BY <1>1 DEF Placed
  <2>2. /\ pending \in Seq(Structs) /\ freelist \in Seq(Structs) /\ timers \in Seq(Structs)
        /\ unused \in Seq(Structs)
        /\ Once(pending) /\ Once(freelist) /\ Once(timers) /\ Once(unused)
    BY <1>1 DEF Shape, Loose, Placed
  <2>3. /\ a \in Seq(Structs)
        /\ \A x : InSeq(a, x) <=> InSeq(pending, x) \/ InSeq(freelist, x)
    BY <2>2, ConcatIn
  <2>4. Once(a)
    <3>1. \A x \in Structs : ~(InSeq(pending, x) /\ InSeq(freelist, x)) BY <2>1 DEF PlaceOK
    <3> QED BY <2>2, <3>1, ConcatOnce
  <2> HIDE DEF a
  <2>5. b \in Seq(Structs) /\ \A x : InSeq(b, x) <=> InSeq(a, x) \/ InSeq(timers, x)
    BY <2>2, <2>3, ConcatIn
  <2>6. Once(b)
    <3>1. \A x \in Structs : ~(InSeq(a, x) /\ InSeq(timers, x)) BY <2>1, <2>3 DEF PlaceOK
    <3> QED BY <2>2, <2>3, <2>4, <3>1, ConcatOnce
  <2> HIDE DEF b
  <2>7. l \in Seq(Structs) /\ \A x : InSeq(l, x) <=> InSeq(b, x) \/ InSeq(unused, x)
    BY <2>2, <2>5, ConcatIn
  <2>8. Once(l)
    <3>1. \A x \in Structs : ~(InSeq(b, x) /\ InSeq(unused, x)) BY <2>1, <2>3, <2>5 DEF PlaceOK
    <3> QED BY <2>2, <2>5, <2>6, <3>1, ConcatOnce
  <2> HIDE DEF l
  <2>9. Cardinality({i \in DOMAIN l : l[i] = s}) = IF InSeq(l, s) THEN 1 ELSE 0
    BY <2>7, <2>8, CountedOnce
  <2>10. Cardinality(H) = IF Held(s) THEN 1 ELSE 0
    <3>1. CASE Held(s)
      <4>1. PICK c \in Callers : ctimer[c] = s BY <3>1 DEF Held
      <4>2. H = {c} BY <4>1, <1>1 DEF Placed, OneHolder
      <4>3. Cardinality({c}) = 1 BY FS_Singleton
      <4> QED BY <4>2, <4>3, <3>1
    <3>2. CASE ~Held(s)
      <4>1. H = {} BY <3>2 DEF Held
      <4> QED BY <4>1, <3>2, FS_EmptySet
    <3> QED BY <3>1, <3>2
  <2>11. Places(s) = Cardinality({i \in DOMAIN l : l[i] = s}) + Cardinality(H)
                     + (IF current = s THEN 1 ELSE 0)
    BY DEF Places, l, b, a
  <2>12. InSeq(l, s) <=> \/ InSeq(pending, s) \/ InSeq(freelist, s) \/ InSeq(timers, s)
                         \/ InSeq(unused, s)
    BY <2>3, <2>5, <2>7
  <2>13. PlaceOK(s) BY <2>1
  <2> HIDE DEF H
  <2> QED BY <2>9, <2>10, <2>11, <2>12, <2>13 DEF PlaceOK
<1> QED BY <1>1, ShapeHolds, PlacedHolds, PTL

\* The variables keep their types; the lists are no longer than there are timers, and the
\* ids do not run out.
THEOREM TimerTypeCorrect == Spec => []TypeOK
<1>1. ASSUME Shape, Placed PROVE TypeOK
  <2>1. pending \in SeqOfStructs /\ freelist \in SeqOfStructs /\ timers \in SeqOfStructs
        /\ unused \in SeqOfStructs
    BY <1>1, OnceIsShort, StructsAssumption DEF Shape, Loose, Placed, SeqOfStructs
  <2> QED BY <1>1, <2>1 DEF Shape, Loose, TypeOK
<1> QED BY <1>1, ShapeHolds, PlacedHolds, PTL

-----------------------------------------------------------------------------
(* The list of the timer thread is sorted.                                 *)

\* A step that gives a listed timer no new time leaves a list in order.
LEMMA StaysSorted ==
    ASSUME NEW S, NEW q \in Seq(S), NEW f, NEW g, Sorted(q, f),
           \A s \in S : InSeq(q, s) => g[s] = f[s]
    PROVE  Sorted(q, g)
<1>1. \A i \in 1..Len(q) : g[q[i]] = f[q[i]] BY ElementOfSeq DEF InSeq
<1> QED BY <1>1 DEF Sorted

LEMMA TailSorted ==
    ASSUME NEW S, NEW q \in Seq(S), q # <<>>, NEW f, Sorted(q, f)
    PROVE  Sorted(Tail(q), f)
<1>1. /\ Len(Tail(q)) = Len(q) - 1 /\ Len(q) \in Nat
      /\ \A i \in 1..Len(q) - 1 : Tail(q)[i] = q[i + 1]
  BY HeadTailProperties, LenProperties
<1> SUFFICES ASSUME NEW i \in 1..Len(q) - 1, NEW j \in 1..Len(q) - 1, i < j
             PROVE  f[Tail(q)[i]] <= f[Tail(q)[j]]
  BY <1>1 DEF Sorted
<1>2. i + 1 \in 1..Len(q) /\ j + 1 \in 1..Len(q) /\ i + 1 < j + 1 BY <1>1
<1> QED BY <1>1, <1>2 DEF Sorted

InOrder == Sorted(timers, scheduled)

LEMMA OrderKept ==
    ASSUME Shape, Placed, InOrder, Next
    PROVE  InOrder'
<1>1. CASE UNCHANGED <<timers, scheduled>> BY <1>1 DEF InOrder
<1>2. ASSUME NEW c \in Callers, Fill(c) PROVE InOrder'
  <2> DEFINE at == scheduled'
  <2>1. UNCHANGED timers BY <1>2 DEF Fill
  <2>2. ctimer[c] \in Structs /\ Held(ctimer[c])
    BY <1>2 DEF Fill, Shape, CallerOK, Held
  <2>3. ~InSeq(timers, ctimer[c]) BY <2>2 DEF Placed, PlaceOK
  <2>4. \A s \in Structs : InSeq(timers, s) => at[s] = scheduled[s]
    BY <1>2, <2>3 DEF Fill, Shape, Loose
  <2> HIDE DEF at
  <2>9. timers \in Seq(Structs) /\ Sorted(timers, scheduled) BY DEF InOrder, Shape, Loose
  <2>5. Sorted(timers, at)
    <3> DEFINE q == timers
               f == scheduled
    <3>1. q \in Seq(Structs) /\ Sorted(q, f) BY <2>9
    <3>2. \A s \in Structs : InSeq(q, s) => at[s] = f[s] BY <2>4
    <3> HIDE DEF q, f
    <3>3. Sorted(q, at) BY <3>1, <3>2, StaysSorted
    <3> QED BY <3>3 DEF q
  <2> QED BY <2>1, <2>5 DEF InOrder, at
<1>3. ASSUME NEW c \in Callers, QuitJoin(c) PROVE InOrder'
  <2>1. timers' = <<>> BY <1>3 DEF QuitJoin
  <2>2. \A f : Sorted(<<>>, f) BY EmptySeq DEF Sorted
  <2> QED BY <2>1, <2>2 DEF InOrder
<1>4. CASE Maintain
  <2>1. timers' = AddPending /\ UNCHANGED scheduled BY <1>4 DEF Maintain
  <2>2. Sorted(AddPending, scheduled) BY AddPendingKeeps DEF Shape, Loose, InOrder
  <2> QED BY <2>1, <2>2 DEF InOrder
<1>5. CASE ProcessTimers
  <2>1. CASE timers # <<>> /\ timers' = Tail(timers)
    <3>1. Sorted(Tail(timers), scheduled) BY <2>1, TailSorted DEF Shape, Loose, InOrder
    <3> QED BY <1>5, <2>1, <3>1 DEF ProcessTimers, InOrder
  <2> QED BY <1>5, <2>1, <1>1 DEF ProcessTimers
<1>6. CASE CheckTimer BY <1>6, <1>1 DEF CheckTimer, Finish
<1>7. CASE CallbackReturns
  <2>1. tpc = "callback" BY <1>7 DEF CallbackReturns
  <2>2. ASSUME NEW n \in Intervals,
               scheduled' = [scheduled EXCEPT ![current] = tick + n],
               timers' = AddSorted(timers, current, scheduled')
        PROVE  InOrder'
    <3> DEFINE at == scheduled'
    <3>1. /\ current \in Structs
          /\ Sorted(timers, at) => Sorted(timers', at)
      BY <2>1, <2>2, AgainEffect
    <3>2. ~InSeq(timers, current) BY <3>1 DEF Placed, PlaceOK
    <3>3. \A s \in Structs : InSeq(timers, s) => at[s] = scheduled[s]
      BY <2>2, <3>2 DEF Shape, Loose
    <3> HIDE DEF at
    <3>9. timers \in Seq(Structs) /\ Sorted(timers, scheduled) BY DEF InOrder, Shape, Loose
    <3>4. Sorted(timers, at) BY <3>3, <3>9, StaysSorted
    <3> QED BY <3>1, <3>4 DEF InOrder, at
  <2> QED BY <1>7, <2>2, <1>1 DEF CallbackReturns, Finish
<1>8. ASSUME NEW c \in Callers, Call(c) \/ Continue(c) PROVE InOrder'
  <2>1. CASE AddTimer(c) \/ \E i \in Ids : RemoveTimer(c, i)
    BY <2>1, <1>1 DEF AddTimer, RemoveTimer
  <2>2. CASE \/ CheckInit(c) \/ Pop(c) \/ Map(c) \/ Pend(c) \/ SignalThread(c) \/ Return(c)
             \/ QuitSignal(c) \/ QuitFailed(c)
    BY <2>2, <1>1 DEF CheckInit, Pop, Map, Pend, SignalThread, Return, QuitSignal, QuitFailed
  <2>3. CASE Find(c) \/ CheckCanceled(c) \/ Cancel(c)
    BY <2>3, <1>1 DEF Find, CheckCanceled, Cancel
  <2> QED BY <1>8, <1>2, <1>3, <2>1, <2>2, <2>3 DEF Call, Continue
<1>9. CASE CheckActive \/ Wake \/ Tick BY <1>9, <1>1 DEF CheckActive, Wake, Tick
<1>10. ASSUME NEW a \in Apps, Quit(a) PROVE InOrder' BY <1>10, <1>1 DEF Quit
<1> QED BY <1>4, <1>5, <1>6, <1>7, <1>8, <1>9, <1>10 DEF Next, TimerThread

LEMMA OrderHolds == Spec => []InOrder
<1>1. Init => InOrder
  <2>1. \A f : Sorted(<<>>, f) BY EmptySeq DEF Sorted
  <2> QED BY <2>1 DEF Init, InOrder
<1>2. ASSUME InOrder, UNCHANGED vars PROVE InOrder'
  BY <1>2 DEF InOrder, vars
<1> QED BY <1>1, <1>2, OrderKept, ShapeHolds, PlacedHolds, PTL DEF Spec

\* SDL_AddTimerInternal: the list of the timer thread stays sorted by time, whatever is
\* pending and whatever the callbacks return.
THEOREM StaysInOrder == Spec => []TimersSorted
<1>1. ASSUME Shape, InOrder PROVE TimersSorted
  <2>1. DOMAIN timers = 1..Len(timers) BY <1>1, LenProperties DEF Shape, Loose
  <2> QED BY <1>1, <2>1 DEF InOrder, Sorted, TimersSorted
<1> QED BY <1>1, ShapeHolds, OrderHolds, PTL

-----------------------------------------------------------------------------
(* The map names the timer that has the id.                                *)

NotMapped(s) == \A i \in Ids : entry[i] = "mapped" => owner[i] # s

\* A caller fills in a timer only when no entry names it any more.
HandsOK(c) ==
    /\ cpc[c] \in {"fill", "map"} => NotMapped(ctimer[c])
    /\ cpc[c] \in {"check", "cancel"} /\ ctimer[c] \in Structs => NotMapped(ctimer[c])
    /\ cpc[c] = "find" /\ ctimer[c] \in Structs => rid[c] = timerID[ctimer[c]]
    /\ cpc[c] = "map" => cid[c] = timerID[ctimer[c]]

MapOK == MapIsCurrent /\ \A c \in Callers : HandsOK(c)

\* A step that maps nothing and changes no id.
LEMMA MapKept ==
    ASSUME MapOK, UNCHANGED <<owner, timerID>>,
           \A i \in Ids : entry'[i] = "mapped" => entry[i] = "mapped",
           allocated \subseteq allocated'
    PROVE  /\ MapIsCurrent'
           /\ \A s : NotMapped(s) => NotMapped(s)'
           /\ \A d \in Callers : UNCHANGED <<cpc[d], ctimer[d], rid[d], cid[d]>> => HandsOK(d)'
<1>1. \A s : NotMapped(s) => NotMapped(s)' BY DEF NotMapped
<1>2. MapIsCurrent' BY DEF MapOK, MapIsCurrent
<1>3. ASSUME NEW d \in Callers, UNCHANGED <<cpc[d], ctimer[d], rid[d], cid[d]>>
      PROVE  HandsOK(d)'
  <2>1. HandsOK(d) BY DEF MapOK
  <2>2. cpc[d] \in {"fill", "map"} => NotMapped(ctimer[d])'
    BY <1>1, <1>3, <2>1 DEF HandsOK, NotMapped
  <2>3. cpc[d] \in {"check", "cancel"} /\ ctimer[d] \in Structs => NotMapped(ctimer[d])'
    BY <1>1, <1>3, <2>1 DEF HandsOK, NotMapped
  <2> QED BY <1>3, <2>1, <2>2, <2>3 DEF HandsOK
<1> QED BY <1>1, <1>2, <1>3

\* One caller moves on, to where nothing is asked of its hands.
LEMMA QuietMap ==
    ASSUME Shape, MapOK, UNCHANGED <<entry, owner, timerID>>, allocated \subseteq allocated',
           NEW c \in Callers,
           \A d \in Callers \ {c} : UNCHANGED <<cpc[d], ctimer[d], rid[d], cid[d]>>,
           \/ UNCHANGED <<cpc[c], ctimer[c], rid[c], cid[c]>>
           \/ cpc'[c] \notin {"find", "check", "cancel", "fill", "map"}
           \/ cpc'[c] = "find" /\ ctimer'[c] = NoStruct
    PROVE  MapOK'
<1>1. /\ MapIsCurrent'
      /\ \A d \in Callers : UNCHANGED <<cpc[d], ctimer[d], rid[d], cid[d]>> => HandsOK(d)'
  BY MapKept
<1>2. HandsOK(c)'
  <2>1. CASE cpc'[c] \notin {"find", "check", "cancel", "fill", "map"}
    BY <2>1 DEF HandsOK
  <2>2. CASE cpc'[c] = "find" /\ ctimer'[c] = NoStruct
    BY <2>2, StructsAssumption DEF HandsOK
  <2> QED BY <1>1, <2>1, <2>2
<1> QED BY <1>1, <1>2 DEF MapOK

LEMMA PopMap ==
    ASSUME Shape, Placed, MapOK, NEW c \in Callers, Pop(c)
    PROVE  MapOK'
<1>1. UNCHANGED <<entry, owner, timerID, cid>> /\ cpc[c] = "pop" BY DEF Pop
<1>2. allocated \subseteq allocated' BY DEF Pop
<1>3. \A d \in Callers \ {c} : UNCHANGED <<cpc[d], ctimer[d], rid[d], cid[d]>>
  BY DEF Pop, Shape, Loose
<1>4. /\ MapIsCurrent'
      /\ \A s : NotMapped(s) => NotMapped(s)'
      /\ \A d \in Callers \ {c} : HandsOK(d)'
  BY <1>1, <1>2, <1>3, MapKept
<1>5. HandsOK(c)'
  <2>1. CASE cpc'[c] = "find"
    <3> DEFINE s == Head(freelist)
    <3>1. rid' = [rid EXCEPT ![c] = timerID[s]] /\ ctimer' = [ctimer EXCEPT ![c] = s]
      BY <2>1 DEF Pop, AfterPop, Shape, Loose
    <3> HIDE DEF s
    <3>2. rid'[c] = timerID[s] /\ ctimer'[c] = s BY <3>1 DEF Shape, Loose
    <3> QED BY <2>1, <3>2, <1>1 DEF HandsOK
  <2>2. CASE cpc'[c] = "fill"
    <3>1. PICK s \in Structs \ allocated : ctimer' = [ctimer EXCEPT ![c] = s]
      BY <2>2 DEF Pop, AfterPop, Shape, Loose
    <3>2. ctimer'[c] = s BY <3>1 DEF Shape, Loose
    <3>3. NotMapped(s) BY <3>1 DEF MapOK, MapIsCurrent, NotMapped
    <3>4. NotMapped(ctimer[c])' BY <3>2, <3>3, <1>1 DEF NotMapped
    <3> QED BY <2>2, <3>4 DEF HandsOK
  <2>3. CASE cpc'[c] = "idle" BY <2>3 DEF HandsOK
  <2>4. cpc'[c] \in {"find", "fill", "idle"} BY DEF Pop, AfterPop, Shape, Loose
  <2> QED BY <2>1, <2>2, <2>3, <2>4
<1> QED BY <1>4, <1>5 DEF MapOK

LEMMA FillMap ==
    ASSUME Shape, Placed, MapOK, NEW c \in Callers, Fill(c)
    PROVE  MapOK'
<1> DEFINE s == ctimer[c]
           new == lastId + 1
<1>1. cpc[c] = "fill" /\ s \in Structs /\ NotMapped(s)
  BY DEF Fill, Shape, CallerOK, MapOK, HandsOK
<1>2. /\ timerID' = [timerID EXCEPT ![s] = new] /\ cid' = [cid EXCEPT ![c] = new]
      /\ cpc' = [cpc EXCEPT ![c] = "map"]
      /\ UNCHANGED <<entry, owner, allocated, ctimer, rid>>
  BY DEF Fill
<1>3. \A d \in Callers \ {c} : ctimer[d] # s BY <1>1 DEF Placed, OneHolder
<1> HIDE DEF new
<1>4. MapIsCurrent'
  <2> SUFFICES ASSUME NEW i \in Ids, entry'[i] = "mapped"
               PROVE  owner'[i] \in allocated' /\ timerID'[owner'[i]] = i
    BY DEF MapIsCurrent
  <2>1. owner[i] \in allocated /\ timerID[owner[i]] = i /\ owner[i] # s
    BY <1>1, <1>2 DEF MapOK, MapIsCurrent, NotMapped
  <2> QED BY <2>1, <1>2 DEF Shape, Loose
<1>5. ASSUME NEW d \in Callers \ {c} PROVE HandsOK(d)'
  <2>1. HandsOK(d) /\ UNCHANGED <<cpc[d], ctimer[d], rid[d], cid[d]>>
    BY <1>2 DEF MapOK, Shape, Loose
  <2>2. NotMapped(ctimer[d]) => NotMapped(ctimer[d])' BY <1>2 DEF NotMapped
  <2>3. cpc[d] \in {"find", "map"} /\ ctimer[d] \in Structs
        => timerID'[ctimer[d]] = timerID[ctimer[d]]
    BY <1>2, <1>3 DEF Shape, Loose
  <2>4. cpc[d] = "map" => ctimer[d] \in Structs BY DEF Shape, CallerOK
  <2> QED BY <2>1, <2>2, <2>3, <2>4 DEF HandsOK
<1>6. HandsOK(c)'
  <2>1. cpc'[c] = "map" /\ cid'[c] = new /\ ctimer'[c] = s /\ timerID'[s] = new
    BY <1>1, <1>2 DEF Shape, Loose
  <2>2. NotMapped(ctimer[c])' BY <1>1, <1>2 DEF NotMapped
  <2> QED BY <2>1, <2>2 DEF HandsOK
<1> QED BY <1>4, <1>5, <1>6 DEF MapOK

LEMMA MapMap ==
    ASSUME Shape, Placed, MapOK, NEW c \in Callers, Map(c)
    PROVE  MapOK'
<1> DEFINE s == ctimer[c]
           i == cid[c]
<1>1. /\ cpc[c] = "map" /\ s \in Structs /\ NotMapped(s) /\ i = timerID[s] /\ i \in Ids
      /\ UNCHANGED <<timerID, rid>>
  BY DEF Map, Shape, CallerOK, MapOK, HandsOK
<1>2. s \in allocated BY <1>1 DEF Placed, PlaceOK, Held
<1>3. \A d \in Callers \ {c} : ctimer[d] # s BY <1>1 DEF Placed, OneHolder
<1>4. \A d \in Callers \ {c} : UNCHANGED <<cpc[d], ctimer[d], rid[d], cid[d]>>
  BY DEF Map, Shape, Loose
<1>5. cpc'[c] \in {"pend", "idle"} BY DEF Map, Shape, Loose
<1>6. HandsOK(c)' BY <1>5 DEF HandsOK
<1>7. CASE entry' = [entry EXCEPT ![i] = "mapped"] /\ owner' = [owner EXCEPT ![i] = s]
           /\ UNCHANGED allocated
  <2> HIDE DEF s, i
  <2>1. \A j \in Ids : IF j = i THEN entry'[j] = "mapped" /\ owner'[j] = s
                                ELSE entry'[j] = entry[j] /\ owner'[j] = owner[j]
    BY <1>7 DEF Shape, Loose
  <2>2. MapIsCurrent' BY <2>1, <1>1, <1>2, <1>7 DEF MapOK, MapIsCurrent
  <2>3. ASSUME NEW d \in Callers \ {c} PROVE HandsOK(d)'
    <3>1. HandsOK(d) /\ ctimer[d] # s BY <1>3 DEF MapOK
    <3>2. NotMapped(ctimer[d]) => NotMapped(ctimer[d])'
      BY <2>1, <3>1, <1>4 DEF NotMapped
    <3> QED BY <3>1, <3>2, <1>4, <1>1 DEF HandsOK
  <2> QED BY <2>2, <2>3, <1>6 DEF MapOK
<1>8. CASE allocated' = allocated \ {s} /\ UNCHANGED entryVars
  <2>1. MapIsCurrent' BY <1>1, <1>8 DEF MapOK, MapIsCurrent, NotMapped
  <2>2. ASSUME NEW d \in Callers \ {c} PROVE HandsOK(d)'
    <3>1. HandsOK(d) BY DEF MapOK
    <3>2. NotMapped(ctimer[d]) => NotMapped(ctimer[d])' BY <1>4, <1>8 DEF NotMapped
    <3> QED BY <3>1, <3>2, <1>4, <1>1 DEF HandsOK
  <2> QED BY <2>1, <2>2, <1>6 DEF MapOK
<1> QED BY <1>7, <1>8 DEF Map

LEMMA FindMap ==
    ASSUME Shape, MapOK, NEW c \in Callers, Find(c)
    PROVE  MapOK'
<1>1. /\ cpc[c] = "find" /\ rid[c] \in Ids
      /\ UNCHANGED <<owner, timerID, allocated, ctimer, cid>>
  BY DEF Find, Shape, CallerOK
<1>2. \A i \in Ids : entry'[i] = "mapped" => entry[i] = "mapped" /\ i # rid[c]
  BY <1>1 DEF Find, Shape, Loose
<1>3. \A d \in Callers \ {c} : UNCHANGED <<cpc[d], ctimer[d], rid[d], cid[d]>>
  BY <1>1 DEF Find, Shape, Loose
<1>4. MapIsCurrent' /\ \A d \in Callers \ {c} : HandsOK(d)' BY <1>1, <1>2, <1>3, MapKept
<1>5. ctimer[c] \in Structs => NotMapped(ctimer[c])'
  <2> SUFFICES ASSUME ctimer[c] \in Structs, NEW i \in Ids, entry'[i] = "mapped",
                      owner'[i] = ctimer'[c]
               PROVE  FALSE
    BY DEF NotMapped
  <2>1. rid[c] = timerID[ctimer[c]] BY <1>1 DEF MapOK, HandsOK
  <2>2. timerID[owner[i]] = i BY <1>2 DEF MapOK, MapIsCurrent
  <2> QED BY <2>1, <2>2, <1>1, <1>2
<1>6. /\ cpc'[c] \in {"check", "fill", "idle"}
      /\ cpc'[c] = "fill" => ctimer[c] \in Structs
  BY <1>1 DEF Find, AfterRemove, Shape, Loose
<1>7. HandsOK(c)' BY <1>1, <1>5, <1>6 DEF HandsOK
<1> QED BY <1>4, <1>7 DEF MapOK

\* SDL_RemoveTimer goes on with an entry it has unlinked.
LEMMA RemoveMap ==
    ASSUME Shape, MapOK, NEW c \in Callers, CheckCanceled(c) \/ Cancel(c)
    PROVE  MapOK'
<1>1. /\ cpc[c] \in {"check", "cancel"}
      /\ UNCHANGED <<owner, timerID, allocated, ctimer, cid>>
  BY DEF CheckCanceled, Cancel
<1>2. \A i \in Ids : entry'[i] = "mapped" => entry[i] = "mapped"
  BY DEF CheckCanceled, Cancel, Shape, Loose
<1>3. \A d \in Callers \ {c} : UNCHANGED <<cpc[d], ctimer[d], rid[d], cid[d]>>
  BY <1>1 DEF CheckCanceled, Cancel, Shape, Loose
<1>4. /\ MapIsCurrent' /\ \A d \in Callers \ {c} : HandsOK(d)'
      /\ \A s : NotMapped(s) => NotMapped(s)'
  BY <1>1, <1>2, <1>3, MapKept
<1>5. ctimer[c] \in Structs => NotMapped(ctimer[c])'
  BY <1>1, <1>2 DEF MapOK, HandsOK, NotMapped
<1>6. /\ cpc'[c] \in {"cancel", "fill", "idle"}
      /\ cpc'[c] = "fill" => ctimer[c] \in Structs
  BY <1>1 DEF CheckCanceled, Cancel, AfterRemove, Shape, Loose
<1>7. HandsOK(c)' BY <1>1, <1>5, <1>6 DEF HandsOK
<1> QED BY <1>4, <1>7 DEF MapOK

LEMMA QuitJoinMap ==
    ASSUME Shape, MapOK, NEW c \in Callers, QuitJoin(c)
    PROVE  MapOK'
<1>1. \A i \in Ids : entry'[i] # "mapped" BY DEF QuitJoin
<1>2. UNCHANGED <<owner, timerID, ctimer, cid, rid>> /\ cpc' = [cpc EXCEPT ![c] = "idle"]
  BY DEF QuitJoin
<1>3. \A s : NotMapped(s)' BY <1>1 DEF NotMapped
<1>4. ASSUME NEW d \in Callers PROVE HandsOK(d)'
  <2>1. HandsOK(d) BY DEF MapOK
  <2>2. cpc'[d] = "idle" \/ cpc'[d] = cpc[d] BY <1>2 DEF Shape, Loose
  <2>3. NotMapped(ctimer[d])' BY <1>1 DEF NotMapped
  <2> QED BY <2>1, <2>2, <2>3, <1>2 DEF HandsOK
<1>5. MapIsCurrent' BY <1>1 DEF MapIsCurrent
<1> QED BY <1>4, <1>5 DEF MapOK

LEMMA CallMap ==
    ASSUME Shape, MapOK, NEW c \in Callers, Call(c)
    PROVE  MapOK'
<1>1. /\ UNCHANGED <<entry, owner, timerID, allocated>> /\ ctimer' = ctimer /\ cpc[c] = "idle"
      /\ \A d \in Callers \ {c} : UNCHANGED <<cpc[d], ctimer[d], rid[d], cid[d]>>
      /\ cpc'[c] \in {"init", "find"}
  BY DEF Call, AddTimer, RemoveTimer, CanCall, Shape, Loose
<1>2. ctimer[c] = NoStruct BY <1>1 DEF Shape, CallerOK
<1> QED BY <1>1, <1>2, QuietMap

LEMMA MapHolds == Spec => []MapOK
<1>1. Init => MapOK
  <2> SUFFICES ASSUME Init PROVE MapOK
    OBVIOUS
  <2>1. MapIsCurrent BY DEF Init, MapIsCurrent
  <2>2. \A c \in Callers : HandsOK(c) BY DEF Init, HandsOK
  <2> QED BY <2>1, <2>2 DEF MapOK
<1>2. ASSUME Shape, Placed, MapOK, Next PROVE MapOK'
  <2>1. ASSUME NEW c \in Callers,
               \/ CheckInit(c) \/ Pend(c) \/ SignalThread(c) \/ Return(c)
               \/ QuitSignal(c) \/ QuitFailed(c)
        PROVE  MapOK'
    <3>1. UNCHANGED <<entry, owner, timerID, allocated>>
      BY <2>1 DEF CheckInit, Pend, SignalThread, Return, QuitSignal, QuitFailed
    <3>2. \A d \in Callers \ {c} : UNCHANGED <<cpc[d], ctimer[d], rid[d], cid[d]>>
      BY <1>2, <2>1
         DEF CheckInit, Pend, SignalThread, Return, QuitSignal, QuitFailed, Shape, Loose
    <3>3. cpc'[c] \in {"pop", "idle", "init", "fail", "signal", "return", "join", "cleanup"}
      BY <1>2, <2>1
         DEF CheckInit, Pend, SignalThread, Return, QuitSignal, QuitFailed, Shape, Loose
    <3> QED BY <1>2, <3>1, <3>2, <3>3, QuietMap
  <2>2. ASSUME NEW c \in Callers, Continue(c) PROVE MapOK'
    BY <1>2, <2>1, <2>2, PopMap, FillMap, MapMap, FindMap, RemoveMap, QuitJoinMap DEF Continue
  <2>3. ASSUME NEW a \in Apps, Quit(a) PROVE MapOK'
    <3>1. a \in Callers BY DEF Callers
    <3>2. /\ UNCHANGED <<entry, owner, timerID, allocated>> /\ cpc'[a] = "quit"
          /\ \A d \in Callers \ {a} : UNCHANGED <<cpc[d], ctimer[d], rid[d], cid[d]>>
      BY <1>2, <2>3, <3>1 DEF Quit, Shape, Loose
    <3> QED BY <1>2, <3>1, <3>2, QuietMap
  <2>4. CASE TimerThread \/ Tick
    <3>1. UNCHANGED <<entryVars, callVars, timerID, allocated>>
      BY <2>4 DEF TimerThread, Maintain, CheckActive, ProcessTimers, CheckTimer, CallbackReturns,
                  Wake, Tick
    <3>2. MapIsCurrent' /\ \A d \in Callers : HandsOK(d)' BY <1>2, <3>1, MapKept
    <3> QED BY <3>2 DEF MapOK
  <2> QED BY <1>2, <2>2, <2>3, <2>4, CallMap DEF Next
<1>3. ASSUME MapOK, UNCHANGED vars PROVE MapOK'
  <2>1. MapIsCurrent' /\ \A d \in Callers : HandsOK(d)' BY <1>3, MapKept DEF vars
  <2> QED BY <2>1 DEF MapOK
<1> QED BY <1>1, <1>2, <1>3, ShapeHolds, PlacedHolds, PTL DEF Spec

\* SDL_CreateTimer takes a recycled timer's old entry out of the map before it fills in the
\* new id: an entry that is mapped names an allocated timer that still has that id.
THEOREM MapStaysCurrent == Spec => []MapIsCurrent
<1>1. MapOK => MapIsCurrent BY DEF MapOK
<1> QED BY <1>1, MapHolds, PTL

-----------------------------------------------------------------------------
(* The timer thread does not sleep past a timer.                           *)

\* Somebody has signalled the thread, or will, when there is something to wake up for; and
\* it wakes up for the timers it knows.
Awake ==
    /\ tpc \in {"active", "loop", "check", "callback", "wait"} /\ pending # <<>>
          => sem > 0 \/ \E c \in Callers : cpc[c] = "signal"
    /\ ~active => \/ tpc \in {"maintain", "active", "off"}
                  \/ sem > 0 \/ \E c \in Callers : cpc[c] = "quit"
    /\ tpc = "wait" => \A i \in 1..Len(timers) : wakeAt <= scheduled[timers[i]]

\* A caller that fails to start the thread is alone with the timers until it has quit them:
\* there is no thread, and nobody else starts one or quits.
Quitting == {"fail", "quit", "join", "cleanup"}
StartOK ==
    /\ cpc[Callback] # "idle" => tpc = "callback"
    /\ \A c \in Callers : cpc[c] = "fail" => init = "INITIALIZED" /\ tpc = "off"
    /\ \A c \in Callers : cpc[c] \in {"quit", "join", "cleanup"} => init = "UNINITIALIZING"
    /\ \A c, d \in Callers : cpc[c] \in Quitting /\ cpc[d] \in Quitting => c = d

\* A step that begins no quit.
LEMMA QuietStart ==
    ASSUME StartOK, UNCHANGED <<init, tpc>>,
           \A d \in Callers : cpc'[d] = cpc[d] \/ cpc'[d] \notin Quitting,
           cpc'[Callback] # "idle" => cpc[Callback] # "idle" \/ tpc = "callback"
    PROVE  StartOK'
  BY DEF StartOK, Quitting

LEMMA CallerStart ==
    ASSUME Shape, StartOK, NEW c \in Callers, Call(c) \/ Continue(c)
    PROVE  StartOK'
<1>0. cpc \in [Callers -> CallStates] /\ Callback \in Callers BY DEF Shape, Loose, Callers
<1>1. CASE Call(c)
  <2>1. /\ UNCHANGED <<init, tpc>> /\ (c = Callback => tpc = "callback")
        /\ cpc' = [cpc EXCEPT ![c] = "init"] \/ cpc' = [cpc EXCEPT ![c] = "find"]
    BY <1>1 DEF Call, AddTimer, RemoveTimer, CanCall
  <2> QED BY <1>0, <2>1, QuietStart DEF Quitting
<1>2. CASE CheckInit(c)
  <2>1. CASE UNCHANGED <<init, tpc>> /\ cpc' = [cpc EXCEPT ![c] = "pop"]
    <3>1. cpc[c] = "init" BY <1>2 DEF CheckInit
    <3> QED BY <1>0, <2>1, <3>1, QuietStart DEF Quitting
  <2>2. CASE /\ init = "UNINITIALIZED" /\ init' = "INITIALIZED"
             /\ \/ cpc' = [cpc EXCEPT ![c] = "pop"]
                \/ cpc' = [cpc EXCEPT ![c] = "fail"] /\ tpc' = tpc
    <3>1. tpc = "off" BY <2>2 DEF Shape, ThreadOK
    <3>2. cpc[Callback] = "idle" BY <3>1 DEF StartOK
    <3>3. cpc[c] = "init" BY <1>2 DEF CheckInit
    <3>4. \A d \in Callers : cpc[d] \notin Quitting BY <2>2 DEF StartOK, Quitting
    <3>5. \A d \in Callers : d # c => cpc'[d] = cpc[d] BY <1>0, <2>2
    <3>6. cpc'[Callback] = "idle" BY <1>0, <3>2, <3>3, <3>5
    <3>7. cpc'[c] = "pop" \/ (cpc'[c] = "fail" /\ tpc' = "off") BY <1>0, <2>2, <3>1
    <3> QED BY <2>2, <3>4, <3>5, <3>6, <3>7 DEF StartOK, Quitting
  <2> QED BY <1>2, <2>1, <2>2 DEF CheckInit
<1>3. CASE QuitFailed(c) \/ QuitSignal(c)
  <2>1. /\ tpc' = tpc /\ init' = "UNINITIALIZING" /\ cpc[c] \in {"fail", "quit"}
        /\ cpc' = [cpc EXCEPT ![c] = "cleanup"] \/ cpc' = [cpc EXCEPT ![c] = "join"]
    BY <1>3 DEF QuitFailed, QuitSignal, StartOK
  <2>2. \A d \in Callers : d # c => cpc'[d] = cpc[d] /\ cpc[d] \notin Quitting
    BY <1>0, <2>1 DEF StartOK, Quitting
  <2>3. cpc'[c] \in {"cleanup", "join"} /\ cpc[c] # "idle" BY <1>0, <2>1
  <2> QED BY <1>0, <2>1, <2>2, <2>3 DEF StartOK, Quitting
<1>4. CASE QuitJoin(c)
  <2>1. /\ tpc' = tpc /\ cpc[c] \in {"join", "cleanup"} /\ cpc' = [cpc EXCEPT ![c] = "idle"]
    BY <1>4 DEF QuitJoin
  <2>2. \A d \in Callers : d # c => cpc'[d] = cpc[d] /\ cpc[d] \notin Quitting
    BY <1>0, <2>1 DEF StartOK, Quitting
  <2>3. cpc'[c] = "idle" BY <1>0, <2>1
  <2> QED BY <1>0, <2>1, <2>2, <2>3 DEF StartOK, Quitting
<1>5. CASE Pop(c) \/ Fill(c) \/ Map(c) \/ Pend(c) \/ SignalThread(c) \/ Return(c)
  <2>1. UNCHANGED <<init, tpc>> /\ cpc[c] # "idle"
    BY <1>5 DEF Pop, Fill, Map, Pend, SignalThread, Return
  <2>2. \E x \in {"idle", "find", "fill", "map", "pend", "signal", "return"} :
           cpc' = [cpc EXCEPT ![c] = x]
    BY <1>5 DEF Pop, AfterPop, Fill, Map, Pend, SignalThread, Return
  <2>3. \A d \in Callers : cpc'[d] = cpc[d] \/ (d = c /\ cpc'[d] \notin Quitting)
    BY <1>0, <2>2 DEF Quitting
  <2> QED BY <1>0, <2>1, <2>3, QuietStart
<1>6. CASE Find(c) \/ CheckCanceled(c) \/ Cancel(c)
  <2>1. UNCHANGED <<init, tpc>> /\ cpc[c] # "idle"
    BY <1>6 DEF Find, CheckCanceled, Cancel
  <2>2. \E x \in {"check", "cancel", "fill", "idle"} : cpc' = [cpc EXCEPT ![c] = x]
    <3>1. AfterRemove(c) \in {"fill", "idle"} BY DEF AfterRemove
    <3> QED BY <1>6, <3>1 DEF Find, CheckCanceled, Cancel
  <2>3. \A d \in Callers : cpc'[d] = cpc[d] \/ (d = c /\ cpc'[d] \notin Quitting)
    BY <1>0, <2>2 DEF Quitting
  <2> QED BY <1>0, <2>1, <2>3, QuietStart
<1> QED BY <1>1, <1>2, <1>3, <1>4, <1>5, <1>6 DEF Continue

LEMMA StartHolds == Spec => []StartOK
<1>1. Init => StartOK BY DEF Init, StartOK, Quitting, Callers
<1>2. ASSUME Shape, StartOK, Next PROVE StartOK'
  <2>1. ASSUME NEW a \in Apps, Quit(a) PROVE StartOK'
    <3>1. /\ a \in Callers /\ Callback \in Callers /\ a # Callback
          /\ cpc \in [Callers -> CallStates]
      BY <1>2, CallersAssumption DEF Callers, Shape, Loose
    <3>2. /\ init = "INITIALIZED" /\ init' = "UNINITIALIZING" /\ tpc' = tpc
          /\ cpc' = [cpc EXCEPT ![a] = "quit"] /\ \A b \in Apps : cpc[b] = "idle"
      BY <2>1 DEF Quit
    <3>3. cpc[Callback] # "fail" BY <1>2, <3>1 DEF StartOK
    <3>4. cpc[Callback] \notin Quitting BY <1>2, <3>1, <3>2, <3>3 DEF StartOK, Quitting
    <3>5. \A d \in Callers : d # a => cpc'[d] = cpc[d] /\ cpc[d] \notin Quitting
      BY <3>1, <3>2, <3>4 DEF Callers, Quitting
    <3>6. cpc'[a] = "quit" BY <3>1, <3>2
    <3> QED BY <1>2, <3>1, <3>2, <3>5, <3>6 DEF StartOK, Quitting
  <2>2. CASE TimerThread
    <3>1. /\ UNCHANGED <<init, cpc>> /\ (tpc = "callback" => cpc[Callback] = "idle")
          /\ tpc # "off"
      BY <2>2 DEF TimerThread, Maintain, CheckActive, ProcessTimers, CheckTimer, CallbackReturns,
                  Wake
    <3> QED BY <1>2, <3>1 DEF StartOK
  <2>3. CASE Tick BY <1>2, <2>3 DEF Tick, StartOK
  <2> QED BY <1>2, <2>1, <2>2, <2>3, CallerStart DEF Next
<1>3. ASSUME StartOK, UNCHANGED vars PROVE StartOK'
  BY <1>3 DEF StartOK, vars
<1> QED BY <1>1, <1>2, <1>3, ShapeHolds, PTL DEF Spec

\* A step of a caller that is not one that signals, and leaves what Awake speaks of.
LEMMA QuietAwake ==
    ASSUME Awake, UNCHANGED <<pending, active, sem, tpc, timers, wakeAt, scheduled>>,
           \A c \in Callers : cpc[c] \in {"signal", "quit"} => cpc'[c] = cpc[c]
    PROVE  Awake'
  BY DEF Awake

LEMMA CallerAwake ==
    ASSUME Shape, Placed, StartOK, Awake, NEW c \in Callers, Call(c) \/ Continue(c)
    PROVE  Awake'
<1>1. CASE Call(c)
  BY <1>1, QuietAwake DEF Call, AddTimer, RemoveTimer, CanCall, Shape, Loose
<1>2. CASE CheckInit(c)
  <2>1. CASE init = "UNINITIALIZED" /\ tpc' = "maintain" /\ active' = TRUE
    BY <2>1 DEF Awake
  <2>2. CASE UNCHANGED <<active, sem, tpc>>
    <3>1. /\ UNCHANGED <<pending, timers, wakeAt, scheduled>>
          /\ \A d \in Callers : cpc[d] \in {"signal", "quit"} => cpc'[d] = cpc[d]
      BY <1>2 DEF CheckInit, Shape, Loose
    <3> QED BY <2>2, <3>1, QuietAwake
  <2>3. CASE init = "UNINITIALIZED" /\ UNCHANGED tpc
    <3>1. tpc = "off" BY <2>3 DEF Shape, ThreadOK
    <3> QED BY <2>3, <3>1 DEF Awake
  <2> QED BY <1>2, <2>1, <2>2, <2>3 DEF CheckInit
<1>3. CASE Pop(c) \/ Map(c) \/ Return(c)
  <2>1. UNCHANGED <<pending, active, sem, tpc, timers, wakeAt, scheduled>>
    BY <1>3 DEF Pop, Map, Return
  <2>2. \A d \in Callers : cpc[d] \in {"signal", "quit"} => cpc'[d] = cpc[d]
    BY <1>3 DEF Pop, Map, Return, Shape, Loose
  <2> QED BY <2>1, <2>2, QuietAwake
<1>4. CASE Find(c) \/ CheckCanceled(c) \/ Cancel(c)
  <2>1. UNCHANGED <<pending, active, sem, tpc, timers, wakeAt, scheduled>>
    BY <1>4 DEF Find, CheckCanceled, Cancel
  <2>2. \A d \in Callers : cpc[d] \in {"signal", "quit"} => cpc'[d] = cpc[d]
    BY <1>4 DEF Find, CheckCanceled, Cancel, Shape, Loose
  <2> QED BY <2>1, <2>2, QuietAwake
<1>5. CASE Fill(c)
  <2>1. /\ UNCHANGED <<pending, active, sem, tpc, timers, wakeAt>>
        /\ \A d \in Callers : cpc[d] \in {"signal", "quit"} => cpc'[d] = cpc[d]
    BY <1>5 DEF Fill, Shape, Loose
  <2>2. ctimer[c] \in Structs BY <1>5 DEF Fill, Shape, CallerOK
  <2>3. ~InSeq(timers, ctimer[c]) BY <2>2 DEF Placed, PlaceOK, Held
  <2>4. ASSUME NEW i \in 1..Len(timers) PROVE scheduled'[timers[i]] = scheduled[timers[i]]
    <3>1. timers[i] \in Structs BY ElementOfSeq DEF Shape, Loose
    <3>2. timers[i] # ctimer[c] BY <2>3 DEF InSeq
    <3> QED BY <1>5, <3>1, <3>2 DEF Fill, Shape, Loose
  <2> QED BY <2>1, <2>4 DEF Awake
<1>6. CASE Pend(c)
  <2>1. /\ UNCHANGED <<active, sem, tpc, timers, wakeAt, scheduled>> /\ cpc'[c] = "signal"
        /\ \A d \in Callers : cpc[d] = "quit" => cpc'[d] = "quit"
    BY <1>6 DEF Pend, Shape, Loose
  <2> QED BY <2>1 DEF Awake
<1>7. CASE SignalThread(c) \/ QuitSignal(c)
  <2>1. UNCHANGED <<pending, active, tpc, timers, wakeAt, scheduled>> /\ sem' = sem + 1
    BY <1>7 DEF SignalThread, QuitSignal, Signal
  <2>2. sem' > 0 BY <2>1 DEF Shape, Loose
  <2> QED BY <2>1, <2>2 DEF Awake
<1>8. CASE QuitJoin(c) \/ QuitFailed(c)
  <2>1. tpc = "off" /\ tpc' = "off"
    BY <1>8 DEF QuitJoin, QuitFailed, StartOK
  <2> QED BY <2>1 DEF Awake
<1> QED BY <1>1, <1>2, <1>3, <1>4, <1>5, <1>6, <1>7, <1>8 DEF Continue

LEMMA ThreadAwake ==
    ASSUME Shape, Placed, InOrder, Awake, TimerThread
    PROVE  Awake'
<1>1. CASE Maintain
  <2>1. UNCHANGED <<active, sem, cpc>> /\ tpc' = "active" /\ pending' = <<>>
    BY <1>1 DEF Maintain
  <2> QED BY <2>1 DEF Awake
<1>2. CASE CheckActive
  <2>1. /\ UNCHANGED <<active, sem, cpc, pending>> /\ tpc = "active"
        /\ tpc' = IF active THEN "loop" ELSE "off"
    BY <1>2 DEF CheckActive
  <2> QED BY <2>1 DEF Awake
<1>3. CASE ProcessTimers
  <2>1. UNCHANGED <<active, sem, cpc, pending, scheduled>> /\ tpc = "loop"
    BY <1>3 DEF ProcessTimers
  <2>2. CASE tpc' = "check" BY <2>1, <2>2 DEF Awake
  <2>3. CASE tpc' = "wait" /\ wakeAt' = NextTime(timers) /\ UNCHANGED timers
    <3>1. ASSUME NEW i \in 1..Len(timers) PROVE wakeAt' <= scheduled[timers[i]]
      <4>1. timers # <<>> /\ timers \in Seq(Structs) BY <3>1, EmptySeq DEF Shape, Loose
      <4>2. Len(timers) \in Nat /\ 1 \in 1..Len(timers)
        BY <3>1, <4>1, LenProperties
      <4>3. Head(timers) = timers[1] BY <4>1, HeadTailProperties
      <4>4. timers[1] \in Structs /\ timers[i] \in Structs BY <4>1, <4>2, ElementOfSeq
      <4>5. scheduled[timers[1]] <= scheduled[timers[i]]
        BY <4>2, <4>4 DEF InOrder, Sorted, Shape, Loose
      <4> QED BY <2>3, <4>1, <4>3, <4>5 DEF NextTime
    <3> QED BY <2>1, <2>3, <3>1 DEF Awake
  <2> QED BY <1>3, <2>2, <2>3 DEF ProcessTimers
<1>4. CASE CheckTimer
  <2>1. /\ UNCHANGED <<active, sem, cpc, pending>> /\ tpc = "check"
        /\ tpc' \in {"loop", "callback"}
    BY <1>4 DEF CheckTimer, Finish
  <2> QED BY <2>1 DEF Awake
<1>5. CASE CallbackReturns
  <2>1. /\ UNCHANGED <<active, sem, cpc, pending>> /\ tpc = "callback" /\ tpc' = "loop"
    BY <1>5 DEF CallbackReturns, Finish
  <2> QED BY <2>1 DEF Awake
<1>6. CASE Wake
  <2>1. UNCHANGED <<active, cpc, pending>> /\ tpc' = "maintain" BY <1>6 DEF Wake
  <2> QED BY <2>1 DEF Awake
<1> QED BY <1>1, <1>2, <1>3, <1>4, <1>5, <1>6 DEF TimerThread

LEMMA AwakeHolds == Spec => []Awake
<1>1. Init => Awake BY DEF Init, Awake
<1>2. ASSUME Shape, Placed, InOrder, StartOK, Awake, Next PROVE Awake'
  <2>1. ASSUME NEW a \in Apps, Quit(a) PROVE Awake'
    <3>1. a \in Callers BY DEF Callers
    <3>2. /\ UNCHANGED <<pending, sem, tpc, timers, wakeAt, scheduled>> /\ cpc'[a] = "quit"
          /\ \A d \in Callers : cpc[d] = "signal" => cpc'[d] = "signal"
      BY <1>2, <2>1, <3>1 DEF Quit, Shape, Loose
    <3> QED BY <1>2, <3>1, <3>2 DEF Awake
  <2>2. CASE Tick BY <1>2, <2>2, QuietAwake DEF Tick
  <2> QED BY <1>2, <2>1, <2>2, CallerAwake, ThreadAwake DEF Next
<1>3. ASSUME Awake, UNCHANGED vars PROVE Awake'
  BY <1>3, QuietAwake DEF vars
<1> QED BY <1>1, <1>2, <1>3, ShapeHolds, PlacedHolds, OrderHolds, StartHolds, PTL DEF Spec

\* SDL_TimerThread: when the thread waits and nobody is about to signal it, nothing is
\* pending and it will wake up at the time of the first timer.
THEOREM NeverOversleeps == Spec => []NoOversleep
<1>1. ASSUME Shape, Awake PROVE NoOversleep
  <2> SUFFICES ASSUME tpc = "wait", sem = 0,
                      \A c \in Callers : cpc[c] \notin {"signal", "quit"}
               PROVE  /\ pending = <<>> /\ active
                      /\ \A i \in DOMAIN timers : wakeAt <= scheduled[timers[i]]
    BY DEF NoOversleep
  <2>1. DOMAIN timers = 1..Len(timers) BY <1>1, LenProperties DEF Shape, Loose
  <2>2. ~(sem > 0) OBVIOUS
  <2> QED BY <1>1, <2>1, <2>2 DEF Awake
<1> QED BY <1>1, ShapeHolds, AwakeHolds, PTL

-----------------------------------------------------------------------------
(* A timer that was removed is not called.                                 *)

\* An id is used once, and the timer that has it is the one its entry names.
IdsOK ==
    /\ \A s \in Structs : timerID[s] <= lastId
    /\ \A s, t \in Structs : timerID[s] = timerID[t] /\ timerID[s] \in Ids => s = t
    /\ \A i \in Ids : entry[i] # "none" => i <= lastId
    /\ \A i \in Ids : \A s \in Structs : entry[i] # "none" /\ timerID[s] = i => owner[i] = s
    /\ \A c \in Callers : cpc[c] \in {"check", "cancel"} => entry[rid[c]] # "none"

\* What was removed is canceled.
CanceledOK ==
    /\ \A i \in removed : i <= lastId
    /\ \A s \in Structs : timerID[s] \in removed => canceled[s]

GoneOK == IdsOK /\ CanceledOK

\* A step that hands out no id and maps nothing.
LEMMA QuietGone ==
    ASSUME GoneOK, UNCHANGED <<timerID, lastId, owner, removed>>,
           \A i \in Ids : entry'[i] = "none" <=> entry[i] = "none",
           \A s \in Structs : canceled[s] => canceled'[s],
           \A c \in Callers : cpc'[c] \in {"check", "cancel"} /\ entry'[rid'[c]] = "none"
                              => cpc[c] \in {"check", "cancel"} /\ entry[rid[c]] = "none"
    PROVE  GoneOK'
  BY DEF GoneOK, IdsOK, CanceledOK

LEMMA FillGone ==
    ASSUME Shape, GoneOK, NEW c \in Callers, Fill(c)
    PROVE  GoneOK'
<1> DEFINE s == ctimer[c]
           new == lastId + 1
<1>1. /\ cpc[c] = "fill" /\ s \in Structs
      /\ lastId' = new /\ timerID' = [timerID EXCEPT ![s] = new]
      /\ canceled' = [canceled EXCEPT ![s] = FALSE] /\ cpc' = [cpc EXCEPT ![c] = "map"]
      /\ UNCHANGED <<entry, owner, rid, removed>>
  BY DEF Fill, Shape, CallerOK
<1>2. lastId \in Nat /\ removed \subseteq Ids /\ \A t \in Structs : timerID[t] \in Nat
  BY BoundsAssumption DEF Shape, Loose, Ids, NoId
<1>3. \A t \in Structs : timerID'[t] = IF t = s THEN new ELSE timerID[t]
  BY <1>1 DEF Shape, Loose
<1>4. IdsOK'
  <2>1. \A t \in Structs : timerID'[t] <= lastId'
    BY <1>1, <1>2, <1>3 DEF GoneOK, IdsOK
  <2>2. \A t, u \in Structs : timerID'[t] = timerID'[u] /\ timerID'[t] \in Ids => t = u
    BY <1>2, <1>3 DEF GoneOK, IdsOK
  <2>3. \A i \in Ids : entry'[i] # "none" => i <= lastId /\ i <= lastId'
    BY <1>1, <1>2 DEF GoneOK, IdsOK, Ids
  <2>4. \A i \in Ids : \A t \in Structs : entry'[i] # "none" /\ timerID'[t] = i => owner'[i] = t
    BY <1>1, <1>2, <1>3, <2>3 DEF GoneOK, IdsOK, Ids
  <2>5. \A d \in Callers : cpc'[d] \in {"check", "cancel"} => entry'[rid'[d]] # "none"
    BY <1>1 DEF GoneOK, IdsOK, Shape, Loose
  <2> QED BY <2>1, <2>2, <2>3, <2>4, <2>5 DEF IdsOK
<1>5. CanceledOK'
  <2>1. \A i \in removed : i <= lastId /\ i <= lastId'
    BY <1>1, <1>2 DEF GoneOK, CanceledOK, Ids
  <2>2. new \notin removed BY <1>2, <2>1
  <2>3. \A t \in Structs : timerID'[t] \in removed' => t # s /\ timerID[t] \in removed
    BY <1>1, <1>3, <2>2
  <2>4. \A t \in Structs : timerID'[t] \in removed' => canceled'[t]
    BY <1>1, <2>3 DEF GoneOK, CanceledOK, Shape, Loose
  <2> QED BY <1>1, <2>1, <2>4 DEF CanceledOK
<1> QED BY <1>4, <1>5 DEF GoneOK

LEMMA MapGone ==
    ASSUME Shape, MapOK, GoneOK, NEW c \in Callers, Map(c)
    PROVE  GoneOK'
<1> DEFINE s == ctimer[c]
           i == cid[c]
<1>1. /\ cpc[c] = "map" /\ s \in Structs /\ i = timerID[s] /\ i \in Ids
      /\ UNCHANGED <<timerID, canceled, lastId, rid, removed>>
  BY DEF Map, Shape, CallerOK, MapOK, HandsOK
<1>2. \A d \in Callers : cpc'[d] \in {"check", "cancel"} => cpc[d] = cpc'[d]
  BY DEF Map, Shape, Loose
<1>3. CASE entry' = [entry EXCEPT ![i] = "mapped"] /\ owner' = [owner EXCEPT ![i] = s]
  <2>1. \A j \in Ids : IF j = i THEN entry'[j] = "mapped" /\ owner'[j] = s
                                ELSE entry'[j] = entry[j] /\ owner'[j] = owner[j]
    BY <1>3 DEF Shape, Loose
  <2> HIDE DEF i, s
  <2>2. \A j \in Ids : entry'[j] # "none" => j <= lastId'
    BY <1>1, <2>1 DEF GoneOK, IdsOK
  <2>3. \A j \in Ids : \A t \in Structs : entry'[j] # "none" /\ timerID'[t] = j => owner'[j] = t
    BY <1>1, <2>1 DEF GoneOK, IdsOK
  <2>4. \A d \in Callers : cpc'[d] \in {"check", "cancel"} => entry'[rid'[d]] # "none"
    <3> SUFFICES ASSUME NEW d \in Callers, cpc'[d] \in {"check", "cancel"}
                 PROVE  entry'[rid'[d]] # "none"
      OBVIOUS
    <3>1. rid[d] \in Ids /\ entry[rid[d]] # "none"
      BY <1>2 DEF GoneOK, IdsOK, Shape, CallerOK
    <3> QED BY <3>1, <2>1, <1>1
  <2> QED BY <1>1, <2>2, <2>3, <2>4 DEF GoneOK, IdsOK, CanceledOK
<1>4. CASE UNCHANGED entryVars BY <1>1, <1>2, <1>4, QuietGone
<1> QED BY <1>3, <1>4 DEF Map

LEMMA FindGone ==
    ASSUME Shape, GoneOK, NEW c \in Callers, Find(c)
    PROVE  GoneOK'
<1>1. /\ cpc[c] = "find" /\ rid[c] \in Ids
      /\ UNCHANGED <<timerID, canceled, lastId, owner, removed>>
  BY DEF Find, Shape, CallerOK
<1>2. \A i \in Ids : entry'[i] = "none" <=> entry[i] = "none"
  BY <1>1 DEF Find, Shape, Loose
<1>3. ASSUME NEW d \in Callers, cpc'[d] \in {"check", "cancel"}, entry'[rid'[d]] = "none"
      PROVE  cpc[d] \in {"check", "cancel"} /\ entry[rid[d]] = "none"
  <2>1. CASE d = c
    <3>1. /\ cpc'[c] \in {"check", "fill", "idle"}
          /\ cpc'[c] = "check" => entry'[rid[c]] = "taken" /\ rid' = rid
      BY <1>1 DEF Find, AfterRemove, Shape, Loose
    <3> QED BY <2>1, <3>1, <1>3
  <2>2. CASE d # c
    <3>1. cpc'[d] = cpc[d] /\ rid'[d] = rid[d] BY <2>2 DEF Find, Shape, Loose
    <3>2. rid[d] \in Ids BY <3>1, <1>3 DEF Shape, CallerOK
    <3> QED BY <3>1, <3>2, <1>2, <1>3
  <2> QED BY <2>1, <2>2
<1> QED BY <1>1, <1>2, <1>3, QuietGone

LEMMA CheckCanceledGone ==
    ASSUME Shape, GoneOK, NEW c \in Callers, CheckCanceled(c)
    PROVE  GoneOK'
<1>1. /\ cpc[c] = "check" /\ rid[c] \in Ids /\ entry[rid[c]] # "none"
      /\ UNCHANGED <<timerID, canceled, lastId, owner, removed>>
  BY DEF CheckCanceled, Shape, CallerOK, GoneOK, IdsOK
<1>2. \A i \in Ids : entry'[i] = "none" <=> entry[i] = "none"
  BY <1>1 DEF CheckCanceled, Shape, Loose
<1>3. \A d \in Callers : cpc'[d] \in {"check", "cancel"}
                         => cpc[d] \in {"check", "cancel"} /\ rid'[d] = rid[d]
  <2>1. \A d \in Callers \ {c} : cpc'[d] = cpc[d] /\ rid'[d] = rid[d]
    BY DEF CheckCanceled, Shape, Loose
  <2>2. cpc'[c] \in {"check", "cancel"} => rid' = rid
    BY DEF CheckCanceled, AfterRemove, Shape, Loose
  <2> QED BY <2>1, <2>2, <1>1
<1>4. \A d \in Callers : cpc'[d] \in {"check", "cancel"} /\ entry'[rid'[d]] = "none"
         => cpc[d] \in {"check", "cancel"} /\ entry[rid[d]] = "none"
  BY <1>2, <1>3 DEF Shape, CallerOK
<1> QED BY <1>1, <1>2, <1>4, QuietGone

LEMMA CancelGone ==
    ASSUME Shape, GoneOK, NEW c \in Callers, Cancel(c)
    PROVE  GoneOK'
<1> DEFINE r == rid[c]
           s == owner[r]
<1>1. /\ cpc[c] = "cancel" /\ r \in Ids /\ entry[r] # "none"
      /\ canceled' = [canceled EXCEPT ![s] = TRUE] /\ entry' = [entry EXCEPT ![r] = "freed"]
      /\ removed' = removed \cup {r} /\ UNCHANGED <<timerID, lastId, owner>>
  BY DEF Cancel, Shape, CallerOK, GoneOK, IdsOK
<1>2. \A d \in Callers : cpc'[d] \in {"check", "cancel"}
                         => cpc[d] \in {"check", "cancel"} /\ rid'[d] = rid[d]
  BY DEF Cancel, AfterRemove, Shape, Loose
<1> HIDE DEF r
<1>3. \A i \in Ids : entry'[i] = "none" <=> entry[i] = "none" BY <1>1 DEF Shape, Loose
<1>4. IdsOK'
  <2>1. \A d \in Callers : cpc'[d] \in {"check", "cancel"} => entry'[rid'[d]] # "none"
    BY <1>2, <1>3 DEF GoneOK, IdsOK, Shape, CallerOK
  <2> QED BY <2>1, <1>1, <1>3 DEF GoneOK, IdsOK
<1>5. CanceledOK'
  <2>1. r <= lastId BY <1>1 DEF GoneOK, IdsOK
  <2>2. ASSUME NEW t \in Structs, timerID[t] \in removed' PROVE canceled'[t]
    <3>1. CASE timerID[t] = r
      <4>1. s = t BY <1>1, <3>1 DEF GoneOK, IdsOK
      <4> QED BY <4>1, <1>1 DEF Shape, Loose
    <3>2. CASE timerID[t] # r
      <4>1. canceled[t] BY <2>2, <3>2, <1>1 DEF GoneOK, CanceledOK
      <4> HIDE DEF s
      <4> QED BY <4>1, <1>1 DEF Shape, Loose
    <3> QED BY <3>1, <3>2
  <2> QED BY <2>1, <2>2, <1>1 DEF GoneOK, CanceledOK
<1> QED BY <1>4, <1>5 DEF GoneOK

LEMMA GoneHolds == Spec => []GoneOK
<1>1. Init => GoneOK
  <2> SUFFICES ASSUME Init PROVE GoneOK
    OBVIOUS
  <2>1. IdsOK BY DEF Init, IdsOK, Ids, NoId
  <2>2. CanceledOK BY DEF Init, CanceledOK
  <2> QED BY <2>1, <2>2 DEF GoneOK
<1>2. ASSUME Shape, MapOK, GoneOK, Next PROVE GoneOK'
  <2>1. ASSUME NEW c \in Callers, Call(c) PROVE GoneOK'
    <3>1. UNCHANGED <<timerVars, lastId, entryVars, removed>>
      BY <2>1 DEF Call, AddTimer, RemoveTimer
    <3>2. \A d \in Callers : cpc'[d] \in {"check", "cancel"}
                             => cpc[d] = cpc'[d] /\ rid'[d] = rid[d]
      BY <1>2, <2>1 DEF Call, AddTimer, RemoveTimer, Shape, Loose
    <3> QED BY <1>2, <3>1, <3>2, QuietGone
  <2>2. ASSUME NEW c \in Callers,
               \/ CheckInit(c) \/ Pop(c) \/ Pend(c) \/ SignalThread(c) \/ Return(c)
               \/ QuitSignal(c) \/ QuitFailed(c)
        PROVE  GoneOK'
    <3>1. UNCHANGED <<timerVars, lastId, entryVars, removed>>
      BY <2>2 DEF CheckInit, Pop, Pend, SignalThread, Return, QuitSignal, QuitFailed
    <3>2. \A d \in Callers : cpc'[d] \in {"check", "cancel"}
                             => cpc[d] = cpc'[d] /\ rid'[d] = rid[d]
      <4>1. CASE Pop(c) BY <1>2, <4>1 DEF Pop, AfterPop, Shape, Loose
      <4>2. CASE CheckInit(c) \/ Pend(c) \/ SignalThread(c) \/ Return(c)
        BY <1>2, <4>2 DEF CheckInit, Pend, SignalThread, Return, Shape, Loose
      <4>3. CASE QuitSignal(c) \/ QuitFailed(c)
        BY <1>2, <4>3 DEF QuitSignal, QuitFailed, Shape, Loose
      <4> QED BY <2>2, <4>1, <4>2, <4>3
    <3> QED BY <1>2, <3>1, <3>2, QuietGone
  <2>3. ASSUME NEW c \in Callers, QuitJoin(c) PROVE GoneOK'
    <3>1. /\ UNCHANGED <<timerVars, lastId, owner, removed, rid>>
          /\ \A i \in Ids : entry'[i] = "none" <=> entry[i] = "none"
      BY <1>2, <2>3 DEF QuitJoin, Shape, Loose
    <3>2. \A d \in Callers : cpc'[d] \in {"check", "cancel"} => cpc[d] = cpc'[d]
      BY <1>2, <2>3 DEF QuitJoin, Shape, Loose
    <3>3. \A d \in Callers : cpc'[d] \in {"check", "cancel"} /\ entry'[rid'[d]] = "none"
             => cpc[d] \in {"check", "cancel"} /\ entry[rid[d]] = "none"
      BY <1>2, <3>1, <3>2 DEF Shape, CallerOK
    <3> QED BY <1>2, <3>1, <3>3, QuietGone
  <2>4. ASSUME NEW c \in Callers, Continue(c) PROVE GoneOK'
    BY <1>2, <2>2, <2>3, <2>4, FillGone, MapGone, FindGone, CheckCanceledGone, CancelGone
       DEF Continue
  <2>5. ASSUME NEW a \in Apps, Quit(a) PROVE GoneOK'
    <3>1. UNCHANGED <<timerVars, lastId, entryVars, removed, rid>> BY <2>5 DEF Quit
    <3>2. \A d \in Callers : cpc'[d] \in {"check", "cancel"} => cpc[d] = cpc'[d]
      BY <1>2, <2>5 DEF Quit, Shape, Loose
    <3> QED BY <1>2, <3>1, <3>2, QuietGone
  <2>6. CASE TimerThread \/ Tick
    <3>1. UNCHANGED <<timerID, lastId, entryVars, removed, callVars>>
      BY <2>6 DEF TimerThread, Maintain, CheckActive, ProcessTimers, CheckTimer, CallbackReturns,
                  Wake, Tick
    <3>2. \A s \in Structs : canceled[s] => canceled'[s]
      <4>1. UNCHANGED canceled \/ canceled' = [canceled EXCEPT ![current] = TRUE]
        BY <2>6 DEF TimerThread, Maintain, CheckActive, ProcessTimers, CheckTimer,
                    CallbackReturns, Finish, Wake, Tick
      <4> QED BY <1>2, <4>1 DEF Shape, Loose
    <3> QED BY <1>2, <3>1, <3>2, QuietGone
  <2> QED BY <1>2, <2>1, <2>4, <2>5, <2>6 DEF Next
<1>3. ASSUME GoneOK, UNCHANGED vars PROVE GoneOK'
  BY <1>3, QuietGone DEF vars
<1> QED BY <1>1, <1>2, <1>3, ShapeHolds, MapHolds, PTL DEF Spec

\* SDL_RemoveTimer: once it has returned true the timer is canceled under that id, and the
\* timer thread, which looks at the flag first, does not call its callback any more.
THEOREM RemovedIsNotCalled == Spec => RemovedNeverCalled
<1> DEFINE NotGone == tpc = "check" /\ tpc' = "callback" => timerID[current] \notin removed
<1>1. ASSUME Shape, GoneOK, [Next]_vars PROVE [NotGone]_vars
  <2> SUFFICES ASSUME tpc = "check", tpc' = "callback" PROVE timerID[current] \notin removed
    OBVIOUS
  <2>1. CASE CheckTimer
    <3>1. ~canceled[current] BY <2>1 DEF CheckTimer, IsCanceled, Finish
    <3>2. current \in Structs BY <1>1 DEF Shape, Loose, ThreadOK
    <3> QED BY <3>1, <3>2, <1>1 DEF GoneOK, CanceledOK
  <2>2. ASSUME NEW c \in Callers, Call(c) \/ Continue(c) PROVE FALSE
    <3>1. CASE CheckInit(c) BY <3>1 DEF CheckInit
    <3>2. CASE ~CheckInit(c)
      BY <2>2, <3>2 DEF Call, Continue, AddTimer, RemoveTimer, Pop, Fill, Map, Pend, SignalThread,
                        Return, Find, CheckCanceled, Cancel, QuitFailed, QuitSignal, QuitJoin
    <3> QED BY <3>1, <3>2
  <2>3. CASE Maintain \/ CheckActive \/ ProcessTimers \/ CallbackReturns \/ Wake \/ Tick
    BY <2>3 DEF Maintain, CheckActive, ProcessTimers, CallbackReturns, Wake, Tick
  <2>4. ASSUME NEW a \in Apps, Quit(a) PROVE FALSE BY <2>4 DEF Quit
  <2>5. CASE UNCHANGED vars BY <2>5 DEF vars
  <2> QED BY <1>1, <2>1, <2>2, <2>3, <2>4, <2>5 DEF Next, TimerThread
<1> QED BY <1>1, ShapeHolds, GoneHolds, PTL DEF Spec, RemovedNeverCalled

=============================================================================
