---------------------------- MODULE Lists_proofs ----------------------------
(***************************************************************************)
(* Lemmas about lists, for the proofs about Timer and Events.              *)
(***************************************************************************)
EXTENDS Lists, SequenceTheorems, FiniteSetTheorems, WellFoundedInduction, TLAPS

-----------------------------------------------------------------------------
(* Induction over the natural numbers.                                     *)

LEMMA NatMin ==
    ASSUME NEW T \in SUBSET Nat, T # {}
    PROVE  \E n \in T : \A m \in T : n <= m
<1> DEFINE R == {p \in Nat \X Nat : p[1] < p[2]}
<1>1. IsWellFoundedOn(R, Nat) BY NatLessThanWellFounded DEF OpToRel
<1> HIDE DEF R
<1>2. PICK x \in T : \A y \in T : ~(<<y, x>> \in R) BY <1>1, WFMin
<1>3. ASSUME NEW y \in T, y < x PROVE <<y, x>> \in R BY <1>3 DEF R
<1>4. ASSUME NEW y \in T PROVE x <= y
  <2>1. ~(y < x) BY <1>2, <1>3
  <2> QED BY <2>1
<1> QED BY <1>4

LEMMA NatInd ==
    ASSUME NEW S \in SUBSET Nat, 0 \in S, \A n \in S : n + 1 \in S
    PROVE  S = Nat
<1> SUFFICES ASSUME Nat \ S # {} PROVE FALSE
  OBVIOUS
<1>1. PICK n \in Nat \ S : \A m \in Nat \ S : n <= m BY NatMin
<1>2. n - 1 \in Nat /\ n - 1 \notin Nat \ S BY <1>1
<1> QED BY <1>2

-----------------------------------------------------------------------------
(* Lists without repetition.                                               *)

InSeq(q, s) == \E i \in 1..Len(q) : q[i] = s

Once(q) == \A i, j \in 1..Len(q) : q[i] = q[j] => i = j

\* What a list holds is of the set it is a list of.
LEMMA InSeqIsElement ==
    ASSUME NEW S, NEW q \in Seq(S), NEW s, InSeq(q, s)
    PROVE  s \in S
  BY ElementOfSeq DEF InSeq

LEMMA NothingInEmpty ==
    ASSUME NEW s
    PROVE  ~InSeq(<<>>, s) /\ Once(<<>>)
  BY EmptySeq DEF InSeq, Once

LEMMA ConcatIn ==
    ASSUME NEW S, NEW p \in Seq(S), NEW q \in Seq(S)
    PROVE  /\ p \o q \in Seq(S)
           /\ \A s : InSeq(p \o q, s) <=> InSeq(p, s) \/ InSeq(q, s)
<1>1. /\ p \o q \in Seq(S) /\ Len(p \o q) = Len(p) + Len(q)
      /\ \A i \in 1..Len(p) + Len(q) :
            (p \o q)[i] = IF i <= Len(p) THEN p[i] ELSE q[i - Len(p)]
  BY ConcatProperties
<1>2. Len(p) \in Nat /\ Len(q) \in Nat BY LenProperties
<1>3. ASSUME NEW s, InSeq(p \o q, s) PROVE InSeq(p, s) \/ InSeq(q, s)
  <2>1. PICK i \in 1..Len(p) + Len(q) : (p \o q)[i] = s BY <1>1, <1>3 DEF InSeq
  <2>2. CASE i <= Len(p)
    <3>1. i \in 1..Len(p) /\ p[i] = s BY <2>1, <2>2, <1>1, <1>2
    <3> QED BY <3>1 DEF InSeq
  <2>3. CASE i > Len(p)
    <3>1. i - Len(p) \in 1..Len(q) /\ q[i - Len(p)] = s BY <2>1, <2>3, <1>1, <1>2
    <3> QED BY <3>1 DEF InSeq
  <2> QED BY <2>2, <2>3, <1>2
<1>4. ASSUME NEW s, InSeq(p, s) PROVE InSeq(p \o q, s)
  <2>1. PICK i \in 1..Len(p) : p[i] = s BY <1>4 DEF InSeq
  <2>2. i \in 1..Len(p) + Len(q) /\ (p \o q)[i] = s BY <2>1, <1>1, <1>2
  <2> QED BY <2>2, <1>1 DEF InSeq
<1>5. ASSUME NEW s, InSeq(q, s) PROVE InSeq(p \o q, s)
  <2>1. PICK i \in 1..Len(q) : q[i] = s BY <1>5 DEF InSeq
  <2> DEFINE j == i + Len(p)
  <2>2. j \in 1..Len(p) + Len(q) /\ ~(j <= Len(p)) /\ j - Len(p) = i BY <1>2
  <2>3. (p \o q)[j] = s BY <2>1, <2>2, <1>1
  <2> QED BY <2>2, <2>3, <1>1 DEF InSeq
<1> QED BY <1>1, <1>3, <1>4, <1>5

LEMMA ConcatOnce ==
    ASSUME NEW S, NEW p \in Seq(S), NEW q \in Seq(S), Once(p), Once(q),
           \A s \in S : ~(InSeq(p, s) /\ InSeq(q, s))
    PROVE  Once(p \o q)
<1>1. /\ Len(p \o q) = Len(p) + Len(q)
      /\ \A i \in 1..Len(p) + Len(q) :
            (p \o q)[i] = IF i <= Len(p) THEN p[i] ELSE q[i - Len(p)]
  BY ConcatProperties
<1>2. Len(p) \in Nat /\ Len(q) \in Nat BY LenProperties
<1>3. ASSUME NEW i \in 1..Len(p), NEW j \in 1..Len(q) PROVE p[i] # q[j]
  <2>1. p[i] \in S BY ElementOfSeq
  <2>2. InSeq(p, p[i]) /\ (q[j] = p[i] => InSeq(q, p[i])) BY DEF InSeq
  <2> QED BY <2>1, <2>2
<1>4. SUFFICES ASSUME NEW i \in 1..Len(p) + Len(q), NEW j \in 1..Len(p) + Len(q),
                      (p \o q)[i] = (p \o q)[j]
               PROVE  i = j
  BY <1>1 DEF Once
<1>5. CASE i <= Len(p) /\ j <= Len(p)
  <2>1. i \in 1..Len(p) /\ j \in 1..Len(p) /\ p[i] = p[j] BY <1>5, <1>4, <1>1, <1>2
  <2> QED BY <2>1 DEF Once
<1>6. CASE i <= Len(p) /\ j > Len(p)
  <2>1. i \in 1..Len(p) /\ j - Len(p) \in 1..Len(q) /\ p[i] = q[j - Len(p)]
    BY <1>6, <1>4, <1>1, <1>2
  <2> QED BY <2>1, <1>3
<1>7. CASE i > Len(p) /\ j <= Len(p)
  <2>1. j \in 1..Len(p) /\ i - Len(p) \in 1..Len(q) /\ p[j] = q[i - Len(p)]
    BY <1>7, <1>4, <1>1, <1>2
  <2> QED BY <2>1, <1>3
<1>8. CASE i > Len(p) /\ j > Len(p)
  <2>1. i - Len(p) \in 1..Len(q) /\ j - Len(p) \in 1..Len(q) /\ q[i - Len(p)] = q[j - Len(p)]
    BY <1>8, <1>4, <1>1, <1>2
  <2>2. i - Len(p) = j - Len(p) BY <2>1 DEF Once
  <2> QED BY <2>2, <1>2
<1> QED BY <1>5, <1>6, <1>7, <1>8, <1>2

LEMMA HeadTailIn ==
    ASSUME NEW S, NEW q \in Seq(S), q # <<>>
    PROVE  /\ Head(q) \in S /\ InSeq(q, Head(q)) /\ Tail(q) \in Seq(S)
           /\ \A s : InSeq(Tail(q), s) => InSeq(q, s)
           /\ Once(q) => /\ Once(Tail(q))
                         /\ \A s : InSeq(Tail(q), s) <=> InSeq(q, s) /\ s # Head(q)
<1>1. /\ Head(q) = q[1] /\ Tail(q) \in Seq(S) /\ Len(Tail(q)) = Len(q) - 1
      /\ \A i \in 1..Len(q) - 1 : Tail(q)[i] = q[i + 1]
  BY HeadTailProperties
<1>2. Len(q) \in Nat /\ Len(q) # 0 BY LenProperties, EmptySeq
<1>3. 1 \in 1..Len(q) BY <1>2
<1>4. Head(q) \in S BY <1>1, <1>3, ElementOfSeq
<1>5. InSeq(q, Head(q)) BY <1>1, <1>3 DEF InSeq
<1>6. ASSUME NEW s, InSeq(Tail(q), s) PROVE \E i \in 1..Len(q) : i # 1 /\ q[i] = s
  <2>1. PICK i \in 1..Len(q) - 1 : Tail(q)[i] = s BY <1>1, <1>6 DEF InSeq
  <2>2. i + 1 \in 1..Len(q) /\ i + 1 # 1 /\ q[i + 1] = s BY <2>1, <1>1, <1>2
  <2> QED BY <2>2
<1>7. ASSUME NEW s, InSeq(q, s), s # Head(q) PROVE InSeq(Tail(q), s)
  <2>1. PICK i \in 1..Len(q) : q[i] = s BY <1>7 DEF InSeq
  <2>2. i # 1 BY <2>1, <1>7, <1>1
  <2> DEFINE j == i - 1
  <2>3. j \in 1..Len(q) - 1 /\ j + 1 = i BY <2>2, <1>2
  <2>4. Tail(q)[j] = s BY <2>1, <2>3, <1>1
  <2> QED BY <2>3, <2>4, <1>1 DEF InSeq
<1>8. ASSUME Once(q) PROVE Once(Tail(q))
  <2> SUFFICES ASSUME NEW i \in 1..Len(q) - 1, NEW j \in 1..Len(q) - 1, Tail(q)[i] = Tail(q)[j]
               PROVE  i = j
    BY <1>1 DEF Once
  <2>1. i + 1 \in 1..Len(q) /\ j + 1 \in 1..Len(q) /\ q[i + 1] = q[j + 1] BY <1>1, <1>2
  <2>2. i + 1 = j + 1 BY <2>1, <1>8 DEF Once
  <2> QED BY <2>2
<1>9. ASSUME Once(q), NEW s, InSeq(Tail(q), s) PROVE s # Head(q)
  <2>1. PICK i \in 1..Len(q) : i # 1 /\ q[i] = s BY <1>6, <1>9
  <2> QED BY <2>1, <1>9, <1>1, <1>3 DEF Once
<1>10. \A s : InSeq(Tail(q), s) => InSeq(q, s) BY <1>6 DEF InSeq
<1> QED BY <1>1, <1>4, <1>5, <1>7, <1>8, <1>9, <1>10

LEMMA SingletonIn ==
    ASSUME NEW S, NEW s \in S
    PROVE  /\ <<s>> \in Seq(S) /\ Len(<<s>>) = 1 /\ <<s>>[1] = s
           /\ Once(<<s>>)
           /\ \A x : InSeq(<<s>>, x) <=> x = s
  BY DEF Once, InSeq

LEMMA AppendIn ==
    ASSUME NEW S, NEW q \in Seq(S), NEW s \in S
    PROVE  /\ Append(q, s) \in Seq(S)
           /\ \A x : InSeq(Append(q, s), x) <=> InSeq(q, x) \/ x = s
           /\ Once(q) /\ ~InSeq(q, s) => Once(Append(q, s))
<1>1. Append(q, s) = q \o <<s>> BY AppendIsConcat
<1>2. <<s>> \in Seq(S) /\ Once(<<s>>) /\ \A x : InSeq(<<s>>, x) <=> x = s BY SingletonIn
<1>3. /\ q \o <<s>> \in Seq(S)
      /\ \A x : InSeq(q \o <<s>>, x) <=> InSeq(q, x) \/ InSeq(<<s>>, x)
  BY <1>2, ConcatIn
<1>4. Once(q) /\ ~InSeq(q, s) => Once(q \o <<s>>) BY <1>2, ConcatOnce
<1> QED BY <1>1, <1>2, <1>3, <1>4


-----------------------------------------------------------------------------
(* Cutting entries out of a list.                                          *)

\* A set of lists that has the empty one, and with a list the longer ones, has all.
LEMMA ListInd ==
    ASSUME NEW S, NEW T \in SUBSET Seq(S), <<>> \in T,
           \A q \in T, e \in S : Append(q, e) \in T
    PROVE  T = Seq(S)
<1> DEFINE N == {n \in Nat : \A q \in Seq(S) : Len(q) = n => q \in T}
<1>1. 0 \in N
  <2>1. \A q \in Seq(S) : Len(q) = 0 => q = <<>> BY EmptySeq
  <2> QED BY <2>1
<1>2. ASSUME NEW n \in N PROVE n + 1 \in N
  <2> SUFFICES ASSUME NEW q \in Seq(S), Len(q) = n + 1 PROVE q \in T
    OBVIOUS
  <2>1. q # <<>>
    <3>1. Len(<<>>) = 0 BY EmptySeq
    <3> QED BY <3>1
  <2>2. PICK p \in Seq(S), e \in S : q = Append(p, e) BY <2>1, SequenceEmptyOrAppend
  <2>3. Len(q) = Len(p) + 1 /\ Len(p) \in Nat BY <2>2, AppendProperties, LenProperties
  <2>4. Len(p) = n BY <2>3
  <2> QED BY <2>2, <2>4
<1>3. N = Nat
  <2>1. N \in SUBSET Nat OBVIOUS
  <2> HIDE DEF N
  <2> QED BY <1>1, <1>2, <2>1, NatInd
<1>4. ASSUME NEW q \in Seq(S) PROVE q \in T
  <2>1. Len(q) \in Nat BY LenProperties
  <2>2. Len(q) \in N BY <2>1, <1>3
  <2> QED BY <2>2
<1> QED BY <1>4

\* f has what is left of each of the first k entries.
Cutting(f, q, D, k) ==
    f = [n \in 0..k |-> IF n = 0 THEN <<>>
                        ELSE IF q[n] \in D THEN f[n - 1]
                        ELSE Append(f[n - 1], q[n])]

LEMMA CuttingExists ==
    ASSUME NEW q, NEW D, NEW k \in Nat
    PROVE  \E f : Cutting(f, q, D, k)
<1> DEFINE S == {n \in Nat : \E f : Cutting(f, q, D, n)}
<1>1. 0 \in S
  <2> DEFINE f == [n \in 0..0 |-> <<>>]
  <2>1. Cutting(f, q, D, 0) BY DEF Cutting
  <2> QED BY <2>1
<1>2. ASSUME NEW n \in S PROVE n + 1 \in S
  <2>1. PICK f : Cutting(f, q, D, n) OBVIOUS
  <2> DEFINE Cut(h, m) == IF q[m] \in D THEN h ELSE Append(h, q[m])
             g == [m \in 0..n + 1 |-> IF m = n + 1 THEN Cut(f[n], n + 1) ELSE f[m]]
             h == [m \in 0..n + 1 |-> IF m = 0 THEN <<>> ELSE Cut(g[m - 1], m)]
  <2>2. \A m \in 0..n : f[m] = IF m = 0 THEN <<>> ELSE Cut(f[m - 1], m)
    BY <2>1 DEF Cutting
  <2> HIDE DEF Cut
  <2>3. ASSUME NEW m \in 0..n + 1 PROVE g[m] = h[m]
    <3>1. CASE m = 0
      <4>1. g[0] = f[0] /\ h[0] = <<>> OBVIOUS
      <4>2. f[0] = <<>> BY <2>2
      <4> QED BY <3>1, <4>1, <4>2
    <3>2. CASE m = n + 1
      <4>1. g[n] = f[n] OBVIOUS
      <4>2. g[n + 1] = Cut(f[n], n + 1) OBVIOUS
      <4>3. h[n + 1] = Cut(g[n + 1 - 1], n + 1) OBVIOUS
      <4>4. n + 1 - 1 = n OBVIOUS
      <4> QED BY <3>2, <4>1, <4>2, <4>3, <4>4
    <3>3. CASE m \in 1..n
      <4>1. g[m] = f[m] /\ g[m - 1] = f[m - 1] BY <3>3
      <4>2. h[m] = Cut(g[m - 1], m) BY <3>3
      <4>3. f[m] = Cut(f[m - 1], m) BY <2>2, <3>3
      <4> QED BY <4>1, <4>2, <4>3
    <3> QED BY <3>1, <3>2, <3>3
  <2>4. g = h BY <2>3
  <2> HIDE DEF g
  <2>5. Cutting(g, q, D, n + 1) BY <2>4 DEF Cutting, Cut
  <2> QED BY <2>5
<1> HIDE DEF S
<1>3. S \in SUBSET Nat BY DEF S
<1>4. S = Nat BY <1>1, <1>2, <1>3, NatInd
<1> QED BY <1>4 DEF S

LEMMA WithoutCuts ==
    ASSUME NEW q, NEW D, Len(q) \in Nat
    PROVE  \E f : Cutting(f, q, D, Len(q)) /\ Without(q, D) = f[Len(q)]
<1> DEFINE kept == CHOOSE f : Cutting(f, q, D, Len(q))
<1>1. Cutting(kept, q, D, Len(q)) BY CuttingExists
<1>2. Without(q, D) = kept[Len(q)] BY DEF Without, Cutting
<1> QED BY <1>1, <1>2

LEMMA WithoutEmpty ==
    ASSUME NEW D
    PROVE  Without(<<>>, D) = <<>>
<1>1. Len(<<>>) = 0 BY EmptySeq
<1>2. PICK f : Cutting(f, <<>>, D, 0) /\ Without(<<>>, D) = f[0] BY <1>1, WithoutCuts
<1>3. f[0] = <<>> BY <1>2 DEF Cutting
<1> QED BY <1>2, <1>3

\* The last entry is kept or not, the others as without it.
LEMMA WithoutAppend ==
    ASSUME NEW S, NEW q \in Seq(S), NEW e \in S, NEW D
    PROVE  Without(Append(q, e), D) = IF e \in D THEN Without(q, D)
                                      ELSE Append(Without(q, D), e)
<1> DEFINE r == Append(q, e)
           k == Len(q)
<1>1. k \in Nat /\ Len(r) = k + 1 /\ r[k + 1] = e /\ \A i \in 1..k : r[i] = q[i]
  BY LenProperties, AppendProperties
<1>2. PICK f : Cutting(f, q, D, k) /\ Without(q, D) = f[k] BY <1>1, WithoutCuts
<1> HIDE DEF r
<1>3. PICK g : Cutting(g, r, D, k + 1) /\ Without(r, D) = g[k + 1]
  <2>1. Len(r) \in Nat BY <1>1
  <2> QED BY <2>1, <1>1, WithoutCuts
<1> DEFINE Cut(h, x) == IF x \in D THEN h ELSE Append(h, x)
<1> HIDE DEF k
<1>4. f[0] = <<>> /\ \A n \in 1..k : f[n] = Cut(f[n - 1], q[n])
  <2>1. \A n \in 0..k : f[n] = IF n = 0 THEN <<>> ELSE Cut(f[n - 1], q[n])
    BY <1>2 DEF Cutting
  <2> HIDE DEF Cut
  <2> QED BY <2>1, <1>1
<1>5. g[0] = <<>> /\ \A n \in 1..k + 1 : g[n] = Cut(g[n - 1], r[n])
  <2>1. \A n \in 0..k + 1 : g[n] = IF n = 0 THEN <<>> ELSE Cut(g[n - 1], r[n])
    BY <1>3 DEF Cutting
  <2> HIDE DEF Cut
  <2> QED BY <2>1, <1>1
<1> HIDE DEF Cut
<1> DEFINE N == {n \in Nat : n <= k => f[n] = g[n]}
<1>6. 0 \in N BY <1>4, <1>5
<1>7. ASSUME NEW n \in N PROVE n + 1 \in N
  <2> SUFFICES ASSUME n + 1 <= k PROVE f[n + 1] = g[n + 1]
    OBVIOUS
  <2>1. n + 1 \in 1..k /\ n + 1 \in 1..k + 1 /\ n + 1 - 1 = n /\ n <= k BY <1>1
  <2>2. f[n] = g[n] BY <2>1
  <2> QED BY <2>1, <2>2, <1>1, <1>4, <1>5
<1>8. N = Nat
  <2>1. N \in SUBSET Nat OBVIOUS
  <2> HIDE DEF N
  <2> QED BY <1>6, <1>7, <2>1, NatInd
<1>9. f[k] = g[k]
  <2>1. k \in N /\ k <= k BY <1>1, <1>8
  <2> QED BY <2>1
<1>10. g[k + 1] = Cut(g[k], e)
  <2>1. k + 1 \in 1..k + 1 /\ k + 1 - 1 = k BY <1>1
  <2> QED BY <2>1, <1>1, <1>5
<1> QED BY <1>2, <1>3, <1>9, <1>10 DEF Cut, r

LEMMA WithoutKeeps ==
    ASSUME NEW S, NEW q \in Seq(S), NEW D
    PROVE  /\ Without(q, D) \in Seq(S)
           /\ Len(Without(q, D)) <= Len(q)
           /\ \A x : InSeq(Without(q, D), x) <=> InSeq(q, x) /\ x \notin D
           /\ Once(q) => Once(Without(q, D))
<1> DEFINE Good(r) == /\ Without(r, D) \in Seq(S)
                      /\ Len(Without(r, D)) <= Len(r)
                      /\ \A x : InSeq(Without(r, D), x) <=> InSeq(r, x) /\ x \notin D
                      /\ Once(r) => Once(Without(r, D))
           T == {r \in Seq(S) : Good(r)}
<1>1. <<>> \in T
  <2>1. Without(<<>>, D) = <<>> BY WithoutEmpty
  <2>2. <<>> \in Seq(S) /\ Len(<<>>) <= Len(<<>>) BY EmptySeq
  <2> QED BY <2>1, <2>2, NothingInEmpty
<1>2. ASSUME NEW r \in T, NEW e \in S PROVE Append(r, e) \in T
  <2> DEFINE w == Without(r, D)
             a == Append(r, e)
  <2>1. r \in Seq(S) /\ Good(r) OBVIOUS
  <2>2. w \in Seq(S) /\ Len(w) <= Len(r) /\ Len(w) \in Nat /\ Len(r) \in Nat
    BY <2>1, LenProperties
  <2>3. /\ a \in Seq(S) /\ Len(a) = Len(r) + 1
        /\ \A x : InSeq(a, x) <=> InSeq(r, x) \/ x = e
    BY <2>1, AppendIn, AppendProperties
  <2>4. Without(a, D) = IF e \in D THEN w ELSE Append(w, e) BY <2>1, WithoutAppend
  <2>5. Once(a) => Once(r) /\ ~InSeq(r, e)
    <3>1. \A i \in 1..Len(r) : a[i] = r[i] /\ i \in 1..Len(a) BY <2>1, <2>2, <2>3, AppendProperties
    <3>2. a[Len(r) + 1] = e /\ Len(r) + 1 \in 1..Len(a) BY <2>1, <2>2, <2>3, AppendProperties
    <3> HIDE DEF a
    <3>3. ASSUME Once(a) PROVE Once(r) BY <3>1, <3>3 DEF Once
    <3>4. ASSUME Once(a), InSeq(r, e) PROVE FALSE
      <4>1. PICK i \in 1..Len(r) : r[i] = e BY <3>4 DEF InSeq
      <4>2. i = Len(r) + 1 BY <4>1, <3>1, <3>2, <3>4 DEF Once
      <4> QED BY <4>2, <2>2
    <3> QED BY <3>3, <3>4
  <2>6. /\ \A x : InSeq(w, x) <=> InSeq(r, x) /\ x \notin D
        /\ Once(r) => Once(w)
    BY <2>1
  <2>7. CASE e \in D
    <3>1. Without(a, D) = w BY <2>4, <2>7
    <3>2. Len(w) <= Len(a) BY <2>2, <2>3
    <3> HIDE DEF w, a
    <3>3. Good(a) BY <3>1, <3>2, <2>2, <2>3, <2>5, <2>6, <2>7
    <3> QED BY <3>3, <2>3 DEF a
  <2>8. CASE e \notin D
    <3>1. Without(a, D) = Append(w, e) BY <2>4, <2>8
    <3>2. /\ Append(w, e) \in Seq(S) /\ Len(Append(w, e)) = Len(w) + 1
          /\ \A x : InSeq(Append(w, e), x) <=> InSeq(w, x) \/ x = e
          /\ Once(w) /\ ~InSeq(w, e) => Once(Append(w, e))
      BY <2>2, AppendIn, AppendProperties
    <3>3. Len(Append(w, e)) <= Len(a) BY <3>2, <2>2, <2>3
    <3> HIDE DEF w, a
    <3>4. Good(a) BY <3>1, <3>2, <3>3, <2>3, <2>5, <2>6, <2>8
    <3> QED BY <3>4, <2>3 DEF a
  <2> QED BY <2>7, <2>8
<1>3. T = Seq(S)
  <2>1. T \in SUBSET Seq(S) OBVIOUS
  <2> HIDE DEF T
  <2> QED BY <1>1, <1>2, <2>1, ListInd
<1>4. q \in T BY <1>3
<1> QED BY <1>4

LEMMA AppendConcat ==
    ASSUME NEW S, NEW p \in Seq(S), NEW q \in Seq(S), NEW e \in S
    PROVE  p \o Append(q, e) = Append(p \o q, e)
<1>1. <<e>> \in Seq(S) OBVIOUS
<1>2. p \o q \in Seq(S) BY ConcatProperties
<1>3. Append(q, e) = q \o <<e>> /\ Append(p \o q, e) = (p \o q) \o <<e>> BY <1>2, AppendIsConcat
<1> QED BY <1>1, <1>3, ConcatAssociative

LEMMA WithoutConcat ==
    ASSUME NEW S, NEW p \in Seq(S), NEW q \in Seq(S), NEW D
    PROVE  Without(p \o q, D) = Without(p, D) \o Without(q, D)
<1> DEFINE w == Without(p, D)
           Good(r) == Without(p \o r, D) = w \o Without(r, D)
           T == {r \in Seq(S) : Good(r)}
<1>1. w \in Seq(S) BY WithoutKeeps
<1>2. <<>> \in T
  <2>1. Without(<<>>, D) = <<>> BY WithoutEmpty
  <2>2. p \o <<>> = p /\ w \o <<>> = w BY <1>1, ConcatEmptySeq
  <2>3. <<>> \in Seq(S) BY EmptySeq
  <2> QED BY <2>1, <2>2, <2>3
<1>3. ASSUME NEW r \in T, NEW e \in S PROVE Append(r, e) \in T
  <2> DEFINE v == Without(r, D)
             y == p \o r
  <2>1. r \in Seq(S) /\ Without(y, D) = w \o v OBVIOUS
  <2>2. v \in Seq(S) BY <2>1, WithoutKeeps
  <2>3. p \o Append(r, e) = Append(y, e) BY <2>1, AppendConcat
  <2>4. y \in Seq(S) BY <2>1, ConcatProperties
  <2>5. Without(Append(r, e), D) = IF e \in D THEN v ELSE Append(v, e) BY <2>1, WithoutAppend
  <2> HIDE DEF v, w, y
  <2>6. Without(Append(y, e), D) = IF e \in D THEN Without(y, D) ELSE Append(Without(y, D), e)
    BY <2>4, WithoutAppend
  <2>7. w \o Append(v, e) = Append(w \o v, e) BY <1>1, <2>2, AppendConcat
  <2>8. Good(Append(r, e))
    <3>1. CASE e \in D BY <3>1, <2>1, <2>3, <2>5, <2>6
    <3>2. CASE e \notin D BY <3>2, <2>1, <2>3, <2>5, <2>6, <2>7
    <3> QED BY <3>1, <3>2
  <2>9. Append(r, e) \in Seq(S) BY <2>1, AppendProperties
  <2> QED BY <2>8, <2>9
<1>4. T = Seq(S)
  <2>1. T \in SUBSET Seq(S) OBVIOUS
  <2> HIDE DEF T
  <2> QED BY <1>2, <1>3, <2>1, ListInd
<1>5. q \in T BY <1>4
<1> QED BY <1>5

LEMMA WithoutTwice ==
    ASSUME NEW S, NEW q \in Seq(S), NEW D, NEW E
    PROVE  Without(Without(q, D), E) = Without(q, D \cup E)
<1> DEFINE Good(r) == Without(Without(r, D), E) = Without(r, D \cup E)
           T == {r \in Seq(S) : Good(r)}
<1>1. <<>> \in T
  <2>1. <<>> \in Seq(S) BY EmptySeq
  <2> QED BY <2>1, WithoutEmpty
<1>2. ASSUME NEW r \in T, NEW e \in S PROVE Append(r, e) \in T
  <2> DEFINE w == Without(r, D)
             v == Without(r, D \cup E)
             a == Append(r, e)
  <2>1. r \in Seq(S) /\ Without(w, E) = v OBVIOUS
  <2>2. w \in Seq(S) BY <2>1, WithoutKeeps
  <2>3. Without(a, D) = IF e \in D THEN w ELSE Append(w, e) BY <2>1, WithoutAppend
  <2>4. Without(a, D \cup E) = IF e \in D \cup E THEN v ELSE Append(v, e)
    BY <2>1, WithoutAppend
  <2> HIDE DEF w
  <2>5. Without(Append(w, e), E) = IF e \in E THEN Without(w, E) ELSE Append(Without(w, E), e)
    BY <2>2, WithoutAppend
  <2>6. a \in Seq(S) BY <2>1, AppendProperties
  <2> HIDE DEF v, a
  <2>7. Without(Without(a, D), E) = Without(a, D \cup E)
    BY <2>1, <2>3, <2>4, <2>5
  <2> QED BY <2>6, <2>7 DEF a
<1>3. T = Seq(S)
  <2>1. T \in SUBSET Seq(S) OBVIOUS
  <2> HIDE DEF T
  <2> QED BY <1>1, <1>2, <2>1, ListInd
<1>4. q \in T BY <1>3
<1> QED BY <1>4

\* What is left when nothing stays.
LEMMA WithoutAll ==
    ASSUME NEW S, NEW q \in Seq(S), NEW D, \A x \in S : InSeq(q, x) => x \in D
    PROVE  Without(q, D) = <<>>
<1> DEFINE w == Without(q, D)
<1>1. w \in Seq(S) /\ \A x : InSeq(w, x) <=> InSeq(q, x) /\ x \notin D BY WithoutKeeps
<1> HIDE DEF w
<1>2. ASSUME w # <<>> PROVE FALSE
  <2>1. Head(w) \in S /\ InSeq(w, Head(w)) BY <1>1, <1>2, HeadTailIn
  <2> QED BY <2>1, <1>1
<1> QED BY <1>2 DEF w

\* The first n entries of a list are cut.
LEMMA CutFront ==
    ASSUME NEW S, NEW q \in Seq(S), NEW n \in Nat
    PROVE  /\ SubSeq(q, n + 1, Len(q)) \in Seq(S)
           /\ Len(SubSeq(q, n + 1, Len(q))) <= Len(q)
           /\ \A x : InSeq(SubSeq(q, n + 1, Len(q)), x) <=>
                     \E i \in 1..Len(q) : i > n /\ q[i] = x
           /\ Once(q) => Once(SubSeq(q, n + 1, Len(q)))
<1> DEFINE k == Len(q)
           r == SubSeq(q, n + 1, k)
<1>1. k \in Nat /\ \A i \in 1..k : q[i] \in S BY LenProperties, ElementOfSeq
<1>2. /\ r \in Seq(S) /\ Len(r) = IF n + 1 <= k THEN k - (n + 1) + 1 ELSE 0
      /\ \A i \in 1..(k - (n + 1) + 1) : r[i] = q[n + 1 + i - 1]
  <2>1. \A i \in n + 1..k : q[i] \in S BY <1>1
  <2>2. n + 1 \in Int /\ k \in Int BY <1>1
  <2> HIDE DEF k
  <2> QED BY <2>1, <2>2, SubSeqProperties
<1> HIDE DEF k, r
<1>3. Len(r) <= k /\ Len(r) \in Nat BY <1>1, <1>2
<1>4. \A i \in 1..Len(r) : i + n \in 1..k /\ i + n > n /\ r[i] = q[i + n] BY <1>1, <1>2
<1>5. \A i \in 1..k : i > n => i - n \in 1..Len(r) /\ i - n + n = i BY <1>1, <1>2
<1>6. ASSUME NEW x PROVE InSeq(r, x) <=> \E i \in 1..k : i > n /\ q[i] = x
  <2>1. ASSUME InSeq(r, x) PROVE \E i \in 1..k : i > n /\ q[i] = x
    <3>1. PICK i \in 1..Len(r) : r[i] = x BY <2>1 DEF InSeq
    <3> QED BY <3>1, <1>4
  <2>2. ASSUME NEW i \in 1..k, i > n, q[i] = x PROVE InSeq(r, x)
    <3> DEFINE j == i - n
    <3>1. j \in 1..Len(r) /\ j + n = i BY <2>2, <1>5
    <3> HIDE DEF j
    <3>2. r[j] = x BY <3>1, <1>4, <2>2
    <3> QED BY <3>1, <3>2 DEF InSeq
  <2> QED BY <2>1, <2>2
<1>7. ASSUME Once(q) PROVE Once(r)
  <2> SUFFICES ASSUME NEW i \in 1..Len(r), NEW j \in 1..Len(r), r[i] = r[j] PROVE i = j
    BY DEF Once
  <2>1. i + n \in 1..k /\ j + n \in 1..k /\ q[i + n] = q[j + n] BY <1>4
  <2>2. i + n = j + n BY <2>1, <1>7 DEF Once, k
  <2> QED BY <2>2
<1> QED BY <1>2, <1>3, <1>6, <1>7 DEF k, r

\* The first entry that is kept, at n, is the head of what is kept.
LEMMA WithoutFront ==
    ASSUME NEW S, NEW q \in Seq(S), NEW n \in 1..Len(q), NEW D, \A i \in 1..n - 1 : q[i] \in D
    PROVE  Without(q, D) = IF q[n] \in D THEN Without(SubSeq(q, n + 1, Len(q)), D)
                           ELSE <<q[n]>> \o Without(SubSeq(q, n + 1, Len(q)), D)
<1> DEFINE k == Len(q)
           a == SubSeq(q, 1, n - 1)
           b == SubSeq(q, n + 1, k)
           e == q[n]
<1>1. k \in Nat /\ e \in S /\ \A i \in 1..k : q[i] \in S BY LenProperties, ElementOfSeq
<1>2. b \in Seq(S) BY CutFront
<1>3. /\ a \in Seq(S) /\ Len(a) = n - 1 /\ \A i \in 1..n - 1 : a[i] = q[i]
  <2>1. \A i \in 1..n - 1 : q[i] \in S BY <1>1
  <2>2. /\ SubSeq(q, 1, n - 1) \in Seq(S)
        /\ Len(SubSeq(q, 1, n - 1)) = IF 1 <= n - 1 THEN n - 1 - 1 + 1 ELSE 0
        /\ \A i \in 1..(n - 1 - 1 + 1) : SubSeq(q, 1, n - 1)[i] = q[1 + i - 1]
    BY <2>1, SubSeqProperties
  <2> QED BY <2>2
<1>4. Without(a, D) = <<>>
  <2>1. ASSUME NEW x, InSeq(a, x) PROVE x \in D
    <3>1. PICK i \in 1..n - 1 : a[i] = x BY <2>1, <1>3 DEF InSeq
    <3> QED BY <3>1, <1>3
  <2> HIDE DEF a
  <2> QED BY <2>1, <1>3, WithoutAll
<1>5. q = Append(a, e) \o b
  <2>1. SubSeq(q, 1, n) = SubSeq(q, 1, n - 1) \o <<q[n]>>
    <3>1. 1 \in 1..k /\ n \in 1..k BY <1>1
    <3> QED BY <3>1, SubSeqRecursiveSecond
  <2>2. a \o <<e>> = Append(a, e) BY <1>1, <1>3, AppendIsConcat
  <2>3. SubSeq(q, 1, n) \o SubSeq(q, n + 1, k) = SubSeq(q, 1, k)
    <3>1. 1 \in 1..k + 1 /\ n \in 1 - 1..k /\ k \in n..k BY <1>1
    <3> QED BY <3>1, ConcatAdjacentSubSeq
  <2>4. SubSeq(q, 1, k) = q BY SubSeqFull
  <2> QED BY <2>1, <2>2, <2>3, <2>4
<1>6. Append(a, e) \in Seq(S) BY <1>1, <1>3, AppendProperties
<1> HIDE DEF a, b, e
<1>7. Without(q, D) = Without(Append(a, e), D) \o Without(b, D)
  <2> DEFINE c == Append(a, e)
  <2>1. c \in Seq(S) /\ q = c \o b BY <1>5, <1>6
  <2> HIDE DEF c
  <2>2. Without(c \o b, D) = Without(c, D) \o Without(b, D) BY <1>2, <2>1, WithoutConcat
  <2> QED BY <2>1, <2>2 DEF c
<1>8. Without(Append(a, e), D) = IF e \in D THEN <<>> ELSE Append(<<>>, e)
  <2>1. a \in Seq(S) /\ e \in S BY <1>1, <1>3
  <2>2. Without(Append(a, e), D) = IF e \in D THEN Without(a, D) ELSE Append(Without(a, D), e)
    BY <2>1, WithoutAppend
  <2> QED BY <2>2, <1>4
<1>9. Without(b, D) \in Seq(S) BY <1>2, WithoutKeeps
<1>10. <<>> \o Without(b, D) = Without(b, D) BY <1>9, ConcatEmptySeq
<1>11. Append(<<>>, e) = <<e>>
  <2>1. Append(<<>>, e) = <<>> \o <<e>> BY <1>1, EmptySeq, AppendIsConcat
  <2>2. <<e>> \in Seq(S) BY <1>1
  <2> QED BY <2>1, <2>2, ConcatEmptySeq
<1> QED BY <1>7, <1>8, <1>10, <1>11 DEF b, e

\* An entry in front of a list is its head.
LEMMA PrependHead ==
    ASSUME NEW S, NEW e \in S, NEW q \in Seq(S)
    PROVE  /\ <<e>> \o q # <<>>
           /\ Head(<<e>> \o q) = e
           /\ Tail(<<e>> \o q) = q
<1> DEFINE p == <<e>>
           r == p \o q
<1>1. p \in Seq(S) /\ Len(p) = 1 /\ p[1] = e BY SingletonIn
<1> HIDE DEF p
<1>2. /\ r \in Seq(S) /\ Len(r) = Len(p) + Len(q)
      /\ \A i \in 1..Len(p) + Len(q) : r[i] = IF i <= Len(p) THEN p[i] ELSE q[i - Len(p)]
  BY <1>1, ConcatProperties
<1>3. Len(q) \in Nat BY LenProperties
<1> HIDE DEF r
<1>4. Len(r) = Len(q) + 1 /\ r[1] = e BY <1>1, <1>2, <1>3
<1>5. \A i \in 1..Len(q) : r[i + 1] = q[i] BY <1>1, <1>2, <1>3
<1>6. r # <<>> BY <1>3, <1>4, EmptySeq
<1>7. Head(r) = e BY <1>2, <1>4, <1>6
<1>8. Tail(r) = q
  <2>1. /\ Tail(r) \in Seq(S) /\ Len(Tail(r)) = Len(r) - 1
        /\ \A i \in 1..Len(Tail(r)) : Tail(r)[i] = r[i + 1]
    BY <1>2, <1>6, HeadTailProperties
  <2>2. Len(Tail(r)) = Len(q) BY <2>1, <1>3, <1>4
  <2>3. \A i \in 1..Len(Tail(r)) : Tail(r)[i] = q[i] BY <2>1, <2>2, <1>5
  <2> HIDE DEF r
  <2> QED BY <2>1, <2>2, <2>3, SeqEqual
<1> QED BY <1>6, <1>7, <1>8 DEF p, r
=============================================================================
