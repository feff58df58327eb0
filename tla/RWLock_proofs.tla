---------------------------- MODULE RWLock_proofs ----------------------------
(***************************************************************************)
(* Proofs about RWLock and, with it, Condition: the read/write lock        *)
(* excludes, and a signaller releases the waiters it found.                *)
(***************************************************************************)
EXTENDS RWLock, SequenceTheorems, FiniteSetTheorems, TLAPS

-----------------------------------------------------------------------------
(* Calls are short sequences of steps.                                     *)

LEMMA Concat1And4 ==
    ASSUME NEW a, NEW b, NEW c, NEW d, NEW e
    PROVE  <<a>> \o <<b, c, d, e>> = <<a, b, c, d, e>>
<1> DEFINE S == {a, b, c, d, e}
           p == <<a>>
           q == <<b, c, d, e>>
           r == <<a, b, c, d, e>>
<1>1. p \in Seq(S) /\ q \in Seq(S) /\ r \in Seq(S) OBVIOUS
<1>2. Len(p) = 1 /\ Len(q) = 4 /\ Len(r) = 5 OBVIOUS
<1>3. /\ p \o q \in Seq(S) /\ Len(p \o q) = 5
      /\ \A i \in 1..5 : (p \o q)[i] = IF i <= 1 THEN p[i] ELSE q[i - 1]
  BY <1>1, <1>2, ConcatProperties
<1>4. \A i \in 1..5 : r[i] = IF i <= 1 THEN p[i] ELSE q[i - 1]
  <2>1. \A i \in 1..5 : i = 1 \/ i = 2 \/ i = 3 \/ i = 4 \/ i = 5
    OBVIOUS
  <2>2. 2 - 1 = 1 /\ 3 - 1 = 2 /\ 4 - 1 = 3 /\ 5 - 1 = 4 OBVIOUS
  <2> QED BY <2>1, <2>2
<1>5. \A i \in 1..5 : (p \o q)[i] = r[i] BY <1>3, <1>4
<1> HIDE DEF p, q, r
<1> QED BY <1>1, <1>2, <1>3, <1>5, SeqEqual DEF p, q, r

LEMMA Concat1And5 ==
    ASSUME NEW a, NEW b, NEW c, NEW d, NEW e, NEW f
    PROVE  <<a>> \o <<b, c, d, e, f>> = <<a, b, c, d, e, f>>
<1> DEFINE S == {a, b, c, d, e, f}
           p == <<a>>
           q == <<b, c, d, e, f>>
           r == <<a, b, c, d, e, f>>
<1>1. p \in Seq(S) /\ q \in Seq(S) /\ r \in Seq(S) OBVIOUS
<1>2. Len(p) = 1 /\ Len(q) = 5 /\ Len(r) = 6 OBVIOUS
<1>3. /\ p \o q \in Seq(S) /\ Len(p \o q) = 6
      /\ \A i \in 1..6 : (p \o q)[i] = IF i <= 1 THEN p[i] ELSE q[i - 1]
  BY <1>1, <1>2, ConcatProperties
<1>4. \A i \in 1..6 : r[i] = IF i <= 1 THEN p[i] ELSE q[i - 1]
  <2>1. \A i \in 1..6 : i = 1 \/ i = 2 \/ i = 3 \/ i = 4 \/ i = 5 \/ i = 6
    OBVIOUS
  <2>2. 2 - 1 = 1 /\ 3 - 1 = 2 /\ 4 - 1 = 3 /\ 5 - 1 = 4 /\ 6 - 1 = 5 OBVIOUS
  <2> QED BY <2>1, <2>2
<1>5. \A i \in 1..6 : (p \o q)[i] = r[i] BY <1>3, <1>4
<1> HIDE DEF p, q, r
<1> QED BY <1>1, <1>2, <1>3, <1>5, SeqEqual DEF p, q, r

LEMMA Concat2And1 ==
    ASSUME NEW a, NEW b, NEW c
    PROVE  <<a, b>> \o <<c>> = <<a, b, c>>
<1> DEFINE S == {a, b, c}
           p == <<a, b>>
           q == <<c>>
           r == <<a, b, c>>
<1>1. p \in Seq(S) /\ q \in Seq(S) /\ r \in Seq(S) OBVIOUS
<1>2. Len(p) = 2 /\ Len(q) = 1 /\ Len(r) = 3 OBVIOUS
<1>3. /\ p \o q \in Seq(S) /\ Len(p \o q) = 3
      /\ \A i \in 1..3 : (p \o q)[i] = IF i <= 2 THEN p[i] ELSE q[i - 2]
  BY <1>1, <1>2, ConcatProperties
<1>4. \A i \in 1..3 : r[i] = IF i <= 2 THEN p[i] ELSE q[i - 2]
  <2>1. \A i \in 1..3 : i = 1 \/ i = 2 \/ i = 3
    OBVIOUS
  <2>2. 3 - 2 = 1 OBVIOUS
  <2> QED BY <2>1, <2>2
<1>5. \A i \in 1..3 : (p \o q)[i] = r[i] BY <1>3, <1>4
<1> HIDE DEF p, q, r
<1> QED BY <1>1, <1>2, <1>3, <1>5, SeqEqual DEF p, q, r

LEMMA Concat5And1 ==
    ASSUME NEW a, NEW b, NEW c, NEW d, NEW e, NEW f
    PROVE  <<a, b, c, d, e>> \o <<f>> = <<a, b, c, d, e, f>>
<1> DEFINE S == {a, b, c, d, e, f}
           p == <<a, b, c, d, e>>
           q == <<f>>
           r == <<a, b, c, d, e, f>>
<1>1. p \in Seq(S) /\ q \in Seq(S) /\ r \in Seq(S) OBVIOUS
<1>2. Len(p) = 5 /\ Len(q) = 1 /\ Len(r) = 6 OBVIOUS
<1>3. /\ p \o q \in Seq(S) /\ Len(p \o q) = 6
      /\ \A i \in 1..6 : (p \o q)[i] = IF i <= 5 THEN p[i] ELSE q[i - 5]
  BY <1>1, <1>2, ConcatProperties
<1>4. \A i \in 1..6 : r[i] = IF i <= 5 THEN p[i] ELSE q[i - 5]
  <2>1. \A i \in 1..6 : i = 1 \/ i = 2 \/ i = 3 \/ i = 4 \/ i = 5 \/ i = 6
    OBVIOUS
  <2>2. 6 - 5 = 1 OBVIOUS
  <2> QED BY <2>1, <2>2
<1>5. \A i \in 1..6 : (p \o q)[i] = r[i] BY <1>3, <1>4
<1> HIDE DEF p, q, r
<1> QED BY <1>1, <1>2, <1>3, <1>5, SeqEqual DEF p, q, r

LEMMA Concat6And1 ==
    ASSUME NEW a, NEW b, NEW c, NEW d, NEW e, NEW f, NEW g
    PROVE  <<a, b, c, d, e, f>> \o <<g>> = <<a, b, c, d, e, f, g>>
<1> DEFINE S == {a, b, c, d, e, f, g}
           p == <<a, b, c, d, e, f>>
           q == <<g>>
           r == <<a, b, c, d, e, f, g>>
<1>1. p \in Seq(S) /\ q \in Seq(S) /\ r \in Seq(S) OBVIOUS
<1>2. Len(p) = 6 /\ Len(q) = 1 /\ Len(r) = 7 OBVIOUS
<1>3. /\ p \o q \in Seq(S) /\ Len(p \o q) = 7
      /\ \A i \in 1..7 : (p \o q)[i] = IF i <= 6 THEN p[i] ELSE q[i - 6]
  BY <1>1, <1>2, ConcatProperties
<1>4. \A i \in 1..7 : r[i] = IF i <= 6 THEN p[i] ELSE q[i - 6]
  <2>1. \A i \in 1..7 : i = 1 \/ i = 2 \/ i = 3 \/ i = 4 \/ i = 5 \/ i = 6 \/ i = 7
    OBVIOUS
  <2>2. 7 - 6 = 1 OBVIOUS
  <2> QED BY <2>1, <2>2
<1>5. \A i \in 1..7 : (p \o q)[i] = r[i] BY <1>3, <1>4
<1> HIDE DEF p, q, r
<1> QED BY ZenonT(60), <1>1, <1>2, <1>3, <1>5, SeqEqual DEF p, q, r

-----------------------------------------------------------------------------
(* The same by name, so that a proof sees the sequences only through their *)
(* first step and the rest.                                                *)

One(a) == <<a>>
Two(a, b) == <<a, b>>
Three(a, b, c) == <<a, b, c>>
Four(a, b, c, d) == <<a, b, c, d>>
Five(a, b, c, d, e) == <<a, b, c, d, e>>
Six(a, b, c, d, e, f) == <<a, b, c, d, e, f>>
Seven(a, b, c, d, e, f, g) == <<a, b, c, d, e, f, g>>

LEMMA OneIs ==
    ASSUME NEW a
    PROVE  One(a) # <<>> /\ Head(One(a)) = a /\ Tail(One(a)) = <<>>
BY DEF One

LEMMA TwoIs ==
    ASSUME NEW a, NEW b
    PROVE  Two(a, b) # <<>> /\ Head(Two(a, b)) = a /\ Tail(Two(a, b)) = One(b)
BY DEF One, Two

LEMMA ThreeIs ==
    ASSUME NEW a, NEW b, NEW c
    PROVE  Three(a, b, c) # <<>> /\ Head(Three(a, b, c)) = a /\ Tail(Three(a, b, c)) = Two(b, c)
BY DEF Two, Three

LEMMA FourIs ==
    ASSUME NEW a, NEW b, NEW c, NEW d
    PROVE  /\ Four(a, b, c, d) # <<>> /\ Head(Four(a, b, c, d)) = a
           /\ Tail(Four(a, b, c, d)) = Three(b, c, d)
BY DEF Three, Four

LEMMA FiveIs ==
    ASSUME NEW a, NEW b, NEW c, NEW d, NEW e
    PROVE  /\ Five(a, b, c, d, e) # <<>> /\ Head(Five(a, b, c, d, e)) = a
           /\ Tail(Five(a, b, c, d, e)) = Four(b, c, d, e)
BY DEF Four, Five

LEMMA SixIs ==
    ASSUME NEW a, NEW b, NEW c, NEW d, NEW e, NEW f
    PROVE  /\ Six(a, b, c, d, e, f) # <<>> /\ Head(Six(a, b, c, d, e, f)) = a
           /\ Tail(Six(a, b, c, d, e, f)) = Five(b, c, d, e, f)
BY DEF Five, Six

LEMMA SevenIs ==
    ASSUME NEW a, NEW b, NEW c, NEW d, NEW e, NEW f, NEW g
    PROVE  /\ Seven(a, b, c, d, e, f, g) # <<>> /\ Head(Seven(a, b, c, d, e, f, g)) = a
           /\ Tail(Seven(a, b, c, d, e, f, g)) = Six(b, c, d, e, f, g)
BY DEF Six, Seven

-----------------------------------------------------------------------------
(* What a thread may have left to do.                                      *)

Sleeps == {"sleep", "timed sleep"}

\* A wait for the condition, that ends with the step e, from its second step on.
WaitPhase(q, sleep, e) ==
    \/ q = Six("enter", "unlock", sleep, "leave", "lock", e)
    \/ q = Five("unlock", sleep, "leave", "lock", e)
    \/ q = Five("release", sleep, "leave", "lock", e)
    \/ q = Four(sleep, "leave", "lock", e)
    \/ q = Three("leave", "lock", e)
    \/ q = Two("lock", e)

\* Handshakes, and the unlock that ends the call.
Shaking(q) ==
    /\ q \in Seq({"handshake", "unlock"}) /\ Len(q) > 1
    /\ \A i \in 1..Len(q) - 1 : q[i] = "handshake"
    /\ q[Len(q)] = "unlock"

\* Handshakes only: the call was made without the mutex.
Shaken(q) == q \in Seq({"handshake"}) /\ q # <<>>

EndPhase(q) == q = <<>> \/ q = One("release") \/ q = One("unlock")

LockPhase(q) ==
    \/ EndPhase(q)
    \/ q = Three("lock", "read", "unlock") \/ q = Three("trylock", "read", "unlock")
    \/ q = Two("read", "unlock")
    \/ WaitPhase(q, "sleep", "write") \/ q = One("write")
    \/ q = Two("trylock", "trywrite") \/ q = One("trywrite")
    \/ q = Two("lock", "drop") \/ q = One("drop")
    \/ q = Two("broadcast", "unlock") \/ Shaking(q)
    \/ q = Two("unlock", "unlock")

AppPhase(q) ==
    \/ EndPhase(q)
    \/ \E sleep \in Sleeps :
          \/ q = Seven("lock", "enter", "unlock", sleep, "leave", "lock", "unlock")
          \/ WaitPhase(q, sleep, "unlock")
    \/ /\ ~SignalUnlocked
       /\ \/ q = Three("lock", "signal", "unlock") \/ q = Two("signal", "unlock")
          \/ q = Three("lock", "broadcast", "unlock") \/ q = Two("broadcast", "unlock")
          \/ q = Three("handshake", "one", "unlock") \/ Shaking(q)
    \/ /\ SignalUnlocked
       /\ \/ q = One("signal") \/ q = One("broadcast")
          \/ q = Two("handshake", "one") \/ Shaken(q)

\* The phases of a thread when the mutex is in the hands of who.
Phase(q, who) == (who = "rwlock" /\ LockPhase(q)) \/ (who = "app" /\ AppPhase(q))

\* Where the thread has the mutex, and where it has still to release its semaphore.
Inside(q, who) ==
    /\ q # <<>>
    /\ \/ Head(q) \in {"read", "write", "trywrite", "drop", "unlock", "enter"}
       \/ /\ Head(q) \in {"signal", "broadcast", "handshake"}
          /\ who = "rwlock" \/ ~SignalUnlocked

Leaving(q) == q # <<>> /\ Head(q) = "release"

\* The steps that tell how the thread holds the read/write lock.
Telling(q) == q = Two("lock", "drop") \/ q = One("drop") \/ q = Two("unlock", "unlock")

LEMMA ShakingHead ==
    ASSUME NEW q, Shaking(q)
    PROVE  /\ q # <<>> /\ Head(q) = "handshake" /\ q[Len(q)] = "unlock"
           /\ Len(Tail(q)) = Len(q) - 1 /\ Len(q) \in Nat
           /\ IF Len(q) = 2 THEN Tail(q) = One("unlock") ELSE Shaking(Tail(q))
<1> DEFINE S == {"handshake", "unlock"}
<1>1. /\ q \in Seq(S) /\ Len(q) > 1 /\ q[Len(q)] = "unlock"
      /\ \A i \in 1..Len(q) - 1 : q[i] = "handshake"
  BY DEF Shaking
<1>2. Len(q) \in Nat /\ q # <<>> BY <1>1, LenProperties, EmptySeq
<1>3. /\ Tail(q) \in Seq(S) /\ Len(Tail(q)) = Len(q) - 1 /\ Head(q) = q[1]
      /\ \A i \in 1..Len(q) - 1 : Tail(q)[i] = q[i + 1]
  BY <1>1, <1>2, HeadTailProperties
<1>4. Head(q) = "handshake" BY <1>1, <1>2, <1>3
<1>5. CASE Len(q) = 2
  <2> DEFINE u == <<"unlock">>
  <2>1. u \in Seq(S) /\ Len(u) = 1 /\ u[1] = "unlock" OBVIOUS
  <2>2. Tail(q)[1] = "unlock" BY <1>1, <1>3, <1>5
  <2>4. Len(Tail(q)) = 1 BY <1>3, <1>5
  <2> HIDE DEF u, S
  <2>3. \A i \in 1..1 : Tail(q)[i] = u[i]
    <3>1. \A i \in 1..1 : i = 1 OBVIOUS
    <3> QED BY <3>1, <2>1, <2>2
  <2>5. Tail(q) = u BY <1>3, <2>1, <2>3, <2>4, SeqEqual
  <2> QED BY <2>5, <1>1, <1>2, <1>3, <1>4, <1>5 DEF u, One
<1>6. CASE Len(q) # 2
  <2>1. Len(Tail(q)) > 1 BY <1>1, <1>2, <1>3, <1>6
  <2>2. \A i \in 1..Len(Tail(q)) - 1 : Tail(q)[i] = "handshake"
    <3> SUFFICES ASSUME NEW i \in 1..Len(q) - 2 PROVE Tail(q)[i] = "handshake"
      BY <1>2, <1>3
    <3>1. i + 1 \in 1..Len(q) - 1 /\ i \in 1..Len(q) - 1 BY <1>2
    <3> QED BY <3>1, <1>1, <1>3
  <2>3. Tail(q)[Len(Tail(q))] = "unlock"
    <3>1. Len(q) - 1 \in 1..Len(q) - 1 /\ Len(q) - 1 + 1 = Len(q) BY <1>1, <1>2
    <3> QED BY <3>1, <1>1, <1>3
  <2>4. Shaking(Tail(q)) BY <1>3, <2>1, <2>2, <2>3 DEF Shaking
  <2> QED BY <2>4, <1>1, <1>2, <1>3, <1>4, <1>6
<1> QED BY <1>5, <1>6

LEMMA ShakenHead ==
    ASSUME NEW q, Shaken(q)
    PROVE  /\ q # <<>> /\ Head(q) = "handshake" /\ q[Len(q)] = "handshake"
           /\ Tail(q) = <<>> \/ Shaken(Tail(q))
<1> DEFINE S == {"handshake"}
<1>1. q \in Seq(S) /\ q # <<>> BY DEF Shaken
<1>2. Len(q) \in Nat /\ Len(q) # 0 BY <1>1, LenProperties, EmptySeq
<1>3. /\ Tail(q) \in Seq(S) /\ Head(q) \in S
  BY <1>1, <1>2, HeadTailProperties
<1>4. q[Len(q)] \in S
  <2>1. Len(q) \in 1..Len(q) BY <1>2
  <2> QED BY <1>1, <2>1, ElementOfSeq
<1> QED BY <1>1, <1>3, <1>4 DEF Shaken


Row(q, first, rest) == q # <<>> /\ Head(q) = first /\ Tail(q) = rest

\* What has a first step, and what is left after it.
LEMMA WaitTable ==
    ASSUME NEW q, NEW s, NEW e, WaitPhase(q, s, e)
    PROVE  \/ q = Six("enter", "unlock", s, "leave", "lock", e) /\ Row(q, "enter", Five("unlock", s, "leave", "lock", e))
           \/ q = Five("unlock", s, "leave", "lock", e) /\ Row(q, "unlock", Four(s, "leave", "lock", e))
           \/ q = Five("release", s, "leave", "lock", e) /\ Row(q, "release", Four(s, "leave", "lock", e))
           \/ q = Four(s, "leave", "lock", e) /\ Row(q, s, Three("leave", "lock", e))
           \/ q = Three("leave", "lock", e) /\ Row(q, "leave", Two("lock", e))
           \/ q = Two("lock", e) /\ Row(q, "lock", One(e))
<1>1. ASSUME q = Six("enter", "unlock", s, "leave", "lock", e) PROVE Row(q, "enter", Five("unlock", s, "leave", "lock", e))
  BY <1>1, SixIs DEF Row
<1>2. ASSUME q = Five("unlock", s, "leave", "lock", e) PROVE Row(q, "unlock", Four(s, "leave", "lock", e))
  BY <1>2, FiveIs DEF Row
<1>3. ASSUME q = Five("release", s, "leave", "lock", e) PROVE Row(q, "release", Four(s, "leave", "lock", e))
  BY <1>3, FiveIs DEF Row
<1>4. ASSUME q = Four(s, "leave", "lock", e) PROVE Row(q, s, Three("leave", "lock", e))
  BY <1>4, FourIs DEF Row
<1>5. ASSUME q = Three("leave", "lock", e) PROVE Row(q, "leave", Two("lock", e))
  BY <1>5, ThreeIs DEF Row
<1>6. ASSUME q = Two("lock", e) PROVE Row(q, "lock", One(e))
  BY <1>6, TwoIs DEF Row
<1> QED BY <1>1, <1>2, <1>3, <1>4, <1>5, <1>6 DEF WaitPhase

LEMMA LockTable ==
    ASSUME NEW q, LockPhase(q)
    PROVE  \/ q = <<>>
           \/ WaitPhase(q, "sleep", "write")
           \/ Shaking(q)
           \/ q = One("release") /\ Row(q, "release", <<>>)
           \/ q = One("unlock") /\ Row(q, "unlock", <<>>)
           \/ q = Three("lock", "read", "unlock") /\ Row(q, "lock", Two("read", "unlock"))
           \/ q = Three("trylock", "read", "unlock") /\ Row(q, "trylock", Two("read", "unlock"))
           \/ q = Two("read", "unlock") /\ Row(q, "read", One("unlock"))
           \/ q = One("write") /\ Row(q, "write", <<>>)
           \/ q = Two("trylock", "trywrite") /\ Row(q, "trylock", One("trywrite"))
           \/ q = One("trywrite") /\ Row(q, "trywrite", <<>>)
           \/ q = Two("lock", "drop") /\ Row(q, "lock", One("drop"))
           \/ q = One("drop") /\ Row(q, "drop", <<>>)
           \/ q = Two("broadcast", "unlock") /\ Row(q, "broadcast", One("unlock"))
           \/ q = Two("unlock", "unlock") /\ Row(q, "unlock", One("unlock"))
<1>1. ASSUME q = One("release") PROVE Row(q, "release", <<>>)
  BY <1>1, OneIs DEF Row
<1>2. ASSUME q = One("unlock") PROVE Row(q, "unlock", <<>>)
  BY <1>2, OneIs DEF Row
<1>3. ASSUME q = Three("lock", "read", "unlock") PROVE Row(q, "lock", Two("read", "unlock"))
  BY <1>3, ThreeIs DEF Row
<1>4. ASSUME q = Three("trylock", "read", "unlock") PROVE Row(q, "trylock", Two("read", "unlock"))
  BY <1>4, ThreeIs DEF Row
<1>5. ASSUME q = Two("read", "unlock") PROVE Row(q, "read", One("unlock"))
  BY <1>5, TwoIs DEF Row
<1>6. ASSUME q = One("write") PROVE Row(q, "write", <<>>)
  BY <1>6, OneIs DEF Row
<1>7. ASSUME q = Two("trylock", "trywrite") PROVE Row(q, "trylock", One("trywrite"))
  BY <1>7, TwoIs DEF Row
<1>8. ASSUME q = One("trywrite") PROVE Row(q, "trywrite", <<>>)
  BY <1>8, OneIs DEF Row
<1>9. ASSUME q = Two("lock", "drop") PROVE Row(q, "lock", One("drop"))
  BY <1>9, TwoIs DEF Row
<1>10. ASSUME q = One("drop") PROVE Row(q, "drop", <<>>)
  BY <1>10, OneIs DEF Row
<1>11. ASSUME q = Two("broadcast", "unlock") PROVE Row(q, "broadcast", One("unlock"))
  BY <1>11, TwoIs DEF Row
<1>12. ASSUME q = Two("unlock", "unlock") PROVE Row(q, "unlock", One("unlock"))
  BY <1>12, TwoIs DEF Row
<1> QED BY <1>1, <1>2, <1>3, <1>4, <1>5, <1>6, <1>7, <1>8, <1>9, <1>10, <1>11, <1>12 DEF
        LockPhase, EndPhase

SignalRow(q) ==
    \/ q = Three("lock", "signal", "unlock") /\ Row(q, "lock", Two("signal", "unlock"))
    \/ q = Two("signal", "unlock") /\ Row(q, "signal", One("unlock"))
    \/ q = Three("lock", "broadcast", "unlock") /\ Row(q, "lock", Two("broadcast", "unlock"))
    \/ q = Two("broadcast", "unlock") /\ Row(q, "broadcast", One("unlock"))
    \/ q = Three("handshake", "one", "unlock") /\ Row(q, "handshake", Two("one", "unlock"))

UnlockedRow(q) ==
    \/ q = One("signal") /\ Row(q, "signal", <<>>)
    \/ q = One("broadcast") /\ Row(q, "broadcast", <<>>)
    \/ q = Two("handshake", "one") /\ Row(q, "handshake", One("one"))

LEMMA AppTable ==
    ASSUME NEW q, AppPhase(q)
    PROVE  \/ q = <<>>
           \/ \E s \in Sleeps :
                 \/ WaitPhase(q, s, "unlock")
                 \/ /\ q = Seven("lock", "enter", "unlock", s, "leave", "lock", "unlock")
                    /\ Row(q, "lock", Six("enter", "unlock", s, "leave", "lock", "unlock"))
           \/ ~SignalUnlocked /\ (Shaking(q) \/ SignalRow(q))
           \/ SignalUnlocked /\ (Shaken(q) \/ UnlockedRow(q))
           \/ q = One("release") /\ Row(q, "release", <<>>)
           \/ q = One("unlock") /\ Row(q, "unlock", <<>>)
<1>1. ASSUME q = One("release") PROVE Row(q, "release", <<>>)
  BY <1>1, OneIs DEF Row
<1>2. ASSUME q = One("unlock") PROVE Row(q, "unlock", <<>>)
  BY <1>2, OneIs DEF Row
<1>3. ASSUME q = Three("lock", "signal", "unlock") PROVE Row(q, "lock", Two("signal", "unlock"))
  BY <1>3, ThreeIs DEF Row
<1>4. ASSUME q = Two("signal", "unlock") PROVE Row(q, "signal", One("unlock"))
  BY <1>4, TwoIs DEF Row
<1>5. ASSUME q = Three("lock", "broadcast", "unlock") PROVE Row(q, "lock", Two("broadcast", "unlock"))
  BY <1>5, ThreeIs DEF Row
<1>6. ASSUME q = Two("broadcast", "unlock") PROVE Row(q, "broadcast", One("unlock"))
  BY <1>6, TwoIs DEF Row
<1>7. ASSUME q = Three("handshake", "one", "unlock") PROVE Row(q, "handshake", Two("one", "unlock"))
  BY <1>7, ThreeIs DEF Row
<1>8. ASSUME q = One("signal") PROVE Row(q, "signal", <<>>)
  BY <1>8, OneIs DEF Row
<1>9. ASSUME q = One("broadcast") PROVE Row(q, "broadcast", <<>>)
  BY <1>9, OneIs DEF Row
<1>10. ASSUME q = Two("handshake", "one") PROVE Row(q, "handshake", One("one"))
  BY <1>10, TwoIs DEF Row
<1>11. ASSUME NEW s, q = Seven("lock", "enter", "unlock", s, "leave", "lock", "unlock")
       PROVE  Row(q, "lock", Six("enter", "unlock", s, "leave", "lock", "unlock"))
  BY <1>11, SevenIs DEF Row
<1>12. ASSUME q = Three("lock", "signal", "unlock") \/ q = Two("signal", "unlock")
              \/ q = Three("lock", "broadcast", "unlock") \/ q = Two("broadcast", "unlock")
              \/ q = Three("handshake", "one", "unlock")
       PROVE  SignalRow(q)
  BY <1>3, <1>4, <1>5, <1>6, <1>7, <1>12 DEF SignalRow
<1>13. ASSUME q = One("signal") \/ q = One("broadcast") \/ q = Two("handshake", "one")
       PROVE  UnlockedRow(q)
  BY <1>8, <1>9, <1>10, <1>13 DEF UnlockedRow
<1> QED BY <1>1, <1>2, <1>11, <1>12, <1>13 DEF AppPhase, EndPhase

\* A step that leaves alone who has the mutex and the lock.
Plain(q, r, who) ==
    /\ Phase(r, who) /\ (Inside(r, who) <=> Inside(q, who)) /\ ~Leaving(q) /\ ~Leaving(r)
    /\ ~Telling(q) /\ ~Telling(r)

\* What tells has one of two first steps.
LEMMA NotTelling ==
    ASSUME NEW q, Head(q) \notin {"lock", "drop", "unlock"}
    PROVE  ~Telling(q)
BY OneIs, TwoIs DEF Telling

LEMMA SleepIs ==
    ASSUME NEW s \in Sleeps
    PROVE  s = "sleep" \/ s = "timed sleep"
BY DEF Sleeps

LEMMA AtLock ==
    ASSUME NEW q, NEW who, Phase(q, who), q # <<>>, Head(q) = "lock"
    PROVE  /\ ~Inside(q, who) /\ ~Leaving(q)
           /\ Phase(Tail(q), who) /\ Inside(Tail(q), who) /\ ~Leaving(Tail(q))
           /\ Tail(q) # Two("unlock", "unlock") /\ Tail(q) # Two("lock", "drop")
           /\ Tail(q) = One("drop") <=> q = Two("lock", "drop")
<1>1. ~Shaking(q) /\ ~Shaken(q) BY ShakingHead, ShakenHead
<1>2. ~Inside(q, who) /\ ~Leaving(q) BY DEF Inside, Leaving
<1>3. ASSUME NEW s \in Sleeps, NEW e, WaitPhase(q, s, e) PROVE q = Two("lock", e) /\ Tail(q) = One(e)
  <2>1. s # "lock" BY SleepIs
  <2> QED BY <1>3, <2>1, WaitTable DEF Row
<1>4. CASE who = "rwlock"
  <2>1. "sleep" \in Sleeps BY DEF Sleeps
  <2>2. WaitPhase(q, "sleep", "write") => q = Two("lock", "write") /\ Tail(q) = One("write")
    BY <2>1, <1>3
  <2>3. \/ q = Three("lock", "read", "unlock") /\ Tail(q) = Two("read", "unlock")
        \/ q = Two("lock", "write") /\ Tail(q) = One("write")
        \/ q = Two("lock", "drop") /\ Tail(q) = One("drop")
    BY <1>1, <1>4, <2>2, LockTable DEF Phase, Row
  <2>4. LockPhase(Tail(q)) BY <2>3 DEF LockPhase
  <2>5. CASE Tail(q) = Two("read", "unlock")
    <3>1. Tail(q) # <<>> /\ Head(Tail(q)) = "read" BY <2>5, TwoIs
    <3>2. q # Two("lock", "drop") BY <3>1, TwoIs, OneIs
    <3>3. ~Telling(Tail(q)) BY <3>1, NotTelling
    <3> QED BY <1>2, <1>4, <2>4, <3>1, <3>2, <3>3 DEF Phase, Inside, Leaving, Telling
  <2>6. CASE Tail(q) = One("write")
    <3>1. Tail(q) # <<>> /\ Head(Tail(q)) = "write" BY <2>6, OneIs
    <3>2. q # Two("lock", "drop") BY <3>1, TwoIs, OneIs
    <3>3. ~Telling(Tail(q)) BY <3>1, NotTelling
    <3> QED BY <1>2, <1>4, <2>4, <3>1, <3>2, <3>3 DEF Phase, Inside, Leaving, Telling
  <2>7. CASE q = Two("lock", "drop") /\ Tail(q) = One("drop")
    <3>1. Tail(q) # <<>> /\ Head(Tail(q)) = "drop" BY <2>7, OneIs
    <3> QED BY <1>2, <1>4, <2>4, <2>7, <3>1, OneIs, TwoIs DEF Phase, Inside, Leaving
  <2> QED BY <2>3, <2>5, <2>6, <2>7
<1>5. CASE who = "app"
  <2>1. \/ \E s \in Sleeps : Tail(q) = Six("enter", "unlock", s, "leave", "lock", "unlock")
        \/ Tail(q) = One("unlock")
        \/ ~SignalUnlocked /\ Tail(q) = Two("signal", "unlock")
        \/ ~SignalUnlocked /\ Tail(q) = Two("broadcast", "unlock")
    BY <1>1, <1>3, <1>5, AppTable DEF Phase, Row, SignalRow, UnlockedRow
  <2>2. AppPhase(Tail(q)) BY <2>1 DEF AppPhase, EndPhase, WaitPhase
  <2>3. Tail(q) # <<>> /\ \/ Head(Tail(q)) \in {"enter", "unlock"}
                          \/ ~SignalUnlocked /\ Head(Tail(q)) \in {"signal", "broadcast"}
    BY SMTT(30), <2>1, SixIs, OneIs, TwoIs
  <2>4. Tail(q) # One("drop") /\ q # Two("lock", "drop") BY <2>3, TwoIs, OneIs
  <2>5. Tail(q) # Two("unlock", "unlock") /\ Tail(q) # Two("lock", "drop")
    BY SMTT(30), <2>1, <2>3, TwoIs, OneIs, SixIs
  <2> QED BY <1>2, <1>5, <2>2, <2>3, <2>4, <2>5 DEF Phase, Inside, Leaving
<1> QED BY <1>4, <1>5 DEF Phase

LEMMA AtTryLock ==
    ASSUME NEW q, NEW who, Phase(q, who), q # <<>>, Head(q) = "trylock"
    PROVE  /\ ~Inside(q, who) /\ ~Leaving(q) /\ ~Telling(q)
           /\ Phase(Tail(q), who) /\ Inside(Tail(q), who) /\ ~Leaving(Tail(q))
           /\ ~Telling(Tail(q)) /\ Plain(q, <<>>, who)
<1>1. ~Shaking(q) /\ ~Shaken(q) BY ShakingHead, ShakenHead
<1>2. ~Inside(q, who) /\ ~Leaving(q) /\ ~Telling(q) BY NotTelling DEF Inside, Leaving
<1>3. ASSUME NEW s \in Sleeps, NEW e PROVE ~WaitPhase(q, s, e)
  <2>1. s # "trylock" BY SleepIs
  <2> QED BY <2>1, WaitTable DEF Row
<1>4. "sleep" \in Sleeps BY DEF Sleeps
<1>5. who = "rwlock"
  BY <1>1, <1>3, AppTable DEF Phase, Row, SignalRow, UnlockedRow
<1>6. Tail(q) = Two("read", "unlock") \/ Tail(q) = One("trywrite")
  BY <1>1, <1>3, <1>4, <1>5, LockTable DEF Phase, Row
<1>7. LockPhase(Tail(q)) /\ LockPhase(<<>>) BY <1>6 DEF LockPhase, EndPhase
<1>8. Tail(q) # <<>> /\ Head(Tail(q)) \in {"read", "trywrite"} BY <1>6, OneIs, TwoIs
<1>9. ~Telling(Tail(q)) BY <1>8, NotTelling
<1>10. ~Telling(<<>>) BY OneIs, TwoIs DEF Telling
<1> QED BY <1>2, <1>5, <1>7, <1>8, <1>9, <1>10 DEF Phase, Inside, Leaving, Plain

LEMMA AtUnlock ==
    ASSUME NEW q, NEW who, Phase(q, who), q # <<>>, Head(q) = "unlock"
    PROVE  /\ Inside(q, who) /\ ~Leaving(q)
           /\ q # Two("lock", "drop") /\ q # One("drop")
           /\ IF q = Two("unlock", "unlock") THEN Tail(q) = One("unlock") /\ Phase(Tail(q), who)
              ELSE LET r == <<"release">> \o Tail(q)
                   IN  Phase(r, who) /\ ~Inside(r, who) /\ Leaving(r) /\ ~Telling(r)
<1>1. ~Shaking(q) /\ ~Shaken(q) BY ShakingHead, ShakenHead
<1>2. Inside(q, who) /\ ~Leaving(q) BY DEF Inside, Leaving
<1>3. q # Two("lock", "drop") /\ q # One("drop") BY TwoIs, OneIs
<1>4. ASSUME NEW s \in Sleeps, NEW e, WaitPhase(q, s, e)
      PROVE  Tail(q) = Four(s, "leave", "lock", e)
  <2>1. s # "unlock" BY SleepIs
  <2> QED BY <1>4, <2>1, WaitTable DEF Row
<1>5. "sleep" \in Sleeps BY DEF Sleeps
<1>6. ASSUME NEW s, NEW e, Tail(q) = Four(s, "leave", "lock", e)
      PROVE  /\ <<"release">> \o Tail(q) = Five("release", s, "leave", "lock", e)
             /\ q # Two("unlock", "unlock")
  <2>1. <<"release">> \o Tail(q) = Five("release", s, "leave", "lock", e)
    BY <1>6, Concat1And4 DEF Four, Five
  <2>2. Tail(q) # One("unlock")
    <3>1. Tail(Tail(q)) # <<>> BY <1>6, FourIs, ThreeIs
    <3> QED BY <3>1, OneIs
  <2> QED BY <2>1, <2>2, TwoIs
<1>7. ASSUME NEW r, r = One("release") \/ \E s, e : r = Five("release", s, "leave", "lock", e)
      PROVE  ~Inside(r, who) /\ Leaving(r) /\ ~Telling(r)
  <2>1. r # <<>> /\ Head(r) = "release" BY <1>7, OneIs, FiveIs
  <2>2. ~Telling(r) BY <2>1, NotTelling
  <2> QED BY <2>1, <2>2 DEF Inside, Leaving
<1>8. ASSUME q = One("unlock")
      PROVE  <<"release">> \o Tail(q) = One("release") /\ q # Two("unlock", "unlock")
  <2>1. Tail(q) = <<>> BY <1>8, OneIs
  <2>2. One("release") \in Seq({"release"}) BY DEF One
  <2>3. One("release") \o <<>> = One("release") BY <2>2, ConcatEmptySeq
  <2>4. One("unlock") # <<>> BY OneIs
  <2> QED BY ZenonT(60), <2>1, <2>3, <2>4, TwoIs DEF One
<1>9. Phase(One("release"), who) /\ Phase(One("unlock"), who)
  BY DEF Phase, LockPhase, AppPhase, EndPhase
<1>10. CASE who = "rwlock"
  <2>1. \/ q = One("unlock") \/ q = Two("unlock", "unlock")
        \/ WaitPhase(q, "sleep", "write")
    BY <1>1, <1>10, LockTable DEF Phase, Row
  <2>2. CASE q = One("unlock") BY <1>2, <1>3, <1>7, <1>8, <1>9, <2>2
  <2>3. CASE q = Two("unlock", "unlock")
    <3>1. Tail(q) = One("unlock") BY <2>3, TwoIs
    <3> QED BY <1>2, <1>3, <1>9, <2>3, <3>1
  <2>4. CASE WaitPhase(q, "sleep", "write")
    <3>1. Tail(q) = Four("sleep", "leave", "lock", "write") BY <1>4, <1>5, <2>4
    <3>2. /\ <<"release">> \o Tail(q) = Five("release", "sleep", "leave", "lock", "write")
          /\ q # Two("unlock", "unlock")
      BY <3>1, <1>6
    <3>3. Phase(Five("release", "sleep", "leave", "lock", "write"), who)
      BY <1>10 DEF Phase, LockPhase, WaitPhase
    <3> QED BY <1>2, <1>3, <1>7, <3>2, <3>3
  <2> QED BY <2>1, <2>2, <2>3, <2>4
<1>11. CASE who = "app"
  <2>1. q = One("unlock") \/ \E s \in Sleeps : WaitPhase(q, s, "unlock")
    BY <1>1, <1>11, AppTable DEF Phase, Row, SignalRow, UnlockedRow
  <2>2. CASE q = One("unlock") BY <1>2, <1>3, <1>7, <1>8, <1>9, <2>2
  <2>3. ASSUME NEW s \in Sleeps, WaitPhase(q, s, "unlock")
        PROVE  /\ q # Two("unlock", "unlock")
               /\ LET r == <<"release">> \o Tail(q)
                  IN  Phase(r, who) /\ ~Inside(r, who) /\ Leaving(r) /\ ~Telling(r)
    <3>1. Tail(q) = Four(s, "leave", "lock", "unlock") BY <1>4, <2>3
    <3>2. /\ <<"release">> \o Tail(q) = Five("release", s, "leave", "lock", "unlock")
          /\ q # Two("unlock", "unlock")
      BY <3>1, <1>6
    <3>3. Phase(Five("release", s, "leave", "lock", "unlock"), who)
      BY <1>11 DEF Phase, AppPhase, WaitPhase
    <3> QED BY <1>7, <3>2, <3>3
  <2> QED BY <1>2, <1>3, <2>1, <2>2, <2>3
<1> QED BY <1>10, <1>11 DEF Phase

LEMMA AtRelease ==
    ASSUME NEW q, NEW who, Phase(q, who), q # <<>>, Head(q) = "release"
    PROVE  /\ Leaving(q) /\ ~Inside(q, who) /\ ~Telling(q)
           /\ Phase(Tail(q), who) /\ ~Inside(Tail(q), who) /\ ~Leaving(Tail(q))
           /\ ~Telling(Tail(q))
<1>1. ~Shaking(q) /\ ~Shaken(q) BY ShakingHead, ShakenHead
<1>2. Leaving(q) /\ ~Inside(q, who) /\ ~Telling(q) BY NotTelling DEF Inside, Leaving
<1>3. ASSUME NEW s \in Sleeps, NEW e, WaitPhase(q, s, e)
      PROVE  Tail(q) = Four(s, "leave", "lock", e)
  <2>1. s # "release" BY SleepIs
  <2> QED BY <1>3, <2>1, WaitTable DEF Row
<1>4. "sleep" \in Sleeps BY DEF Sleeps
<1>5. ASSUME NEW r, r = <<>> \/ \E s \in Sleeps, e \in {"write", "unlock"} : r = Four(s, "leave", "lock", e)
      PROVE  ~Inside(r, who) /\ ~Leaving(r) /\ ~Telling(r)
  <2>1. r # <<>> => Head(r) \in Sleeps BY <1>5, FourIs
  <2>2. r # <<>> => Head(r) = "sleep" \/ Head(r) = "timed sleep" BY <2>1 DEF Sleeps
  <2>3. ~Telling(r)
    <3>1. CASE r = <<>> BY <3>1, OneIs, TwoIs DEF Telling
    <3>2. CASE r # <<>> BY <2>2, <3>2, NotTelling
    <3> QED BY <3>1, <3>2
  <2> QED BY <2>2, <2>3 DEF Inside, Leaving
<1>6. CASE who = "rwlock"
  <2>1. Tail(q) = <<>> \/ Tail(q) = Four("sleep", "leave", "lock", "write")
    BY <1>1, <1>3, <1>4, <1>6, LockTable DEF Phase, Row
  <2>2. LockPhase(Tail(q)) BY <2>1 DEF LockPhase, EndPhase, WaitPhase
  <2> QED BY <1>2, <1>4, <1>5, <1>6, <2>1, <2>2 DEF Phase
<1>7. CASE who = "app"
  <2>1. Tail(q) = <<>> \/ \E s \in Sleeps : Tail(q) = Four(s, "leave", "lock", "unlock")
    BY <1>1, <1>3, <1>7, AppTable DEF Phase, Row, SignalRow, UnlockedRow
  <2>2. AppPhase(Tail(q)) BY <2>1 DEF AppPhase, EndPhase, WaitPhase
  <2> QED BY <1>2, <1>5, <1>7, <2>1, <2>2 DEF Phase
<1> QED BY <1>6, <1>7 DEF Phase

LEMMA WaitRests ==
    ASSUME NEW s, NEW e, e # "drop"
    PROVE  /\ LET u == Five("unlock", s, "leave", "lock", e)
              IN  u # <<>> /\ Head(u) = "unlock" /\ ~Telling(u)
           /\ LET u == Three("leave", "lock", e)
              IN  u # <<>> /\ Head(u) = "leave" /\ ~Telling(u)
           /\ LET u == Two("lock", e)
              IN  u # <<>> /\ Head(u) = "lock" /\ ~Telling(u)
<1> DEFINE u == Five("unlock", s, "leave", "lock", e)
           v == Two("lock", e)
           w == Three("leave", "lock", e)
<1>1. u # <<>> /\ Head(u) = "unlock" /\ Tail(u) = Four(s, "leave", "lock", e) BY FiveIs
<1>2. Tail(Tail(u)) # <<>> BY <1>1, FourIs, ThreeIs
<1>3. v # <<>> /\ Head(v) = "lock" /\ Tail(v) = One(e) /\ Head(Tail(v)) = e BY OneIs, TwoIs
<1>4. w # <<>> /\ Head(w) = "leave" BY ThreeIs
<1> HIDE DEF u, v, w
<1>5. u # Two("unlock", "unlock") BY <1>2, TwoIs, OneIs
<1>6. u # Two("lock", "drop") /\ u # One("drop") BY <1>1, TwoIs, OneIs
<1>7. v # Two("lock", "drop") BY <1>3, TwoIs, OneIs
<1>8. v # Two("unlock", "unlock") /\ v # One("drop") BY <1>3, TwoIs, OneIs
<1>9. ~Telling(w) BY <1>4, NotTelling
<1> QED BY <1>1, <1>3, <1>4, <1>5, <1>6, <1>7, <1>8, <1>9 DEF Telling, u, v, w

\* The steps of a wait that leave the mutex alone.
LEMMA WaitStep ==
    ASSUME NEW q, NEW who, NEW s \in Sleeps, NEW e, e # "drop", WaitPhase(q, s, e),
           Head(q) = "enter" \/ Head(q) = "leave" \/ Head(q) = "sleep" \/ Head(q) = "timed sleep"
    PROVE  /\ WaitPhase(Tail(q), s, e) /\ ~Leaving(Tail(q)) /\ ~Telling(Tail(q))
           /\ Inside(Tail(q), who) <=> Head(q) = "enter"
<1>1. s = "sleep" \/ s = "timed sleep" BY SleepIs
<1>3. \/ Head(q) = "enter" /\ Tail(q) = Five("unlock", s, "leave", "lock", e)
      \/ Head(q) = s /\ Tail(q) = Three("leave", "lock", e)
      \/ Head(q) = "leave" /\ Tail(q) = Two("lock", e)
  BY <1>1, WaitTable DEF Row
<1>4. WaitPhase(Tail(q), s, e) BY <1>3 DEF WaitPhase
<1>5. CASE Head(q) = "enter" /\ Tail(q) = Five("unlock", s, "leave", "lock", e)
  <2> DEFINE u == Five("unlock", s, "leave", "lock", e)
  <2>2. u # <<>> /\ Head(u) = "unlock" /\ ~Telling(u) BY WaitRests
  <2> HIDE DEF u
  <2>3. Tail(q) = u BY <1>5 DEF u
  <2>1. Tail(q) # <<>> /\ Head(Tail(q)) = "unlock" /\ ~Telling(Tail(q)) BY <2>2, <2>3
  <2> QED BY <1>4, <1>5, <2>1 DEF Inside, Leaving
<1>6. CASE Head(q) = s /\ Tail(q) = Three("leave", "lock", e)
  <2>1. Tail(q) # <<>> /\ Head(Tail(q)) = "leave" /\ ~Telling(Tail(q)) BY <1>6, WaitRests
  <2> QED BY <1>1, <1>4, <1>6, <2>1 DEF Inside, Leaving
<1>7. CASE Head(q) = "leave" /\ Tail(q) = Two("lock", e)
  BY <1>4, <1>7, WaitRests DEF Inside, Leaving
<1> QED BY <1>3, <1>5, <1>6, <1>7

LEMMA AtWaiting ==
    ASSUME NEW q, NEW who, Phase(q, who), q # <<>>,
           Head(q) = "enter" \/ Head(q) = "leave" \/ Head(q) = "sleep" \/ Head(q) = "timed sleep"
    PROVE  Plain(q, Tail(q), who)
<1>2. ~Shaking(q) /\ ~Shaken(q) BY ShakingHead, ShakenHead
<1>3. ~Leaving(q) /\ ~Telling(q) /\ (Inside(q, who) <=> Head(q) = "enter")
  BY NotTelling DEF Inside, Leaving
<1>4. "sleep" \in Sleeps BY DEF Sleeps
<1>5. CASE who = "rwlock"
  <2>1. WaitPhase(q, "sleep", "write") BY <1>2, <1>5, LockTable DEF Phase, Row
  <2>2. /\ WaitPhase(Tail(q), "sleep", "write") /\ ~Leaving(Tail(q)) /\ ~Telling(Tail(q))
        /\ Inside(Tail(q), who) <=> Head(q) = "enter"
    BY <2>1, <1>4, WaitStep
  <2> QED BY <1>3, <1>5, <2>2 DEF Plain, Phase, LockPhase
<1>6. CASE who = "app"
  <2>1. PICK s \in Sleeps : WaitPhase(q, s, "unlock")
    BY <1>2, <1>6, AppTable DEF Phase, Row, SignalRow, UnlockedRow
  <2>2. /\ WaitPhase(Tail(q), s, "unlock") /\ ~Leaving(Tail(q)) /\ ~Telling(Tail(q))
        /\ Inside(Tail(q), who) <=> Head(q) = "enter"
    BY <2>1, WaitStep
  <2>3. AppPhase(Tail(q)) BY <2>2 DEF AppPhase
  <2> QED BY <1>3, <1>6, <2>2, <2>3 DEF Plain, Phase
<1> QED BY <1>5, <1>6 DEF Phase

\* What follows the last step is never a telling one.
LEMMA Ends ==
    ASSUME NEW who, who = "rwlock" \/ who = "app"
    PROVE  /\ Phase(<<>>, who) /\ ~Inside(<<>>, who) /\ ~Leaving(<<>>) /\ ~Telling(<<>>)
           /\ LET u == One("unlock")
              IN  Phase(u, who) /\ Inside(u, who) /\ ~Leaving(u) /\ ~Telling(u)
<1>1. Phase(<<>>, who) /\ ~Inside(<<>>, who) /\ ~Leaving(<<>>)
  BY DEF Phase, LockPhase, AppPhase, EndPhase, Inside, Leaving
<1>2. ~Telling(<<>>) BY OneIs, TwoIs DEF Telling
<1>3. One("unlock") # <<>> /\ Head(One("unlock")) = "unlock" /\ Tail(One("unlock")) = <<>>
  BY OneIs
<1>4. Phase(One("unlock"), who) BY DEF Phase, LockPhase, AppPhase, EndPhase
<1>5. ~Telling(One("unlock")) BY <1>3, OneIs, TwoIs DEF Telling
<1> QED BY <1>1, <1>2, <1>3, <1>4, <1>5 DEF Inside, Leaving

LEMMA AtSignal ==
    ASSUME NEW q, NEW who, Phase(q, who), q # <<>>, Head(q) = "signal"
    PROVE  /\ who = "app" /\ (~SignalUnlocked => Tail(q) = One("unlock"))
           /\ Plain(q, Tail(q), who) /\ Plain(q, <<"handshake", "one">> \o Tail(q), who)
<1>1. ~Shaking(q) /\ ~Shaken(q) BY ShakingHead, ShakenHead
<1>2. ASSUME NEW s \in Sleeps, NEW e PROVE ~WaitPhase(q, s, e)
  <2>1. s # "signal" BY SleepIs
  <2> QED BY <2>1, WaitTable DEF Row
<1>3. "sleep" \in Sleeps BY DEF Sleeps
<1>4. who = "app" BY <1>1, <1>2, <1>3, LockTable DEF Phase, Row
<1>5. ~Leaving(q) /\ ~Telling(q) /\ (Inside(q, who) <=> ~SignalUnlocked)
  BY <1>4, NotTelling DEF Inside, Leaving
<1>6. \/ ~SignalUnlocked /\ Tail(q) = One("unlock")
      \/ SignalUnlocked /\ Tail(q) = <<>>
  BY <1>1, <1>2, <1>4, AppTable DEF Phase, Row, SignalRow, UnlockedRow
<1> DEFINE r == <<"handshake", "one">> \o Tail(q)
<1>7. r = IF SignalUnlocked THEN Two("handshake", "one") ELSE Three("handshake", "one", "unlock")
  <2>1. <<"handshake", "one">> \in Seq({"handshake", "one"}) OBVIOUS
  <2>2. <<"handshake", "one">> \o <<>> = <<"handshake", "one">> BY <2>1, ConcatEmptySeq
  <2> QED BY <1>6, <2>2, Concat2And1 DEF One, Two, Three
<1> HIDE DEF r
<1>8. r # <<>> /\ Head(r) = "handshake" BY <1>7, TwoIs, ThreeIs
<1>9. AppPhase(r) BY <1>7 DEF AppPhase
<1>10. Plain(q, r, who) BY <1>4, <1>5, <1>8, <1>9, NotTelling DEF Plain, Phase, Inside, Leaving
<1>11. Plain(q, Tail(q), who) BY <1>4, <1>5, <1>6, Ends DEF Plain
<1> QED BY <1>4, <1>6, <1>10, <1>11 DEF r

LEMMA Handshakes ==
    ASSUME NEW n \in Int
    PROVE  LET h == [i \in 1..n |-> "handshake"]
               r == h \o One("unlock")
           IN  /\ IF n > 0 THEN Shaking(r) /\ Len(r) = n + 1 ELSE r = One("unlock")
               /\ h \o <<>> = h /\ (h = <<>> \/ Shaken(h))
<1> DEFINE S == {"handshake", "unlock"}
           h == [i \in 1..n |-> "handshake"]
           u == One("unlock")
           r == h \o u
           m == IF n > 0 THEN n ELSE 0
<1>1. m \in Nat /\ 1..n = 1..m /\ (IF n > 0 THEN m = n ELSE m = 0) OBVIOUS
<1>2. h \in Seq({"handshake"}) /\ h \in Seq(S) /\ Len(h) = m /\ \A i \in 1..m : h[i] = "handshake"
  <2>1. h = [i \in 1..m |-> "handshake"] BY <1>1
  <2> HIDE DEF m
  <2> DEFINE g == [i \in 1..m |-> "handshake"]
  <2>2. g \in Seq({"handshake"}) /\ g \in Seq(S) /\ Len(g) = m BY <1>1
  <2>3. \A i \in 1..m : g[i] = "handshake" OBVIOUS
  <2> QED BY <2>1, <2>2, <2>3
<1>3. u \in Seq(S) /\ Len(u) = 1 /\ u[1] = "unlock" BY DEF One
<1> HIDE DEF h, u, m
<1>4. /\ r \in Seq(S) /\ Len(r) = m + 1
      /\ \A i \in 1..m + 1 : r[i] = IF i <= m THEN h[i] ELSE u[i - m]
  <2>1. /\ r \in Seq(S) /\ Len(r) = Len(h) + Len(u)
        /\ \A i \in 1..Len(h) + Len(u) : r[i] = IF i <= Len(h) THEN h[i] ELSE u[i - Len(h)]
    BY <1>2, <1>3, ConcatProperties
  <2>2. Len(h) = m /\ Len(u) = 1 BY <1>2, <1>3
  <2> QED BY <2>1, <2>2
<1> HIDE DEF r
<1>5. h \o <<>> = h /\ (h = <<>> \/ Shaken(h)) BY <1>2, ConcatEmptySeq DEF Shaken
<1>6. CASE m = 0
  <2>1. h = <<>> BY <1>2, <1>6, EmptySeq
  <2>2. <<>> \o u = u BY <1>3, ConcatEmptySeq
  <2>3. ~(n > 0) BY <1>1, <1>6
  <2>4. r = u BY <2>1, <2>2 DEF r
  <2> QED BY <1>5, <2>3, <2>4 DEF h, u, r
<1>7. CASE m # 0
  <2>1. \A i \in 1..m : r[i] = "handshake" BY <1>1, <1>2, <1>4
  <2>2. r[m + 1] = "unlock"
    <3>1. m + 1 \in 1..m + 1 /\ ~(m + 1 <= m) /\ m + 1 - m = 1 BY <1>1
    <3>2. \A i \in 1..m + 1 : ~(i <= m) => r[i] = u[i - m] BY <1>4
    <3>3. r[m + 1] = u[1] BY <1>1, <3>1, <3>2
    <3> QED BY <3>3, <1>3
  <2>3. Len(r) > 1 /\ Len(r) - 1 = m BY <1>1, <1>4, <1>7
  <2>4. Shaking(r) BY <1>4, <2>1, <2>2, <2>3 DEF Shaking
  <2> QED BY <1>1, <1>4, <1>5, <1>7, <2>4 DEF h, u, r
<1> QED BY <1>6, <1>7

LEMMA AtBroadcast ==
    ASSUME NEW q, NEW who, Phase(q, who), q # <<>>, Head(q) = "broadcast", NEW n \in Int
    PROVE  /\ Plain(q, [i \in 1..n |-> "handshake"] \o Tail(q), who)
           /\ ~SignalUnlocked => Tail(q) = One("unlock")
<1>1. ~Shaking(q) /\ ~Shaken(q) BY ShakingHead, ShakenHead
<1>2. ASSUME NEW s \in Sleeps, NEW e PROVE ~WaitPhase(q, s, e)
  <2>1. s # "broadcast" BY SleepIs
  <2> QED BY <2>1, WaitTable DEF Row
<1>3. "sleep" \in Sleeps BY DEF Sleeps
<1>4. ~Leaving(q) /\ ~Telling(q) /\ (Inside(q, who) <=> who = "rwlock" \/ ~SignalUnlocked)
  BY NotTelling DEF Inside, Leaving
<1>5. \/ who = "rwlock" /\ Tail(q) = One("unlock")
      \/ who = "app" /\ ~SignalUnlocked /\ Tail(q) = One("unlock")
      \/ who = "app" /\ SignalUnlocked /\ Tail(q) = <<>>
  <2>1. CASE who = "rwlock" BY <2>1, <1>1, <1>2, <1>3, LockTable DEF Phase, Row
  <2>2. CASE who = "app"
    BY <2>2, <1>1, <1>2, AppTable DEF Phase, Row, SignalRow, UnlockedRow
  <2> QED BY <2>1, <2>2 DEF Phase
<1> DEFINE h == [i \in 1..n |-> "handshake"]
           r == h \o Tail(q)
<1>6. /\ h \o One("unlock") = One("unlock") \/ Shaking(h \o One("unlock"))
      /\ h \o <<>> = h /\ (h = <<>> \/ Shaken(h))
  BY Handshakes
<1> HIDE DEF h
<1>7. CASE Tail(q) = One("unlock")
  <2>1. r = One("unlock") \/ Shaking(r) BY <1>6, <1>7
  <2>2. CASE r = One("unlock") BY <1>4, <1>5, <1>7, <2>2, Ends, OneIs DEF Plain, h
  <2>3. CASE Shaking(r)
    <3>1. r # <<>> /\ Head(r) = "handshake" BY <2>3, ShakingHead
    <3>2. Phase(r, who) BY <1>5, <1>7, <2>3, OneIs DEF Phase, LockPhase, AppPhase
    <3> QED BY <1>4, <1>7, <3>1, <3>2, NotTelling DEF Plain, Inside, Leaving, h
  <2> QED BY <2>1, <2>2, <2>3
<1>8. CASE who = "app" /\ SignalUnlocked /\ Tail(q) = <<>>
  <2>1. r = <<>> \/ Shaken(r) BY <1>6, <1>8
  <2>2. CASE r = <<>> BY <1>4, <1>8, <2>2, Ends DEF Plain, h
  <2>3. CASE Shaken(r)
    <3>1. r # <<>> /\ Head(r) = "handshake" BY <2>3, ShakenHead
    <3>2. Phase(r, who) BY <1>8, <2>3 DEF Phase, AppPhase
    <3> QED BY <1>4, <1>8, <3>1, <3>2, NotTelling DEF Plain, Inside, Leaving, h
  <2> QED BY <2>1, <2>2, <2>3
<1> QED BY <1>5, <1>7, <1>8

\* What is left after a handshake, with the mark of a signal.
AfterHandshake(q) ==
    LET rest == Tail(q)
    IN  IF rest # <<>> /\ Head(rest) = "one" THEN Tail(rest) ELSE rest

LEMMA AtHandshake ==
    ASSUME NEW q, NEW who, Phase(q, who), q # <<>>, Head(q) = "handshake"
    PROVE  Plain(q, AfterHandshake(q), who)
<1>1. ASSUME NEW s \in Sleeps, NEW e PROVE ~WaitPhase(q, s, e)
  <2>1. s # "handshake" BY SleepIs
  <2> QED BY <2>1, WaitTable DEF Row
<1>2. "sleep" \in Sleeps BY DEF Sleeps
<1>3. ~Leaving(q) /\ ~Telling(q) /\ (Inside(q, who) <=> who = "rwlock" \/ ~SignalUnlocked)
  BY NotTelling DEF Inside, Leaving
<1>4. \/ (who = "rwlock" \/ ~SignalUnlocked) /\ Shaking(q)
      \/ who = "app" /\ ~SignalUnlocked /\ Tail(q) = Two("one", "unlock")
      \/ who = "app" /\ SignalUnlocked /\ (Shaken(q) \/ Tail(q) = One("one"))
  <2>1. CASE who = "rwlock" BY <2>1, <1>1, <1>2, LockTable DEF Phase, Row
  <2>2. CASE who = "app"
    BY <2>2, <1>1, AppTable DEF Phase, Row, SignalRow, UnlockedRow
  <2> QED BY <2>1, <2>2 DEF Phase
<1>5. CASE (who = "rwlock" \/ ~SignalUnlocked) /\ Shaking(q)
  <2>1. Tail(q) = One("unlock") \/ Shaking(Tail(q)) BY <1>5, ShakingHead
  <2>2. CASE Tail(q) = One("unlock")
    <3>1. Tail(q) # <<>> /\ Head(Tail(q)) = "unlock" BY <2>2, OneIs
    <3>2. AfterHandshake(q) = One("unlock") BY <2>2, <3>1 DEF AfterHandshake
    <3> QED BY <1>3, <1>5, <3>2, Ends DEF Plain, Phase
  <2>3. CASE Shaking(Tail(q))
    <3>1. Tail(q) # <<>> /\ Head(Tail(q)) = "handshake" BY <2>3, ShakingHead
    <3>2. AfterHandshake(q) = Tail(q) BY <3>1 DEF AfterHandshake
    <3>3. Phase(Tail(q), who) BY <1>5, <2>3 DEF Phase, LockPhase, AppPhase
    <3>4. ~Telling(Tail(q)) BY <3>1, NotTelling
    <3> QED BY <1>3, <1>5, <3>1, <3>2, <3>3, <3>4 DEF Plain, Inside, Leaving
  <2> QED BY <2>1, <2>2, <2>3
<1>6. CASE who = "app" /\ ~SignalUnlocked /\ Tail(q) = Two("one", "unlock")
  <2>1. Tail(q) # <<>> /\ Head(Tail(q)) = "one" /\ Tail(Tail(q)) = One("unlock") BY <1>6, TwoIs
  <2>2. AfterHandshake(q) = One("unlock") BY <2>1 DEF AfterHandshake
  <2> QED BY <1>3, <1>6, <2>2, Ends DEF Plain
<1>7. CASE who = "app" /\ SignalUnlocked /\ Shaken(q)
  <2>1. Tail(q) = <<>> \/ Shaken(Tail(q)) BY <1>7, ShakenHead
  <2>2. CASE Tail(q) = <<>>
    <3>1. AfterHandshake(q) = <<>> BY <2>2 DEF AfterHandshake
    <3> QED BY <1>3, <1>7, <3>1, Ends DEF Plain
  <2>3. CASE Shaken(Tail(q))
    <3>1. Tail(q) # <<>> /\ Head(Tail(q)) = "handshake" BY <2>3, ShakenHead
    <3>2. AfterHandshake(q) = Tail(q) BY <3>1 DEF AfterHandshake
    <3>3. Phase(Tail(q), who) BY <1>7, <2>3 DEF Phase, AppPhase
    <3>4. ~Telling(Tail(q)) BY <3>1, NotTelling
    <3> QED BY <1>3, <1>7, <3>1, <3>2, <3>3, <3>4 DEF Plain, Inside, Leaving
  <2> QED BY <2>1, <2>2, <2>3
<1>8. CASE who = "app" /\ SignalUnlocked /\ Tail(q) = One("one")
  <2>1. Tail(q) # <<>> /\ Head(Tail(q)) = "one" /\ Tail(Tail(q)) = <<>> BY <1>8, OneIs
  <2>2. AfterHandshake(q) = <<>> BY <2>1 DEF AfterHandshake
  <2> QED BY <1>3, <1>8, <2>2, Ends DEF Plain
<1> QED BY <1>4, <1>5, <1>6, <1>7, <1>8

LEMMA AtRead ==
    ASSUME NEW q, NEW who, Phase(q, who), q # <<>>, Head(q) = "read"
    PROVE  who = "rwlock" /\ Inside(q, who) /\ Plain(q, Tail(q), who)
<1>1. ~Shaking(q) /\ ~Shaken(q) BY ShakingHead, ShakenHead
<1>2. ASSUME NEW s \in Sleeps, NEW e PROVE ~WaitPhase(q, s, e)
  <2>1. s # "read" BY SleepIs
  <2> QED BY <2>1, WaitTable DEF Row
<1>3. "sleep" \in Sleeps BY DEF Sleeps
<1>4. who = "rwlock" BY <1>1, <1>2, AppTable DEF Phase, Row, SignalRow, UnlockedRow
<1>5. ~Leaving(q) /\ ~Telling(q) /\ Inside(q, who) BY NotTelling DEF Inside, Leaving
<1>6. Tail(q) = One("unlock") BY <1>1, <1>2, <1>3, <1>4, LockTable DEF Phase, Row
<1> QED BY <1>4, <1>5, <1>6, Ends DEF Plain

\* The two ways on from a lock for writing that found readers.
LEMMA AtWrite ==
    ASSUME NEW q, NEW who, Phase(q, who), q # <<>>, Head(q) = "write" \/ Head(q) = "trywrite"
    PROVE  /\ who = "rwlock" /\ Inside(q, who) /\ ~Leaving(q) /\ ~Telling(q)
           /\ Plain(q, WaitCall("sleep") \o <<"write">>, who) /\ Plain(q, <<"unlock">>, who)
<1>1. ~Shaking(q) /\ ~Shaken(q) BY ShakingHead, ShakenHead
<1>2. ASSUME NEW s \in Sleeps, NEW e PROVE ~WaitPhase(q, s, e)
  <2>1. s # "write" /\ s # "trywrite" BY SleepIs
  <2> QED BY <2>1, WaitTable DEF Row
<1>3. who = "rwlock" BY <1>1, <1>2, AppTable DEF Phase, Row, SignalRow, UnlockedRow
<1>4. ~Leaving(q) /\ ~Telling(q) /\ Inside(q, who) BY NotTelling DEF Inside, Leaving
<1>5. Plain(q, <<"unlock">>, who) BY <1>3, <1>4, Ends DEF Plain, One
<1> DEFINE r == WaitCall("sleep") \o <<"write">>
<1>6. r = Six("enter", "unlock", "sleep", "leave", "lock", "write")
  BY Concat5And1 DEF WaitCall, Six
<1> HIDE DEF r
<1>7. r # <<>> /\ Head(r) = "enter" BY <1>6, SixIs
<1>8. LockPhase(r) BY <1>6 DEF LockPhase, WaitPhase
<1>9. ~Telling(r) BY <1>7, NotTelling
<1>10. Plain(q, r, who) BY <1>3, <1>4, <1>7, <1>8, <1>9 DEF Plain, Phase, Inside, Leaving
<1> QED BY <1>3, <1>4, <1>5, <1>10 DEF r

LEMMA AtDrop ==
    ASSUME NEW q, NEW who, Phase(q, who), q # <<>>, Head(q) = "drop"
    PROVE  /\ who = "rwlock" /\ q = One("drop") /\ Inside(q, who) /\ ~Leaving(q)
           /\ LET r == Two("broadcast", "unlock")
              IN  Phase(r, who) /\ Inside(r, who) /\ ~Leaving(r) /\ ~Telling(r)
           /\ LET r == Two("unlock", "unlock")
              IN  /\ Phase(r, who) /\ Inside(r, who) /\ ~Leaving(r)
                  /\ r # One("drop") /\ r # Two("lock", "drop") /\ r # <<>>
<1>1. ~Shaking(q) /\ ~Shaken(q) BY ShakingHead, ShakenHead
<1>2. ASSUME NEW s \in Sleeps, NEW e PROVE ~WaitPhase(q, s, e)
  <2>1. s # "drop" BY SleepIs
  <2> QED BY <2>1, WaitTable DEF Row
<1>3. "sleep" \in Sleeps BY DEF Sleeps
<1>4. who = "rwlock" BY <1>1, <1>2, AppTable DEF Phase, Row, SignalRow, UnlockedRow
<1>5. ~Leaving(q) /\ Inside(q, who) BY DEF Inside, Leaving
<1>6. q = One("drop") BY <1>1, <1>2, <1>3, <1>4, LockTable DEF Phase, Row
<1> DEFINE b == Two("broadcast", "unlock")
           u == Two("unlock", "unlock")
<1>7. b # <<>> /\ Head(b) = "broadcast" /\ u # <<>> /\ Head(u) = "unlock" BY TwoIs
<1>8. LockPhase(b) /\ LockPhase(u) BY DEF LockPhase
<1> HIDE DEF b, u
<1>9. ~Telling(b) BY <1>7, NotTelling
<1>10. u # One("drop") /\ u # Two("lock", "drop") BY <1>7, OneIs, TwoIs
<1> QED BY <1>4, <1>5, <1>6, <1>7, <1>8, <1>9, <1>10 DEF Phase, Inside, Leaving, b, u

\* A call that begins.
LEMMA AtCall ==
    /\ \A first \in {"lock", "trylock"} :
          Plain(<<>>, <<first, "read", "unlock">>, "rwlock")
    /\ Plain(<<>>, <<"lock", "write">>, "rwlock")
    /\ Plain(<<>>, <<"trylock", "trywrite">>, "rwlock")
    /\ \A s \in {"sleep", "timed sleep"} :
          Plain(<<>>, <<"lock">> \o WaitCall(s) \o <<"unlock">>, "app")
    /\ \A how \in {"signal", "broadcast"} :
          Plain(<<>>, IF SignalUnlocked THEN <<how>> ELSE <<"lock", how, "unlock">>, "app")
<1>1. ASSUME NEW r, NEW who, who = "rwlock" \/ who = "app", Phase(r, who), r # <<>>,
             \/ Head(r) = "trylock"
             \/ Head(r) = "lock" /\ Head(Tail(r)) # "drop"
             \/ who = "app" /\ SignalUnlocked /\ (Head(r) = "signal" \/ Head(r) = "broadcast")
      PROVE  Plain(<<>>, r, who)
  <2>1. ~Telling(r)
    <3>1. CASE Head(r) = "lock" /\ Head(Tail(r)) # "drop" BY <3>1, OneIs, TwoIs DEF Telling
    <3>2. CASE Head(r) # "lock" BY <1>1, <3>2, NotTelling
    <3> QED BY <3>1, <3>2, <1>1
  <2>2. ~Inside(r, who) /\ ~Leaving(r) BY <1>1 DEF Inside, Leaving
  <2>3. ~Inside(<<>>, who) /\ ~Leaving(<<>>) /\ ~Telling(<<>>) BY <1>1, Ends
  <2> QED BY <1>1, <2>1, <2>2, <2>3 DEF Plain
<1>2. ASSUME NEW first \in {"lock", "trylock"} PROVE Plain(<<>>, <<first, "read", "unlock">>, "rwlock")
  <2> DEFINE r == Three(first, "read", "unlock")
  <2>1. first = "lock" \/ first = "trylock" OBVIOUS
  <2>2. r # <<>> /\ Head(r) = first /\ Tail(r) = Two("read", "unlock") BY ThreeIs
  <2>3. Head(Tail(r)) = "read" BY <2>2, TwoIs
  <2>4. Phase(r, "rwlock") BY <2>1 DEF Phase, LockPhase
  <2> HIDE DEF r
  <2>5. Plain(<<>>, r, "rwlock") BY <1>1, <2>1, <2>2, <2>3, <2>4
  <2> QED BY <2>5 DEF r, Three
<1>3. Plain(<<>>, <<"lock", "write">>, "rwlock")
  <2> DEFINE r == Two("lock", "write")
  <2>1. r # <<>> /\ Head(r) = "lock" /\ Head(Tail(r)) = "write" BY OneIs, TwoIs
  <2>2. Phase(r, "rwlock") BY DEF Phase, LockPhase, WaitPhase
  <2> HIDE DEF r
  <2>3. Plain(<<>>, r, "rwlock") BY <1>1, <2>1, <2>2
  <2> QED BY <2>3 DEF r, Two
<1>4. Plain(<<>>, <<"trylock", "trywrite">>, "rwlock")
  <2> DEFINE r == Two("trylock", "trywrite")
  <2>1. r # <<>> /\ Head(r) = "trylock" BY TwoIs
  <2>2. Phase(r, "rwlock") BY DEF Phase, LockPhase
  <2> HIDE DEF r
  <2>3. Plain(<<>>, r, "rwlock") BY <1>1, <2>1, <2>2
  <2> QED BY <2>3 DEF r, Two
<1>5. ASSUME NEW s
      PROVE  LET r == Seven("lock", "enter", "unlock", s, "leave", "lock", "unlock")
             IN  /\ <<"lock">> \o WaitCall(s) \o <<"unlock">> = r
                 /\ r # <<>> /\ Head(r) = "lock" /\ Head(Tail(r)) = "enter"
  <2> DEFINE r == Seven("lock", "enter", "unlock", s, "leave", "lock", "unlock")
  <2>1. <<"lock">> \o WaitCall(s) = <<"lock", "enter", "unlock", s, "leave", "lock">>
    BY Concat1And5 DEF WaitCall
  <2>2. <<"lock">> \o WaitCall(s) \o <<"unlock">> = r BY ZenonT(60), <2>1, Concat6And1 DEF Seven
  <2>3. /\ r # <<>> /\ Head(r) = "lock"
        /\ Tail(r) = Six("enter", "unlock", s, "leave", "lock", "unlock")
    BY SevenIs
  <2>4. Head(Tail(r)) = "enter" BY <2>3, SixIs
  <2> QED BY <2>2, <2>3, <2>4
<1>6. ASSUME NEW s \in {"sleep", "timed sleep"}
      PROVE  Plain(<<>>, <<"lock">> \o WaitCall(s) \o <<"unlock">>, "app")
  <2> DEFINE r == Seven("lock", "enter", "unlock", s, "leave", "lock", "unlock")
  <2>1. s \in Sleeps BY DEF Sleeps
  <2>2. Phase(r, "app") BY <2>1 DEF Phase, AppPhase
  <2> DEFINE p == <<"lock">> \o WaitCall(s) \o <<"unlock">>
  <2>3. p = r /\ r # <<>> /\ Head(r) = "lock" /\ Head(Tail(r)) = "enter" BY <1>5
  <2> HIDE DEF r, p
  <2>4. Plain(<<>>, r, "app") BY <1>1, <2>2, <2>3
  <2>5. Plain(<<>>, p, "app") BY <2>3, <2>4
  <2> QED BY <2>5 DEF p
<1>7. ASSUME NEW how \in {"signal", "broadcast"}
      PROVE  Plain(<<>>, IF SignalUnlocked THEN <<how>> ELSE <<"lock", how, "unlock">>, "app")
  <2>1. how = "signal" \/ how = "broadcast" OBVIOUS
  <2>2. CASE SignalUnlocked
    <3> DEFINE r == One(how)
    <3>1. r # <<>> /\ Head(r) = how BY OneIs
    <3>2. Phase(r, "app") BY <2>1, <2>2 DEF Phase, AppPhase
    <3> HIDE DEF r
    <3>3. Plain(<<>>, r, "app") BY <1>1, <2>1, <2>2, <3>1, <3>2
    <3> QED BY <2>2, <3>3 DEF r, One
  <2>3. CASE ~SignalUnlocked
    <3> DEFINE r == Three("lock", how, "unlock")
    <3>1. r # <<>> /\ Head(r) = "lock" /\ Tail(r) = Two(how, "unlock") BY ThreeIs
    <3>2. Head(Tail(r)) = how BY <3>1, TwoIs
    <3>3. Phase(r, "app") BY <2>1, <2>3 DEF Phase, AppPhase
    <3> HIDE DEF r
    <3>4. Plain(<<>>, r, "app") BY <1>1, <2>1, <3>1, <3>2, <3>3
    <3> QED BY <2>3, <3>4 DEF r, Three
  <2> QED BY <2>2, <2>3
<1> QED BY <1>2, <1>3, <1>4, <1>6, <1>7

-----------------------------------------------------------------------------
(* Who has the mutex, and who the read/write lock.                         *)

\* The mutex has an owner exactly where a call says so or a writer keeps it, it is locked as
\* long as it has one or somebody has still to release it, and it is locked twice only by a
\* writer that unlocks the read/write lock.
MutexOK ==
    /\ mutex \in [owner : Threads \cup {NoThread}, recursive : 0..1, sem : 0..1]
    /\ client \in {"rwlock", "app"}
    /\ todo = [t \in Threads |-> todo[t]]
    /\ \A t \in Threads : Phase(todo[t], client)
    /\ \A t \in Threads : Inside(todo[t], client) => mutex.owner = t
    /\ \A t \in Threads : mutex.owner = t =>
          Inside(todo[t], client) \/ holds[t].write = 1 \/ todo[t] = Two("lock", "drop")
    /\ mutex.owner # NoThread => mutex.sem = 0
    /\ \A t \in Threads : Leaving(todo[t]) =>
          /\ mutex.owner = NoThread /\ mutex.sem = 0
          /\ \A u \in Threads : Leaving(todo[u]) => u = t
    /\ mutex.recursive = 1 => mutex.owner # NoThread
    /\ \A t \in Threads : mutex.recursive = 1 /\ mutex.owner = t =>
          todo[t] = One("drop") \/ todo[t] = Two("unlock", "unlock")
    /\ \A t \in Threads : todo[t] = Two("unlock", "unlock") => mutex.recursive = 1

\* A thread that writer_count counts, and one that unlocks what it held for reading: holds
\* no longer tells, since a thread gives the lock back with the call and not with the step.
Writer(t) ==
    \/ holds[t].write = 1
    \/ todo[t] = Two("lock", "drop") /\ mutex.owner = t
    \/ todo[t] = One("drop") /\ mutex.recursive = 1

GivesBack(t) ==
    \/ todo[t] = Two("lock", "drop") /\ mutex.owner # t
    \/ todo[t] = One("drop") /\ mutex.recursive = 0

\* One for each time the lock is held for reading, as reader_count counts.
Part(t) == 1..holds[t].read \cup {i \in {0} : GivesBack(t)}

AllOf(parts) == {p \in Threads \X Nat : p[2] \in parts[p[1]]}
Tokens == AllOf([t \in Threads |-> Part(t)])

HoldsOK ==
    /\ holds \in [Threads -> [read : Nat, write : 0..1]]
    /\ rwlock \in [reader_count : Nat, writer_count : 0..1]
    /\ client = "app" => \A t \in Threads : Unheld(t)
    /\ \A t \in Threads : holds[t].write = 1 => todo[t] = <<>>
    /\ \A t \in Threads : Writer(t) => mutex.owner = t
    /\ rwlock.writer_count = 1 <=> \E t \in Threads : Writer(t)
    /\ rwlock.writer_count = 1 => rwlock.reader_count = 0
    /\ IsFiniteSet(Tokens) /\ rwlock.reader_count = Cardinality(Tokens)

LockInv == MutexOK /\ HoldsOK

\* Steps that change neither the counts nor who is counted.
LEMMA HoldsKept ==
    ASSUME HoldsOK, UNCHANGED <<rwlock, holds, client>>,
           \A u \in Threads : (Writer(u)' <=> Writer(u)) /\ (GivesBack(u)' <=> GivesBack(u)),
           \A u \in Threads : holds[u].write = 1 => todo'[u] = <<>>,
           \A u \in Threads : Writer(u) => mutex'.owner = u
    PROVE  HoldsOK'
<1>1. Tokens' = Tokens
  <2>1. \A u \in Threads : Part(u)' = Part(u) BY DEF Part
  <2> QED BY <2>1 DEF Tokens
<1> QED BY <1>1 DEF HoldsOK, Unheld

\* A plain step of one thread.
LEMMA PlainStep ==
    ASSUME LockInv, NEW t \in Threads, NEW r, Plain(todo[t], r, client), holds[t].write = 0,
           Do(t, r), UNCHANGED <<mutex, rwlock, holds, client>>
    PROVE  LockInv'
<1> USE DEF LockInv
<1>1. /\ todo' = [todo EXCEPT ![t] = r] /\ mutex' = mutex /\ rwlock' = rwlock
      /\ holds' = holds /\ client' = client
  BY DEF Do
<1>2. /\ todo' = [u \in Threads |-> todo'[u]] /\ todo'[t] = r
      /\ \A u \in Threads : u # t => todo'[u] = todo[u]
  BY <1>1 DEF MutexOK
<1>3. /\ Phase(r, client) /\ (Inside(r, client) <=> Inside(todo[t], client))
      /\ ~Leaving(todo[t]) /\ ~Leaving(r)
      /\ todo[t] # Two("lock", "drop") /\ todo[t] # One("drop") /\ todo[t] # Two("unlock", "unlock")
      /\ r # Two("lock", "drop") /\ r # One("drop") /\ r # Two("unlock", "unlock")
  BY DEF Plain, Telling
<1>4. \A u \in Threads : /\ Phase(todo'[u], client)
                         /\ Inside(todo'[u], client) <=> Inside(todo[u], client)
                         /\ Leaving(todo'[u]) <=> Leaving(todo[u])
                         /\ todo'[u] = Two("lock", "drop") <=> todo[u] = Two("lock", "drop")
                         /\ todo'[u] = One("drop") <=> todo[u] = One("drop")
                         /\ todo'[u] = Two("unlock", "unlock") <=> todo[u] = Two("unlock", "unlock")
  BY <1>2, <1>3 DEF MutexOK
<1>5. MutexOK'
  BY <1>1, <1>2, <1>4 DEF MutexOK
<1>6. HoldsOK'
  <2>1. \A u \in Threads : (Writer(u)' <=> Writer(u)) /\ (GivesBack(u)' <=> GivesBack(u))
    BY <1>1, <1>4 DEF Writer, GivesBack
  <2>2. \A u \in Threads : holds[u].write = 1 => todo'[u] = <<>> BY <1>2 DEF HoldsOK
  <2>3. \A u \in Threads : Writer(u) => mutex'.owner = u BY <1>1 DEF HoldsOK
  <2> QED BY <1>1, <2>1, <2>2, <2>3, HoldsKept
<1> QED BY <1>5, <1>6

LEMMA OneTokenMore ==
    ASSUME NEW f, NEW g, NEW t \in Threads, NEW i \in Nat, i \notin f[t],
           g[t] = f[t] \cup {i}, \A u \in Threads : u # t => g[u] = f[u],
           IsFiniteSet(AllOf(f))
    PROVE  /\ IsFiniteSet(AllOf(g))
           /\ Cardinality(AllOf(g)) = Cardinality(AllOf(f)) + 1
<1>1. AllOf(g) = AllOf(f) \cup {<<t, i>>} BY DEF AllOf
<1>2. <<t, i>> \notin AllOf(f) BY DEF AllOf
<1> QED BY <1>1, <1>2, FS_AddElement

LEMMA OneTokenLess ==
    ASSUME NEW f, NEW g, NEW t \in Threads, NEW i \in Nat, i \in f[t],
           g[t] = f[t] \ {i}, \A u \in Threads : u # t => g[u] = f[u],
           IsFiniteSet(AllOf(f))
    PROVE  /\ IsFiniteSet(AllOf(g))
           /\ Cardinality(AllOf(g)) = Cardinality(AllOf(f)) - 1
<1>1. AllOf(g) = AllOf(f) \ {<<t, i>>} BY DEF AllOf
<1>2. <<t, i>> \in AllOf(f) BY DEF AllOf
<1> HIDE DEF AllOf
<1>3. /\ IsFiniteSet(AllOf(f) \ {<<t, i>>})
      /\ Cardinality(AllOf(f) \ {<<t, i>>}) = Cardinality(AllOf(f)) - 1
  BY <1>2, FS_RemoveElement
<1> QED BY <1>1, <1>3

\* A lock held for writing is not held for reading too.
LEMMA NoReader ==
    ASSUME HoldsOK, rwlock.reader_count = 0
    PROVE  \A t \in Threads : holds[t].read = 0 /\ ~GivesBack(t)
<1>1. Tokens = {} BY FS_EmptySet DEF HoldsOK
<1> SUFFICES ASSUME NEW t \in Threads PROVE holds[t].read = 0 /\ ~GivesBack(t)
  OBVIOUS
<1> DEFINE f == [u \in Threads |-> Part(u)]
<1>2. \A i \in Nat : i \notin Part(t)
  <2>1. \A i \in Nat : <<t, i>> \notin AllOf(f) BY <1>1 DEF Tokens
  <2>2. f[t] = Part(t) OBVIOUS
  <2> HIDE DEF f
  <2>3. \A i \in Nat : i \notin f[t] BY <2>1 DEF AllOf
  <2> QED BY <2>2, <2>3
<1>3. holds[t].read \in Nat BY DEF HoldsOK
<1>4. 0 \notin Part(t) /\ 1 \notin Part(t) BY <1>2
<1>5. ~GivesBack(t) BY <1>4 DEF Part
<1>6. ~(1 \in 1..holds[t].read) BY <1>4 DEF Part
<1> QED BY <1>3, <1>5, <1>6

\* The owner of the mutex is the only one who may be a writer.
LEMMA NoWriter ==
    ASSUME LockInv, NEW t \in Threads, mutex.owner = t \/ mutex.owner = NoThread, ~Writer(t)
    PROVE  /\ rwlock.writer_count = 0 /\ \A u \in Threads : ~Writer(u)
<1>1. \A u \in Threads : u # NoThread BY ThreadsAssumption
<1>2. \A u \in Threads : ~Writer(u) BY <1>1 DEF LockInv, HoldsOK
<1> QED BY <1>2 DEF LockInv, HoldsOK

LEMMA LockStep ==
    ASSUME LockInv, NEW t \in Threads, Step(t, "lock") \/ Step(t, "trylock"), CanLock(t),
           Locked(t), GoOn(t), UNCHANGED <<rwlock, holds, client>>
    PROVE  LockInv'
<1> USE DEF LockInv
<1> DEFINE q == todo[t]
           r == Tail(todo[t])
<1>1. /\ todo' = [todo EXCEPT ![t] = r] /\ rwlock' = rwlock
      /\ holds' = holds /\ client' = client
  BY DEF GoOn, Do
<1>2. /\ todo' = [u \in Threads |-> todo'[u]] /\ todo'[t] = r
      /\ \A u \in Threads : u # t => todo'[u] = todo[u]
  BY <1>1 DEF MutexOK
<1>3. q # <<>> /\ (Head(q) = "lock" \/ Head(q) = "trylock") BY DEF Step
<1>4. /\ ~Inside(q, client) /\ ~Leaving(q) /\ q # One("drop") /\ q # Two("unlock", "unlock")
      /\ Phase(r, client) /\ Inside(r, client) /\ ~Leaving(r)
      /\ r # Two("unlock", "unlock") /\ r # Two("lock", "drop")
      /\ r = One("drop") <=> q = Two("lock", "drop")
  <2>1. Phase(q, client) BY DEF MutexOK
  <2>2. q # One("drop") /\ q # Two("unlock", "unlock") BY <1>3, OneIs, TwoIs
  <2>3. CASE Head(q) = "lock" BY <1>3, <2>1, <2>2, <2>3, AtLock
  <2>4. CASE Head(q) = "trylock"
    <3>1. /\ ~Inside(q, client) /\ ~Leaving(q) /\ ~Telling(q)
          /\ Phase(r, client) /\ Inside(r, client) /\ ~Leaving(r) /\ ~Telling(r)
      BY <1>3, <2>1, <2>4, AtTryLock
    <3> QED BY <2>2, <3>1 DEF Telling
  <2> QED BY <1>3, <2>3, <2>4
<1> HIDE DEF q, r
<1>5. t # NoThread BY ThreadsAssumption
<1>6. holds[t].write = 0 BY <1>3 DEF HoldsOK, q
<1>7. CASE mutex.owner = t
  <2>1. q = Two("lock", "drop") /\ r = One("drop") BY <1>4, <1>6, <1>7 DEF MutexOK, q
  <2>2. mutex.recursive = 0 BY <1>4, <1>7 DEF MutexOK, q
  <2>3. mutex' = [mutex EXCEPT !.recursive = 1] BY <1>7, <2>2 DEF Locked
  <2>4. mutex'.owner = t /\ mutex'.recursive = 1 /\ mutex'.sem = mutex.sem
    BY <1>7, <2>3 DEF MutexOK
  <2>5. \A u \in Threads : u # t =>
          /\ ~Inside(todo[u], client) /\ ~Leaving(todo[u]) /\ todo[u] # Two("unlock", "unlock")
    BY <1>5, <1>7, <2>2 DEF MutexOK
  <2>6. \A u \in Threads : u # t => todo[u] # One("drop")
    <3> SUFFICES ASSUME NEW u \in Threads, u # t, todo[u] = One("drop") PROVE FALSE
      OBVIOUS
    <3>1. todo[u] # <<>> /\ Head(todo[u]) = "drop" BY OneIs
    <3> QED BY <2>5, <3>1 DEF Inside
  <2>7. MutexOK'
    <3>1. mutex' \in [owner : Threads \cup {NoThread}, recursive : 0..1, sem : 0..1]
      BY <2>3 DEF MutexOK
    <3>2. \A u \in Threads : Phase(todo'[u], client) BY <1>2, <1>4 DEF MutexOK
    <3>3. \A u \in Threads : ~Leaving(todo'[u]) BY <1>2, <1>4, <2>5
    <3> QED BY <1>1, <1>2, <1>4, <1>5, <1>7, <2>1, <2>4, <2>5, <3>1, <3>2, <3>3 DEF MutexOK
  <2>8. \A u \in Threads : (Writer(u)' <=> Writer(u)) /\ (GivesBack(u)' <=> GivesBack(u))
    <3>1. Writer(t) /\ Writer(t)' /\ ~GivesBack(t) /\ ~GivesBack(t)'
      BY <1>1, <1>2, <1>4, <1>7, <2>1, <2>2, <2>4 DEF Writer, GivesBack, q
    <3>2. ASSUME NEW u \in Threads, u # t
          PROVE  (Writer(u)' <=> Writer(u)) /\ (GivesBack(u)' <=> GivesBack(u))
      BY <1>1, <1>2, <1>7, <2>4, <2>6, <3>2 DEF Writer, GivesBack
    <3> QED BY <3>1, <3>2
  <2>9. HoldsOK' BY <1>1, <1>2, <1>6, <1>7, <2>4, <2>8, HoldsKept DEF HoldsOK
  <2> QED BY <2>7, <2>9
<1>8. CASE mutex.owner # t
  <2>1. mutex.sem = 1 /\ mutex.owner = NoThread BY <1>8 DEF CanLock, MutexOK
  <2>2. mutex' = [owner |-> t, recursive |-> 0, sem |-> 0] BY <1>8, <2>1 DEF Locked
  <2>3. mutex'.owner = t /\ mutex'.recursive = 0 /\ mutex'.sem = 0 BY <2>2
  <2>4. \A u \in Threads :
          ~Inside(todo[u], client) /\ ~Leaving(todo[u]) /\ todo[u] # Two("unlock", "unlock")
    BY <2>1, ThreadsAssumption DEF MutexOK
  <2>5. \A u \in Threads : todo[u] # One("drop")
    <3> SUFFICES ASSUME NEW u \in Threads, todo[u] = One("drop") PROVE FALSE
      OBVIOUS
    <3>1. todo[u] # <<>> /\ Head(todo[u]) = "drop" BY OneIs
    <3> QED BY <2>4, <3>1 DEF Inside
  <2>6. MutexOK'
    <3>1. mutex' \in [owner : Threads \cup {NoThread}, recursive : 0..1, sem : 0..1]
      BY <2>2
    <3>2. \A u \in Threads : Phase(todo'[u], client) BY <1>2, <1>4 DEF MutexOK
    <3>3. \A u \in Threads : ~Leaving(todo'[u]) BY <1>2, <1>4, <2>4
    <3> QED BY <1>1, <1>2, <1>4, <1>5, <2>3, <2>4, <3>1, <3>2, <3>3 DEF MutexOK
  <2>7. \A u \in Threads : ~Writer(u) BY <2>1, ThreadsAssumption DEF HoldsOK
  <2>8. \A u \in Threads : ~Writer(u)'
    BY <1>1, <1>2, <1>4, <2>1, <2>3, <2>5, <2>7, ThreadsAssumption DEF Writer
  <2>9. \A u \in Threads : GivesBack(u)' <=> GivesBack(u)
    BY <1>1, <1>2, <1>4, <2>1, <2>3, <2>5, ThreadsAssumption DEF GivesBack, q
  <2>10. HoldsOK' BY <1>1, <1>2, <1>6, <2>7, <2>8, <2>9, HoldsKept DEF HoldsOK
  <2> QED BY <2>6, <2>10
<1> QED BY <1>7, <1>8

LEMMA UnlockStep ==
    ASSUME LockInv, NEW t \in Threads, UnlockMutex(t), UNCHANGED <<rwlock, holds, client>>
    PROVE  LockInv'
<1> USE DEF LockInv
<1> DEFINE q == todo[t]
<1>1. /\ q # <<>> /\ Head(q) = "unlock" /\ mutex.owner = t
      /\ rwlock' = rwlock /\ holds' = holds /\ client' = client
  BY DEF UnlockMutex, Step
<1>2. /\ Inside(q, client) /\ ~Leaving(q) /\ q # Two("lock", "drop") /\ q # One("drop")
      /\ IF q = Two("unlock", "unlock") THEN Tail(q) = One("unlock") /\ Phase(Tail(q), client)
         ELSE LET r == <<"release">> \o Tail(q)
              IN  Phase(r, client) /\ ~Inside(r, client) /\ Leaving(r) /\ ~Telling(r)
  BY <1>1, AtUnlock DEF MutexOK
<1>3. t # NoThread /\ mutex.sem = 0 BY <1>1, ThreadsAssumption DEF MutexOK
<1>4. holds[t].write = 0 BY <1>1 DEF HoldsOK
<1>5. ~Writer(t) BY <1>2, <1>4 DEF Writer
<1>6. \A u \in Threads : ~Writer(u) BY <1>1, <1>5, NoWriter
<1>7. \A u \in Threads : u # t => ~Inside(todo[u], client) /\ ~Leaving(todo[u])
  BY <1>1, <1>3 DEF MutexOK
<1>8. \A u \in Threads : todo[u] # One("drop")
  <2> SUFFICES ASSUME NEW u \in Threads, todo[u] = One("drop") PROVE FALSE
    OBVIOUS
  <2>1. todo[u] # <<>> /\ Head(todo[u]) = "drop" BY OneIs
  <2>2. u = t BY <1>7, <2>1 DEF Inside
  <2> QED BY <1>1, <2>1, <2>2
<1>9. \A u \in Threads : u # t => todo[u] # Two("unlock", "unlock")
  <2> SUFFICES ASSUME NEW u \in Threads, todo[u] = Two("unlock", "unlock") PROVE u = t
    OBVIOUS
  <2>1. todo[u] # <<>> /\ Head(todo[u]) = "unlock" BY TwoIs
  <2> QED BY <1>7, <2>1 DEF Inside
<1>10. CASE q = Two("unlock", "unlock")
  <2> DEFINE r == Tail(q)
  <2>1. mutex.recursive = 1 BY <1>10 DEF MutexOK
  <2>2. mutex' = [mutex EXCEPT !.recursive = 0] /\ todo' = [todo EXCEPT ![t] = r]
    BY <2>1 DEF UnlockMutex, GoOn, Do
  <2>3. mutex'.owner = t /\ mutex'.recursive = 0 /\ mutex'.sem = 0
    BY <1>1, <1>3, <2>2 DEF MutexOK
  <2>4. /\ todo' = [u \in Threads |-> todo'[u]] /\ todo'[t] = r
        /\ \A u \in Threads : u # t => todo'[u] = todo[u]
    BY <2>2 DEF MutexOK
  <2>5. r = One("unlock") /\ Phase(r, client) BY <1>2, <1>10
  <2>6. Inside(r, client) /\ ~Leaving(r) /\ ~Telling(r) BY <2>5, Ends DEF MutexOK
  <2> HIDE DEF r, q
  <2>7. MutexOK'
    <3>1. mutex' \in [owner : Threads \cup {NoThread}, recursive : 0..1, sem : 0..1]
      BY <2>2 DEF MutexOK
    <3>2. \A u \in Threads : Phase(todo'[u], client) BY <2>4, <2>5 DEF MutexOK
    <3>3. \A u \in Threads : ~Leaving(todo'[u]) BY <1>7, <2>4, <2>6
    <3> QED BY <1>1, <1>3, <1>7, <1>9, <2>3, <2>4, <2>6, <3>1, <3>2, <3>3 DEF MutexOK, Telling
  <2>8. \A u \in Threads : (Writer(u)' <=> Writer(u)) /\ (GivesBack(u)' <=> GivesBack(u))
    <3>1. ASSUME NEW u \in Threads, u # t
          PROVE  (Writer(u)' <=> Writer(u)) /\ (GivesBack(u)' <=> GivesBack(u))
      BY <1>1, <1>8, <2>3, <2>4, <3>1 DEF Writer, GivesBack
    <3>2. ~Writer(t)' /\ ~GivesBack(t) /\ ~GivesBack(t)'
      BY <1>1, <1>2, <1>4, <2>4, <2>6 DEF Writer, GivesBack, Telling, q
    <3> QED BY <1>5, <3>1, <3>2
  <2> QED BY <1>1, <1>4, <1>6, <2>4, <2>7, <2>8, HoldsKept DEF HoldsOK
<1>11. CASE q # Two("unlock", "unlock")
  <2> DEFINE r == <<"release">> \o Tail(q)
  <2>1. mutex.recursive = 0 BY <1>1, <1>2, <1>11 DEF MutexOK
  <2>2. mutex' = [mutex EXCEPT !.owner = NoThread] /\ todo' = [todo EXCEPT ![t] = r]
    BY <2>1 DEF UnlockMutex, Do
  <2>3. mutex'.owner = NoThread /\ mutex'.recursive = 0 /\ mutex'.sem = 0
    BY <1>3, <2>1, <2>2 DEF MutexOK
  <2>4. /\ todo' = [u \in Threads |-> todo'[u]] /\ todo'[t] = r
        /\ \A u \in Threads : u # t => todo'[u] = todo[u]
    BY <2>2 DEF MutexOK
  <2>5. Phase(r, client) /\ ~Inside(r, client) /\ Leaving(r) /\ ~Telling(r) BY <1>2, <1>11
  <2> HIDE DEF r, q
  <2>6. MutexOK'
    <3>1. mutex' \in [owner : Threads \cup {NoThread}, recursive : 0..1, sem : 0..1]
      BY <2>2 DEF MutexOK
    <3>2. \A u \in Threads : Phase(todo'[u], client) BY <2>4, <2>5 DEF MutexOK
    <3>3. \A u \in Threads : Leaving(todo'[u]) => u = t BY <1>7, <2>4
    <3>4. \A u \in Threads : ~Inside(todo'[u], client) BY <1>7, <2>4, <2>5
    <3>5. \A u \in Threads : todo'[u] # Two("unlock", "unlock")
      BY <1>9, <2>4, <2>5 DEF Telling
    <3> QED BY <1>1, <2>3, <2>4, <3>1, <3>2, <3>3, <3>4, <3>5, ThreadsAssumption DEF MutexOK
  <2>7. \A u \in Threads : (Writer(u)' <=> Writer(u)) /\ (GivesBack(u)' <=> GivesBack(u))
    <3>1. ASSUME NEW u \in Threads, u # t
          PROVE  (Writer(u)' <=> Writer(u)) /\ (GivesBack(u)' <=> GivesBack(u))
      BY <1>1, <1>8, <2>3, <2>4, <3>1, ThreadsAssumption DEF Writer, GivesBack
    <3>2. ~Writer(t)' /\ ~GivesBack(t) /\ ~GivesBack(t)'
      BY <1>1, <1>2, <1>4, <2>4, <2>5 DEF Writer, GivesBack, Telling, q
    <3> QED BY <1>5, <3>1, <3>2
  <2> QED BY <1>1, <1>4, <1>6, <2>4, <2>6, <2>7, HoldsKept DEF HoldsOK
<1> QED BY <1>10, <1>11

LEMMA ReleaseStep ==
    ASSUME LockInv, NEW t \in Threads, ReleaseMutex(t), UNCHANGED <<rwlock, holds, client>>
    PROVE  LockInv'
<1> USE DEF LockInv
<1> DEFINE q == todo[t]
           r == Tail(todo[t])
<1>1. /\ q # <<>> /\ Head(q) = "release" /\ rwlock' = rwlock /\ holds' = holds
      /\ client' = client /\ todo' = [todo EXCEPT ![t] = r]
      /\ mutex' = [mutex EXCEPT !.sem = @ + 1]
  BY DEF ReleaseMutex, Step, GoOn, Do
<1>2. /\ todo' = [u \in Threads |-> todo'[u]] /\ todo'[t] = r
      /\ \A u \in Threads : u # t => todo'[u] = todo[u]
  BY <1>1 DEF MutexOK
<1>3. /\ Leaving(q) /\ ~Inside(q, client) /\ ~Telling(q)
      /\ Phase(r, client) /\ ~Inside(r, client) /\ ~Leaving(r) /\ ~Telling(r)
  BY <1>1, AtRelease DEF MutexOK
<1> HIDE DEF q, r
<1>4. /\ mutex.owner = NoThread /\ mutex.sem = 0 /\ \A u \in Threads : Leaving(todo[u]) => u = t
  BY <1>3 DEF MutexOK, q
<1>5. mutex' = [mutex EXCEPT !.sem = 1] BY <1>1, <1>4
<1>6. mutex'.owner = NoThread /\ mutex'.recursive = mutex.recursive /\ mutex'.sem = 1
  BY <1>4, <1>5 DEF MutexOK
<1>7. MutexOK'
  <2>1. mutex' \in [owner : Threads \cup {NoThread}, recursive : 0..1, sem : 0..1]
    BY <1>5 DEF MutexOK
  <2>2. \A u \in Threads : Phase(todo'[u], client) BY <1>2, <1>3 DEF MutexOK
  <2>3. \A u \in Threads : ~Leaving(todo'[u]) BY <1>2, <1>3, <1>4
  <2>4. \A u \in Threads : ~Inside(todo'[u], client)
    BY <1>2, <1>3, <1>4, ThreadsAssumption DEF MutexOK
  <2>5. mutex.recursive = 0 BY <1>4 DEF MutexOK
  <2>6. \A u \in Threads : todo'[u] # Two("unlock", "unlock")
    BY <1>2, <1>3, <2>5 DEF Telling, MutexOK
  <2> QED BY <1>1, <1>2, <1>6, <2>1, <2>2, <2>3, <2>4, <2>5, <2>6, ThreadsAssumption DEF MutexOK
<1>8. holds[t].write = 0 BY <1>1, <1>3 DEF HoldsOK, q
<1>9. \A u \in Threads : (Writer(u)' <=> Writer(u)) /\ (GivesBack(u)' <=> GivesBack(u))
  <2>1. ASSUME NEW u \in Threads, u # t
        PROVE  (Writer(u)' <=> Writer(u)) /\ (GivesBack(u)' <=> GivesBack(u))
    BY <1>1, <1>2, <1>4, <1>6, <2>1 DEF Writer, GivesBack
  <2>2. (Writer(t)' <=> Writer(t)) /\ (GivesBack(t)' <=> GivesBack(t))
    BY <1>1, <1>2, <1>3 DEF Writer, GivesBack, Telling, q
  <2> QED BY <2>1, <2>2
<1>10. HoldsOK' BY <1>1, <1>2, <1>4, <1>6, <1>8, <1>9, HoldsKept DEF HoldsOK
<1> QED BY <1>7, <1>10

LEMMA AddReaderStep ==
    ASSUME LockInv, NEW t \in Threads, AddReader(t)
    PROVE  LockInv'
<1> USE DEF LockInv
<1> DEFINE q == todo[t]
           r == Tail(todo[t])
           n == holds[t].read
<1>1. /\ q # <<>> /\ Head(q) = "read" /\ todo' = [todo EXCEPT ![t] = r]
      /\ rwlock' = [rwlock EXCEPT !.reader_count = @ + 1]
      /\ holds' = [holds EXCEPT ![t].read = @ + 1]
      /\ mutex' = mutex /\ client' = client
  BY DEF AddReader, Step, GoOn, Do
<1>2. /\ todo' = [u \in Threads |-> todo'[u]] /\ todo'[t] = r
      /\ \A u \in Threads : u # t => todo'[u] = todo[u]
  BY <1>1 DEF MutexOK
<1>3. client = "rwlock" /\ Inside(q, client) /\ Plain(q, r, client)
  BY <1>1, AtRead DEF MutexOK
<1>4. /\ Phase(r, client) /\ Inside(r, client) /\ ~Leaving(q) /\ ~Leaving(r)
      /\ ~Telling(q) /\ ~Telling(r)
  BY <1>3 DEF Plain
<1> HIDE DEF q, r
<1>5. mutex.owner = t BY <1>3 DEF MutexOK, q
<1>6. holds[t].write = 0 BY <1>1 DEF HoldsOK, q
<1>7. n \in Nat /\ /\ holds' \in [Threads -> [read : Nat, write : 0..1]]
                   /\ holds'[t].read = n + 1
                   /\ \A u \in Threads : u # t => holds'[u].read = holds[u].read
                   /\ \A u \in Threads : holds'[u].write = holds[u].write
  BY <1>1 DEF HoldsOK
<1>8. ~Writer(t) BY <1>4, <1>6 DEF Writer, Telling, q
<1>9. rwlock.writer_count = 0 /\ \A u \in Threads : ~Writer(u) BY <1>5, <1>8, NoWriter
<1>10. \A u \in Threads : (Writer(u)' <=> Writer(u)) /\ (GivesBack(u)' <=> GivesBack(u))
  <2>1. ASSUME NEW u \in Threads, u # t
        PROVE  (Writer(u)' <=> Writer(u)) /\ (GivesBack(u)' <=> GivesBack(u))
    BY <1>1, <1>2, <1>7, <2>1 DEF Writer, GivesBack
  <2>2. ~Writer(t)' /\ ~GivesBack(t) /\ ~GivesBack(t)'
    BY <1>1, <1>2, <1>4, <1>6, <1>7 DEF Writer, GivesBack, Telling, q
  <2> QED BY <1>8, <2>1, <2>2
<1>11. MutexOK'
  <2>1. \A u \in Threads : /\ Phase(todo'[u], client)
                           /\ Inside(todo'[u], client) <=> Inside(todo[u], client)
                           /\ Leaving(todo'[u]) <=> Leaving(todo[u])
                           /\ todo'[u] = Two("lock", "drop") <=> todo[u] = Two("lock", "drop")
                           /\ todo'[u] = One("drop") <=> todo[u] = One("drop")
                           /\ todo'[u] = Two("unlock", "unlock") <=> todo[u] = Two("unlock", "unlock")
    BY <1>2, <1>3, <1>4 DEF MutexOK, Telling, q
  <2> QED BY <1>1, <1>2, <1>7, <2>1 DEF MutexOK
<1>12. HoldsOK'
  <2> DEFINE f == [u \in Threads |-> Part(u)]
             g == [u \in Threads |-> Part(u)']
  <2>1. g[t] = f[t] \cup {n + 1} /\ n + 1 \notin f[t]
    <3>1. ~GivesBack(t) /\ ~GivesBack(t)' BY <1>1, <1>2, <1>4 DEF GivesBack, Telling, q
    <3>2. f[t] = 1..n BY <3>1 DEF Part
    <3>3. g[t] = 1..n + 1 BY <1>7, <3>1 DEF Part
    <3> QED BY <1>7, <3>2, <3>3
  <2>2. \A u \in Threads : u # t => g[u] = f[u] BY <1>7, <1>10 DEF Part
  <2>3. Tokens = AllOf(f) /\ Tokens' = AllOf(g) BY DEF Tokens
  <2> HIDE DEF f, g
  <2>4. IsFiniteSet(AllOf(f)) BY <2>3 DEF HoldsOK
  <2>5. IsFiniteSet(AllOf(g)) /\ Cardinality(AllOf(g)) = Cardinality(AllOf(f)) + 1
    <3> DEFINE k == n + 1
    <3>1. k \in Nat /\ g[t] = f[t] \cup {k} /\ k \notin f[t] BY <1>7, <2>1
    <3> HIDE DEF k
    <3> QED BY <2>2, <2>4, <3>1, OneTokenMore
  <2>6. rwlock'.writer_count = 0 /\ rwlock'.reader_count = rwlock.reader_count + 1
        /\ rwlock' \in [reader_count : Nat, writer_count : 0..1]
    BY SMTT(30), <1>1, <1>9 DEF HoldsOK
  <2>7. \A u \in Threads : holds[u].write = 0 BY <1>9 DEF Writer, HoldsOK
  <2>8. rwlock'.reader_count = Cardinality(Tokens') BY <2>3, <2>5, <2>6 DEF HoldsOK
  <2>9. client' = "rwlock" BY <1>1, <1>3
  <2> QED BY <1>7, <1>9, <1>10, <2>3, <2>5, <2>6, <2>7, <2>8, <2>9 DEF HoldsOK
<1> QED BY <1>11, <1>12

LEMMA TakeForWritingStep ==
    ASSUME LockInv, NEW t \in Threads, TakeForWriting(t)
    PROVE  LockInv'
<1> USE DEF LockInv
<1> DEFINE q == todo[t]
<1>1. /\ Head(q) = "write" \/ Head(q) = "trywrite"
      /\ todo' = [todo EXCEPT ![t] = <<>>] /\ rwlock.reader_count = 0
      /\ rwlock' = [rwlock EXCEPT !.writer_count = @ + 1]
      /\ holds' = [holds EXCEPT ![t].write = @ + 1]
      /\ mutex' = mutex /\ client' = client
  BY DEF TakeForWriting, AddWriter, NoReaders, Step, Do
<1>2. /\ todo' = [u \in Threads |-> todo'[u]] /\ todo'[t] = <<>>
      /\ \A u \in Threads : u # t => todo'[u] = todo[u]
  BY <1>1 DEF MutexOK
<1>3. q # <<>> BY DEF TakeForWriting, Step
<1>4. client = "rwlock" /\ Inside(q, client) /\ ~Leaving(q) /\ ~Telling(q)
  BY <1>1, <1>3, AtWrite DEF MutexOK
<1>5. /\ Phase(<<>>, client) /\ ~Inside(<<>>, client) /\ ~Leaving(<<>>) /\ ~Telling(<<>>)
  BY <1>4, Ends
<1> HIDE DEF q
<1>6. mutex.owner = t BY <1>4 DEF MutexOK, q
<1>7. holds[t].write = 0 BY <1>3 DEF HoldsOK, q
<1>8. ~Writer(t) BY <1>4, <1>7 DEF Writer, Telling, q
<1>9. rwlock.writer_count = 0 /\ \A u \in Threads : ~Writer(u) BY <1>6, <1>8, NoWriter
<1>10. /\ holds' = [holds EXCEPT ![t].write = 1] /\ rwlock' = [rwlock EXCEPT !.writer_count = 1]
  BY <1>1, <1>7, <1>9
<1>11. /\ holds' \in [Threads -> [read : Nat, write : 0..1]]
       /\ holds'[t].write = 1
       /\ \A u \in Threads : u # t => holds'[u].write = holds[u].write
       /\ \A u \in Threads : holds'[u].read = holds[u].read
       /\ rwlock' \in [reader_count : Nat, writer_count : 0..1]
       /\ rwlock'.reader_count = 0 /\ rwlock'.writer_count = 1
  BY <1>1, <1>10 DEF HoldsOK
<1>12. mutex.recursive = 0 BY <1>4, <1>6 DEF MutexOK, Telling, q
<1>13. MutexOK'
  <2>1. \A u \in Threads : /\ Phase(todo'[u], client)
                           /\ Inside(todo'[u], client) => Inside(todo[u], client)
                           /\ Leaving(todo'[u]) <=> Leaving(todo[u])
                           /\ todo'[u] = Two("unlock", "unlock") <=> todo[u] = Two("unlock", "unlock")
    BY <1>2, <1>4, <1>5 DEF MutexOK, Telling, q
  <2>2. \A u \in Threads : ~Leaving(todo[u]) BY <1>6, ThreadsAssumption DEF MutexOK
  <2>3. \A u \in Threads : todo[u] # Two("unlock", "unlock") BY <1>12 DEF MutexOK
  <2>4. \A u \in Threads : mutex'.owner = u => holds'[u].write = 1 BY <1>1, <1>6, <1>11
  <2> QED BY <1>1, <1>2, <1>12, <2>1, <2>2, <2>3, <2>4 DEF MutexOK
<1>14. HoldsOK'
  <2>1. Writer(t)' BY <1>11 DEF Writer
  <2>2. \A u \in Threads : Writer(u)' => u = t
    BY <1>1, <1>2, <1>9, <1>11 DEF Writer
  <2>3. \A u \in Threads : GivesBack(u)' <=> GivesBack(u)
    <3>1. ASSUME NEW u \in Threads, u # t PROVE GivesBack(u)' <=> GivesBack(u)
      BY <1>1, <1>2, <3>1 DEF GivesBack
    <3>2. ~GivesBack(t)' /\ ~GivesBack(t)
      BY <1>2, <1>4, <1>5 DEF GivesBack, Telling, q
    <3> QED BY <3>1, <3>2
  <2>4. Tokens' = Tokens
    <3>1. \A u \in Threads : Part(u)' = Part(u) BY <1>11, <2>3 DEF Part
    <3> QED BY <3>1 DEF Tokens
  <2>5. \A u \in Threads : holds'[u].write = 1 => todo'[u] = <<>>
    BY <1>2, <2>2 DEF Writer
  <2>6. \A u \in Threads : Writer(u)' => mutex'.owner = u BY <1>1, <1>6, <2>2
  <2>7. IsFiniteSet(Tokens') /\ rwlock'.reader_count = Cardinality(Tokens')
    BY <1>1, <1>11, <2>4 DEF HoldsOK
  <2>8. client' = "rwlock" BY <1>1, <1>4
  <2> QED BY <1>11, <2>1, <2>5, <2>6, <2>7, <2>8 DEF HoldsOK
<1> QED BY <1>13, <1>14

LEMMA UnlockRWLockStep ==
    ASSUME LockInv, NEW t \in Threads, UnlockRWLock(t)
    PROVE  LockInv'
<1> USE DEF LockInv
<1> DEFINE q == todo[t]
           r == Two("lock", "drop")
           n == holds[t].read
<1>1. /\ client = "rwlock" /\ q = <<>> /\ ~Unheld(t) /\ todo' = [todo EXCEPT ![t] = r]
      /\ rwlock' = rwlock /\ mutex' = mutex /\ client' = client
      /\ holds' = IF n > 0 THEN [holds EXCEPT ![t].read = n - 1]
                           ELSE [holds EXCEPT ![t].write = @ - 1]
  BY DEF UnlockRWLock, Do, Two
<1>2. /\ todo' = [u \in Threads |-> todo'[u]] /\ todo'[t] = r
      /\ \A u \in Threads : u # t => todo'[u] = todo[u]
  BY <1>1 DEF MutexOK
<1>3. /\ Phase(r, client) /\ ~Inside(r, client) /\ ~Leaving(r)
      /\ r # One("drop") /\ r # Two("unlock", "unlock")
  <2>1. r # <<>> /\ Head(r) = "lock" BY TwoIs
  <2>2. r # One("drop") /\ r # Two("unlock", "unlock") BY <2>1, OneIs, TwoIs
  <2>3. Phase(r, client) BY <1>1 DEF Phase, LockPhase
  <2> HIDE DEF r
  <2> QED BY <2>1, <2>2, <2>3 DEF Inside, Leaving
<1>4. ~Inside(q, client) /\ ~Leaving(q) /\ ~Telling(q) BY <1>1, Ends
<1> HIDE DEF q
<1>5. \A u \in Threads : /\ Phase(todo'[u], client)
                         /\ Inside(todo'[u], client) <=> Inside(todo[u], client)
                         /\ Leaving(todo'[u]) <=> Leaving(todo[u])
                         /\ todo'[u] = One("drop") <=> todo[u] = One("drop")
                         /\ todo'[u] = Two("unlock", "unlock") <=> todo[u] = Two("unlock", "unlock")
  BY <1>2, <1>3, <1>4 DEF MutexOK, Telling, q
<1>6. n \in Nat /\ holds[t].write \in 0..1 BY DEF HoldsOK
<1>7. CASE n > 0
  <2>1. rwlock.writer_count = 0
    <3>1. rwlock.reader_count # 0 BY <1>7, NoReader
    <3> QED BY <3>1 DEF HoldsOK
  <2>2. \A u \in Threads : ~Writer(u) /\ holds[u].write = 0 BY <2>1 DEF HoldsOK, Writer
  <2>3. mutex.owner # t BY <1>4, <2>2 DEF MutexOK, Telling, q
  <2>4. holds' = [holds EXCEPT ![t].read = n - 1] BY <1>1, <1>7
  <2>5. /\ holds' \in [Threads -> [read : Nat, write : 0..1]]
        /\ holds'[t].read = n - 1
        /\ \A u \in Threads : u # t => holds'[u].read = holds[u].read
        /\ \A u \in Threads : holds'[u].write = 0
    BY <1>6, <1>7, <2>2, <2>4 DEF HoldsOK
  <2>6. MutexOK'
    <3>1. \A u \in Threads : mutex.owner = u => Inside(todo'[u], client) \/ todo'[u] = r
      BY <1>2, <1>5, <2>2, <2>3 DEF MutexOK
    <3> QED BY <1>1, <1>2, <1>5, <3>1 DEF MutexOK
  <2>7. \A u \in Threads : ~Writer(u)'
    <3>1. ~Writer(t)' BY <1>1, <1>2, <1>3, <2>3, <2>5 DEF Writer
    <3>2. ASSUME NEW u \in Threads, u # t PROVE ~Writer(u)'
      BY <1>1, <1>2, <2>2, <2>5, <3>2 DEF Writer
    <3> QED BY <3>1, <3>2
  <2>8. GivesBack(t)' /\ ~GivesBack(t)
    BY <1>1, <1>2, <1>4, <2>3 DEF GivesBack, Telling, q
  <2>9. \A u \in Threads : u # t => (GivesBack(u)' <=> GivesBack(u))
    BY <1>1, <1>2 DEF GivesBack
  <2>10. IsFiniteSet(Tokens') /\ Cardinality(Tokens') = Cardinality(Tokens)
    <3> DEFINE f == [u \in Threads |-> Part(u)]
               g == [u \in Threads |-> Part(u)']
               h == [u \in Threads |-> IF u = t THEN 1..n - 1 ELSE Part(u)]
    <3>1. f[t] = 1..n BY <2>8 DEF Part
    <3>2. g[t] = 1..n - 1 \cup {0} BY <2>5, <2>8 DEF Part
    <3>3. h[t] = f[t] \ {n} /\ n \in f[t] BY <1>6, <1>7, <3>1
    <3>4. g[t] = h[t] \cup {0} /\ 0 \notin h[t] BY <1>6, <3>2
    <3>5. \A u \in Threads : u # t => g[u] = f[u] /\ h[u] = f[u] /\ g[u] = h[u]
      BY <2>5, <2>9 DEF Part
    <3>6. Tokens = AllOf(f) /\ Tokens' = AllOf(g) BY DEF Tokens
    <3> HIDE DEF f, g, h, n
    <3>7. IsFiniteSet(AllOf(f)) /\ Cardinality(AllOf(f)) \in Nat
      BY <3>6, FS_CardinalityType DEF HoldsOK
    <3>8. IsFiniteSet(AllOf(h)) /\ Cardinality(AllOf(h)) = Cardinality(AllOf(f)) - 1
      BY <1>6, <3>3, <3>5, <3>7, OneTokenLess
    <3>9. IsFiniteSet(AllOf(g)) /\ Cardinality(AllOf(g)) = Cardinality(AllOf(h)) + 1
      BY <3>4, <3>5, <3>8, OneTokenMore
    <3> QED BY <3>6, <3>7, <3>8, <3>9
  <2>11. HoldsOK'
    <3>1. client' = "rwlock" BY <1>1
    <3>2. rwlock'.reader_count = Cardinality(Tokens') BY <1>1, <2>10 DEF HoldsOK
    <3>3. rwlock' \in [reader_count : Nat, writer_count : 0..1] BY <1>1 DEF HoldsOK
    <3> QED BY <1>1, <2>1, <2>5, <2>7, <2>10, <3>1, <3>2, <3>3 DEF HoldsOK
  <2> QED BY <2>6, <2>11
<1>8. CASE n = 0
  <2>1. holds[t].write = 1 BY <1>1, <1>6, <1>8 DEF Unheld, HoldsOK
  <2>2. Writer(t) /\ mutex.owner = t BY <2>1 DEF Writer, HoldsOK
  <2>3. holds' = [holds EXCEPT ![t].write = 0] BY <1>1, <1>8, <2>1
  <2>4. /\ holds' \in [Threads -> [read : Nat, write : 0..1]]
        /\ holds'[t].write = 0
        /\ \A u \in Threads : holds'[u].read = holds[u].read
        /\ \A u \in Threads : u # t => holds'[u].write = holds[u].write
    BY <1>8, <2>3 DEF HoldsOK
  <2>5. MutexOK' BY <1>1, <1>2, <1>5, <2>2, <2>4 DEF MutexOK
  <2>6. \A u \in Threads : (Writer(u)' <=> Writer(u)) /\ (GivesBack(u)' <=> GivesBack(u))
    <3>1. ASSUME NEW u \in Threads, u # t
          PROVE  (Writer(u)' <=> Writer(u)) /\ (GivesBack(u)' <=> GivesBack(u))
      BY <1>1, <1>2, <2>4, <3>1 DEF Writer, GivesBack
    <3>2. Writer(t)' /\ ~GivesBack(t) /\ ~GivesBack(t)'
      BY <1>1, <1>2, <1>3, <1>4, <2>2 DEF Writer, GivesBack, Telling, q
    <3> QED BY <2>2, <3>1, <3>2
  <2>7. Tokens' = Tokens
    <3>1. \A u \in Threads : Part(u)' = Part(u) BY <2>4, <2>6 DEF Part
    <3> QED BY <3>1 DEF Tokens
  <2>8. \A u \in Threads : holds'[u].write = 1 => todo'[u] = <<>>
    <3>1. \A u \in Threads : holds[u].write = 1 => todo[u] = <<>> BY DEF HoldsOK
    <3> QED BY <1>2, <2>4, <3>1
  <2>9. client' = "rwlock" BY <1>1
  <2>10. HoldsOK' BY <1>1, <2>4, <2>6, <2>7, <2>8, <2>9 DEF HoldsOK
  <2> QED BY <2>5, <2>10
<1> QED BY <1>6, <1>7, <1>8

LEMMA DropStep ==
    ASSUME LockInv, NEW t \in Threads, Drop(t)
    PROVE  LockInv'
<1> USE DEF LockInv
<1> DEFINE q == todo[t]
           b == Two("broadcast", "unlock")
           w == Two("unlock", "unlock")
<1>1. /\ q # <<>> /\ Head(q) = "drop"
      /\ mutex' = mutex /\ client' = client /\ holds' = holds
  BY DEF Drop, Step
<1>2. /\ IF rwlock.reader_count > 0
         THEN /\ rwlock' = [rwlock EXCEPT !.reader_count = @ - 1]
              /\ todo' = [todo EXCEPT ![t] = b]
         ELSE /\ rwlock' = [rwlock EXCEPT !.writer_count = @ - 1]
              /\ todo' = [todo EXCEPT ![t] = w]
  BY DEF Drop, Do, AfterReader, Two
<1>3. /\ client = "rwlock" /\ q = One("drop") /\ Inside(q, client) /\ ~Leaving(q)
      /\ Phase(b, client) /\ Inside(b, client) /\ ~Leaving(b) /\ ~Telling(b)
      /\ Phase(w, client) /\ Inside(w, client) /\ ~Leaving(w)
      /\ w # One("drop") /\ w # Two("lock", "drop") /\ w # <<>>
  BY <1>1, AtDrop DEF MutexOK
<1>4. /\ q # Two("lock", "drop") /\ q # w BY <1>1, TwoIs
<1> HIDE DEF q, b, w
<1>5. mutex.owner = t BY <1>3 DEF MutexOK, q
<1>6. \A u \in Threads : holds[u].write = 0
  <2>1. holds[t].write = 0 BY <1>1 DEF HoldsOK, q
  <2> QED BY <1>5, <2>1 DEF HoldsOK, Writer
<1>7. \A u \in Threads : u # t => todo[u] # One("drop") /\ todo[u] # w
  <2>1. \A u \in Threads : u # t => ~Inside(todo[u], client) BY <1>5 DEF MutexOK
  <2> SUFFICES ASSUME NEW u \in Threads, todo[u] = One("drop") \/ todo[u] = w PROVE u = t
    OBVIOUS
  <2>2. todo[u] # <<>> /\ (Head(todo[u]) = "drop" \/ Head(todo[u]) = "unlock") 
    BY OneIs, TwoIs DEF w
  <2> QED BY <2>1, <2>2 DEF Inside
<1>13. b # w BY <1>3 DEF Telling, w
<1>8. ASSUME NEW r, r = b \/ r = w, todo' = [todo EXCEPT ![t] = r],
             IF mutex.recursive = 1 THEN r = w ELSE r = b
      PROVE  /\ todo'[t] = r /\ \A u \in Threads : u # t => todo'[u] = todo[u]
             /\ MutexOK'
  <2>1. /\ todo' = [u \in Threads |-> todo'[u]] /\ todo'[t] = r
        /\ \A u \in Threads : u # t => todo'[u] = todo[u]
    BY <1>8 DEF MutexOK
  <2>2. \A u \in Threads : /\ Phase(todo'[u], client)
                           /\ Inside(todo'[u], client) <=> Inside(todo[u], client)
                           /\ Leaving(todo'[u]) <=> Leaving(todo[u])
    BY <1>3, <1>8, <2>1 DEF MutexOK, q
  <2>3. \A u \in Threads : todo'[u] = w => mutex.recursive = 1
    BY <1>7, <1>8, <1>13, <2>1
  <2>4. mutex.recursive = 1 => todo'[t] = w BY <1>8, <2>1
  <2>5. \A u \in Threads : mutex.owner = u => Inside(todo'[u], client)
    BY <1>3, <1>5, <2>2 DEF q
  <2>6. \A u \in Threads : mutex.recursive = 1 /\ mutex.owner = u => todo'[u] = w
    BY <1>5, <2>4
  <2> QED BY <1>1, <2>1, <2>2, <2>3, <2>5, <2>6 DEF MutexOK, w
<1>9. mutex.recursive = 0 \/ mutex.recursive = 1 BY DEF MutexOK
<1>10. rwlock.reader_count \in Nat BY DEF HoldsOK
<1>11. CASE rwlock.reader_count > 0
  <2>1. rwlock.writer_count = 0 /\ \A u \in Threads : ~Writer(u) BY <1>11 DEF HoldsOK
  <2>2. mutex.recursive = 0 BY <1>3, <1>9, <2>1 DEF Writer, q
  <2>4. /\ todo'[t] = b /\ MutexOK' /\ \A u \in Threads : u # t => todo'[u] = todo[u]
    <3>1. todo' = [todo EXCEPT ![t] = b] BY <1>2, <1>11
    <3>2. IF mutex.recursive = 1 THEN b = w ELSE b = b BY <2>2
    <3> QED BY <1>8, <3>1, <3>2
  <2>5. /\ rwlock' \in [reader_count : Nat, writer_count : 0..1]
        /\ rwlock'.reader_count = rwlock.reader_count - 1 /\ rwlock'.writer_count = 0
    BY <1>2, <1>10, <1>11, <2>1 DEF HoldsOK
  <2>6. GivesBack(t) /\ ~GivesBack(t)' BY <1>3, <2>2, <2>4 DEF GivesBack, Telling, q
  <2>7. \A u \in Threads : u # t => (GivesBack(u)' <=> GivesBack(u))
    BY <1>1, <2>4 DEF GivesBack
  <2>8. \A u \in Threads : ~Writer(u)'
    <3>1. ~Writer(t)' BY <1>1, <1>3, <1>6, <2>4 DEF Writer, Telling
    <3>2. ASSUME NEW u \in Threads, u # t PROVE ~Writer(u)'
      BY <1>1, <2>1, <2>4, <3>2 DEF Writer
    <3> QED BY <3>1, <3>2
  <2>9. IsFiniteSet(Tokens') /\ Cardinality(Tokens') = Cardinality(Tokens) - 1
    <3> DEFINE f == [u \in Threads |-> Part(u)]
               g == [u \in Threads |-> Part(u)']
    <3>1. 0 \in f[t] /\ g[t] = f[t] \ {0} BY <1>1, <2>6 DEF Part, HoldsOK
    <3>2. \A u \in Threads : u # t => g[u] = f[u] BY <1>1, <2>7 DEF Part
    <3>3. Tokens = AllOf(f) /\ Tokens' = AllOf(g) BY DEF Tokens
    <3> HIDE DEF f, g
    <3>4. IsFiniteSet(AllOf(f)) BY <3>3 DEF HoldsOK
    <3>5. IsFiniteSet(AllOf(g)) /\ Cardinality(AllOf(g)) = Cardinality(AllOf(f)) - 1
      BY <3>1, <3>2, <3>4, OneTokenLess
    <3> QED BY <3>3, <3>5
  <2>10. HoldsOK'
    <3>1. client' = "rwlock" BY <1>1, <1>3
    <3>2. rwlock'.reader_count = Cardinality(Tokens') BY <2>5, <2>9 DEF HoldsOK
    <3> QED BY <1>1, <1>6, <2>5, <2>8, <2>9, <3>1, <3>2 DEF HoldsOK
  <2> QED BY <2>4, <2>10
<1>12. CASE rwlock.reader_count = 0
  <2>1. ~GivesBack(t) BY <1>12, NoReader
  <2>2. mutex.recursive = 1 /\ Writer(t) BY <1>3, <1>9, <2>1 DEF GivesBack, Writer, q
  <2>3. rwlock.writer_count = 1 BY <2>2 DEF HoldsOK
  <2>4. /\ todo'[t] = w /\ MutexOK' /\ \A u \in Threads : u # t => todo'[u] = todo[u]
    <3>1. todo' = [todo EXCEPT ![t] = w] BY <1>2, <1>12
    <3> QED BY <1>8, <2>2, <3>1
  <2>5. rwlock' = [rwlock EXCEPT !.writer_count = 0] BY <1>2, <1>12, <2>3
  <2>6. /\ rwlock' \in [reader_count : Nat, writer_count : 0..1]
        /\ rwlock'.reader_count = rwlock.reader_count /\ rwlock'.writer_count = 0
    BY <2>5 DEF HoldsOK
  <2>7. \A u \in Threads : ~Writer(u)'
    <3>1. ~Writer(t)' BY <1>1, <1>3, <1>6, <2>4 DEF Writer
    <3>2. ASSUME NEW u \in Threads, u # t PROVE ~Writer(u)'
      BY <1>1, <1>5, <1>6, <1>7, <2>4, <3>2 DEF Writer
    <3> QED BY <3>1, <3>2
  <2>8. \A u \in Threads : GivesBack(u)' <=> GivesBack(u)
    <3>1. ~GivesBack(t)' BY <1>3, <2>4 DEF GivesBack
    <3>2. ASSUME NEW u \in Threads, u # t PROVE GivesBack(u)' <=> GivesBack(u)
      BY <1>1, <2>4, <3>2 DEF GivesBack
    <3> QED BY <2>1, <3>1, <3>2
  <2>9. Tokens' = Tokens
    <3>1. \A u \in Threads : Part(u)' = Part(u) BY <1>1, <2>8 DEF Part
    <3> QED BY <3>1 DEF Tokens
  <2>10. client' = "rwlock" BY <1>1, <1>3
  <2>11. HoldsOK' BY <1>1, <1>6, <2>6, <2>7, <2>9, <2>10 DEF HoldsOK
  <2> QED BY <2>4, <2>11
<1> QED BY <1>10, <1>11, <1>12

LEMMA InitLock == Init => LockInv
<1> SUFFICES ASSUME Init PROVE LockInv
  OBVIOUS
<1>1. /\ mutex = [owner |-> NoThread, recursive |-> 0, sem |-> 1]
      /\ todo = [t \in Threads |-> <<>>] /\ \A t \in Threads : todo[t] = <<>>
      /\ rwlock = [reader_count |-> 0, writer_count |-> 0]
      /\ holds = [t \in Threads |-> [read |-> 0, write |-> 0]]
      /\ client = "rwlock" \/ client = "app"
  BY ClientsAssumption DEF Init, CondInit
<1>2. /\ Phase(<<>>, client) /\ ~Inside(<<>>, client) /\ ~Leaving(<<>>)
      /\ <<>> # Two("lock", "drop") /\ <<>> # One("drop") /\ <<>> # Two("unlock", "unlock")
  BY <1>1, Ends DEF Telling
<1>3. MutexOK BY <1>1, <1>2, ThreadsAssumption DEF MutexOK
<1>4. \A t \in Threads : ~Writer(t) /\ ~GivesBack(t) /\ Part(t) = {}
  BY <1>1, <1>2 DEF Writer, GivesBack, Part
<1>5. Tokens = {} BY <1>4 DEF Tokens, AllOf
<1>6. HoldsOK BY <1>1, <1>4, <1>5, FS_EmptySet DEF HoldsOK, Unheld
<1> QED BY <1>3, <1>6 DEF LockInv

\* The counts of the condition are numbers.
CondNumbers == cond \in [sem : Int, handshake : Int, num_waiting : Int, num_signals : Int]

LEMMA CondNumbersStep ==
    ASSUME CondNumbers, [Next]_vars
    PROVE  CondNumbers'
<1>1. CASE UNCHANGED cond BY <1>1 DEF CondNumbers
<1>2. ASSUME NEW t \in Threads, Enter(t) \/ TakeSemaphore(t) \/ TakeHandshake(t)
      PROVE  CondNumbers'
  <2>1. \/ cond' = [cond EXCEPT !.num_waiting = @ + 1]
        \/ cond' = [cond EXCEPT !.sem = @ - 1]
        \/ cond' = [cond EXCEPT !.handshake = @ - 1]
    BY <1>2 DEF Enter, TakeSemaphore, TakeHandshake
  <2> QED BY <2>1 DEF CondNumbers
<1>3. ASSUME NEW t \in Threads, Leave(t) PROVE CondNumbers'
  <2>1. \/ cond' = [cond EXCEPT !.handshake = @ + 1, !.num_signals = @ - 1, !.num_waiting = @ - 1]
        \/ cond' = [cond EXCEPT !.num_waiting = @ - 1]
    BY <1>3 DEF Leave, AfterWait
  <2> DEFINE h == cond.handshake + 1
             s == cond.num_signals - 1
             w == cond.num_waiting - 1
  <2>2. h \in Int /\ s \in Int /\ w \in Int BY DEF CondNumbers
  <2>3. \/ cond' = [cond EXCEPT !.handshake = h, !.num_signals = s, !.num_waiting = w]
        \/ cond' = [cond EXCEPT !.num_waiting = w]
    BY <2>1
  <2> HIDE DEF h, s, w
  <2> QED BY <2>2, <2>3 DEF CondNumbers
<1>4. ASSUME NEW t \in Threads, SignalCondition(t) \/ BroadcastCondition(t) PROVE CondNumbers'
  <2>1. Unsignalled \in Int /\ 0 \in Int /\ 1 \in Int BY DEF Unsignalled, CondNumbers
  <2>2. \E n \in Int : cond' = [cond EXCEPT !.num_signals = @ + n, !.sem = @ + n]
    BY <1>4, <2>1 DEF SignalCondition, BroadcastCondition, Signal
  <2>3. PICK n \in Int : cond' = [cond EXCEPT !.num_signals = @ + n, !.sem = @ + n]
    BY <2>2
  <2> DEFINE s == cond.num_signals + n
             e == cond.sem + n
  <2>4. s \in Int /\ e \in Int BY DEF CondNumbers
  <2>5. cond' = [cond EXCEPT !.num_signals = s, !.sem = e] BY <2>3
  <2> HIDE DEF s, e
  <2> QED BY <2>4, <2>5 DEF CondNumbers
<1>5. CASE UNCHANGED vars BY <1>1, <1>5 DEF vars, condVars
<1>6. ASSUME NEW t \in Threads, Calls(t) \/ Continue(t) PROVE CondNumbers'
  <2>1. CASE Calls(t)
    BY <1>1, <2>1 DEF Calls, LockRWLockForReading, LockRWLockForWriting, TryLockRWLockForWriting,
                      AppWaits, AppSignals, Call
  <2>2. CASE CondStep(t)
    BY <1>1, <1>2, <1>3, <1>4, <2>2
    DEF CondStep, LockMutex, TryLockMutex, UnlockMutex, ReleaseMutex, TimeOut
  <2>3. CASE AddReader(t) \/ TakeForWriting(t) \/ FindReaders(t) \/ UnlockRWLock(t) \/ Drop(t)
    BY <1>1, <2>3 DEF AddReader, TakeForWriting, FindReaders, UnlockRWLock, Drop
  <2> QED BY <1>6, <2>1, <2>2, <2>3 DEF Continue
<1> QED BY <1>5, <1>6 DEF Next

LEMMA LockStepAll ==
    ASSUME LockInv, CondNumbers, [Next]_vars
    PROVE  LockInv'
<1>1. CASE UNCHANGED vars
  <2>1. \A t \in Threads : (Writer(t)' <=> Writer(t)) /\ (GivesBack(t)' <=> GivesBack(t))
    BY <1>1 DEF Writer, GivesBack, vars, condVars
  <2>2. HoldsOK' BY <1>1, <2>1, HoldsKept DEF LockInv, HoldsOK, vars, condVars
  <2>3. MutexOK' BY <1>1 DEF LockInv, MutexOK, vars, condVars
  <2> QED BY <2>2, <2>3 DEF LockInv
<1>2. ASSUME NEW t \in Threads, todo[t] # <<>>
      PROVE  holds[t].write = 0 /\ Phase(todo[t], client)
  BY <1>2 DEF LockInv, HoldsOK, MutexOK
<1>3. ASSUME NEW t \in Threads, NEW who, NEW r, Call(t, who, r), Plain(<<>>, r, who),
             holds[t].write = 0
      PROVE  LockInv'
  BY <1>3, PlainStep DEF Call
<1>4. ASSUME NEW t \in Threads, Calls(t) PROVE LockInv'
  <2>1. CASE LockRWLockForReading(t)
    <3>1. PICK first \in {"lock", "trylock"} : Call(t, "rwlock", <<first, "read", "unlock">>)
      BY <2>1 DEF LockRWLockForReading
    <3>2. holds[t].write = 0 BY <2>1 DEF LockRWLockForReading
    <3> QED BY <1>3, <3>1, <3>2, AtCall
  <2>2. CASE LockRWLockForWriting(t)
    <3>1. holds[t].write = 0 BY <2>2 DEF LockRWLockForWriting, Unheld
    <3> QED BY <1>3, <2>2, <3>1, AtCall DEF LockRWLockForWriting
  <2>3. CASE TryLockRWLockForWriting(t)
    <3>1. holds[t].write = 0 BY <2>3 DEF TryLockRWLockForWriting, Unheld
    <3> QED BY <1>3, <2>3, <3>1, AtCall DEF TryLockRWLockForWriting
  <2>4. ASSUME client = "app" PROVE holds[t].write = 0
    BY <2>4 DEF LockInv, HoldsOK, Unheld
  <2>5. CASE AppWaits(t)
    <3>1. PICK s \in {"sleep", "timed sleep"} :
             Call(t, "app", <<"lock">> \o WaitCall(s) \o <<"unlock">>)
      BY <2>5 DEF AppWaits
    <3>2. holds[t].write = 0 BY <2>4, <3>1 DEF Call
    <3> QED BY <1>3, <3>1, <3>2, AtCall
  <2>6. CASE AppSignals(t)
    <3>1. PICK how \in Signals :
             Call(t, "app", IF SignalUnlocked THEN <<how>> ELSE <<"lock", how, "unlock">>)
      BY <2>6 DEF AppSignals
    <3>2. holds[t].write = 0 BY <2>4, <3>1 DEF Call
    <3>3. how \in {"signal", "broadcast"} BY SignalAssumption
    <3> QED BY <1>3, <3>1, <3>2, <3>3, AtCall
  <2> QED BY <1>4, <2>1, <2>2, <2>3, <2>5, <2>6 DEF Calls
<1>5. ASSUME NEW t \in Threads, CondStep(t), UNCHANGED <<rwlock, holds, client>>
      PROVE  LockInv'
  <2> DEFINE q == todo[t]
  <2>1. CASE LockMutex(t) BY <1>5, <2>1, LockStep DEF LockMutex
  <2>2. CASE TryLockMutex(t)
    <3>1. CASE CanLock(t) BY <1>5, <2>2, <3>1, LockStep DEF TryLockMutex
    <3>2. CASE ~CanLock(t)
      <4>1. q # <<>> /\ Head(q) = "trylock" /\ Do(t, <<>>) /\ mutex' = mutex
        BY <2>2, <3>2 DEF TryLockMutex, Step
      <4>2. Plain(q, <<>>, client) BY <1>2, <4>1, AtTryLock
      <4> QED BY <1>2, <1>5, <4>1, <4>2, PlainStep
    <3> QED BY <3>1, <3>2
  <2>3. CASE UnlockMutex(t) BY <1>5, <2>3, UnlockStep
  <2>4. CASE ReleaseMutex(t) BY <1>5, <2>4, ReleaseStep
  <2>5. CASE Enter(t) \/ TakeSemaphore(t) \/ TimeOut(t) \/ Leave(t)
    <3>1. /\ q # <<>> /\ Do(t, Tail(q)) /\ mutex' = mutex
          /\ \/ Head(q) = "enter" \/ Head(q) = "leave"
             \/ Head(q) = "sleep" \/ Head(q) = "timed sleep"
      BY <2>5 DEF Enter, TakeSemaphore, TimeOut, Leave, Step, GoOn
    <3>2. Plain(q, Tail(q), client) BY <1>2, <3>1, AtWaiting
    <3> QED BY <1>2, <1>5, <3>1, <3>2, PlainStep
  <2>6. CASE SignalCondition(t)
    <3>1. q # <<>> /\ Head(q) = "signal" /\ mutex' = mutex
          /\ (Do(t, <<"handshake", "one">> \o Tail(q)) \/ Do(t, Tail(q)))
      BY <2>6 DEF SignalCondition, Signal, Step, GoOn
    <3>2. Plain(q, <<"handshake", "one">> \o Tail(q), client) /\ Plain(q, Tail(q), client)
      BY <1>2, <3>1, AtSignal
    <3> QED BY <1>2, <1>5, <3>1, <3>2, PlainStep
  <2>7. CASE BroadcastCondition(t)
    <3>1. q # <<>> /\ Head(q) = "broadcast" /\ mutex' = mutex
          /\ Do(t, [i \in 1..Unsignalled |-> "handshake"] \o Tail(q))
      BY <2>7 DEF BroadcastCondition, Signal, Step
    <3>2. Unsignalled \in Int BY DEF Unsignalled, CondNumbers
    <3>3. Plain(q, [i \in 1..Unsignalled |-> "handshake"] \o Tail(q), client)
      BY <1>2, <3>1, <3>2, AtBroadcast
    <3> QED BY <1>2, <1>5, <3>1, <3>3, PlainStep
  <2>8. CASE TakeHandshake(t)
    <3>1. q # <<>> /\ Head(q) = "handshake" /\ mutex' = mutex /\ Do(t, AfterHandshake(q))
      BY <2>8 DEF TakeHandshake, Step, AfterHandshake
    <3>2. Plain(q, AfterHandshake(q), client) BY <1>2, <3>1, AtHandshake
    <3> QED BY <1>2, <1>5, <3>1, <3>2, PlainStep
  <2> QED BY <1>5, <2>1, <2>2, <2>3, <2>4, <2>5, <2>6, <2>7, <2>8 DEF CondStep
<1>6. ASSUME NEW t \in Threads, Continue(t) PROVE LockInv'
  <2>1. CASE FindReaders(t)
    <3> DEFINE q == todo[t]
    <3>1. /\ q # <<>> /\ UNCHANGED <<mutex, rwlock, holds, client>>
          /\ Head(q) = "write" \/ Head(q) = "trywrite"
          /\ Do(t, WaitCall("sleep") \o <<"write">>) \/ Do(t, <<"unlock">>)
      BY <2>1 DEF FindReaders, Step
    <3>2. Plain(q, WaitCall("sleep") \o <<"write">>, client) /\ Plain(q, <<"unlock">>, client)
      BY <1>2, <3>1, AtWrite
    <3> QED BY <1>2, <3>1, <3>2, PlainStep
  <2> QED BY <1>5, <1>6, <2>1, AddReaderStep, TakeForWritingStep, UnlockRWLockStep, DropStep
          DEF Continue
<1> QED BY <1>1, <1>4, <1>6 DEF Next

LEMMA LockAlways == Spec => [](LockInv /\ CondNumbers)
<1>1. Init => LockInv /\ CondNumbers BY InitLock DEF Init, CondInit, CondNumbers
<1>2. LockInv /\ CondNumbers /\ [Next]_vars => (LockInv /\ CondNumbers)'
  BY LockStepAll, CondNumbersStep
<1> QED BY <1>1, <1>2, PTL DEF Spec

-----------------------------------------------------------------------------
\* A thread that holds the lock for writing holds it alone, and a reader that has the mutex
\* sees no writer, as SDL_LockRWLockForReading asserts.
THEOREM WritesAlone == Spec => []Exclusion
<1>1. LockInv => Exclusion
  <2> SUFFICES ASSUME LockInv, NEW t \in Threads
               PROVE  /\ holds[t].write > 0 => \A u \in Threads \ {t} : Unheld(u)
                      /\ Step(t, "read") => rwlock.writer_count = 0
    BY DEF Exclusion
  <2>1. ASSUME holds[t].write > 0, NEW u \in Threads, u # t PROVE Unheld(u)
    <3>1. holds[t].write = 1 BY <2>1 DEF LockInv, HoldsOK
    <3>2. Writer(t) BY <3>1 DEF Writer
    <3>3. rwlock.reader_count = 0 /\ mutex.owner = t BY <3>2 DEF LockInv, HoldsOK
    <3>4. holds[u].read = 0 BY <3>3, NoReader DEF LockInv
    <3>5. ~Writer(u) BY <2>1, <3>3 DEF LockInv, HoldsOK
    <3>6. holds[u] \in [read : Nat, write : 0..1] /\ holds[u].write # 1
      BY <3>5 DEF Writer, LockInv, HoldsOK
    <3> QED BY <3>4, <3>6 DEF Unheld
  <2>2. ASSUME Step(t, "read") PROVE rwlock.writer_count = 0
    <3>1. todo[t] # <<>> /\ Head(todo[t]) = "read" BY <2>2 DEF Step
    <3>2. Inside(todo[t], client) /\ Plain(todo[t], Tail(todo[t]), client)
      BY <3>1, AtRead DEF LockInv, MutexOK
    <3>3. mutex.owner = t BY <3>2 DEF LockInv, MutexOK
    <3>4. holds[t].write = 0 BY <3>1 DEF LockInv, HoldsOK
    <3>5. ~Writer(t) BY <3>2, <3>4 DEF Writer, Plain, Telling
    <3> QED BY <3>3, <3>5, NoWriter
  <2> QED BY <2>1, <2>2
<1> QED BY <1>1, LockAlways, PTL

-----------------------------------------------------------------------------
(* The steps that are in what a thread has left to do.                     *)

Has(q, x) == \E i \in DOMAIN q : q[i] = x

LEMMA HasStep ==
    ASSUME NEW S, NEW q \in Seq(S), q # <<>>, NEW x
    PROVE  Has(q, x) <=> Head(q) = x \/ Has(Tail(q), x)
<1>1. /\ Len(q) \in Nat /\ Len(q) > 0 /\ DOMAIN q = 1..Len(q) /\ Head(q) = q[1]
      /\ Tail(q) \in Seq(S) /\ Len(Tail(q)) = Len(q) - 1
      /\ DOMAIN Tail(q) = 1..Len(q) - 1
      /\ \A i \in 1..Len(q) - 1 : Tail(q)[i] = q[i + 1]
  BY HeadTailProperties, LenProperties, EmptySeq
<1>2. ASSUME NEW i \in 1..Len(q), q[i] = x PROVE Head(q) = x \/ Has(Tail(q), x)
  <2>1. CASE i = 1 BY <1>1, <1>2, <2>1
  <2>2. CASE i # 1
    <3>1. i - 1 \in 1..Len(q) - 1 /\ i - 1 + 1 = i BY <1>1, <2>2
    <3>2. Tail(q)[i - 1] = x BY <1>1, <1>2, <3>1
    <3> QED BY <1>1, <3>1, <3>2 DEF Has
  <2> QED BY <2>1, <2>2
<1>3. ASSUME NEW i \in 1..Len(q) - 1, Tail(q)[i] = x PROVE Has(q, x)
  <2>1. i + 1 \in 1..Len(q) /\ q[i + 1] = x BY <1>1, <1>3
  <2> QED BY <1>1, <2>1 DEF Has
<1>4. 1 \in 1..Len(q) BY <1>1
<1> QED BY <1>1, <1>2, <1>3, <1>4 DEF Has

LEMMA HasConcat ==
    ASSUME NEW S, NEW p \in Seq(S), NEW q \in Seq(S), NEW x
    PROVE  Has(p \o q, x) <=> Has(p, x) \/ Has(q, x)
<1> DEFINE m == Len(p)
           n == Len(q)
           r == p \o q
<1>1. /\ m \in Nat /\ n \in Nat /\ DOMAIN p = 1..m /\ DOMAIN q = 1..n
      /\ r \in Seq(S) /\ Len(r) = m + n
      /\ \A i \in 1..m + n : r[i] = IF i <= m THEN p[i] ELSE q[i - m]
  BY ConcatProperties, LenProperties
<1>2. DOMAIN r = 1..m + n BY <1>1, LenProperties
<1> HIDE DEF m, n, r
<1>3. ASSUME NEW i \in 1..m + n, r[i] = x PROVE Has(p, x) \/ Has(q, x)
  <2>1. CASE i <= m
    <3>1. i \in 1..m /\ p[i] = x BY <1>1, <1>3, <2>1
    <3> QED BY <1>1, <3>1 DEF Has
  <2>2. CASE ~(i <= m)
    <3>1. i - m \in 1..n /\ q[i - m] = x BY <1>1, <1>3, <2>2
    <3> QED BY <1>1, <3>1 DEF Has
  <2> QED BY <2>1, <2>2
<1>4. ASSUME NEW i \in 1..m, p[i] = x PROVE Has(r, x)
  <2>1. i \in 1..m + n /\ r[i] = x BY <1>1, <1>4
  <2> QED BY <1>2, <2>1 DEF Has
<1>5. ASSUME NEW i \in 1..n, q[i] = x PROVE Has(r, x)
  <2>1. i + m \in 1..m + n /\ ~(i + m <= m) /\ i + m - m = i BY <1>1
  <2>2. r[i + m] = q[i + m - m] BY <1>1, <2>1
  <2>3. r[i + m] = x BY <1>5, <2>1, <2>2
  <2> QED BY <1>2, <2>1, <2>3 DEF Has
<1>6. Has(r, x) <=> \E i \in 1..m + n : r[i] = x BY <1>2 DEF Has
<1>7. (Has(p, x) <=> \E i \in 1..m : p[i] = x) /\ (Has(q, x) <=> \E i \in 1..n : q[i] = x)
  BY <1>1 DEF Has
<1>8. Has(r, x) <=> Has(p, x) \/ Has(q, x) BY <1>3, <1>4, <1>5, <1>6, <1>7
<1> QED BY <1>8 DEF r

LEMMA NoneHas == \A x : ~Has(<<>>, x)
BY DEF Has

LEMMA OneHas ==
    ASSUME NEW a, NEW x
    PROVE  Has(One(a), x) <=> x = a
<1> DEFINE q == One(a)
           r == <<>>
<1>1. q \in Seq({a}) BY DEF One
<1>2. q # <<>> /\ Head(q) = a /\ Tail(q) = r BY OneIs
<1>3. Has(r, x) <=> FALSE BY NoneHas
<1> HIDE DEF q, r
<1>4. Has(q, x) <=> Head(q) = x \/ Has(Tail(q), x) BY <1>1, <1>2, HasStep
<1>5. Has(q, x) <=> a = x \/ Has(r, x) BY <1>2, <1>4
<1> QED BY <1>3, <1>5 DEF q

LEMMA TwoHas ==
    ASSUME NEW a, NEW b, NEW x
    PROVE  Has(Two(a, b), x) <=> x = a \/ x = b
<1> DEFINE q == Two(a, b)
           r == One(b)
<1>1. q \in Seq({a, b}) BY DEF Two
<1>2. q # <<>> /\ Head(q) = a /\ Tail(q) = r BY TwoIs
<1>3. Has(r, x) <=> x = b BY OneHas
<1> HIDE DEF q, r
<1>4. Has(q, x) <=> Head(q) = x \/ Has(Tail(q), x) BY <1>1, <1>2, HasStep
<1>5. Has(q, x) <=> a = x \/ Has(r, x) BY <1>2, <1>4
<1> QED BY <1>3, <1>5 DEF q

LEMMA ThreeHas ==
    ASSUME NEW a, NEW b, NEW c, NEW x
    PROVE  Has(Three(a, b, c), x) <=> x = a \/ x = b \/ x = c
<1> DEFINE q == Three(a, b, c)
           r == Two(b, c)
<1>1. q \in Seq({a, b, c}) BY DEF Three
<1>2. q # <<>> /\ Head(q) = a /\ Tail(q) = r BY ThreeIs
<1>3. Has(r, x) <=> x = b \/ x = c BY TwoHas
<1> HIDE DEF q, r
<1>4. Has(q, x) <=> Head(q) = x \/ Has(Tail(q), x) BY <1>1, <1>2, HasStep
<1>5. Has(q, x) <=> a = x \/ Has(r, x) BY <1>2, <1>4
<1> QED BY <1>3, <1>5 DEF q

LEMMA FourHas ==
    ASSUME NEW a, NEW b, NEW c, NEW d, NEW x
    PROVE  Has(Four(a, b, c, d), x) <=> x = a \/ x = b \/ x = c \/ x = d
<1> DEFINE q == Four(a, b, c, d)
           r == Three(b, c, d)
<1>1. q \in Seq({a, b, c, d}) BY DEF Four
<1>2. q # <<>> /\ Head(q) = a /\ Tail(q) = r BY FourIs
<1>3. Has(r, x) <=> x = b \/ x = c \/ x = d BY ThreeHas
<1> HIDE DEF q, r
<1>4. Has(q, x) <=> Head(q) = x \/ Has(Tail(q), x) BY <1>1, <1>2, HasStep
<1>5. Has(q, x) <=> a = x \/ Has(r, x) BY <1>2, <1>4
<1> QED BY <1>3, <1>5 DEF q

LEMMA FiveHas ==
    ASSUME NEW a, NEW b, NEW c, NEW d, NEW e, NEW x
    PROVE  Has(Five(a, b, c, d, e), x) <=> x = a \/ x = b \/ x = c \/ x = d \/ x = e
<1> DEFINE q == Five(a, b, c, d, e)
           r == Four(b, c, d, e)
<1>1. q \in Seq({a, b, c, d, e}) BY DEF Five
<1>2. q # <<>> /\ Head(q) = a /\ Tail(q) = r BY FiveIs
<1>3. Has(r, x) <=> x = b \/ x = c \/ x = d \/ x = e BY FourHas
<1> HIDE DEF q, r
<1>4. Has(q, x) <=> Head(q) = x \/ Has(Tail(q), x) BY <1>1, <1>2, HasStep
<1>5. Has(q, x) <=> a = x \/ Has(r, x) BY <1>2, <1>4
<1> QED BY <1>3, <1>5 DEF q

LEMMA SixHas ==
    ASSUME NEW a, NEW b, NEW c, NEW d, NEW e, NEW f, NEW x
    PROVE  Has(Six(a, b, c, d, e, f), x) <=> x = a \/ x = b \/ x = c \/ x = d \/ x = e \/ x = f
<1> DEFINE q == Six(a, b, c, d, e, f)
           r == Five(b, c, d, e, f)
<1>1. q \in Seq({a, b, c, d, e, f}) BY DEF Six
<1>2. q # <<>> /\ Head(q) = a /\ Tail(q) = r BY SixIs
<1>3. Has(r, x) <=> x = b \/ x = c \/ x = d \/ x = e \/ x = f BY FiveHas
<1> HIDE DEF q, r
<1>4. Has(q, x) <=> Head(q) = x \/ Has(Tail(q), x) BY <1>1, <1>2, HasStep
<1>5. Has(q, x) <=> a = x \/ Has(r, x) BY <1>2, <1>4
<1> QED BY <1>3, <1>5 DEF q

LEMMA SevenHas ==
    ASSUME NEW a, NEW b, NEW c, NEW d, NEW e, NEW f, NEW g, NEW x
    PROVE  Has(Seven(a, b, c, d, e, f, g), x) <=> x = a \/ x = b \/ x = c \/ x = d \/ x = e \/ x = f \/ x = g
<1> DEFINE q == Seven(a, b, c, d, e, f, g)
           r == Six(b, c, d, e, f, g)
<1>1. q \in Seq({a, b, c, d, e, f, g}) BY DEF Seven
<1>2. q # <<>> /\ Head(q) = a /\ Tail(q) = r BY SevenIs
<1>3. Has(r, x) <=> x = b \/ x = c \/ x = d \/ x = e \/ x = f \/ x = g BY SixHas
<1> HIDE DEF q, r
<1>4. Has(q, x) <=> Head(q) = x \/ Has(Tail(q), x) BY <1>1, <1>2, HasStep
<1>5. Has(q, x) <=> a = x \/ Has(r, x) BY <1>2, <1>4
<1> QED BY <1>3, <1>5 DEF q

\* The steps of a call.
StepNames == {"lock", "trylock", "unlock", "release", "enter", "sleep", "timed sleep", "leave",
              "signal", "one", "broadcast", "handshake", "read", "write", "trywrite", "drop"}

LEMMA NamedSeq ==
    ASSUME NEW S, NEW a \in S
    PROVE  /\ One(a) \in Seq(S)
           /\ \A b \in S : Two(a, b) \in Seq(S)
           /\ \A b, c \in S : Three(a, b, c) \in Seq(S)
           /\ \A b, c, d \in S : Four(a, b, c, d) \in Seq(S)
           /\ \A b, c, d, e \in S : Five(a, b, c, d, e) \in Seq(S)
           /\ \A b, c, d, e, f \in S : Six(a, b, c, d, e, f) \in Seq(S)
           /\ \A b, c, d, e, f, g \in S : Seven(a, b, c, d, e, f, g) \in Seq(S)
<1>1. One(a) \in Seq(S) BY DEF One
<1>2. \A b \in S : Two(a, b) \in Seq(S) BY DEF Two
<1>3. \A b, c \in S : Three(a, b, c) \in Seq(S) BY DEF Three
<1>4. \A b, c, d \in S : Four(a, b, c, d) \in Seq(S) BY DEF Four
<1>5. \A b, c, d, e \in S : Five(a, b, c, d, e) \in Seq(S) BY DEF Five
<1>6. \A b, c, d, e, f \in S : Six(a, b, c, d, e, f) \in Seq(S) BY DEF Six
<1>7. \A b, c, d, e, f, g \in S : Seven(a, b, c, d, e, f, g) \in Seq(S) BY DEF Seven
<1> QED BY <1>1, <1>2, <1>3, <1>4, <1>5, <1>6, <1>7

\* Steps of a call that neither waits nor signals.
Aside(q) == q \in Seq(StepNames) /\ ~Has(q, "handshake") /\ ~Has(q, "leave")

Other == StepNames \ {"handshake", "leave"}

LEMMA AsideIs ==
    /\ Aside(<<>>)
    /\ \A a \in Other : Aside(One(a))
    /\ \A a, b \in Other : Aside(Two(a, b))
    /\ \A a, b, c \in Other : Aside(Three(a, b, c))
<1>1. Aside(<<>>) BY NoneHas DEF Aside
<1>2. ASSUME NEW a \in Other PROVE Aside(One(a))
  <2>1. a \in StepNames /\ a # "handshake" /\ a # "leave" BY DEF Other
  <2> QED BY <2>1, NamedSeq, OneHas DEF Aside
<1>3. ASSUME NEW a \in Other, NEW b \in Other PROVE Aside(Two(a, b))
  <2>1. /\ a \in StepNames /\ a # "handshake" /\ a # "leave"
        /\ b \in StepNames /\ b # "handshake" /\ b # "leave"
    BY DEF Other
  <2>2. Two(a, b) \in Seq(StepNames) BY <2>1, NamedSeq
  <2> QED BY <2>1, <2>2, TwoHas DEF Aside
<1>4. ASSUME NEW a \in Other, NEW b \in Other, NEW c \in Other PROVE Aside(Three(a, b, c))
  <2>1. /\ a \in StepNames /\ a # "handshake" /\ a # "leave"
        /\ b \in StepNames /\ b # "handshake" /\ b # "leave"
        /\ c \in StepNames /\ c # "handshake" /\ c # "leave"
    BY DEF Other
  <2>2. Three(a, b, c) \in Seq(StepNames) BY <2>1, NamedSeq
  <2> QED BY <2>1, <2>2, ThreeHas DEF Aside
<1> QED BY <1>1, <1>2, <1>3, <1>4

\* A thread that waits: its steps are typed, and only the first two of the wait precede it.
LEMMA WaitHas ==
    ASSUME NEW q, NEW s \in Sleeps, NEW e, e = "write" \/ e = "unlock", WaitPhase(q, s, e)
    PROVE  /\ q \in Seq(StepNames) /\ ~Has(q, "handshake") /\ q # <<>>
           /\ \/ Head(q) = "enter" /\ Has(q, "leave")
                 /\ Has(Tail(q), "leave") /\ ~Has(Tail(q), "enter")
              \/ Head(q) = "unlock" \/ Head(q) = "release" \/ Head(q) = s
              \/ Head(q) = "leave" /\ ~Has(q, "enter") /\ ~Has(Tail(q), "leave")
              \/ Head(q) = "lock" /\ ~Has(q, "leave")
<1>1. /\ s # "handshake" /\ s # "enter" /\ s # "leave"
      /\ e # "handshake" /\ e # "enter" /\ e # "leave"
  BY SleepIs
<1> DEFINE N == StepNames
<1>2. /\ s \in N /\ e \in N /\ "enter" \in N /\ "unlock" \in N /\ "leave" \in N
      /\ "lock" \in N /\ "release" \in N
  BY SleepIs DEF StepNames
<1> HIDE DEF N
<1>3. CASE q = Six("enter", "unlock", s, "leave", "lock", e)
  <2> DEFINE r == Five("unlock", s, "leave", "lock", e)
             p == Six("enter", "unlock", s, "leave", "lock", e)
  <2>1. p \in Seq(N) BY <1>2, NamedSeq
  <2>2. p # <<>> /\ Head(p) = "enter" /\ Tail(p) = r BY SixIs
  <2>3. /\ ~Has(p, "handshake") /\ Has(p, "leave") BY <1>1, SixHas
  <2>4. Has(r, "leave") /\ ~Has(r, "enter") BY <1>1, FiveHas
  <2> HIDE DEF p, r
  <2> QED BY <1>3, <2>1, <2>2, <2>3, <2>4 DEF p, N
<1>4. CASE q = Five("unlock", s, "leave", "lock", e) \/ q = Five("release", s, "leave", "lock", e)
  <2>1. ASSUME NEW a, a = "unlock" \/ a = "release", q = Five(a, s, "leave", "lock", e)
        PROVE  q \in Seq(N) /\ ~Has(q, "handshake") /\ q # <<>> /\ Head(q) = a
    <3> DEFINE p == Five(a, s, "leave", "lock", e)
    <3>1. p \in Seq(N) BY <1>2, <2>1, NamedSeq
    <3>2. p # <<>> /\ Head(p) = a BY FiveIs
    <3>3. ~Has(p, "handshake") BY <1>1, <2>1, FiveHas
    <3> HIDE DEF p
    <3> QED BY <2>1, <3>1, <3>2, <3>3 DEF p
  <2> QED BY <1>4, <2>1 DEF N
<1>5. CASE q = Four(s, "leave", "lock", e)
  <2> DEFINE p == Four(s, "leave", "lock", e)
  <2>1. p \in Seq(N) BY <1>2, NamedSeq
  <2>2. p # <<>> /\ Head(p) = s BY FourIs
  <2>3. ~Has(p, "handshake") BY <1>1, FourHas
  <2> HIDE DEF p
  <2> QED BY <1>5, <2>1, <2>2, <2>3 DEF p, N
<1>6. CASE q = Three("leave", "lock", e)
  <2> DEFINE p == Three("leave", "lock", e)
             r == Two("lock", e)
  <2>1. p \in Seq(N) BY <1>2, NamedSeq
  <2>2. p # <<>> /\ Head(p) = "leave" /\ Tail(p) = r BY ThreeIs
  <2>3. ~Has(p, "handshake") /\ ~Has(p, "enter") BY <1>1, ThreeHas
  <2>4. ~Has(r, "leave") BY <1>1, TwoHas
  <2> HIDE DEF p, r
  <2> QED BY <1>6, <2>1, <2>2, <2>3, <2>4 DEF p, N
<1>7. CASE q = Two("lock", e)
  <2> DEFINE p == Two("lock", e)
  <2>1. p \in Seq(N) BY <1>2, NamedSeq
  <2>2. p # <<>> /\ Head(p) = "lock" BY TwoIs
  <2>3. ~Has(p, "handshake") /\ ~Has(p, "leave") BY <1>1, TwoHas
  <2> HIDE DEF p
  <2> QED BY <1>7, <2>1, <2>2, <2>3 DEF p, N
<1> QED BY <1>3, <1>4, <1>5, <1>6, <1>7 DEF WaitPhase

LEMMA ShakingHas ==
    ASSUME NEW q, Shaking(q) \/ Shaken(q)
    PROVE  q \in Seq(StepNames) /\ \A x : Has(q, x) => x = "handshake" \/ x = "unlock"
<1> DEFINE S == {"handshake", "unlock"}
<1>1. q \in Seq(S) BY DEF Shaking, Shaken
<1>2. DOMAIN q = 1..Len(q) /\ \A i \in 1..Len(q) : q[i] \in S BY <1>1
<1>3. q \in Seq(StepNames)
  <2>1. S \subseteq StepNames BY DEF StepNames
  <2> QED BY <1>1, <2>1, SeqMonotonic
<1> QED BY <1>2, <1>3 DEF Has

LEMMA PhaseHas ==
    ASSUME NEW q, NEW who, Phase(q, who)
    PROVE  \/ Aside(q)
           \/ \E s \in Sleeps, e \in {"write", "unlock"} : WaitPhase(q, s, e)
           \/ \E s \in Sleeps : q = Seven("lock", "enter", "unlock", s, "leave", "lock", "unlock")
           \/ q = Three("handshake", "one", "unlock") /\ who = "app" /\ ~SignalUnlocked
           \/ Shaking(q) /\ (who = "rwlock" \/ ~SignalUnlocked)
           \/ SignalUnlocked /\ who = "app" /\ (q = Two("handshake", "one") \/ Shaken(q))
<1> DEFINE N == Other
<1>1. /\ "release" \in N /\ "unlock" \in N /\ "lock" \in N /\ "trylock" \in N /\ "read" \in N
      /\ "write" \in N /\ "trywrite" \in N /\ "drop" \in N /\ "broadcast" \in N /\ "signal" \in N
  BY DEF Other, StepNames
<1> HIDE DEF N
<1>2. /\ Aside(<<>>)
      /\ \A a \in N : Aside(One(a))
      /\ \A a, b \in N : Aside(Two(a, b))
      /\ \A a, b, c \in N : Aside(Three(a, b, c))
  BY AsideIs DEF N
<1>3. CASE who = "rwlock"
  <2>1. "sleep" \in Sleeps BY DEF Sleeps
  <2> QED BY <1>1, <1>2, <1>3, <2>1 DEF Phase, LockPhase, EndPhase
<1>4. CASE who = "app"
  BY <1>1, <1>2, <1>4 DEF Phase, AppPhase, EndPhase
<1> QED BY <1>3, <1>4 DEF Phase

\* A thread between the two sections of SDL_WaitConditionTimeoutNS.
Waits(q) == Has(q, "leave") /\ ~Has(q, "enter")

LEMMA PhaseFirst ==
    ASSUME NEW q, NEW who, Phase(q, who)
    PROVE  /\ q \in Seq(StepNames)
           /\ Has(q, "handshake") => q # <<>> /\ Head(q) = "handshake"
           /\ Waits(q) => /\ q # <<>>
                          /\ \/ Head(q) = "unlock" \/ Head(q) = "release" \/ Head(q) = "sleep"
                             \/ Head(q) = "timed sleep" \/ Head(q) = "leave"
<1>1. CASE Aside(q) BY <1>1 DEF Aside, Waits
<1>2. ASSUME NEW s \in Sleeps, NEW e \in {"write", "unlock"}, WaitPhase(q, s, e)
      PROVE  /\ q \in Seq(StepNames) /\ ~Has(q, "handshake") /\ q # <<>>
             /\ Waits(q) => \/ Head(q) = "unlock" \/ Head(q) = "release" \/ Head(q) = "sleep"
                            \/ Head(q) = "timed sleep" \/ Head(q) = "leave"
  <2>1. e = "write" \/ e = "unlock" BY <1>2
  <2>2. s = "sleep" \/ s = "timed sleep" BY SleepIs
  <2>3. /\ q \in Seq(StepNames) /\ ~Has(q, "handshake") /\ q # <<>>
        /\ \/ Head(q) = "enter" \/ Head(q) = "unlock" \/ Head(q) = "release" \/ Head(q) = s
           \/ Head(q) = "leave" \/ ~Has(q, "leave")
    BY <1>2, <2>1, WaitHas
  <2>4. Head(q) = "enter" => Has(q, "enter") BY <2>3, HasStep
  <2> QED BY <2>2, <2>3, <2>4 DEF Waits
<1>3. ASSUME NEW s \in Sleeps,
             q = Seven("lock", "enter", "unlock", s, "leave", "lock", "unlock")
      PROVE  q \in Seq(StepNames) /\ ~Has(q, "handshake") /\ Has(q, "enter")
  <2> DEFINE p == Seven("lock", "enter", "unlock", s, "leave", "lock", "unlock")
  <2>1. s # "handshake" /\ s \in StepNames BY SleepIs DEF StepNames
  <2>2. "lock" \in StepNames /\ "enter" \in StepNames /\ "unlock" \in StepNames
        /\ "leave" \in StepNames
    BY DEF StepNames
  <2>3. p \in Seq(StepNames) BY <2>1, <2>2, NamedSeq
  <2>4. ~Has(p, "handshake") /\ Has(p, "enter") BY <2>1, SevenHas
  <2> QED BY <1>3, <2>3, <2>4
<1>4. CASE q = Three("handshake", "one", "unlock")
  <2>1. "handshake" \in StepNames /\ "one" \in StepNames /\ "unlock" \in StepNames
    BY DEF StepNames
  <2>2. Three("handshake", "one", "unlock") \in Seq(StepNames) BY <2>1, NamedSeq
  <2>3. ~Has(Three("handshake", "one", "unlock"), "leave") BY ThreeHas
  <2>4. /\ Three("handshake", "one", "unlock") # <<>>
        /\ Head(Three("handshake", "one", "unlock")) = "handshake"
    BY ThreeIs
  <2> QED BY <1>4, <2>2, <2>3, <2>4 DEF Waits
<1>5. CASE q = Two("handshake", "one")
  <2>1. "handshake" \in StepNames /\ "one" \in StepNames BY DEF StepNames
  <2>2. Two("handshake", "one") \in Seq(StepNames) BY <2>1, NamedSeq
  <2>3. ~Has(Two("handshake", "one"), "leave") BY TwoHas
  <2>4. Two("handshake", "one") # <<>> /\ Head(Two("handshake", "one")) = "handshake" BY TwoIs
  <2> QED BY <1>5, <2>2, <2>3, <2>4 DEF Waits
<1>6. CASE Shaking(q) \/ Shaken(q)
  <2>1. q \in Seq(StepNames) /\ ~Has(q, "leave") BY <1>6, ShakingHas
  <2>2. q # <<>> /\ Head(q) = "handshake" BY <1>6, ShakingHead, ShakenHead
  <2> QED BY <2>1, <2>2 DEF Waits
<1>7. \/ Aside(q)
      \/ \E s \in Sleeps, e \in {"write", "unlock"} : WaitPhase(q, s, e)
      \/ \E s \in Sleeps : q = Seven("lock", "enter", "unlock", s, "leave", "lock", "unlock")
      \/ q = Three("handshake", "one", "unlock") \/ Shaking(q)
      \/ q = Two("handshake", "one") \/ Shaken(q)
  BY PhaseHas
<1>8. CASE \E s \in Sleeps, e \in {"write", "unlock"} : WaitPhase(q, s, e)
  BY <1>2, <1>8
<1>9. CASE \E s \in Sleeps : q = Seven("lock", "enter", "unlock", s, "leave", "lock", "unlock")
  BY <1>3, <1>9 DEF Waits
<1> QED BY <1>1, <1>4, <1>5, <1>6, <1>7, <1>8, <1>9

LEMMA InWait ==
    ASSUME NEW q, NEW who, Phase(q, who), q # <<>>, Head(q) = "enter" \/ Head(q) = "leave"
    PROVE  \E s \in Sleeps, e \in {"write", "unlock"} : WaitPhase(q, s, e)
<1>1. ~Shaking(q) /\ ~Shaken(q) BY ShakingHead, ShakenHead
<1>2. "sleep" \in Sleeps BY DEF Sleeps
<1>3. CASE who = "rwlock"
  <2>1. WaitPhase(q, "sleep", "write") BY <1>1, <1>3, LockTable DEF Phase, Row
  <2> QED BY <1>2, <2>1
<1>4. CASE who = "app"
  <2>1. PICK s \in Sleeps : WaitPhase(q, s, "unlock")
    BY <1>1, <1>4, AppTable DEF Phase, Row, SignalRow, UnlockedRow
  <2> QED BY <2>1
<1> QED BY <1>3, <1>4 DEF Phase

LEMMA EntersAndLeaves ==
    ASSUME NEW q, NEW who, Phase(q, who), q # <<>>
    PROVE  /\ Head(q) = "enter" => ~Waits(q) /\ Waits(Tail(q))
           /\ Head(q) = "leave" => Waits(q) /\ ~Waits(Tail(q))
<1>1. q \in Seq(StepNames) BY PhaseFirst
<1>2. ASSUME NEW s \in Sleeps, NEW e \in {"write", "unlock"}, WaitPhase(q, s, e),
             Head(q) = "enter" \/ Head(q) = "leave"
      PROVE  \/ Head(q) = "enter" /\ Has(Tail(q), "leave") /\ ~Has(Tail(q), "enter")
             \/ Head(q) = "leave" /\ ~Has(q, "enter") /\ ~Has(Tail(q), "leave")
  <2>1. e = "write" \/ e = "unlock" BY <1>2
  <2>2. s # "enter" /\ s # "leave" BY SleepIs
  <2> QED BY <1>2, <2>1, <2>2, WaitHas
<1>3. ASSUME Head(q) = "enter" PROVE ~Waits(q) /\ Waits(Tail(q))
  <2>1. Has(q, "enter") BY <1>1, <1>3, HasStep
  <2>2. Has(Tail(q), "leave") /\ ~Has(Tail(q), "enter") BY <1>2, <1>3, InWait
  <2> QED BY <2>1, <2>2 DEF Waits
<1>4. ASSUME Head(q) = "leave" PROVE Waits(q) /\ ~Waits(Tail(q))
  <2>1. Has(q, "leave") BY <1>1, <1>4, HasStep
  <2>2. ~Has(q, "enter") /\ ~Has(Tail(q), "leave") BY <1>2, <1>4, InWait
  <2> QED BY <2>1, <2>2 DEF Waits
<1> QED BY <1>3, <1>4

-----------------------------------------------------------------------------
(* Steps that leave the condition alone.                                   *)

\* A thread that waits for handshakes.
Asks(q) == Has(q, "handshake")

\* Where a thread plainly neither waits nor asks for handshakes.
Off(q) ==
    \/ q = <<>> \/ q = One("unlock") \/ q = Two("unlock", "unlock")
    \/ Head(q) = "lock" \/ Head(q) = "trylock" \/ Head(q) = "enter"
    \/ Head(q) = "signal" \/ Head(q) = "broadcast" \/ Head(q) = "read"
    \/ Head(q) = "write" \/ Head(q) = "trywrite" \/ Head(q) = "drop"

LEMMA OffIs ==
    ASSUME NEW q, NEW who, Phase(q, who), Off(q)
    PROVE  ~Waits(q) /\ ~Asks(q)
<1>1. CASE q = <<>> BY <1>1, NoneHas DEF Waits, Asks
<1>2. CASE q = One("unlock") BY <1>2, OneHas DEF Waits, Asks
<1>3. CASE q = Two("unlock", "unlock") BY <1>3, TwoHas DEF Waits, Asks
<1>4. CASE \/ Head(q) = "lock" \/ Head(q) = "trylock" \/ Head(q) = "enter"
           \/ Head(q) = "signal" \/ Head(q) = "broadcast" \/ Head(q) = "read"
           \/ Head(q) = "write" \/ Head(q) = "trywrite" \/ Head(q) = "drop"
  BY <1>4, PhaseFirst DEF Asks
<1> QED BY <1>1, <1>2, <1>3, <1>4 DEF Off

\* The step that is done does not tell.
LEMMA TailKeeps ==
    ASSUME NEW q, NEW who, Phase(q, who), q # <<>>, Head(q) # "enter", Head(q) # "leave",
           Head(q) # "handshake"
    PROVE  (Waits(Tail(q)) <=> Waits(q)) /\ ~Asks(q) /\ ~Asks(Tail(q))
<1>1. q \in Seq(StepNames) /\ ~Asks(q) BY PhaseFirst DEF Asks
<1>2. \A x : Has(q, x) <=> Head(q) = x \/ Has(Tail(q), x) BY <1>1, HasStep
<1> QED BY <1>1, <1>2 DEF Waits, Asks

LEMMA ReleaseKeeps ==
    ASSUME NEW q, NEW who, Phase(q, who), q # <<>>, Head(q) = "unlock"
    PROVE  LET r == <<"release">> \o Tail(q)
           IN  (Waits(r) <=> Waits(q)) /\ ~Asks(q) /\ ~Asks(r)
<1> DEFINE p == One("release")
           r == p \o Tail(q)
<1>1. /\ p \in Seq(StepNames) /\ \A x : Has(p, x) <=> x = "release"
  <2>1. "release" \in StepNames BY DEF StepNames
  <2> QED BY <2>1, NamedSeq, OneHas
<1>2. Tail(q) \in Seq(StepNames) BY PhaseFirst, HeadTailProperties
<1> HIDE DEF p
<1>3. \A x : Has(r, x) <=> Has(p, x) \/ Has(Tail(q), x) BY <1>1, <1>2, HasConcat
<1>4. (Waits(Tail(q)) <=> Waits(q)) /\ ~Asks(q) /\ ~Asks(Tail(q)) BY TailKeeps
<1>5. (Waits(r) <=> Waits(Tail(q))) /\ ~Asks(r)
  BY <1>1, <1>3, <1>4 DEF Waits, Asks
<1> QED BY <1>4, <1>5 DEF p, One

\* What threads do next when the condition does not change.
Quiet(t) ==
    \/ Calls(t)
    \/ LockMutex(t) \/ TryLockMutex(t) \/ UnlockMutex(t) \/ ReleaseMutex(t) \/ TimeOut(t)
    \/ AddReader(t) \/ TakeForWriting(t) \/ FindReaders(t) \/ UnlockRWLock(t) \/ Drop(t)

LEMMA CallHeads ==
    /\ \A t \in Threads : Calls(t) =>
          /\ todo[t] = <<>>
          /\ \E r : /\ todo' = [todo EXCEPT ![t] = r]
                    /\ Head(r) = "lock" \/ Head(r) = "trylock"
                       \/ Head(r) = "signal" \/ Head(r) = "broadcast"
<1> SUFFICES ASSUME NEW t \in Threads, Calls(t)
             PROVE  /\ todo[t] = <<>>
                    /\ \E r : /\ todo' = [todo EXCEPT ![t] = r]
                              /\ Head(r) = "lock" \/ Head(r) = "trylock"
                                 \/ Head(r) = "signal" \/ Head(r) = "broadcast"
  OBVIOUS
<1>1. ASSUME NEW who, NEW r, Call(t, who, r),
             Head(r) = "lock" \/ Head(r) = "trylock" \/ Head(r) = "signal" \/ Head(r) = "broadcast"
      PROVE  /\ todo[t] = <<>>
             /\ \E r0 : /\ todo' = [todo EXCEPT ![t] = r0]
                        /\ Head(r0) = "lock" \/ Head(r0) = "trylock"
                           \/ Head(r0) = "signal" \/ Head(r0) = "broadcast"
  BY <1>1 DEF Call, Do
<1>7. ASSUME NEW s
      PROVE  LET p == Seven("lock", "enter", "unlock", s, "leave", "lock", "unlock")
             IN  <<"lock">> \o WaitCall(s) \o <<"unlock">> = p /\ Head(p) = "lock"
  <2>1. <<"lock">> \o WaitCall(s) = <<"lock", "enter", "unlock", s, "leave", "lock">>
    BY Concat1And5 DEF WaitCall
  <2> DEFINE p == Seven("lock", "enter", "unlock", s, "leave", "lock", "unlock")
  <2>2. <<"lock">> \o WaitCall(s) \o <<"unlock">> = p BY ZenonT(60), <2>1, Concat6And1 DEF Seven
  <2>3. Head(p) = "lock" BY SevenIs
  <2> QED BY <2>2, <2>3
<1>2. CASE LockRWLockForReading(t)
  <2>1. PICK first \in {"lock", "trylock"} : Call(t, "rwlock", <<first, "read", "unlock">>)
    BY <1>2 DEF LockRWLockForReading
  <2>2. Head(<<first, "read", "unlock">>) = first /\ (first = "lock" \/ first = "trylock")
    OBVIOUS
  <2> DEFINE r == <<first, "read", "unlock">>
  <2>3. Call(t, "rwlock", r) /\ (Head(r) = "lock" \/ Head(r) = "trylock") BY <2>1, <2>2
  <2> HIDE DEF r
  <2> QED BY <1>1, <2>3
<1>3. CASE LockRWLockForWriting(t)
  <2> DEFINE r == <<"lock", "write">>
  <2>1. Call(t, "rwlock", r) /\ Head(r) = "lock" BY <1>3 DEF LockRWLockForWriting
  <2> HIDE DEF r
  <2> QED BY <1>1, <2>1
<1>4. CASE TryLockRWLockForWriting(t)
  <2> DEFINE r == <<"trylock", "trywrite">>
  <2>1. Call(t, "rwlock", r) /\ Head(r) = "trylock" BY <1>4 DEF TryLockRWLockForWriting
  <2> HIDE DEF r
  <2> QED BY <1>1, <2>1
<1>5. CASE AppWaits(t)
  <2>1. PICK s \in {"sleep", "timed sleep"} :
           Call(t, "app", <<"lock">> \o WaitCall(s) \o <<"unlock">>)
    BY <1>5 DEF AppWaits
  <2> DEFINE r == <<"lock">> \o WaitCall(s) \o <<"unlock">>
             p == Seven("lock", "enter", "unlock", s, "leave", "lock", "unlock")
  <2>2. r = p /\ Head(p) = "lock" BY <1>7
  <2>3. Call(t, "app", r) BY <2>1
  <2> HIDE DEF r, p
  <2> QED BY <1>1, <2>2, <2>3
<1>6. CASE AppSignals(t)
  <2>1. PICK how \in Signals :
           Call(t, "app", IF SignalUnlocked THEN <<how>> ELSE <<"lock", how, "unlock">>)
    BY <1>6 DEF AppSignals
  <2>2. how = "signal" \/ how = "broadcast" BY SignalAssumption
  <2> DEFINE r == IF SignalUnlocked THEN <<how>> ELSE <<"lock", how, "unlock">>
  <2>3. Call(t, "app", r) BY <2>1
  <2>4. IF SignalUnlocked THEN Head(r) = how ELSE Head(r) = "lock" OBVIOUS
  <2> HIDE DEF r
  <2> QED BY <1>1, <2>2, <2>3, <2>4
<1> QED BY <1>2, <1>3, <1>4, <1>5, <1>6 DEF Calls

\* A step of the thread t that leaves the condition alone, and what it waits for.
Calm(t) ==
    /\ cond' = cond /\ due' = due
    /\ \A u \in Threads : u # t => todo'[u] = todo[u]
    /\ Waits(todo'[t]) <=> Waits(todo[t])
    /\ ~Asks(todo[t]) /\ ~Asks(todo'[t])

LEMMA QuietStep ==
    ASSUME LockInv, LockInv', NEW t \in Threads, Quiet(t)
    PROVE  Calm(t)
<1> DEFINE q == todo[t]
<1>1. Phase(todo[t], client) /\ Phase(todo'[t], client') BY DEF LockInv, MutexOK
<1>2. todo = [u \in Threads |-> todo[u]] BY DEF LockInv, MutexOK
<1>3. cond' = cond /\ due' = due
  BY DEF Quiet, Calls, LockRWLockForReading, LockRWLockForWriting, TryLockRWLockForWriting,
         AppWaits, AppSignals, Call, LockMutex, TryLockMutex, UnlockMutex, ReleaseMutex, TimeOut,
         AddReader, TakeForWriting, FindReaders, UnlockRWLock, Drop
<1>4. ASSUME NEW r, todo' = [todo EXCEPT ![t] = r]
      PROVE  todo'[t] = r /\ \A u \in Threads : u # t => todo'[u] = todo[u]
  BY <1>2, <1>4
<1>5. ASSUME NEW r, todo' = [todo EXCEPT ![t] = r], Off(q), Off(r) PROVE Calm(t)
  <2>1. todo'[t] = r /\ \A u \in Threads : u # t => todo'[u] = todo[u] BY <1>4, <1>5
  <2>2. ~Waits(todo[t]) /\ ~Asks(todo[t]) BY <1>1, <1>5, OffIs
  <2>3. ~Waits(todo'[t]) /\ ~Asks(todo'[t]) BY <1>1, <1>5, <2>1, OffIs
  <2> QED BY <1>3, <2>1, <2>2, <2>3 DEF Calm
<1>6. ASSUME todo' = [todo EXCEPT ![t] = Tail(q)], q # <<>>,
             Head(q) # "enter", Head(q) # "leave", Head(q) # "handshake"
      PROVE  Calm(t)
  <2>1. todo'[t] = Tail(q) /\ \A u \in Threads : u # t => todo'[u] = todo[u] BY <1>4, <1>6
  <2>2. (Waits(Tail(q)) <=> Waits(q)) /\ ~Asks(q) /\ ~Asks(Tail(q)) BY <1>1, <1>6, TailKeeps
  <2> QED BY <1>3, <2>1, <2>2 DEF Calm
<1>7. CASE Calls(t)
  <2>1. PICK r : /\ todo' = [todo EXCEPT ![t] = r]
                 /\ Head(r) = "lock" \/ Head(r) = "trylock"
                    \/ Head(r) = "signal" \/ Head(r) = "broadcast"
    BY <1>7, CallHeads
  <2>2. todo[t] = <<>> BY <1>7, CallHeads
  <2> QED BY <1>5, <2>1, <2>2 DEF Off
<1>8. CASE LockMutex(t) \/ ReleaseMutex(t) \/ TimeOut(t) \/ AddReader(t)
  <2>1. todo' = [todo EXCEPT ![t] = Tail(q)] /\ q # <<>>
        /\ (Head(q) = "lock" \/ Head(q) = "release" \/ Head(q) = "timed sleep" \/ Head(q) = "read")
    BY <1>8 DEF LockMutex, ReleaseMutex, TimeOut, AddReader, Step, GoOn, Do
  <2> QED BY <1>6, <2>1
<1>9. CASE TryLockMutex(t)
  <2>1. /\ todo' = [todo EXCEPT ![t] = Tail(q)] \/ todo' = [todo EXCEPT ![t] = <<>>]
        /\ q # <<>> /\ Head(q) = "trylock"
    BY <1>9 DEF TryLockMutex, Step, GoOn, Do
  <2> QED BY <1>5, <1>6, <2>1 DEF Off
<1>10. CASE UnlockMutex(t)
  <2> DEFINE r == <<"release">> \o Tail(q)
  <2>1. /\ todo' = [todo EXCEPT ![t] = Tail(q)] \/ todo' = [todo EXCEPT ![t] = r]
        /\ q # <<>> /\ Head(q) = "unlock"
    BY <1>10 DEF UnlockMutex, Step, GoOn, Do
  <2>2. (Waits(r) <=> Waits(q)) /\ ~Asks(q) /\ ~Asks(r) BY <1>1, <2>1, ReleaseKeeps
  <2> HIDE DEF r
  <2>3. CASE todo' = [todo EXCEPT ![t] = r]
    <3>1. todo'[t] = r /\ \A u \in Threads : u # t => todo'[u] = todo[u] BY <1>4, <2>3
    <3> QED BY <1>3, <2>2, <3>1 DEF Calm
  <2> QED BY <1>6, <2>1, <2>3
<1>11. CASE TakeForWriting(t)
  <2>1. /\ todo' = [todo EXCEPT ![t] = <<>>] /\ (Head(q) = "write" \/ Head(q) = "trywrite")
    BY <1>11 DEF TakeForWriting, AddWriter, Step, Do
  <2> QED BY <1>5, <2>1 DEF Off
<1>12. CASE FindReaders(t)
  <2> DEFINE r == WaitCall("sleep") \o <<"write">>
             u == One("unlock")
  <2>1. /\ todo' = [todo EXCEPT ![t] = r] \/ todo' = [todo EXCEPT ![t] = u]
        /\ Head(q) = "write" \/ Head(q) = "trywrite"
    BY <1>12 DEF FindReaders, Step, Do, One
  <2>2. r = Six("enter", "unlock", "sleep", "leave", "lock", "write")
    BY Concat5And1 DEF WaitCall, Six
  <2> HIDE DEF r, u
  <2>3. Head(r) = "enter" BY <2>2, SixIs
  <2>4. Off(r) /\ Off(u) /\ Off(q) BY <2>1, <2>3 DEF Off, u
  <2> QED BY <1>5, <2>1, <2>4
<1>13. CASE UnlockRWLock(t)
  <2> DEFINE r == Two("lock", "drop")
  <2>1. todo' = [todo EXCEPT ![t] = r] /\ q = <<>>
    BY <1>13 DEF UnlockRWLock, Do, Two
  <2>2. Head(r) = "lock" BY TwoIs
  <2> HIDE DEF r
  <2> QED BY <1>5, <2>1, <2>2 DEF Off
<1>14. CASE Drop(t)
  <2> DEFINE r == Two("broadcast", "unlock")
             u == Two("unlock", "unlock")
  <2>1. /\ todo' = [todo EXCEPT ![t] = r] \/ todo' = [todo EXCEPT ![t] = u]
        /\ Head(q) = "drop"
    BY <1>14 DEF Drop, Do, Step, AfterReader, Two
  <2>2. Head(r) = "broadcast" BY TwoIs
  <2> HIDE DEF r, u
  <2>3. Off(r) /\ Off(u) /\ Off(q) BY <2>1, <2>2 DEF Off, u
  <2> QED BY <1>5, <2>1, <2>3
<1> QED BY <1>7, <1>8, <1>9, <1>10, <1>11, <1>12, <1>13, <1>14 DEF Quiet

-----------------------------------------------------------------------------
(* Steps of the condition.                                                 *)

LEMMA WaitingIs ==
    /\ Waiting = {u \in Threads : Waits(todo[u])}
    /\ Waiting' = {u \in Threads : Waits(todo'[u])}
<1>1. \A u \in Threads : "leave" \in Steps(u) /\ "enter" \notin Steps(u) <=> Waits(todo[u])
  BY DEF Waits, Has, Steps
<1>2. \A u \in Threads :
         "leave" \in Steps(u)' /\ "enter" \notin Steps(u)' <=> Waits(todo'[u])
  BY DEF Waits, Has, Steps
<1> QED BY <1>1, <1>2 DEF Waiting

LEMMA AsksHas ==
    ASSUME NEW q, NEW who, Phase(q, who), Asks(q)
    PROVE  /\ ~Has(q, "leave")
           /\ \/ q = Three("handshake", "one", "unlock") \/ q = Two("handshake", "one")
              \/ Shaking(q) \/ Shaken(q)
           /\ ~SignalUnlocked => q = Three("handshake", "one", "unlock") \/ Shaking(q)
<1>1. ~Aside(q) BY DEF Aside, Asks
<1>2. ASSUME NEW s \in Sleeps, NEW e \in {"write", "unlock"} PROVE ~WaitPhase(q, s, e)
  <2>1. e = "write" \/ e = "unlock" OBVIOUS
  <2> QED BY <2>1, WaitHas DEF Asks
<1>3. ASSUME NEW s \in Sleeps, q = Seven("lock", "enter", "unlock", s, "leave", "lock", "unlock")
      PROVE  FALSE
  <2>1. s # "handshake" BY SleepIs
  <2>2. ~Has(Seven("lock", "enter", "unlock", s, "leave", "lock", "unlock"), "handshake")
    BY <2>1, SevenHas
  <2> QED BY <1>3, <2>2 DEF Asks
<1>4. /\ \/ q = Three("handshake", "one", "unlock") \/ q = Two("handshake", "one")
         \/ Shaking(q) \/ Shaken(q)
      /\ ~SignalUnlocked => q = Three("handshake", "one", "unlock") \/ Shaking(q)
  BY <1>1, <1>2, <1>3, PhaseHas
<1>5. ~Has(Three("handshake", "one", "unlock"), "leave") BY ThreeHas
<1>6. ~Has(Two("handshake", "one"), "leave") BY TwoHas
<1>7. Shaking(q) \/ Shaken(q) => ~Has(q, "leave") BY ShakingHas
<1> QED BY <1>4, <1>5, <1>6, <1>7

\* Only t goes on, and it neither begins nor ends to wait.
Stays(t) ==
    /\ \A u \in Threads : u # t => todo'[u] = todo[u]
    /\ Waiting' = Waiting

LEMMA CalmStays ==
    ASSUME NEW t \in Threads, Calm(t)
    PROVE  Stays(t)
<1>1. \A u \in Threads : Waits(todo'[u]) <=> Waits(todo[u]) BY DEF Calm
<1> QED BY <1>1, WaitingIs DEF Calm, Stays

LEMMA DoIs ==
    ASSUME LockInv, NEW t \in Threads, NEW r, todo' = [todo EXCEPT ![t] = r]
    PROVE  todo'[t] = r /\ \A u \in Threads : u # t => todo'[u] = todo[u]
BY DEF LockInv, MutexOK

LEMMA EnterMoves ==
    ASSUME LockInv, NEW t \in Threads, Enter(t)
    PROVE  /\ t \notin Waiting /\ Waiting' = Waiting \cup {t}
           /\ \A u \in Threads : u # t => todo'[u] = todo[u]
           /\ ~Asks(todo[t]) /\ ~Asks(todo'[t])
<1> DEFINE q == todo[t]
<1>1. todo' = [todo EXCEPT ![t] = Tail(q)] /\ q # <<>> /\ Head(q) = "enter"
  BY DEF Enter, Step, GoOn, Do
<1>2. Phase(q, client) BY DEF LockInv, MutexOK
<1>3. todo'[t] = Tail(q) /\ \A u \in Threads : u # t => todo'[u] = todo[u]
  BY <1>1, DoIs
<1>4. ~Waits(q) /\ Waits(Tail(q)) BY <1>1, <1>2, EntersAndLeaves
<1>5. ~Asks(q) /\ q \in Seq(StepNames) BY <1>1, <1>2, PhaseFirst DEF Asks
<1>6. ~Asks(Tail(q)) BY <1>1, <1>5, HasStep DEF Asks
<1> HIDE DEF q
<1>7. Waits(todo'[t]) /\ ~Waits(todo[t]) /\ ~Asks(todo'[t]) /\ ~Asks(todo[t])
  BY <1>3, <1>4, <1>5, <1>6 DEF q
<1>8. \A u \in Threads : u # t => (Waits(todo'[u]) <=> Waits(todo[u])) BY <1>3
<1> QED BY <1>3, <1>7, <1>8, WaitingIs

LEMMA LeaveMoves ==
    ASSUME LockInv, NEW t \in Threads, Leave(t)
    PROVE  /\ t \in Waiting /\ Waiting' = Waiting \ {t}
           /\ \A u \in Threads : u # t => todo'[u] = todo[u]
           /\ ~Asks(todo[t]) /\ ~Asks(todo'[t])
<1> DEFINE q == todo[t]
<1>1. todo' = [todo EXCEPT ![t] = Tail(q)] /\ q # <<>> /\ Head(q) = "leave"
  BY DEF Leave, Step, GoOn, Do
<1>2. Phase(q, client) BY DEF LockInv, MutexOK
<1>3. todo'[t] = Tail(q) /\ \A u \in Threads : u # t => todo'[u] = todo[u]
  BY <1>1, DoIs
<1>4. Waits(q) /\ ~Waits(Tail(q)) BY <1>1, <1>2, EntersAndLeaves
<1>5. ~Asks(q) /\ q \in Seq(StepNames) BY <1>1, <1>2, PhaseFirst DEF Asks
<1>6. ~Asks(Tail(q)) BY <1>1, <1>5, HasStep DEF Asks
<1> HIDE DEF q
<1>7. ~Waits(todo'[t]) /\ Waits(todo[t]) /\ ~Asks(todo'[t]) /\ ~Asks(todo[t])
  BY <1>3, <1>4, <1>5, <1>6 DEF q
<1>8. \A u \in Threads : u # t => (Waits(todo'[u]) <=> Waits(todo[u])) BY <1>3
<1> QED BY <1>3, <1>7, <1>8, WaitingIs

LEMMA TakeSemaphoreMoves ==
    ASSUME LockInv, NEW t \in Threads, TakeSemaphore(t)
    PROVE  Stays(t) /\ ~Asks(todo[t]) /\ ~Asks(todo'[t])
<1> DEFINE q == todo[t]
<1>1. /\ todo' = [todo EXCEPT ![t] = Tail(q)] /\ q # <<>>
      /\ Head(q) = "sleep" \/ Head(q) = "timed sleep"
  BY DEF TakeSemaphore, Step, GoOn, Do
<1>2. Phase(q, client) BY DEF LockInv, MutexOK
<1>3. todo'[t] = Tail(q) /\ \A u \in Threads : u # t => todo'[u] = todo[u]
  BY <1>1, DoIs
<1>4. (Waits(Tail(q)) <=> Waits(q)) /\ ~Asks(q) /\ ~Asks(Tail(q)) BY <1>1, <1>2, TailKeeps
<1>5. \A u \in Threads : Waits(todo'[u]) <=> Waits(todo[u]) BY <1>3, <1>4
<1> QED BY <1>3, <1>4, <1>5, WaitingIs DEF Stays

LEMMA SignalMoves ==
    ASSUME LockInv, CondNumbers, NEW t \in Threads, SignalCondition(t) \/ BroadcastCondition(t)
    PROVE  Stays(t) /\ ~Asks(todo[t])
<1> DEFINE q == todo[t]
           h == [i \in 1..Unsignalled |-> "handshake"]
           m == Two("handshake", "one")
<1>1. /\ q # <<>> /\ (Head(q) = "signal" \/ Head(q) = "broadcast")
      /\ \/ todo' = [todo EXCEPT ![t] = Tail(q)]
         \/ todo' = [todo EXCEPT ![t] = m \o Tail(q)]
         \/ todo' = [todo EXCEPT ![t] = h \o Tail(q)]
  BY DEF SignalCondition, BroadcastCondition, Step, GoOn, Do, Two
<1>2. Phase(q, client) BY DEF LockInv, MutexOK
<1>3. (Waits(Tail(q)) <=> Waits(q)) /\ ~Asks(q) BY <1>1, <1>2, TailKeeps
<1>4. /\ m \in Seq(StepNames) /\ ~Has(m, "leave") /\ ~Has(m, "enter")
      /\ h \in Seq(StepNames) /\ ~Has(h, "leave") /\ ~Has(h, "enter")
  <2>1. "handshake" \in StepNames /\ "one" \in StepNames BY DEF StepNames
  <2>7. Two("handshake", "one") \in Seq(StepNames) BY <2>1, NamedSeq
  <2>2. m \in Seq(StepNames) /\ ~Has(m, "leave") /\ ~Has(m, "enter") BY <2>7, TwoHas
  <2>3. Unsignalled \in Int BY DEF Unsignalled, CondNumbers
  <2>4. h = <<>> \/ Shaken(h) BY <2>3, Handshakes
  <2> HIDE DEF h, m
  <2>5. <<>> \in Seq(StepNames) OBVIOUS
  <2>6. h \in Seq(StepNames) /\ ~Has(h, "leave") /\ ~Has(h, "enter")
    BY <2>4, <2>5, NoneHas, ShakingHas
  <2> QED BY <2>2, <2>6
<1> HIDE DEF h, m
<1>5. Tail(q) \in Seq(StepNames) BY <1>1, <1>2, PhaseFirst, HeadTailProperties
<1>6. (Waits(m \o Tail(q)) <=> Waits(Tail(q))) /\ (Waits(h \o Tail(q)) <=> Waits(Tail(q)))
  BY ZenonT(60), <1>4, <1>5, HasConcat DEF Waits
<1> HIDE DEF q
<1>7. PICK r : todo' = [todo EXCEPT ![t] = r] /\ (Waits(r) <=> Waits(q))
  BY <1>1, <1>3, <1>6
<1>8. todo'[t] = r /\ \A u \in Threads : u # t => todo'[u] = todo[u] BY <1>7, DoIs
<1>9. \A u \in Threads : Waits(todo'[u]) <=> Waits(todo[u]) BY <1>7, <1>8 DEF q
<1> QED BY <1>3, <1>8, <1>9, WaitingIs DEF Stays, q

LEMMA HandshakeMoves ==
    ASSUME LockInv, NEW t \in Threads, TakeHandshake(t)
    PROVE  /\ Stays(t) /\ Asks(todo[t])
           /\ Head(todo[t]) = "handshake" /\ todo'[t] = AfterHandshake(todo[t])
<1> DEFINE q == todo[t]
           r == AfterHandshake(todo[t])
<1>1. todo' = [todo EXCEPT ![t] = r] /\ q # <<>> /\ Head(q) = "handshake"
  BY DEF TakeHandshake, Step, Do, AfterHandshake
<1>2. Phase(q, client) BY DEF LockInv, MutexOK
<1>3. q \in Seq(StepNames) BY <1>2, PhaseFirst
<1>4. Asks(q) BY <1>1, <1>3, HasStep DEF Asks
<1>5. ~Has(q, "leave") BY <1>2, <1>4, AsksHas
<1>6. Tail(q) \in Seq(StepNames) /\ ~Has(Tail(q), "leave")
  BY <1>1, <1>3, <1>5, HasStep, HeadTailProperties
<1>7. ~Has(r, "leave")
  BY <1>6, HasStep DEF AfterHandshake
<1> HIDE DEF q, r
<1>8. ~Waits(q) /\ ~Waits(r) BY <1>5, <1>7 DEF Waits
<1>9. todo'[t] = r /\ \A u \in Threads : u # t => todo'[u] = todo[u] BY <1>1, DoIs
<1>10. \A u \in Threads : Waits(todo'[u]) <=> Waits(todo[u]) BY <1>8, <1>9 DEF q
<1> QED BY <1>1, <1>4, <1>9, <1>10, WaitingIs DEF Stays, q, r

-----------------------------------------------------------------------------
(* The counts of the condition.                                            *)

\* num_waiting counts the waiters, and no more of them are signalled.
CondOK ==
    /\ cond \in [sem : Nat, handshake : Nat, num_waiting : Nat, num_signals : Nat]
    /\ cond.num_waiting = Cardinality(Waiting) /\ cond.num_signals <= cond.num_waiting
    /\ due \in [Threads -> SUBSET Threads] /\ calls \in [Threads -> 0..MaxCalls]

LEMMA WaitingFinite == IsFiniteSet(Waiting) /\ Waiting \subseteq Threads
BY FS_Subset, ThreadsAssumption DEF Waiting

\* Every step is one of these.
LEMMA StepKinds ==
    ASSUME NEW t \in Threads, Calls(t) \/ Continue(t)
    PROVE  \/ Quiet(t)
           \/ /\ calls' = calls
              /\ \/ Enter(t) \/ TakeSemaphore(t) \/ Leave(t) \/ SignalCondition(t)
                 \/ BroadcastCondition(t) \/ TakeHandshake(t)
BY DEF Continue, CondStep, Quiet

LEMMA CallsStep ==
    ASSUME NEW t \in Threads, Calls(t) \/ Continue(t), calls \in [Threads -> 0..MaxCalls]
    PROVE  calls' \in [Threads -> 0..MaxCalls]
<1>1. CASE calls' = calls BY <1>1
<1>2. CASE calls[t] < MaxCalls /\ calls' = [calls EXCEPT ![t] = @ + 1]
  BY <1>2, BoundAssumption
<1>3. Calls(t) => calls[t] < MaxCalls /\ calls' = [calls EXCEPT ![t] = @ + 1]
  BY DEF Calls, LockRWLockForReading, LockRWLockForWriting, TryLockRWLockForWriting, AppWaits,
         AppSignals, Call
<1>4. Continue(t) => calls' = calls
  BY DEF Continue, AddReader, TakeForWriting, FindReaders, UnlockRWLock, Drop
<1> QED BY <1>1, <1>2, <1>3, <1>4

LEMMA CondStepOK ==
    ASSUME CondOK, LockInv, LockInv', CondNumbers, [Next]_vars
    PROVE  CondOK'
<1>1. CASE UNCHANGED vars
  <2>1. Waiting' = Waiting BY <1>1 DEF Waiting, Steps, vars, condVars
  <2> QED BY <1>1, <2>1 DEF CondOK, vars, condVars
<1> SUFFICES ASSUME NEW t \in Threads, Calls(t) \/ Continue(t) PROVE CondOK'
  BY <1>1 DEF Next
<1>2. calls' \in [Threads -> 0..MaxCalls] BY CallsStep DEF CondOK
<1>3. /\ cond.sem \in Nat /\ cond.handshake \in Nat /\ cond.num_waiting \in Nat
      /\ cond.num_signals \in Nat /\ cond.num_signals <= cond.num_waiting
      /\ cond.num_waiting = Cardinality(Waiting) /\ due \in [Threads -> SUBSET Threads]
  BY DEF CondOK
<1>4. CASE Quiet(t)
  <2>1. Calm(t) BY <1>4, QuietStep
  <2>2. Waiting' = Waiting BY <2>1, CalmStays DEF Stays
  <2> QED BY <1>2, <2>1, <2>2 DEF CondOK, Calm
<1>5. CASE Enter(t)
  <2>1. t \notin Waiting /\ Waiting' = Waiting \cup {t} BY <1>5, EnterMoves
  <2>2. Cardinality(Waiting') = Cardinality(Waiting) + 1 BY <2>1, WaitingFinite, FS_AddElement
  <2> DEFINE n == cond.num_waiting + 1
  <2>3. n \in Nat /\ n = Cardinality(Waiting') /\ cond.num_signals <= n BY <1>3, <2>2
  <2>4. cond' = [cond EXCEPT !.num_waiting = n] /\ due' = due BY <1>5 DEF Enter
  <2> HIDE DEF n
  <2> QED BY <1>2, <2>3, <2>4 DEF CondOK
<1>6. CASE TakeSemaphore(t)
  <2>1. Waiting' = Waiting BY <1>6, TakeSemaphoreMoves DEF Stays
  <2> DEFINE n == cond.sem - 1
  <2>4. cond.sem > 0 BY <1>6 DEF TakeSemaphore
  <2>2. n \in Nat BY <1>3, <2>4
  <2>3. cond' = [cond EXCEPT !.sem = n] /\ due' = due BY <1>6 DEF TakeSemaphore
  <2> HIDE DEF n
  <2> QED BY <1>2, <2>1, <2>2, <2>3 DEF CondOK
<1>7. CASE Leave(t)
  <2>1. t \in Waiting /\ Waiting' = Waiting \ {t} BY <1>7, LeaveMoves
  <2>2. Cardinality(Waiting') = Cardinality(Waiting) - 1
    BY <2>1, WaitingFinite, FS_RemoveElement
  <2>3. Cardinality(Waiting') \in Nat
    BY <2>1, WaitingFinite, FS_Subset, FS_CardinalityType
  <2> DEFINE h == cond.handshake + 1
             s == cond.num_signals - 1
             w == cond.num_waiting - 1
  <2>4. /\ h \in Nat /\ w \in Nat /\ w = Cardinality(Waiting')
        /\ IF cond.num_signals > 0 THEN s \in Nat /\ s <= w
           ELSE cond.num_signals <= w
    BY <1>3, <2>2, <2>3
  <2>5. /\ cond' = IF cond.num_signals > 0
                   THEN [cond EXCEPT !.handshake = h, !.num_signals = s, !.num_waiting = w]
                   ELSE [cond EXCEPT !.num_waiting = w]
        /\ due' = DueWithout(t)
    BY <1>7 DEF Leave, AfterWait
  <2>6. due' \in [Threads -> SUBSET Threads] BY <1>3, <2>5 DEF DueWithout
  <2> HIDE DEF h, s, w
  <2>7. CASE cond.num_signals > 0
    <3>1. cond' = [cond EXCEPT !.handshake = h, !.num_signals = s, !.num_waiting = w]
          /\ h \in Nat /\ w \in Nat /\ s \in Nat /\ s <= w /\ w = Cardinality(Waiting')
      BY <2>4, <2>5, <2>7
    <3>2. /\ cond' \in [sem : Nat, handshake : Nat, num_waiting : Nat, num_signals : Nat]
          /\ cond'.num_waiting = w /\ cond'.num_signals = s
      BY <3>1 DEF CondOK
    <3> QED BY <1>2, <2>6, <3>1, <3>2 DEF CondOK
  <2>8. CASE ~(cond.num_signals > 0)
    <3>1. cond' = [cond EXCEPT !.num_waiting = w]
          /\ w \in Nat /\ cond.num_signals <= w /\ w = Cardinality(Waiting')
      BY <2>4, <2>5, <2>8
    <3>2. /\ cond' \in [sem : Nat, handshake : Nat, num_waiting : Nat, num_signals : Nat]
          /\ cond'.num_waiting = w /\ cond'.num_signals = cond.num_signals
      BY <3>1 DEF CondOK
    <3> QED BY <1>2, <2>6, <3>1, <3>2 DEF CondOK
  <2> QED BY <2>7, <2>8
<1>8. CASE SignalCondition(t) \/ BroadcastCondition(t)
  <2>1. Waiting' = Waiting BY <1>8, SignalMoves DEF Stays
  <2>2. Unsignalled \in Nat /\ Unsignalled = cond.num_waiting - cond.num_signals
    BY <1>3 DEF Unsignalled
  <2>3. \E n \in Nat : n <= Unsignalled /\ Signal(t, n)
    BY <1>8, <2>2 DEF SignalCondition, BroadcastCondition
  <2>4. PICK n \in Nat : n <= Unsignalled /\ Signal(t, n) BY <2>3
  <2> DEFINE s == cond.num_signals + n
             e == cond.sem + n
  <2>5. s \in Nat /\ e \in Nat /\ s <= cond.num_waiting BY <1>3, <2>2, <2>4
  <2>6. /\ cond' = [cond EXCEPT !.num_signals = s, !.sem = e]
        /\ due' = [due EXCEPT ![t] = IF n = 0 THEN {} ELSE Waiting]
    BY <2>4 DEF Signal
  <2> HIDE DEF s, e
  <2>7. due' \in [Threads -> SUBSET Threads] BY <1>3, <2>6, WaitingFinite
  <2>8. /\ cond' \in [sem : Nat, handshake : Nat, num_waiting : Nat, num_signals : Nat]
        /\ cond'.num_waiting = cond.num_waiting /\ cond'.num_signals = s
    BY <2>5, <2>6 DEF CondOK
  <2> QED BY <1>2, <1>3, <2>1, <2>5, <2>7, <2>8 DEF CondOK
<1>9. CASE TakeHandshake(t)
  <2>1. Waiting' = Waiting BY <1>9, HandshakeMoves DEF Stays
  <2> DEFINE n == cond.handshake - 1
  <2>2. n \in Nat BY <1>3, <1>9 DEF TakeHandshake
  <2>3. cond' = [cond EXCEPT !.handshake = n] /\ due' = due BY <1>9 DEF TakeHandshake
  <2> HIDE DEF n
  <2> QED BY <1>2, <2>1, <2>2, <2>3 DEF CondOK
<1> QED BY <1>4, <1>5, <1>6, <1>7, <1>8, <1>9, StepKinds

LEMMA CondAlways == Spec => [](LockInv /\ CondOK)
<1>1. Init => CondOK
  <2> SUFFICES ASSUME Init PROVE CondOK
    OBVIOUS
  <2>1. \A t \in Threads : todo[t] = <<>> BY DEF Init, CondInit
  <2>2. Waiting = {} BY <2>1, WaitingIs, NoneHas DEF Waits
  <2> QED BY <2>2, FS_EmptySet, BoundAssumption DEF CondOK, Init, CondInit
<1>2. CondOK /\ LockInv /\ LockInv' /\ CondNumbers /\ [Next]_vars => CondOK'
  BY CondStepOK
<1> QED BY <1>1, <1>2, LockAlways, PTL DEF Spec

\* The state has its types: as many threads wait as num_waiting says, and no more are signalled.
THEOREM LockTypeCorrect == Spec => []TypeOK
<1>1. LockInv /\ CondOK => TypeOK
  <2> SUFFICES ASSUME LockInv, CondOK PROVE TypeOK
    OBVIOUS
  <2>1. cond.num_waiting \in Count /\ cond.num_signals \in Count
    <3>1. Cardinality(Threads) \in Nat /\ Cardinality(Waiting) <= Cardinality(Threads)
      BY ThreadsAssumption, WaitingFinite, FS_Subset, FS_CardinalityType
    <3> QED BY <3>1 DEF CondOK, Count
  <2>2. cond \in [sem : Nat, handshake : Nat, num_waiting : Count, num_signals : Count]
    BY <2>1 DEF CondOK
  <2>3. todo \in [Threads -> Seq(StepNames)]
    <3>1. \A t \in Threads : todo[t] \in Seq(StepNames) BY PhaseFirst DEF LockInv, MutexOK
    <3>2. todo = [t \in Threads |-> todo[t]] BY DEF LockInv, MutexOK
    <3> QED BY <3>1, <3>2
  <2>4. holds \in [Threads -> [read : Nat, write : Nat]]
    <3>1. [read : Nat, write : 0..1] \subseteq [read : Nat, write : Nat] OBVIOUS
    <3> QED BY <3>1 DEF LockInv, HoldsOK
  <2>5. rwlock.reader_count \in Nat /\ rwlock.writer_count \in 0..1 BY DEF LockInv, HoldsOK
  <2>6. /\ mutex \in [owner : Threads \cup {NoThread}, recursive : 0..1, sem : 0..1]
        /\ client \in {"rwlock", "app"}
    BY DEF LockInv, MutexOK
  <2>7. /\ cond.num_signals <= cond.num_waiting /\ due \in [Threads -> SUBSET Threads]
        /\ calls \in [Threads -> 0..MaxCalls]
    BY DEF CondOK
  <2> HIDE DEF StepNames
  <2> QED BY <2>2, <2>3, <2>4, <2>5, <2>6, <2>7 DEF TypeOK, StepNames
<1> QED BY <1>1, CondAlways, PTL

-----------------------------------------------------------------------------
(* A signaller that has the mutex releases the waiters it found.           *)

NoneSignalled == cond.num_signals = 0 /\ cond.handshake = 0

\* A signal that waits for its handshake: the waiter has still to be released, by a semaphore
\* that any of those may take that waited, or has left.
OneLeft(t) ==
    /\ todo[t] = Three("handshake", "one", "unlock")
    /\ cond.num_signals + cond.handshake = 1
    /\ due[t] = IF cond.num_signals = 1 THEN Waiting ELSE {}

\* A broadcast that waits for as many handshakes as there are waiters, all of them signalled.
AllLeft(t) ==
    /\ Shaking(todo[t])
    /\ cond.num_signals + cond.handshake = Len(todo[t]) - 1
    /\ cond.num_signals = cond.num_waiting
    /\ due[t] = Waiting

Served(t) == OneLeft(t) \/ AllLeft(t)

ReleaseOK ==
    /\ (\A t \in Threads : ~Asks(todo[t])) => NoneSignalled
    /\ \A t \in Threads : IF Asks(todo[t]) THEN Served(t) ELSE due[t] = {}

\* Who asks has the mutex.
LEMMA AskerOwns ==
    ASSUME LockInv, ~SignalUnlocked, NEW u \in Threads,
           Asks(todo[u]) \/ (todo[u] # <<>> /\ (Head(todo[u]) = "enter"
                             \/ Head(todo[u]) = "signal" \/ Head(todo[u]) = "broadcast"))
    PROVE  mutex.owner = u /\ \A v \in Threads : Asks(todo[v]) => v = u
<1>1. ASSUME NEW v \in Threads, Asks(todo[v]) PROVE mutex.owner = v
  <2>1. todo[v] # <<>> /\ Head(todo[v]) = "handshake"
    BY <1>1, PhaseFirst DEF LockInv, MutexOK, Asks
  <2> QED BY <2>1 DEF Inside, LockInv, MutexOK
<1>2. mutex.owner = u BY <1>1 DEF Inside, LockInv, MutexOK
<1> QED BY <1>1, <1>2

\* Where nobody asks after the step.
LEMMA NobodyAsks ==
    ASSUME \A u \in Threads : ~Asks(todo'[u]) /\ due'[u] = {}, NoneSignalled'
    PROVE  ReleaseOK'
BY DEF ReleaseOK

LEMMA SameServed ==
    ASSUME ReleaseOK, NEW t \in Threads, Stays(t), ~Asks(todo[t]), ~Asks(todo'[t]), due' = due,
           cond'.num_signals = cond.num_signals, cond'.handshake = cond.handshake,
           cond'.num_waiting = cond.num_waiting
    PROVE  ReleaseOK'
<1>1. \A u \in Threads : Asks(todo'[u]) <=> Asks(todo[u]) BY DEF Stays
<1>2. ASSUME NEW u \in Threads, Asks(todo[u]), Served(u) PROVE Served(u)'
  <2>1. todo'[u] = todo[u] /\ Waiting' = Waiting BY <1>2 DEF Stays
  <2> QED BY <1>2, <2>1 DEF Served, OneLeft, AllLeft
<1> QED BY <1>1, <1>2 DEF ReleaseOK, NoneSignalled

LEMMA LeaveServed ==
    ASSUME ReleaseOK, CondOK, LockInv, ~SignalUnlocked, NEW t \in Threads, Leave(t)
    PROVE  ReleaseOK'
<1>1. /\ t \in Waiting /\ Waiting' = Waiting \ {t}
      /\ \A u \in Threads : u # t => todo'[u] = todo[u]
      /\ ~Asks(todo[t]) /\ ~Asks(todo'[t])
  BY LeaveMoves
<1>2. \A u \in Threads : Asks(todo'[u]) <=> Asks(todo[u]) BY <1>1
<1>3. /\ cond.num_signals \in Nat /\ cond.handshake \in Nat /\ cond.num_waiting \in Nat
      /\ cond.num_waiting > 0
  <2>1. Waiting # {} BY <1>1
  <2>2. Cardinality(Waiting) # 0 BY <2>1, WaitingFinite, FS_EmptySet
  <2> QED BY <2>2 DEF CondOK
<1>4. IF cond.num_signals > 0
      THEN /\ cond'.num_signals = cond.num_signals - 1 /\ cond'.handshake = cond.handshake + 1
           /\ cond'.num_waiting = cond.num_waiting - 1
      ELSE cond'.num_signals = cond.num_signals /\ cond'.handshake = cond.handshake
  <2> DEFINE h == cond.handshake + 1
             s == cond.num_signals - 1
             w == cond.num_waiting - 1
  <2>1. cond' = IF cond.num_signals > 0
                THEN [cond EXCEPT !.handshake = h, !.num_signals = s, !.num_waiting = w]
                ELSE [cond EXCEPT !.num_waiting = w]
    BY DEF Leave, AfterWait
  <2> HIDE DEF h, s, w
  <2>2. IF cond.num_signals > 0
        THEN cond'.num_signals = s /\ cond'.handshake = h /\ cond'.num_waiting = w
        ELSE cond'.num_signals = cond.num_signals /\ cond'.handshake = cond.handshake
    <3>1. CASE cond.num_signals > 0 BY <2>1, <3>1 DEF CondOK
    <3>2. CASE ~(cond.num_signals > 0) BY <2>1, <3>2 DEF CondOK
    <3> QED BY <3>1, <3>2
  <2> QED BY <2>2 DEF h, s, w
<1>5. \A u \in Threads :
         /\ Has(todo[u], "one") /\ t \in due[u] => due'[u] = {}
         /\ ~Has(todo[u], "one") => due'[u] = due[u] \ {t}
         /\ due[u] = {} => due'[u] = {}
  <2>1. \A u \in Threads : due'[u] = IF t \in due[u] /\ "one" \in Steps(u) THEN {} ELSE due[u] \ {t}
    BY DEF Leave, DueWithout
  <2>2. \A u \in Threads : "one" \in Steps(u) <=> Has(todo[u], "one") BY DEF Steps, Has
  <2> QED BY <2>1, <2>2
<1>6. CASE \A u \in Threads : ~Asks(todo[u])
  <2>1. NoneSignalled /\ \A u \in Threads : due[u] = {} BY <1>6 DEF ReleaseOK
  <2>2. NoneSignalled' BY <1>4, <2>1 DEF NoneSignalled
  <2> QED BY <1>2, <1>5, <1>6, <2>1, <2>2, NobodyAsks
<1>7. ASSUME NEW u \in Threads, Asks(todo[u]) PROVE Served(u)'
  <2>1. Served(u) /\ todo'[u] = todo[u] BY <1>1, <1>7 DEF ReleaseOK
  <2>2. CASE OneLeft(u)
    <3>1. Has(todo[u], "one") BY <2>2, ThreeHas DEF OneLeft
    <3>2. /\ cond.num_signals + cond.handshake = 1
          /\ due[u] = IF cond.num_signals = 1 THEN Waiting ELSE {}
      BY <2>2 DEF OneLeft
    <3>3. cond'.num_signals = 0 /\ cond'.num_signals + cond'.handshake = 1
      <4>1. CASE cond.num_signals = 1
        <5>1. cond.handshake = 0 BY <1>3, <3>2, <4>1
        <5> QED BY <1>4, <4>1, <5>1
      <4>2. CASE cond.num_signals = 0
        <5>1. cond.handshake = 1 BY <1>3, <3>2, <4>2
        <5> QED BY <1>4, <4>2, <5>1
      <4> QED BY <1>3, <3>2, <4>1, <4>2
    <3>4. due'[u] = {} BY <1>1, <1>5, <3>1, <3>2
    <3>5. todo'[u] = Three("handshake", "one", "unlock") BY <2>1, <2>2 DEF OneLeft
    <3> QED BY <3>3, <3>4, <3>5 DEF Served, OneLeft
  <2>3. CASE AllLeft(u)
    <3>1. ~Has(todo[u], "one") BY <2>3, ShakingHas DEF AllLeft
    <3>2. /\ Shaking(todo[u]) /\ cond.num_signals + cond.handshake = Len(todo[u]) - 1
          /\ cond.num_signals = cond.num_waiting /\ due[u] = Waiting
      BY <2>3 DEF AllLeft
    <3>5. /\ cond'.num_signals = cond.num_signals - 1 /\ cond'.handshake = cond.handshake + 1
          /\ cond'.num_waiting = cond.num_waiting - 1
      BY <1>3, <1>4, <3>2
    <3>3. /\ cond'.num_signals + cond'.handshake = cond.num_signals + cond.handshake
          /\ cond'.num_signals = cond'.num_waiting
      <4>1. cond.num_signals = cond.num_waiting BY <3>2
      <4> QED BY <1>3, <3>5, <4>1
    <3>4. due'[u] = Waiting' BY <1>1, <1>5, <3>1, <3>2
    <3> QED BY <2>1, <3>2, <3>3, <3>4 DEF Served, AllLeft
  <2> QED BY <2>1, <2>2, <2>3 DEF Served
<1>8. \A u \in Threads : ~Asks(todo[u]) => due'[u] = {} BY <1>5 DEF ReleaseOK
<1> QED BY <1>2, <1>6, <1>7, <1>8 DEF ReleaseOK

LEMMA SignalServed ==
    ASSUME ReleaseOK, CondOK, LockInv, CondNumbers, ~SignalUnlocked, NEW t \in Threads,
           SignalCondition(t) \/ BroadcastCondition(t)
    PROVE  ReleaseOK'
<1> DEFINE q == todo[t]
           m == <<"handshake", "one">>
           h == [i \in 1..Unsignalled |-> "handshake"]
<1>1. /\ q # <<>> /\ (Head(q) = "signal" \/ Head(q) = "broadcast")
      /\ Phase(q, client)
  BY DEF SignalCondition, BroadcastCondition, Step, LockInv, MutexOK
<1>2. \A u \in Threads : Asks(todo[u]) => u = t BY <1>1, AskerOwns
<1>3. Stays(t) /\ ~Asks(todo[t]) BY SignalMoves
<1>4. \A u \in Threads : ~Asks(todo[u]) /\ due[u] = {} BY <1>2, <1>3 DEF ReleaseOK
<1>5. cond.num_signals = 0 /\ cond.handshake = 0 BY <1>4 DEF ReleaseOK, NoneSignalled
<1>6. cond.num_waiting \in Nat /\ cond.sem \in Nat /\ Unsignalled = cond.num_waiting
  BY <1>5 DEF Unsignalled, CondOK
<1>7. ASSUME NEW n \in Nat, Signal(t, n)
      PROVE  /\ cond'.num_signals = n /\ cond'.handshake = 0
             /\ cond'.num_waiting = cond.num_waiting
             /\ due'[t] = IF n = 0 THEN {} ELSE Waiting
             /\ \A u \in Threads : u # t => due'[u] = {}
  <2> DEFINE s == cond.num_signals + n
             e == cond.sem + n
  <2>1. /\ cond' = [cond EXCEPT !.num_signals = s, !.sem = e]
        /\ due' = [due EXCEPT ![t] = IF n = 0 THEN {} ELSE Waiting]
    BY <1>7 DEF Signal
  <2>2. s = n BY <1>5
  <2> HIDE DEF s, e
  <2>3. cond'.num_signals = s /\ cond'.handshake = 0 /\ cond'.num_waiting = cond.num_waiting
    BY <1>5, <2>1 DEF CondOK
  <2>4. /\ due'[t] = IF n = 0 THEN {} ELSE Waiting
        /\ \A u \in Threads : u # t => due'[u] = {}
    BY <1>4, <2>1 DEF CondOK
  <2> QED BY <2>2, <2>3, <2>4
<1>8. \A u \in Threads : u # t => todo'[u] = todo[u] /\ ~Asks(todo'[u]) BY <1>3, <1>4 DEF Stays
<1>9. ASSUME Signal(t, 0), ~Asks(todo'[t]) PROVE ReleaseOK'
  <2>1. \A u \in Threads : ~Asks(todo'[u]) /\ due'[u] = {} BY <1>7, <1>8, <1>9
  <2>2. NoneSignalled' BY <1>7, <1>9 DEF NoneSignalled
  <2> QED BY <2>1, <2>2, NobodyAsks
<1>10. ASSUME Asks(todo'[t]), Served(t)', NEW n \in Nat, Signal(t, n) PROVE ReleaseOK'
  BY <1>7, <1>8, <1>10 DEF ReleaseOK
<1>11. Waiting' = Waiting BY <1>3 DEF Stays
<1>12. CASE SignalCondition(t) /\ Unsignalled > 0
  <2> DEFINE p == Three("handshake", "one", "unlock")
  <2>1. Signal(t, 1) /\ todo' = [todo EXCEPT ![t] = m \o Tail(q)] /\ Head(q) = "signal"
    BY <1>12 DEF SignalCondition, Do, Step
  <2>2. Tail(q) = One("unlock") BY <1>1, <2>1, AtSignal
  <2>3. m \o Tail(q) = p BY <2>2, Concat2And1 DEF One, Three
  <2>4. Asks(p) BY ThreeHas DEF Asks
  <2> HIDE DEF p, m, q
  <2>5. todo'[t] = p BY <2>1, <2>3, DoIs
  <2>6. cond'.num_signals = 1 /\ cond'.handshake = 0 /\ due'[t] = Waiting BY <1>7, <2>1
  <2>7. OneLeft(t)' BY <1>11, <2>5, <2>6 DEF OneLeft, p
  <2> QED BY <1>10, <2>1, <2>4, <2>5, <2>7 DEF Served
<1>13. CASE SignalCondition(t) /\ ~(Unsignalled > 0)
  <2>1. Signal(t, 0) /\ todo' = [todo EXCEPT ![t] = Tail(q)] /\ Head(q) = "signal"
    BY <1>13 DEF SignalCondition, Do, GoOn, Step
  <2>2. ~Asks(Tail(q)) BY <1>1, <2>1, TailKeeps
  <2> HIDE DEF q
  <2>3. ~Asks(todo'[t]) BY <2>1, <2>2, DoIs
  <2> QED BY <1>9, <2>1, <2>3
<1>14. CASE BroadcastCondition(t)
  <2> DEFINE r == h \o Tail(q)
             n == cond.num_waiting
  <2>1. Signal(t, n) /\ todo' = [todo EXCEPT ![t] = r] /\ Head(q) = "broadcast"
    BY <1>6, <1>14 DEF BroadcastCondition, Do, Step
  <2>2. Unsignalled \in Int BY <1>6
  <2>3. Tail(q) = One("unlock") BY <1>1, <2>1, <2>2, AtBroadcast
  <2>4. IF Unsignalled > 0 THEN Shaking(r) /\ Len(r) = Unsignalled + 1 ELSE r = One("unlock")
    BY <2>2, <2>3, Handshakes
  <2> HIDE DEF q, h, r
  <2>5. todo'[t] = r BY <2>1, DoIs
  <2>6. CASE n = 0
    <3>1. ~Asks(todo'[t]) BY <1>6, <2>4, <2>5, <2>6, OneHas DEF Asks
    <3> QED BY <1>9, <2>1, <2>6, <3>1
  <2>7. CASE n # 0
    <3>1. Shaking(r) /\ Len(r) = n + 1 BY <1>6, <2>4, <2>7
    <3>2. r \in Seq(StepNames) /\ r # <<>> /\ Head(r) = "handshake"
      BY <3>1, ShakingHas, ShakingHead
    <3>3. Asks(r) BY <3>2, HasStep DEF Asks
    <3>4. /\ cond'.num_signals = n /\ cond'.handshake = 0 /\ cond'.num_waiting = n
          /\ due'[t] = Waiting
      BY <1>6, <1>7, <2>1, <2>7
    <3>5. cond'.num_signals + cond'.handshake = Len(r) - 1 BY <1>6, <3>1, <3>4
    <3>6. AllLeft(t)' BY <1>11, <2>5, <3>1, <3>4, <3>5 DEF AllLeft
    <3> QED BY <1>6, <1>10, <2>1, <2>5, <3>3, <3>6 DEF Served
  <2> QED BY <2>6, <2>7
<1> QED BY <1>12, <1>13, <1>14

LEMMA HandshakeServed ==
    ASSUME ReleaseOK, CondOK, LockInv, ~SignalUnlocked, NEW t \in Threads, TakeHandshake(t)
    PROVE  ReleaseOK'
<1> DEFINE q == todo[t]
<1>1. Stays(t) /\ Asks(todo[t]) /\ todo'[t] = AfterHandshake(q) BY HandshakeMoves
<1>2. \A u \in Threads : Asks(todo[u]) => u = t BY <1>1, AskerOwns
<1>3. /\ \A u \in Threads : u # t => ~Asks(todo'[u]) /\ due[u] = {}
      /\ Served(t) /\ Waiting' = Waiting
  BY <1>1, <1>2 DEF Stays, ReleaseOK
<1>4. /\ cond.num_signals \in Nat /\ cond.handshake \in Nat /\ cond.handshake > 0
      /\ due' = due /\ cond'.num_signals = cond.num_signals
      /\ cond'.num_waiting = cond.num_waiting /\ cond'.handshake = cond.handshake - 1
  <2> DEFINE n == cond.handshake - 1
  <2>1. cond' = [cond EXCEPT !.handshake = n] /\ due' = due /\ cond.handshake > 0
    BY DEF TakeHandshake
  <2> HIDE DEF n
  <2>2. /\ cond'.num_signals = cond.num_signals /\ cond'.num_waiting = cond.num_waiting
        /\ cond'.handshake = n
    BY <2>1 DEF CondOK
  <2> QED BY <2>1, <2>2 DEF CondOK, n
<1>5. ASSUME todo'[t] = One("unlock"), cond.num_signals = 0, cond.handshake = 1, due[t] = {}
      PROVE  ReleaseOK'
  <2>1. ~Asks(todo'[t]) BY <1>5, OneHas DEF Asks
  <2>2. \A u \in Threads : ~Asks(todo'[u]) /\ due'[u] = {} BY <1>3, <1>4, <1>5, <2>1
  <2>3. NoneSignalled' BY <1>4, <1>5 DEF NoneSignalled
  <2> QED BY <2>2, <2>3, NobodyAsks
<1>6. CASE OneLeft(t)
  <2> DEFINE p == Three("handshake", "one", "unlock")
             r == Two("one", "unlock")
  <2>1. q = p BY <1>6 DEF OneLeft
  <2>2. Tail(p) = r BY ThreeIs
  <2>3. r # <<>> /\ Head(r) = "one" /\ Tail(r) = One("unlock") BY TwoIs
  <2> HIDE DEF p, r, q
  <2>4. AfterHandshake(q) = One("unlock") BY <2>1, <2>2, <2>3 DEF AfterHandshake
  <2>5. cond.num_signals = 0 /\ cond.handshake = 1 /\ due[t] = {}
    BY <1>4, <1>6 DEF OneLeft
  <2> QED BY <1>1, <1>5, <2>4, <2>5
<1>7. CASE AllLeft(t)
  <2>1. /\ Shaking(q) /\ cond.num_signals + cond.handshake = Len(q) - 1
        /\ cond.num_signals = cond.num_waiting /\ due[t] = Waiting
    BY <1>7 DEF AllLeft
  <2>2. /\ Len(Tail(q)) = Len(q) - 1 /\ Len(q) \in Nat
        /\ IF Len(q) = 2 THEN Tail(q) = One("unlock") ELSE Shaking(Tail(q))
    BY <2>1, ShakingHead
  <2> HIDE DEF q
  <2>3. CASE Len(q) = 2
    <3>1. One("unlock") # <<>> /\ Head(One("unlock")) = "unlock" BY OneIs
    <3>2. AfterHandshake(q) = One("unlock") BY <2>2, <2>3, <3>1 DEF AfterHandshake
    <3>3. cond.num_signals = 0 /\ cond.handshake = 1 BY <1>4, <2>1, <2>3
    <3>4. Waiting = {} BY <2>1, <3>3, WaitingFinite, FS_EmptySet DEF CondOK
    <3> QED BY <1>1, <1>5, <2>1, <3>2, <3>3, <3>4
  <2>4. CASE Len(q) # 2
    <3>1. Shaking(Tail(q)) BY <2>2, <2>4
    <3>2. /\ Tail(q) # <<>> /\ Head(Tail(q)) = "handshake"
          /\ Tail(q) \in Seq(StepNames)
      BY <3>1, ShakingHead, ShakingHas
    <3>3. todo'[t] = Tail(q) BY <1>1, <3>2 DEF AfterHandshake
    <3>4. Asks(todo'[t]) BY <3>2, <3>3, HasStep DEF Asks
    <3>5. cond'.num_signals + cond'.handshake = Len(Tail(q)) - 1
      <4> DEFINE l == Len(Tail(q))
      <4>3. l = Len(q) - 1 /\ l \in Int BY <2>2
      <4>4. cond.num_signals + cond.handshake = Len(q) - 1 BY <2>1
      <4>1. cond.num_signals + cond.handshake = l /\ l \in Int BY <4>3, <4>4
      <4> HIDE DEF l
      <4>2. cond'.num_signals + cond'.handshake = l - 1 BY <1>4, <4>1
      <4> QED BY <4>2 DEF l
    <3>6. AllLeft(t)' BY <1>3, <1>4, <2>1, <3>1, <3>3, <3>5 DEF AllLeft
    <3> QED BY <1>3, <1>4, <3>4, <3>6 DEF ReleaseOK, Served
  <2> QED BY <2>3, <2>4
<1> QED BY <1>3, <1>6, <1>7 DEF Served

LEMMA ReleaseAlways ==
    ASSUME ~SignalUnlocked
    PROVE  Spec => []ReleaseOK
<1>1. Init => ReleaseOK
  <2> SUFFICES ASSUME Init PROVE ReleaseOK
    OBVIOUS
  <2>1. /\ \A t \in Threads : todo[t] = <<>> /\ due[t] = {}
        /\ cond.num_signals = 0 /\ cond.handshake = 0
    BY DEF Init, CondInit
  <2>2. \A t \in Threads : ~Asks(todo[t]) BY <2>1, NoneHas DEF Asks
  <2> QED BY <2>1, <2>2 DEF ReleaseOK, NoneSignalled
<1>2. ASSUME ReleaseOK, LockInv, LockInv', CondOK, CondNumbers, [Next]_vars PROVE ReleaseOK'
  <2>1. CASE UNCHANGED vars
    <3>1. UNCHANGED <<todo, due, cond>> BY <2>1 DEF vars, condVars
    <3>2. Waiting' = Waiting BY <3>1 DEF Waiting, Steps
    <3>3. \A t \in Threads : Served(t)' <=> Served(t)
      BY <3>1, <3>2 DEF Served, OneLeft, AllLeft
    <3> QED BY <1>2, <3>1, <3>3 DEF ReleaseOK, NoneSignalled
  <2> SUFFICES ASSUME NEW t \in Threads, Calls(t) \/ Continue(t) PROVE ReleaseOK'
    BY <1>2, <2>1 DEF Next
  <2>2. CASE Quiet(t)
    <3>1. Calm(t) BY <1>2, <2>2, QuietStep
    <3>2. Stays(t) BY <3>1, CalmStays
    <3> QED BY <1>2, <3>1, <3>2, SameServed DEF Calm
  <2>3. CASE TakeSemaphore(t)
    <3>1. Stays(t) /\ ~Asks(todo[t]) /\ ~Asks(todo'[t]) BY <1>2, <2>3, TakeSemaphoreMoves
    <3> DEFINE n == cond.sem - 1
    <3>2. cond' = [cond EXCEPT !.sem = n] /\ due' = due BY <2>3 DEF TakeSemaphore
    <3> HIDE DEF n
    <3>3. /\ cond'.num_signals = cond.num_signals /\ cond'.handshake = cond.handshake
          /\ cond'.num_waiting = cond.num_waiting
      BY <1>2, <3>2 DEF CondOK
    <3> QED BY <1>2, <3>1, <3>2, <3>3, SameServed
  <2>4. CASE Enter(t)
    <3>1. /\ \A u \in Threads : u # t => todo'[u] = todo[u]
          /\ ~Asks(todo[t]) /\ ~Asks(todo'[t])
      BY <1>2, <2>4, EnterMoves
    <3>2. todo[t] # <<>> /\ Head(todo[t]) = "enter" BY <2>4 DEF Enter, Step
    <3>3. \A u \in Threads : Asks(todo[u]) => u = t BY <1>2, <3>2, AskerOwns
    <3>4. \A u \in Threads : ~Asks(todo[u]) /\ ~Asks(todo'[u]) BY <3>1, <3>3
    <3>5. NoneSignalled /\ \A u \in Threads : due[u] = {} BY <1>2, <3>4 DEF ReleaseOK
    <3> DEFINE n == cond.num_waiting + 1
    <3>6. cond' = [cond EXCEPT !.num_waiting = n] /\ due' = due BY <2>4 DEF Enter
    <3> HIDE DEF n
    <3>7. NoneSignalled' BY <1>2, <3>5, <3>6 DEF CondOK, NoneSignalled
    <3> QED BY <3>4, <3>5, <3>6, <3>7, NobodyAsks
  <2> QED BY <1>2, <2>2, <2>3, <2>4, LeaveServed, SignalServed, HandshakeServed, StepKinds
<1> QED BY <1>1, <1>2, LockAlways, CondAlways, PTL DEF Spec

\* "Restart one of the threads" and "all threads that are waiting": a signal or broadcast by a
\* thread that has the mutex returns only when the waiters it had to release have left.  (What
\* becomes of the promise without the mutex a run shows.)
THEOREM SignalReleases ==
    ASSUME ~SignalUnlocked
    PROVE  Spec => []WaitersReleased
<1>1. ReleaseOK => WaitersReleased
  <2> SUFFICES ASSUME ReleaseOK, NEW t \in Threads, due[t] # {} PROVE "handshake" \in Steps(t)
    BY DEF WaitersReleased
  <2>1. Asks(todo[t]) BY DEF ReleaseOK
  <2> QED BY <2>1 DEF Asks, Has, Steps
<1> QED BY <1>1, ReleaseAlways, PTL
=============================================================================
