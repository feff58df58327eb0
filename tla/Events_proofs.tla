---------------------------- MODULE Events_proofs ----------------------------
(***************************************************************************)
(* Proofs about Events, for any threads, events, callbacks and length of   *)
(* the queue: the count of sentinels is right, a thread that waits for its *)
(* callback is served, and the queue is a bounded FIFO.                    *)
(***************************************************************************)
EXTENDS Events, Lists_proofs

-----------------------------------------------------------------------------
(* The invariants.                                                         *)

Entries == Events \cup {Sentinel}

\* The types of what is neither a list nor about callbacks.
FlagsOK ==
    /\ active \in BOOLEAN /\ sentinelOn \in BOOLEAN
    /\ wakeup \in BOOLEAN /\ messages \in BOOLEAN
    /\ mpc \in MainStates /\ mode \in Modes /\ wanted \in BOOLEAN
    /\ after \in {"idle", "first", "device", "loop"}
    /\ pc \in [Threads -> ThreadStates]
    /\ event \in [Threads -> Events \cup {NoEvent}]

\* Nothing is in the queue twice, the sentinel included, and what was handed out is not in
\* it; what a thread is about to put in is nowhere else.
QueueOK ==
    /\ queue \in Seq(Entries) /\ Len(queue) <= MaxQueued /\ Once(queue)
    /\ delivered \in Seq(Events)
    /\ \A e \in Events : ~(InSeq(queue, e) /\ InSeq(delivered, e))
    /\ \A t \in Threads : pc[t] = "add" =>
          event[t] \in Events /\ ~InSeq(queue, event[t]) /\ ~InSeq(delivered, event[t])
    /\ \A t, u \in Threads : pc[t] = "add" /\ pc[u] = "add" /\ event[t] = event[u] => t = u

\* The main thread pushes a sentinel only where there is none.
CountOK ==
    /\ sentinels = IF InSeq(queue, Sentinel) THEN 1 ELSE 0
    /\ mpc = "push" => sentinels = 0

QueueInv == FlagsOK /\ QueueOK /\ CountOK

\* The entry is in a list that the main thread will come to.
Queued(c) == InSeq(callbacks, c) \/ InSeq(running, c)

ListsOK ==
    /\ callbacks \in Seq(Callbacks) /\ running \in Seq(Callbacks)
    /\ Once(callbacks) /\ Once(running)
    /\ \A c \in Callbacks : ~(InSeq(callbacks, c) /\ InSeq(running, c))
    /\ running # <<>> => mpc = "run"

EntriesOK ==
    /\ state \in [Callbacks -> {"unused", "waiting", "complete", "canceled", "destroyed"}]
    /\ sem \in [Callbacks -> {0, 1}]
    /\ \A c \in Callbacks : Queued(c) => state[c] = "waiting"
    /\ \A c \in Callbacks : state[c] \in {"unused", "waiting"} => sem[c] = 0

\* What a thread that runs a callback on the main thread has to do with its entry.
CallerOK(t) ==
    /\ pc[t] \in {"idle", "add", "flush"} => callback[t] = NoCallback
    /\ callback[t] = NoCallback => ~waits[t] /\ pc[t] \notin {"queue", "sleep"}
    /\ callback[t] \in Callbacks => state[callback[t]] # "unused"
    /\ pc[t] = "queue" => ~Queued(callback[t]) /\ state[callback[t]] = "waiting"
    /\ pc[t] = "sleep" => waits[t]
    /\ waits[t] /\ pc[t] # "queue" /\ ~Queued(callback[t]) =>
          state[callback[t]] \in {"complete", "canceled"} /\ sem[callback[t]] = 1

CallersOK ==
    /\ callback \in [Threads -> Callbacks \cup {NoCallback}]
    /\ waits \in [Threads -> BOOLEAN]
    /\ \A t \in Threads : CallerOK(t)
    /\ \A t, u \in Threads : callback[t] = callback[u] /\ callback[t] \in Callbacks => t = u

CallInv == ListsOK /\ EntriesOK /\ CallersOK

-----------------------------------------------------------------------------
(* The main thread's calls and the other threads' flags.                   *)

Quiet == UNCHANGED <<queue, sentinels, delivered, event>>

LEMMA InitFlags == Init => FlagsOK
BY DEF Init, FlagsOK, MainStates, Modes, ThreadStates

LEMMA MainFlags ==
    ASSUME FlagsOK,
           \/ \E w \in BOOLEAN : MainCall(w)
           \/ PumpEvents \/ QuitEvents \/ InitEvents \/ MainStep \/ WaitFails
    PROVE  FlagsOK'
<1> USE DEF FlagsOK, MainStates, Modes, Return
<1>1. ASSUME NEW m \in Modes, NEW w \in BOOLEAN, WaitEvent(m, w) PROVE FlagsOK'
  BY <1>1 DEF WaitEvent, queueVars, wakeVars, threadVars
<1>2. CASE PumpEvents BY <1>2 DEF PumpEvents, queueVars, wakeVars, threadVars
<1>3. CASE QuitEvents BY <1>3 DEF QuitEvents, wakeVars, mainVars, callVars, threadVars
<1>4. CASE InitEvents BY <1>4 DEF InitEvents, wakeVars, mainVars, callVars, threadVars
<1>5. CASE TakeCallbacks BY <1>5 DEF TakeCallbacks, queueVars, wakeVars, callVars, threadVars
<1>6. CASE RunCallback BY <1>6 DEF RunCallback, queueVars, wakeVars, callVars, threadVars
<1>7. CASE PumpDevice BY <1>7 DEF PumpDevice, queueVars, callVars, threadVars
<1>8. CASE CutOldSentinel
  BY <1>8 DEF CutOldSentinel, CutAll, wakeVars, callVars, threadVars
<1>9. CASE PushSentinel
  BY <1>9 DEF PushSentinel, SendWakeup, wakeVars, callVars, threadVars
<1>10. CASE FirstGet BY <1>10 DEF FirstGet, TakeTo, queueVars, wakeVars, callVars, threadVars
<1>11. CASE FirstCount BY <1>11 DEF FirstCount, queueVars, wakeVars, callVars, threadVars
<1>12. CASE PeekSentinel BY <1>12 DEF PeekSentinel, queueVars, wakeVars, callVars, threadVars
<1>13. CASE CutSentinel BY <1>13 DEF CutSentinel, CutAll, wakeVars, threadVars
<1>14. CASE SelectWait BY <1>14 DEF SelectWait, queueVars, wakeVars, threadVars
<1>15. ASSUME NEW here, NEW next \in {"arm", "pump"}, LookAgain(here, next) PROVE FlagsOK'
  BY <1>15 DEF LookAgain, TakeTo, queueVars, wakeVars, callVars, threadVars
<1>16. CASE LookInDevice BY <1>16, <1>15 DEF LookInDevice
<1>17. CASE LookInLoop BY <1>17, <1>15 DEF LookInLoop
<1>18. CASE Arm BY <1>18 DEF Arm, queueVars, callVars, threadVars
<1>19. CASE Wait BY <1>19 DEF Wait, queueVars, threadVars
<1>20. CASE WaitFails BY <1>20 DEF WaitFails, queueVars, wakeVars, threadVars
<1>21. CASE Disarm BY <1>21 DEF Disarm, queueVars, callVars, threadVars
<1>22. ASSUME NEW w \in BOOLEAN, MainCall(w) PROVE FlagsOK' BY <1>22, <1>1 DEF MainCall
<1> QED BY <1>2, <1>3, <1>4, <1>5, <1>6, <1>7, <1>8, <1>9, <1>10, <1>11, <1>12, <1>13, <1>14,
           <1>16, <1>17, <1>18, <1>19, <1>20, <1>21, <1>22 DEF MainStep

LEMMA ThreadFlags ==
    ASSUME FlagsOK, NEW t \in Threads, ThreadCall(t) \/ ThreadStep(t)
    PROVE  FlagsOK'
<1> USE DEF FlagsOK, ThreadStates, mainVars, callVars
<1>1. ASSUME NEW e \in Events, PushEvent(t, e) PROVE FlagsOK'
  BY <1>1 DEF PushEvent, queueVars, wakeVars
<1>2. CASE AddEvent(t) BY <1>2 DEF AddEvent, wakeVars
<1>3. ASSUME NEW c, NEW w, RunOnMainThread(t, c, w) PROVE FlagsOK'
  BY <1>3 DEF RunOnMainThread, queueVars, wakeVars
<1>4. CASE QueueCallback(t) BY <1>4 DEF QueueCallback, queueVars, wakeVars
<1>5. CASE TakeWakeup(t) BY <1>5 DEF TakeWakeup, Leave, queueVars
<1>6. CASE Send(t) BY <1>6 DEF Send, Leave, queueVars
<1>7. CASE Awake(t) BY <1>7 DEF Awake, queueVars, wakeVars
<1>8. CASE PeepEvents(t) BY <1>8 DEF PeepEvents, TakeTo, wakeVars, threadVars
<1>9. ASSUME NEW D, FlushEvents(t, D) PROVE FlagsOK'
  BY <1>9 DEF FlushEvents, CutAll, wakeVars, threadVars
<1>10. CASE EnableSentinel(t) BY <1>10 DEF EnableSentinel, wakeVars, threadVars
<1>11. CASE DisableSentinel(t) BY <1>11 DEF DisableSentinel, wakeVars
<1>12. CASE FlushSentinel(t) BY <1>12 DEF FlushSentinel, CutAll, wakeVars
<1> QED BY <1>1, <1>2, <1>3, <1>4, <1>5, <1>6, <1>7, <1>8, <1>9, <1>10, <1>11, <1>12
        DEF ThreadCall, ThreadStep

LEMMA FlagsStep ==
    ASSUME FlagsOK, [Next]_vars
    PROVE  FlagsOK'
<1>1. CASE UNCHANGED vars
  BY <1>1 DEF FlagsOK, vars, queueVars, wakeVars, mainVars, callVars, threadVars
<1>2. CASE Next BY <1>2, MainFlags, ThreadFlags DEF Next
<1> QED BY <1>1, <1>2

-----------------------------------------------------------------------------
(* The queue.                                                              *)

\* Where a look at the queue stops: everything before is a sentinel.
LEMMA StopsAtIs ==
    ASSUME QueueOK, NEW w \in BOOLEAN
    PROVE  LET n == StopsAt(w)
           IN /\ n \in 1..Len(queue) + 1
              /\ \A i \in 1..Len(queue) : i < n => queue[i] = Sentinel
              /\ n <= Len(queue) => queue[n] # Sentinel \/ w
<1> DEFINE k == Len(queue)
           stops == {i \in DOMAIN queue : queue[i] # Sentinel \/ (w /\ i >= sentinels)}
           n == StopsAt(w)
<1>1. k \in Nat /\ DOMAIN queue = 1..k BY LenProperties DEF QueueOK
<1>2. n = IF stops = {} THEN k + 1 ELSE CHOOSE i \in stops : \A j \in stops : i <= j
  BY DEF StopsAt
<1>3. stops \in SUBSET Nat /\ stops \subseteq 1..k BY <1>1
<1>4. \A i \in 1..k : i \notin stops => queue[i] = Sentinel BY <1>1
<1>5. \A i \in stops : queue[i] # Sentinel \/ w OBVIOUS
<1> HIDE DEF stops, n, k
<1>6. CASE stops = {}
  <2>1. n = k + 1 /\ \A i \in 1..k : queue[i] = Sentinel BY <1>6, <1>2, <1>4
  <2> QED BY <2>1, <1>1 DEF k, n
<1>7. CASE stops # {}
  <2>1. \E i \in stops : \A j \in stops : i <= j BY <1>3, <1>7, NatMin
  <2>2. n \in stops /\ \A j \in stops : n <= j BY <2>1, <1>2, <1>7
  <2>3. n \in 1..k BY <2>2, <1>3
  <2>4. \A i \in 1..k : i < n => i \notin stops BY <2>2, <2>3, <1>1
  <2> QED BY <2>2, <2>3, <2>4, <1>1, <1>4, <1>5 DEF k, n
<1> QED BY <1>6, <1>7 DEF k, n

\* There is one sentinel among the first n entries, or none.
LEMMA SentinelCount ==
    ASSUME QueueOK, NEW n
    PROVE  Cardinality({i \in SentinelsIn(queue) : i <= n}) =
             IF \E i \in 1..Len(queue) : i <= n /\ queue[i] = Sentinel THEN 1 ELSE 0
<1> DEFINE A == {i \in SentinelsIn(queue) : i <= n}
<1>1. DOMAIN queue = 1..Len(queue) BY LenProperties DEF QueueOK
<1>2. \A i : i \in A <=> i \in 1..Len(queue) /\ i <= n /\ queue[i] = Sentinel
  BY <1>1 DEF SentinelsIn
<1> HIDE DEF A
<1>3. ASSUME NEW i \in A PROVE A = {i}
  <2>1. \A j \in A : j = i BY <1>2, <1>3 DEF QueueOK, Once
  <2> QED BY <2>1
<1>4. CASE \E i \in 1..Len(queue) : i <= n /\ queue[i] = Sentinel
  <2>1. PICK i : A = {i} BY <1>2, <1>3, <1>4
  <2>2. Cardinality({i}) = 1 BY FS_Singleton
  <2> QED BY <2>1, <2>2, <1>4 DEF A
<1>5. CASE ~\E i \in 1..Len(queue) : i <= n /\ queue[i] = Sentinel
  <2>1. A = {} BY <1>2, <1>5
  <2>2. Cardinality({}) = 0 BY FS_EmptySet
  <2> QED BY <2>1, <2>2, <1>5 DEF A
<1> QED BY <1>4, <1>5

LEMMA AllSentinels ==
    ASSUME QueueOK
    PROVE  Cardinality(SentinelsIn(queue)) = IF InSeq(queue, Sentinel) THEN 1 ELSE 0
<1> DEFINE n == Len(queue)
<1>1. n \in Nat /\ DOMAIN queue = 1..n BY LenProperties DEF QueueOK
<1>2. {i \in SentinelsIn(queue) : i <= n} = SentinelsIn(queue) BY <1>1 DEF SentinelsIn
<1>3. (\E i \in 1..n : i <= n /\ queue[i] = Sentinel) <=> InSeq(queue, Sentinel)
  BY <1>1 DEF InSeq
<1> QED BY <1>2, <1>3, SentinelCount

\* A step that leaves the queue and what is to be put in.
LEMMA QuietQueue ==
    ASSUME QueueOK, CountOK, Quiet,
           \A t \in Threads : pc'[t] = "add" => pc[t] = "add",
           mpc' = "push" => mpc = "push"
    PROVE  QueueOK' /\ CountOK'
BY DEF QueueOK, CountOK, Quiet

\* What holds of the list q that is left when entries are cut, if taken are the events
\* handed out of them.
Left(q, taken) ==
    /\ q \in Seq(Entries) /\ Len(q) <= MaxQueued /\ Once(q)
    /\ \A e \in Entries : InSeq(q, e) => InSeq(queue, e)
    /\ taken \in {delivered} \cup
          {Append(delivered, e) : e \in {e \in Events : InSeq(queue, e) /\ ~InSeq(q, e)}}

LEMMA LeftQueue ==
    ASSUME QueueOK, Left(queue', delivered'), UNCHANGED event,
           \A t \in Threads : pc'[t] = "add" => pc[t] = "add"
    PROVE  QueueOK'
<1> DEFINE Handed == \A e \in Events : InSeq(delivered', e) =>
                      InSeq(delivered, e) \/ (InSeq(queue, e) /\ ~InSeq(queue', e))
<1>1. delivered' \in Seq(Events) /\ Handed
  <2>1. CASE delivered' = delivered BY <2>1 DEF QueueOK
  <2>2. ASSUME NEW e \in Events, InSeq(queue, e), ~InSeq(queue', e),
               delivered' = Append(delivered, e)
        PROVE  delivered' \in Seq(Events) /\ Handed
    BY <2>2, AppendIn DEF QueueOK
  <2> QED BY <2>1, <2>2 DEF Left
<1>2. \A e \in Events : InSeq(queue', e) => InSeq(queue, e) BY DEF Left, Entries
<1> QED BY <1>1, <1>2 DEF QueueOK, Left

\* SDL_CutEvent of all entries in D.
LEMMA CutAllQueue ==
    ASSUME QueueOK, CountOK, NEW D, CutAll(D), UNCHANGED event,
           \A t \in Threads : pc'[t] = "add" => pc[t] = "add",
           mpc' = "push" => mpc = "push" \/ Sentinel \in D
    PROVE  QueueOK' /\ CountOK'
<1>1. /\ queue' = Without(queue, D) /\ delivered' = delivered
      /\ sentinels' = IF Sentinel \in D THEN sentinels - Cardinality(SentinelsIn(queue))
                      ELSE sentinels
  BY DEF CutAll
<1>2. /\ queue' \in Seq(Entries) /\ Len(queue') <= Len(queue) /\ Once(queue')
      /\ \A x : InSeq(queue', x) <=> InSeq(queue, x) /\ x \notin D
  BY <1>1, WithoutKeeps DEF QueueOK
<1>3. Len(queue') <= MaxQueued
  BY <1>2, LenProperties, BoundAssumption DEF QueueOK
<1>4. QueueOK'
  <2>1. Left(queue', delivered') BY <1>1, <1>2, <1>3 DEF Left
  <2> QED BY <2>1, LeftQueue
<1>5. CountOK' BY <1>1, <1>2, AllSentinels DEF CountOK
<1> QED BY <1>4, <1>5

\* SDL_PeepEventsInternal(SDL_GETEVENT).
LEMMA TakeToQueue ==
    ASSUME QueueOK, CountOK, NEW w \in BOOLEAN, TakeTo(StopsAt(w)), UNCHANGED event,
           \A t \in Threads : pc'[t] = "add" => pc[t] = "add",
           mpc' = "push" => mpc = "push"
    PROVE  QueueOK' /\ CountOK'
<1> DEFINE n == StopsAt(w)
<1>1. n \in 1..Len(queue) + 1 BY StopsAtIs
<1>2. Len(queue) \in Nat /\ n \in Nat BY <1>1, LenProperties DEF QueueOK
<1> HIDE DEF n
<1>3. /\ queue' = SubSeq(queue, n + 1, Len(queue))
      /\ sentinels' = sentinels - Cardinality({i \in SentinelsIn(queue) : i <= n})
      /\ delivered' = IF Got(n) \in Events THEN Append(delivered, Got(n)) ELSE delivered
  BY DEF TakeTo, PendingAfter, n
<1>4. /\ queue' \in Seq(Entries) /\ Len(queue') <= Len(queue) /\ Once(queue')
      /\ \A x : InSeq(queue', x) <=> \E i \in 1..Len(queue) : i > n /\ queue[i] = x
  <2>1. queue \in Seq(Entries) /\ Once(queue) BY DEF QueueOK
  <2>2. LET r == SubSeq(queue, n + 1, Len(queue))
        IN /\ r \in Seq(Entries) /\ Len(r) <= Len(queue)
           /\ \A x : InSeq(r, x) <=> \E i \in 1..Len(queue) : i > n /\ queue[i] = x
           /\ Once(queue) => Once(r)
    BY <1>2, <2>1, CutFront
  <2> QED BY <1>3, <2>1, <2>2
<1>5. Len(queue') <= MaxQueued
  BY <1>4, <1>2, LenProperties, BoundAssumption DEF QueueOK
<1>6. \A x : InSeq(queue', x) => InSeq(queue, x) BY <1>4 DEF InSeq
<1>7. Left(queue', delivered')
  <2>1. CASE Got(n) \in Events
    <3>1. n \in 1..Len(queue) /\ Got(n) = queue[n]
      BY <2>1, <1>1, <1>2, SentinelAssumption DEF Got
    <3>2. InSeq(queue, queue[n]) BY <3>1 DEF InSeq
    <3>3. ~InSeq(queue', queue[n]) BY <1>4, <3>1, <1>2 DEF QueueOK, Once
    <3> QED BY <2>1, <3>1, <3>2, <3>3, <1>3, <1>4, <1>5, <1>6 DEF Left
  <2>2. CASE Got(n) \notin Events BY <2>2, <1>3, <1>4, <1>5, <1>6 DEF Left
  <2> QED BY <2>1, <2>2
<1>8. QueueOK' BY <1>7, LeftQueue
<1>9. CountOK'
  <2> DEFINE Ahead == \E i \in 1..Len(queue) : i <= n /\ queue[i] = Sentinel
  <2>1. Cardinality({i \in SentinelsIn(queue) : i <= n}) = IF Ahead THEN 1 ELSE 0
    BY SentinelCount
  <2>2. InSeq(queue, Sentinel) <=> Ahead \/ InSeq(queue', Sentinel)
    <3>1. \A i \in 1..Len(queue) : i <= n \/ i > n BY <1>2
    <3> QED BY <3>1, <1>4 DEF InSeq
  <2>3. ~(Ahead /\ InSeq(queue', Sentinel))
    <3> SUFFICES ASSUME NEW i \in 1..Len(queue), i <= n, queue[i] = Sentinel,
                        NEW j \in 1..Len(queue), j > n, queue[j] = Sentinel
                 PROVE  FALSE
      BY <1>4
    <3>1. i = j BY DEF QueueOK, Once
    <3> QED BY <3>1, <1>2
  <2> HIDE DEF Ahead
  <2> QED BY <2>1, <2>2, <2>3, <1>3 DEF CountOK
<1> QED BY <1>8, <1>9

\* SDL_AddEvent of an entry that is not in the queue.
LEMMA AddLastQueue ==
    ASSUME QueueOK, NEW e \in Entries, ~InSeq(queue, e), HasRoom
    PROVE  /\ AddLast(queue, e) \in Seq(Entries) /\ Len(AddLast(queue, e)) <= MaxQueued
           /\ Once(AddLast(queue, e))
           /\ \A x : InSeq(AddLast(queue, e), x) <=> InSeq(queue, x) \/ x = e
<1>1. Len(AddLast(queue, e)) = Len(queue) + 1 /\ Len(queue) \in Nat
  BY AppendProperties, LenProperties DEF QueueOK, AddLast
<1>2. Len(AddLast(queue, e)) <= MaxQueued BY <1>1, BoundAssumption DEF HasRoom
<1> QED BY <1>2, AppendIn DEF QueueOK, AddLast

LEMMA PushSentinelQueue ==
    ASSUME QueueOK, CountOK, FlagsOK, PushSentinel
    PROVE  QueueOK' /\ CountOK'
<1>1. mpc = "push" /\ ~InSeq(queue, Sentinel) /\ sentinels = 0
  BY DEF PushSentinel, CountOK
<1>2. UNCHANGED <<pc, event, delivered>> /\ mpc' # "push"
  BY DEF PushSentinel, threadVars, FlagsOK
<1>3. CASE HasRoom /\ queue' = AddLast(queue, Sentinel) /\ sentinels' = sentinels + 1
  <2>1. /\ queue' \in Seq(Entries) /\ Len(queue') <= MaxQueued /\ Once(queue')
        /\ \A x : InSeq(queue', x) <=> InSeq(queue, x) \/ x = Sentinel
    BY <1>1, <1>3, AddLastQueue DEF Entries
  <2>2. CountOK' BY <1>1, <1>2, <1>3, <2>1 DEF CountOK
  <2>3. \A e \in Events : e # Sentinel BY SentinelAssumption
  <2> QED BY <1>2, <2>1, <2>2, <2>3 DEF QueueOK
<1>4. CASE UNCHANGED <<queue, sentinels>>
  BY <1>2, <1>4, QuietQueue DEF Quiet
<1> QED BY <1>3, <1>4 DEF PushSentinel

LEMMA AddEventQueue ==
    ASSUME QueueOK, CountOK, FlagsOK, NEW t \in Threads, AddEvent(t)
    PROVE  QueueOK' /\ CountOK'
<1>1. /\ pc[t] = "add" /\ event[t] \in Events /\ ~InSeq(queue, event[t])
      /\ UNCHANGED <<delivered, sentinels, mpc>>
  BY DEF AddEvent, QueueOK, mainVars
<1>2. \A u \in Threads : pc'[u] = "add" => u # t /\ pc[u] = "add" /\ event'[u] = event[u]
  BY DEF AddEvent, FlagsOK
<1>3. CASE HasRoom /\ queue' = AddLast(queue, event[t])
  <2>1. /\ queue' \in Seq(Entries) /\ Len(queue') <= MaxQueued /\ Once(queue')
        /\ \A x : InSeq(queue', x) <=> InSeq(queue, x) \/ x = event[t]
    BY <1>1, <1>3, AddLastQueue DEF Entries
  <2>2. event[t] # Sentinel BY <1>1, SentinelAssumption
  <2>3. \A u \in Threads : pc'[u] = "add" => event'[u] # event[t] BY <1>1, <1>2 DEF QueueOK
  <2>4. CountOK' BY <1>1, <2>1, <2>2 DEF CountOK
  <2>5. QueueOK' BY <1>1, <1>2, <2>1, <2>3 DEF QueueOK
  <2> QED BY <2>4, <2>5
<1>4. CASE UNCHANGED queue
  <2>1. CountOK' BY <1>1, <1>4 DEF CountOK
  <2>2. QueueOK' BY <1>1, <1>2, <1>4 DEF QueueOK
  <2> QED BY <2>1, <2>2
<1> QED BY <1>3, <1>4 DEF AddEvent

LEMMA PushEventQueue ==
    ASSUME QueueOK, CountOK, FlagsOK, NEW t \in Threads, NEW e \in Events, PushEvent(t, e)
    PROVE  QueueOK' /\ CountOK'
<1>1. UNCHANGED <<queue, sentinels, delivered, mpc>>
  BY DEF PushEvent, queueVars, mainVars
<1>2. ~InSeq(queue, e) /\ ~InSeq(delivered, e)
  <2>1. e \notin ToSet(queue) /\ e \notin ToSet(delivered) BY DEF PushEvent
  <2>2. DOMAIN queue = 1..Len(queue) /\ DOMAIN delivered = 1..Len(delivered)
    BY LenProperties DEF QueueOK
  <2> QED BY <2>1, <2>2 DEF ToSet, InSeq
<1>3. \A u \in Threads : event[u] # e BY DEF PushEvent
<1>4. \A u \in Threads : IF u = t THEN pc'[u] = "add" /\ event'[u] = e
                                  ELSE pc'[u] = pc[u] /\ event'[u] = event[u]
  BY DEF PushEvent, FlagsOK
<1>5. CountOK' BY <1>1 DEF CountOK
<1>6. QueueOK' BY <1>1, <1>2, <1>3, <1>4 DEF QueueOK
<1> QED BY <1>5, <1>6

LEMMA QuitEventsQueue ==
    ASSUME QueueOK, CountOK, FlagsOK, QuitEvents
    PROVE  QueueOK' /\ CountOK'
<1>1. /\ queue' = <<>> /\ sentinels' = 0
      /\ UNCHANGED <<delivered, pc, event>>
  BY DEF QuitEvents, threadVars
<1>2. /\ queue' \in Seq(Entries) /\ Len(queue') <= MaxQueued /\ Once(queue')
      /\ \A x : ~InSeq(queue', x)
  BY <1>1, EmptySeq, NothingInEmpty, BoundAssumption
<1> QED BY <1>1, <1>2 DEF QueueOK, CountOK

LEMMA MainQueue ==
    ASSUME QueueInv,
           \/ \E w \in BOOLEAN : MainCall(w)
           \/ PumpEvents \/ QuitEvents \/ InitEvents \/ MainStep \/ WaitFails
    PROVE  QueueOK' /\ CountOK'
<1> USE DEF QueueInv, Quiet
<1>1. ASSUME NEW m \in Modes, NEW w \in BOOLEAN, WaitEvent(m, w) PROVE QueueOK' /\ CountOK'
  BY <1>1, QuietQueue DEF WaitEvent, queueVars, threadVars
<1>2. CASE PumpEvents BY <1>2, QuietQueue DEF PumpEvents, queueVars, threadVars
<1>3. CASE QuitEvents BY <1>3, QuitEventsQueue
<1>4. CASE InitEvents BY <1>4, QuietQueue DEF InitEvents, mainVars, threadVars
<1>5. CASE TakeCallbacks BY <1>5, QuietQueue DEF TakeCallbacks, queueVars, threadVars
<1>6. CASE RunCallback BY <1>6, QuietQueue DEF RunCallback, queueVars, threadVars
<1>7. CASE PumpDevice BY <1>7, QuietQueue DEF PumpDevice, Return, queueVars, threadVars
<1>8. CASE CutOldSentinel
  <2>1. UNCHANGED <<pc, event>> /\ mpc = "sentinel" BY <1>8 DEF CutOldSentinel, threadVars
  <2>2. CASE sentinelOn /\ sentinels > 0
    <3>1. CutAll({Sentinel}) BY <1>8, <2>2 DEF CutOldSentinel, OldSentinels
    <3> QED BY <2>1, <3>1, CutAllQueue
  <2>3. CASE sentinelOn /\ ~(sentinels > 0)
    <3>1. UNCHANGED <<queue, sentinels, delivered>> BY <1>8, <2>3 DEF CutOldSentinel
    <3>2. sentinels = 0 BY <2>3 DEF CountOK
    <3> QED BY <2>1, <3>1, <3>2 DEF QueueOK, CountOK
  <2>4. CASE ~sentinelOn
    <3>1. UNCHANGED <<queue, sentinels, delivered>> /\ mpc' # "push"
      BY <1>8, <2>4 DEF CutOldSentinel, FlagsOK
    <3> QED BY <2>1, <3>1, QuietQueue
  <2> QED BY <2>2, <2>3, <2>4
<1>9. CASE PushSentinel BY <1>9, PushSentinelQueue
<1>10. CASE FirstGet
  <2>1. UNCHANGED <<pc, event>> /\ mpc' # "push"
    BY <1>10 DEF FirstGet, Return, threadVars
  <2>2. CASE active
    <3>1. TakeTo(StopsAt(mode = "poll")) /\ (mode = "poll") \in BOOLEAN
      BY <1>10, <2>2 DEF FirstGet
    <3> QED BY <2>1, <3>1, TakeToQueue
  <2>3. CASE ~active BY <1>10, <2>1, <2>3, QuietQueue DEF FirstGet, queueVars
  <2> QED BY <2>2, <2>3
<1>11. CASE FirstCount BY <1>11, QuietQueue DEF FirstCount, Return, queueVars, threadVars
<1>12. CASE PeekSentinel BY <1>12, QuietQueue DEF PeekSentinel, Return, queueVars, threadVars
<1>13. CASE CutSentinel
  <2>1. CutAll({Sentinel}) /\ UNCHANGED <<pc, event>> /\ mpc' # "push"
    BY <1>13 DEF CutSentinel, Return, threadVars
  <2> QED BY <2>1, CutAllQueue
<1>14. CASE SelectWait BY <1>14, QuietQueue DEF SelectWait, queueVars, threadVars
<1>15. ASSUME NEW here, NEW next \in {"arm", "pump"}, LookAgain(here, next)
       PROVE  QueueOK' /\ CountOK'
  <2>1. UNCHANGED <<pc, event>> /\ mpc' # "push"
    BY <1>15 DEF LookAgain, Return, threadVars
  <2>2. CASE wanted BY <1>15, <2>1, <2>2, TakeToQueue DEF LookAgain
  <2>3. CASE ~wanted BY <1>15, <2>1, <2>3, QuietQueue DEF LookAgain, queueVars
  <2> QED BY <2>2, <2>3
<1>16. CASE LookInDevice BY <1>16, <1>15 DEF LookInDevice
<1>17. CASE LookInLoop BY <1>17, <1>15 DEF LookInLoop
<1>18. CASE Arm BY <1>18, QuietQueue DEF Arm, queueVars, threadVars
<1>19. CASE Wait BY <1>19, QuietQueue DEF Wait, queueVars, threadVars
<1>20. CASE WaitFails BY <1>20, QuietQueue DEF WaitFails, queueVars, threadVars
<1>21. CASE Disarm BY <1>21, QuietQueue DEF Disarm, Return, queueVars, threadVars
<1>22. ASSUME NEW w \in BOOLEAN, MainCall(w) PROVE QueueOK' /\ CountOK'
  BY <1>22, <1>1 DEF MainCall
<1> HIDE DEF QueueInv, Quiet
<1> QED BY <1>2, <1>3, <1>4, <1>5, <1>6, <1>7, <1>8, <1>9, <1>10, <1>11, <1>12, <1>13, <1>14,
           <1>16, <1>17, <1>18, <1>19, <1>20, <1>21, <1>22 DEF MainStep

LEMMA ThreadQueue ==
    ASSUME QueueInv, NEW t \in Threads, ThreadCall(t) \/ ThreadStep(t)
    PROVE  QueueOK' /\ CountOK'
<1> USE DEF QueueInv, FlagsOK, Quiet, mainVars
<1>1. ASSUME NEW e \in Events, PushEvent(t, e) PROVE QueueOK' /\ CountOK'
  BY <1>1, PushEventQueue
<1>2. CASE AddEvent(t) BY <1>2, AddEventQueue
<1>3. ASSUME NEW c, NEW w, RunOnMainThread(t, c, w) PROVE QueueOK' /\ CountOK'
  BY <1>3, QuietQueue DEF RunOnMainThread, queueVars
<1>4. CASE QueueCallback(t) BY <1>4, QuietQueue DEF QueueCallback, queueVars
<1>5. CASE TakeWakeup(t) BY <1>5, QuietQueue DEF TakeWakeup, Leave, queueVars
<1>6. CASE Send(t) BY <1>6, QuietQueue DEF Send, Leave, queueVars
<1>7. CASE Awake(t) BY <1>7, QuietQueue DEF Awake, queueVars
<1>8. CASE PeepEvents(t) BY <1>8, TakeToQueue DEF PeepEvents, threadVars
<1>9. ASSUME NEW D, FlushEvents(t, D) PROVE QueueOK' /\ CountOK'
  BY <1>9, CutAllQueue DEF FlushEvents, threadVars
<1>10. CASE EnableSentinel(t) BY <1>10, QuietQueue DEF EnableSentinel, threadVars
<1>11. CASE DisableSentinel(t) BY <1>11, QuietQueue DEF DisableSentinel
<1>12. CASE FlushSentinel(t)
  <2>1. UNCHANGED <<event, mpc>> /\ \A u \in Threads : pc'[u] = "add" => pc[u] = "add"
    BY <1>12 DEF FlushSentinel
  <2>2. CASE active BY <1>12, <2>1, <2>2, CutAllQueue DEF FlushSentinel
  <2>3. CASE ~active BY <1>12, <2>1, <2>3, QuietQueue DEF FlushSentinel
  <2> QED BY <2>2, <2>3
<1> HIDE DEF QueueInv, FlagsOK, Quiet, mainVars
<1> QED BY <1>1, <1>2, <1>3, <1>4, <1>5, <1>6, <1>7, <1>8, <1>9, <1>10, <1>11, <1>12
        DEF ThreadCall, ThreadStep

LEMMA QueueHolds == Spec => []QueueInv
<1>1. Init => QueueInv
  <2> SUFFICES ASSUME Init PROVE QueueInv
    OBVIOUS
  <2>1. queue = <<>> /\ delivered = <<>> /\ sentinels = 0 /\ mpc = "idle" BY DEF Init
  <2>2. \A t \in Threads : pc[t] = "idle" BY DEF Init
  <2>3. /\ queue \in Seq(Entries) /\ Len(queue) <= MaxQueued /\ Once(queue)
        /\ delivered \in Seq(Events) /\ \A x : ~InSeq(queue, x)
    BY <2>1, EmptySeq, NothingInEmpty, BoundAssumption
  <2>4. QueueOK BY <2>2, <2>3 DEF QueueOK
  <2>5. CountOK BY <2>1, <2>3 DEF CountOK
  <2> QED BY <2>4, <2>5, InitFlags DEF QueueInv
<1>2. ASSUME QueueInv, [Next]_vars PROVE QueueInv'
  <2>1. FlagsOK' BY <1>2, FlagsStep DEF QueueInv
  <2>2. CASE UNCHANGED vars
    BY <1>2, <2>1, <2>2, QuietQueue
       DEF QueueInv, Quiet, vars, queueVars, mainVars, threadVars
  <2>3. CASE Next
    <3>1. QueueOK' /\ CountOK' BY <1>2, <2>3, MainQueue, ThreadQueue DEF Next
    <3> QED BY <2>1, <3>1 DEF QueueInv
  <2> QED BY <1>2, <2>2, <2>3
<1> QED BY <1>1, <1>2, PTL DEF Spec

\* SDL_sentinel_pending, which pumping and polling read without the queue's lock, counts the
\* sentinels in the queue, and there is never more than one: a poll cycle ends once,
\* whatever the other threads take, flush and disable.
THEOREM SentinelCounted == Spec => []SentinelsRight
<1>1. ASSUME QueueInv PROVE SentinelsRight
  BY <1>1, AllSentinels DEF QueueInv, CountOK, SentinelsRight
<1> QED BY <1>1, QueueHolds, PTL

-----------------------------------------------------------------------------
(* The callbacks that the main thread runs.                                *)

\* Other steps, of which the callbacks see no more than a call that has none.
QuietCall ==
    /\ UNCHANGED <<callbacks, running, state, sem, callback, waits>>
    /\ mpc = "run" /\ running # <<>> => mpc' = "run"
    /\ \A t \in Threads :
          pc'[t] = pc[t] \/ (callback[t] = NoCallback /\ pc'[t] \notin {"queue", "sleep"})

LEMMA QuietCalls ==
    ASSUME CallInv, QuietCall
    PROVE  CallInv'
<1>1. ListsOK' BY DEF CallInv, QuietCall, ListsOK
<1>2. EntriesOK' BY DEF CallInv, QuietCall, EntriesOK, Queued
<1>3. ASSUME NEW t \in Threads PROVE CallerOK(t)'
  BY DEF CallInv, QuietCall, CallersOK, CallerOK, Queued
<1>4. CallersOK' BY <1>3 DEF CallInv, QuietCall, CallersOK
<1> QED BY <1>1, <1>2, <1>4 DEF CallInv

LEMMA MainIsQuiet ==
    ASSUME CallInv, FlagsOK,
           \/ \E w \in BOOLEAN : MainCall(w)
           \/ PumpEvents \/ InitEvents \/ PumpDevice \/ CutOldSentinel \/ PushSentinel
           \/ FirstGet \/ FirstCount \/ PeekSentinel \/ CutSentinel \/ SelectWait
           \/ LookInDevice \/ LookInLoop \/ Arm \/ Wait \/ Disarm \/ WaitFails
    PROVE  QuietCall
<1> USE DEF QuietCall, callbackVars, threadVars
<1>1. CASE \E w \in BOOLEAN : MainCall(w) BY <1>1 DEF MainCall, WaitEvent
<1>2. CASE PumpEvents BY <1>2 DEF PumpEvents
<1>3. CASE InitEvents BY <1>3 DEF InitEvents, mainVars
<1>4. CASE PumpDevice BY <1>4 DEF PumpDevice
<1>5. CASE CutOldSentinel BY <1>5 DEF CutOldSentinel
<1>6. CASE PushSentinel BY <1>6 DEF PushSentinel
<1>7. CASE FirstGet BY <1>7 DEF FirstGet
<1>8. CASE FirstCount BY <1>8 DEF FirstCount
<1>9. CASE PeekSentinel BY <1>9 DEF PeekSentinel
<1>10. CASE CutSentinel BY <1>10 DEF CutSentinel
<1>11. CASE SelectWait BY <1>11 DEF SelectWait
<1>12. CASE LookInDevice BY <1>12 DEF LookInDevice, LookAgain
<1>13. CASE LookInLoop BY <1>13 DEF LookInLoop, LookAgain
<1>14. CASE Arm BY <1>14 DEF Arm
<1>15. CASE Wait BY <1>15 DEF Wait
<1>16. CASE Disarm BY <1>16 DEF Disarm
<1>17. CASE WaitFails BY <1>17 DEF WaitFails
<1> QED BY <1>1, <1>2, <1>3, <1>4, <1>5, <1>6, <1>7, <1>8, <1>9, <1>10, <1>11, <1>12, <1>13,
           <1>14, <1>15, <1>16, <1>17

LEMMA TakeCallbacksCall ==
    ASSUME CallInv, TakeCallbacks
    PROVE  CallInv'
<1>1. /\ running' = callbacks /\ callbacks' = <<>> /\ mpc' = "run"
      /\ UNCHANGED <<state, sem, pc, callback, waits>>
  BY DEF TakeCallbacks, threadVars
<1>2. running = <<>> BY DEF TakeCallbacks, CallInv, ListsOK
<1>3. \A c : ~InSeq(<<>>, c) BY NothingInEmpty
<1>4. \A c : Queued(c)' <=> Queued(c) BY <1>1, <1>2, <1>3 DEF Queued
<1>5. ListsOK'
  <2>1. <<>> \in Seq(Callbacks) /\ Once(<<>>) BY EmptySeq, NothingInEmpty
  <2> QED BY <1>1, <1>3, <2>1 DEF CallInv, ListsOK
<1>6. EntriesOK' BY <1>1, <1>4 DEF CallInv, EntriesOK
<1>7. ASSUME NEW t \in Threads PROVE CallerOK(t)'
  BY <1>1, <1>4 DEF CallInv, CallersOK, CallerOK
<1>8. CallersOK' BY <1>1, <1>7 DEF CallInv, CallersOK
<1> QED BY <1>5, <1>6, <1>8 DEF CallInv

LEMMA RunCallbackCall ==
    ASSUME CallInv, RunCallback
    PROVE  CallInv'
<1> DEFINE c == Head(running)
           Waited == \E t \in Threads : callback[t] = c /\ waits[t]
<1>1. /\ mpc = "run" /\ running # <<>> /\ Finish(c, "complete") /\ running' = Tail(running)
      /\ UNCHANGED <<callbacks, mpc, pc, callback, waits>>
  BY DEF RunCallback, threadVars
<1>2. /\ c \in Callbacks /\ InSeq(running, c) /\ Tail(running) \in Seq(Callbacks)
      /\ Once(Tail(running))
      /\ \A x : InSeq(Tail(running), x) <=> InSeq(running, x) /\ x # c
  BY <1>1, HeadTailIn DEF CallInv, ListsOK
<1> HIDE DEF c
<1>3. \A x \in Callbacks : Queued(x)' <=> Queued(x) /\ x # c
  BY <1>1, <1>2 DEF Queued, CallInv, ListsOK
<1>4. /\ state' = [state EXCEPT ![c] = IF Waited THEN "complete" ELSE "destroyed"]
      /\ sem' = [sem EXCEPT ![c] = IF Waited THEN 1 ELSE sem[c]]
  BY <1>1, <1>2 DEF Finish, CallInv, EntriesOK
<1>5. ListsOK' BY <1>1, <1>2 DEF CallInv, ListsOK
<1> HIDE DEF Waited
<1>6. EntriesOK' BY <1>2, <1>3, <1>4 DEF CallInv, EntriesOK
<1>7. ASSUME NEW t \in Threads PROVE CallerOK(t)'
  <2>1. CallerOK(t) /\ callback[t] \in Callbacks \cup {NoCallback} BY DEF CallInv, CallersOK
  <2>2. CASE callback[t] = c
    <3>1. Queued(c) /\ c # NoCallback BY <1>2, CallbackAssumption DEF Queued
    <3>2. pc[t] # "queue" BY <2>1, <2>2, <3>1 DEF CallerOK
    <3>3. waits[t] => Waited BY <2>2 DEF Waited
    <3>4. /\ state'[c] = IF Waited THEN "complete" ELSE "destroyed"
          /\ sem'[c] = IF Waited THEN 1 ELSE sem[c]
      BY <1>2, <1>4 DEF CallInv, EntriesOK
    <3> QED BY <1>1, <2>1, <2>2, <3>1, <3>2, <3>3, <3>4 DEF CallerOK
  <2>3. CASE callback[t] \in Callbacks /\ callback[t] # c
    <3>1. state'[callback[t]] = state[callback[t]] /\ sem'[callback[t]] = sem[callback[t]]
      BY <1>4, <2>3 DEF CallInv, EntriesOK
    <3>2. Queued(callback[t])' <=> Queued(callback[t])
      <4> DEFINE d == callback[t]
      <4>1. InSeq(running, d)' <=> InSeq(running, d)
        BY <1>1, <1>2, <2>3
      <4>2. InSeq(callbacks, d)' <=> InSeq(callbacks, d) BY <1>1
      <4> QED BY <4>1, <4>2 DEF Queued
    <3> QED BY <1>1, <2>1, <2>3, <3>1, <3>2, CallbackAssumption DEF CallerOK
  <2>4. CASE callback[t] = NoCallback
    BY <1>1, <2>1, <2>4, CallbackAssumption DEF CallerOK
  <2> QED BY <2>1, <2>2, <2>3, <2>4
<1>8. CallersOK' BY <1>1, <1>7 DEF CallInv, CallersOK
<1> QED BY <1>5, <1>6, <1>8 DEF CallInv

LEMMA QuitEventsCall ==
    ASSUME CallInv, QuitEvents
    PROVE  CallInv'
<1> DEFINE Awaited(c) == InSeq(callbacks, c) /\ \E t \in Threads : callback[t] = c /\ waits[t]
<1>1. /\ mpc = "idle" /\ callbacks' = <<>> /\ \A t \in Threads : pc[t] \in {"idle", "sleep"}
      /\ UNCHANGED <<mpc, running, pc, callback, waits>>
  BY DEF QuitEvents, mainVars, threadVars
<1>2. running = <<>> BY <1>1 DEF CallInv, ListsOK
<1>3. \A c : ~InSeq(<<>>, c) BY NothingInEmpty
<1>4. \A c : ~Queued(c)' /\ ~InSeq(running, c) BY <1>1, <1>2, <1>3 DEF Queued
<1>5. \A c : c \in ToSet(callbacks) <=> InSeq(callbacks, c)
  <2>1. DOMAIN callbacks = 1..Len(callbacks) BY LenProperties DEF CallInv, ListsOK
  <2> QED BY <2>1 DEF ToSet, InSeq
<1>6. /\ state' = [c \in Callbacks |-> IF Awaited(c) THEN "canceled"
                                       ELSE IF InSeq(callbacks, c) THEN "destroyed" ELSE state[c]]
      /\ sem' = [c \in Callbacks |-> IF Awaited(c) THEN 1 ELSE sem[c]]
  <2> DEFINE left == ToSet(callbacks)
             awaited == {c \in left : \E t \in Threads : callback[t] = c /\ waits[t]}
  <2>1. \A c : (c \in awaited <=> Awaited(c)) /\ (c \in left <=> InSeq(callbacks, c)) BY <1>5
  <2>2. /\ state' = [c \in Callbacks |-> IF c \in awaited THEN "canceled"
                                         ELSE IF c \in left THEN "destroyed" ELSE state[c]]
        /\ sem' = [c \in Callbacks |-> IF c \in awaited THEN 1 ELSE sem[c]]
    BY DEF QuitEvents
  <2> HIDE DEF left, awaited, Awaited
  <2> QED BY <2>1, <2>2
<1>7. \A c \in Callbacks : Awaited(c) => InSeq(callbacks, c) OBVIOUS
<1>8. ListsOK'
  <2>1. <<>> \in Seq(Callbacks) /\ Once(<<>>) BY EmptySeq, NothingInEmpty
  <2> QED BY <1>1, <1>2, <1>3, <2>1 DEF ListsOK
<1>9. EntriesOK'
  <2> HIDE DEF Awaited
  <2> QED BY <1>4, <1>6, <1>7 DEF CallInv, EntriesOK
<1>10. ASSUME NEW t \in Threads PROVE CallerOK(t)'
  <2>1. CallerOK(t) /\ callback[t] \in Callbacks \cup {NoCallback} BY DEF CallInv, CallersOK
  <2>2. CASE callback[t] = NoCallback
    BY <1>1, <2>1, <2>2, CallbackAssumption DEF CallerOK
  <2>3. CASE callback[t] \in Callbacks
    <3> DEFINE c == callback[t]
    <3>1. c # NoCallback /\ pc[t] = "sleep" /\ waits[t]
      BY <1>1, <2>1, <2>3, CallbackAssumption DEF CallerOK
    <3>2. state'[c] \in {"complete", "canceled"} /\ sem'[c] = 1
      <4>1. CASE InSeq(callbacks, c) BY <1>6, <2>3, <3>1, <4>1
      <4>2. CASE ~InSeq(callbacks, c)
        <5>1. state[c] \in {"complete", "canceled"} /\ sem[c] = 1
          BY <1>4, <2>1, <3>1, <4>2 DEF CallerOK, Queued
        <5> QED BY <1>6, <2>3, <4>2, <5>1
      <4> QED BY <4>1, <4>2
    <3>3. UNCHANGED <<pc[t], callback[t], waits[t]>> BY <1>1
    <3> QED BY <3>1, <3>2, <3>3 DEF CallerOK
  <2> QED BY <2>1, <2>2, <2>3
<1>11. CallersOK' BY <1>1, <1>10 DEF CallInv, CallersOK
<1> QED BY <1>8, <1>9, <1>11 DEF CallInv

LEMMA RunOnMainThreadCall ==
    ASSUME CallInv, FlagsOK, NEW t \in Threads, NEW c \in Callbacks, NEW w \in BOOLEAN,
           RunOnMainThread(t, c, w)
    PROVE  CallInv'
<1>1. /\ pc[t] = "idle" /\ state[c] = "unused"
      /\ state' = [state EXCEPT ![c] = "waiting"] /\ pc' = [pc EXCEPT ![t] = "queue"]
      /\ callback' = [callback EXCEPT ![t] = c] /\ waits' = [waits EXCEPT ![t] = w]
      /\ UNCHANGED <<callbacks, sem, mpc, running>>
  BY DEF RunOnMainThread, mainVars
<1>2. ~Queued(c) BY <1>1 DEF CallInv, EntriesOK
<1>3. \A u \in Threads : callback[u] # c BY <1>1 DEF CallInv, CallersOK, CallerOK
<1>4. ListsOK' BY <1>1 DEF CallInv, ListsOK
<1>5. \A x : Queued(x)' <=> Queued(x) BY <1>1 DEF Queued
<1>6. EntriesOK' BY <1>1, <1>2, <1>5 DEF CallInv, EntriesOK
<1>7. c # NoCallback BY CallbackAssumption
<1>8. ASSUME NEW u \in Threads PROVE CallerOK(u)'
  <2>1. CASE u = t
    <3>1. /\ pc'[u] = "queue" /\ callback'[u] = c /\ state'[c] = "waiting" /\ ~Queued(c)'
      BY <1>1, <1>2, <1>5, <2>1 DEF CallInv, CallersOK, EntriesOK, FlagsOK
    <3>2. ~Queued(callback[u])' BY <1>1, <1>2, <3>1 DEF Queued
    <3> QED BY <1>7, <3>1, <3>2 DEF CallerOK
  <2>2. CASE u # t
    <3>1. UNCHANGED <<pc[u], callback[u], waits[u]>>
      BY <1>1, <2>2 DEF CallInv, CallersOK, FlagsOK
    <3>2. callback[u] \in Callbacks => state'[callback[u]] = state[callback[u]]
      BY <1>1, <1>3 DEF CallInv, EntriesOK
    <3>3. callback[u] \notin Callbacks => callback[u] = NoCallback BY DEF CallInv, CallersOK
    <3>4. CallerOK(u) BY DEF CallInv, CallersOK
    <3> QED BY <1>1, <3>1, <3>2, <3>3, <3>4 DEF CallerOK, Queued
  <2> QED BY <2>1, <2>2
<1>9. CallersOK'
  <2>1. callback' \in [Threads -> Callbacks \cup {NoCallback}] /\ waits' \in [Threads -> BOOLEAN]
    BY <1>1 DEF CallInv, CallersOK
  <2>2. \A u \in Threads : callback'[u] = IF u = t THEN c ELSE callback[u]
    BY <1>1 DEF CallInv, CallersOK
  <2>3. \A u, v \in Threads : callback'[u] = callback'[v] /\ callback'[u] \in Callbacks => u = v
    BY <1>3, <2>2 DEF CallInv, CallersOK
  <2> QED BY <1>8, <2>1, <2>3 DEF CallersOK
<1> QED BY <1>4, <1>6, <1>9 DEF CallInv

LEMMA QueueCallbackCall ==
    ASSUME CallInv, FlagsOK, NEW t \in Threads, QueueCallback(t)
    PROVE  CallInv'
<1> DEFINE c == callback[t]
<1>1. /\ pc[t] = "queue" /\ callbacks' = Append(callbacks, c) /\ pc' = [pc EXCEPT ![t] = "wake"]
      /\ UNCHANGED <<state, sem, mpc, running, callback, waits>>
  BY DEF QueueCallback, mainVars
<1>2. c \in Callbacks /\ ~Queued(c) /\ state[c] = "waiting"
  BY <1>1 DEF CallInv, CallersOK, CallerOK
<1>3. c # NoCallback BY <1>2, CallbackAssumption
<1> HIDE DEF c
<1>4. /\ callbacks' \in Seq(Callbacks) /\ Once(callbacks')
      /\ \A x : InSeq(callbacks', x) <=> InSeq(callbacks, x) \/ x = c
  BY <1>1, <1>2, AppendIn DEF CallInv, ListsOK, Queued
<1>5. \A x : Queued(x)' <=> Queued(x) \/ x = c BY <1>1, <1>4 DEF Queued
<1>6. ListsOK' BY <1>1, <1>2, <1>4 DEF CallInv, ListsOK, Queued
<1>7. EntriesOK' BY <1>1, <1>2, <1>5 DEF CallInv, EntriesOK
<1>8. ASSUME NEW u \in Threads PROVE CallerOK(u)'
  <2> DEFINE d == callback[u]
  <2>1. (callback[u])' = d /\ CallerOK(u) BY <1>1 DEF CallInv, CallersOK
  <2>2. Queued(callback[u])' <=> Queued(d) \/ d = c BY <1>1, <1>4 DEF Queued
  <2>3. CASE u = t
    <3>1. pc'[u] = "wake" /\ d = c BY <1>1, <2>3 DEF FlagsOK, c
    <3> QED BY <1>1, <1>2, <1>3, <2>2, <3>1 DEF CallerOK
  <2>4. CASE u # t
    <3>1. pc'[u] = pc[u] /\ d # c BY <1>1, <1>2, <2>4 DEF FlagsOK, CallInv, CallersOK, c
    <3> QED BY <1>1, <2>1, <2>2, <3>1 DEF CallerOK
  <2> QED BY <2>3, <2>4
<1>9. CallersOK' BY <1>1, <1>8 DEF CallInv, CallersOK
<1> QED BY <1>6, <1>7, <1>9 DEF CallInv

\* A thread that has sent the message, or need not, leaves the call or goes to sleep.
LEMMA LeaveCall ==
    ASSUME CallInv, FlagsOK, NEW t \in Threads, pc[t] \in {"wake", "send"}, Leave(t),
           UNCHANGED <<callbacks, running, mpc, state, sem, waits>>
    PROVE  CallInv'
<1>1. ListsOK' BY DEF CallInv, ListsOK
<1>2. EntriesOK' BY DEF CallInv, EntriesOK, Queued
<1>3. \A u \in Threads : IF u # t THEN UNCHANGED <<pc[u], callback[u]>>
                         ELSE IF waits[u] THEN pc'[u] = "sleep" /\ callback'[u] = callback[u]
                         ELSE pc'[u] = "idle" /\ callback'[u] = NoCallback
  BY DEF Leave, CallInv, CallersOK, FlagsOK
<1>4. ASSUME NEW u \in Threads PROVE CallerOK(u)'
  <2>1. CallerOK(u) BY DEF CallInv, CallersOK
  <2>2. CASE callback'[u] = callback[u]
    BY <1>3, <2>1, <2>2, CallbackAssumption DEF CallerOK, Queued
  <2>3. CASE callback'[u] # callback[u]
    <3>1. pc'[u] = "idle" /\ callback'[u] = NoCallback /\ ~waits[u] BY <1>3, <2>3
    <3> QED BY <3>1, CallbackAssumption DEF CallerOK
  <2> QED BY <2>2, <2>3
<1>5. CallersOK'
  <2>1. callback' \in [Threads -> Callbacks \cup {NoCallback}]
    BY DEF Leave, CallInv, CallersOK
  <2>2. \A u, v \in Threads : callback'[u] = callback'[v] /\ callback'[u] \in Callbacks => u = v
    BY <1>3, CallbackAssumption DEF CallInv, CallersOK
  <2> QED BY <1>4, <2>1, <2>2 DEF CallInv, CallersOK
<1> QED BY <1>1, <1>2, <1>5 DEF CallInv

LEMMA TakeWakeupCall ==
    ASSUME CallInv, FlagsOK, NEW t \in Threads, TakeWakeup(t)
    PROVE  CallInv'
<1>1. pc[t] = "wake" /\ UNCHANGED <<callbacks, running, mpc, state, sem, waits>>
  BY DEF TakeWakeup, callbackVars, mainVars
<1>2. CASE Leave(t) BY <1>1, <1>2, LeaveCall
<1>3. CASE pc' = [pc EXCEPT ![t] = "send"] /\ UNCHANGED callback
  <2>1. \A u \in Threads : pc'[u] = IF u = t THEN "send" ELSE pc[u] BY <1>3 DEF FlagsOK
  <2>2. ListsOK' BY <1>1 DEF CallInv, ListsOK
  <2>3. EntriesOK' BY <1>1 DEF CallInv, EntriesOK, Queued
  <2>4. ASSUME NEW u \in Threads PROVE CallerOK(u)'
    BY <1>1, <1>3, <2>1 DEF CallInv, CallersOK, CallerOK, Queued
  <2>5. CallersOK' BY <1>1, <1>3, <2>4 DEF CallInv, CallersOK
  <2> QED BY <2>2, <2>3, <2>5 DEF CallInv
<1> QED BY <1>2, <1>3 DEF TakeWakeup

LEMMA AwakeCall ==
    ASSUME CallInv, FlagsOK, NEW t \in Threads, Awake(t)
    PROVE  CallInv'
<1> DEFINE c == callback[t]
<1>1. /\ pc[t] = "sleep" /\ sem[c] = 1
      /\ sem' = [sem EXCEPT ![c] = 0] /\ state' = [state EXCEPT ![c] = "destroyed"]
      /\ pc' = [pc EXCEPT ![t] = "idle"] /\ callback' = [callback EXCEPT ![t] = NoCallback]
      /\ waits' = [waits EXCEPT ![t] = FALSE]
      /\ UNCHANGED <<callbacks, mpc, running>>
  BY DEF Awake, mainVars
<1>2. c \in Callbacks BY <1>1 DEF CallInv, CallersOK, CallerOK
<1>3. ~Queued(c) BY <1>1, <1>2 DEF CallInv, EntriesOK
<1>4. \A u \in Threads : u # t => callback[u] # c BY <1>2 DEF CallInv, CallersOK
<1>5. \A u \in Threads : IF u = t THEN /\ pc'[u] = "idle" /\ callback'[u] = NoCallback
                                       /\ waits'[u] = FALSE
                         ELSE UNCHANGED <<pc[u], callback[u], waits[u]>>
  BY <1>1 DEF CallInv, CallersOK, FlagsOK
<1> HIDE DEF c
<1>6. ListsOK' BY <1>1 DEF CallInv, ListsOK
<1>7. EntriesOK'
  <2>1. \A x : Queued(x)' <=> Queued(x) BY <1>1 DEF Queued
  <2> QED BY <1>1, <1>2, <1>3, <2>1 DEF CallInv, EntriesOK
<1>8. ASSUME NEW u \in Threads PROVE CallerOK(u)'
  <2>1. CASE u = t BY <1>5, <2>1, CallbackAssumption DEF CallerOK
  <2>2. CASE u # t
    <3>1. callback[u] \in Callbacks => /\ state'[callback[u]] = state[callback[u]]
                                       /\ sem'[callback[u]] = sem[callback[u]]
      BY <1>1, <1>4, <2>2 DEF CallInv, EntriesOK
    <3>2. callback[u] \notin Callbacks => callback[u] = NoCallback BY DEF CallInv, CallersOK
    <3>3. CallerOK(u) BY DEF CallInv, CallersOK
    <3> QED BY <1>1, <1>5, <2>2, <3>1, <3>2, <3>3 DEF CallerOK, Queued
  <2> QED BY <2>1, <2>2
<1>9. CallersOK'
  <2>1. callback' \in [Threads -> Callbacks \cup {NoCallback}] /\ waits' \in [Threads -> BOOLEAN]
    BY <1>1 DEF CallInv, CallersOK
  <2>2. \A u, v \in Threads : callback'[u] = callback'[v] /\ callback'[u] \in Callbacks => u = v
    BY <1>5, CallbackAssumption DEF CallInv, CallersOK
  <2> QED BY <1>8, <2>1, <2>2 DEF CallersOK
<1> QED BY <1>6, <1>7, <1>9 DEF CallInv

LEMMA ThreadIsQuiet ==
    ASSUME CallInv, FlagsOK, NEW t \in Threads,
           \/ \E e \in Events : PushEvent(t, e)
           \/ \E D \in SUBSET (Events \cup {Sentinel}) : FlushEvents(t, D)
           \/ AddEvent(t) \/ PeepEvents(t)
           \/ EnableSentinel(t) \/ DisableSentinel(t) \/ FlushSentinel(t)
    PROVE  QuietCall
<1> USE DEF QuietCall, callbackVars, mainVars
<1>1. pc[t] \in {"idle", "add", "flush"} => callback[t] = NoCallback
  BY DEF CallInv, CallersOK, CallerOK
<1> USE <1>1 DEF FlagsOK
<1>2. CASE \E e \in Events : PushEvent(t, e) BY <1>2 DEF PushEvent
<1>3. CASE \E D \in SUBSET (Events \cup {Sentinel}) : FlushEvents(t, D)
  BY <1>3 DEF FlushEvents, threadVars
<1>4. CASE AddEvent(t) BY <1>4 DEF AddEvent
<1>5. CASE PeepEvents(t) BY <1>5 DEF PeepEvents, threadVars
<1>6. CASE EnableSentinel(t) BY <1>6 DEF EnableSentinel, threadVars
<1>7. CASE DisableSentinel(t) BY <1>7 DEF DisableSentinel
<1>8. CASE FlushSentinel(t) BY <1>8 DEF FlushSentinel
<1> QED BY <1>2, <1>3, <1>4, <1>5, <1>6, <1>7, <1>8

LEMMA CallsHold == Spec => []CallInv
<1>1. Init => CallInv
  <2> SUFFICES ASSUME Init PROVE CallInv
    OBVIOUS
  <2>1. callbacks = <<>> /\ running = <<>> BY DEF Init
  <2>2. /\ <<>> \in Seq(Callbacks) /\ Once(<<>>) /\ \A c : ~InSeq(<<>>, c)
    BY EmptySeq, NothingInEmpty
  <2>3. ListsOK BY <2>1, <2>2 DEF ListsOK
  <2>4. EntriesOK BY <2>1, <2>2 DEF Init, EntriesOK, Queued
  <2>5. CallersOK BY CallbackAssumption DEF Init, CallersOK, CallerOK
  <2> QED BY <2>3, <2>4, <2>5 DEF CallInv
<1>2. ASSUME CallInv, FlagsOK, [Next]_vars PROVE CallInv'
  <2>1. CASE UNCHANGED vars
    <3>1. QuietCall BY <2>1 DEF QuietCall, vars, callbackVars, mainVars, threadVars
    <3> QED BY <1>2, <3>1, QuietCalls
  <2>2. CASE \/ \E w \in BOOLEAN : MainCall(w)
             \/ PumpEvents \/ QuitEvents \/ InitEvents \/ MainStep \/ WaitFails
    BY <1>2, <2>2, MainIsQuiet, QuietCalls, TakeCallbacksCall, RunCallbackCall, QuitEventsCall
       DEF MainStep
  <2>3. ASSUME NEW t \in Threads, ThreadCall(t) \/ ThreadStep(t) PROVE CallInv'
    <3>1. CASE QuietCall BY <1>2, <3>1, QuietCalls
    <3>2. CASE Send(t)
      <4>1. /\ pc[t] = "send" /\ Leave(t)
            /\ UNCHANGED <<callbacks, running, mpc, state, sem, waits>>
        BY <3>2 DEF Send, callbackVars, mainVars
      <4> QED BY <1>2, <4>1, LeaveCall
    <3> QED BY <1>2, <2>3, <3>1, <3>2, ThreadIsQuiet, RunOnMainThreadCall, QueueCallbackCall,
               TakeWakeupCall, AwakeCall DEF ThreadCall, ThreadStep
  <2> QED BY <1>2, <2>1, <2>2, <2>3 DEF Next
<1>3. QueueInv => FlagsOK BY DEF QueueInv
<1> QED BY <1>1, <1>2, <1>3, QueueHolds, PTL DEF Spec

\* A thread that sleeps in SDL_RunOnMainThread sleeps for an entry that still exists, and
\* that the main thread will come to or that was signalled, whoever runs, quits or frees.
THEOREM WaitersServed == Spec => []WaiterServed
<1>1. ASSUME CallInv PROVE WaiterServed
  <2> DEFINE both == callbacks \o running
  <2>1. both \in Seq(Callbacks) /\ \A c : InSeq(both, c) <=> Queued(c)
    BY <1>1, ConcatIn DEF CallInv, ListsOK, Queued
  <2>2. Once(both) BY <1>1, ConcatOnce DEF CallInv, ListsOK
  <2> HIDE DEF both
  <2>3. DOMAIN both = 1..Len(both) BY <2>1, LenProperties
  <2>4. IsInjective(both) BY <2>2, <2>3 DEF IsInjective, Once
  <2>5. \A c : c \in ToSet(both) <=> Queued(c) BY <2>1, <2>3 DEF ToSet, InSeq
  <2>6. ASSUME NEW t \in Threads, pc[t] = "sleep"
        PROVE  IF callback[t] \in ToSet(both)
               THEN state[callback[t]] = "waiting" /\ sem[callback[t]] = 0
               ELSE state[callback[t]] \in {"complete", "canceled"} /\ sem[callback[t]] = 1
    <3>1. callback[t] \in Callbacks /\ waits[t] BY <1>1, <2>6 DEF CallInv, CallersOK, CallerOK
    <3>2. CASE Queued(callback[t]) BY <1>1, <2>5, <3>1, <3>2 DEF CallInv, EntriesOK
    <3>3. CASE ~Queued(callback[t])
      BY <1>1, <2>5, <2>6, <3>1, <3>3 DEF CallInv, CallersOK, CallerOK
    <3> QED BY <3>2, <3>3
  <2> QED BY <2>4, <2>6 DEF WaiterServed, both
<1> QED BY <1>1, CallsHold, PTL

\* The values of the event queue's variables.
THEOREM EventTypeCorrect == Spec => []TypeOK
<1>1. ASSUME QueueInv, CallInv PROVE TypeOK
  <2>1. ASSUME NEW S, NEW q \in Seq(S) PROVE ToSet(q) \subseteq S
    <3>1. DOMAIN q = 1..Len(q) BY LenProperties
    <3> QED BY <3>1, ElementOfSeq DEF ToSet
  <2>2. ToSet(queue) \subseteq Entries /\ ToSet(delivered) \subseteq Events
    BY <1>1, <2>1 DEF QueueInv, QueueOK
  <2>3. ToSet(callbacks) \subseteq Callbacks /\ ToSet(running) \subseteq Callbacks
    BY <1>1, <2>1 DEF CallInv, ListsOK
  <2>4. sentinels \in Int BY <1>1 DEF QueueInv, CountOK
  <2> QED BY <1>1, <2>2, <2>3, <2>4
          DEF TypeOK, QueueInv, FlagsOK, QueueOK, CallInv, EntriesOK, CallersOK, Entries
<1> QED BY <1>1, QueueHolds, CallsHold, PTL

-----------------------------------------------------------------------------
(* The bounded FIFO: what is in the queue besides sentinels.               *)

LEMMA SameWithout == \A q, D : Fifo!Without(q, D) = Without(q, D)
BY DEF Fifo!Without, Without

\* What a step has to be that keeps the promise.
Kept == Fifo!Next \/ UNCHANGED Fifo!vars

EventsIn == Without(queue, {Sentinel})

LEMMA EventsInQueue ==
    ASSUME QueueOK
    PROVE  /\ EventsIn \in Seq(Entries) /\ Len(EventsIn) <= Len(queue)
           /\ \A x : InSeq(EventsIn, x) <=> InSeq(queue, x) /\ x # Sentinel
BY WithoutKeeps DEF QueueOK, EventsIn

LEMMA NothingSeen ==
    ASSUME UNCHANGED <<queue, delivered>>
    PROVE  Kept
BY DEF Kept, Fifo!vars

LEMMA CutAllKept ==
    ASSUME QueueOK, NEW D \in SUBSET (Events \cup {Sentinel}), CutAll(D)
    PROVE  Kept
<1> DEFINE E == D \ {Sentinel}
           S == {Sentinel}
<1>1. queue' = Without(queue, D) /\ UNCHANGED delivered BY DEF CutAll
<1>2. S \cup E = D \cup S OBVIOUS
<1>3. Without(Without(queue, D), S) = Without(queue, D \cup S) BY WithoutTwice DEF QueueOK
<1>4. Without(Without(queue, S), E) = Without(queue, S \cup E) BY WithoutTwice DEF QueueOK
<1>5. Without(queue', S) = Without(Without(queue, S), E) BY <1>1, <1>2, <1>3, <1>4
<1>6. E \in SUBSET Events OBVIOUS
<1>7. Fifo!Discard(E)
  BY <1>1, <1>5, SameWithout DEF Fifo!Discard
<1> QED BY <1>6, <1>7 DEF Kept, Fifo!Next

LEMMA TakeToKept ==
    ASSUME QueueOK, NEW w \in BOOLEAN, TakeTo(StopsAt(w))
    PROVE  Kept
<1> DEFINE n == StopsAt(w)
           S == {Sentinel}
<1>1. /\ n \in 1..Len(queue) + 1
      /\ \A i \in 1..Len(queue) : i < n => queue[i] = Sentinel
  BY StopsAtIs
<1>2. /\ queue' = SubSeq(queue, n + 1, Len(queue))
      /\ delivered' = IF Got(n) \in Events THEN Append(delivered, Got(n)) ELSE delivered
  BY DEF TakeTo
<1>3. Len(queue) \in Nat BY LenProperties DEF QueueOK
<1> HIDE DEF n, S
<1>4. CASE n = Len(queue) + 1
  <2>1. Got(n) \notin Events BY <1>3, <1>4, SentinelAssumption DEF Got
  <2>2. ASSUME NEW x \in Entries, InSeq(queue, x) PROVE x \in S
    BY <1>1, <1>3, <1>4, <2>2 DEF InSeq, S
  <2>3. Without(queue, S) = <<>> BY <2>2, WithoutAll DEF QueueOK
  <2>4. queue' = <<>>
    <3>1. Len(queue) < n + 1 /\ n + 1 \in Nat BY <1>3, <1>4
    <3> QED BY <1>2, <1>3, <3>1
  <2>5. Without(queue', S) = <<>> BY <2>4, WithoutEmpty
  <2> QED BY <1>2, <2>1, <2>3, <2>5 DEF Kept, Fifo!vars, S
<1>5. CASE n \in 1..Len(queue)
  <2>1. \A i \in 1..n - 1 : queue[i] \in S BY <1>1, <1>3, <1>5 DEF S
  <2>2. Without(queue, S) = IF queue[n] \in S THEN Without(queue', S)
                            ELSE <<queue[n]>> \o Without(queue', S)
    BY <1>2, <1>5, <2>1, WithoutFront DEF QueueOK
  <2>3. Got(n) = queue[n] /\ queue[n] \in Entries
    BY <1>3, <1>5, ElementOfSeq DEF Got, QueueOK
  <2>4. CASE queue[n] = Sentinel
    BY <1>2, <2>2, <2>3, <2>4, SentinelAssumption DEF Kept, Fifo!vars, S
  <2>5. CASE queue[n] # Sentinel
    <3> DEFINE e == queue[n]
               r == Without(queue', S)
    <3>1. e \in Events /\ e \notin S BY <2>3, <2>5 DEF Entries, S
    <3>2. queue' \in Seq(Entries) BY <1>2, <1>3, <1>5, CutFront DEF QueueOK
    <3>3. r \in Seq(Entries) BY <3>2, WithoutKeeps
    <3>4. delivered' = Append(delivered, e) /\ Without(queue, S) = <<e>> \o r
      BY <1>2, <2>2, <2>3, <3>1
    <3> HIDE DEF e, r
    <3>5. /\ Without(queue, S) # <<>> /\ Head(Without(queue, S)) = e
          /\ Tail(Without(queue, S)) = r
      BY <3>1, <3>3, <3>4, PrependHead DEF Entries
    <3>6. Fifo!Take BY <3>4, <3>5 DEF Fifo!Take, r, S
    <3> QED BY <3>6 DEF Kept, Fifo!Next
  <2> QED BY <2>4, <2>5
<1> QED BY <1>1, <1>3, <1>4, <1>5

LEMMA PushSentinelKept ==
    ASSUME QueueOK, PushSentinel
    PROVE  Kept
<1>1. UNCHANGED delivered BY DEF PushSentinel
<1>2. CASE queue' = AddLast(queue, Sentinel)
  <2> DEFINE S == {Sentinel}
  <2>1. Sentinel \in Entries /\ Sentinel \in S BY DEF Entries
  <2> HIDE DEF S
  <2>2. Without(Append(queue, Sentinel), S) = Without(queue, S)
    BY <2>1, WithoutAppend DEF QueueOK
  <2>3. Without(queue', S) = Without(queue, S) BY <1>2, <2>2 DEF AddLast
  <2> QED BY <1>1, <2>3 DEF Kept, Fifo!vars, S
<1> QED BY <1>1, <1>2, NothingSeen DEF PushSentinel

LEMMA AddEventKept ==
    ASSUME QueueOK, NEW t \in Threads, AddEvent(t)
    PROVE  Kept
<1>1. UNCHANGED delivered BY DEF AddEvent
<1>2. CASE HasRoom /\ queue' = AddLast(queue, event[t])
  <2> DEFINE e == event[t]
             S == {Sentinel}
  <2>1. e \in Events /\ ~InSeq(queue, e) /\ ~InSeq(delivered, e) BY DEF AddEvent, QueueOK
  <2>2. e \in Entries /\ e \notin S BY <2>1, SentinelAssumption DEF Entries
  <2> HIDE DEF e, S
  <2>3. Without(Append(queue, e), S) = Append(Without(queue, S), e)
    BY <2>2, WithoutAppend DEF QueueOK
  <2>4. Without(queue', S) = Append(Without(queue, S), e) BY <1>2, <2>3 DEF AddLast, e
  <2>5. /\ Without(queue, S) \in Seq(Entries) /\ Len(Without(queue, S)) <= Len(queue)
        /\ ~InSeq(Without(queue, S), e)
    BY <2>1, EventsInQueue DEF EventsIn, S
  <2>6. Len(Without(queue, S)) < MaxQueued
    <3>1. Len(Without(queue, S)) \in Nat /\ Len(queue) \in Nat
      BY <2>5, LenProperties DEF QueueOK
    <3> QED BY <1>2, <2>5, <3>1, BoundAssumption DEF HasRoom
  <2>7. e \notin ToSet(Without(queue, S)) /\ e \notin ToSet(delivered)
    <3>1. /\ DOMAIN Without(queue, S) = 1..Len(Without(queue, S))
          /\ DOMAIN delivered = 1..Len(delivered)
      BY <2>5, LenProperties DEF QueueOK
    <3> QED BY <2>1, <2>5, <3>1 DEF ToSet, InSeq
  <2>8. Fifo!Put(e)
    BY <1>1, <2>4, <2>6, <2>7 DEF Fifo!Put, Fifo!ToSet, ToSet, S
  <2> QED BY <2>1, <2>8 DEF Kept, Fifo!Next
<1> QED BY <1>1, <1>2, NothingSeen DEF AddEvent

LEMMA QuitEventsKept ==
    ASSUME QueueOK, QuitEvents
    PROVE  Kept
<1>1. queue' = <<>> /\ UNCHANGED delivered BY DEF QuitEvents
<1>2. EventsIn \in Seq(Entries) /\ \A x : InSeq(EventsIn, x) => x # Sentinel
  BY EventsInQueue
<1> HIDE DEF EventsIn
<1>3. \A x \in Entries : InSeq(EventsIn, x) => x \in Events BY <1>2 DEF Entries
<1>4. Without(EventsIn, Events) = <<>> BY <1>2, <1>3, WithoutAll
<1>5. Without(queue', {Sentinel}) = <<>> BY <1>1, WithoutEmpty
<1>6. Fifo!Discard(Events)
  BY <1>1, <1>4, <1>5, SameWithout DEF Fifo!Discard, EventsIn
<1>7. Events \in SUBSET Events OBVIOUS
<1> QED BY <1>6, <1>7 DEF Kept, Fifo!Next

LEMMA MainKept ==
    ASSUME QueueOK,
           \/ \E w \in BOOLEAN : MainCall(w)
           \/ PumpEvents \/ QuitEvents \/ InitEvents \/ MainStep \/ WaitFails
    PROVE  Kept
<1> USE NothingSeen DEF queueVars
<1>1. CASE \E w \in BOOLEAN : MainCall(w) BY <1>1 DEF MainCall, WaitEvent
<1>2. CASE PumpEvents BY <1>2 DEF PumpEvents
<1>3. CASE QuitEvents BY <1>3, QuitEventsKept
<1>4. CASE InitEvents BY <1>4 DEF InitEvents
<1>5. CASE TakeCallbacks BY <1>5 DEF TakeCallbacks
<1>6. CASE RunCallback BY <1>6 DEF RunCallback
<1>7. CASE PumpDevice BY <1>7 DEF PumpDevice
<1>8. CASE CutOldSentinel
  <2>1. CutAll({Sentinel}) \/ UNCHANGED <<queue, delivered>>
    BY <1>8 DEF CutOldSentinel, OldSentinels
  <2> QED BY <2>1, CutAllKept
<1>9. CASE PushSentinel BY <1>9, PushSentinelKept
<1>10. CASE FirstGet
  <2>1. TakeTo(StopsAt(mode = "poll")) \/ UNCHANGED <<queue, delivered>>
    BY <1>10 DEF FirstGet
  <2>2. (mode = "poll") \in BOOLEAN OBVIOUS
  <2> QED BY <2>1, <2>2, TakeToKept
<1>11. CASE FirstCount BY <1>11 DEF FirstCount
<1>12. CASE PeekSentinel BY <1>12 DEF PeekSentinel
<1>13. CASE CutSentinel BY <1>13, CutAllKept DEF CutSentinel
<1>14. CASE SelectWait BY <1>14 DEF SelectWait
<1>15. CASE LookInDevice \/ LookInLoop
  <2>1. TakeTo(StopsAt(FALSE)) \/ UNCHANGED <<queue, delivered>>
    BY <1>15 DEF LookInDevice, LookInLoop, LookAgain
  <2> QED BY <2>1, TakeToKept
<1>16. CASE Arm BY <1>16 DEF Arm
<1>17. CASE Wait BY <1>17 DEF Wait
<1>18. CASE WaitFails BY <1>18 DEF WaitFails
<1>19. CASE Disarm BY <1>19 DEF Disarm
<1> QED BY <1>1, <1>2, <1>3, <1>4, <1>5, <1>6, <1>7, <1>8, <1>9, <1>10, <1>11, <1>12, <1>13,
           <1>14, <1>15, <1>16, <1>17, <1>18, <1>19 DEF MainStep

LEMMA ThreadKept ==
    ASSUME QueueOK, NEW t \in Threads, ThreadCall(t) \/ ThreadStep(t)
    PROVE  Kept
<1> USE NothingSeen DEF queueVars
<1>1. ASSUME NEW e \in Events, PushEvent(t, e) PROVE Kept BY <1>1 DEF PushEvent
<1>2. CASE AddEvent(t) BY <1>2, AddEventKept
<1>3. ASSUME NEW c, NEW w, RunOnMainThread(t, c, w) PROVE Kept BY <1>3 DEF RunOnMainThread
<1>4. CASE QueueCallback(t) BY <1>4 DEF QueueCallback
<1>5. CASE TakeWakeup(t) BY <1>5 DEF TakeWakeup
<1>6. CASE Send(t) BY <1>6 DEF Send
<1>7. CASE Awake(t) BY <1>7 DEF Awake
<1>8. CASE PeepEvents(t) BY <1>8, TakeToKept DEF PeepEvents
<1>9. ASSUME NEW D \in SUBSET (Events \cup {Sentinel}), FlushEvents(t, D) PROVE Kept
  BY <1>9, CutAllKept DEF FlushEvents
<1>10. CASE EnableSentinel(t) BY <1>10 DEF EnableSentinel
<1>11. CASE DisableSentinel(t) BY <1>11 DEF DisableSentinel
<1>12. CASE FlushSentinel(t) BY <1>12, CutAllKept DEF FlushSentinel
<1> QED BY <1>1, <1>2, <1>3, <1>4, <1>5, <1>6, <1>7, <1>8, <1>9, <1>10, <1>11, <1>12
        DEF ThreadCall, ThreadStep

\* Whatever the main thread and the others push, take, flush, disable and quit, the events
\* in the queue form a bounded FIFO: each is handed out at most once and in the order in
\* which they were pushed, and sentinels do not disturb them.
THEOREM KeepsFifo == Spec => FifoKept
<1>1. Init => Fifo!Init
  BY WithoutEmpty DEF Init, Fifo!Init
<1>2. QueueInv /\ [Next]_vars => [Fifo!Next]_Fifo!vars
  <2> SUFFICES ASSUME QueueInv, [Next]_vars PROVE Kept
    BY DEF Kept
  <2>1. CASE UNCHANGED vars BY <2>1, NothingSeen DEF vars, queueVars
  <2>2. CASE Next BY <2>2, MainKept, ThreadKept DEF Next, QueueInv
  <2> QED BY <2>1, <2>2
<1> QED BY <1>1, <1>2, QueueHolds, PTL DEF Spec, FifoKept, Fifo!Spec
=============================================================================
