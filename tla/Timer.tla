-------------------------------- MODULE Timer --------------------------------
(***************************************************************************)
(* SDL's timers (src/src/timer/SDL_timer.c).  Any thread may add or remove *)
(* a timer; one thread runs the callbacks from a list sorted by time.      *)
(*                                                                         *)
(* A new timer goes on the pending list and the timer thread is signalled; *)
(* that thread moves the pending timers to its own list, runs the ones     *)
(* that are due, and hands the finished ones back through the free list,   *)
(* from which the next SDL_AddTimer recycles them.  A timer is found by    *)
(* its id in a map of entries; removing one unlinks its entry and sets a   *)
(* flag in the timer.                                                      *)
(*                                                                         *)
(* One action is one critical section or one access to what threads share. *)
(* A callback may itself call SDL_AddTimer and SDL_RemoveTimer: it is the  *)
(* caller Callback, which runs only while the timer thread is in one.      *)
(***************************************************************************)
EXTENDS Integers, Sequences, FiniteSets

CONSTANTS Apps, Callback,    \* who calls
          Structs, NoStruct, \* the SDL_Timer structures memory has room for
          MaxId,             \* bound on the ids handed out
          MaxNow,            \* bound on time
          Intervals          \* the intervals used, in ticks of the clock

ASSUME CallersAssumption == Callback \notin Apps /\ IsFiniteSet(Apps)
ASSUME StructsAssumption == IsFiniteSet(Structs) /\ NoStruct \notin Structs
ASSUME BoundsAssumption == MaxId \in Nat /\ MaxNow \in Nat /\ Intervals \subseteq Nat

VARIABLES
    init, active, sem, pending, freelist, timers, \* SDL_TimerData
    timerID, scheduled, canceled,                 \* SDL_Timer
    entry, owner,                                 \* SDL_TimerMap
    allocated, lastId,                            \* the heap, SDL_GetNextObjectID
    tpc, tick, wakeAt, current, unused,           \* the timer thread
    cpc, ctimer, cid, rid,                        \* the callers
    now,                                          \* SDL_GetTicksNS
    known, removed                                \* history: the ids the app knows, and
                                                  \* those it removed

dataVars == <<init, active, sem, pending, freelist, timers>>
timerVars == <<timerID, scheduled, canceled>>
entryVars == <<entry, owner>>
heapVars == <<allocated, lastId>>
threadVars == <<tpc, tick, wakeAt, current, unused>>
callVars == <<cpc, ctimer, cid, rid>>
historyVars == <<known, removed>>
vars == <<dataVars, timerVars, entryVars, heapVars, threadVars, callVars, now, historyVars>>

Callers == Apps \cup {Callback}
Ids == 1..MaxId
NoId == 0
Never == MaxNow + 1 + MaxNow   \* later than anything that is scheduled

ThreadStates == {"off", "maintain", "active", "loop", "check", "callback", "wait"}
CallStates == {"idle", "init", "fail", "pop", "fill", "map", "pend", "signal", "return",
               "find", "check", "cancel", "quit", "join", "cleanup"}

Init ==
    /\ init = "UNINITIALIZED" /\ active = FALSE /\ sem = 0
    /\ pending = <<>> /\ freelist = <<>> /\ timers = <<>>
    /\ timerID = [s \in Structs |-> NoId]
    /\ scheduled = [s \in Structs |-> 0]
    /\ canceled = [s \in Structs |-> FALSE]
    /\ entry = [i \in Ids |-> "none"]
    /\ owner = [i \in Ids |-> NoStruct]
    /\ allocated = {} /\ lastId = NoId
    /\ tpc = "off" /\ tick = 0 /\ wakeAt = 0 /\ current = NoStruct /\ unused = <<>>
    /\ cpc = [c \in Callers |-> "idle"]
    /\ ctimer = [c \in Callers |-> NoStruct]
    /\ cid = [c \in Callers |-> NoId]
    /\ rid = [c \in Callers |-> NoId]
    /\ now = 0
    /\ known = {} /\ removed = {}

-----------------------------------------------------------------------------
(* SDL_CreateTimer.                                                        *)

\* A callback calls while it runs, the others any time; the app's own quit has the app,
\* but not the callbacks, to itself.
CanCall(c) ==
    /\ cpc[c] = "idle"
    /\ c = Callback => tpc = "callback"
    /\ c \in Apps => \A a \in Apps : cpc[a] \notin {"quit", "join"}

\* The callers that have yet to take an id: the bound on ids leaves one for each.
Awaiting == {c \in Callers : \/ cpc[c] \in {"init", "pop", "fill"}
                             \/ cpc[c] \in {"find", "check", "cancel"} /\ ctimer[c] # NoStruct}

\* SDL_AddTimer, SDL_AddTimerNS.
AddTimer(c) ==
    /\ CanCall(c) /\ lastId + Cardinality(Awaiting) < MaxId
    /\ cpc' = [cpc EXCEPT ![c] = "init"]
    /\ UNCHANGED <<dataVars, timerVars, entryVars, heapVars, threadVars, ctimer, cid, rid, now,
                   historyVars>>

\* SDL_InitTimers, which the first caller performs; SDL_ShouldInit makes a caller
\* wait while a quit is under way.  When it fails, with or without active set, the timers
\* count as initialized until the caller has quit them.
CheckInit(c) ==
    /\ cpc[c] = "init"
    /\ \/ init = "INITIALIZED" /\ UNCHANGED <<init, active, sem, tpc>>
          /\ cpc' = [cpc EXCEPT ![c] = "pop"]
       \/ /\ init = "UNINITIALIZED"
          /\ init' = "INITIALIZED" /\ active' = TRUE /\ sem' = 0
          /\ tpc' = "maintain"
          /\ cpc' = [cpc EXCEPT ![c] = "pop"]
       \/ /\ init = "UNINITIALIZED"
          /\ init' = "INITIALIZED" /\ active' \in {active, TRUE} /\ sem' = 0
          /\ cpc' = [cpc EXCEPT ![c] = "fail"]
          /\ UNCHANGED tpc
    /\ UNCHANGED <<pending, freelist, timers, timerVars, entryVars, heapVars, tick, wakeAt,
                   current, unused, ctimer, cid, rid, now, historyVars>>

\* SDL_QuitTimers begins, by the caller that failed to start the thread.
QuitFailed(c) ==
    /\ cpc[c] = "fail" /\ init = "INITIALIZED"
    /\ init' = "UNINITIALIZING" /\ active' = FALSE
    /\ cpc' = [cpc EXCEPT ![c] = "cleanup"]
    /\ UNCHANGED <<sem, pending, freelist, timers, timerVars, entryVars, heapVars, threadVars,
                   ctimer, cid, rid, now, historyVars>>

\* Mutant: a recycled timer keeps its old entry in the map.
FillAtOnce(s) == "fill"

\* A recycled timer is removed from the map under its old id first.
AfterPop(s) == "find"

\* Take a timer off the free list, or allocate one; that may fail.
Pop(c) ==
    /\ cpc[c] = "pop"
    /\ \/ /\ freelist # <<>>
          /\ freelist' = Tail(freelist)
          /\ ctimer' = [ctimer EXCEPT ![c] = Head(freelist)]
          /\ rid' = [rid EXCEPT ![c] = timerID[Head(freelist)]]
          /\ cpc' = [cpc EXCEPT ![c] = AfterPop(Head(freelist))]
          /\ UNCHANGED allocated
       \/ /\ freelist = <<>>
          /\ \E s \in Structs \ allocated :
                /\ allocated' = allocated \cup {s}
                /\ ctimer' = [ctimer EXCEPT ![c] = s]
          /\ cpc' = [cpc EXCEPT ![c] = "fill"]
          /\ UNCHANGED <<freelist, rid>>
       \/ /\ freelist = <<>>
          /\ cpc' = [cpc EXCEPT ![c] = "idle"]
          /\ UNCHANGED <<freelist, ctimer, rid, allocated>>
    /\ UNCHANGED <<init, active, sem, pending, timers, timerVars, entryVars, lastId, threadVars,
                   cid, now, historyVars>>

\* Fill in the timer, under a new id.
Fill(c) ==
    LET s == ctimer[c]
    IN /\ cpc[c] = "fill"
       /\ lastId' = lastId + 1
       /\ timerID' = [timerID EXCEPT ![s] = lastId + 1]
       /\ \E n \in Intervals : scheduled' = [scheduled EXCEPT ![s] = now + n]
       /\ canceled' = [canceled EXCEPT ![s] = FALSE]
       /\ cid' = [cid EXCEPT ![c] = lastId + 1]
       /\ cpc' = [cpc EXCEPT ![c] = "map"]
       /\ UNCHANGED <<dataVars, entryVars, allocated, threadVars, ctimer, rid, now, historyVars>>

\* Allocate an entry for the id and link it in the map.  When there is no memory the
\* timer is freed.
Map(c) ==
    /\ cpc[c] = "map"
    /\ \/ /\ entry' = [entry EXCEPT ![cid[c]] = "mapped"]
          /\ owner' = [owner EXCEPT ![cid[c]] = ctimer[c]]
          /\ cpc' = [cpc EXCEPT ![c] = "pend"]
          /\ UNCHANGED <<allocated, ctimer, cid>>
       \/ /\ allocated' = allocated \ {ctimer[c]}
          /\ ctimer' = [ctimer EXCEPT ![c] = NoStruct]
          /\ cid' = [cid EXCEPT ![c] = NoId]
          /\ cpc' = [cpc EXCEPT ![c] = "idle"]
          /\ UNCHANGED entryVars
    /\ UNCHANGED <<dataVars, timerVars, lastId, threadVars, rid, now, historyVars>>

\* Mutant: a pending timer is overwritten.
PendOnly(s) == <<s>>

\* The pending list with s in front.
Pended(s) == <<s>> \o pending

\* Hand the timer to the timer thread.
Pend(c) ==
    /\ cpc[c] = "pend"
    /\ pending' = Pended(ctimer[c])
    /\ ctimer' = [ctimer EXCEPT ![c] = NoStruct]
    /\ cpc' = [cpc EXCEPT ![c] = "signal"]
    /\ UNCHANGED <<init, active, sem, freelist, timers, timerVars, entryVars, heapVars, threadVars,
                   cid, rid, now, historyVars>>

\* Mutant: the semaphore is not signalled.
NoSignal(n) == n

\* SDL_SignalSemaphore.
Signal(n) == n + 1

SignalThread(c) ==
    /\ cpc[c] = "signal"
    /\ sem' = Signal(sem)
    /\ cpc' = [cpc EXCEPT ![c] = "return"]
    /\ UNCHANGED <<init, active, pending, freelist, timers, timerVars, entryVars, heapVars,
                   threadVars, ctimer, cid, rid, now, historyVars>>

\* return entry->timerID.
Return(c) ==
    /\ cpc[c] = "return"
    /\ known' = known \cup {cid[c]}
    /\ cid' = [cid EXCEPT ![c] = NoId]
    /\ cpc' = [cpc EXCEPT ![c] = "idle"]
    /\ UNCHANGED <<dataVars, timerVars, entryVars, heapVars, threadVars, ctimer, rid, now, removed>>

-----------------------------------------------------------------------------
(* SDL_RemoveTimer, called by the app or by SDL_CreateTimer.               *)

RemoveTimer(c, i) ==
    /\ CanCall(c) /\ i \in known
    /\ rid' = [rid EXCEPT ![c] = i]
    /\ cpc' = [cpc EXCEPT ![c] = "find"]
    /\ UNCHANGED <<dataVars, timerVars, entryVars, heapVars, threadVars, ctimer, cid, now,
                   historyVars>>

\* Back from SDL_RemoveTimer.
AfterRemove(c) == IF ctimer[c] # NoStruct THEN "fill" ELSE "idle"

\* Unlink the entry of the id, if it is in the map.
Find(c) ==
    /\ cpc[c] = "find"
    /\ \/ /\ entry[rid[c]] = "mapped"
          /\ entry' = [entry EXCEPT ![rid[c]] = "taken"]
          /\ cpc' = [cpc EXCEPT ![c] = "check"]
          /\ UNCHANGED rid
       \/ /\ entry[rid[c]] # "mapped"
          /\ cpc' = [cpc EXCEPT ![c] = AfterRemove(c)]
          /\ rid' = [rid EXCEPT ![c] = NoId]
          /\ UNCHANGED entry
    /\ UNCHANGED <<dataVars, timerVars, owner, heapVars, threadVars, ctimer, cid, now, historyVars>>

\* Look at the flag of the timer it names ...
CheckCanceled(c) ==
    /\ cpc[c] = "check"
    /\ IF canceled[owner[rid[c]]]
       THEN /\ entry' = [entry EXCEPT ![rid[c]] = "freed"]
            /\ cpc' = [cpc EXCEPT ![c] = AfterRemove(c)]
            /\ rid' = [rid EXCEPT ![c] = NoId]
       ELSE /\ cpc' = [cpc EXCEPT ![c] = "cancel"]
            /\ UNCHANGED <<entry, rid>>
    /\ UNCHANGED <<dataVars, timerVars, owner, heapVars, threadVars, ctimer, cid, now, historyVars>>

\* ... set it, and free the entry: the timer is removed.
Cancel(c) ==
    /\ cpc[c] = "cancel"
    /\ canceled' = [canceled EXCEPT ![owner[rid[c]]] = TRUE]
    /\ entry' = [entry EXCEPT ![rid[c]] = "freed"]
    /\ removed' = removed \cup {rid[c]}
    /\ cpc' = [cpc EXCEPT ![c] = AfterRemove(c)]
    /\ rid' = [rid EXCEPT ![c] = NoId]
    /\ UNCHANGED <<dataVars, timerID, scheduled, owner, heapVars, threadVars, ctimer, cid, now,
                   known>>

-----------------------------------------------------------------------------
(* SDL_QuitTimers, by an app that has no other thread in a timer call.     *)

Quit(a) ==
    /\ init = "INITIALIZED" /\ \A b \in Apps : cpc[b] = "idle"
    /\ init' = "UNINITIALIZING" /\ active' = FALSE
    /\ cpc' = [cpc EXCEPT ![a] = "quit"]
    /\ UNCHANGED <<sem, pending, freelist, timers, timerVars, entryVars, heapVars, threadVars,
                   ctimer, cid, rid, now, historyVars>>

QuitSignal(a) ==
    /\ cpc[a] = "quit"
    /\ sem' = Signal(sem)
    /\ cpc' = [cpc EXCEPT ![a] = "join"]
    /\ UNCHANGED <<init, active, pending, freelist, timers, timerVars, entryVars, heapVars,
                   threadVars, ctimer, cid, rid, now, historyVars>>

\* What the loops that clean up free, of the structures given.
Freed(ss) == {s \in ss : \E i \in DOMAIN (timers \o freelist) : (timers \o freelist)[i] = s}

\* The thread is gone, or there was none: the two lists and the map are freed.
QuitJoin(a) ==
    /\ cpc[a] \in {"join", "cleanup"} /\ tpc = "off"
    /\ allocated' = allocated \ Freed(allocated)
    /\ timers' = <<>> /\ freelist' = <<>>
    /\ entry' = [i \in Ids |-> IF entry[i] = "mapped" THEN "freed" ELSE entry[i]]
    /\ init' = "UNINITIALIZED"
    /\ cpc' = [cpc EXCEPT ![a] = "idle"]
    /\ UNCHANGED <<active, sem, pending, timerVars, owner, lastId, threadVars, ctimer, cid, rid, now,
                   historyVars>>

-----------------------------------------------------------------------------
(* SDL_TimerThread.                                                        *)

\* Mutant: timers are kept in the order they came.
AddLast(ts, s, at) == Append(ts, s)

\* SDL_AddTimerInternal: s goes before the first timer that is scheduled later.
AddSorted(ts, s, at) ==
    LET later == {i \in DOMAIN ts : at[ts[i]] > at[s]}
        n == IF later = {} THEN Len(ts) + 1
             ELSE CHOOSE i \in later : \A j \in later : i <= j
    IN SubSeq(ts, 1, n - 1) \o <<s>> \o SubSeq(ts, n, Len(ts))

\* The pending timers are sorted in one after the other.
AddPending ==
    LET add[n \in 0..Len(pending)] ==
            IF n = 0 THEN timers ELSE AddSorted(add[n - 1], pending[n], scheduled)
    IN add[Len(pending)]

\* Pending and free list maintenance.
Maintain ==
    /\ tpc = "maintain"
    /\ timers' = AddPending
    /\ pending' = <<>>
    /\ freelist' = unused \o freelist
    /\ unused' = <<>>
    /\ tpc' = "active"
    /\ UNCHANGED <<init, active, sem, timerVars, entryVars, heapVars, tick, wakeAt, current,
                   callVars, now, historyVars>>

\* The thread ends when it is told to, or begins to process timers.
CheckActive ==
    /\ tpc = "active"
    /\ IF active
       THEN tpc' = "loop" /\ tick' = now
       ELSE tpc' = "off" /\ UNCHANGED tick
    /\ UNCHANGED <<dataVars, timerVars, entryVars, heapVars, wakeAt, current, unused, callVars, now,
                   historyVars>>

\* Mutant: the thread sleeps as if there were no timer.
SleepOn(ts) == Never

\* When to wake up: at the time of the first timer, or never.
NextTime(ts) == IF ts = <<>> THEN Never ELSE scheduled[Head(ts)]

\* The first timer is taken if it is due; otherwise the thread goes to sleep.
ProcessTimers ==
    /\ tpc = "loop"
    /\ IF timers # <<>> /\ tick >= scheduled[Head(timers)]
       THEN /\ current' = Head(timers)
            /\ timers' = Tail(timers)
            /\ tpc' = "check"
            /\ UNCHANGED wakeAt
       ELSE /\ wakeAt' = NextTime(timers)
            /\ tpc' = "wait"
            /\ UNCHANGED <<current, timers>>
    /\ UNCHANGED <<init, active, sem, pending, freelist, timerVars, entryVars, heapVars, tick,
                   unused, callVars, now, historyVars>>

\* The timer is done: it is put with the ones to recycle, marked canceled.
Finish ==
    /\ unused' = Append(unused, current)
    /\ canceled' = [canceled EXCEPT ![current] = TRUE]
    /\ current' = NoStruct
    /\ tpc' = "loop"
    /\ UNCHANGED <<scheduled, timers>>

\* Mutant: the flag is not looked at.
Ignored(s) == FALSE

\* The flag of the timer that is due.
IsCanceled(s) == canceled[s]

\* The callback is called, unless the timer was canceled.
CheckTimer ==
    /\ tpc = "check"
    /\ \/ IsCanceled(current) /\ Finish /\ UNCHANGED known
       \/ /\ ~IsCanceled(current)
          /\ tpc' = "callback"
          /\ known' = known \cup {timerID[current]}
          /\ UNCHANGED <<unused, canceled, current, scheduled, timers>>
    /\ UNCHANGED <<init, active, sem, pending, freelist, timerID, entryVars, heapVars, tick, wakeAt,
                   callVars, now, removed>>

\* The callback returns: 0 ends the timer, an interval schedules it again.
CallbackReturns ==
    /\ tpc = "callback" /\ cpc[Callback] = "idle"
    /\ \/ Finish
       \/ /\ \E n \in Intervals \ {0} :
                /\ scheduled' = [scheduled EXCEPT ![current] = tick + n]
                /\ timers' = AddSorted(timers, current, scheduled')
          /\ current' = NoStruct
          /\ tpc' = "loop"
          /\ UNCHANGED <<unused, canceled>>
    /\ UNCHANGED <<init, active, sem, pending, freelist, timerID, entryVars, heapVars, tick, wakeAt,
                   callVars, now, historyVars>>

\* Mutant: a semaphore that is not signalled lets the thread through.
LetThrough(n) == n >= 0

\* The semaphore can be taken.
Signaled(n) == n > 0

\* SDL_WaitSemaphoreTimeoutNS ends: signalled, or timed out.  The two times are dead
\* until they are set again.
Wake ==
    /\ tpc = "wait"
    /\ \/ Signaled(sem) /\ sem' = sem - 1
       \/ now >= wakeAt /\ UNCHANGED sem
    /\ tpc' = "maintain" /\ tick' = 0 /\ wakeAt' = 0
    /\ UNCHANGED <<init, active, pending, freelist, timers, timerVars, entryVars, heapVars,
                   current, unused, callVars, now, historyVars>>

\* Time passes.
Tick ==
    /\ now < MaxNow
    /\ now' = now + 1
    /\ UNCHANGED <<dataVars, timerVars, entryVars, heapVars, threadVars, callVars, historyVars>>

-----------------------------------------------------------------------------

Call(c) == AddTimer(c) \/ \E i \in Ids : RemoveTimer(c, i)

\* The steps of a caller inside a call.
Continue(c) ==
    \/ CheckInit(c) \/ QuitFailed(c) \/ Pop(c) \/ Fill(c) \/ Map(c) \/ Pend(c) \/ SignalThread(c) \/ Return(c)
    \/ Find(c) \/ CheckCanceled(c) \/ Cancel(c)
    \/ QuitSignal(c) \/ QuitJoin(c)

TimerThread ==
    Maintain \/ CheckActive \/ ProcessTimers \/ CheckTimer \/ CallbackReturns \/ Wake

Next ==
    \/ \E c \in Callers : Call(c) \/ Continue(c)
    \/ \E a \in Apps : Quit(a)
    \/ TimerThread
    \/ Tick

Spec == Init /\ [][Next]_vars

-----------------------------------------------------------------------------
SeqOfStructs == UNION {[1..n -> Structs] : n \in 0..Cardinality(Structs)}

TypeOK ==
    /\ init \in {"UNINITIALIZED", "INITIALIZED", "UNINITIALIZING"}
    /\ active \in BOOLEAN /\ sem \in Nat
    /\ pending \in SeqOfStructs /\ freelist \in SeqOfStructs /\ timers \in SeqOfStructs
    /\ timerID \in [Structs -> Ids \cup {NoId}]
    /\ scheduled \in [Structs -> Nat]
    /\ canceled \in [Structs -> BOOLEAN]
    /\ entry \in [Ids -> {"none", "mapped", "taken", "freed"}]
    /\ owner \in [Ids -> Structs \cup {NoStruct}]
    /\ allocated \subseteq Structs /\ lastId \in Ids \cup {NoId}
    /\ tpc \in ThreadStates /\ tick \in Nat /\ wakeAt \in Nat
    /\ current \in Structs \cup {NoStruct} /\ unused \in SeqOfStructs
    /\ cpc \in [Callers -> CallStates]
    /\ ctimer \in [Callers -> Structs \cup {NoStruct}]
    /\ cid \in [Callers -> Ids \cup {NoId}] /\ rid \in [Callers -> Ids \cup {NoId}]
    /\ now \in 0..MaxNow
    /\ known \subseteq Ids /\ removed \subseteq Ids

\* The places a timer is in.
Places(s) ==
    LET lists == pending \o freelist \o timers \o unused
    IN Cardinality({i \in DOMAIN lists : lists[i] = s})
       + Cardinality({c \in Callers : ctimer[c] = s}) + (IF current = s THEN 1 ELSE 0)

\* A timer that is allocated is in one place: on one of the four lists, in the hands of
\* the thread that creates it, or of the timer thread that processes it.  A timer is
\* never freed while it is somewhere, and never recycled while it is scheduled.
OnePlace ==
    \A s \in Structs : Places(s) = IF s \in allocated THEN 1 ELSE 0

\* The timer thread's list is sorted by time, whatever other threads add and whatever
\* the callbacks return.
TimersSorted ==
    \A i, j \in DOMAIN timers : i < j => scheduled[timers[i]] <= scheduled[timers[j]]

\* An entry in the map names a timer that is still the timer of that id: recycling a
\* structure under a new id never leaves its old id behind.
MapIsCurrent ==
    \A i \in Ids : entry[i] = "mapped" => /\ owner[i] \in allocated
                                          /\ timerID[owner[i]] = i

\* The timer thread never sleeps past a timer: if nobody is about to signal it, then
\* nothing is pending and it wakes up at the time of the first timer.
NoOversleep ==
    tpc = "wait" /\ sem = 0 /\ (\A c \in Callers : cpc[c] \notin {"signal", "quit"}) =>
        /\ pending = <<>> /\ active
        /\ \A i \in DOMAIN timers : wakeAt <= scheduled[timers[i]]

\* When SDL_RemoveTimer has returned true, the timer's callback is not called any more
\* (one that runs already may go on).
RemovedNeverCalled ==
    [][tpc = "check" /\ tpc' = "callback" => timerID[current] \notin removed]_vars

-----------------------------------------------------------------------------
(* What the code does not keep.                                            *)

\* "\param id the ID of the timer to remove" (SDL_timer.h): SDL_RemoveTimer cancels the
\* timer of that id, and no other.
RemovesThatTimer ==
    [][\A c \in Callers : Cancel(c) => timerID[owner[rid[c]]] = rid[c]]_vars

-----------------------------------------------------------------------------
(* Liveness: threads inside a call and the timer thread go on, and time    *)
(* passes.  A callback returns in the end: it does not call SDL_AddTimer   *)
(* and SDL_RemoveTimer for ever.                                           *)

Fairness ==
    /\ \A c \in Callers : WF_vars(Continue(c))
    /\ WF_vars(TimerThread) /\ SF_vars(CallbackReturns) /\ WF_vars(Tick)

FairSpec == Spec /\ Fairness

\* The timer of id i is on its way to its callback.
Waiting(i) ==
    \E s \in Structs :
       /\ timerID[s] = i /\ ~canceled[s] /\ scheduled[s] <= MaxNow
       /\ \E k \in DOMAIN (pending \o timers) : (pending \o timers)[k] = s

\* A timer that was added is called when its time has come, unless it is removed or the
\* timers are quit.
TimerIsServed ==
    \A i \in Ids : Waiting(i) ~> \/ tpc = "callback" /\ timerID[current] = i
                                 \/ \E s \in Structs : timerID[s] = i /\ canceled[s]
                                 \/ init # "INITIALIZED"

\* A callback that calls SDL_AddTimer while the timers are quit waits for them to be
\* started again, and with it the timer thread.
CallbackSpins == cpc[Callback] = "init" /\ init = "UNINITIALIZING"

\* SDL_QuitTimers returns, whatever the timer thread was doing, unless it waits for a
\* callback that calls SDL_AddTimer.
OnlyCallbackBlocksQuit == init = "UNINITIALIZING" ~> init = "UNINITIALIZED" \/ CallbackSpins

-----------------------------------------------------------------------------
(* Liveness that the code does not keep.                                   *)

\* "It is safe to call this function from any thread." (SDL_timer.h, of SDL_AddTimer): a
\* callback that calls it does not keep SDL_QuitTimers from returning.
QuitEnds == init = "UNINITIALIZING" ~> init = "UNINITIALIZED"
=============================================================================
