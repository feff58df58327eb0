-------------------------------- MODULE Events --------------------------------
(***************************************************************************)
(* SDL's event queue (src/src/events/SDL_events.c).  Any thread may push,  *)
(* take and discard events and may ask the main thread to run a callback;  *)
(* the main thread pumps, polls and waits.                                 *)
(*                                                                         *)
(* To wait, the main thread looks at the queue, announces the window by    *)
(* which it can be woken, and waits in the video driver; a thread that has *)
(* queued something takes the announcement and sends that window a         *)
(* message.  A poll cycle is ended by a sentinel, an event that the pump   *)
(* puts behind the others.                                                 *)
(*                                                                         *)
(* One action is one critical section of the queue's or the callbacks'     *)
(* lock, or one access to the wake-up window.  Event filters and watchers  *)
(* may refuse an event, which then is not put in at all.                   *)
(***************************************************************************)
EXTENDS Integers, Sequences, FiniteSets, SequencesExt, Lists

CONSTANTS Threads,             \* all but the main thread
          Events, NoEvent,     \* each is pushed once
          Callbacks, NoCallback, \* the entries of SDL_RunOnMainThread, each used once
          Sentinel,            \* SDL_EVENT_POLL_SENTINEL
          MaxQueued,           \* SDL_MAX_QUEUED_EVENTS
          Polling              \* must something be polled: is the wait cut in intervals?

ASSUME SentinelAssumption == Sentinel \notin Events /\ NoEvent \notin Events \cup {Sentinel}
ASSUME CallbackAssumption == NoCallback \notin Callbacks
ASSUME BoundAssumption == MaxQueued \in Nat \ {0} /\ Polling \in BOOLEAN

VARIABLES
    active, queue,              \* SDL_EventQ
    sentinels, sentinelOn,      \* SDL_sentinel_pending; is the sentinel's type enabled?
    wakeup, messages,           \* is wakeup_window set; are there messages to read?
    callbacks, state, sem,      \* the main thread callbacks, and their entries
    mpc, mode, wanted, after, running, \* the main thread
    pc, event, callback, waits, \* the other threads
    delivered                   \* history: the events handed to the app

queueVars == <<active, queue, sentinels, sentinelOn>>
wakeVars == <<wakeup, messages>>
callbackVars == <<callbacks, state, sem>>
callVars == <<mode, wanted, after>>
mainVars == <<mpc, callVars, running>>
threadVars == <<pc, event, callback, waits>>
vars == <<queueVars, wakeVars, callbackVars, mainVars, threadVars, delivered>>

Modes == {"poll", "timed", "forever"}
MainStates == {"idle", "pump", "run", "sentinel", "push", "first", "peek", "cut", "select",
               "device", "arm", "wait", "disarm", "loop"}
ThreadStates == {"idle", "add", "queue", "wake", "send", "sleep", "flush"}

Init ==
    /\ active = TRUE /\ queue = <<>> /\ sentinels = 0 /\ sentinelOn = TRUE
    /\ wakeup = FALSE /\ messages = FALSE
    /\ callbacks = <<>>
    /\ state = [c \in Callbacks |-> "unused"] /\ sem = [c \in Callbacks |-> 0]
    /\ mpc = "idle" /\ mode = "poll" /\ wanted = FALSE /\ after = "idle" /\ running = <<>>
    /\ pc = [t \in Threads |-> "idle"]
    /\ event = [t \in Threads |-> NoEvent]
    /\ callback = [t \in Threads |-> NoCallback]
    /\ waits = [t \in Threads |-> FALSE]
    /\ delivered = <<>>

-----------------------------------------------------------------------------
(* Under the queue's lock.                                                 *)

\* Mutant: the event goes in front.
AddFirst(q, e) == <<e>> \o q

\* SDL_AddEvent: e at the tail.
AddLast(q, e) == Append(q, e)

\* Mutant: one entry too many.
OneMore == active /\ Len(queue) <= MaxQueued

\* There may be no memory for an entry even if the queue is not full.
HasRoom == active /\ Len(queue) < MaxQueued

SentinelsIn(q) == {i \in DOMAIN q : q[i] = Sentinel}

\* Where SDL_PeepEventsInternal stops that takes one event of any type out of the queue:
\* at the first event, or at the last sentinel that is pending if it wants sentinels.
\* Sentinels before that are cut and skipped; there may be nothing to stop at.
StopsAt(wantSentinel) ==
    LET stops == {i \in DOMAIN queue : \/ queue[i] # Sentinel
                                       \/ wantSentinel /\ i >= sentinels}
    IN IF stops = {} THEN Len(queue) + 1 ELSE CHOOSE i \in stops : \A j \in stops : i <= j

\* What it takes there.
Got(n) == IF n <= Len(queue) THEN queue[n] ELSE NoEvent

\* Mutant: a sentinel that is cut still counts as pending.
StillPending(n) == sentinels

\* The sentinels pending when the first n entries are cut.
PendingAfter(n) == sentinels - Cardinality({i \in SentinelsIn(queue) : i <= n})

\* SDL_PeepEventsInternal(SDL_GETEVENT) of one event: the entries up to n leave the queue.
TakeTo(n) ==
    /\ queue' = SubSeq(queue, n + 1, Len(queue))
    /\ sentinels' = PendingAfter(n)
    /\ delivered' = IF Got(n) \in Events THEN Append(delivered, Got(n)) ELSE delivered
    /\ UNCHANGED <<active, sentinelOn>>

\* SDL_PeepEventsInternal without an event to fill in only counts.
HasAny(wantSentinel) ==
    \E i \in DOMAIN queue : \/ queue[i] # Sentinel
                            \/ wantSentinel /\ Cardinality(SentinelsIn(queue)) >= sentinels

\* SDL_CutEvent on every entry of D.
CutAll(D) ==
    /\ queue' = Without(queue, D)
    /\ sentinels' = IF Sentinel \in D THEN sentinels - Cardinality(SentinelsIn(queue))
                    ELSE sentinels
    /\ UNCHANGED <<active, delivered>>

\* SDL_SendWakeupEvent by the main thread, which is not waiting.
SendWakeup == wakeup' = FALSE /\ messages' = (messages \/ wakeup)

-----------------------------------------------------------------------------
(* The calls of the main thread.                                           *)

\* SDL_PollEvent, SDL_WaitEvent and SDL_WaitEventTimeout: pump unless a sentinel is there.
WaitEvent(m, w) ==
    /\ mpc = "idle"
    /\ mode' = m /\ wanted' = w
    /\ IF sentinels = 0 THEN mpc' = "pump" /\ after' = "first"
                        ELSE mpc' = "first" /\ after' = "idle"
    /\ UNCHANGED <<queueVars, wakeVars, callbackVars, running, threadVars, delivered>>

\* SDL_PumpEvents.
PumpEvents ==
    /\ mpc = "idle"
    /\ mpc' = "pump" /\ after' = "idle"
    /\ UNCHANGED <<queueVars, wakeVars, callbackVars, mode, wanted, running, threadVars, delivered>>

\* Where a thread goes that returns to the app.
Return == mpc' = "idle" /\ after' = "idle" /\ mode' = "poll" /\ wanted' = FALSE

\* SDL_PumpEventsInternal, SDL_RunMainThreadCallbacks: take the list ...
TakeCallbacks ==
    /\ mpc = "pump"
    /\ running' = callbacks /\ callbacks' = <<>>
    /\ mpc' = "run"
    /\ UNCHANGED <<queueVars, wakeVars, state, sem, callVars, threadVars, delivered>>

\* Mutant: an entry somebody waits for is destroyed.
DestroyFirst(c, s) == state' = [state EXCEPT ![c] = "destroyed"] /\ sem' = [sem EXCEPT ![c] = 1]

\* Tell the thread that waits for entry c that it is s, or destroy the entry.
Finish(c, s) ==
    IF \E t \in Threads : callback[t] = c /\ waits[t]
    THEN state' = [state EXCEPT ![c] = s] /\ sem' = [sem EXCEPT ![c] = 1]
    ELSE state' = [state EXCEPT ![c] = "destroyed"] /\ UNCHANGED sem

\* ... and run its callbacks.
RunCallback ==
    /\ mpc = "run" /\ running # <<>>
    /\ Finish(Head(running), "complete")
    /\ running' = Tail(running)
    /\ UNCHANGED <<queueVars, wakeVars, callbacks, mpc, callVars, threadVars, delivered>>

\* The video driver's PumpEvents reads all messages.
PumpDevice ==
    /\ mpc = "run" /\ running = <<>>
    /\ messages' = FALSE
    /\ IF after = "idle" THEN Return ELSE mpc' = "sentinel" /\ UNCHANGED callVars
    /\ UNCHANGED <<queueVars, wakeup, callbackVars, running, threadVars, delivered>>

\* Mutant: the sentinel that is pending is left in the queue.
LeaveOld == {}

\* The old sentinels are cut before a new one is pushed.
OldSentinels == {Sentinel}

CutOldSentinel ==
    /\ mpc = "sentinel"
    /\ IF sentinelOn
       THEN /\ mpc' = "push"
            /\ IF sentinels > 0 THEN CutAll(OldSentinels)
                                ELSE UNCHANGED <<active, queue, sentinels, delivered>>
       ELSE mpc' = after /\ UNCHANGED <<active, queue, sentinels, delivered>>
    /\ UNCHANGED <<sentinelOn, wakeVars, callbackVars, callVars, running, threadVars>>

\* SDL_PushEvent of the sentinel, which may find the queue full.
PushSentinel ==
    /\ mpc = "push"
    /\ \/ /\ HasRoom
          /\ queue' = AddLast(queue, Sentinel) /\ sentinels' = sentinels + 1
          /\ SendWakeup
       \/ UNCHANGED <<queue, sentinels, wakeVars>>
    /\ mpc' = after
    /\ UNCHANGED <<active, sentinelOn, callbackVars, callVars, running, threadVars, delivered>>

\* The first look at the queue; only a poll wants to see the sentinel.
FirstGet ==
    /\ mpc = "first" /\ wanted
    /\ LET n == StopsAt(mode = "poll")
       IN IF ~active \/ Got(n) # NoEvent \/ mode = "poll"
          THEN Return
          ELSE mpc' = "select" /\ UNCHANGED callVars
    /\ IF active THEN TakeTo(StopsAt(mode = "poll")) ELSE UNCHANGED <<queueVars, delivered>>
    /\ UNCHANGED <<wakeVars, callbackVars, running, threadVars>>

\* The same, when the app does not want the event itself.
FirstCount ==
    /\ mpc = "first" /\ ~wanted
    /\ IF ~active \/ (mode # "poll" /\ HasAny(FALSE))
       THEN Return
       ELSE mpc' = (IF mode = "poll" THEN "peek" ELSE "select") /\ UNCHANGED callVars
    /\ UNCHANGED <<queueVars, wakeVars, callbackVars, running, threadVars, delivered>>

\* A poll that does not want the event looks whether the next one is the sentinel ...
PeekSentinel ==
    /\ mpc = "peek"
    /\ IF Got(StopsAt(TRUE)) = Sentinel THEN mpc' = "cut" /\ UNCHANGED callVars ELSE Return
    /\ UNCHANGED <<queueVars, wakeVars, callbackVars, running, threadVars, delivered>>

\* ... and cuts it.
CutSentinel ==
    /\ mpc = "cut"
    /\ CutAll({Sentinel})
    /\ Return
    /\ UNCHANGED <<sentinelOn, wakeVars, callbackVars, running, threadVars>>

\* Wait in the video driver if there is a window to wake up, or else in a loop.
SelectWait ==
    /\ mpc = "select"
    /\ mpc' = "pump"
    /\ after' \in {"device", "loop"}
    /\ UNCHANGED <<queueVars, wakeVars, callbackVars, mode, wanted, running, threadVars, delivered>>

\* After each pump the main thread looks again, in the state given ...
LookAgain(here, next) ==
    /\ mpc = here /\ active
    /\ LET found == IF wanted THEN Got(StopsAt(FALSE)) # NoEvent ELSE HasAny(FALSE)
       IN \/ found /\ Return
          \/ ~found /\ mode = "timed" /\ Return
          \/ ~found /\ mpc' = next /\ UNCHANGED callVars
    /\ IF wanted THEN TakeTo(StopsAt(FALSE)) ELSE UNCHANGED <<queueVars, delivered>>
    /\ UNCHANGED <<wakeVars, callbackVars, running, threadVars>>

\* ... which is SDL_WaitEventTimeout_Device or the loop that sleeps a millisecond.
LookInDevice == LookAgain("device", "arm")
LookInLoop == LookAgain("loop", "pump")

\* Announce the window ...
Arm ==
    /\ mpc = "arm"
    /\ wakeup' = TRUE
    /\ mpc' = "wait"
    /\ UNCHANGED <<queueVars, messages, callbackVars, callVars, running, threadVars, delivered>>

\* Mutant: the wait is not cut in intervals.
WaitUncut ==
    /\ mpc = "wait"
    /\ \/ messages /\ messages' = FALSE /\ UNCHANGED after
       \/ mode = "timed" /\ after' = "idle" /\ UNCHANGED messages
    /\ mpc' = "disarm"
    /\ UNCHANGED <<queueVars, wakeup, callbackVars, mode, wanted, running, threadVars, delivered>>

\* ... wait for a message, the timeout or the polling interval ...
Wait ==
    /\ mpc = "wait"
    /\ \/ messages /\ messages' = FALSE /\ UNCHANGED after
       \/ Polling /\ UNCHANGED <<messages, after>>
       \/ mode = "timed" /\ after' = "idle" /\ UNCHANGED messages
    /\ mpc' = "disarm"
    /\ UNCHANGED <<queueVars, wakeup, callbackVars, mode, wanted, running, threadVars, delivered>>

\* ... or the driver fails to wait, or the window system itself has something ...
WaitFails ==
    /\ mpc = "wait"
    /\ mpc' = "disarm" /\ after' \in {"device", "loop"}
    /\ UNCHANGED <<queueVars, wakeVars, callbackVars, mode, wanted, running, threadVars, delivered>>

\* ... and take the announcement back.
Disarm ==
    /\ mpc = "disarm"
    /\ wakeup' = FALSE
    /\ IF after = "idle" THEN Return ELSE mpc' = "pump" /\ UNCHANGED callVars
    /\ UNCHANGED <<queueVars, messages, callbackVars, running, threadVars, delivered>>

\* SDL_QuitEvents, when no other thread is in a call, unless it sleeps in one.
QuitEvents ==
    /\ mpc = "idle" /\ active /\ \A t \in Threads : pc[t] \in {"idle", "sleep"}
    /\ active' = FALSE /\ queue' = <<>> /\ sentinels' = 0 /\ sentinelOn' = TRUE
    /\ callbacks' = <<>>
    /\ LET left == ToSet(callbacks)
           awaited == {c \in left : \E t \in Threads : callback[t] = c /\ waits[t]}
       IN /\ state' = [c \in Callbacks |-> IF c \in awaited THEN "canceled"
                                           ELSE IF c \in left THEN "destroyed" ELSE state[c]]
          /\ sem' = [c \in Callbacks |-> IF c \in awaited THEN 1 ELSE sem[c]]
    /\ UNCHANGED <<wakeVars, mainVars, threadVars, delivered>>

\* SDL_InitEvents; a hint says whether the sentinel is enabled.
InitEvents ==
    /\ mpc = "idle" /\ ~active
    /\ active' = TRUE
    /\ sentinelOn' \in BOOLEAN
    /\ UNCHANGED <<queue, sentinels, wakeVars, callbackVars, mainVars, threadVars, delivered>>

-----------------------------------------------------------------------------
(* The calls of the other threads.                                         *)

\* SDL_PushEvent, from where the filter and the watchers have let it pass.
PushEvent(t, e) ==
    /\ pc[t] = "idle"
    /\ e \notin ToSet(queue) \cup ToSet(delivered) \cup {event[u] : u \in Threads}
    /\ pc' = [pc EXCEPT ![t] = "add"]
    /\ event' = [event EXCEPT ![t] = e]
    /\ UNCHANGED <<queueVars, wakeVars, callbackVars, mainVars, callback, waits, delivered>>

\* It may be refused: the queue is full, there is no memory, or no event system.
AddEvent(t) ==
    /\ pc[t] = "add"
    /\ \/ /\ HasRoom
          /\ queue' = AddLast(queue, event[t])
          /\ pc' = [pc EXCEPT ![t] = "wake"]
       \/ /\ pc' = [pc EXCEPT ![t] = "idle"]
          /\ UNCHANGED queue
    /\ event' = [event EXCEPT ![t] = NoEvent]
    /\ UNCHANGED <<active, sentinels, sentinelOn, wakeVars, callbackVars, mainVars, callback, waits,
                   delivered>>

\* SDL_RunOnMainThread: allocate an entry ...
RunOnMainThread(t, c, w) ==
    /\ pc[t] = "idle" /\ active /\ state[c] = "unused"
    /\ state' = [state EXCEPT ![c] = "waiting"]
    /\ pc' = [pc EXCEPT ![t] = "queue"]
    /\ callback' = [callback EXCEPT ![t] = c]
    /\ waits' = [waits EXCEPT ![t] = w]
    /\ UNCHANGED <<queueVars, wakeVars, callbacks, sem, mainVars, event, delivered>>

\* ... and queue it.
QueueCallback(t) ==
    /\ pc[t] = "queue"
    /\ callbacks' = Append(callbacks, callback[t])
    /\ pc' = [pc EXCEPT ![t] = "wake"]
    /\ UNCHANGED <<queueVars, wakeVars, state, sem, mainVars, event, callback, waits, delivered>>

\* Leave the call, or wait for the callback if that was asked for.
Leave(t) ==
    IF waits[t]
    THEN pc' = [pc EXCEPT ![t] = "sleep"] /\ UNCHANGED callback
    ELSE pc' = [pc EXCEPT ![t] = "idle"] /\ callback' = [callback EXCEPT ![t] = NoCallback]

\* SDL_SendWakeupEvent: take the announcement, so that only one thread sends ...
TakeWakeup(t) ==
    /\ pc[t] = "wake"
    /\ wakeup' = FALSE
    /\ IF wakeup THEN pc' = [pc EXCEPT ![t] = "send"] /\ UNCHANGED callback ELSE Leave(t)
    /\ UNCHANGED <<queueVars, messages, callbackVars, mainVars, event, waits, delivered>>

\* ... a message to the window.
Send(t) ==
    /\ pc[t] = "send"
    /\ messages' = TRUE
    /\ Leave(t)
    /\ UNCHANGED <<queueVars, wakeup, callbackVars, mainVars, event, waits, delivered>>

\* The semaphore of the callback is signalled: destroy the entry.
Awake(t) ==
    /\ pc[t] = "sleep" /\ sem[callback[t]] = 1
    /\ sem' = [sem EXCEPT ![callback[t]] = 0]
    /\ state' = [state EXCEPT ![callback[t]] = "destroyed"]
    /\ pc' = [pc EXCEPT ![t] = "idle"]
    /\ callback' = [callback EXCEPT ![t] = NoCallback]
    /\ waits' = [waits EXCEPT ![t] = FALSE]
    /\ UNCHANGED <<queueVars, wakeVars, callbacks, mainVars, event, delivered>>

\* SDL_PeepEvents(SDL_GETEVENT).
PeepEvents(t) ==
    /\ pc[t] = "idle" /\ active
    /\ TakeTo(StopsAt(FALSE))
    /\ UNCHANGED <<wakeVars, callbackVars, mainVars, threadVars>>

\* SDL_FlushEvents, SDL_FilterEvents, SDL_SetEventFilter: some events are discarded.
FlushEvents(t, D) ==
    /\ pc[t] = "idle" /\ active
    /\ CutAll(D)
    /\ UNCHANGED <<sentinelOn, wakeVars, callbackVars, mainVars, threadVars>>

\* SDL_SetEventEnabled of the sentinel, by the hint SDL_POLL_SENTINEL.
EnableSentinel(t) ==
    /\ pc[t] = "idle" /\ ~sentinelOn
    /\ sentinelOn' = TRUE
    /\ UNCHANGED <<active, queue, sentinels, wakeVars, callbackVars, mainVars, threadVars, delivered>>

DisableSentinel(t) ==
    /\ pc[t] = "idle" /\ sentinelOn
    /\ sentinelOn' = FALSE
    /\ pc' = [pc EXCEPT ![t] = "flush"]
    /\ UNCHANGED <<active, queue, sentinels, wakeVars, callbackVars, mainVars, event, callback,
                   waits, delivered>>

FlushSentinel(t) ==
    /\ pc[t] = "flush"
    /\ IF active THEN CutAll({Sentinel}) ELSE UNCHANGED <<active, queue, sentinels, delivered>>
    /\ pc' = [pc EXCEPT ![t] = "idle"]
    /\ UNCHANGED <<sentinelOn, wakeVars, callbackVars, mainVars, event, callback, waits>>

-----------------------------------------------------------------------------

\* The steps of the main thread inside a call; WaitFails is not in its hands.
MainStep ==
    \/ TakeCallbacks \/ RunCallback \/ PumpDevice \/ CutOldSentinel \/ PushSentinel
    \/ FirstGet \/ FirstCount \/ PeekSentinel \/ CutSentinel \/ SelectWait
    \/ LookInDevice \/ LookInLoop \/ Arm \/ Wait \/ Disarm

MainCall(w) == \E m \in Modes : WaitEvent(m, w)

ThreadStep(t) ==
    \/ AddEvent(t) \/ QueueCallback(t) \/ TakeWakeup(t) \/ Send(t) \/ Awake(t) \/ FlushSentinel(t)

ThreadCall(t) ==
    \/ \E e \in Events : PushEvent(t, e)
    \/ \E c \in Callbacks, w \in BOOLEAN : RunOnMainThread(t, c, w)
    \/ PeepEvents(t)
    \/ \E D \in SUBSET (Events \cup {Sentinel}) : FlushEvents(t, D)
    \/ EnableSentinel(t) \/ DisableSentinel(t)

Next ==
    \/ \E w \in BOOLEAN : MainCall(w)
    \/ PumpEvents \/ QuitEvents \/ InitEvents
    \/ MainStep \/ WaitFails
    \/ \E t \in Threads : ThreadCall(t) \/ ThreadStep(t)

Spec == Init /\ [][Next]_vars

-----------------------------------------------------------------------------
TypeOK ==
    /\ active \in BOOLEAN /\ sentinelOn \in BOOLEAN /\ sentinels \in Int
    /\ ToSet(queue) \subseteq Events \cup {Sentinel} /\ Len(queue) <= MaxQueued
    /\ wakeup \in BOOLEAN /\ messages \in BOOLEAN
    /\ ToSet(callbacks) \subseteq Callbacks /\ ToSet(running) \subseteq Callbacks
    /\ state \in [Callbacks -> {"unused", "waiting", "complete", "canceled", "destroyed"}]
    /\ sem \in [Callbacks -> {0, 1}]
    /\ mpc \in MainStates /\ mode \in Modes /\ wanted \in BOOLEAN
    /\ after \in {"idle", "first", "device", "loop"}
    /\ pc \in [Threads -> ThreadStates]
    /\ event \in [Threads -> Events \cup {NoEvent}]
    /\ callback \in [Threads -> Callbacks \cup {NoCallback}]
    /\ waits \in [Threads -> BOOLEAN]
    /\ ToSet(delivered) \subseteq Events

\* The count of pending sentinels, which pumping and polling act on without the queue's
\* lock, is right, and there is never more than one sentinel: a poll cycle ends once,
\* whatever other threads take, flush or disable meanwhile.
SentinelsRight ==
    sentinels = Cardinality(SentinelsIn(queue)) /\ sentinels <= 1

\* A thread that sleeps in SDL_RunOnMainThread has an entry that is still there, and that
\* either the main thread will come to or that was signalled.  An entry is in one place.
WaiterServed ==
    /\ IsInjective(callbacks \o running)
    /\ \A t \in Threads : pc[t] = "sleep" =>
          LET c == callback[t]
          IN IF c \in ToSet(callbacks \o running) THEN state[c] = "waiting" /\ sem[c] = 0
             ELSE state[c] \in {"complete", "canceled"} /\ sem[c] = 1

Fifo == INSTANCE EventFifo WITH fifo <- Without(queue, {Sentinel})

\* The queue, with its sentinels, is a bounded queue: events come out in order, each at
\* most once.
FifoKept == Fifo!Spec

\* "If the main thread is waiting for events, wake it up" (SDL_RunOnMainThread): while
\* the main thread waits for ever and nothing is on its way to wake it, there is nothing
\* it should wake up for.
NoLostWakeup ==
    mpc = "wait" /\ mode = "forever" /\ ~Polling /\ ~messages
    /\ (\A t \in Threads : pc[t] \notin {"wake", "send"})
       => ToSet(queue) \cap Events = {} /\ callbacks = <<>>

-----------------------------------------------------------------------------
(* Liveness: threads inside a call go on, and the app's main thread asks   *)
(* for events again and again, as SDL_PumpEvents demands.                  *)

Fairness ==
    /\ WF_vars(MainStep) /\ SF_vars(MainCall(TRUE))
    /\ \A t \in Threads : WF_vars(ThreadStep(t))

FairSpec == Spec /\ Fairness

\* SDL_RunOnMainThread returns, when the wait for events is cut in intervals.
CallbackReturns == \A t \in Threads : pc[t] = "sleep" ~> pc[t] # "sleep"

\* An event in the queue is handed out or discarded, when the wait is cut in intervals.
EventLeaves == \A e \in Events : e \in ToSet(queue) ~> e \notin ToSet(queue)
=============================================================================
