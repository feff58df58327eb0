------------------------------- MODULE AsyncIO -------------------------------
(***************************************************************************)
(* SDL's asynchronous file i/o: the platform independent front end         *)
(* (src/src/io/SDL_asyncio.c) over the generic backend, a pool of worker   *)
(* threads (src/src/io/generic/SDL_asyncio_generic.c).                     *)
(*                                                                         *)
(* An app thread submits read, write and close tasks for a file to a       *)
(* queue.  A task is linked on its file and handed to the thread pool; a   *)
(* worker performs it and puts it on the completed list of its queue; any  *)
(* thread that consumes the result unlinks and frees it.  The close task   *)
(* of a file is held back until nothing else is linked on the file.        *)
(*                                                                         *)
(* One action is one critical section of the code: locks are only taken in *)
(* the order file lock, pool lock, queue lock, so a section with nested    *)
(* locks is one step.  The exception is the cancelling loop of             *)
(* ShutdownThreadpool, which takes and drops queue locks while it keeps    *)
(* the pool lock: it is one step per task, and pc "cancelling" is the pool *)
(* lock being held.  The lists are LIFO in the code; their order is        *)
(* abstracted to a set and a free choice of the element taken.             *)
(***************************************************************************)
EXTENDS Integers, FiniteSets

CONSTANTS Files, Queues, Tasks, Workers, Apps,
          MaxThreads,     \* max_threadpool_threads
          DestroyEarly,   \* may the app destroy a queue named by a held back close that
                          \* waits for tasks of another queue?
          NoTask, NoQueue, NoWorker, NoFile

ASSUME ThreadsAssumption == MaxThreads \in 1..8
ASSUME FiniteAssumption == IsFiniteSet(Tasks) /\ IsFiniteSet(Workers) /\ IsFiniteSet(Apps)
ASSUME NoneAssumption == /\ NoTask \notin Tasks
                         /\ NoQueue \notin Queues
                         /\ NoWorker \notin Workers
                         /\ NoFile \notin Files
ASSUME DestroyAssumption == DestroyEarly \in BOOLEAN

VARIABLES
    fileState, ioOpen, linked, closing,    \* SDL_AsyncIO
    ioLock, pos,                           \* its GenericAsyncIOData
    queueState, inflight, completed,       \* SDL_AsyncIOQueue
    taskState, tfile, tqueue, kind, result,\* SDL_AsyncIOTask
    poolInit, stop, poolTasks, running, idle, \* the thread pool's statics
    worker, wtask,                         \* its threads
    apc, atask, aqueue, destroying         \* the app's threads

fileVars == <<fileState, ioOpen, linked, closing>>
ioVars == <<ioLock, pos>>
queueVars == <<queueState, inflight, completed>>
taskVars == <<taskState, tfile, tqueue, kind, result>>
poolVars == <<poolInit, stop, poolTasks, running, idle>>
workerVars == <<worker, wtask>>
appVars == <<apc, atask, aqueue, destroying>>
vars == <<fileVars, ioVars, queueVars, taskVars, poolVars, workerVars, appVars>>

Results == {"NONE", "COMPLETE", "FAILURE", "CANCELED"}
WorkerStates == {"absent", "start", "waiting", "woken", "timedout",
                 "picked", "io", "done"}
AppStates == {"idle", "queueing", "waiting", "woken", "outcome", "free",
              "finish", "destroy", "cancelling", "quitwait", "quitwoken"}

Init ==
    /\ fileState = [f \in Files |-> "none"]
    /\ ioOpen = [f \in Files |-> FALSE]
    /\ linked = [f \in Files |-> {}]
    /\ closing = [f \in Files |-> NoTask]
    /\ ioLock = [f \in Files |-> NoWorker]
    /\ pos = [f \in Files |-> NoTask]
    /\ queueState = [q \in Queues |-> "none"]
    /\ inflight = [q \in Queues |-> 0]
    /\ completed = [q \in Queues |-> {}]
    /\ taskState = [t \in Tasks |-> "unused"]
    /\ tfile = [t \in Tasks |-> NoFile]
    /\ tqueue = [t \in Tasks |-> NoQueue]
    /\ kind = [t \in Tasks |-> "READWRITE"]
    /\ result = [t \in Tasks |-> "NONE"]
    /\ poolInit = "UNINITIALIZED"
    /\ stop = FALSE
    /\ poolTasks = {}
    /\ running = 0
    /\ idle = 0
    /\ worker = [w \in Workers |-> "absent"]
    /\ wtask = [w \in Workers |-> NoTask]
    /\ apc = [a \in Apps |-> "idle"]
    /\ atask = [a \in Apps |-> NoTask]
    /\ aqueue = [a \in Apps |-> NoQueue]
    /\ destroying = [a \in Apps |-> FALSE]

-----------------------------------------------------------------------------
(* Waking threads.                                                         *)

\* The app threads asleep on the condition of queue q, given the threads' pcs.
Sleepers(pcs, q) == {a \in Apps : pcs[a] = "waiting" /\ aqueue[a] = q}

\* Mutant: the completed task is not signalled.
NotSignalled(pcs, q) == {pcs}

\* SDL_SignalCondition on q: one sleeper, if there is one, wakes up.
Signalled(pcs, q) ==
    IF Sleepers(pcs, q) = {} THEN {pcs}
    ELSE {[pcs EXCEPT ![a] = "woken"] : a \in Sleepers(pcs, q)}

\* SDL_BroadcastCondition(threadpool_condition): the sleeping workers and a
\* thread that waits for the shutdown to end all wake up.
WokenWorkers(ws) == [w \in Workers |-> IF ws[w] = "waiting" THEN "woken" ELSE ws[w]]

\* Mutant: the last worker leaves without a broadcast.
QuitterSleepsOn(pcs) == pcs
WokenQuitter(pcs) == [a \in Apps |-> IF pcs[a] = "quitwait" THEN "quitwoken" ELSE pcs[a]]

PoolLockFree == \A a \in Apps : apc[a] # "cancelling"

-----------------------------------------------------------------------------
(* The thread pool, as it is entered from the front end.                   *)

\* Mutant: a thread is spun, but the ones that sleep are not woken.
SpinOnly ==
    \/ UNCHANGED <<worker, running>>
    \/ /\ idle = 0 /\ running < MaxThreads /\ poolInit = "INITIALIZED"
       /\ \E w \in Workers : worker[w] = "absent" /\ worker' = [worker EXCEPT ![w] = "start"]
       /\ running' = running + 1

\* MaybeSpinNewWorkerThread and the broadcast that follows it: a new thread only
\* when every thread is busy and there are not too many.  SDL_CreateThread may
\* fail, and nothing is spun.
SpinAndBroadcast ==
    \/ worker' = WokenWorkers(worker) /\ running' = running
    \/ /\ idle = 0 /\ running < MaxThreads /\ poolInit = "INITIALIZED"
       /\ \E w \in Workers :
             /\ worker[w] = "absent"
             /\ worker' = WokenWorkers([worker EXCEPT ![w] = "start"])
       /\ running' = running + 1

\* Mutant: the head of the completed list is overwritten.
CompleteOverwrites(t, q, pcs) ==
    /\ completed' = [completed EXCEPT ![q] = {t}]
    /\ apc' \in Signalled(pcs, q)

\* AsyncIOTaskComplete(t), t of queue q, by a thread that leaves the pcs given.
CompleteTask(t, q, pcs) ==
    /\ completed' = [completed EXCEPT ![q] = @ \cup {t}]
    /\ apc' \in Signalled(pcs, q)

\* QueueAsyncIOTask(t), by an app thread that leaves the pcs given.  After a
\* shutdown the pool lock is NULL and max_threadpool_threads is 0: the task is
\* left on the list and no thread is spun.
QueueTask(t, q, pcs) ==
    /\ PoolLockFree
    /\ \/ /\ stop
          /\ result' = [result EXCEPT ![t] = "CANCELED"]
          /\ CompleteTask(t, q, pcs)
          /\ UNCHANGED <<poolTasks, worker, running>>
       \/ /\ ~stop
          /\ poolTasks' = poolTasks \cup {t}
          /\ SpinAndBroadcast
          /\ apc' = WokenQuitter(pcs)
          /\ UNCHANGED <<result, completed>>
    /\ UNCHANGED <<poolInit, stop, idle, wtask>>

\* PrepareThreadpool: the first caller creates the pool and its first thread;
\* SDL_ShouldInit makes others wait while a shutdown is under way.
PrepareThreadpool ==
    /\ poolInit # "UNINITIALIZING"
    /\ IF poolInit = "INITIALIZED"
       THEN UNCHANGED <<poolInit, running, worker>>
       ELSE /\ poolInit' = "INITIALIZED"
            /\ running' = running + 1
            /\ \E w \in Workers : worker[w] = "absent" /\ worker' = [worker EXCEPT ![w] = "start"]
    /\ UNCHANGED <<stop, poolTasks, idle, wtask>>

-----------------------------------------------------------------------------
(* The calls of the app's threads.                                         *)

\* A queue that is being destroyed must not be used by another thread
\* (SDL_asyncio.h, SDL_DestroyAsyncIOQueue).
Usable(q) ==
    /\ queueState[q] = "live"
    /\ \A a \in Apps : ~(destroying[a] /\ aqueue[a] = q)

\* Mutant: a closing file still takes requests.
OpenIsEnough(f) == fileState[f] = "open"

\* A file takes requests until its close is requested.
Accepts(f) == fileState[f] = "open" /\ closing[f] = NoTask

\* SDL_AddAtomicInt(&queue->tasks_inflight, 1).
Counted(q) == [inflight EXCEPT ![q] = @ + 1]

\* SDL_AsyncIOFromFile; opening the file itself may fail.
OpenFile(a, f) ==
    /\ apc[a] = "idle" /\ fileState[f] = "none"
    /\ PrepareThreadpool
    /\ \/ /\ fileState' = [fileState EXCEPT ![f] = "open"]
          /\ ioOpen' = [ioOpen EXCEPT ![f] = TRUE]
       \/ poolInit # "INITIALIZED" /\ UNCHANGED <<fileState, ioOpen>>
    /\ UNCHANGED <<linked, closing, ioVars, queueVars, taskVars, appVars>>

\* SDL_CreateAsyncIOQueue.
CreateQueue(a, q) ==
    /\ apc[a] = "idle" /\ queueState[q] = "none"
    /\ PrepareThreadpool
    /\ queueState' = [queueState EXCEPT ![q] = "live"]
    /\ UNCHANGED <<fileVars, ioVars, inflight, completed, taskVars, appVars>>

\* The task a call allocates and fills in.
NewTask(t, f, q, k) ==
    /\ taskState[t] = "unused"
    /\ taskState' = [taskState EXCEPT ![t] = "allocated"]
    /\ tfile' = [tfile EXCEPT ![t] = f]
    /\ tqueue' = [tqueue EXCEPT ![t] = q]
    /\ kind' = [kind EXCEPT ![t] = k]

\* RequestAsyncIO up to the unlock: the task is linked and counted.  A file that
\* is closing refuses it, which changes nothing.
Request(a, f, q, t) ==
    /\ apc[a] = "idle" /\ Accepts(f) /\ Usable(q)
    /\ NewTask(t, f, q, "READWRITE")
    /\ linked' = [linked EXCEPT ![f] = @ \cup {t}]
    /\ inflight' = Counted(q)
    /\ apc' = [apc EXCEPT ![a] = "queueing"]
    /\ atask' = [atask EXCEPT ![a] = t]
    /\ aqueue' = [aqueue EXCEPT ![a] = q]
    /\ UNCHANGED <<fileState, ioOpen, closing, ioVars, queueState, completed,
                   result, poolVars, workerVars, destroying>>

\* The rest of RequestAsyncIO: iface.read or iface.write, which is
\* QueueAsyncIOTask.  The generic backend never fails to queue.
RequestQueue(a) ==
    /\ apc[a] = "queueing"
    /\ QueueTask(atask[a], aqueue[a], [apc EXCEPT ![a] = "idle"])
    /\ atask' = [atask EXCEPT ![a] = NoTask]
    /\ aqueue' = [aqueue EXCEPT ![a] = NoQueue]
    /\ UNCHANGED <<fileVars, ioVars, queueState, inflight, taskState, tfile, tqueue,
                   kind, destroying>>

\* SDL_CloseAsyncIO when nothing is linked: the close task is queued at once.
CloseNow(a, f, q, t) ==
    /\ apc[a] = "idle" /\ Accepts(f) /\ Usable(q)
    /\ linked[f] = {}
    /\ NewTask(t, f, q, "CLOSE")
    /\ closing' = [closing EXCEPT ![f] = t]
    /\ linked' = [linked EXCEPT ![f] = {t}]
    /\ inflight' = Counted(q)
    /\ QueueTask(t, q, apc)
    /\ UNCHANGED <<fileState, ioOpen, ioVars, queueState, atask, aqueue, destroying>>

\* SDL_CloseAsyncIO with tasks pending: the close task is only remembered.
CloseLater(a, f, q, t) ==
    /\ apc[a] = "idle" /\ Accepts(f) /\ Usable(q)
    /\ linked[f] # {}
    /\ NewTask(t, f, q, "CLOSE")
    /\ closing' = [closing EXCEPT ![f] = t]
    /\ UNCHANGED <<fileState, ioOpen, linked, ioVars, queueVars, result, poolVars,
                   workerVars, appVars>>

\* Mutant: the task is read but stays on the list.
PopKeeps(a, q) ==
    \E t \in completed[q] :
       /\ completed' = completed
       /\ atask' = [atask EXCEPT ![a] = t]
       /\ apc' = [apc EXCEPT ![a] = "outcome"]

\* get_results and wait_results take a completed task off queue q, if there is
\* one; the thread goes on to GetAsyncIOTaskOutcome.
Pop(a, q) ==
    \E t \in completed[q] :
       /\ completed' = [completed EXCEPT ![q] = @ \ {t}]
       /\ atask' = [atask EXCEPT ![a] = t]
       /\ apc' = [apc EXCEPT ![a] = "outcome"]

\* SDL_GetAsyncIOResult, and SDL_WaitAsyncIOResult when there is a result.
GetResult(a, q) ==
    /\ apc[a] = "idle" /\ Usable(q)
    /\ Pop(a, q)
    /\ aqueue' = [aqueue EXCEPT ![a] = q]
    /\ UNCHANGED <<fileVars, ioVars, queueState, inflight, taskVars, poolVars,
                   workerVars, destroying>>

\* SDL_WaitAsyncIOResult when there is none: sleep on the queue's condition.
WaitResult(a, q) ==
    /\ apc[a] = "idle" /\ Usable(q) /\ completed[q] = {}
    /\ apc' = [apc EXCEPT ![a] = "waiting"]
    /\ aqueue' = [aqueue EXCEPT ![a] = q]
    /\ UNCHANGED <<fileVars, ioVars, queueVars, taskVars, poolVars, workerVars,
                   atask, destroying>>

\* The wait times out, or wakes for no reason.
WaitTimeout(a) ==
    /\ apc[a] = "waiting"
    /\ apc' = [apc EXCEPT ![a] = "woken"]
    /\ UNCHANGED <<fileVars, ioVars, queueVars, taskVars, poolVars, workerVars,
                   atask, aqueue, destroying>>

\* SDL_SignalAsyncIOQueue: every thread that sleeps on q wakes up.
SignalQueue(q) ==
    /\ Usable(q) /\ Sleepers(apc, q) # {}
    /\ apc' = [a \in Apps |-> IF a \in Sleepers(apc, q) THEN "woken" ELSE apc[a]]
    /\ UNCHANGED <<fileVars, ioVars, queueVars, taskVars, poolVars, workerVars,
                   atask, aqueue, destroying>>

\* Where a thread goes when its call on a queue returns nothing more to do.
AfterResult(a) == IF destroying[a] THEN "destroy" ELSE "idle"
QueueAfter(a) == IF destroying[a] THEN aqueue[a] ELSE NoQueue

\* wait_results after the wait: it looks once more and gives up.
WaitEnd(a) ==
    /\ apc[a] = "woken"
    /\ \/ Pop(a, aqueue[a]) /\ UNCHANGED aqueue
       \/ /\ completed[aqueue[a]] = {}
          /\ apc' = [apc EXCEPT ![a] = AfterResult(a)]
          /\ aqueue' = [aqueue EXCEPT ![a] = QueueAfter(a)]
          /\ UNCHANGED <<completed, atask>>
    /\ UNCHANGED <<fileVars, ioVars, queueState, inflight, taskVars, poolVars,
                   workerVars, destroying>>

-----------------------------------------------------------------------------
(* GetAsyncIOTaskOutcome, for the task the thread holds.                   *)

\* Where the thread goes when it has unlinked task t: only the close task frees
\* the file.
AfterUnlink(t) == IF t = closing[tfile[t]] THEN "free" ELSE "finish"

\* Mutant: any consumed task triggers the close.
CloseIsDueAtOnce(t) == closing[tfile[t]] \notin {NoTask, t} \cup linked[tfile[t]]

\* It is time to queue the close that was held back.
CloseIsDue(t) ==
    LET f == tfile[t]
    IN closing[f] \notin {NoTask, t} /\ linked[f] \ {t} = {}

\* The section under the file's lock.
OutcomeUnlink(a) ==
    LET t == atask[a]
        f == tfile[t]
        pcs == [apc EXCEPT ![a] = AfterUnlink(t)]
    IN /\ apc[a] = "outcome"
       /\ \/ /\ CloseIsDue(t)
             /\ linked' = [linked EXCEPT ![f] = (@ \ {t}) \cup {closing[f]}]
             /\ inflight' = Counted(tqueue[closing[f]])
             /\ QueueTask(closing[f], tqueue[closing[f]], pcs)
          \/ /\ ~CloseIsDue(t)
             /\ linked' = [linked EXCEPT ![f] = @ \ {t}]
             /\ apc' = pcs
             /\ UNCHANGED <<inflight, completed, result, poolVars, workerVars>>
       /\ UNCHANGED <<fileState, ioOpen, closing, ioVars, queueState, taskState, tfile,
                      tqueue, kind, atask, aqueue, destroying>>

\* The close task's result was taken: the file is destroyed and freed.
OutcomeFree(a) ==
    /\ apc[a] = "free"
    /\ fileState' = [fileState EXCEPT ![tfile[atask[a]]] = "freed"]
    /\ apc' = [apc EXCEPT ![a] = "finish"]
    /\ UNCHANGED <<ioOpen, linked, closing, ioVars, queueVars, taskVars, poolVars,
                   workerVars, atask, aqueue, destroying>>

\* The task is no longer in flight, and is freed.
OutcomeFinish(a) ==
    LET t == atask[a]
    IN /\ apc[a] = "finish"
       /\ inflight' = [inflight EXCEPT ![tqueue[t]] = @ - 1]
       /\ taskState' = [taskState EXCEPT ![t] = "freed"]
       /\ apc' = [apc EXCEPT ![a] = AfterResult(a)]
       /\ atask' = [atask EXCEPT ![a] = NoTask]
       /\ aqueue' = [aqueue EXCEPT ![a] = QueueAfter(a)]
       /\ UNCHANGED <<fileVars, ioVars, queueState, completed, tfile, tqueue, kind, result,
                      poolVars, workerVars, destroying>>

-----------------------------------------------------------------------------
(* SDL_DestroyAsyncIOQueue and SDL_QuitAsyncIO.                            *)

\* The close tasks that are held back, not yet linked or counted.
Deferred == {t \in Tasks : /\ taskState[t] = "allocated"
                           /\ closing[tfile[t]] = t
                           /\ t \notin linked[tfile[t]]
                           /\ result[t] = "NONE"}

\* Mutant: the loop of SDL_DestroyAsyncIOQueue ends one task early.
OneInFlight(q) == inflight[q] <= 1

\* The condition on which that loop ends.
NoneInFlight(q) == inflight[q] <= 0

\* What is held back for q waits for tasks of q only, which the loop will consume.
ClosesOwnTasks(q) ==
    \A t \in Deferred : tqueue[t] = q => \A u \in linked[tfile[t]] : tqueue[u] = q

\* The app enters SDL_DestroyAsyncIOQueue: no thread of its own uses the queue, which may
\* have closes held back that the loop is to queue.  Unless DestroyEarly none of these waits
\* for tasks of another queue.
DestroyQueue(a, q) ==
    /\ apc[a] = "idle" /\ Usable(q)
    /\ \A b \in Apps : aqueue[b] # q
    /\ DestroyEarly \/ ClosesOwnTasks(q)
    /\ apc' = [apc EXCEPT ![a] = "destroy"]
    /\ aqueue' = [aqueue EXCEPT ![a] = q]
    /\ destroying' = [destroying EXCEPT ![a] = TRUE]
    /\ UNCHANGED <<fileVars, ioVars, queueVars, taskVars, poolVars, workerVars, atask>>

\* The loop of SDL_DestroyAsyncIOQueue while tasks are in flight.  Nobody else
\* consumes from this queue, so the count read is still positive in wait_results.
DestroyConsume(a) ==
    LET q == aqueue[a]
    IN /\ apc[a] = "destroy" /\ ~NoneInFlight(q)
       /\ \/ Pop(a, q)
          \/ /\ completed[q] = {}
             /\ apc' = [apc EXCEPT ![a] = "waiting"]
             /\ UNCHANGED <<completed, atask>>
       /\ UNCHANGED <<fileVars, ioVars, queueState, inflight, taskVars, poolVars,
                      workerVars, aqueue, destroying>>

\* The loop ends, and the queue is freed.
DestroyFree(a) ==
    /\ apc[a] = "destroy" /\ NoneInFlight(aqueue[a])
    /\ queueState' = [queueState EXCEPT ![aqueue[a]] = "freed"]
    /\ apc' = [apc EXCEPT ![a] = "idle"]
    /\ aqueue' = [aqueue EXCEPT ![a] = NoQueue]
    /\ destroying' = [destroying EXCEPT ![a] = FALSE]
    /\ UNCHANGED <<fileVars, ioVars, inflight, completed, taskVars, poolVars,
                   workerVars, atask>>

\* ShutdownThreadpool starts: it takes the pool lock.
Quit(a) ==
    /\ apc[a] = "idle" /\ poolInit = "INITIALIZED" /\ PoolLockFree
    /\ poolInit' = "UNINITIALIZING"
    /\ apc' = [apc EXCEPT ![a] = "cancelling"]
    /\ UNCHANGED <<fileVars, ioVars, queueVars, taskVars, stop, poolTasks, running, idle,
                   workerVars, atask, aqueue, destroying>>

\* Mutant: the task picked up stays on the list.
KeepListed(t) == poolTasks' = poolTasks

\* A task is picked off the pool's list.
Unlist(t) == poolTasks' = poolTasks \ {t}

\* It cancels one of the tasks that nobody picked up.
QuitCancel(a) ==
    /\ apc[a] = "cancelling"
    /\ \E t \in poolTasks :
          /\ Unlist(t)
          /\ result' = [result EXCEPT ![t] = "CANCELED"]
          /\ CompleteTask(t, tqueue[t], apc)
    /\ UNCHANGED <<fileVars, ioVars, queueState, inflight, taskState, tfile, tqueue, kind,
                   poolInit, stop, running, idle, workerVars, atask, aqueue, destroying>>

\* Nothing is left to cancel: the threads are told to stop.
QuitStop(a) ==
    /\ apc[a] = "cancelling" /\ poolTasks = {}
    /\ stop' = TRUE
    /\ apc' = [apc EXCEPT ![a] = "quitwoken"]
    /\ worker' = WokenWorkers(worker)
    /\ UNCHANGED <<fileVars, ioVars, queueVars, taskVars, poolInit, poolTasks, running, idle,
                   wtask, atask, aqueue, destroying>>

\* The loop that waits until no thread runs; then all is reset and the lock freed.
QuitWake(a) ==
    /\ apc[a] = "quitwoken"
    /\ \/ /\ running > 0
          /\ apc' = [apc EXCEPT ![a] = "quitwait"]
          /\ UNCHANGED <<poolInit, stop, running, idle>>
       \/ /\ running = 0
          /\ apc' = [apc EXCEPT ![a] = "idle"]
          /\ poolInit' = "UNINITIALIZED"
          /\ stop' = FALSE
          /\ running' = 0 /\ idle' = 0
    /\ UNCHANGED <<fileVars, ioVars, queueVars, taskVars, poolTasks, workerVars, atask,
                   aqueue, destroying>>

-----------------------------------------------------------------------------
(* AsyncIOThreadpoolWorker.                                                *)

\* The end of a worker thread, in the step that leaves n threads idle.
WorkerExit(w, n) ==
    /\ idle' = n
    /\ running' = running - 1
    /\ IF stop
       THEN /\ worker' = WokenWorkers([worker EXCEPT ![w] = "absent"])
            /\ apc' = WokenQuitter(apc)
       ELSE /\ worker' = [worker EXCEPT ![w] = "absent"]
            /\ UNCHANGED apc
    /\ UNCHANGED <<poolTasks, wtask>>

\* One turn of the worker's loop, from the test of stop_threadpool on, when n
\* other threads are idle: leave, pick up a task, or go to sleep.
WorkerTurn(w, n) ==
    \/ stop /\ WorkerExit(w, n)
    \/ /\ ~stop
       /\ \E t \in poolTasks : /\ Unlist(t)
                               /\ wtask' = [wtask EXCEPT ![w] = t]
       /\ worker' = [worker EXCEPT ![w] = "picked"]
       /\ idle' = n
       /\ UNCHANGED <<running, apc>>
    \/ /\ ~stop /\ poolTasks = {}
       /\ worker' = [worker EXCEPT ![w] = "waiting"]
       /\ idle' = n + 1
       /\ UNCHANGED <<running, poolTasks, wtask, apc>>

\* What a step of a worker under the pool lock leaves alone.
OnlyPool ==
    UNCHANGED <<fileVars, ioVars, queueVars, taskVars, poolInit, stop, atask, aqueue,
                destroying>>

\* A thread that starts, or comes back from its work, takes the pool lock.
WorkerLoop(w) ==
    /\ worker[w] = "start" /\ PoolLockFree
    /\ WorkerTurn(w, idle)
    /\ OnlyPool

\* A thread whose wait was ended by a broadcast.
WorkerWake(w) ==
    /\ worker[w] = "woken" /\ PoolLockFree
    /\ WorkerTurn(w, idle - 1)
    /\ OnlyPool

\* Thirty seconds pass, and the waiting thread goes for the lock again...
WorkerTimeout(w) ==
    /\ worker[w] = "waiting"
    /\ worker' = [worker EXCEPT ![w] = "timedout"]
    /\ UNCHANGED <<fileVars, ioVars, queueVars, taskVars, poolVars, wtask, appVars>>

\* ... to leave if another thread is idle.
OthersIdle(n) == n > 0
WorkerShrink(w) ==
    /\ worker[w] = "timedout" /\ PoolLockFree
    /\ \/ OthersIdle(idle - 1) /\ WorkerExit(w, idle - 1)
       \/ ~OthersIdle(idle - 1) /\ WorkerTurn(w, idle - 1)
    /\ OnlyPool

\* Mutant: no lock.
Unlocked(f) == f \in Files

\* The file's i/o lock can be taken.
IOLockFree(f) == ioLock[f] = NoWorker

\* SynchronousIO: take the file's i/o lock and seek to the task's offset ...
WorkerSeek(w) ==
    LET f == tfile[wtask[w]]
    IN /\ worker[w] = "picked"
       /\ IOLockFree(f)
       /\ ioLock' = [ioLock EXCEPT ![f] = w]
       /\ pos' = [pos EXCEPT ![f] = wtask[w]]
       /\ worker' = [worker EXCEPT ![w] = "io"]
       /\ UNCHANGED <<fileVars, queueVars, taskVars, poolVars, wtask, appVars>>

\* Mutant: the stream's SDL_IOStatus is stored as the result.
StatusAsOutcome == {"READY", "EOF", "ERROR"}

\* What a performed task can come to.
Outcomes == {"COMPLETE", "FAILURE"}

\* ... read, write or close there, and release the lock.  Any of them may fail.
WorkerIO(w) ==
    LET t == wtask[w]
        f == tfile[t]
    IN /\ worker[w] = "io"
       /\ \E r \in Outcomes : result' = [result EXCEPT ![t] = r]
       /\ ioOpen' = [ioOpen EXCEPT ![f] = @ /\ kind[t] # "CLOSE"]
       /\ ioLock' = [ioLock EXCEPT ![f] = NoWorker]
       /\ worker' = [worker EXCEPT ![w] = "done"]
       /\ UNCHANGED <<fileState, linked, closing, pos, queueVars, taskState, tfile, tqueue,
                      kind, poolVars, wtask, appVars>>

\* AsyncIOTaskComplete, and back to the loop.
WorkerComplete(w) ==
    /\ worker[w] = "done"
    /\ CompleteTask(wtask[w], tqueue[wtask[w]], apc)
    /\ worker' = [worker EXCEPT ![w] = "start"]
    /\ wtask' = [wtask EXCEPT ![w] = NoTask]
    /\ UNCHANGED <<fileVars, ioVars, queueState, inflight, taskVars, poolVars, atask,
                   aqueue, destroying>>

-----------------------------------------------------------------------------

AppStep(a) ==
    \/ \E f \in Files : OpenFile(a, f)
    \/ \E q \in Queues : \/ CreateQueue(a, q) \/ GetResult(a, q) \/ WaitResult(a, q)
                         \/ DestroyQueue(a, q)
    \/ \E f \in Files, q \in Queues, t \in Tasks :
          Request(a, f, q, t) \/ CloseNow(a, f, q, t) \/ CloseLater(a, f, q, t)
    \/ WaitTimeout(a)
    \/ Quit(a)

\* The steps of an app thread that is inside a call and not asleep.
AppContinue(a) ==
    \/ RequestQueue(a) \/ WaitEnd(a)
    \/ OutcomeUnlink(a) \/ OutcomeFree(a) \/ OutcomeFinish(a)
    \/ DestroyConsume(a) \/ DestroyFree(a)
    \/ QuitCancel(a) \/ QuitStop(a) \/ QuitWake(a)

WorkerContinue(w) ==
    \/ WorkerLoop(w) \/ WorkerWake(w) \/ WorkerShrink(w)
    \/ WorkerSeek(w) \/ WorkerIO(w) \/ WorkerComplete(w)

Next ==
    \/ \E a \in Apps : AppStep(a) \/ AppContinue(a)
    \/ \E q \in Queues : SignalQueue(q)
    \/ \E w \in Workers : WorkerTimeout(w) \/ WorkerContinue(w)

Spec == Init /\ [][Next]_vars

-----------------------------------------------------------------------------
TypeOK ==
    /\ fileState \in [Files -> {"none", "open", "freed"}]
    /\ ioOpen \in [Files -> BOOLEAN]
    /\ linked \in [Files -> SUBSET Tasks]
    /\ closing \in [Files -> Tasks \cup {NoTask}]
    /\ ioLock \in [Files -> Workers \cup {NoWorker}]
    /\ pos \in [Files -> Tasks \cup {NoTask}]
    /\ queueState \in [Queues -> {"none", "live", "freed"}]
    /\ inflight \in [Queues -> Int]
    /\ completed \in [Queues -> SUBSET Tasks]
    /\ taskState \in [Tasks -> {"unused", "allocated", "freed"}]
    /\ tfile \in [Tasks -> Files \cup {NoFile}]
    /\ tqueue \in [Tasks -> Queues \cup {NoQueue}]
    /\ kind \in [Tasks -> {"READWRITE", "CLOSE"}]
    /\ result \in [Tasks -> Results]
    /\ poolInit \in {"UNINITIALIZED", "INITIALIZED", "UNINITIALIZING"}
    /\ stop \in BOOLEAN
    /\ poolTasks \subseteq Tasks
    /\ running \in Int /\ idle \in Int
    /\ worker \in [Workers -> WorkerStates]
    /\ wtask \in [Workers -> Tasks \cup {NoTask}]
    /\ apc \in [Apps -> AppStates]
    /\ atask \in [Apps -> Tasks \cup {NoTask}]
    /\ aqueue \in [Apps -> Queues \cup {NoQueue}]
    /\ destroying \in [Apps -> BOOLEAN]

-----------------------------------------------------------------------------
(* Who holds a task.                                                       *)

ByApp(t) == \E a \in Apps : atask[a] = t
ByWorker(t) == \E w \in Workers : wtask[w] = t
ByQueue(t) == \E q \in Queues : t \in completed[q]

\* Nobody else holds a task that somebody holds.
HeldOnce(t) ==
    /\ \A a, b \in Apps : atask[a] = t /\ atask[b] = t => a = b
    /\ \A w, v \in Workers : wtask[w] = t /\ wtask[v] = t => w = v
    /\ \A q, r \in Queues : t \in completed[q] /\ t \in completed[r] => q = r
    /\ ByApp(t) => ~ByWorker(t) /\ ~ByQueue(t) /\ t \notin poolTasks \cup Deferred
    /\ ByWorker(t) => ~ByQueue(t) /\ t \notin poolTasks \cup Deferred
    /\ ByQueue(t) => t \notin poolTasks \cup Deferred
    /\ t \in poolTasks => t \notin Deferred

\* A task is in the hands of at most one of: a thread of the app (queueing it, or
\* consuming its result), a worker, the pool's list, a completed list, and its
\* file when it is a held back close.  The code frees a task and takes it off its
\* lists at different places and under different locks.
TaskHeldOnce == \A t \in Tasks : HeldOnce(t)

\* No task is lost: an allocated task is always in somebody's hands, and a task in
\* somebody's hands is allocated.
NoTaskLost ==
    \A t \in Tasks :
       taskState[t] = "allocated" <=>
          t \in poolTasks \cup Deferred \/ ByApp(t) \/ ByWorker(t) \/ ByQueue(t)

\* The close of a file comes last (SDL_asyncio.h: "the close will happen after any
\* other pending tasks"): when the close task is handed on, no other task is linked
\* on the file, and the file's stream is still open for every task before it.
CloseLast ==
    \A f \in Files : closing[f] \in linked[f] => linked[f] = {closing[f]}

\* A worker performs i/o only on a stream that is open, of a file that is not
\* freed, and at the offset it has sought: the i/o lock keeps another task of the
\* file from seeking in between.
IOIsSound ==
    \A w \in Workers :
       worker[w] = "io" => LET t == wtask[w] IN
          ioOpen[tfile[t]] /\ fileState[tfile[t]] = "open" /\ pos[tfile[t]] = t

\* SDL_DestroyAsyncIOQueue returns only when nothing will come back to the queue: a
\* task that is not freed names a queue that is not freed.
QueueOutlivesTasks ==
    \A t \in Tasks : taskState[t] = "allocated" => queueState[tqueue[t]] = "live"

\* No wake-up of a worker is lost: while the pool's list has a task, no worker sleeps.
WorkersAwake ==
    poolTasks # {} => \A w \in Workers : worker[w] # "waiting"

\* One signal per completed task is enough: while threads sleep in
\* SDL_WaitAsyncIOResult, as many others were woken as there are results to take.
WaitersAwake ==
    \A q \in Queues :
       Sleepers(apc, q) # {} =>
          Cardinality({a \in Apps : apc[a] = "woken" /\ aqueue[a] = q})
             >= Cardinality(completed[q])

\* Between the request and the app's consumption, a task's outcome is decided once:
\* cancelling and the worker never both decide it.
OutcomeDecidedOnce ==
    [][\A t \in Tasks : result[t] # "NONE" => result'[t] = result[t]]_vars

-----------------------------------------------------------------------------
(* The contract with the app.                                              *)

\* The requests of a file that the app has not consumed, and how far one is.
Pending == [f \in Files |-> linked[f] \cup {t \in Deferred : tfile[t] = f}]
Status(t) ==
    CASE taskState[t] = "unused" -> "unused"
      [] taskState[t] # "unused" /\ t \notin Pending[tfile[t]] -> "consumed"
      [] OTHER -> IF result[t] = "NONE" THEN "submitted" ELSE "finished"
Stream == [f \in Files |-> IF fileState[f] = "none" THEN "none"
                           ELSE IF ioOpen[f] THEN "open" ELSE "closed"]

Contract == INSTANCE AsyncIOContract
    WITH stream <- Stream, pending <- Pending, closeTask <- closing,
         status <- [t \in Tasks |-> Status(t)]

\* The front end and the pool together keep the contract: every request is finished
\* once and consumed once, none is accepted by a closing file, and the stream is
\* closed after everything else on it was consumed.
ContractKept == Contract!Spec

-----------------------------------------------------------------------------
(* Liveness: the threads that are not asleep go on.  Nothing is assumed of *)
(* what the app calls, of time-outs and of spurious wake-ups.              *)

Fairness ==
    /\ \A a \in Apps : WF_vars(AppContinue(a))
    /\ \A w \in Workers : WF_vars(WorkerContinue(w))

FairSpec == Spec /\ Fairness

\* "Something will get there eventually" (QueueAsyncIOTask): a task on the pool's
\* list is picked up or canceled, unless the pool is shut down before it is queued.
QueuedTaskPickedUp ==
    \A t \in Tasks : t \in poolTasks ~> t \notin poolTasks \/ poolInit = "UNINITIALIZED"

\* A shutdown of the pool ends.
ShutdownEnds == \A a \in Apps : apc[a] = "cancelling" ~> apc[a] = "idle"

\* SDL_DestroyAsyncIOQueue returns, unless the pool is shut down.
DestroyEnds ==
    \A a \in Apps : destroying[a] ~> ~destroying[a] \/ poolInit = "UNINITIALIZED"
=============================================================================
