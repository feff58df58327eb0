--------------------------- MODULE AsyncIO_proofs ---------------------------
(***************************************************************************)
(* Proofs about AsyncIO for every number of files, queues, tasks, threads: *)
(* what each thread, list and queue knows of the tasks it holds; that no   *)
(* task is lost on its way from hand to hand, a queue is not freed while   *)
(* a task will come back to it, no result waits for a thread that sleeps;  *)
(* and that the contract with the app is kept.                             *)
(***************************************************************************)
EXTENDS AsyncIO, FiniteSetTheorems, TLAPS

-----------------------------------------------------------------------------
(* The inductive invariant, one predicate for each kind of object.         *)

\* The pcs at which a thread holds a task.
Holding == {"queueing", "outcome", "free", "finish"}
Working == {"picked", "io", "done"}

\* What is known of the fields of a task.
TaskOK(t) ==
    /\ taskState[t] = "unused" => result[t] = "NONE"
    /\ taskState[t] = "freed" => result[t] # "NONE"
    /\ taskState[t] # "unused" => /\ tfile[t] \in Files /\ tqueue[t] \in Queues
                                  /\ kind[t] = "CLOSE" <=> closing[tfile[t]] = t

\* A thread of the app holds the task it queues, linked and without an outcome, or
\* one whose outcome it consumes, linked until it is unlinked.
AppOK(a) ==
    /\ apc[a] \in Holding =>
          /\ atask[a] \in Tasks /\ taskState[atask[a]] = "allocated"
          /\ aqueue[a] = tqueue[atask[a]]
    /\ apc[a] \notin Holding => atask[a] = NoTask
    /\ apc[a] = "queueing" => /\ atask[a] \in linked[tfile[atask[a]]]
                              /\ result[atask[a]] = "NONE"
                              /\ kind[atask[a]] = "READWRITE"
    /\ apc[a] = "outcome" => /\ atask[a] \in linked[tfile[atask[a]]]
                             /\ result[atask[a]] # "NONE"
    /\ apc[a] \in {"free", "finish"} => /\ atask[a] \notin linked[tfile[atask[a]]]
                                        /\ result[atask[a]] # "NONE"
    /\ apc[a] = "free" => closing[tfile[atask[a]]] = atask[a]
    /\ apc[a] \in {"waiting", "woken", "destroy"} => aqueue[a] \in Queues

\* A worker holds a linked task, which has an outcome when its i/o is done; the
\* i/o lock of the file is the worker's from the seek on.
WorkerOK(w) ==
    /\ worker[w] \in Working =>
          /\ wtask[w] \in Tasks /\ taskState[wtask[w]] = "allocated"
          /\ wtask[w] \in linked[tfile[wtask[w]]]
          /\ worker[w] = "done" <=> result[wtask[w]] # "NONE"
    /\ worker[w] \notin Working => wtask[w] = NoTask
    /\ worker[w] = "io" => /\ ioLock[tfile[wtask[w]]] = w
                           /\ pos[tfile[wtask[w]]] = wtask[w]

\* A task on the pool's list is linked and has no outcome; a completed one has one.
PoolOK(t) ==
    t \in poolTasks => /\ taskState[t] = "allocated" /\ t \in linked[tfile[t]]
                       /\ result[t] = "NONE"
CompletedOK(q, t) ==
    t \in completed[q] => /\ taskState[t] = "allocated" /\ t \in linked[tfile[t]]
                          /\ result[t] # "NONE" /\ tqueue[t] = q

\* The life of a file: its stream is open while a task without an outcome is linked;
\* a held back close waits for a linked task; the close task is alone when it is
\* linked; and after it nothing is linked and the file may be freed.
FileOK(f) ==
    /\ \A t \in linked[f] : taskState[t] = "allocated" /\ tfile[t] = f
    /\ fileState[f] = "none" => linked[f] = {} /\ closing[f] = NoTask
    /\ closing[f] = NoTask => fileState[f] # "freed" /\ (fileState[f] = "open" => ioOpen[f])
    /\ closing[f] # NoTask =>
          /\ taskState[closing[f]] # "unused" /\ tfile[closing[f]] = f
          /\ result[closing[f]] = "NONE" => fileState[f] = "open" /\ ioOpen[f] /\ linked[f] # {}
          /\ closing[f] \in linked[f] => fileState[f] = "open" /\ linked[f] = {closing[f]}
          /\ closing[f] \notin linked[f] /\ result[closing[f]] # "NONE" => linked[f] = {}
          /\ fileState[f] = "freed" => closing[f] \notin linked[f]

IInv ==
    /\ TypeOK
    /\ \A t \in Tasks : TaskOK(t)
    /\ \A a \in Apps : AppOK(a)
    /\ \A w \in Workers : WorkerOK(w)
    /\ \A t \in Tasks : PoolOK(t)
    /\ \A q \in Queues, t \in Tasks : CompletedOK(q, t)
    /\ \A f \in Files : FileOK(f)
    /\ \A t \in Tasks : HeldOnce(t)
-----------------------------------------------------------------------------
(* Who holds a task holds it alone.                                        *)

LEMMA AppHoldsAlone ==
    ASSUME NEW a \in Apps, NEW t \in Tasks, HeldOnce(t), atask[a] = t
    PROVE  /\ t \notin poolTasks /\ t \notin Deferred
           /\ \A q \in Queues : t \notin completed[q]
           /\ \A w \in Workers : wtask[w] # t
           /\ \A b \in Apps : atask[b] = t => b = a
  BY DEF HeldOnce, ByApp, ByWorker, ByQueue

LEMMA WorkerHoldsAlone ==
    ASSUME NEW w \in Workers, NEW t \in Tasks, HeldOnce(t), wtask[w] = t
    PROVE  /\ t \notin poolTasks /\ t \notin Deferred
           /\ \A q \in Queues : t \notin completed[q]
           /\ \A v \in Workers : wtask[v] = t => v = w
           /\ \A b \in Apps : atask[b] # t
  BY DEF HeldOnce, ByApp, ByWorker, ByQueue

LEMMA QueueHoldsAlone ==
    ASSUME NEW q \in Queues, NEW t \in Tasks, HeldOnce(t), t \in completed[q]
    PROVE  /\ t \notin poolTasks /\ t \notin Deferred
           /\ \A r \in Queues : t \in completed[r] => r = q
           /\ \A w \in Workers : wtask[w] # t
           /\ \A b \in Apps : atask[b] # t
  BY DEF HeldOnce, ByApp, ByWorker, ByQueue

LEMMA PoolHoldsAlone ==
    ASSUME NEW t \in Tasks, HeldOnce(t), t \in poolTasks
    PROVE  /\ t \notin Deferred
           /\ \A q \in Queues : t \notin completed[q]
           /\ \A w \in Workers : wtask[w] # t
           /\ \A b \in Apps : atask[b] # t
  BY DEF HeldOnce, ByApp, ByWorker, ByQueue

\* A held back close is nowhere else.
LEMMA FileHoldsAlone ==
    ASSUME NEW t \in Deferred, HeldOnce(t)
    PROVE  /\ t \notin poolTasks
           /\ \A q \in Queues : t \notin completed[q]
           /\ \A w \in Workers : wtask[w] # t
           /\ \A b \in Apps : atask[b] # t
  BY DEF HeldOnce, ByApp, ByWorker, ByQueue

\* A task that was never used is in nobody's hands and on no list.
LEMMA UnusedIsFree ==
    ASSUME IInv, NEW t \in Tasks, taskState[t] = "unused"
    PROVE  /\ \A f \in Files : t \notin linked[f] /\ closing[f] # t
           /\ t \notin poolTasks
           /\ \A q \in Queues : t \notin completed[q]
           /\ \A w \in Workers : wtask[w] # t
           /\ \A a \in Apps : atask[a] # t
           /\ result[t] = "NONE"
<1>1. \A f \in Files : t \notin linked[f] /\ closing[f] # t
  BY NoneAssumption DEF IInv, TypeOK, FileOK
<1>2. t \notin poolTasks /\ \A q \in Queues : t \notin completed[q]
  BY DEF IInv, PoolOK, CompletedOK
<1>3. \A w \in Workers : wtask[w] # t BY NoneAssumption DEF IInv, WorkerOK
<1>4. \A a \in Apps : atask[a] # t BY NoneAssumption DEF IInv, AppOK
<1> QED BY <1>1, <1>2, <1>3, <1>4 DEF IInv, TaskOK

-----------------------------------------------------------------------------
(* What the shared pieces of the actions do.                               *)

\* Nothing happened to the app's threads beyond the pcs given, but that some woke.
OnlyWoken(pcs) ==
    /\ apc' \in [Apps -> AppStates]
    /\ \A a \in Apps : \/ apc'[a] = pcs[a]
                       \/ pcs[a] = "waiting" /\ apc'[a] = "woken"
                       \/ pcs[a] = "quitwait" /\ apc'[a] = "quitwoken"

\* Nothing happened to the workers, but that some woke or were started.
OnlySpun ==
    /\ worker' \in [Workers -> WorkerStates] /\ running' \in Int
    /\ \A w \in Workers : \/ worker'[w] = worker[w]
                          \/ worker[w] \notin Working /\ worker'[w] \notin Working

\* Task t of queue q was put on the pool's list ...
Listed(t) == poolTasks' = poolTasks \cup {t} /\ result' = result /\ completed' = completed

\* ... or it was canceled, and is completed.
Canceled(t, q) ==
    /\ result' = [result EXCEPT ![t] = "CANCELED"]
    /\ completed' = [completed EXCEPT ![q] = @ \cup {t}]
    /\ poolTasks' = poolTasks

\* Signalling a condition only takes a thread from asleep to woken.
LEMMA SignalEffect ==
    ASSUME NEW pcs \in [Apps -> AppStates], NEW q \in Queues, apc' \in Signalled(pcs, q)
    PROVE  OnlyWoken(pcs)
<1>1. CASE Sleepers(pcs, q) = {} BY <1>1 DEF Signalled, OnlyWoken
<1>2. CASE Sleepers(pcs, q) # {}
  <2>1. PICK a \in Apps : pcs[a] = "waiting" /\ apc' = [pcs EXCEPT ![a] = "woken"]
    BY <1>2 DEF Signalled, Sleepers
  <2> QED BY <2>1 DEF OnlyWoken, AppStates
<1> QED BY <1>1, <1>2

\* So does the broadcast of the pool's condition ...
LEMMA QuitterEffect ==
    ASSUME NEW pcs \in [Apps -> AppStates], apc' = WokenQuitter(pcs)
    PROVE  OnlyWoken(pcs)
  BY DEF WokenQuitter, OnlyWoken, AppStates

\* ... which does the same to the workers.
LEMMA WorkersEffect ==
    ASSUME NEW ws \in [Workers -> WorkerStates]
    PROVE  /\ WokenWorkers(ws) \in [Workers -> WorkerStates]
           /\ \A w \in Workers : \/ WokenWorkers(ws)[w] = ws[w]
                                 \/ ws[w] = "waiting" /\ WokenWorkers(ws)[w] = "woken"
  BY DEF WokenWorkers, WorkerStates

LEMMA SpinEffect ==
    ASSUME TypeOK, SpinAndBroadcast
    PROVE  OnlySpun
<1>1. CASE worker' = WokenWorkers(worker) /\ running' = running
  BY <1>1, WorkersEffect DEF TypeOK, Working, OnlySpun
<1>2. CASE /\ running' = running + 1
           /\ \E w \in Workers : /\ worker[w] = "absent"
                                 /\ worker' = WokenWorkers([worker EXCEPT ![w] = "start"])
  <2>1. PICK w \in Workers : /\ worker[w] = "absent"
                             /\ worker' = WokenWorkers([worker EXCEPT ![w] = "start"])
    BY <1>2
  <2>2. [worker EXCEPT ![w] = "start"] \in [Workers -> WorkerStates]
    BY DEF TypeOK, WorkerStates
  <2>3. /\ worker' \in [Workers -> WorkerStates]
        /\ \A v \in Workers :
              \/ worker'[v] = [worker EXCEPT ![w] = "start"][v]
              \/ [worker EXCEPT ![w] = "start"][v] = "waiting" /\ worker'[v] = "woken"
    BY <2>1, <2>2, WorkersEffect
  <2>4. ASSUME NEW v \in Workers
        PROVE  \/ worker'[v] = worker[v]
               \/ worker[v] \notin Working /\ worker'[v] \notin Working
    <3>1. CASE v = w BY ZenonT(60), <3>1, <2>1, <2>3 DEF TypeOK, Working
    <3>2. CASE v # w BY ZenonT(60), <3>2, <2>1, <2>3 DEF TypeOK, Working
    <3> QED BY <3>1, <3>2
  <2>5. running' \in Int BY <1>2 DEF TypeOK
  <2> QED BY <2>3, <2>4, <2>5 DEF OnlySpun
<1> QED BY <1>1, <1>2 DEF SpinAndBroadcast

\* Queueing a task lists it or cancels it, and otherwise only starts and wakes threads.
LEMMA QueueEffect ==
    ASSUME TypeOK, NEW t \in Tasks, NEW q \in Queues, NEW pcs \in [Apps -> AppStates],
           QueueTask(t, q, pcs)
    PROVE  /\ OnlyWoken(pcs) /\ OnlySpun
           /\ UNCHANGED <<poolInit, stop, idle, wtask>>
           /\ Listed(t) \/ Canceled(t, q)
<1>1. CASE stop
  <2>1. apc' \in Signalled(pcs, q) BY <1>1 DEF QueueTask, CompleteTask
  <2>2. OnlyWoken(pcs) BY <2>1, SignalEffect
  <2> QED BY <1>1, <2>2 DEF QueueTask, CompleteTask, TypeOK, OnlySpun, Canceled
<1>2. CASE ~stop
  <2>1. apc' = WokenQuitter(pcs) /\ SpinAndBroadcast BY <1>2 DEF QueueTask
  <2>2. OnlyWoken(pcs) BY <2>1, QuitterEffect
  <2>3. OnlySpun BY <2>1, SpinEffect
  <2> QED BY <1>2, <2>2, <2>3 DEF QueueTask, Listed
<1> QED BY <1>1, <1>2 DEF TypeOK

-----------------------------------------------------------------------------
(* A step that moves no task and changes no file keeps the invariant,      *)
(* whatever it does to threads that hold no task.                          *)

LEMMA QuietStep ==
    ASSUME IInv, TypeOK',
           UNCHANGED <<fileVars, ioVars, completed, taskVars, poolTasks, wtask, atask>>,
           \A a \in Apps : \/ apc'[a] = apc[a] /\ aqueue'[a] = aqueue[a]
                           \/ /\ apc[a] \notin Holding /\ apc'[a] \notin Holding
                              /\ apc'[a] \in {"waiting", "woken", "destroy"} => aqueue'[a] \in Queues,
           \A w \in Workers : \/ worker'[w] = worker[w]
                              \/ worker[w] \notin Working /\ worker'[w] \notin Working
    PROVE  IInv'
<1>1. \A t \in Tasks : TaskOK(t)' BY DEF IInv, TaskOK, fileVars, taskVars
<1>2. \A a \in Apps : AppOK(a)' BY DEF IInv, AppOK, fileVars, taskVars, Holding
<1>3. \A w \in Workers : WorkerOK(w)'
  BY DEF IInv, WorkerOK, fileVars, ioVars, taskVars, Working
<1>4. \A t \in Tasks : PoolOK(t)' BY DEF IInv, PoolOK, fileVars, taskVars
<1>5. \A q \in Queues, t \in Tasks : CompletedOK(q, t)'
  BY DEF IInv, CompletedOK, fileVars, taskVars
<1>6. \A f \in Files : FileOK(f)' BY DEF IInv, FileOK, fileVars, taskVars
<1>7. \A t \in Tasks : HeldOnce(t)'
  BY DEF IInv, HeldOnce, ByApp, ByWorker, ByQueue, Deferred, fileVars, taskVars
<1> QED BY <1>1, <1>2, <1>3, <1>4, <1>5, <1>6, <1>7 DEF IInv

LEMMA WaitResultStep ==
    ASSUME IInv, NEW a \in Apps, NEW q \in Queues, WaitResult(a, q)
    PROVE  IInv'
<1>1. TypeOK'
  BY DEF IInv, TypeOK, AppStates, WaitResult, fileVars, ioVars, queueVars, taskVars, poolVars, workerVars
<1> QED
  BY <1>1, QuietStep
  DEF IInv, TypeOK, WaitResult, Holding, queueVars, poolVars, workerVars

LEMMA WaitTimeoutStep ==
    ASSUME IInv, NEW a \in Apps, WaitTimeout(a)
    PROVE  IInv'
<1>1. TypeOK'
  BY DEF IInv, TypeOK, AppStates, WaitTimeout, fileVars, ioVars, queueVars, taskVars, poolVars, workerVars
<1> QED
  BY SMTT(30), <1>1, QuietStep
  DEF IInv, TypeOK, WaitTimeout, AppOK, Holding, queueVars, poolVars, workerVars

LEMMA SignalQueueStep ==
    ASSUME IInv, NEW q \in Queues, SignalQueue(q)
    PROVE  IInv'
<1>1. TypeOK'
  BY DEF IInv, TypeOK, AppStates, SignalQueue, fileVars, ioVars, queueVars, taskVars, poolVars, workerVars
<1> QED
  BY <1>1, QuietStep
  DEF IInv, TypeOK, SignalQueue, AppOK, Sleepers, Holding, queueVars, poolVars, workerVars

LEMMA DestroyQueueStep ==
    ASSUME IInv, NEW a \in Apps, NEW q \in Queues, DestroyQueue(a, q)
    PROVE  IInv'
<1>1. TypeOK'
  BY DEF IInv, TypeOK, AppStates, DestroyQueue, fileVars, ioVars, queueVars, taskVars, poolVars, workerVars
<1> QED
  BY <1>1, QuietStep
  DEF IInv, TypeOK, DestroyQueue, Holding, queueVars, poolVars, workerVars

LEMMA DestroyFreeStep ==
    ASSUME IInv, NEW a \in Apps, DestroyFree(a)
    PROVE  IInv'
<1>1. TypeOK'
  BY DEF IInv, TypeOK, AppStates, DestroyFree, fileVars, ioVars, queueVars, taskVars, poolVars, workerVars
<1> QED
  BY <1>1, QuietStep
  DEF IInv, TypeOK, DestroyFree, Holding, queueVars, poolVars, workerVars

LEMMA QuitStep ==
    ASSUME IInv, NEW a \in Apps, Quit(a)
    PROVE  IInv'
<1>1. TypeOK'
  BY DEF IInv, TypeOK, AppStates, Quit, fileVars, ioVars, queueVars, taskVars, poolVars, workerVars
<1> QED
  BY <1>1, QuietStep
  DEF IInv, TypeOK, Quit, Holding, queueVars, poolVars, workerVars

LEMMA WorkerTimeoutStep ==
    ASSUME IInv, NEW w \in Workers, WorkerTimeout(w)
    PROVE  IInv'
<1>1. TypeOK'
  BY DEF IInv, TypeOK, WorkerStates, WorkerTimeout, fileVars, ioVars, queueVars, taskVars, poolVars, appVars
<1> QED
  BY <1>1, QuietStep
  DEF IInv, TypeOK, WorkerTimeout, Working, Holding, queueVars, poolVars, appVars

LEMMA CreateQueueStep ==
    ASSUME IInv, NEW a \in Apps, NEW q \in Queues, CreateQueue(a, q)
    PROVE  IInv'
<1>1. OnlySpun
  BY SMTT(30) DEF IInv, TypeOK, CreateQueue, PrepareThreadpool, WorkerStates, Working, OnlySpun
<1>2. TypeOK'
  BY <1>1 DEF IInv, TypeOK, CreateQueue, PrepareThreadpool, OnlySpun, fileVars, ioVars, taskVars, appVars
<1> QED BY <1>1, <1>2, QuietStep DEF CreateQueue, PrepareThreadpool, OnlySpun, appVars

LEMMA QuitStopStep ==
    ASSUME IInv, NEW a \in Apps, QuitStop(a)
    PROVE  IInv'
<1>1. /\ worker' \in [Workers -> WorkerStates]
      /\ \A w \in Workers : \/ worker'[w] = worker[w]
                            \/ worker[w] \notin Working /\ worker'[w] \notin Working
  BY WorkersEffect DEF IInv, TypeOK, QuitStop, Working
<1>2. TypeOK'
  BY <1>1 DEF IInv, TypeOK, AppStates, QuitStop, fileVars, ioVars, queueVars, taskVars
<1> QED
  BY <1>1, <1>2, QuietStep DEF IInv, TypeOK, QuitStop, queueVars, Holding

LEMMA QuitWakeStep ==
    ASSUME IInv, NEW a \in Apps, QuitWake(a)
    PROVE  IInv'
<1>1. apc' \in [Apps -> AppStates] BY SMTT(30) DEF IInv, TypeOK, AppStates, QuitWake
<1>2. /\ poolInit' \in {"UNINITIALIZED", "INITIALIZED", "UNINITIALIZING"}
      /\ running' \in Int /\ idle' \in Int
  BY DEF IInv, TypeOK, QuitWake
<1>3. stop' \in BOOLEAN BY DEF IInv, TypeOK, QuitWake
<1>4. TypeOK'
  BY <1>1, <1>2, <1>3 DEF IInv, TypeOK, QuitWake, fileVars, ioVars, queueVars, taskVars, workerVars
<1> QED
  BY <1>4, QuietStep DEF IInv, TypeOK, QuitWake, queueVars, workerVars, Holding

-----------------------------------------------------------------------------
(* The steps that create, move and free tasks, one lemma for each action.  *)

LEMMA InitStep == Init => IInv
<1> SUFFICES ASSUME Init PROVE IInv OBVIOUS
<1>1. TypeOK
  <2>1. poolInit \in {"UNINITIALIZED", "INITIALIZED", "UNINITIALIZING"} /\ running \in Int /\ idle \in Int
    BY DEF Init
  <2>2. stop \in BOOLEAN /\ poolTasks \subseteq Tasks BY DEF Init
  <2>3. /\ fileState \in [Files -> {"none", "open", "freed"}]
        /\ linked \in [Files -> SUBSET Tasks]
        /\ closing \in [Files -> Tasks \cup {NoTask}]
        /\ ioLock \in [Files -> Workers \cup {NoWorker}]
        /\ pos \in [Files -> Tasks \cup {NoTask}]
        /\ queueState \in [Queues -> {"none", "live", "freed"}]
        /\ inflight \in [Queues -> Int]
        /\ completed \in [Queues -> SUBSET Tasks]
    BY DEF Init
  <2>4. ioOpen \in [Files -> BOOLEAN] /\ destroying \in [Apps -> BOOLEAN]
    BY DEF Init
  <2>5. /\ taskState \in [Tasks -> {"unused", "allocated", "freed"}]
        /\ tfile \in [Tasks -> Files \cup {NoFile}]
        /\ tqueue \in [Tasks -> Queues \cup {NoQueue}]
        /\ kind \in [Tasks -> {"READWRITE", "CLOSE"}]
        /\ result \in [Tasks -> Results]
        /\ worker \in [Workers -> WorkerStates]
        /\ wtask \in [Workers -> Tasks \cup {NoTask}]
        /\ apc \in [Apps -> AppStates]
        /\ atask \in [Apps -> Tasks \cup {NoTask}]
        /\ aqueue \in [Apps -> Queues \cup {NoQueue}]
    BY DEF Init, Results, WorkerStates, AppStates
  <2> QED BY <2>1, <2>2, <2>3, <2>4, <2>5 DEF TypeOK
<1>2. \A t \in Tasks : TaskOK(t) /\ PoolOK(t) /\ HeldOnce(t)
  BY NoneAssumption DEF Init, TaskOK, PoolOK, HeldOnce, ByApp, ByWorker, ByQueue, Deferred
<1>3. \A a \in Apps : AppOK(a) BY DEF Init, AppOK, Holding
<1>4. \A w \in Workers : WorkerOK(w) BY DEF Init, WorkerOK, Working
<1>5. \A q \in Queues, t \in Tasks : CompletedOK(q, t) BY DEF Init, CompletedOK
<1>6. \A f \in Files : FileOK(f) BY DEF Init, FileOK
<1> QED BY <1>1, <1>2, <1>3, <1>4, <1>5, <1>6 DEF IInv

LEMMA OpenFileStep ==
    ASSUME IInv, NEW a \in Apps, NEW g \in Files, OpenFile(a, g)
    PROVE  IInv'
<1>1. OnlySpun
  BY DEF IInv, TypeOK, OpenFile, PrepareThreadpool, WorkerStates, Working, OnlySpun
<1>2. /\ UNCHANGED <<linked, closing, ioLock, pos, queueState, inflight, completed, taskState, tfile,
                     tqueue, kind, result, apc, atask, aqueue, destroying, poolTasks, wtask>>
      /\ fileState[g] = "none"
      /\ \/ /\ fileState' = [fileState EXCEPT ![g] = "open"]
            /\ ioOpen' = [ioOpen EXCEPT ![g] = TRUE]
         \/ UNCHANGED <<fileState, ioOpen>>
  BY DEF OpenFile, PrepareThreadpool, ioVars, queueVars, taskVars, appVars
<1>3. TypeOK'
  BY <1>1 DEF IInv, TypeOK, OpenFile, PrepareThreadpool, OnlySpun, ioVars, queueVars, taskVars, appVars
<1>4. \A t \in Tasks : TaskOK(t)' BY <1>2 DEF IInv, TaskOK
<1>5. \A b \in Apps : AppOK(b)' BY <1>2 DEF IInv, AppOK
<1>6. \A w \in Workers : WorkerOK(w)' BY <1>1, <1>2 DEF IInv, WorkerOK, OnlySpun, Working
<1>7. \A t \in Tasks : PoolOK(t)' BY <1>2 DEF IInv, PoolOK
<1>8. \A q \in Queues, t \in Tasks : CompletedOK(q, t)' BY <1>2 DEF IInv, CompletedOK
<1>9. ASSUME NEW f \in Files PROVE FileOK(f)'
  <2>1. CASE f = g BY <2>1, <1>2 DEF IInv, TypeOK, FileOK
  <2>2. CASE f # g BY <2>2, <1>2 DEF IInv, TypeOK, FileOK
  <2> QED BY <2>1, <2>2
<1>10. \A t \in Tasks : HeldOnce(t)'
  BY <1>2 DEF IInv, HeldOnce, ByApp, ByWorker, ByQueue, Deferred
<1> QED BY <1>3, <1>4, <1>5, <1>6, <1>7, <1>8, <1>9, <1>10 DEF IInv

LEMMA RequestStep ==
    ASSUME IInv, NEW a \in Apps, NEW g \in Files, NEW q \in Queues, NEW t \in Tasks,
           Request(a, g, q, t)
    PROVE  IInv'
<1>1. /\ apc[a] = "idle" /\ fileState[g] = "open" /\ closing[g] = NoTask
      /\ taskState[t] = "unused"
      /\ taskState' = [taskState EXCEPT ![t] = "allocated"]
      /\ tfile' = [tfile EXCEPT ![t] = g]
      /\ tqueue' = [tqueue EXCEPT ![t] = q]
      /\ kind' = [kind EXCEPT ![t] = "READWRITE"]
      /\ linked' = [linked EXCEPT ![g] = @ \cup {t}]
      /\ inflight' = [inflight EXCEPT ![q] = @ + 1]
      /\ apc' = [apc EXCEPT ![a] = "queueing"]
      /\ atask' = [atask EXCEPT ![a] = t]
      /\ aqueue' = [aqueue EXCEPT ![a] = q]
      /\ UNCHANGED <<fileState, ioOpen, closing, ioLock, pos, queueState, completed, result,
                     poolInit, stop, poolTasks, running, idle, worker, wtask, destroying>>
  BY DEF Request, Accepts, Counted, NewTask, ioVars, poolVars, workerVars
<1>2. /\ \A f \in Files : t \notin linked[f] /\ closing[f] # t
      /\ t \notin poolTasks
      /\ \A r \in Queues : t \notin completed[r]
      /\ \A w \in Workers : wtask[w] # t
      /\ \A b \in Apps : atask[b] # t
      /\ result[t] = "NONE"
  BY <1>1, UnusedIsFree
<1>3. TypeOK' BY <1>1 DEF IInv, TypeOK, AppStates
<1>4. \A u \in Tasks : TaskOK(u)' BY <1>1, <1>2 DEF IInv, TypeOK, TaskOK
<1>5. ASSUME NEW b \in Apps PROVE AppOK(b)'
  <2>1. CASE b = a BY <2>1, <1>1, <1>2 DEF IInv, TypeOK, AppOK, Holding
  <2>2. CASE b # a BY <2>2, <1>1, <1>2 DEF IInv, TypeOK, AppOK, TaskOK, Holding
  <2> QED BY <2>1, <2>2
<1>6. \A w \in Workers : WorkerOK(w)' BY <1>1, <1>2 DEF IInv, TypeOK, WorkerOK, TaskOK
<1>7. \A u \in Tasks : PoolOK(u)' BY <1>1, <1>2 DEF IInv, TypeOK, PoolOK, TaskOK
<1>8. \A r \in Queues, u \in Tasks : CompletedOK(r, u)'
  BY <1>1, <1>2 DEF IInv, TypeOK, CompletedOK, TaskOK
<1>9. ASSUME NEW f \in Files PROVE FileOK(f)'
  <2>1. CASE f = g BY <2>1, <1>1, <1>2, NoneAssumption DEF IInv, TypeOK, FileOK
  <2>2. CASE f # g BY <2>2, <1>1, <1>2, NoneAssumption DEF IInv, TypeOK, FileOK
  <2> QED BY <2>1, <2>2
<1>10. ASSUME NEW u \in Tasks PROVE HeldOnce(u)'
  <2>1. CASE u = t
    BY <2>1, <1>1, <1>2 DEF IInv, TypeOK, AppOK, Holding, HeldOnce, ByApp, ByWorker, ByQueue, Deferred
  <2>2. CASE u # t
    <3>1. u \in Deferred' => u \in Deferred
      BY <2>2, <1>1, <1>2 DEF IInv, TypeOK, TaskOK, Deferred
    <3> QED
      BY <3>1, <2>2, <1>1, <1>2 DEF IInv, TypeOK, HeldOnce, ByApp, ByWorker, ByQueue
  <2> QED BY <2>1, <2>2
<1> QED BY <1>3, <1>4, <1>5, <1>6, <1>7, <1>8, <1>9, <1>10 DEF IInv

LEMMA CloseLaterStep ==
    ASSUME IInv, NEW a \in Apps, NEW g \in Files, NEW q \in Queues, NEW t \in Tasks,
           CloseLater(a, g, q, t)
    PROVE  IInv'
<1>1. /\ fileState[g] = "open" /\ closing[g] = NoTask /\ linked[g] # {}
      /\ taskState[t] = "unused"
      /\ taskState' = [taskState EXCEPT ![t] = "allocated"]
      /\ tfile' = [tfile EXCEPT ![t] = g]
      /\ tqueue' = [tqueue EXCEPT ![t] = q]
      /\ kind' = [kind EXCEPT ![t] = "CLOSE"]
      /\ closing' = [closing EXCEPT ![g] = t]
      /\ UNCHANGED <<fileState, ioOpen, linked, ioLock, pos, queueState, inflight, completed, result,
                     poolInit, stop, poolTasks, running, idle, worker, wtask, apc, atask, aqueue,
                     destroying>>
  BY DEF CloseLater, Accepts, NewTask, ioVars, queueVars, poolVars, workerVars, appVars
<1>2. /\ \A f \in Files : t \notin linked[f] /\ closing[f] # t
      /\ t \notin poolTasks
      /\ \A r \in Queues : t \notin completed[r]
      /\ \A w \in Workers : wtask[w] # t
      /\ \A b \in Apps : atask[b] # t
      /\ result[t] = "NONE"
  BY <1>1, UnusedIsFree
<1>3. TypeOK' BY <1>1 DEF IInv, TypeOK
<1>4. \A u \in Tasks : TaskOK(u)' BY <1>1, <1>2, NoneAssumption DEF IInv, TypeOK, TaskOK
<1>5. \A b \in Apps : AppOK(b)' 
  BY <1>1, <1>2, NoneAssumption DEF IInv, TypeOK, AppOK, TaskOK, Holding
<1>6. \A w \in Workers : WorkerOK(w)' BY <1>1, <1>2 DEF IInv, TypeOK, WorkerOK, TaskOK
<1>7. \A u \in Tasks : PoolOK(u)' BY <1>1, <1>2 DEF IInv, TypeOK, PoolOK, TaskOK
<1>8. \A r \in Queues, u \in Tasks : CompletedOK(r, u)'
  BY <1>1, <1>2 DEF IInv, TypeOK, CompletedOK, TaskOK
<1>9. ASSUME NEW f \in Files PROVE FileOK(f)'
  <2>1. CASE f = g BY <2>1, <1>1, <1>2, NoneAssumption DEF IInv, TypeOK, FileOK
  <2>2. CASE f # g BY <2>2, <1>1, <1>2, NoneAssumption DEF IInv, TypeOK, FileOK
  <2> QED BY <2>1, <2>2
<1>10. ASSUME NEW u \in Tasks PROVE HeldOnce(u)'
  <2>1. CASE u = t
    BY <2>1, <1>1, <1>2 DEF IInv, TypeOK, HeldOnce, ByApp, ByWorker, ByQueue, Deferred
  <2>2. CASE u # t
    <3>1. u \in Deferred' => u \in Deferred
      BY <2>2, <1>1, <1>2 DEF IInv, TypeOK, TaskOK, Deferred
    <3> QED
      BY <3>1, <2>2, <1>1, <1>2 DEF IInv, TypeOK, HeldOnce, ByApp, ByWorker, ByQueue
  <2> QED BY <2>1, <2>2
<1> QED BY <1>3, <1>4, <1>5, <1>6, <1>7, <1>8, <1>9, <1>10 DEF IInv

\* A task handed on is in the pool without an outcome, or completed as canceled; no
\* other task is moved.
LEMMA HandedOn ==
    ASSUME TypeOK, NEW t \in Tasks, NEW q \in Queues, Listed(t) \/ Canceled(t, q),
           result[t] = "NONE", t \notin poolTasks, \A r \in Queues : t \notin completed[r]
    PROVE  /\ result' \in [Tasks -> Results] /\ poolTasks' \subseteq Tasks
           /\ completed' \in [Queues -> SUBSET Tasks]
           /\ \A u \in Tasks : u # t =>
                 /\ result'[u] = result[u]
                 /\ u \in poolTasks' <=> u \in poolTasks
                 /\ \A r \in Queues : u \in completed'[r] <=> u \in completed[r]
           /\ \/ result'[t] = "NONE" /\ t \in poolTasks' /\ \A r \in Queues : t \notin completed'[r]
              \/ /\ result'[t] = "CANCELED" /\ t \notin poolTasks'
                 /\ \A r \in Queues : t \in completed'[r] <=> r = q
<1> USE DEF TypeOK
<1>1. CASE Listed(t)
  BY <1>1 DEF Listed
<1>2. CASE Canceled(t, q)
  <2>1. result' \in [Tasks -> Results] BY <1>2 DEF Canceled, Results
  <2>2. completed' \in [Queues -> SUBSET Tasks] BY <1>2 DEF Canceled
  <2>3. \A u \in Tasks : u # t => \A r \in Queues : u \in completed'[r] <=> u \in completed[r]
    BY <1>2 DEF Canceled
  <2>4. \A r \in Queues : t \in completed'[r] <=> r = q
    BY <1>2 DEF Canceled
  <2> QED BY <1>2, <2>1, <2>2, <2>3, <2>4 DEF Canceled
<1> QED BY <1>1, <1>2

LEMMA RequestQueueStep ==
    ASSUME IInv, NEW a \in Apps, RequestQueue(a)
    PROVE  IInv'
<1>1. /\ atask[a] \in Tasks /\ aqueue[a] \in Queues
      /\ [apc EXCEPT ![a] = "idle"] \in [Apps -> AppStates]
  BY DEF IInv, TypeOK, TaskOK, AppOK, Holding, RequestQueue, AppStates
<1> SUFFICES ASSUME NEW t \in Tasks, t = atask[a],
                    NEW q \in Queues, q = aqueue[a],
                    NEW pcs \in [Apps -> AppStates], pcs = [apc EXCEPT ![a] = "idle"]
             PROVE  IInv'
  BY <1>1
<1>2. /\ QueueTask(t, q, pcs)
      /\ apc[a] = "queueing"
      /\ atask' = [atask EXCEPT ![a] = NoTask]
      /\ aqueue' = [aqueue EXCEPT ![a] = NoQueue]
      /\ UNCHANGED <<fileState, ioOpen, linked, closing, ioLock, pos, queueState, inflight,
                     taskState, tfile, tqueue, kind, destroying>>
  BY DEF RequestQueue, QueueTask, CompleteTask, fileVars, ioVars
<1>3. /\ taskState[t] = "allocated" /\ q = tqueue[t] /\ tfile[t] \in Files
      /\ result[t] = "NONE" /\ t \in linked[tfile[t]] /\ closing[tfile[t]] # t
  BY <1>2 DEF IInv, TypeOK, AppOK, TaskOK, Holding
<1>4. /\ t \notin poolTasks /\ t \notin Deferred
      /\ \A r \in Queues : t \notin completed[r]
      /\ \A w \in Workers : wtask[w] # t
      /\ \A b \in Apps : atask[b] = t => b = a
  BY AppHoldsAlone DEF IInv
<1>5. /\ OnlyWoken(pcs) /\ OnlySpun
      /\ UNCHANGED <<poolInit, stop, idle, wtask>>
      /\ Listed(t) \/ Canceled(t, q)
  BY <1>2, QueueEffect DEF IInv
<1>6. /\ result' \in [Tasks -> Results] /\ poolTasks' \subseteq Tasks
      /\ completed' \in [Queues -> SUBSET Tasks]
  BY <1>3, <1>4, <1>5, HandedOn DEF IInv
<1>7. /\ apc'[a] = "idle"
      /\ \A b \in Apps : b # a => \/ apc'[b] = apc[b]
                                  \/ apc[b] = "waiting" /\ apc'[b] = "woken"
                                  \/ apc[b] = "quitwait" /\ apc'[b] = "quitwoken"
      /\ atask'[a] = NoTask
      /\ \A b \in Apps : b # a => atask'[b] = atask[b] /\ aqueue'[b] = aqueue[b]
  BY <1>2, <1>5 DEF IInv, TypeOK, OnlyWoken
<1>8. \A u \in Tasks : u # t =>
         /\ result'[u] = result[u]
         /\ u \in poolTasks' <=> u \in poolTasks
         /\ \A r \in Queues : u \in completed'[r] <=> u \in completed[r]
  BY <1>3, <1>4, <1>5, HandedOn DEF IInv
<1>9. \/ result'[t] = "NONE" /\ t \in poolTasks' /\ \A r \in Queues : t \notin completed'[r]
      \/ /\ result'[t] = "CANCELED" /\ t \notin poolTasks'
         /\ \A r \in Queues : t \in completed'[r] <=> r = q
  BY <1>3, <1>4, <1>5, HandedOn DEF IInv
<1>17. TypeOK' BY <1>2, <1>5, <1>6 DEF IInv, TypeOK, OnlyWoken, OnlySpun
<1>10. \A u \in Tasks : TaskOK(u)' BY <1>2, <1>3, <1>8 DEF IInv, TypeOK, TaskOK
<1>11. ASSUME NEW b \in Apps PROVE AppOK(b)'
  <2>1. CASE b = a BY <2>1, <1>7 DEF AppOK, Holding
  <2>2. CASE b # a BY <2>2, <1>2, <1>4, <1>7, <1>8 DEF IInv, AppOK, Holding
  <2> QED BY <2>1, <2>2
<1>12. \A w \in Workers : WorkerOK(w)'
  BY <1>2, <1>4, <1>5, <1>8 DEF IInv, WorkerOK, OnlySpun, Working
<1>13. \A u \in Tasks : PoolOK(u)' BY <1>2, <1>3, <1>8, <1>9 DEF IInv, PoolOK
<1>14. \A r \in Queues, u \in Tasks : CompletedOK(r, u)'
  BY <1>2, <1>3, <1>8, <1>9 DEF IInv, CompletedOK
<1>15. \A f \in Files : FileOK(f)'
  BY <1>2, <1>3, <1>8, NoneAssumption DEF IInv, TypeOK, FileOK
<1>16. ASSUME NEW u \in Tasks PROVE HeldOnce(u)'
  <2>1. CASE u = t
    BY <2>1, <1>2, <1>3, <1>4, <1>5, <1>7, <1>9, NoneAssumption
    DEF HeldOnce, ByApp, ByWorker, ByQueue, Deferred
  <2>2. CASE u # t
    <3>1. u \in Deferred' => u \in Deferred BY <2>2, <1>2, <1>8 DEF Deferred
    <3> QED
      BY <3>1, <2>2, <1>2, <1>5, <1>7, <1>8, NoneAssumption
      DEF IInv, HeldOnce, ByApp, ByWorker, ByQueue
  <2> QED BY <2>1, <2>2
<1> QED BY <1>10, <1>11, <1>12, <1>13, <1>14, <1>15, <1>16, <1>17 DEF IInv

LEMMA CloseNowStep ==
    ASSUME IInv, NEW a \in Apps, NEW g \in Files, NEW q \in Queues, NEW t \in Tasks,
           CloseNow(a, g, q, t)
    PROVE  IInv'
<1>1. /\ QueueTask(t, q, apc)
      /\ apc[a] = "idle" /\ fileState[g] = "open" /\ closing[g] = NoTask /\ linked[g] = {}
      /\ taskState[t] = "unused"
      /\ taskState' = [taskState EXCEPT ![t] = "allocated"]
      /\ tfile' = [tfile EXCEPT ![t] = g]
      /\ tqueue' = [tqueue EXCEPT ![t] = q]
      /\ kind' = [kind EXCEPT ![t] = "CLOSE"]
      /\ closing' = [closing EXCEPT ![g] = t]
      /\ linked' = [linked EXCEPT ![g] = {t}]
      /\ inflight' = [inflight EXCEPT ![q] = @ + 1]
      /\ UNCHANGED <<fileState, ioOpen, ioLock, pos, queueState, atask, aqueue, destroying>>
  BY DEF CloseNow, Accepts, Counted, NewTask, QueueTask, CompleteTask, ioVars
<1>2. /\ \A f \in Files : t \notin linked[f] /\ closing[f] # t
      /\ t \notin poolTasks
      /\ \A r \in Queues : t \notin completed[r]
      /\ \A w \in Workers : wtask[w] # t
      /\ \A b \in Apps : atask[b] # t
      /\ result[t] = "NONE"
  BY <1>1, UnusedIsFree
<1>3. /\ OnlyWoken(apc) /\ OnlySpun
      /\ UNCHANGED <<poolInit, stop, idle, wtask>>
      /\ Listed(t) \/ Canceled(t, q)
  BY <1>1, QueueEffect DEF IInv, TypeOK
<1>4. /\ result' \in [Tasks -> Results] /\ poolTasks' \subseteq Tasks
      /\ completed' \in [Queues -> SUBSET Tasks]
  BY <1>2, <1>3, HandedOn DEF IInv
<1>17. TypeOK'
  <2>1. /\ taskState' \in [Tasks -> {"unused", "allocated", "freed"}]
        /\ tfile' \in [Tasks -> Files \cup {NoFile}]
        /\ tqueue' \in [Tasks -> Queues \cup {NoQueue}]
        /\ kind' \in [Tasks -> {"READWRITE", "CLOSE"}]
    BY <1>1 DEF IInv, TypeOK
  <2>2. /\ linked' \in [Files -> SUBSET Tasks]
        /\ closing' \in [Files -> Tasks \cup {NoTask}]
        /\ inflight' \in [Queues -> Int]
    BY <1>1 DEF IInv, TypeOK
  <2> QED BY <1>1, <1>3, <1>4, <2>1, <2>2 DEF IInv, TypeOK, OnlyWoken, OnlySpun
<1>5. \A b \in Apps : \/ apc'[b] = apc[b]
                      \/ apc[b] = "waiting" /\ apc'[b] = "woken"
                      \/ apc[b] = "quitwait" /\ apc'[b] = "quitwoken"
  BY <1>3 DEF OnlyWoken
<1>6. \A u \in Tasks : u # t =>
         /\ result'[u] = result[u]
         /\ u \in poolTasks' <=> u \in poolTasks
         /\ \A r \in Queues : u \in completed'[r] <=> u \in completed[r]
  BY <1>2, <1>3, HandedOn DEF IInv
<1>7. \/ result'[t] = "NONE" /\ t \in poolTasks' /\ \A r \in Queues : t \notin completed'[r]
      \/ /\ result'[t] = "CANCELED" /\ t \notin poolTasks'
         /\ \A r \in Queues : t \in completed'[r] <=> r = q
  BY <1>2, <1>3, HandedOn DEF IInv
<1>8. \A u \in Tasks : u # t => /\ taskState'[u] = taskState[u] /\ tfile'[u] = tfile[u]
                                /\ tqueue'[u] = tqueue[u] /\ kind'[u] = kind[u]
  BY <1>1 DEF IInv, TypeOK
<1>9. /\ taskState'[t] = "allocated" /\ tfile'[t] = g /\ tqueue'[t] = q /\ kind'[t] = "CLOSE"
      /\ linked'[g] = {t} /\ closing'[g] = t
      /\ \A f \in Files : f # g => linked'[f] = linked[f] /\ closing'[f] = closing[f]
  BY <1>1 DEF IInv, TypeOK
<1>10. ASSUME NEW u \in Tasks PROVE TaskOK(u)'
  <2>1. CASE u = t BY <2>1, <1>9 DEF TaskOK
  <2>2. CASE u # t BY <2>2, <1>1, <1>6, <1>8, <1>9, NoneAssumption DEF IInv, TypeOK, TaskOK
  <2> QED BY <2>1, <2>2
\* No task is linked on g, so none in hand belongs to it, unless it is unlinked.
<1>11. ASSUME NEW b \in Apps PROVE AppOK(b)'
  <2>1. apc[b] \in Holding =>
           /\ atask[b] # t /\ atask[b] \in Tasks /\ tfile[atask[b]] \in Files
    BY <1>2 DEF IInv, AppOK, TaskOK
  <2> QED
    BY <2>1, <1>1, <1>2, <1>5, <1>6, <1>8, <1>9, NoneAssumption DEF IInv, TypeOK, AppOK, Holding
<1>12. \A w \in Workers : WorkerOK(w)'
  BY <1>1, <1>2, <1>3, <1>6, <1>8, <1>9 DEF IInv, TaskOK, WorkerOK, OnlySpun, Working
<1>13. \A u \in Tasks : PoolOK(u)'
  BY <1>1, <1>6, <1>7, <1>8, <1>9 DEF IInv, TaskOK, PoolOK
<1>14. \A r \in Queues, u \in Tasks : CompletedOK(r, u)'
  BY <1>1, <1>6, <1>7, <1>8, <1>9 DEF IInv, TaskOK, CompletedOK
<1>15. ASSUME NEW f \in Files PROVE FileOK(f)'
  <2>1. CASE f = g
    BY <2>1, <1>1, <1>7, <1>9, NoneAssumption DEF IInv, TypeOK, FileOK
  <2>2. CASE f # g
    BY <2>2, <1>1, <1>2, <1>6, <1>8, <1>9, NoneAssumption DEF IInv, TypeOK, FileOK
  <2> QED BY <2>1, <2>2
<1>16. ASSUME NEW u \in Tasks PROVE HeldOnce(u)'
  <2>1. CASE u = t
    BY <2>1, <1>1, <1>2, <1>3, <1>7, <1>9 DEF HeldOnce, ByApp, ByWorker, ByQueue, Deferred
  <2>2. CASE u # t
    <3>1. u \in Deferred' => u \in Deferred
      BY <2>2, <1>1, <1>6, <1>8, <1>9 DEF IInv, TaskOK, Deferred
    <3> QED
      BY <3>1, <2>2, <1>1, <1>3, <1>6 DEF IInv, HeldOnce, ByApp, ByWorker, ByQueue
  <2> QED BY <2>1, <2>2
<1> QED BY <1>10, <1>11, <1>12, <1>13, <1>14, <1>15, <1>16, <1>17 DEF IInv

\* Taking a completed task in hand to consume it, by SDL_GetAsyncIOResult, the end of
\* SDL_WaitAsyncIOResult or the loop of SDL_DestroyAsyncIOQueue.
LEMMA PopStep ==
    ASSUME IInv, NEW a \in Apps, NEW q \in Queues,
           apc[a] \in {"idle", "woken", "destroy"}, Pop(a, q),
           aqueue' \in [Apps -> Queues \cup {NoQueue}], aqueue'[a] = q,
           \A b \in Apps : b # a => aqueue'[b] = aqueue[b],
           UNCHANGED <<fileVars, ioVars, queueState, inflight, taskVars, poolVars, workerVars,
                       destroying>>
    PROVE  IInv'
<1>1. PICK t \in completed[q] : /\ completed' = [completed EXCEPT ![q] = @ \ {t}]
                                /\ atask' = [atask EXCEPT ![a] = t]
                                /\ apc' = [apc EXCEPT ![a] = "outcome"]
  BY DEF Pop
<1>2. t \in Tasks /\ CompletedOK(q, t) /\ HeldOnce(t) BY DEF IInv, TypeOK
<1>3. /\ t \notin poolTasks /\ t \notin Deferred
      /\ \A r \in Queues : t \in completed[r] => r = q
      /\ \A w \in Workers : wtask[w] # t
      /\ \A b \in Apps : atask[b] # t
  BY <1>1, <1>2, QueueHoldsAlone
<1>4. UNCHANGED <<fileState, ioOpen, linked, closing, ioLock, pos, queueState, inflight, taskState,
                  tfile, tqueue, kind, result, poolInit, stop, poolTasks, running, idle, worker,
                  wtask, destroying>>
  BY DEF fileVars, ioVars, taskVars, poolVars, workerVars
<1>5. /\ apc'[a] = "outcome" /\ atask'[a] = t
      /\ \A b \in Apps : b # a => apc'[b] = apc[b] /\ atask'[b] = atask[b]
      /\ \A r \in Queues : completed'[r] \subseteq completed[r]
      /\ \A r \in Queues : t \notin completed'[r]
  BY <1>1, <1>2, <1>3 DEF IInv, TypeOK
<1>6. TypeOK' BY <1>1, <1>2, <1>4 DEF IInv, TypeOK, AppStates
<1>7. \A u \in Tasks : TaskOK(u)' BY <1>4 DEF IInv, TaskOK
<1>8. ASSUME NEW b \in Apps PROVE AppOK(b)'
  <2>1. CASE b = a BY <2>1, <1>1, <1>2, <1>4, <1>5 DEF AppOK, CompletedOK, Holding
  <2>2. CASE b # a BY <2>2, <1>4, <1>5 DEF IInv, AppOK, Holding
  <2> QED BY <2>1, <2>2
<1>9. \A w \in Workers : WorkerOK(w)' BY <1>4 DEF IInv, WorkerOK
<1>10. \A u \in Tasks : PoolOK(u)' BY <1>4 DEF IInv, PoolOK
<1>11. \A r \in Queues, u \in Tasks : CompletedOK(r, u)' BY <1>4, <1>5 DEF IInv, CompletedOK
<1>12. \A f \in Files : FileOK(f)' BY <1>4 DEF IInv, FileOK
<1>13. ASSUME NEW u \in Tasks PROVE HeldOnce(u)'
  <2>1. CASE u = t
    BY <2>1, <1>3, <1>4, <1>5 DEF HeldOnce, ByApp, ByWorker, ByQueue, Deferred
  <2>2. CASE u # t
    <3>1. Deferred' = Deferred BY <1>4 DEF Deferred
    <3> QED BY <3>1, <2>2, <1>4, <1>5 DEF IInv, HeldOnce, ByApp, ByWorker, ByQueue
  <2> QED BY <2>1, <2>2
<1> QED BY <1>6, <1>7, <1>8, <1>9, <1>10, <1>11, <1>12, <1>13 DEF IInv

LEMMA GetResultStep ==
    ASSUME IInv, NEW a \in Apps, NEW q \in Queues, GetResult(a, q)
    PROVE  IInv'
  BY PopStep DEF IInv, TypeOK, GetResult

LEMMA WaitEndStep ==
    ASSUME IInv, NEW a \in Apps, WaitEnd(a)
    PROVE  IInv'
<1>1. aqueue[a] \in Queues BY DEF IInv, AppOK, WaitEnd
<1>2. CASE Pop(a, aqueue[a]) /\ UNCHANGED aqueue
  BY <1>1, <1>2, PopStep DEF IInv, TypeOK, WaitEnd
<1>3. CASE /\ apc' = [apc EXCEPT ![a] = AfterResult(a)]
           /\ aqueue' = [aqueue EXCEPT ![a] = QueueAfter(a)]
           /\ UNCHANGED <<completed, atask>>
  <2>1. apc' \in [Apps -> AppStates] /\ aqueue' \in [Apps -> Queues \cup {NoQueue}]
    BY <1>1, <1>3 DEF IInv, TypeOK, AppStates, AfterResult, QueueAfter
  <2>2. TypeOK'
    BY <2>1, <1>3 DEF IInv, TypeOK, WaitEnd, fileVars, ioVars, taskVars, poolVars, workerVars
  <2>3. \A b \in Apps : \/ apc'[b] = apc[b] /\ aqueue'[b] = aqueue[b]
                        \/ /\ apc[b] \notin Holding /\ apc'[b] \notin Holding
                           /\ apc'[b] \in {"waiting", "woken", "destroy"} => aqueue'[b] \in Queues
    BY <1>1, <1>3 DEF IInv, TypeOK, WaitEnd, AfterResult, QueueAfter, Holding
  <2> QED BY <2>2, <2>3, <1>3, QuietStep DEF WaitEnd, poolVars, workerVars
<1> QED BY <1>2, <1>3 DEF WaitEnd

LEMMA DestroyConsumeStep ==
    ASSUME IInv, NEW a \in Apps, DestroyConsume(a)
    PROVE  IInv'
<1>1. aqueue[a] \in Queues BY DEF IInv, AppOK, DestroyConsume
<1>2. CASE Pop(a, aqueue[a])
  BY <1>1, <1>2, PopStep DEF IInv, TypeOK, DestroyConsume
<1>3. CASE apc' = [apc EXCEPT ![a] = "waiting"] /\ UNCHANGED <<completed, atask>>
  <2>1. TypeOK'
    BY <1>3 DEF IInv, TypeOK, AppStates, DestroyConsume, fileVars, ioVars, taskVars, poolVars, workerVars
  <2> QED
    BY <2>1, <1>1, <1>3, QuietStep
    DEF IInv, TypeOK, DestroyConsume, Holding, poolVars, workerVars
<1> QED BY <1>2, <1>3 DEF DestroyConsume

LEMMA OutcomeFreeStep ==
    ASSUME IInv, NEW a \in Apps, OutcomeFree(a)
    PROVE  IInv'
<1>1. /\ atask[a] \in Tasks /\ atask[a] \notin linked[tfile[atask[a]]]
      /\ closing[tfile[atask[a]]] = atask[a] /\ result[atask[a]] # "NONE"
      /\ tfile[atask[a]] \in Files
  BY DEF IInv, AppOK, TaskOK, Holding, OutcomeFree
<1> DEFINE g == tfile[atask[a]]
<1>2. /\ fileState' = [fileState EXCEPT ![g] = "freed"]
      /\ apc' = [apc EXCEPT ![a] = "finish"] /\ apc[a] = "free"
      /\ UNCHANGED <<ioOpen, linked, closing, ioLock, pos, queueState, inflight, completed, taskState,
                     tfile, tqueue, kind, result, poolInit, stop, poolTasks, running, idle, worker,
                     wtask, atask, aqueue, destroying>>
  BY DEF OutcomeFree, ioVars, queueVars, taskVars, poolVars, workerVars
<1>3. TypeOK' BY <1>1, <1>2 DEF IInv, TypeOK, AppStates
<1>4. \A u \in Tasks : TaskOK(u)' BY <1>2 DEF IInv, TaskOK
<1>5. \A b \in Apps : AppOK(b)' BY <1>2 DEF IInv, TypeOK, AppOK, Holding
<1>6. \A w \in Workers : WorkerOK(w)' BY <1>2 DEF IInv, WorkerOK
<1>7. \A u \in Tasks : PoolOK(u)' BY <1>2 DEF IInv, PoolOK
<1>8. \A r \in Queues, u \in Tasks : CompletedOK(r, u)' BY <1>2 DEF IInv, CompletedOK
<1>9. ASSUME NEW f \in Files PROVE FileOK(f)'
  <2>1. CASE f = g BY SMTT(30), <2>1, <1>1, <1>2, NoneAssumption DEF IInv, TypeOK, FileOK
  <2>2. CASE f # g BY <2>2, <1>1, <1>2 DEF IInv, TypeOK, FileOK
  <2> QED BY <2>1, <2>2
<1>10. \A u \in Tasks : HeldOnce(u)'
  BY <1>2 DEF IInv, HeldOnce, ByApp, ByWorker, ByQueue, Deferred
<1> QED BY <1>3, <1>4, <1>5, <1>6, <1>7, <1>8, <1>9, <1>10 DEF IInv

LEMMA OutcomeFinishStep ==
    ASSUME IInv, NEW a \in Apps, OutcomeFinish(a)
    PROVE  IInv'
<1>1. /\ atask[a] \in Tasks /\ atask[a] \notin linked[tfile[atask[a]]]
      /\ result[atask[a]] # "NONE" /\ aqueue[a] = tqueue[atask[a]]
      /\ tfile[atask[a]] \in Files /\ tqueue[atask[a]] \in Queues
  BY DEF IInv, AppOK, TaskOK, Holding, OutcomeFinish
<1> SUFFICES ASSUME NEW t \in Tasks, t = atask[a], NEW q \in Queues, q = tqueue[t]
             PROVE  IInv'
  BY <1>1
<1>2. /\ apc[a] = "finish"
      /\ inflight' = [inflight EXCEPT ![q] = @ - 1]
      /\ taskState' = [taskState EXCEPT ![t] = "freed"]
      /\ apc' = [apc EXCEPT ![a] = AfterResult(a)]
      /\ atask' = [atask EXCEPT ![a] = NoTask]
      /\ aqueue' = [aqueue EXCEPT ![a] = QueueAfter(a)]
      /\ UNCHANGED <<fileState, ioOpen, linked, closing, ioLock, pos, queueState, completed, tfile,
                     tqueue, kind, result, poolInit, stop, poolTasks, running, idle, worker, wtask,
                     destroying>>
  BY DEF OutcomeFinish, fileVars, ioVars, poolVars, workerVars
<1>3. /\ t \notin poolTasks
      /\ \A r \in Queues : t \notin completed[r]
      /\ \A w \in Workers : wtask[w] # t
      /\ \A b \in Apps : atask[b] = t => b = a
  BY AppHoldsAlone DEF IInv
<1>4. \A f \in Files : t \notin linked[f]
  BY <1>1 DEF IInv, FileOK
<1>5. /\ AfterResult(a) \in {"destroy", "idle"}
      /\ AfterResult(a) = "destroy" => QueueAfter(a) = q
      /\ QueueAfter(a) \in Queues \cup {NoQueue}
  BY <1>1 DEF AfterResult, QueueAfter
<1>6. TypeOK' BY <1>2, <1>5 DEF IInv, TypeOK, AppStates
<1>7. \A u \in Tasks : TaskOK(u)' BY <1>1, <1>2 DEF IInv, TypeOK, AppOK, TaskOK, Holding
<1>8. ASSUME NEW b \in Apps PROVE AppOK(b)'
  <2>1. CASE b = a BY <2>1, <1>2, <1>5 DEF IInv, TypeOK, AppOK, Holding
  <2>2. CASE b # a BY <2>2, <1>2, <1>3 DEF IInv, TypeOK, AppOK, Holding
  <2> QED BY <2>1, <2>2
<1>9. \A w \in Workers : WorkerOK(w)' BY <1>2, <1>3 DEF IInv, TypeOK, WorkerOK, Working
<1>10. \A u \in Tasks : PoolOK(u)' BY <1>2, <1>3 DEF IInv, TypeOK, PoolOK
<1>11. \A r \in Queues, u \in Tasks : CompletedOK(r, u)' BY <1>2, <1>3 DEF IInv, TypeOK, CompletedOK
<1>12. \A f \in Files : FileOK(f)' BY <1>1, <1>2, <1>4 DEF IInv, TypeOK, FileOK
<1>13. ASSUME NEW u \in Tasks PROVE HeldOnce(u)'
  <2>1. u \in Deferred' => u \in Deferred BY <1>2 DEF IInv, TypeOK, Deferred
  <2> QED BY <2>1, <1>2, NoneAssumption DEF IInv, TypeOK, HeldOnce, ByApp, ByWorker, ByQueue
<1> QED BY <1>6, <1>7, <1>8, <1>9, <1>10, <1>11, <1>12, <1>13 DEF IInv

LEMMA OutcomeUnlinkStep ==
    ASSUME IInv, NEW a \in Apps, OutcomeUnlink(a)
    PROVE  IInv'
<1>1. /\ atask[a] \in Tasks /\ atask[a] \in linked[tfile[atask[a]]]
      /\ result[atask[a]] # "NONE" /\ taskState[atask[a]] = "allocated"
      /\ tfile[atask[a]] \in Files /\ aqueue[a] = tqueue[atask[a]]
  BY DEF IInv, AppOK, TaskOK, Holding, OutcomeUnlink
<1> SUFFICES ASSUME NEW t \in Tasks, t = atask[a], NEW g \in Files, g = tfile[t],
                    NEW pcs \in [Apps -> AppStates], pcs = [apc EXCEPT ![a] = AfterUnlink(t)]
             PROVE  IInv'
  <2>1. AfterUnlink(atask[a]) \in AppStates BY DEF AfterUnlink, AppStates
  <2>2. [apc EXCEPT ![a] = AfterUnlink(atask[a])] \in [Apps -> AppStates]
    BY <2>1 DEF IInv, TypeOK
  <2> QED BY <1>1, <2>2
<1>2. /\ apc[a] = "outcome"
      /\ UNCHANGED <<fileState, ioOpen, closing, ioLock, pos, queueState, taskState, tfile,
                      tqueue, kind, atask, aqueue, destroying>>
  BY DEF OutcomeUnlink, ioVars
<1>3. /\ t \notin poolTasks
      /\ \A r \in Queues : t \notin completed[r]
      /\ \A w \in Workers : wtask[w] # t
      /\ \A b \in Apps : atask[b] = t => b = a
  BY AppHoldsAlone DEF IInv
<1>4. pcs[a] = AfterUnlink(t) /\ \A b \in Apps : b # a => pcs[b] = apc[b]
  BY DEF IInv, TypeOK
<1>5. AfterUnlink(t) \in {"free", "finish"} /\ (AfterUnlink(t) = "free" => closing[g] = t)
  BY DEF AfterUnlink
<1>6. CASE /\ ~CloseIsDue(t)
           /\ linked' = [linked EXCEPT ![g] = @ \ {t}]
           /\ apc' = pcs
           /\ UNCHANGED <<inflight, completed, result, poolVars, workerVars>>
  <2>1. UNCHANGED <<inflight, completed, result, poolInit, stop, poolTasks, running, idle, worker, wtask>>
    BY <1>6 DEF poolVars, workerVars
  <2>2. \A u \in Tasks, f \in Files : u \in linked'[f] <=> u \in linked[f] /\ ~(f = g /\ u = t)
    BY <1>6 DEF IInv, TypeOK
  <2>3. TypeOK' BY <1>2, <1>6, <2>1 DEF IInv, TypeOK
  <2>4. \A u \in Tasks : TaskOK(u)' BY <1>2, <2>1 DEF IInv, TaskOK
  <2>5. ASSUME NEW b \in Apps PROVE AppOK(b)'
    <3>1. CASE b = a
      BY <3>1, <1>1, <1>2, <1>4, <1>5, <1>6, <2>1, <2>2 DEF AppOK, Holding
    <3>2. CASE b # a
      <4>1. apc[b] \in Holding => atask[b] \in Tasks /\ tfile[atask[b]] \in Files /\ atask[b] # t
        BY <1>3, <3>2 DEF IInv, AppOK, TaskOK
      <4> QED BY <3>2, <4>1, <1>2, <1>4, <1>6, <2>1, <2>2 DEF IInv, AppOK, Holding
    <3> QED BY <3>1, <3>2
  <2>6. ASSUME NEW w \in Workers PROVE WorkerOK(w)'
    <3>1. worker[w] \in Working => wtask[w] \in Tasks /\ tfile[wtask[w]] \in Files
      BY DEF IInv, WorkerOK, TaskOK
    <3> QED BY <3>1, <1>2, <1>3, <2>1, <2>2 DEF IInv, WorkerOK, Working
  <2>7. \A u \in Tasks : PoolOK(u)' BY <1>2, <1>3, <2>1, <2>2 DEF IInv, PoolOK, TaskOK
  <2>8. \A r \in Queues, u \in Tasks : CompletedOK(r, u)'
    BY <1>2, <1>3, <2>1, <2>2 DEF IInv, CompletedOK, TaskOK
  <2>9. ASSUME NEW f \in Files PROVE FileOK(f)'
    <3>1. linked'[f] = IF f = g THEN linked[f] \ {t} ELSE linked[f]
      BY <1>6 DEF IInv, TypeOK
    <3>2. CASE f = g
      BY <3>1, <3>2, <1>1, <1>2, <1>6, <2>1 DEF IInv, TypeOK, FileOK, CloseIsDue
    <3>3. CASE f # g BY <3>1, <3>3, <1>2, <2>1 DEF IInv, FileOK
    <3> QED BY <3>2, <3>3
  <2>10. ASSUME NEW u \in Tasks PROVE HeldOnce(u)'
    <3>1. u \in Deferred' => u \in Deferred
      BY <1>1, <1>2, <2>1, <2>2 DEF IInv, TaskOK, Deferred
    <3> QED BY <3>1, <1>2, <2>1 DEF IInv, HeldOnce, ByApp, ByWorker, ByQueue
  <2> QED BY <2>3, <2>4, <2>5, <2>6, <2>7, <2>8, <2>9, <2>10 DEF IInv
<1>7. CASE /\ CloseIsDue(t)
           /\ linked' = [linked EXCEPT ![g] = (@ \ {t}) \cup {closing[g]}]
           /\ inflight' = Counted(tqueue[closing[g]])
           /\ QueueTask(closing[g], tqueue[closing[g]], pcs)
  <2>1. /\ closing[g] \in Tasks /\ closing[g] # t /\ tqueue[closing[g]] \in Queues
        /\ linked[g] = {t} /\ tfile[closing[g]] = g /\ result[closing[g]] = "NONE"
        /\ taskState[closing[g]] = "allocated" /\ fileState[g] = "open" /\ ioOpen[g]
    <3>1. closing[g] \in Tasks /\ closing[g] # t /\ linked[g] = {t}
      BY <1>1, <1>7 DEF IInv, TypeOK, CloseIsDue
    <3>2. /\ tfile[closing[g]] = g /\ result[closing[g]] = "NONE"
          /\ taskState[closing[g]] # "unused" /\ fileState[g] = "open" /\ ioOpen[g]
      BY <3>1, NoneAssumption DEF IInv, FileOK
    <3>3. taskState[closing[g]] = "allocated" /\ tqueue[closing[g]] \in Queues
      BY <3>1, <3>2 DEF IInv, TypeOK, TaskOK
    <3> QED BY <3>1, <3>2, <3>3
  <2> SUFFICES ASSUME NEW c \in Tasks, c = closing[g], NEW q \in Queues, q = tqueue[c]
               PROVE  IInv'
    BY <2>1
  <2>2. c \in Deferred BY <2>1 DEF Deferred
  <2>3. /\ c \notin poolTasks
        /\ \A r \in Queues : c \notin completed[r]
        /\ \A w \in Workers : wtask[w] # c
        /\ \A b \in Apps : atask[b] # c
    BY <2>2, FileHoldsAlone DEF IInv
  <2>4. /\ OnlyWoken(pcs) /\ OnlySpun
        /\ UNCHANGED <<poolInit, stop, idle, wtask>>
        /\ Listed(c) \/ Canceled(c, q)
    BY <1>7, QueueEffect DEF IInv
  <2>5. /\ result' \in [Tasks -> Results] /\ poolTasks' \subseteq Tasks
        /\ completed' \in [Queues -> SUBSET Tasks]
    BY <2>1, <2>3, <2>4, HandedOn DEF IInv
  <2>6. \A u \in Tasks : u # c =>
           /\ result'[u] = result[u]
           /\ u \in poolTasks' <=> u \in poolTasks
           /\ \A r \in Queues : u \in completed'[r] <=> u \in completed[r]
    BY <2>1, <2>3, <2>4, HandedOn DEF IInv
  <2>7. \/ result'[c] = "NONE" /\ c \in poolTasks' /\ \A r \in Queues : c \notin completed'[r]
        \/ /\ result'[c] = "CANCELED" /\ c \notin poolTasks'
           /\ \A r \in Queues : c \in completed'[r] <=> r = q
    BY SMTT(30), <2>1, <2>3, <2>4, HandedOn DEF IInv
  <2>8. linked'[g] = {c} /\ \A f \in Files : f # g => linked'[f] = linked[f]
    BY <1>7, <2>1 DEF IInv, TypeOK
  <2>9. AfterUnlink(t) = "finish" BY <2>1 DEF AfterUnlink
  <2>10. /\ apc'[a] = "finish"
         /\ \A b \in Apps : b # a => \/ apc'[b] = apc[b]
                                     \/ apc[b] = "waiting" /\ apc'[b] = "woken"
                                     \/ apc[b] = "quitwait" /\ apc'[b] = "quitwoken"
    BY <1>4, <2>4, <2>9 DEF OnlyWoken
  <2>11. TypeOK'
    <3>1. linked' \in [Files -> SUBSET Tasks] /\ inflight' \in [Queues -> Int]
      BY SMTT(30), <1>7, <2>1 DEF IInv, TypeOK, Counted
    <3> QED BY <3>1, <1>2, <2>4, <2>5 DEF IInv, TypeOK, OnlyWoken, OnlySpun
  <2>12. \A u \in Tasks : TaskOK(u)' BY <1>2, <2>1, <2>6 DEF IInv, TaskOK
  <2>13. ASSUME NEW b \in Apps PROVE AppOK(b)'
    <3>1. CASE b = a
      BY <3>1, <1>1, <1>2, <2>1, <2>6, <2>8, <2>10 DEF AppOK, Holding
    <3>2. CASE b # a
      <4>1. apc[b] \in Holding => /\ atask[b] \in Tasks /\ tfile[atask[b]] \in Files
                                  /\ atask[b] # t /\ atask[b] # c
        BY <1>3, <2>3, <3>2 DEF IInv, AppOK, TaskOK
      <4>2. apc[b] \in Holding => (atask[b] \in linked'[tfile[atask[b]]] <=> atask[b] \in linked[tfile[atask[b]]])
        BY <4>1, <2>1, <2>8
      <4> QED BY <3>2, <4>1, <4>2, <1>2, <2>6, <2>10 DEF IInv, AppOK, Holding
    <3> QED BY <3>1, <3>2
  <2>14. ASSUME NEW w \in Workers PROVE WorkerOK(w)'
    <3>1. worker[w] \in Working => wtask[w] \in Tasks /\ tfile[wtask[w]] \in Files
      BY DEF IInv, WorkerOK, TaskOK
    <3>2. worker[w] \in Working => wtask[w] \in linked'[tfile[wtask[w]]]
      BY <3>1, <1>3, <2>1, <2>8 DEF IInv, WorkerOK
    <3> QED BY <3>1, <3>2, <1>2, <2>3, <2>4, <2>6 DEF IInv, WorkerOK, OnlySpun, Working
  <2>15. ASSUME NEW u \in Tasks PROVE PoolOK(u)'
    BY SMTT(30), <1>2, <1>3, <2>1, <2>6, <2>7, <2>8 DEF IInv, PoolOK, TaskOK
  <2>16. \A r \in Queues, u \in Tasks : CompletedOK(r, u)'
    BY SMTT(30), <1>2, <1>3, <2>1, <2>6, <2>7, <2>8 DEF IInv, CompletedOK, TaskOK
  <2>17. ASSUME NEW f \in Files PROVE FileOK(f)'
    <3>1. CASE f = g BY <3>1, <1>2, <2>1, <2>8, NoneAssumption DEF FileOK
    <3>2. CASE f # g BY <3>2, <1>2, <2>1, <2>6, <2>8, NoneAssumption DEF IInv, TypeOK, FileOK
    <3> QED BY <3>1, <3>2
  <2>18. ASSUME NEW u \in Tasks PROVE HeldOnce(u)'
    <3>1. CASE u = c
      <4>1. u \notin Deferred' BY <3>1, <1>2, <2>1, <2>8 DEF Deferred
      <4>2. \A b \in Apps : atask'[b] # u BY <3>1, <1>2, <2>3
      <4>3. \A w \in Workers : wtask'[w] # u BY <3>1, <2>3, <2>4
      <4>4. \A r, s \in Queues : u \in completed'[r] /\ u \in completed'[s] => r = s
        BY <3>1, <2>7
      <4>5. u \in poolTasks' => \A r \in Queues : u \notin completed'[r] BY <3>1, <2>7
      <4> QED BY <4>1, <4>2, <4>3, <4>4, <4>5 DEF HeldOnce, ByApp, ByWorker, ByQueue
    <3>2. CASE u # c
      <4>1. u # t /\ u \in Deferred' => u \in Deferred
        BY <3>2, <1>2, <2>1, <2>6, <2>8 DEF IInv, TaskOK, Deferred
      <4>2. t \notin Deferred' BY <1>1, <2>1, <2>6 DEF Deferred
      <4> QED BY <3>2, <4>1, <4>2, <1>2, <2>4, <2>6 DEF IInv, HeldOnce, ByApp, ByWorker, ByQueue
    <3> QED BY <3>1, <3>2
  <2> QED BY <2>11, <2>12, <2>13, <2>14, <2>15, <2>16, <2>17, <2>18 DEF IInv
<1> QED BY <1>6, <1>7 DEF OutcomeUnlink

LEMMA QuitCancelStep ==
    ASSUME IInv, NEW a \in Apps, QuitCancel(a)
    PROVE  IInv'
<1>1. PICK t \in poolTasks : /\ poolTasks' = poolTasks \ {t}
                             /\ result' = [result EXCEPT ![t] = "CANCELED"]
                             /\ CompleteTask(t, tqueue[t], apc)
  BY DEF QuitCancel, Unlist
<1>2. /\ t \in Tasks /\ taskState[t] = "allocated" /\ t \in linked[tfile[t]] /\ result[t] = "NONE"
      /\ tfile[t] \in Files /\ tqueue[t] \in Queues /\ HeldOnce(t)
  BY DEF IInv, TypeOK, PoolOK, TaskOK
<1>3. /\ t \notin Deferred
      /\ \A q \in Queues : t \notin completed[q]
      /\ \A w \in Workers : wtask[w] # t
      /\ \A b \in Apps : atask[b] # t
  BY <1>2, PoolHoldsAlone
<1>4. UNCHANGED <<fileState, ioOpen, linked, closing, ioLock, pos, queueState, inflight, taskState,
                  tfile, tqueue, kind, poolInit, stop, running, idle, worker, wtask, atask, aqueue,
                  destroying>>
  BY DEF QuitCancel, fileVars, ioVars, workerVars
<1>5. /\ completed' = [completed EXCEPT ![tqueue[t]] = @ \cup {t}]
      /\ OnlyWoken(apc)
  BY <1>1, <1>2, SignalEffect DEF CompleteTask, IInv, TypeOK
<1>6. /\ result' \in [Tasks -> Results]
      /\ result'[t] = "CANCELED" /\ \A u \in Tasks : u # t => result'[u] = result[u]
  BY <1>1, <1>2 DEF IInv, TypeOK, Results
<1>7. /\ completed' \in [Queues -> SUBSET Tasks]
      /\ \A r \in Queues : t \in completed'[r] <=> r = tqueue[t]
      /\ \A u \in Tasks : u # t => \A r \in Queues : u \in completed'[r] <=> u \in completed[r]
  BY <1>2, <1>3, <1>5 DEF IInv, TypeOK
<1>8. TypeOK' BY <1>1, <1>4, <1>5, <1>6, <1>7 DEF IInv, TypeOK, OnlyWoken
<1>9. \A b \in Apps : \/ apc'[b] = apc[b]
                      \/ apc[b] = "waiting" /\ apc'[b] = "woken"
                      \/ apc[b] = "quitwait" /\ apc'[b] = "quitwoken"
  BY <1>5 DEF OnlyWoken
<1>10. \A u \in Tasks : TaskOK(u)' BY <1>2, <1>4, <1>6 DEF IInv, TaskOK
<1>11. \A b \in Apps : AppOK(b)' BY <1>3, <1>4, <1>6, <1>9 DEF IInv, AppOK, Holding
<1>12. \A w \in Workers : WorkerOK(w)' BY <1>3, <1>4, <1>6 DEF IInv, WorkerOK, Working
<1>13. \A u \in Tasks : PoolOK(u)' BY <1>1, <1>4, <1>6 DEF IInv, PoolOK
<1>14. \A r \in Queues, u \in Tasks : CompletedOK(r, u)'
  BY <1>2, <1>4, <1>6, <1>7 DEF IInv, CompletedOK
<1>15. \A f \in Files : FileOK(f)'
  BY <1>2, <1>4, <1>6, NoneAssumption DEF IInv, TypeOK, FileOK
<1>16. ASSUME NEW u \in Tasks PROVE HeldOnce(u)'
  <2>1. u \in Deferred' => u \in Deferred BY <1>4, <1>6 DEF Deferred
  <2>2. CASE u = t
    BY <2>1, <2>2, <1>1, <1>3, <1>4, <1>7 DEF HeldOnce, ByApp, ByWorker, ByQueue
  <2>3. CASE u # t
    BY <2>1, <2>3, <1>1, <1>4, <1>7 DEF IInv, HeldOnce, ByApp, ByWorker, ByQueue
  <2> QED BY <2>2, <2>3
<1> QED BY <1>8, <1>10, <1>11, <1>12, <1>13, <1>14, <1>15, <1>16 DEF IInv

\* A worker that is told to stop, or leaves, only wakes others.
LEMMA ExitEffect ==
    ASSUME IInv, NEW w \in Workers, worker[w] \notin Working, NEW n \in Int, WorkerExit(w, n), OnlyPool
    PROVE  IInv'
<1>1. [worker EXCEPT ![w] = "absent"] \in [Workers -> WorkerStates]
  BY DEF IInv, TypeOK, WorkerStates
<1>2. /\ worker' \in [Workers -> WorkerStates]
      /\ \A v \in Workers : \/ worker'[v] = worker[v]
                            \/ worker[v] \notin Working /\ worker'[v] \notin Working
  <2>1. /\ worker' \in [Workers -> WorkerStates]
        /\ \A v \in Workers : \/ worker'[v] = [worker EXCEPT ![w] = "absent"][v]
                              \/ /\ [worker EXCEPT ![w] = "absent"][v] = "waiting"
                                 /\ worker'[v] = "woken"
    <3>1. CASE stop
      <4>1. worker' = WokenWorkers([worker EXCEPT ![w] = "absent"]) BY <3>1 DEF WorkerExit
      <4> QED BY <4>1, <1>1, WorkersEffect
    <3>2. CASE ~stop BY <3>2, <1>1 DEF WorkerExit
    <3> QED BY <3>1, <3>2
  <2>2. ASSUME NEW v \in Workers
        PROVE  \/ worker'[v] = worker[v]
               \/ worker[v] \notin Working /\ worker'[v] \notin Working
    <3>1. CASE v = w BY <3>1, <2>1 DEF IInv, TypeOK, Working
    <3>2. CASE v # w BY <3>2, <2>1 DEF IInv, TypeOK, Working
    <3> QED BY <3>1, <3>2
  <2> QED BY <2>1, <2>2
<1>3. OnlyWoken(apc)
  <2>1. CASE stop BY <2>1, QuitterEffect DEF IInv, TypeOK, WorkerExit
  <2>2. CASE ~stop BY <2>2 DEF IInv, TypeOK, WorkerExit, OnlyWoken
  <2> QED BY <2>1, <2>2 DEF IInv, TypeOK
<1>4. TypeOK'
  <2>1. running' \in Int /\ idle' \in Int BY DEF IInv, TypeOK, WorkerExit
  <2> QED
    BY <2>1, <1>2, <1>3
    DEF IInv, TypeOK, WorkerExit, OnlyPool, OnlyWoken, fileVars, ioVars, queueVars, taskVars
<1> QED
  BY <1>2, <1>3, <1>4, QuietStep DEF IInv, AppOK, Holding, OnlyWoken, WorkerExit, OnlyPool, queueVars

\* One turn of the worker's loop: it exits, goes to sleep, or picks up a task, which
\* passes from the pool to it.
LEMMA TurnStep ==
    ASSUME IInv, NEW w \in Workers, worker[w] \notin Working, NEW n \in Int, WorkerTurn(w, n), OnlyPool
    PROVE  IInv'
<1>1. CASE WorkerExit(w, n) BY <1>1, ExitEffect
<1>2. CASE /\ worker' = [worker EXCEPT ![w] = "waiting"]
           /\ idle' = n + 1
           /\ UNCHANGED <<running, poolTasks, wtask, apc>>
  <2>1. TypeOK'
    BY <1>2 DEF IInv, TypeOK, WorkerStates, OnlyPool, fileVars, ioVars, queueVars, taskVars
  <2> QED BY <2>1, <1>2, QuietStep DEF IInv, TypeOK, OnlyPool, Working, queueVars
<1>3. ASSUME NEW t \in poolTasks,
             poolTasks' = poolTasks \ {t},
             wtask' = [wtask EXCEPT ![w] = t],
             worker' = [worker EXCEPT ![w] = "picked"],
             idle' = n,
             UNCHANGED <<running, apc>>
      PROVE  IInv'
  <2>1. /\ t \in Tasks /\ taskState[t] = "allocated" /\ t \in linked[tfile[t]] /\ result[t] = "NONE"
        /\ HeldOnce(t)
    BY DEF IInv, TypeOK, PoolOK
  <2>2. /\ t \notin Deferred
        /\ \A q \in Queues : t \notin completed[q]
        /\ \A v \in Workers : wtask[v] # t
        /\ \A b \in Apps : atask[b] # t
    BY <2>1, PoolHoldsAlone
  <2>3. UNCHANGED <<fileState, ioOpen, linked, closing, ioLock, pos, queueState, inflight, completed,
                    taskState, tfile, tqueue, kind, result, poolInit, stop, atask, aqueue, destroying>>
    BY DEF OnlyPool, fileVars, ioVars, queueVars, taskVars
  <2>4. TypeOK' BY <1>3, <2>1, <2>3 DEF IInv, TypeOK, WorkerStates
  <2>5. \A u \in Tasks : TaskOK(u)' BY <2>3 DEF IInv, TaskOK
  <2>6. \A b \in Apps : AppOK(b)' BY <1>3, <2>3 DEF IInv, AppOK
  <2>7. ASSUME NEW v \in Workers PROVE WorkerOK(v)'
    <3>1. CASE v = w BY <3>1, <1>3, <2>1, <2>3 DEF IInv, TypeOK, WorkerOK, Working
    <3>2. CASE v # w BY <3>2, <1>3, <2>3 DEF IInv, TypeOK, WorkerOK, Working
    <3> QED BY <3>1, <3>2
  <2>8. \A u \in Tasks : PoolOK(u)' BY <1>3, <2>3 DEF IInv, PoolOK
  <2>9. \A r \in Queues, u \in Tasks : CompletedOK(r, u)' BY <2>3 DEF IInv, CompletedOK
  <2>10. \A f \in Files : FileOK(f)' BY <2>3 DEF IInv, FileOK
  <2>11. ASSUME NEW u \in Tasks PROVE HeldOnce(u)'
    <3>1. Deferred' = Deferred BY <2>3 DEF Deferred
    <3>2. CASE u = t
      BY <3>1, <3>2, <1>3, <2>2, <2>3 DEF IInv, TypeOK, HeldOnce, ByApp, ByWorker, ByQueue
    <3>3. CASE u # t
      BY <3>1, <3>3, <1>3, <2>3 DEF IInv, TypeOK, HeldOnce, ByApp, ByWorker, ByQueue
    <3> QED BY <3>2, <3>3
  <2> QED BY <2>4, <2>5, <2>6, <2>7, <2>8, <2>9, <2>10, <2>11 DEF IInv
<1> QED BY <1>1, <1>2, <1>3 DEF WorkerTurn, Unlist

LEMMA WorkerLoopStep ==
    ASSUME IInv, NEW w \in Workers, WorkerLoop(w)
    PROVE  IInv'
<1>1. idle \in Int BY DEF IInv, TypeOK
<1> QED BY <1>1, TurnStep DEF WorkerLoop, Working

LEMMA WorkerWakeStep ==
    ASSUME IInv, NEW w \in Workers, WorkerWake(w)
    PROVE  IInv'
<1>1. idle - 1 \in Int BY DEF IInv, TypeOK
<1> QED BY <1>1, TurnStep DEF WorkerWake, Working

LEMMA WorkerShrinkStep ==
    ASSUME IInv, NEW w \in Workers, WorkerShrink(w)
    PROVE  IInv'
<1>1. idle - 1 \in Int BY DEF IInv, TypeOK
<1> QED BY <1>1, TurnStep, ExitEffect DEF WorkerShrink, Working

LEMMA WorkerSeekStep ==
    ASSUME IInv, NEW w \in Workers, WorkerSeek(w)
    PROVE  IInv'
<1>1. wtask[w] \in Tasks /\ tfile[wtask[w]] \in Files
  BY DEF IInv, WorkerOK, TaskOK, WorkerSeek, Working
<1> DEFINE g == tfile[wtask[w]]
<1>2. /\ worker[w] = "picked" /\ ioLock[g] = NoWorker
      /\ ioLock' = [ioLock EXCEPT ![g] = w] /\ pos' = [pos EXCEPT ![g] = wtask[w]]
      /\ worker' = [worker EXCEPT ![w] = "io"]
      /\ UNCHANGED <<fileState, ioOpen, linked, closing, queueState, inflight, completed, taskState,
                     tfile, tqueue, kind, result, poolInit, stop, poolTasks, running, idle, wtask,
                     apc, atask, aqueue, destroying>>
  BY DEF WorkerSeek, IOLockFree, fileVars, queueVars, taskVars, poolVars, appVars
<1>3. TypeOK' BY <1>1, <1>2 DEF IInv, TypeOK, WorkerStates
<1>4. \A u \in Tasks : TaskOK(u)' BY <1>2 DEF IInv, TaskOK
<1>5. \A b \in Apps : AppOK(b)' BY <1>2 DEF IInv, AppOK
<1>6. ASSUME NEW v \in Workers PROVE WorkerOK(v)'
  <2>1. CASE v = w BY <2>1, <1>1, <1>2 DEF IInv, TypeOK, WorkerOK, Working
  <2>2. CASE v # w
    <3>1. worker'[v] = worker[v] BY <2>2, <1>2 DEF IInv, TypeOK
    <3>2. worker[v] = "io" => tfile[wtask[v]] # g
      BY <1>2, NoneAssumption DEF IInv, WorkerOK
    <3>3. worker[v] = "io" => /\ ioLock'[tfile[wtask[v]]] = v
                              /\ pos'[tfile[wtask[v]]] = wtask[v]
      <4> SUFFICES ASSUME worker[v] = "io"
                   PROVE  ioLock'[tfile[wtask[v]]] = v /\ pos'[tfile[wtask[v]]] = wtask[v]
        OBVIOUS
      <4>1. wtask[v] \in Tasks /\ tfile[wtask[v]] \in Files
        BY DEF IInv, WorkerOK, TaskOK, Working
      <4> QED BY <4>1, <3>2, <1>2 DEF IInv, TypeOK, WorkerOK
    <3> QED BY <3>1, <3>3, <1>2 DEF IInv, WorkerOK, Working
  <2> QED BY <2>1, <2>2
<1>7. \A u \in Tasks : PoolOK(u)' BY <1>2 DEF IInv, PoolOK
<1>8. \A r \in Queues, u \in Tasks : CompletedOK(r, u)' BY <1>2 DEF IInv, CompletedOK
<1>9. \A f \in Files : FileOK(f)' BY <1>2 DEF IInv, FileOK
<1>10. \A u \in Tasks : HeldOnce(u)'
  BY <1>2 DEF IInv, HeldOnce, ByApp, ByWorker, ByQueue, Deferred
<1> QED BY <1>3, <1>4, <1>5, <1>6, <1>7, <1>8, <1>9, <1>10 DEF IInv

LEMMA WorkerIOStep ==
    ASSUME IInv, NEW w \in Workers, WorkerIO(w)
    PROVE  IInv'
<1>1. /\ wtask[w] \in Tasks /\ tfile[wtask[w]] \in Files /\ result[wtask[w]] = "NONE"
      /\ taskState[wtask[w]] = "allocated" /\ wtask[w] \in linked[tfile[wtask[w]]]
      /\ ioLock[tfile[wtask[w]]] = w /\ HeldOnce(wtask[w])
      /\ kind[wtask[w]] = "CLOSE" <=> closing[tfile[wtask[w]]] = wtask[w]
  BY DEF IInv, WorkerOK, TaskOK, WorkerIO, Working
<1> SUFFICES ASSUME NEW t \in Tasks, t = wtask[w], NEW g \in Files, g = tfile[t]
             PROVE  IInv'
  BY <1>1
<1>2. PICK x \in {"COMPLETE", "FAILURE"} : result' = [result EXCEPT ![t] = x]
  BY DEF WorkerIO, Outcomes
<1>3. /\ worker[w] = "io"
      /\ ioOpen' = [ioOpen EXCEPT ![g] = @ /\ kind[t] # "CLOSE"]
      /\ ioLock' = [ioLock EXCEPT ![g] = NoWorker]
      /\ worker' = [worker EXCEPT ![w] = "done"]
      /\ UNCHANGED <<fileState, linked, closing, pos, queueState, inflight, completed, taskState,
                     tfile, tqueue, kind, poolInit, stop, poolTasks, running, idle, wtask,
                     apc, atask, aqueue, destroying>>
  BY DEF WorkerIO, queueVars, poolVars, appVars
<1>4. /\ t \notin poolTasks /\ t \notin Deferred
      /\ \A q \in Queues : t \notin completed[q]
      /\ \A v \in Workers : wtask[v] = t => v = w
      /\ \A b \in Apps : atask[b] # t
  BY <1>1, WorkerHoldsAlone
<1>5. /\ result' \in [Tasks -> Results] /\ result'[t] # "NONE"
      /\ \A u \in Tasks : u # t => result'[u] = result[u]
  BY <1>2 DEF IInv, TypeOK, Results
<1>6. /\ ioOpen' \in [Files -> BOOLEAN]
      /\ ioOpen'[g] <=> ioOpen[g] /\ kind[t] # "CLOSE"
      /\ \A f \in Files : f # g => ioOpen'[f] = ioOpen[f]
  <2>1. ioOpen[g] \in BOOLEAN BY DEF IInv, TypeOK
  <2>2. (ioOpen[g] /\ kind[t] # "CLOSE") \in BOOLEAN OBVIOUS
  <2>3. ioOpen \in [Files -> BOOLEAN] BY DEF IInv, TypeOK
  <2> QED BY <2>1, <2>2, <2>3, <1>3
<1>7. /\ worker' \in [Workers -> WorkerStates] /\ worker'[w] = "done"
      /\ \A v \in Workers : v # w => worker'[v] = worker[v]
      /\ ioLock' \in [Files -> Workers \cup {NoWorker}]
      /\ \A f \in Files : f # g => ioLock'[f] = ioLock[f]
  BY <1>3 DEF IInv, TypeOK, WorkerStates
<1>8. TypeOK' BY <1>3, <1>5, <1>6, <1>7 DEF IInv, TypeOK
<1>9. \A u \in Tasks : TaskOK(u)' BY <1>1, <1>3, <1>5 DEF IInv, TaskOK
<1>10. \A b \in Apps : AppOK(b)' BY <1>3, <1>4, <1>5 DEF IInv, AppOK, Holding
<1>11. ASSUME NEW v \in Workers PROVE WorkerOK(v)'
  <2>1. CASE v = w BY <2>1, <1>1, <1>3, <1>5, <1>7 DEF WorkerOK, Working
  <2>2. CASE v # w
    <3>1. worker[v] \in Working => wtask[v] \in Tasks /\ wtask[v] # t /\ tfile[wtask[v]] \in Files
      BY <2>2, <1>4 DEF IInv, WorkerOK, TaskOK
    <3>2. worker[v] = "io" => tfile[wtask[v]] # g
      BY <2>2, <1>1 DEF IInv, WorkerOK
    <3> QED BY <2>2, <3>1, <3>2, <1>3, <1>5, <1>7 DEF IInv, WorkerOK, Working
  <2> QED BY <2>1, <2>2
<1>12. \A u \in Tasks : PoolOK(u)' BY <1>3, <1>4, <1>5 DEF IInv, PoolOK
<1>13. \A r \in Queues, u \in Tasks : CompletedOK(r, u)' BY <1>3, <1>4, <1>5 DEF IInv, CompletedOK
<1>14. ASSUME NEW f \in Files PROVE FileOK(f)'
  <2>1. CASE f = g
    BY <2>1, <1>1, <1>3, <1>5, <1>6, NoneAssumption DEF IInv, TypeOK, FileOK
  <2>2. CASE f # g
    <3>1. closing[f] # NoTask => closing[f] # t /\ closing[f] \in Tasks
      BY <2>2 DEF IInv, TypeOK, FileOK
    <3> QED BY <2>2, <3>1, <1>3, <1>5, <1>6 DEF IInv, FileOK
  <2> QED BY <2>1, <2>2
<1>15. ASSUME NEW u \in Tasks PROVE HeldOnce(u)'
  <2>1. u \in Deferred' => u \in Deferred BY <1>3, <1>5 DEF Deferred
  <2> QED BY <2>1, <1>3 DEF IInv, HeldOnce, ByApp, ByWorker, ByQueue
<1> QED BY <1>8, <1>9, <1>10, <1>11, <1>12, <1>13, <1>14, <1>15 DEF IInv

LEMMA WorkerCompleteStep ==
    ASSUME IInv, NEW w \in Workers, WorkerComplete(w)
    PROVE  IInv'
<1>1. /\ wtask[w] \in Tasks /\ tfile[wtask[w]] \in Files /\ result[wtask[w]] # "NONE"
      /\ taskState[wtask[w]] = "allocated" /\ wtask[w] \in linked[tfile[wtask[w]]]
      /\ tqueue[wtask[w]] \in Queues /\ HeldOnce(wtask[w])
  BY DEF IInv, WorkerOK, TaskOK, WorkerComplete, Working
<1> SUFFICES ASSUME NEW t \in Tasks, t = wtask[w], NEW q \in Queues, q = tqueue[t]
             PROVE  IInv'
  BY <1>1
<1>2. /\ CompleteTask(t, q, apc) /\ worker[w] = "done"
      /\ worker' = [worker EXCEPT ![w] = "start"] /\ wtask' = [wtask EXCEPT ![w] = NoTask]
      /\ UNCHANGED <<fileState, ioOpen, linked, closing, ioLock, pos, queueState, inflight, taskState,
                     tfile, tqueue, kind, result, poolInit, stop, poolTasks, running, idle, atask,
                     aqueue, destroying>>
  BY DEF WorkerComplete, fileVars, ioVars, taskVars, poolVars
<1>3. /\ t \notin poolTasks /\ t \notin Deferred
      /\ \A r \in Queues : t \notin completed[r]
      /\ \A v \in Workers : wtask[v] = t => v = w
      /\ \A b \in Apps : atask[b] # t
  BY <1>1, WorkerHoldsAlone
<1>4. completed' = [completed EXCEPT ![q] = @ \cup {t}] /\ OnlyWoken(apc)
  BY <1>2, SignalEffect DEF CompleteTask, IInv, TypeOK
<1>5. /\ completed' \in [Queues -> SUBSET Tasks]
      /\ \A r \in Queues : t \in completed'[r] <=> r = q
      /\ \A u \in Tasks : u # t => \A r \in Queues : u \in completed'[r] <=> u \in completed[r]
  BY <1>3, <1>4 DEF IInv, TypeOK
<1>6. \A b \in Apps : \/ apc'[b] = apc[b]
                      \/ apc[b] = "waiting" /\ apc'[b] = "woken"
                      \/ apc[b] = "quitwait" /\ apc'[b] = "quitwoken"
  BY <1>4 DEF OnlyWoken
<1>7. /\ worker' \in [Workers -> WorkerStates] /\ worker'[w] = "start" /\ wtask'[w] = NoTask
      /\ wtask' \in [Workers -> Tasks \cup {NoTask}]
      /\ \A v \in Workers : v # w => worker'[v] = worker[v] /\ wtask'[v] = wtask[v]
  BY <1>2 DEF IInv, TypeOK, WorkerStates
<1>8. TypeOK' BY <1>2, <1>4, <1>5, <1>7 DEF IInv, TypeOK, OnlyWoken
<1>9. \A u \in Tasks : TaskOK(u)' BY <1>2 DEF IInv, TaskOK
<1>10. \A b \in Apps : AppOK(b)' BY <1>2, <1>6 DEF IInv, AppOK, Holding
<1>11. ASSUME NEW v \in Workers PROVE WorkerOK(v)'
  <2>1. CASE v = w BY <2>1, <1>7 DEF WorkerOK, Working
  <2>2. CASE v # w BY <2>2, <1>2, <1>7 DEF IInv, WorkerOK, Working
  <2> QED BY <2>1, <2>2
<1>12. \A u \in Tasks : PoolOK(u)' BY <1>2 DEF IInv, PoolOK
<1>13. \A r \in Queues, u \in Tasks : CompletedOK(r, u)'
  BY <1>1, <1>2, <1>5 DEF IInv, CompletedOK
<1>14. \A f \in Files : FileOK(f)' BY <1>2 DEF IInv, FileOK
<1>15. ASSUME NEW u \in Tasks PROVE HeldOnce(u)'
  <2>1. Deferred' = Deferred BY <1>2 DEF Deferred
  <2>2. CASE u = t
    BY <2>1, <2>2, <1>2, <1>3, <1>5, <1>7, NoneAssumption DEF HeldOnce, ByApp, ByWorker, ByQueue
  <2>3. CASE u # t
    BY <2>1, <2>3, <1>2, <1>5, <1>7, NoneAssumption DEF IInv, HeldOnce, ByApp, ByWorker, ByQueue
  <2> QED BY <2>2, <2>3
<1> QED BY <1>8, <1>9, <1>10, <1>11, <1>12, <1>13, <1>14, <1>15 DEF IInv

-----------------------------------------------------------------------------
(* The invariant holds of every reachable state, and what it implies.      *)

LEMMA StutterStep ==
    ASSUME IInv, UNCHANGED vars
    PROVE  IInv'
<1> USE DEF vars, fileVars, ioVars, queueVars, taskVars, poolVars, workerVars, appVars
<1>1. TypeOK' BY DEF IInv, TypeOK
<1> QED BY <1>1, QuietStep DEF IInv

LEMMA NextStep ==
    ASSUME IInv, [Next]_vars
    PROVE  IInv'
<1>1. ASSUME NEW a \in Apps, AppStep(a) PROVE IInv'
  BY <1>1, OpenFileStep, CreateQueueStep, GetResultStep, WaitResultStep, DestroyQueueStep,
     RequestStep, CloseNowStep, CloseLaterStep, WaitTimeoutStep, QuitStep
  DEF AppStep
<1>2. ASSUME NEW a \in Apps, AppContinue(a) PROVE IInv'
  BY <1>2, RequestQueueStep, WaitEndStep, OutcomeUnlinkStep, OutcomeFreeStep, OutcomeFinishStep,
     DestroyConsumeStep, DestroyFreeStep, QuitCancelStep, QuitStopStep, QuitWakeStep
  DEF AppContinue
<1>3. ASSUME NEW q \in Queues, SignalQueue(q) PROVE IInv'
  BY <1>3, SignalQueueStep
<1>4. ASSUME NEW w \in Workers, WorkerTimeout(w) PROVE IInv'
  BY <1>4, WorkerTimeoutStep
<1>5. ASSUME NEW w \in Workers, WorkerContinue(w) PROVE IInv'
  BY <1>5, WorkerLoopStep, WorkerWakeStep, WorkerShrinkStep, WorkerSeekStep, WorkerIOStep,
     WorkerCompleteStep
  DEF WorkerContinue
<1>6. CASE UNCHANGED vars BY <1>6, StutterStep
<1> QED BY <1>1, <1>2, <1>3, <1>4, <1>5, <1>6 DEF Next

\* The inductive invariant is an invariant of the specification.
THEOREM Invariance == Spec => []IInv
<1>1. IInv /\ [Next]_vars => IInv' BY NextStep
<1> QED BY InitStep, <1>1, PTL DEF Spec

\* Every variable keeps its type: the code never stores into a field what its readers
\* do not expect.
THEOREM TypeCorrect == Spec => []TypeOK
<1>1. IInv => TypeOK BY DEF IInv
<1> QED BY Invariance, <1>1, PTL

\* A task is in the hands of at most one thread, list or file at any time, although it
\* is moved between them under four different locks: no task is completed, consumed or
\* freed twice.
THEOREM TasksHeldOnce == Spec => []TaskHeldOnce
<1>1. IInv => TaskHeldOnce BY DEF IInv, TaskHeldOnce
<1> QED BY Invariance, <1>1, PTL

\* When the close task of a file is handed to the thread pool no other task of that
\* file is linked, whichever threads consume results at the time.
THEOREM CloseComesLast == Spec => []CloseLast
<1>1. IInv => CloseLast BY NoneAssumption DEF IInv, TypeOK, CloseLast, FileOK
<1> QED BY Invariance, <1>1, PTL

\* A worker reads or writes only an open stream of a file that is not freed, at the
\* offset its own task has sought.
THEOREM IOSound == Spec => []IOIsSound
<1>1. ASSUME IInv, NEW w \in Workers, worker[w] = "io"
      PROVE  /\ ioOpen[tfile[wtask[w]]] /\ fileState[tfile[wtask[w]]] = "open"
             /\ pos[tfile[wtask[w]]] = wtask[w]
  <2>1. /\ wtask[w] \in Tasks /\ wtask[w] \in linked[tfile[wtask[w]]] /\ result[wtask[w]] = "NONE"
        /\ tfile[wtask[w]] \in Files /\ pos[tfile[wtask[w]]] = wtask[w]
    BY <1>1 DEF IInv, WorkerOK, TaskOK, Working
  <2>2. FileOK(tfile[wtask[w]]) BY <1>1, <2>1 DEF IInv
  <2>3. fileState[tfile[wtask[w]]] \in {"none", "open", "freed"} BY <1>1, <2>1 DEF IInv, TypeOK
  <2> QED BY <2>1, <2>2, <2>3 DEF FileOK
<1>2. IInv => IOIsSound BY <1>1 DEF IOIsSound
<1> QED BY Invariance, <1>2, PTL

-----------------------------------------------------------------------------
(* Action properties.                                                      *)

\* Queueing a task decides the outcome of that task only, and only by canceling it.
LEMMA QueueDecides ==
    ASSUME NEW t, NEW q, NEW pcs, QueueTask(t, q, pcs), TypeOK, NEW u \in Tasks
    PROVE  u # t => result'[u] = result[u]
  BY DEF QueueTask, TypeOK

\* The outcome of a task, once decided by the worker that performed it or by the
\* shutdown that canceled it, is never decided again.
THEOREM DecidedOnce == Spec => OutcomeDecidedOnce
<1> DEFINE Kept == \A t \in Tasks : result[t] # "NONE" => result'[t] = result[t]
<1>1. ASSUME IInv, NEW a \in Apps, AppStep(a) PROVE Kept
  <2>1. ASSUME NEW f \in Files, NEW q \in Queues, NEW t \in Tasks, CloseNow(a, f, q, t) PROVE Kept
    <3>1. QueueTask(t, q, apc) /\ taskState[t] = "unused" BY <2>1 DEF CloseNow, NewTask
    <3>2. result[t] = "NONE" BY <1>1, <3>1 DEF IInv, TaskOK
    <3> QED BY <1>1, <3>1, <3>2, QueueDecides DEF IInv
  <2>2. CASE UNCHANGED result BY <2>2
  <2> QED
    BY <1>1, <2>1, <2>2
    DEF AppStep, OpenFile, CreateQueue, GetResult, WaitResult, DestroyQueue, Request, CloseLater,
        WaitTimeout, Quit, taskVars
<1>2. ASSUME IInv, NEW a \in Apps, AppContinue(a) PROVE Kept
  <2>1. CASE RequestQueue(a)
    <3>1. QueueTask(atask[a], aqueue[a], [apc EXCEPT ![a] = "idle"]) /\ result[atask[a]] = "NONE"
      BY <1>2, <2>1 DEF RequestQueue, IInv, AppOK
    <3> QED BY <1>2, <3>1, QueueDecides DEF IInv
  <2>2. CASE OutcomeUnlink(a)
    <3>1. CASE UNCHANGED result BY <3>1
    <3>2. CASE CloseIsDue(atask[a]) /\ ~UNCHANGED result
      <4> DEFINE g == tfile[atask[a]]
                 c == closing[g]
      <4>1. QueueTask(c, tqueue[c], [apc EXCEPT ![a] = AfterUnlink(atask[a])])
        BY <2>2, <3>2 DEF OutcomeUnlink
      <4>2. /\ atask[a] \in linked[g] /\ g \in Files
            /\ c # NoTask /\ c # atask[a]
        BY <1>2, <2>2, <3>2 DEF OutcomeUnlink, IInv, AppOK, TaskOK, Holding, CloseIsDue
      <4>3. result[c] = "NONE" BY <1>2, <4>2 DEF IInv, FileOK
      <4> QED BY <1>2, <4>1, <4>3, QueueDecides DEF IInv
    <3> QED BY <2>2, <3>1, <3>2 DEF OutcomeUnlink
  <2>3. CASE QuitCancel(a)
    <3>1. PICK t \in poolTasks : result' = [result EXCEPT ![t] = "CANCELED"]
      BY <2>3 DEF QuitCancel
    <3> QED BY <1>2, <3>1 DEF IInv, TypeOK, PoolOK
  <2>4. CASE UNCHANGED result BY <2>4
  <2> QED
    BY <1>2, <2>1, <2>2, <2>3, <2>4
    DEF AppContinue, WaitEnd, OutcomeFree, OutcomeFinish, DestroyConsume, DestroyFree, QuitStop,
        QuitWake, taskVars
<1>3. ASSUME NEW q \in Queues, SignalQueue(q) PROVE Kept BY <1>3 DEF SignalQueue, taskVars
<1>4. ASSUME NEW w \in Workers, WorkerTimeout(w) PROVE Kept BY <1>4 DEF WorkerTimeout, taskVars
<1>5. ASSUME IInv, NEW w \in Workers, WorkerContinue(w) PROVE Kept
  <2>1. CASE WorkerIO(w)
    <3>1. \E x \in {"COMPLETE", "FAILURE"} : result' = [result EXCEPT ![wtask[w]] = x]
      BY <2>1 DEF WorkerIO, Outcomes
    <3>2. wtask[w] \in Tasks /\ result[wtask[w]] = "NONE"
      BY <1>5, <2>1 DEF IInv, WorkerOK, WorkerIO, Working
    <3> QED BY <1>5, <3>1, <3>2 DEF IInv, TypeOK
  <2>2. CASE UNCHANGED result BY <2>2
  <2> QED
    BY <1>5, <2>1, <2>2
    DEF WorkerContinue, WorkerLoop, WorkerWake, WorkerShrink, WorkerSeek, WorkerComplete, OnlyPool,
        taskVars
<1>6. IInv /\ [Next]_vars => [Kept]_vars
  BY <1>1, <1>2, <1>3, <1>4, <1>5 DEF Next
<1> QED BY <1>6, Invariance, PTL DEF Spec, OutcomeDecidedOnce

-----------------------------------------------------------------------------
(* No lost wake-up of a worker.                                            *)

\* A broadcast leaves no worker asleep.
LEMMA BroadcastWakes ==
    ASSUME NEW ws, NEW w \in Workers
    PROVE  WokenWorkers(ws)[w] # "waiting"
  BY DEF WokenWorkers

LEMMA SpinWakes ==
    ASSUME SpinAndBroadcast, NEW w \in Workers
    PROVE  worker'[w] # "waiting"
  BY BroadcastWakes DEF SpinAndBroadcast

\* Queueing a task wakes every worker, or leaves the pool and the workers as they are.
LEMMA QueueWakes ==
    ASSUME NEW t, NEW q, NEW pcs, QueueTask(t, q, pcs), WorkersAwake
    PROVE  WorkersAwake'
<1>1. CASE UNCHANGED <<poolTasks, worker>> BY <1>1 DEF WorkersAwake
<1>2. CASE SpinAndBroadcast BY <1>2, SpinWakes DEF WorkersAwake
<1> QED BY <1>1, <1>2 DEF QueueTask

\* The first thread of the pool starts awake.
LEMMA PrepareWakes ==
    ASSUME TypeOK, PrepareThreadpool, WorkersAwake
    PROVE  WorkersAwake'
<1>1. CASE UNCHANGED <<poolTasks, worker>> BY <1>1 DEF WorkersAwake
<1>2. ASSUME NEW w \in Workers, worker' = [worker EXCEPT ![w] = "start"], UNCHANGED poolTasks
      PROVE  WorkersAwake'
  BY <1>2 DEF WorkersAwake, TypeOK
<1> QED BY <1>1, <1>2 DEF PrepareThreadpool

\* A worker that leaves takes no task and puts nobody to sleep.
LEMMA ExitWakes ==
    ASSUME TypeOK, WorkersAwake, NEW w \in Workers, NEW n, WorkerExit(w, n)
    PROVE  WorkersAwake'
<1>1. CASE worker' = WokenWorkers([worker EXCEPT ![w] = "absent"])
  BY <1>1, BroadcastWakes DEF WorkersAwake
<1>2. CASE worker' = [worker EXCEPT ![w] = "absent"] /\ UNCHANGED poolTasks
  BY <1>2 DEF WorkersAwake, TypeOK
<1> QED BY <1>1, <1>2 DEF WorkerExit

\* A worker goes to sleep only when the list is empty.
LEMMA TurnWakes ==
    ASSUME TypeOK, WorkersAwake, NEW w \in Workers, NEW n, WorkerTurn(w, n)
    PROVE  WorkersAwake'
<1>1. CASE WorkerExit(w, n) BY <1>1, ExitWakes
<1>2. CASE poolTasks = {} /\ UNCHANGED poolTasks BY <1>2 DEF WorkersAwake
<1>3. CASE /\ worker' = [worker EXCEPT ![w] = "picked"]
           /\ \E t \in poolTasks : poolTasks' = poolTasks \ {t}
  BY <1>3 DEF WorkersAwake, TypeOK
<1> QED BY <1>1, <1>2, <1>3 DEF WorkerTurn, Unlist

\* While the pool's list has a task no worker is asleep: a wake-up that the thirty
\* second time-out of a worker, or its look at the list before it waits, might miss
\* is never missed.
THEOREM WorkersStayAwake == Spec => []WorkersAwake
<1>1. Init => WorkersAwake BY DEF Init, WorkersAwake
<1>2. ASSUME TypeOK, WorkersAwake, [Next]_vars
      PROVE  WorkersAwake'
  <2>1. CASE UNCHANGED <<poolTasks, worker>> BY <1>2, <2>1 DEF WorkersAwake
  <2>2. ASSUME NEW a \in Apps, AppStep(a) PROVE WorkersAwake'
    <3>1. ASSUME NEW f \in Files, NEW q \in Queues, NEW t \in Tasks, CloseNow(a, f, q, t)
          PROVE  WorkersAwake'
      BY <1>2, <3>1, QueueWakes DEF CloseNow
    <3>2. CASE PrepareThreadpool BY <1>2, <3>2, PrepareWakes
    <3> QED
      BY <2>1, <2>2, <3>1, <3>2
      DEF AppStep, OpenFile, CreateQueue, GetResult, WaitResult, DestroyQueue, Request, CloseLater,
          WaitTimeout, Quit, poolVars, workerVars
  <2>3. ASSUME NEW a \in Apps, AppContinue(a) PROVE WorkersAwake'
    <3>1. CASE RequestQueue(a) BY <1>2, <3>1, QueueWakes DEF RequestQueue
    <3>2. CASE OutcomeUnlink(a)
      BY <1>2, <2>1, <3>2, QueueWakes DEF OutcomeUnlink, poolVars, workerVars
    <3>3. CASE QuitCancel(a)
      BY <1>2, <3>3 DEF QuitCancel, Unlist, WorkersAwake, workerVars
    <3>4. CASE QuitStop(a)
      BY <3>4, BroadcastWakes DEF QuitStop, WorkersAwake
    <3> QED
      BY <2>1, <2>3, <3>1, <3>2, <3>3, <3>4
      DEF AppContinue, WaitEnd, OutcomeFree, OutcomeFinish, DestroyConsume, DestroyFree, QuitWake,
          poolVars, workerVars
  <2>4. ASSUME NEW q \in Queues, SignalQueue(q) PROVE WorkersAwake'
    BY <2>1, <2>4 DEF SignalQueue, poolVars, workerVars
  <2>5. ASSUME NEW w \in Workers, WorkerTimeout(w) PROVE WorkersAwake'
    BY <1>2, <2>5 DEF WorkerTimeout, WorkersAwake, TypeOK, poolVars
  <2>6. ASSUME NEW w \in Workers, WorkerContinue(w) PROVE WorkersAwake'
    <3>1. ASSUME NEW n, WorkerTurn(w, n) PROVE WorkersAwake' BY <1>2, <3>1, TurnWakes
    <3>2. ASSUME NEW n, WorkerExit(w, n) PROVE WorkersAwake' BY <1>2, <3>2, ExitWakes
    <3>3. ASSUME NEW s, s # "waiting", worker' = [worker EXCEPT ![w] = s], UNCHANGED poolTasks
          PROVE  WorkersAwake'
      BY <1>2, <3>3 DEF WorkersAwake, TypeOK
    <3>4. CASE WorkerSeek(w) \/ WorkerIO(w) \/ WorkerComplete(w)
      BY <3>3, <3>4 DEF WorkerSeek, WorkerIO, WorkerComplete, poolVars
    <3> QED
      BY <2>6, <3>1, <3>2, <3>4 DEF WorkerContinue, WorkerLoop, WorkerWake, WorkerShrink
  <2>7. CASE UNCHANGED vars BY <2>1, <2>7 DEF vars, poolVars, workerVars
  <2> QED BY <1>2, <2>2, <2>3, <2>4, <2>5, <2>6, <2>7 DEF Next
<1>3. TypeOK /\ WorkersAwake /\ [Next]_vars => WorkersAwake' BY <1>2
<1> QED BY <1>1, <1>3, TypeCorrect, PTL DEF Spec

-----------------------------------------------------------------------------
(* No task is lost.                                                        *)

Held(t) == t \in poolTasks \cup Deferred \/ ByApp(t) \/ ByWorker(t) \/ ByQueue(t)

\* The half of NoTaskLost that IInv does not say.
NoneLost == \A t \in Tasks : taskState[t] = "allocated" => Held(t)

\* What somebody holds is allocated, by what the invariant says of each holder.
LEMMA HeldIsAllocated ==
    ASSUME IInv, NEW t \in Tasks, Held(t)
    PROVE  taskState[t] = "allocated"
<1>1. CASE t \in poolTasks BY <1>1 DEF IInv, PoolOK
<1>2. CASE t \in Deferred BY <1>2 DEF Deferred
<1>3. ASSUME NEW a \in Apps, atask[a] = t PROVE taskState[t] = "allocated"
  BY <1>3, NoneAssumption DEF IInv, AppOK
<1>4. ASSUME NEW w \in Workers, wtask[w] = t PROVE taskState[t] = "allocated"
  BY <1>4, NoneAssumption DEF IInv, WorkerOK
<1>5. ASSUME NEW q \in Queues, t \in completed[q] PROVE taskState[t] = "allocated"
  BY <1>5 DEF IInv, CompletedOK
<1> QED BY <1>1, <1>2, <1>3, <1>4, <1>5 DEF Held, ByApp, ByWorker, ByQueue

\* A task whose fields, and whose place on its file, a step leaves alone stays deferred.
LEMMA DeferredKept ==
    ASSUME NEW u \in Deferred,
           taskState'[u] = taskState[u], tfile'[u] = tfile[u], result'[u] = result[u],
           closing'[tfile[u]] = closing[tfile[u]],
           u \in linked'[tfile[u]] => u \in linked[tfile[u]]
    PROVE  u \in Deferred'
  BY DEF Deferred

\* It stays in the hands of the app, of a worker or of a queue when what they hold
\* otherwise is not taken from them.
LEMMA HeldKept ==
    ASSUME NEW u \in Tasks, Held(u),
           u \in poolTasks => u \in poolTasks',
           u \in Deferred => u \in Deferred',
           \A a \in Apps : atask[a] = u => atask'[a] = u,
           \A w \in Workers : wtask[w] = u => wtask'[w] = u,
           \A q \in Queues : u \in completed[q] => u \in completed'[q]
    PROVE  Held(u)'
  BY DEF Held, ByApp, ByWorker, ByQueue

LEMMA QuietHeld ==
    ASSUME NoneLost, UNCHANGED <<linked, closing, completed, taskVars, poolTasks, wtask, atask>>
    PROVE  NoneLost'
  BY DEF NoneLost, Held, ByApp, ByWorker, ByQueue, Deferred, taskVars

LEMMA RequestHeld ==
    ASSUME IInv, NoneLost, NEW a \in Apps, NEW g \in Files, NEW q \in Queues, NEW t \in Tasks,
           Request(a, g, q, t)
    PROVE  NoneLost'
<1>1. /\ apc[a] = "idle" /\ taskState[t] = "unused"
      /\ taskState' = [taskState EXCEPT ![t] = "allocated"]
      /\ tfile' = [tfile EXCEPT ![t] = g]
      /\ linked' = [linked EXCEPT ![g] = @ \cup {t}]
      /\ atask' = [atask EXCEPT ![a] = t]
      /\ UNCHANGED <<closing, completed, result, poolTasks, wtask>>
  BY DEF Request, NewTask, poolVars, workerVars
<1>2. atask[a] = NoTask BY <1>1 DEF IInv, AppOK, Holding
<1>3. ASSUME NEW u \in Tasks, taskState'[u] = "allocated" PROVE Held(u)'
  <2>1. CASE u = t
    <3>1. atask'[a] = t BY <1>1 DEF IInv, TypeOK
    <3> QED BY <2>1, <3>1 DEF Held, ByApp
  <2>2. CASE u # t
    <3>1. Held(u) BY <2>2, <1>1, <1>3 DEF NoneLost, IInv, TypeOK
    <3>2. u \in Deferred => u \in Deferred'
      BY <2>2, <1>1 DEF IInv, TypeOK, TaskOK, Deferred
    <3>3. \A b \in Apps : atask[b] = u => atask'[b] = u
      BY <1>1, <1>2, NoneAssumption DEF IInv, TypeOK
    <3> QED BY <3>1, <3>2, <3>3, <1>1, HeldKept
  <2> QED BY <2>1, <2>2
<1> QED BY <1>3 DEF NoneLost

LEMMA CloseLaterHeld ==
    ASSUME IInv, NoneLost, NEW a \in Apps, NEW g \in Files, NEW q \in Queues, NEW t \in Tasks,
           CloseLater(a, g, q, t)
    PROVE  NoneLost'
<1>1. /\ taskState[t] = "unused" /\ closing[g] = NoTask
      /\ taskState' = [taskState EXCEPT ![t] = "allocated"]
      /\ tfile' = [tfile EXCEPT ![t] = g]
      /\ closing' = [closing EXCEPT ![g] = t]
      /\ UNCHANGED <<linked, completed, result, poolTasks, wtask, atask>>
  BY DEF CloseLater, Accepts, NewTask, queueVars, poolVars, workerVars, appVars
<1>2. t \notin linked[g] /\ result[t] = "NONE" BY <1>1, UnusedIsFree
<1>3. ASSUME NEW u \in Tasks, taskState'[u] = "allocated" PROVE Held(u)'
  <2>1. CASE u = t
    <3>1. t \in Deferred' BY <1>1, <1>2 DEF IInv, TypeOK, Deferred
    <3> QED BY <2>1, <3>1 DEF Held
  <2>2. CASE u # t
    <3>1. Held(u) BY <2>2, <1>1, <1>3 DEF NoneLost, IInv, TypeOK
    <3>2. u \in Deferred => tfile[u] # g BY <1>1, NoneAssumption DEF Deferred
    <3>3. u \in Deferred => u \in Deferred'
      BY <3>2, <2>2, <1>1 DEF IInv, TypeOK, TaskOK, Deferred
    <3> QED BY <3>1, <3>3, <1>1, HeldKept
  <2> QED BY <2>1, <2>2
<1> QED BY <1>3 DEF NoneLost

\* A task that is handed on is held by the pool or by its queue.
LEMMA HandedOnHeld ==
    ASSUME TypeOK, NEW t \in Tasks, NEW q \in Queues, Listed(t) \/ Canceled(t, q)
    PROVE  /\ Held(t)'
           /\ \A u \in Tasks : u # t => result'[u] = result[u]
           /\ poolTasks \subseteq poolTasks'
           /\ \A r \in Queues : completed[r] \subseteq completed'[r]
<1>1. CASE Listed(t) BY <1>1 DEF Listed, Held
<1>2. CASE Canceled(t, q)
  <2>1. t \in completed'[q] BY <1>2 DEF Canceled, TypeOK
  <2>2. Held(t)' BY <2>1 DEF Held, ByQueue
  <2>3. \A u \in Tasks : u # t => result'[u] = result[u] BY <1>2 DEF Canceled, TypeOK
  <2>4. \A r \in Queues : completed[r] \subseteq completed'[r] BY <1>2 DEF Canceled, TypeOK
  <2>5. poolTasks \subseteq poolTasks' BY <1>2 DEF Canceled
  <2> QED BY <2>2, <2>3, <2>4, <2>5
<1> QED BY <1>1, <1>2

LEMMA RequestQueueHeld ==
    ASSUME IInv, NoneLost, NEW a \in Apps, RequestQueue(a)
    PROVE  NoneLost'
<1>1. atask[a] \in Tasks /\ aqueue[a] \in Queues
  BY DEF RequestQueue, IInv, AppOK, TaskOK, Holding
<1> SUFFICES ASSUME NEW t \in Tasks, t = atask[a], NEW q \in Queues, q = aqueue[a],
                    NEW pcs \in [Apps -> AppStates], pcs = [apc EXCEPT ![a] = "idle"]
             PROVE  NoneLost'
  <2>1. [apc EXCEPT ![a] = "idle"] \in [Apps -> AppStates] BY DEF IInv, TypeOK, AppStates
  <2> QED BY <1>1, <2>1
<1>2. /\ QueueTask(t, q, pcs)
      /\ atask' = [atask EXCEPT ![a] = NoTask]
      /\ UNCHANGED <<linked, closing, taskState, tfile>>
  BY DEF RequestQueue, fileVars
<1>3. UNCHANGED wtask /\ (Listed(t) \/ Canceled(t, q)) BY <1>2, QueueEffect DEF IInv
<1>4. /\ Held(t)'
      /\ \A u \in Tasks : u # t => result'[u] = result[u]
      /\ poolTasks \subseteq poolTasks'
      /\ \A r \in Queues : completed[r] \subseteq completed'[r]
  BY <1>3, HandedOnHeld DEF IInv
<1>5. ASSUME NEW u \in Tasks, u # t, Held(u) PROVE Held(u)'
  <2>1. u \in Deferred => u \in Deferred' BY <1>2, <1>4, <1>5, DeferredKept
  <2>2. \A b \in Apps : atask[b] = u => atask'[b] = u BY <1>2, <1>5 DEF IInv, TypeOK
  <2> QED BY <2>1, <2>2, <1>3, <1>4, <1>5, HeldKept
<1> QED BY <1>2, <1>4, <1>5 DEF NoneLost

LEMMA CloseNowHeld ==
    ASSUME IInv, NoneLost, NEW a \in Apps, NEW g \in Files, NEW q \in Queues, NEW t \in Tasks,
           CloseNow(a, g, q, t)
    PROVE  NoneLost'
<1>1. /\ QueueTask(t, q, apc)
      /\ taskState[t] = "unused" /\ closing[g] = NoTask
      /\ taskState' = [taskState EXCEPT ![t] = "allocated"]
      /\ tfile' = [tfile EXCEPT ![t] = g]
      /\ closing' = [closing EXCEPT ![g] = t]
      /\ linked' = [linked EXCEPT ![g] = {t}]
      /\ UNCHANGED <<atask>>
  BY DEF CloseNow, Accepts, NewTask
<1>2. UNCHANGED wtask /\ (Listed(t) \/ Canceled(t, q))
  BY <1>1, QueueEffect DEF IInv, TypeOK
<1>3. /\ Held(t)'
      /\ \A u \in Tasks : u # t => result'[u] = result[u]
      /\ poolTasks \subseteq poolTasks'
      /\ \A r \in Queues : completed[r] \subseteq completed'[r]
  BY <1>2, HandedOnHeld DEF IInv
<1>4. ASSUME NEW u \in Tasks, u # t, Held(u) PROVE Held(u)'
  <2>1. u \in Deferred => tfile[u] # g BY <1>1, NoneAssumption DEF Deferred
  <2>2. u \in Deferred => u \in Deferred'
    BY <2>1, <1>1, <1>3, <1>4 DEF IInv, TypeOK, TaskOK, Deferred
  <2> QED BY <2>2, <1>1, <1>2, <1>3, <1>4, HeldKept
<1>5. \A u \in Tasks : u # t => taskState'[u] = taskState[u] BY <1>1 DEF IInv, TypeOK
<1> QED BY <1>3, <1>4, <1>5 DEF NoneLost

\* A result passes from its queue to the thread that takes it.
LEMMA PopHeld ==
    ASSUME IInv, NoneLost, NEW a \in Apps, NEW q \in Queues, Pop(a, q),
           apc[a] \notin Holding, UNCHANGED <<fileVars, taskVars, poolVars, workerVars>>
    PROVE  NoneLost'
<1>1. PICK t \in completed[q] : /\ completed' = [completed EXCEPT ![q] = @ \ {t}]
                                /\ atask' = [atask EXCEPT ![a] = t]
  BY DEF Pop
<1>2. atask[a] = NoTask BY DEF IInv, AppOK
<1>3. UNCHANGED <<linked, closing, taskState, tfile, result, poolTasks, wtask>>
  BY DEF fileVars, taskVars, poolVars, workerVars
<1>4. ASSUME NEW u \in Tasks, Held(u) PROVE Held(u)'
  <2>1. CASE u = t
    <3>1. atask'[a] = t BY <1>1 DEF IInv, TypeOK
    <3> QED BY <2>1, <3>1 DEF Held, ByApp
  <2>2. CASE u # t
    <3>1. u \in Deferred => u \in Deferred' BY <1>3, DeferredKept
    <3>2. \A b \in Apps : atask[b] = u => atask'[b] = u
      BY <1>1, <1>2, NoneAssumption DEF IInv, TypeOK
    <3>3. \A r \in Queues : u \in completed[r] => u \in completed'[r]
      BY <2>2, <1>1 DEF IInv, TypeOK
    <3> QED BY <3>1, <3>2, <3>3, <1>3, <1>4, HeldKept
  <2> QED BY <2>1, <2>2
<1> QED BY <1>3, <1>4 DEF NoneLost

\* The consumer keeps its own task; a close that is due is handed on.
LEMMA OutcomeUnlinkHeld ==
    ASSUME IInv, NoneLost, NEW a \in Apps, OutcomeUnlink(a)
    PROVE  NoneLost'
<1>1. /\ atask[a] \in Tasks /\ tfile[atask[a]] \in Files /\ result[atask[a]] # "NONE"
      /\ apc[a] = "outcome"
  BY DEF IInv, AppOK, TaskOK, Holding, OutcomeUnlink
<1> SUFFICES ASSUME NEW t \in Tasks, t = atask[a], NEW g \in Files, g = tfile[t],
                    NEW pcs \in [Apps -> AppStates], pcs = [apc EXCEPT ![a] = AfterUnlink(t)]
             PROVE  NoneLost'
  <2>1. AfterUnlink(atask[a]) \in AppStates BY DEF AfterUnlink, AppStates
  <2>2. [apc EXCEPT ![a] = AfterUnlink(atask[a])] \in [Apps -> AppStates]
    BY <2>1 DEF IInv, TypeOK
  <2> QED BY <1>1, <2>2
<1>2. UNCHANGED <<closing, taskState, tfile, tqueue, atask>> BY DEF OutcomeUnlink
<1>3. CASE /\ linked' = [linked EXCEPT ![g] = @ \ {t}]
           /\ UNCHANGED <<completed, result, poolVars, workerVars>>
  <2>1. UNCHANGED <<completed, result, poolTasks, wtask>> BY <1>3 DEF poolVars, workerVars
  <2>2. ASSUME NEW u \in Tasks, Held(u) PROVE Held(u)'
    <3>1. u \in Deferred => u \in Deferred'
      BY <1>2, <1>3, <2>1 DEF IInv, TypeOK, TaskOK, Deferred
    <3> QED BY <3>1, <2>1, <2>2, <1>2, HeldKept
  <2> QED BY <2>2, <1>2 DEF NoneLost
<1>4. CASE /\ CloseIsDue(t)
           /\ linked' = [linked EXCEPT ![g] = (@ \ {t}) \cup {closing[g]}]
           /\ QueueTask(closing[g], tqueue[closing[g]], pcs)
  <2>1. /\ closing[g] \in Tasks /\ tqueue[closing[g]] \in Queues /\ tfile[closing[g]] = g
    BY <1>4 DEF IInv, TypeOK, FileOK, TaskOK, CloseIsDue
  <2> SUFFICES ASSUME NEW c \in Tasks, c = closing[g], NEW q \in Queues, q = tqueue[c]
               PROVE  NoneLost'
    BY <2>1
  <2>2. UNCHANGED wtask /\ (Listed(c) \/ Canceled(c, q)) BY <1>4, QueueEffect DEF IInv
  <2>3. /\ Held(c)'
        /\ \A u \in Tasks : u # c => result'[u] = result[u]
        /\ poolTasks \subseteq poolTasks'
        /\ \A r \in Queues : completed[r] \subseteq completed'[r]
    BY <2>2, HandedOnHeld DEF IInv
  <2>4. ASSUME NEW u \in Tasks, u # c, Held(u) PROVE Held(u)'
    <3>1. u \in Deferred => tfile[u] # g BY <2>4 DEF Deferred
    <3>2. u \in Deferred => u \in Deferred'
      BY <3>1, <2>3, <2>4, <1>2, <1>4 DEF IInv, TypeOK, TaskOK, Deferred
    <3> QED BY <3>2, <2>2, <2>3, <2>4, <1>2, HeldKept
  <2> QED BY <2>3, <2>4, <1>2 DEF NoneLost
<1> QED BY <1>3, <1>4 DEF OutcomeUnlink

LEMMA OutcomeFinishHeld ==
    ASSUME IInv, NoneLost, NEW a \in Apps, OutcomeFinish(a)
    PROVE  NoneLost'
<1>1. atask[a] \in Tasks BY DEF IInv, AppOK, Holding, OutcomeFinish
<1>2. /\ taskState' = [taskState EXCEPT ![atask[a]] = "freed"]
      /\ atask' = [atask EXCEPT ![a] = NoTask]
      /\ UNCHANGED <<linked, closing, completed, tfile, result, poolTasks, wtask>>
  BY DEF OutcomeFinish, fileVars, poolVars, workerVars
<1>3. ASSUME NEW u \in Tasks, taskState'[u] = "allocated" PROVE Held(u)'
  <2>1. u # atask[a] /\ taskState[u] = "allocated" BY <1>1, <1>2, <1>3 DEF IInv, TypeOK
  <2>2. Held(u) BY <2>1 DEF NoneLost
  <2>3. u \in Deferred => u \in Deferred' BY <2>1, <1>2, <1>3, DeferredKept
  <2>4. \A b \in Apps : atask[b] = u => atask'[b] = u BY <2>1, <1>2 DEF IInv, TypeOK
  <2> QED BY <2>2, <2>3, <2>4, <1>2, HeldKept
<1> QED BY <1>3 DEF NoneLost

LEMMA QuitCancelHeld ==
    ASSUME IInv, NoneLost, NEW a \in Apps, QuitCancel(a)
    PROVE  NoneLost'
<1>1. PICK t \in poolTasks : /\ poolTasks' = poolTasks \ {t}
                             /\ result' = [result EXCEPT ![t] = "CANCELED"]
                             /\ completed' = [completed EXCEPT ![tqueue[t]] = @ \cup {t}]
  BY DEF QuitCancel, Unlist, CompleteTask
<1>2. t \in Tasks /\ tqueue[t] \in Queues /\ t \notin Deferred
  BY PoolHoldsAlone DEF IInv, TypeOK, PoolOK, TaskOK
<1>3. UNCHANGED <<linked, closing, taskState, tfile, wtask, atask>>
  BY DEF QuitCancel, fileVars, workerVars
<1>4. ASSUME NEW u \in Tasks, Held(u) PROVE Held(u)'
  <2>1. CASE u = t
    <3>1. t \in completed'[tqueue[t]] BY <1>1, <1>2 DEF IInv, TypeOK
    <3> QED BY <2>1, <3>1, <1>2 DEF Held, ByQueue
  <2>2. CASE u # t
    <3>1. result'[u] = result[u] BY <2>2, <1>1 DEF IInv, TypeOK
    <3>2. u \in Deferred => u \in Deferred' BY <3>1, <1>3, DeferredKept
    <3>3. \A r \in Queues : u \in completed[r] => u \in completed'[r]
      BY <1>1 DEF IInv, TypeOK
    <3> QED BY <2>2, <3>2, <3>3, <1>1, <1>3, <1>4, HeldKept
  <2> QED BY <2>1, <2>2
<1> QED BY <1>3, <1>4 DEF NoneLost

\* The pool's task is the worker's when it is picked up.
LEMMA TurnHeld ==
    ASSUME IInv, NoneLost, NEW w \in Workers, worker[w] \notin Working, NEW n,
           WorkerTurn(w, n), OnlyPool
    PROVE  NoneLost'
<1>1. UNCHANGED <<linked, closing, completed, taskState, tfile, result, atask>>
  BY DEF OnlyPool, fileVars, queueVars, taskVars
<1>2. ASSUME NEW t \in poolTasks, poolTasks' = poolTasks \ {t}, wtask' = [wtask EXCEPT ![w] = t]
      PROVE  NoneLost'
  <2>1. wtask[w] = NoTask BY DEF IInv, WorkerOK
  <2>2. ASSUME NEW u \in Tasks, Held(u) PROVE Held(u)'
    <3>1. CASE u = t
      <4>1. wtask'[w] = t BY <1>2 DEF IInv, TypeOK
      <4> QED BY <3>1, <4>1 DEF Held, ByWorker
    <3>2. CASE u # t
      <4>1. u \in Deferred => u \in Deferred' BY <1>1, DeferredKept
      <4>2. \A v \in Workers : wtask[v] = u => wtask'[v] = u
        BY <1>2, <2>1, NoneAssumption DEF IInv, TypeOK
      <4> QED BY <3>2, <4>1, <4>2, <1>1, <1>2, <2>2, HeldKept
    <3> QED BY <3>1, <3>2
  <2> QED BY <2>2, <1>1 DEF NoneLost
<1>3. CASE UNCHANGED <<poolTasks, wtask>> BY <1>3, QuietHeld DEF OnlyPool, fileVars, queueVars
<1> QED BY <1>2, <1>3 DEF WorkerTurn, WorkerExit, Unlist

LEMMA WorkerIOHeld ==
    ASSUME IInv, NoneLost, NEW w \in Workers, WorkerIO(w)
    PROVE  NoneLost'
<1>1. wtask[w] \in Tasks BY DEF IInv, WorkerOK, WorkerIO, Working
<1>2. UNCHANGED <<linked, closing, completed, taskState, tfile, poolTasks, wtask, atask>>
  BY DEF WorkerIO, queueVars, poolVars, appVars
<1>3. \A u \in Tasks : u # wtask[w] => result'[u] = result[u]
  BY DEF WorkerIO, IInv, TypeOK
<1>4. ASSUME NEW u \in Tasks, Held(u) PROVE Held(u)'
  <2>1. CASE u = wtask[w] BY <2>1, <1>2 DEF Held, ByWorker
  <2>2. CASE u # wtask[w]
    <3>1. u \in Deferred => u \in Deferred' BY <2>2, <1>2, <1>3, DeferredKept
    <3> QED BY <3>1, <1>2, <1>4, HeldKept
  <2> QED BY <2>1, <2>2
<1> QED BY <1>2, <1>4 DEF NoneLost

LEMMA WorkerCompleteHeld ==
    ASSUME IInv, NoneLost, NEW w \in Workers, WorkerComplete(w)
    PROVE  NoneLost'
<1>1. wtask[w] \in Tasks /\ tqueue[wtask[w]] \in Queues
  BY DEF IInv, WorkerOK, TaskOK, WorkerComplete, Working
<1>2. /\ completed' = [completed EXCEPT ![tqueue[wtask[w]]] = @ \cup {wtask[w]}]
      /\ wtask' = [wtask EXCEPT ![w] = NoTask]
      /\ UNCHANGED <<linked, closing, taskState, tfile, result, poolTasks, atask>>
  BY DEF WorkerComplete, CompleteTask, fileVars, taskVars, poolVars
<1>3. ASSUME NEW u \in Tasks, Held(u) PROVE Held(u)'
  <2>1. CASE u = wtask[w]
    <3>1. u \in completed'[tqueue[u]] BY <2>1, <1>1, <1>2 DEF IInv, TypeOK
    <3> QED BY <2>1, <3>1, <1>1 DEF Held, ByQueue
  <2>2. CASE u # wtask[w]
    <3>1. u \in Deferred => u \in Deferred' BY <1>2, DeferredKept
    <3>2. \A v \in Workers : wtask[v] = u => wtask'[v] = u BY <2>2, <1>2 DEF IInv, TypeOK
    <3>3. \A r \in Queues : u \in completed[r] => u \in completed'[r]
      BY <1>2 DEF IInv, TypeOK
    <3> QED BY <3>1, <3>2, <3>3, <1>2, <1>3, HeldKept
  <2> QED BY <2>1, <2>2
<1> QED BY <1>2, <1>3 DEF NoneLost

LEMMA NoneLostStep ==
    ASSUME IInv, NoneLost, [Next]_vars
    PROVE  NoneLost'
<1>1. ASSUME NEW a \in Apps, AppStep(a) PROVE NoneLost'
  <2>1. ASSUME NEW q \in Queues, GetResult(a, q) PROVE NoneLost'
    BY <2>1, PopHeld DEF GetResult, Holding
  <2>2. CASE UNCHANGED <<linked, closing, completed, taskVars, poolTasks, wtask, atask>>
    BY <2>2, QuietHeld
  <2> QED
    BY <1>1, <2>1, <2>2, RequestHeld, CloseNowHeld, CloseLaterHeld
    DEF AppStep, OpenFile, CreateQueue, PrepareThreadpool, WaitResult, DestroyQueue, WaitTimeout,
        Quit, fileVars, queueVars, poolVars, workerVars, appVars
<1>2. ASSUME NEW a \in Apps, AppContinue(a) PROVE NoneLost'
  <2>1. CASE WaitEnd(a)
    <3>1. aqueue[a] \in Queues BY <2>1 DEF IInv, AppOK, WaitEnd
    <3>2. CASE Pop(a, aqueue[a]) BY <2>1, <3>1, <3>2, PopHeld DEF WaitEnd, Holding
    <3>3. CASE UNCHANGED <<completed, atask>>
      BY <2>1, <3>3, QuietHeld DEF WaitEnd, fileVars, poolVars, workerVars
    <3> QED BY <2>1, <3>2, <3>3 DEF WaitEnd
  <2>2. CASE DestroyConsume(a)
    <3>1. aqueue[a] \in Queues BY <2>2 DEF IInv, AppOK, DestroyConsume
    <3>2. CASE Pop(a, aqueue[a]) BY <2>2, <3>1, <3>2, PopHeld DEF DestroyConsume, Holding
    <3>3. CASE UNCHANGED <<completed, atask>>
      BY <2>2, <3>3, QuietHeld DEF DestroyConsume, fileVars, poolVars, workerVars
    <3> QED BY <2>2, <3>2, <3>3 DEF DestroyConsume
  <2>3. CASE UNCHANGED <<linked, closing, completed, taskVars, poolTasks, wtask, atask>>
    BY <2>3, QuietHeld
  <2> QED
    BY <1>2, <2>1, <2>2, <2>3, RequestQueueHeld, OutcomeUnlinkHeld, OutcomeFinishHeld, QuitCancelHeld
    DEF AppContinue, OutcomeFree, DestroyFree, QuitStop, QuitWake, fileVars, queueVars,
        poolVars, workerVars
<1>3. ASSUME NEW q \in Queues, SignalQueue(q) PROVE NoneLost'
  BY <1>3, QuietHeld DEF SignalQueue, fileVars, queueVars, poolVars, workerVars
<1>4. ASSUME NEW w \in Workers, WorkerTimeout(w) PROVE NoneLost'
  BY <1>4, QuietHeld DEF WorkerTimeout, fileVars, queueVars, poolVars, appVars
<1>5. ASSUME NEW w \in Workers, WorkerContinue(w) PROVE NoneLost'
  <2>1. ASSUME NEW n, WorkerTurn(w, n), worker[w] \notin Working, OnlyPool PROVE NoneLost'
    BY <2>1, TurnHeld
  <2>2. ASSUME NEW n, WorkerExit(w, n), OnlyPool PROVE NoneLost'
    BY <2>2, QuietHeld DEF WorkerExit, OnlyPool, fileVars, queueVars
  <2>3. CASE WorkerSeek(w)
    BY <2>3, QuietHeld DEF WorkerSeek, fileVars, queueVars, poolVars, appVars
  <2> QED
    BY <1>5, <2>1, <2>2, <2>3, WorkerIOHeld, WorkerCompleteHeld
    DEF WorkerContinue, WorkerLoop, WorkerWake, WorkerShrink, Working
<1>6. CASE UNCHANGED vars
  BY <1>6, QuietHeld DEF vars, fileVars, queueVars, poolVars, workerVars, appVars
<1> QED BY <1>1, <1>2, <1>3, <1>4, <1>5, <1>6 DEF Next

\* Whatever threads do, a task that was allocated and not freed is always on its way:
\* on the pool's list, with a worker, on its queue, with a thread of the app, or held
\* back by its file; and what they have in hand was not freed.
THEOREM NothingIsLost == Spec => []NoTaskLost
<1>1. Init => NoneLost BY DEF Init, NoneLost
<1>2. IInv /\ NoneLost /\ [Next]_vars => NoneLost' BY NoneLostStep
<1>3. IInv /\ NoneLost => NoTaskLost
  BY HeldIsAllocated DEF NoneLost, NoTaskLost, Held
<1> QED BY <1>1, <1>2, <1>3, Invariance, PTL DEF Spec

-----------------------------------------------------------------------------
(* A queue outlives its tasks.                                             *)

\* What tasks_inflight counts: the tasks of the queue that were handed on.
InFlight(q) == {t \in Tasks : taskState[t] = "allocated" /\ tqueue[t] = q /\ t \notin Deferred}
CountOK(q) == inflight[q] = Cardinality(InFlight(q))

DestroyStates == {"destroy", "waiting", "woken", "outcome", "free", "finish"}

\* While a thread destroys a queue the queue is live and no other thread destroys it;
\* a close that is held back for it waits for counted tasks of the queue itself.
DestroyOK(a) ==
    /\ apc[a] = "destroy" => destroying[a]
    /\ destroying[a] =>
          /\ apc[a] \in DestroyStates
          /\ aqueue[a] \in Queues /\ queueState[aqueue[a]] = "live"
          /\ ClosesOwnTasks(aqueue[a])
          /\ \A b \in Apps : destroying[b] /\ aqueue[b] = aqueue[a] => b = a

QueueInv ==
    /\ \A q \in Queues : CountOK(q)
    /\ \A a \in Apps : DestroyOK(a)
    /\ QueueOutlivesTasks

LEMMA InFlightFinite ==
    ASSUME NEW q \in Queues
    PROVE  IsFiniteSet(InFlight(q)) /\ Cardinality(InFlight(q)) \in Nat
<1>1. IsFiniteSet(InFlight(q)) BY FiniteAssumption, FS_Subset DEF InFlight
<1> QED BY <1>1, FS_CardinalityType

\* What a step does to the threads that destroy a queue, when none begins or ends.
DestroyersKept ==
    /\ \A a \in Apps : apc'[a] = "destroy" => destroying[a]
    /\ \A a \in Apps : destroying[a] => aqueue'[a] = aqueue[a] /\ apc'[a] \in DestroyStates

\* No close is held back anew, and none waits for more than before.
HeldBackKept ==
    \A t \in Deferred' :
       /\ t \in Deferred /\ tqueue'[t] = tqueue[t] /\ tfile'[t] = tfile[t]
       /\ \A u \in linked'[tfile[t]] : u \in linked[tfile[t]] /\ tqueue'[u] = tqueue[u]

LEMMA OwnTasksKept ==
    ASSUME HeldBackKept, NEW q, ClosesOwnTasks(q)
    PROVE  ClosesOwnTasks(q)'
  BY DEF HeldBackKept, ClosesOwnTasks

\* Nothing more is known of the destroyers when no task becomes a held back close.
LEMMA DestroyOKKept ==
    ASSUME QueueInv, UNCHANGED destroying, DestroyersKept, HeldBackKept,
           \A q \in Queues : queueState[q] = "live" => queueState'[q] = "live"
    PROVE  \A a \in Apps : DestroyOK(a)'
<1> SUFFICES ASSUME NEW a \in Apps PROVE DestroyOK(a)'
  OBVIOUS
<1>1. \A q \in Queues : ClosesOwnTasks(q) => ClosesOwnTasks(q)'
  BY OwnTasksKept
<1>2. destroying[a] => /\ aqueue'[a] = aqueue[a] /\ aqueue[a] \in Queues
                       /\ ClosesOwnTasks(aqueue[a])
  BY DEF DestroyersKept, QueueInv, DestroyOK
<1>3. destroying[a] => ClosesOwnTasks(aqueue[a])'
  BY <1>1, <1>2 DEF ClosesOwnTasks
<1> QED BY <1>3 DEF QueueInv, DestroyOK, DestroyersKept

LEMMA CountKept ==
    ASSUME QueueInv, UNCHANGED <<taskState, tqueue, inflight>>, Deferred' = Deferred
    PROVE  \A q \in Queues : CountOK(q)'
<1>1. \A q \in Queues : InFlight(q)' = InFlight(q) BY DEF InFlight
<1> QED BY <1>1 DEF QueueInv, CountOK

LEMMA QuietQueue ==
    ASSUME IInv, QueueInv, UNCHANGED <<taskState, tfile, tqueue, inflight, destroying>>,
           Deferred' = Deferred, \A f \in Files : linked'[f] \subseteq linked[f],
           \A q \in Queues : queueState[q] = "live" => queueState'[q] = "live",
           DestroyersKept
    PROVE  QueueInv'
<1>0. HeldBackKept BY DEF HeldBackKept, Deferred, IInv, TaskOK
<1>1. \A a \in Apps : DestroyOK(a)' BY <1>0, DestroyOKKept
<1>2. QueueOutlivesTasks'
  BY DEF QueueInv, QueueOutlivesTasks, IInv, TaskOK
<1> QED BY <1>1, <1>2, CountKept DEF QueueInv

\* A task that becomes counted, or no longer is.
LEMMA CountUp ==
    ASSUME QueueInv, TypeOK, NEW q \in Queues, NEW t \in Tasks, t \notin InFlight(q),
           \A r \in Queues : InFlight(r)' = IF r = q THEN InFlight(r) \cup {t} ELSE InFlight(r),
           inflight' = [inflight EXCEPT ![q] = @ + 1]
    PROVE  \A r \in Queues : CountOK(r)'
<1>1. Cardinality(InFlight(q) \cup {t}) = Cardinality(InFlight(q)) + 1
  BY InFlightFinite, FS_AddElement
<1>2. \A r \in Queues : inflight'[r] = IF r = q THEN inflight[r] + 1 ELSE inflight[r]
  BY DEF TypeOK
<1> QED BY <1>1, <1>2 DEF QueueInv, CountOK

LEMMA CountDown ==
    ASSUME QueueInv, TypeOK, NEW q \in Queues, NEW t \in InFlight(q),
           \A r \in Queues : InFlight(r)' = IF r = q THEN InFlight(r) \ {t} ELSE InFlight(r),
           inflight' = [inflight EXCEPT ![q] = @ - 1]
    PROVE  \A r \in Queues : CountOK(r)'
<1>1. Cardinality(InFlight(q) \ {t}) = Cardinality(InFlight(q)) - 1
  BY InFlightFinite, FS_RemoveElement
<1>2. \A r \in Queues : inflight'[r] = IF r = q THEN inflight[r] - 1 ELSE inflight[r]
  BY DEF TypeOK
<1> QED BY <1>1, <1>2 DEF QueueInv, CountOK

\* Waking threads up neither begins nor ends a destruction.
LEMMA WokenDestroyers ==
    ASSUME QueueInv, NEW pcs \in [Apps -> AppStates], OnlyWoken(pcs),
           \A a \in Apps : pcs[a] = "destroy" => destroying[a],
           \A a \in Apps : destroying[a] => aqueue'[a] = aqueue[a] /\ pcs[a] \in DestroyStates
    PROVE  DestroyersKept
  BY DEF OnlyWoken, DestroyersKept, DestroyStates

\* A task that is linked on its file is no held back close, whatever its outcome.
LEMMA DeferredSame ==
    ASSUME UNCHANGED <<taskState, tfile, linked, closing>>, NEW t \in Tasks, t \in linked[tfile[t]],
           \A u \in Tasks : u # t => result'[u] = result[u]
    PROVE  Deferred' = Deferred
<1>1. ASSUME NEW u \in Tasks PROVE u \in Deferred' <=> u \in Deferred
  <2>1. CASE u = t BY <2>1 DEF Deferred
  <2>2. CASE u # t BY <2>2 DEF Deferred
  <2> QED BY <2>1, <2>2
<1> QED BY <1>1 DEF Deferred

-----------------------------------------------------------------------------

LEMMA RequestKeepsQueue ==
    ASSUME IInv, QueueInv, NEW a \in Apps, NEW g \in Files, NEW q \in Queues, NEW t \in Tasks,
           Request(a, g, q, t)
    PROVE  QueueInv'
<1>1. /\ apc[a] = "idle" /\ Usable(q) /\ closing[g] = NoTask /\ taskState[t] = "unused"
      /\ taskState' = [taskState EXCEPT ![t] = "allocated"]
      /\ tfile' = [tfile EXCEPT ![t] = g]
      /\ tqueue' = [tqueue EXCEPT ![t] = q]
      /\ linked' = [linked EXCEPT ![g] = @ \cup {t}]
      /\ inflight' = [inflight EXCEPT ![q] = @ + 1]
      /\ apc' = [apc EXCEPT ![a] = "queueing"]
      /\ aqueue' = [aqueue EXCEPT ![a] = q]
      /\ UNCHANGED <<closing, result, queueState, destroying>>
  BY DEF Request, Accepts, Counted, NewTask
<1>2. t \notin Deferred' BY <1>1, NoneAssumption DEF IInv, TypeOK, Deferred
<1>3. \A u \in Tasks : u # t => (u \in Deferred' <=> u \in Deferred)
  BY <1>1 DEF IInv, TypeOK, TaskOK, Deferred
<1>4. \A u \in Tasks : u # t => taskState'[u] = taskState[u] /\ tqueue'[u] = tqueue[u]
  BY <1>1 DEF IInv, TypeOK
<1>5. taskState'[t] = "allocated" /\ tqueue'[t] = q BY <1>1 DEF IInv, TypeOK
<1>6. \A r \in Queues : InFlight(r)' = IF r = q THEN InFlight(r) \cup {t} ELSE InFlight(r)
  BY <1>1, <1>2, <1>3, <1>4, <1>5 DEF InFlight
<1>7. t \notin InFlight(q) BY <1>1 DEF InFlight
<1>8. \A r \in Queues : CountOK(r)' BY <1>1, <1>6, <1>7, CountUp DEF IInv
<1>9. DestroyersKept BY <1>1 DEF QueueInv, DestroyOK, DestroyersKept, DestroyStates, IInv, TypeOK
<1>10. HeldBackKept
  <2>1. \A u \in Deferred' : u \in Deferred /\ u # t BY <1>2, <1>3 DEF Deferred
  <2>2. \A u \in Deferred : tfile[u] # g /\ tfile[u] \in Files
    BY <1>1, NoneAssumption DEF Deferred, IInv, TaskOK
  <2>3. \A u \in Deferred' : tqueue'[u] = tqueue[u] /\ tfile'[u] = tfile[u]
    BY <2>1, <1>1 DEF IInv, TypeOK
  <2>4. \A f \in Files \ {g} : linked'[f] = linked[f] /\ t \notin linked[f]
    BY <1>1, UnusedIsFree DEF IInv, TypeOK
  <2>5. \A f \in Files \ {g} : \A u \in linked'[f] : u \in linked[f] /\ tqueue'[u] = tqueue[u]
    BY <2>4, <1>4 DEF IInv, TypeOK
  <2> QED BY <2>1, <2>2, <2>3, <2>5 DEF HeldBackKept
<1>11. \A b \in Apps : DestroyOK(b)' BY <1>1, <1>9, <1>10, DestroyOKKept
<1>12. QueueOutlivesTasks'
  BY <1>1, <1>4, <1>5 DEF QueueInv, QueueOutlivesTasks, Usable
<1> QED BY <1>8, <1>11, <1>12 DEF QueueInv

LEMMA CloseNowKeepsQueue ==
    ASSUME IInv, QueueInv, NEW a \in Apps, NEW g \in Files, NEW q \in Queues, NEW t \in Tasks,
           CloseNow(a, g, q, t)
    PROVE  QueueInv'
<1>1. /\ apc[a] = "idle" /\ Usable(q) /\ closing[g] = NoTask /\ taskState[t] = "unused"
      /\ QueueTask(t, q, apc)
      /\ taskState' = [taskState EXCEPT ![t] = "allocated"]
      /\ tfile' = [tfile EXCEPT ![t] = g]
      /\ tqueue' = [tqueue EXCEPT ![t] = q]
      /\ linked' = [linked EXCEPT ![g] = {t}]
      /\ closing' = [closing EXCEPT ![g] = t]
      /\ inflight' = [inflight EXCEPT ![q] = @ + 1]
      /\ UNCHANGED <<queueState, aqueue, destroying>>
  BY DEF CloseNow, Accepts, Counted, NewTask
<1>2. OnlyWoken(apc) /\ (Listed(t) \/ Canceled(t, q))
  BY <1>1, QueueEffect DEF IInv, TypeOK
<1>3. \A u \in Tasks : u # t => result'[u] = result[u]
  BY <1>2 DEF Listed, Canceled, IInv, TypeOK
<1>4. t \notin Deferred' BY <1>1 DEF IInv, TypeOK, Deferred
<1>5. \A u \in Deferred : tfile[u] # g BY <1>1, NoneAssumption DEF Deferred
<1>6. \A u \in Deferred' : u # t /\ tfile[u] # g
  BY <1>1, <1>4 DEF IInv, TypeOK, Deferred
<1>7. \A u \in Tasks : u # t => (u \in Deferred' <=> u \in Deferred)
  BY <1>1, <1>3, <1>5, <1>6 DEF IInv, TypeOK, TaskOK, Deferred
<1>8. \A u \in Tasks : u # t => taskState'[u] = taskState[u] /\ tqueue'[u] = tqueue[u]
  BY <1>1 DEF IInv, TypeOK
<1>9. taskState'[t] = "allocated" /\ tqueue'[t] = q BY <1>1 DEF IInv, TypeOK
<1>10. \A r \in Queues : InFlight(r)' = IF r = q THEN InFlight(r) \cup {t} ELSE InFlight(r)
  BY <1>1, <1>4, <1>7, <1>8, <1>9 DEF InFlight
<1>11. t \notin InFlight(q) BY <1>1 DEF InFlight
<1>12. \A r \in Queues : CountOK(r)' BY <1>1, <1>10, <1>11, CountUp DEF IInv
<1>13. DestroyersKept
  BY <1>1, <1>2, WokenDestroyers DEF QueueInv, DestroyOK, IInv, TypeOK
<1>14. HeldBackKept
  <2>1. \A u \in Deferred' : u \in Deferred /\ u # t BY <1>4, <1>7 DEF Deferred
  <2>2. \A u \in Deferred : tfile[u] # g /\ tfile[u] \in Files
    BY <1>5 DEF Deferred, IInv, TaskOK
  <2>3. \A u \in Deferred' : tqueue'[u] = tqueue[u] /\ tfile'[u] = tfile[u]
    BY <2>1, <1>1 DEF IInv, TypeOK
  <2>4. \A f \in Files \ {g} : linked'[f] = linked[f] /\ t \notin linked[f]
    BY <1>1, UnusedIsFree DEF IInv, TypeOK
  <2>5. \A f \in Files \ {g} : \A u \in linked'[f] : u \in linked[f] /\ tqueue'[u] = tqueue[u]
    BY <2>4, <1>8 DEF IInv, TypeOK
  <2> QED BY <2>1, <2>2, <2>3, <2>5 DEF HeldBackKept
<1>15. \A b \in Apps : DestroyOK(b)' BY <1>1, <1>13, <1>14, DestroyOKKept
<1>16. QueueOutlivesTasks'
  BY <1>1, <1>8, <1>9 DEF QueueInv, QueueOutlivesTasks, Usable
<1> QED BY <1>12, <1>15, <1>16 DEF QueueInv

\* The close is not counted, but its queue is not being destroyed.
LEMMA CloseLaterKeepsQueue ==
    ASSUME IInv, QueueInv, NEW a \in Apps, NEW g \in Files, NEW q \in Queues, NEW t \in Tasks,
           CloseLater(a, g, q, t)
    PROVE  QueueInv'
<1>1. /\ Usable(q) /\ closing[g] = NoTask /\ taskState[t] = "unused"
      /\ taskState' = [taskState EXCEPT ![t] = "allocated"]
      /\ tfile' = [tfile EXCEPT ![t] = g]
      /\ tqueue' = [tqueue EXCEPT ![t] = q]
      /\ closing' = [closing EXCEPT ![g] = t]
      /\ UNCHANGED <<linked, result, inflight, queueState, apc, aqueue, destroying>>
  BY DEF CloseLater, Accepts, NewTask, queueVars, appVars
<1>2. t \notin linked[g] /\ result[t] = "NONE" BY <1>1, UnusedIsFree
<1>3. t \in Deferred' BY <1>1, <1>2 DEF IInv, TypeOK, Deferred
<1>4. \A u \in Deferred : tfile[u] # g BY <1>1, NoneAssumption DEF Deferred
<1>5. \A u \in Tasks : u # t => (u \in Deferred' <=> u \in Deferred)
  BY <1>1, <1>4 DEF IInv, TypeOK, TaskOK, Deferred
<1>6. \A u \in Tasks : u # t => taskState'[u] = taskState[u] /\ tqueue'[u] = tqueue[u]
  BY <1>1 DEF IInv, TypeOK
<1>7. taskState'[t] = "allocated" /\ tqueue'[t] = q BY <1>1 DEF IInv, TypeOK
<1>8. \A r \in Queues : InFlight(r)' = InFlight(r)
  BY <1>1, <1>3, <1>5, <1>6 DEF InFlight
<1>9. \A r \in Queues : CountOK(r)' BY <1>1, <1>8 DEF QueueInv, CountOK
<1>10. ASSUME NEW b \in Apps PROVE DestroyOK(b)'
  <2>1. destroying[b] => aqueue[b] # q BY <1>1 DEF Usable
  <2>2. ASSUME destroying[b], NEW u \in Deferred', tqueue'[u] = aqueue[b],
               NEW v \in linked'[tfile'[u]]
        PROVE  tqueue'[v] = aqueue[b]
    <3>1. u # t /\ u \in Deferred /\ u \in Tasks
      BY <2>1, <2>2, <1>5, <1>7 DEF Deferred
    <3>2. tqueue[u] = aqueue[b] /\ tfile'[u] = tfile[u] /\ tfile[u] \in Files
      BY <3>1, <2>2, <1>1, <1>6 DEF Deferred, IInv, TypeOK, TaskOK
    <3>3. v \in linked[tfile[u]] /\ v \in Tasks BY <3>2, <2>2, <1>1 DEF IInv, TypeOK
    <3>4. v # t BY <3>2, <3>3, <1>1, UnusedIsFree
    <3>5. tqueue[v] = aqueue[b]
      BY <3>1, <3>2, <3>3, <2>2 DEF QueueInv, DestroyOK, ClosesOwnTasks
    <3> QED BY <3>3, <3>4, <3>5, <1>6
  <2>3. destroying[b] => ClosesOwnTasks(aqueue[b])'
    BY <2>2, <1>1 DEF ClosesOwnTasks
  <2> QED BY <2>3, <1>1 DEF QueueInv, DestroyOK
<1>11. QueueOutlivesTasks'
  BY <1>1, <1>6, <1>7 DEF QueueInv, QueueOutlivesTasks, Usable
<1> QED BY <1>9, <1>10, <1>11 DEF QueueInv

LEMMA RequestQueueKeepsQueue ==
    ASSUME IInv, QueueInv, NEW a \in Apps, RequestQueue(a)
    PROVE  QueueInv'
<1>1. /\ atask[a] \in Tasks /\ aqueue[a] \in Queues /\ apc[a] = "queueing"
      /\ atask[a] \in linked[tfile[atask[a]]] /\ ~destroying[a]
  BY DEF RequestQueue, IInv, AppOK, TaskOK, Holding, QueueInv, DestroyOK, DestroyStates
<1> SUFFICES ASSUME NEW t \in Tasks, t = atask[a], NEW q \in Queues, q = aqueue[a],
                    NEW pcs \in [Apps -> AppStates], pcs = [apc EXCEPT ![a] = "idle"]
             PROVE  QueueInv'
  <2>1. [apc EXCEPT ![a] = "idle"] \in [Apps -> AppStates] BY DEF IInv, TypeOK, AppStates
  <2> QED BY <1>1, <2>1
<1>2. /\ QueueTask(t, q, pcs)
      /\ aqueue' = [aqueue EXCEPT ![a] = NoQueue]
      /\ UNCHANGED <<linked, closing, taskState, tfile, tqueue, queueState, inflight, destroying>>
  BY DEF RequestQueue, fileVars
<1>3. OnlyWoken(pcs) /\ (Listed(t) \/ Canceled(t, q)) BY <1>2, QueueEffect DEF IInv
<1>4. \A u \in Tasks : u # t => result'[u] = result[u]
  BY <1>3 DEF Listed, Canceled, IInv, TypeOK
<1>5. Deferred' = Deferred BY <1>1, <1>2, <1>4, DeferredSame
<1>6. DestroyersKept
  BY <1>1, <1>2, <1>3, WokenDestroyers DEF QueueInv, DestroyOK, DestroyStates, IInv, TypeOK
<1> QED BY <1>2, <1>5, <1>6, QuietQueue

LEMMA PopKeepsQueue ==
    ASSUME IInv, QueueInv, NEW a \in Apps, NEW q \in Queues, Pop(a, q),
           aqueue' \in [Apps -> Queues \cup {NoQueue}],
           destroying[a] => aqueue'[a] = aqueue[a],
           \A b \in Apps : b # a => aqueue'[b] = aqueue[b],
           UNCHANGED <<fileVars, queueState, inflight, taskVars, destroying>>
    PROVE  QueueInv'
<1>1. apc' = [apc EXCEPT ![a] = "outcome"] BY DEF Pop
<1>2. UNCHANGED <<linked, closing, taskState, tfile, tqueue, result>> BY DEF fileVars, taskVars
<1>3. Deferred' = Deferred BY <1>2 DEF Deferred
<1>4. DestroyersKept BY <1>1 DEF QueueInv, DestroyOK, DestroyStates, DestroyersKept, IInv, TypeOK
<1> QED BY <1>2, <1>3, <1>4, QuietQueue

LEMMA WaitEndKeepsQueue ==
    ASSUME IInv, QueueInv, NEW a \in Apps, WaitEnd(a)
    PROVE  QueueInv'
<1>1. aqueue[a] \in Queues BY DEF IInv, AppOK, WaitEnd
<1>2. CASE Pop(a, aqueue[a]) /\ UNCHANGED aqueue
  BY <1>1, <1>2, PopKeepsQueue DEF WaitEnd, IInv, TypeOK
<1>3. CASE /\ apc' = [apc EXCEPT ![a] = AfterResult(a)]
           /\ aqueue' = [aqueue EXCEPT ![a] = QueueAfter(a)]
  <2>1. UNCHANGED <<linked, closing, taskState, tfile, tqueue, result, queueState, inflight, destroying>>
    BY DEF WaitEnd, fileVars, taskVars
  <2>2. Deferred' = Deferred BY <2>1 DEF Deferred
  <2>3. DestroyersKept
    BY <1>3 DEF QueueInv, DestroyOK, DestroyStates, DestroyersKept, AfterResult, QueueAfter, IInv, TypeOK
  <2> QED BY <2>1, <2>2, <2>3, QuietQueue
<1> QED BY <1>2, <1>3 DEF WaitEnd

LEMMA DestroyConsumeKeepsQueue ==
    ASSUME IInv, QueueInv, NEW a \in Apps, DestroyConsume(a)
    PROVE  QueueInv'
<1>1. aqueue[a] \in Queues BY DEF IInv, AppOK, DestroyConsume
<1>2. CASE Pop(a, aqueue[a])
  BY <1>1, <1>2, PopKeepsQueue DEF DestroyConsume, IInv, TypeOK
<1>3. CASE apc' = [apc EXCEPT ![a] = "waiting"]
  <2>1. UNCHANGED <<linked, closing, taskState, tfile, tqueue, result, queueState, inflight, aqueue,
                    destroying>>
    BY DEF DestroyConsume, fileVars, taskVars
  <2>2. Deferred' = Deferred BY <2>1 DEF Deferred
  <2>3. DestroyersKept
    BY <1>3, <2>1 DEF QueueInv, DestroyOK, DestroyStates, DestroyersKept, IInv, TypeOK
  <2> QED BY <2>1, <2>2, <2>3, QuietQueue
<1> QED BY <1>2, <1>3 DEF DestroyConsume

\* The close that is handed on is counted on its queue.
LEMMA OutcomeUnlinkKeepsQueue ==
    ASSUME IInv, QueueInv, NEW a \in Apps, OutcomeUnlink(a)
    PROVE  QueueInv'
<1>1. /\ atask[a] \in Tasks /\ tfile[atask[a]] \in Files /\ result[atask[a]] # "NONE"
      /\ apc[a] = "outcome"
  BY DEF IInv, AppOK, TaskOK, Holding, OutcomeUnlink
<1> SUFFICES ASSUME NEW t \in Tasks, t = atask[a], NEW g \in Files, g = tfile[t],
                    NEW pcs \in [Apps -> AppStates], pcs = [apc EXCEPT ![a] = AfterUnlink(t)]
             PROVE  QueueInv'
  <2>1. AfterUnlink(atask[a]) \in AppStates BY DEF AfterUnlink, AppStates
  <2>2. [apc EXCEPT ![a] = AfterUnlink(atask[a])] \in [Apps -> AppStates]
    BY <2>1 DEF IInv, TypeOK
  <2> QED BY <1>1, <2>2
<1>2. UNCHANGED <<closing, queueState, taskState, tfile, tqueue, aqueue, destroying>>
  BY DEF OutcomeUnlink
<1>3. AfterUnlink(t) \in {"free", "finish"} BY DEF AfterUnlink
<1>4. /\ \A b \in Apps : pcs[b] = "destroy" => destroying[b]
      /\ \A b \in Apps : destroying[b] => pcs[b] \in DestroyStates
  BY <1>3 DEF QueueInv, DestroyOK, DestroyStates, IInv, TypeOK
<1>5. CASE /\ linked' = [linked EXCEPT ![g] = @ \ {t}]
           /\ apc' = pcs
           /\ UNCHANGED <<inflight, result>>
  <2>1. Deferred' = Deferred
    BY <1>1, <1>2, <1>5 DEF IInv, TypeOK, TaskOK, Deferred
  <2>2. DestroyersKept BY <1>2, <1>4, <1>5 DEF DestroyersKept
  <2>3. \A f \in Files : linked'[f] \subseteq linked[f] BY <1>5 DEF IInv, TypeOK
  <2> QED BY <2>1, <2>2, <2>3, <1>2, <1>5, QuietQueue
<1>6. CASE /\ CloseIsDue(t)
           /\ linked' = [linked EXCEPT ![g] = (@ \ {t}) \cup {closing[g]}]
           /\ inflight' = Counted(tqueue[closing[g]])
           /\ QueueTask(closing[g], tqueue[closing[g]], pcs)
  <2>1. /\ closing[g] \in Tasks /\ closing[g] # t /\ tqueue[closing[g]] \in Queues
        /\ linked[g] \subseteq {t} /\ tfile[closing[g]] = g
    BY <1>6 DEF IInv, TypeOK, FileOK, TaskOK, CloseIsDue
  <2>2. t \in linked[g] BY DEF OutcomeUnlink, IInv, AppOK
  <2>3. closing[g] \in Deferred
    <3>1. result[closing[g]] = "NONE" /\ taskState[closing[g]] = "allocated"
      BY <2>1, <2>2, NoneAssumption DEF IInv, TypeOK, FileOK, TaskOK
    <3> QED BY <2>1, <3>1 DEF Deferred
  <2> SUFFICES ASSUME NEW c \in Deferred, c = closing[g], NEW q \in Queues, q = tqueue[c]
               PROVE  QueueInv'
    BY <2>1, <2>3
  <2>4. c \in Tasks /\ taskState[c] = "allocated" BY DEF Deferred
  <2>5. OnlyWoken(pcs) /\ (Listed(c) \/ Canceled(c, q)) BY <2>4, <1>6, QueueEffect DEF IInv
  <2>6. \A u \in Tasks : u # c => result'[u] = result[u]
    BY <2>5 DEF Listed, Canceled, IInv, TypeOK
  <2>7. c \in linked'[g] /\ \A f \in Files : f # g => linked'[f] = linked[f]
    BY <1>6 DEF IInv, TypeOK
  <2>8. \A u \in Tasks : u \in Deferred' <=> u \in Deferred /\ u # c
    <3> TAKE u \in Tasks
    <3>1. CASE u = c BY <3>1, <2>1, <2>7, <1>2 DEF Deferred
    <3>2. CASE u # c
      <4>1. u \in Deferred => tfile[u] # g /\ tfile[u] \in Files
        BY <3>2 DEF Deferred, IInv, TaskOK
      <4>2. u \in Deferred' => tfile[u] # g /\ tfile[u] \in Files
        BY <3>2, <1>2 DEF Deferred, IInv, TaskOK
      <4> QED BY <4>1, <4>2, <3>2, <2>6, <2>7, <1>2 DEF Deferred
    <3> QED BY <3>1, <3>2
  <2>9. \A r \in Queues : InFlight(r)' = IF r = q THEN InFlight(r) \cup {c} ELSE InFlight(r)
    BY <2>4, <2>8, <1>2 DEF InFlight
  <2>10. c \notin InFlight(q) BY DEF InFlight
  <2>11. \A r \in Queues : CountOK(r)'
    BY <2>4, <2>9, <2>10, <1>6, CountUp DEF IInv, Counted
  <2>12. DestroyersKept BY <2>5, <1>2, <1>4, WokenDestroyers
  <2>13. \A b \in Apps : DestroyOK(b)'
    <3>1. \A u \in Deferred' : u \in Deferred /\ u # c BY <2>8 DEF Deferred
    <3>2. \A u \in Deferred' : tfile[u] # g /\ tfile[u] \in Files
      BY <3>1 DEF Deferred, IInv, TaskOK
    <3>3. HeldBackKept BY <3>1, <3>2, <2>7, <1>2 DEF HeldBackKept
    <3> QED BY <3>3, <2>12, <1>2, DestroyOKKept
  <2>14. QueueOutlivesTasks' BY <1>2 DEF QueueInv, QueueOutlivesTasks
  <2> QED BY <2>11, <2>13, <2>14 DEF QueueInv
<1> QED BY <1>5, <1>6 DEF OutcomeUnlink

LEMMA OutcomeFinishKeepsQueue ==
    ASSUME IInv, QueueInv, NEW a \in Apps, OutcomeFinish(a)
    PROVE  QueueInv'
<1>1. /\ atask[a] \in Tasks /\ tqueue[atask[a]] \in Queues /\ apc[a] = "finish"
      /\ taskState[atask[a]] = "allocated" /\ result[atask[a]] # "NONE"
  BY DEF IInv, AppOK, TaskOK, Holding, OutcomeFinish
<1> SUFFICES ASSUME NEW t \in Tasks, t = atask[a], NEW q \in Queues, q = tqueue[t]
             PROVE  QueueInv'
  BY <1>1
<1>2. /\ inflight' = [inflight EXCEPT ![q] = @ - 1]
      /\ taskState' = [taskState EXCEPT ![t] = "freed"]
      /\ apc' = [apc EXCEPT ![a] = AfterResult(a)]
      /\ aqueue' = [aqueue EXCEPT ![a] = QueueAfter(a)]
      /\ UNCHANGED <<linked, closing, queueState, tfile, tqueue, result, destroying>>
  BY DEF OutcomeFinish, fileVars
<1>3. /\ \A u \in Tasks : u # t => taskState'[u] = taskState[u]
      /\ taskState'[t] = "freed"
  BY <1>2 DEF IInv, TypeOK
<1>4. t \notin Deferred BY <1>1 DEF Deferred
<1>5. Deferred' = Deferred BY <1>2, <1>3, <1>4 DEF Deferred
<1>6. t \in InFlight(q) BY <1>1, <1>4 DEF InFlight
<1>7. \A r \in Queues : InFlight(r)' = IF r = q THEN InFlight(r) \ {t} ELSE InFlight(r)
  BY <1>2, <1>3, <1>5 DEF InFlight
<1>8. \A r \in Queues : CountOK(r)' BY <1>2, <1>6, <1>7, CountDown DEF IInv
<1>9. DestroyersKept
  BY <1>2 DEF QueueInv, DestroyOK, DestroyStates, DestroyersKept, AfterResult, QueueAfter, IInv, TypeOK
<1>10. \A b \in Apps : DestroyOK(b)'
  <2>1. HeldBackKept BY <1>2, <1>5 DEF HeldBackKept
  <2> QED BY <2>1, <1>2, <1>9, DestroyOKKept
<1>11. QueueOutlivesTasks' BY <1>2, <1>3 DEF QueueInv, QueueOutlivesTasks
<1> QED BY <1>8, <1>10, <1>11 DEF QueueInv

\* No other thread uses the queue, and what is held back for it waits for its own tasks.
LEMMA DestroyQueueKeepsQueue ==
    ASSUME IInv, QueueInv, ~DestroyEarly, NEW a \in Apps, NEW q \in Queues, DestroyQueue(a, q)
    PROVE  QueueInv'
<1>1. /\ Usable(q) /\ ClosesOwnTasks(q)
      /\ apc' = [apc EXCEPT ![a] = "destroy"]
      /\ aqueue' = [aqueue EXCEPT ![a] = q]
      /\ destroying' = [destroying EXCEPT ![a] = TRUE]
      /\ UNCHANGED <<linked, closing, queueState, inflight, taskState, tfile, tqueue, result>>
  BY DEF DestroyQueue, fileVars, queueVars, taskVars
<1>2. Deferred' = Deferred BY <1>1 DEF Deferred
<1>3. \A b \in Apps : b # a => /\ apc'[b] = apc[b] /\ aqueue'[b] = aqueue[b]
                               /\ destroying'[b] = destroying[b]
  BY <1>1 DEF IInv, TypeOK
<1>4. apc'[a] = "destroy" /\ aqueue'[a] = q /\ destroying'[a] BY <1>1 DEF IInv, TypeOK
<1>5. \A b \in Apps : destroying[b] => aqueue[b] # q BY <1>1 DEF Usable
<1>6. ASSUME NEW b \in Apps PROVE DestroyOK(b)'
  <2>1. CASE b = a
    <3>1. ClosesOwnTasks(aqueue[b])' BY <2>1, <1>1, <1>2, <1>4 DEF ClosesOwnTasks
    <3> QED BY <2>1, <3>1, <1>1, <1>3, <1>4, <1>5 DEF DestroyOK, DestroyStates, Usable
  <2>2. CASE b # a
    <3>1. destroying[b] => ClosesOwnTasks(aqueue[b])'
      BY <2>2, <1>1, <1>2, <1>3 DEF QueueInv, DestroyOK, ClosesOwnTasks
    <3> QED BY <2>2, <3>1, <1>1, <1>3, <1>4, <1>5 DEF QueueInv, DestroyOK
  <2> QED BY <2>1, <2>2
<1>7. QueueOutlivesTasks' BY <1>1 DEF QueueInv, QueueOutlivesTasks
<1> QED BY <1>1, <1>2, <1>6, <1>7, CountKept DEF QueueInv

\* The queue that is freed has no task: none is counted, and what is held back for it
\* would wait for a task that is.
LEMMA DestroyFreeKeepsQueue ==
    ASSUME IInv, QueueInv, NEW a \in Apps, DestroyFree(a)
    PROVE  QueueInv'
<1>1. aqueue[a] \in Queues /\ destroying[a]
  BY DEF IInv, AppOK, QueueInv, DestroyOK, DestroyFree
<1> SUFFICES ASSUME NEW q \in Queues, q = aqueue[a] PROVE QueueInv'
  BY <1>1
<1>2. /\ inflight[q] <= 0
      /\ queueState' = [queueState EXCEPT ![q] = "freed"]
      /\ apc' = [apc EXCEPT ![a] = "idle"]
      /\ aqueue' = [aqueue EXCEPT ![a] = NoQueue]
      /\ destroying' = [destroying EXCEPT ![a] = FALSE]
      /\ UNCHANGED <<linked, closing, inflight, taskState, tfile, tqueue, result>>
  BY DEF DestroyFree, NoneInFlight, fileVars, taskVars
<1>3. Deferred' = Deferred BY <1>2 DEF Deferred
<1>4. InFlight(q) = {}
  <2>1. Cardinality(InFlight(q)) <= 0 BY <1>2 DEF QueueInv, CountOK
  <2>2. Cardinality(InFlight(q)) = 0 BY <2>1, InFlightFinite
  <2> QED BY <2>2, InFlightFinite, FS_EmptySet
<1>5. \A t \in Deferred : tqueue[t] # q
  <2> SUFFICES ASSUME NEW t \in Deferred, tqueue[t] = q PROVE FALSE
    OBVIOUS
  <2>1. ClosesOwnTasks(q) BY <1>1 DEF QueueInv, DestroyOK
  <2>2. t \in Tasks /\ tfile[t] \in Files /\ closing[tfile[t]] = t /\ result[t] = "NONE"
        /\ t \notin linked[tfile[t]]
    BY DEF Deferred, IInv, TaskOK
  <2>3. linked[tfile[t]] # {} BY <2>2, NoneAssumption DEF IInv, FileOK
  <2>4. PICK u \in linked[tfile[t]] : TRUE BY <2>3
  <2>5. u \in Tasks /\ taskState[u] = "allocated" /\ tfile[u] = tfile[t]
    BY <2>2, <2>4 DEF IInv, TypeOK, FileOK
  <2>6. tqueue[u] = q BY <2>1, <2>4 DEF ClosesOwnTasks
  <2>7. u \notin Deferred BY <2>4, <2>5 DEF Deferred
  <2> QED BY <2>5, <2>6, <2>7, <1>4 DEF InFlight
<1>6. \A t \in Tasks : taskState[t] = "allocated" => tqueue[t] # q
  BY <1>4, <1>5 DEF InFlight
<1>7. \A r \in Queues : r # q => queueState'[r] = queueState[r] BY <1>2 DEF IInv, TypeOK
<1>8. QueueOutlivesTasks'
  BY <1>2, <1>6, <1>7 DEF QueueInv, QueueOutlivesTasks, IInv, TaskOK
<1>9. \A b \in Apps : b # a => /\ apc'[b] = apc[b] /\ aqueue'[b] = aqueue[b]
                               /\ destroying'[b] = destroying[b]
  BY <1>2 DEF IInv, TypeOK
<1>10. apc'[a] = "idle" /\ ~destroying'[a] BY <1>2 DEF IInv, TypeOK
<1>11. ASSUME NEW b \in Apps PROVE DestroyOK(b)'
  <2>1. CASE b = a BY <2>1, <1>10 DEF DestroyOK
  <2>2. CASE b # a
    <3>1. destroying[b] => aqueue[b] # q BY <2>2, <1>1 DEF QueueInv, DestroyOK
    <3>2. destroying[b] => ClosesOwnTasks(aqueue[b])'
      BY <2>2, <1>2, <1>3, <1>9 DEF QueueInv, DestroyOK, ClosesOwnTasks
    <3> QED BY <3>1, <3>2, <2>2, <1>2, <1>7, <1>9, <1>10 DEF QueueInv, DestroyOK
  <2> QED BY <2>1, <2>2
<1> QED BY <1>2, <1>3, <1>8, <1>11, CountKept DEF QueueInv

LEMMA QuitCancelKeepsQueue ==
    ASSUME IInv, QueueInv, NEW a \in Apps, QuitCancel(a)
    PROVE  QueueInv'
<1>1. PICK t \in poolTasks : /\ result' = [result EXCEPT ![t] = "CANCELED"]
                             /\ CompleteTask(t, tqueue[t], apc)
  BY DEF QuitCancel
<1>2. t \in Tasks /\ tqueue[t] \in Queues /\ t \in linked[tfile[t]]
  BY DEF IInv, TypeOK, PoolOK, TaskOK
<1>3. UNCHANGED <<linked, closing, queueState, inflight, taskState, tfile, tqueue, aqueue, destroying>>
  BY DEF QuitCancel, fileVars
<1>4. \A u \in Tasks : u # t => result'[u] = result[u] BY <1>1 DEF IInv, TypeOK
<1>5. Deferred' = Deferred BY <1>2, <1>3, <1>4, DeferredSame
<1>6. OnlyWoken(apc) BY <1>1, <1>2, SignalEffect DEF CompleteTask, IInv, TypeOK
<1>7. DestroyersKept BY <1>3, <1>6, WokenDestroyers DEF QueueInv, DestroyOK, IInv, TypeOK
<1> QED BY <1>3, <1>5, <1>7, QuietQueue

LEMMA WorkerKeepsQueue ==
    ASSUME IInv, QueueInv, NEW w \in Workers, WorkerContinue(w)
    PROVE  QueueInv'
<1>1. UNCHANGED <<linked, closing, queueState, inflight, taskState, tfile, tqueue, aqueue, destroying>>
  BY DEF WorkerContinue, WorkerLoop, WorkerWake, WorkerShrink, WorkerSeek, WorkerIO, WorkerComplete,
         OnlyPool, fileVars, queueVars, taskVars, appVars
<1>2. Deferred' = Deferred
  <2>1. CASE WorkerIO(w)
    <3>1. wtask[w] \in Tasks /\ wtask[w] \in linked[tfile[wtask[w]]]
      BY <2>1 DEF IInv, WorkerOK, WorkerIO, Working
    <3>2. \A u \in Tasks : u # wtask[w] => result'[u] = result[u]
      BY <2>1 DEF WorkerIO, IInv, TypeOK
    <3> QED BY <3>1, <3>2, <1>1, DeferredSame
  <2>2. CASE UNCHANGED result BY <2>2, <1>1 DEF Deferred
  <2> QED
    BY <2>1, <2>2
    DEF WorkerContinue, WorkerLoop, WorkerWake, WorkerShrink, WorkerSeek, WorkerComplete, OnlyPool,
        taskVars
<1>3. OnlyWoken(apc)
  <2>1. CASE UNCHANGED apc BY <2>1 DEF OnlyWoken, IInv, TypeOK
  <2>2. CASE apc' = WokenQuitter(apc) BY <2>2, QuitterEffect DEF IInv, TypeOK
  <2>3. CASE WorkerComplete(w)
    <3>1. tqueue[wtask[w]] \in Queues
      BY <2>3 DEF IInv, WorkerOK, TaskOK, WorkerComplete, Working
    <3> QED BY <2>3, <3>1, SignalEffect DEF WorkerComplete, CompleteTask, IInv, TypeOK
  <2> QED
    BY <2>1, <2>2, <2>3
    DEF WorkerContinue, WorkerLoop, WorkerWake, WorkerShrink, WorkerSeek, WorkerIO, WorkerTurn,
        WorkerExit, appVars
<1>4. DestroyersKept BY <1>1, <1>3, WokenDestroyers DEF QueueInv, DestroyOK, IInv, TypeOK
<1> QED BY <1>1, <1>2, <1>4, QuietQueue

\* The steps that count, hold back, hand on and free no task.
LEMMA OtherKeepsQueue ==
    ASSUME IInv, QueueInv,
           UNCHANGED <<linked, closing, inflight, taskState, tfile, tqueue, result, destroying>>,
           \A q \in Queues : queueState[q] = "live" => queueState'[q] = "live",
           \A a \in Apps : \/ apc'[a] = apc[a] /\ aqueue'[a] = aqueue[a]
                           \/ /\ apc[a] = "waiting" /\ apc'[a] = "woken" /\ aqueue'[a] = aqueue[a]
                           \/ apc[a] = "free" /\ apc'[a] = "finish" /\ aqueue'[a] = aqueue[a]
                           \/ apc[a] \notin DestroyStates /\ apc'[a] # "destroy"
    PROVE  QueueInv'
<1>1. Deferred' = Deferred BY DEF Deferred
<1>2. DestroyersKept BY DEF QueueInv, DestroyOK, DestroyStates, DestroyersKept
<1> QED BY <1>1, <1>2, QuietQueue

LEMMA QueueStep ==
    ASSUME IInv, QueueInv, ~DestroyEarly, [Next]_vars
    PROVE  QueueInv'
<1>1. ASSUME NEW a \in Apps, AppStep(a) PROVE QueueInv'
  <2>1. ASSUME NEW f \in Files, OpenFile(a, f) PROVE QueueInv'
    BY <2>1, OtherKeepsQueue DEF OpenFile, queueVars, taskVars, appVars
  <2>2. ASSUME NEW q \in Queues, CreateQueue(a, q) PROVE QueueInv'
    BY <2>2, OtherKeepsQueue DEF CreateQueue, IInv, TypeOK, fileVars, taskVars, appVars
  <2>3. ASSUME NEW q \in Queues, GetResult(a, q) PROVE QueueInv'
    <3>1. ~destroying[a] BY <2>3 DEF GetResult, QueueInv, DestroyOK, DestroyStates
    <3>2. aqueue' = [aqueue EXCEPT ![a] = q] /\ Pop(a, q) BY <2>3 DEF GetResult
    <3>3. UNCHANGED <<fileVars, queueState, inflight, taskVars, destroying>> BY <2>3 DEF GetResult
    <3>4. /\ aqueue' \in [Apps -> Queues \cup {NoQueue}]
          /\ \A b \in Apps : b # a => aqueue'[b] = aqueue[b]
      BY <3>2 DEF IInv, TypeOK
    <3> QED BY <3>1, <3>2, <3>3, <3>4, PopKeepsQueue
  <2>4. ASSUME NEW q \in Queues, WaitResult(a, q) PROVE QueueInv'
    BY <2>4, OtherKeepsQueue
    DEF WaitResult, IInv, TypeOK, DestroyStates, fileVars, queueVars, taskVars
  <2>5. CASE WaitTimeout(a)
    BY <2>5, OtherKeepsQueue DEF WaitTimeout, IInv, TypeOK, fileVars, queueVars, taskVars
  <2>6. CASE Quit(a)
    BY <2>6, OtherKeepsQueue
    DEF Quit, IInv, TypeOK, DestroyStates, fileVars, queueVars, taskVars
  <2> QED
    BY <1>1, <2>1, <2>2, <2>3, <2>4, <2>5, <2>6, RequestKeepsQueue, CloseNowKeepsQueue,
       CloseLaterKeepsQueue, DestroyQueueKeepsQueue
    DEF AppStep
<1>2. ASSUME NEW a \in Apps, AppContinue(a) PROVE QueueInv'
  <2>1. CASE OutcomeFree(a)
    BY <2>1, OtherKeepsQueue DEF OutcomeFree, IInv, TypeOK, queueVars, taskVars
  <2>2. CASE QuitStop(a)
    BY <2>2, OtherKeepsQueue
    DEF QuitStop, IInv, TypeOK, DestroyStates, fileVars, queueVars, taskVars
  <2>3. CASE QuitWake(a)
    BY <2>3, OtherKeepsQueue
    DEF QuitWake, IInv, TypeOK, DestroyStates, fileVars, queueVars, taskVars
  <2> QED
    BY <1>2, <2>1, <2>2, <2>3, RequestQueueKeepsQueue, WaitEndKeepsQueue, OutcomeUnlinkKeepsQueue,
       OutcomeFinishKeepsQueue, DestroyConsumeKeepsQueue, DestroyFreeKeepsQueue, QuitCancelKeepsQueue
    DEF AppContinue
<1>3. ASSUME NEW q \in Queues, SignalQueue(q) PROVE QueueInv'
  BY <1>3, OtherKeepsQueue DEF SignalQueue, Sleepers, IInv, TypeOK, fileVars, queueVars, taskVars
<1>4. ASSUME NEW w \in Workers, WorkerTimeout(w) PROVE QueueInv'
  BY <1>4, OtherKeepsQueue DEF WorkerTimeout, fileVars, queueVars, taskVars, appVars
<1>5. ASSUME NEW w \in Workers, WorkerContinue(w) PROVE QueueInv'
  BY <1>5, WorkerKeepsQueue
<1>6. CASE UNCHANGED vars
  BY <1>6, OtherKeepsQueue DEF vars, fileVars, queueVars, taskVars, appVars
<1> QED BY <1>1, <1>2, <1>3, <1>4, <1>5, <1>6 DEF Next

\* SDL_DestroyAsyncIOQueue frees no queue that a task will come back to, whatever other
\* threads do meanwhile and whatever is pending on the queue, closes of its files that are
\* held back included.  Only what the run asyncio_destroy refutes is excluded: a close held
\* back for the queue by a task of another queue.  The loop ends when the count of tasks in
\* flight is zero; the count is that of the tasks that were handed on and not freed, and a
\* close held back for the queue waits for one of these.
THEOREM QueueOutlives ==
    ASSUME ~DestroyEarly
    PROVE  Spec => []QueueOutlivesTasks
<1>1. Init => QueueInv
  <2> SUFFICES ASSUME Init PROVE QueueInv OBVIOUS
  <2>1. ASSUME NEW q \in Queues PROVE CountOK(q)
    <3>1. InFlight(q) = {} BY DEF Init, InFlight
    <3> QED BY <3>1, FS_EmptySet DEF Init, CountOK
  <2>2. \A a \in Apps : DestroyOK(a) BY DEF Init, DestroyOK
  <2>3. QueueOutlivesTasks BY DEF Init, QueueOutlivesTasks
  <2> QED BY <2>1, <2>2, <2>3 DEF QueueInv
<1>2. IInv /\ QueueInv /\ [Next]_vars => QueueInv' BY QueueStep
<1>3. QueueInv => QueueOutlivesTasks BY DEF QueueInv
<1> QED BY <1>1, <1>2, <1>3, Invariance, PTL DEF Spec

-----------------------------------------------------------------------------
(* No result waits for a thread that sleeps.                               *)

WokenOn(q) == {a \in Apps : apc[a] = "woken" /\ aqueue[a] = q}
AwakeOn(q) == Sleepers(apc, q) # {} => Cardinality(WokenOn(q)) >= Cardinality(completed[q])

Waiting == {"waiting", "woken"}

LEMMA WaitersFinite ==
    ASSUME TypeOK, NEW q \in Queues
    PROVE  /\ IsFiniteSet(WokenOn(q)) /\ Cardinality(WokenOn(q)) \in Nat
           /\ IsFiniteSet(completed[q]) /\ Cardinality(completed[q]) \in Nat
<1>1. IsFiniteSet(WokenOn(q)) BY FiniteAssumption, FS_Subset DEF WokenOn
<1>2. IsFiniteSet(completed[q]) BY FiniteAssumption, FS_Subset DEF TypeOK
<1> QED BY <1>1, <1>2, FS_CardinalityType

LEMMA AwakeIsAwakeOn == WaitersAwake <=> \A q \in Queues : AwakeOn(q)
  BY DEF WaitersAwake, AwakeOn, WokenOn

\* No thread falls asleep on the queue, none that is awake for it goes on, and no
\* result is added.
LEMMA AwakeOnKept ==
    ASSUME TypeOK, TypeOK', NEW q \in Queues, AwakeOn(q),
           \A a \in Apps : apc'[a] = "waiting" /\ aqueue'[a] = q => apc[a] = "waiting" /\ aqueue[a] = q,
           \A a \in Apps : apc[a] = "woken" /\ aqueue[a] = q => apc'[a] = "woken" /\ aqueue'[a] = q,
           completed'[q] \subseteq completed[q]
    PROVE  AwakeOn(q)'
<1> SUFFICES ASSUME Sleepers(apc, q)' # {}
             PROVE  Cardinality(WokenOn(q))' >= Cardinality(completed[q])'
  BY DEF AwakeOn
<1>1. Sleepers(apc, q) # {} BY DEF Sleepers
<1>2. IsFiniteSet(WokenOn(q)') BY FiniteAssumption, FS_Subset DEF WokenOn
<1>3. WokenOn(q) \subseteq WokenOn(q)' BY DEF WokenOn
<1>4. Cardinality(WokenOn(q)) <= Cardinality(WokenOn(q)') BY <1>2, <1>3, FS_Subset
<1>5. Cardinality(completed'[q]) <= Cardinality(completed[q]) BY WaitersFinite, FS_Subset
<1>6. Cardinality(WokenOn(q)') \in Nat /\ Cardinality(completed'[q]) \in Nat
  <2>1. IsFiniteSet(completed'[q]) BY FiniteAssumption, FS_Subset DEF TypeOK
  <2> QED BY <2>1, <1>2, FS_CardinalityType
<1> QED BY <1>1, <1>4, <1>5, <1>6, WaitersFinite DEF AwakeOn

\* The threads that wait, or were woken, do so as before, or sleepers woke.
WaitersKept(pcs) ==
    \A a \in Apps : \/ pcs[a] = apc[a] /\ aqueue'[a] = aqueue[a]
                    \/ pcs[a] \notin Waiting /\ apc[a] \notin Waiting

LEMMA QuietAwake ==
    ASSUME TypeOK, TypeOK', WaitersAwake, UNCHANGED completed,
           NEW pcs, WaitersKept(pcs), OnlyWoken(pcs)
    PROVE  WaitersAwake'
<1>1. ASSUME NEW q \in Queues PROVE AwakeOn(q)'
  <2>1. AwakeOn(q) BY AwakeIsAwakeOn
  <2>2. \A a \in Apps : apc'[a] = "waiting" /\ aqueue'[a] = q => apc[a] = "waiting" /\ aqueue[a] = q
    BY DEF WaitersKept, OnlyWoken, Waiting
  <2>3. \A a \in Apps : apc[a] = "woken" /\ aqueue[a] = q => apc'[a] = "woken" /\ aqueue'[a] = q
    BY DEF WaitersKept, OnlyWoken, Waiting
  <2> QED BY <2>1, <2>2, <2>3, AwakeOnKept
<1>2. (\A q \in Queues : AwakeOn(q)') => WaitersAwake' BY DEF WaitersAwake, AwakeOn, WokenOn
<1> QED BY <1>1, <1>2

\* The completed task is one result more; if threads sleep on the queue one of them wakes.
LEMMA CompleteAwake ==
    ASSUME TypeOK, TypeOK', WaitersAwake, NEW t \in Tasks, NEW q \in Queues,
           NEW pcs \in [Apps -> AppStates], CompleteTask(t, q, pcs), WaitersKept(pcs)
    PROVE  WaitersAwake'
<1>1. OnlyWoken(pcs) BY SignalEffect DEF CompleteTask
<1>2. ASSUME NEW r \in Queues, r # q PROVE AwakeOn(r)'
  <2>1. AwakeOn(r) BY AwakeIsAwakeOn
  <2>2. \A a \in Apps : apc'[a] = "waiting" /\ aqueue'[a] = r => apc[a] = "waiting" /\ aqueue[a] = r
    BY <1>1 DEF WaitersKept, OnlyWoken, Waiting
  <2>3. \A a \in Apps : apc[a] = "woken" /\ aqueue[a] = r => apc'[a] = "woken" /\ aqueue'[a] = r
    BY <1>1 DEF WaitersKept, OnlyWoken, Waiting
  <2>4. completed'[r] = completed[r] BY <1>2 DEF CompleteTask, TypeOK
  <2> QED BY <2>1, <2>2, <2>3, <2>4, AwakeOnKept
<1>3. AwakeOn(q)'
  <2>1. CASE Sleepers(pcs, q) = {}
    <3>1. apc' = pcs BY <2>1 DEF CompleteTask, Signalled
    <3>2. Sleepers(apc, q)' = {} BY <2>1, <3>1 DEF Sleepers, WaitersKept, Waiting
    <3> QED BY <3>2 DEF AwakeOn
  <2>2. CASE Sleepers(pcs, q) # {}
    <3>1. PICK s \in Sleepers(pcs, q) : apc' = [pcs EXCEPT ![s] = "woken"]
      BY <2>2 DEF CompleteTask, Signalled
    <3>2. s \in Apps /\ pcs[s] = "waiting" /\ aqueue[s] = q BY DEF Sleepers
    <3>3. apc[s] = "waiting" /\ aqueue'[s] = q BY <3>2 DEF WaitersKept, Waiting
    <3>4. WokenOn(q)' = WokenOn(q) \cup {s} BY <3>1, <3>2, <3>3 DEF WokenOn, WaitersKept, Waiting
    <3>5. s \notin WokenOn(q) BY <3>3 DEF WokenOn
    <3>6. Cardinality(WokenOn(q)') = Cardinality(WokenOn(q)) + 1
      BY <3>4, <3>5, WaitersFinite, FS_AddElement
    <3>7. completed'[q] = completed[q] \cup {t} BY DEF CompleteTask, TypeOK
    <3>8. /\ Cardinality(completed'[q]) <= Cardinality(completed[q]) + 1
          /\ Cardinality(completed'[q]) \in Nat
      <4> DEFINE c == completed[q]
      <4>1. IsFiniteSet(c) /\ Cardinality(c) \in Nat BY WaitersFinite
      <4> HIDE DEF c
      <4>2. Cardinality(c \cup {t}) = IF t \in c THEN Cardinality(c) ELSE Cardinality(c) + 1
        BY <4>1, FS_AddElement
      <4>3. Cardinality(c \cup {t}) <= Cardinality(c) + 1 /\ Cardinality(c \cup {t}) \in Nat
        BY <4>1, <4>2
      <4> QED BY <4>3, <3>7 DEF c
    <3>9. Cardinality(WokenOn(q)) >= Cardinality(completed[q])
      BY <3>2, <3>3, AwakeIsAwakeOn DEF AwakeOn, Sleepers
    <3>10. Cardinality(WokenOn(q)') >= Cardinality(completed'[q])
      BY <3>6, <3>8, <3>9, WaitersFinite
    <3> QED BY <3>10 DEF AwakeOn
  <2> QED BY <2>1, <2>2
<1>4. (\A r \in Queues : AwakeOn(r)') => WaitersAwake' BY DEF WaitersAwake, AwakeOn, WokenOn
<1> QED BY <1>2, <1>3, <1>4

LEMMA QueueTaskAwake ==
    ASSUME TypeOK, TypeOK', WaitersAwake, NEW t \in Tasks, NEW q \in Queues,
           NEW pcs \in [Apps -> AppStates], QueueTask(t, q, pcs), WaitersKept(pcs)
    PROVE  WaitersAwake'
<1>1. CASE CompleteTask(t, q, pcs) BY <1>1, CompleteAwake
<1>2. CASE apc' = WokenQuitter(pcs) /\ UNCHANGED completed BY <1>2, QuitterEffect, QuietAwake
<1> QED BY <1>1, <1>2 DEF QueueTask

\* Whoever takes a result, it was not needed for a sleeper: a thread that was woken has
\* taken its own.
LEMMA PopAwake ==
    ASSUME TypeOK, TypeOK', WaitersAwake, NEW a \in Apps, NEW q \in Queues, Pop(a, q),
           apc[a] # "waiting", apc[a] = "woken" => aqueue[a] = q,
           \A b \in Apps : b # a => aqueue'[b] = aqueue[b]
    PROVE  WaitersAwake'
<1>1. PICK t \in completed[q] : /\ completed' = [completed EXCEPT ![q] = @ \ {t}]
                                /\ apc' = [apc EXCEPT ![a] = "outcome"]
  BY DEF Pop
<1>2. apc'[a] = "outcome" /\ \A b \in Apps : b # a => apc'[b] = apc[b] BY <1>1 DEF TypeOK
<1>3. completed'[q] = completed[q] \ {t} /\ \A r \in Queues : r # q => completed'[r] = completed[r]
  BY <1>1 DEF TypeOK
<1>4. ASSUME NEW r \in Queues PROVE AwakeOn(r)'
  <2>1. AwakeOn(r) BY AwakeIsAwakeOn
  <2>2. \A b \in Apps : apc'[b] = "waiting" /\ aqueue'[b] = r => apc[b] = "waiting" /\ aqueue[b] = r
    BY <1>2
  <2>3. CASE a \notin WokenOn(r)
    <3>1. \A b \in Apps : apc[b] = "woken" /\ aqueue[b] = r => apc'[b] = "woken" /\ aqueue'[b] = r
      BY <2>3, <1>2 DEF WokenOn
    <3>2. completed'[r] \subseteq completed[r] BY <1>3
    <3> QED BY <2>1, <2>2, <3>1, <3>2, AwakeOnKept
  <2>4. CASE a \in WokenOn(r)
    <3>1. r = q BY <2>4 DEF WokenOn
    <3>2. WokenOn(q)' = WokenOn(q) \ {a} BY <1>2 DEF WokenOn
    <3>3. Cardinality(WokenOn(q)') = Cardinality(WokenOn(q)) - 1
      BY <2>4, <3>1, <3>2, WaitersFinite, FS_RemoveElement
    <3>4. Cardinality(completed'[q]) = Cardinality(completed[q]) - 1
      <4> DEFINE c == completed[q]
      <4>1. IsFiniteSet(c) /\ t \in c BY WaitersFinite
      <4> HIDE DEF c
      <4>2. Cardinality(c \ {t}) = Cardinality(c) - 1 BY <4>1, FS_RemoveElement
      <4> QED BY <4>2, <1>3 DEF c
    <3>5. Sleepers(apc, q)' # {} => Sleepers(apc, q) # {} BY <2>2, <3>1 DEF Sleepers
    <3>6. Sleepers(apc, q)' # {} => Cardinality(WokenOn(q)') >= Cardinality(completed'[q])
      BY <2>1, <3>1, <3>3, <3>4, <3>5, WaitersFinite DEF AwakeOn
    <3> QED BY <3>1, <3>6 DEF AwakeOn
  <2> QED BY <2>3, <2>4
<1>5. (\A r \in Queues : AwakeOn(r)') => WaitersAwake' BY DEF WaitersAwake, AwakeOn, WokenOn
<1> QED BY <1>4, <1>5

\* A thread that goes to sleep, or gives up, has seen that there is no result.
LEMMA NoneAwake ==
    ASSUME TypeOK, TypeOK', WaitersAwake, NEW a \in Apps, NEW q \in Queues,
           completed[q] = {}, UNCHANGED completed,
           \A b \in Apps : b # a => apc'[b] = apc[b] /\ aqueue'[b] = aqueue[b],
           apc[a] = "woken" => aqueue[a] = q, apc'[a] = "waiting" => aqueue'[a] = q
    PROVE  WaitersAwake'
<1>1. AwakeOn(q)'
  <2>1. Cardinality(completed'[q]) = 0 BY FS_EmptySet
  <2>2. IsFiniteSet(WokenOn(q)') BY FiniteAssumption, FS_Subset DEF WokenOn
  <2>3. Cardinality(WokenOn(q)') >= 0 BY <2>2, FS_CardinalityType
  <2> QED BY <2>1, <2>3 DEF AwakeOn
<1>2. ASSUME NEW r \in Queues, r # q PROVE AwakeOn(r)'
  <2>1. AwakeOn(r) BY AwakeIsAwakeOn
  <2>2. \A b \in Apps : apc'[b] = "waiting" /\ aqueue'[b] = r => apc[b] = "waiting" /\ aqueue[b] = r
    BY <1>2
  <2>3. \A b \in Apps : apc[b] = "woken" /\ aqueue[b] = r => apc'[b] = "woken" /\ aqueue'[b] = r
    BY <1>2
  <2> QED BY <2>1, <2>2, <2>3, AwakeOnKept
<1>3. (\A r \in Queues : AwakeOn(r)') => WaitersAwake' BY DEF WaitersAwake, AwakeOn, WokenOn
<1> QED BY <1>1, <1>2, <1>3

LEMMA AppStepAwake ==
    ASSUME IInv, TypeOK', WaitersAwake, NEW a \in Apps, AppStep(a)
    PROVE  WaitersAwake'
<1> USE DEF IInv
<1>1. ASSUME NEW f \in Files, OpenFile(a, f) PROVE WaitersAwake'
  BY <1>1, QuietAwake DEF OpenFile, TypeOK, WaitersKept, OnlyWoken, queueVars, appVars
<1>2. ASSUME NEW q \in Queues, CreateQueue(a, q) PROVE WaitersAwake'
  BY <1>2, QuietAwake DEF CreateQueue, TypeOK, WaitersKept, OnlyWoken, appVars
<1>3. ASSUME NEW q \in Queues, GetResult(a, q) PROVE WaitersAwake'
  BY <1>3, PopAwake DEF GetResult, TypeOK
<1>4. ASSUME NEW q \in Queues, WaitResult(a, q) PROVE WaitersAwake'
  BY <1>4, NoneAwake DEF WaitResult, TypeOK, queueVars
<1>5. ASSUME NEW q \in Queues, DestroyQueue(a, q) PROVE WaitersAwake'
  <2>1. WaitersKept(apc') BY <1>5 DEF DestroyQueue, TypeOK, WaitersKept, Waiting
  <2>2. OnlyWoken(apc') BY DEF OnlyWoken, TypeOK
  <2> QED BY <2>1, <2>2, <1>5, QuietAwake DEF DestroyQueue, queueVars
<1>6. ASSUME NEW f \in Files, NEW q \in Queues, NEW t \in Tasks, Request(a, f, q, t)
      PROVE  WaitersAwake'
  <2>1. WaitersKept(apc') BY <1>6 DEF Request, TypeOK, WaitersKept, Waiting
  <2>2. OnlyWoken(apc') BY DEF OnlyWoken, TypeOK
  <2> QED BY <2>1, <2>2, <1>6, QuietAwake DEF Request
<1>7. ASSUME NEW f \in Files, NEW q \in Queues, NEW t \in Tasks, CloseNow(a, f, q, t)
      PROVE  WaitersAwake'
  <2>1. WaitersKept(apc) BY <1>7 DEF CloseNow, WaitersKept
  <2> QED BY <2>1, <1>7, QueueTaskAwake DEF CloseNow, TypeOK
<1>8. ASSUME NEW f \in Files, NEW q \in Queues, NEW t \in Tasks, CloseLater(a, f, q, t)
      PROVE  WaitersAwake'
  BY <1>8, QuietAwake DEF CloseLater, TypeOK, WaitersKept, OnlyWoken, queueVars, appVars
<1>9. CASE WaitTimeout(a)
  <2>1. WaitersKept(apc) BY <1>9 DEF WaitTimeout, WaitersKept
  <2>2. OnlyWoken(apc) BY <1>9 DEF WaitTimeout, OnlyWoken, TypeOK
  <2> QED BY <2>1, <2>2, <1>9, QuietAwake DEF WaitTimeout, queueVars
<1>10. CASE Quit(a)
  <2>1. WaitersKept(apc') BY <1>10 DEF Quit, TypeOK, WaitersKept, Waiting
  <2>2. OnlyWoken(apc') BY DEF OnlyWoken, TypeOK
  <2> QED BY <2>1, <2>2, <1>10, QuietAwake DEF Quit, queueVars
<1> QED BY <1>1, <1>2, <1>3, <1>4, <1>5, <1>6, <1>7, <1>8, <1>9, <1>10 DEF AppStep

LEMMA AppContinueAwake ==
    ASSUME IInv, TypeOK', WaitersAwake, NEW a \in Apps, AppContinue(a)
    PROVE  WaitersAwake'
<1> USE DEF IInv
<1>1. CASE RequestQueue(a)
  <2>1. /\ apc[a] = "queueing" /\ atask[a] \in Tasks /\ aqueue[a] \in Queues
        /\ QueueTask(atask[a], aqueue[a], [apc EXCEPT ![a] = "idle"])
        /\ aqueue' = [aqueue EXCEPT ![a] = NoQueue]
    BY <1>1 DEF RequestQueue, AppOK, TaskOK, Holding
  <2>2. [apc EXCEPT ![a] = "idle"] \in [Apps -> AppStates] BY DEF TypeOK, AppStates
  <2>3. WaitersKept([apc EXCEPT ![a] = "idle"]) BY <2>1 DEF TypeOK, WaitersKept, Waiting
  <2> QED BY <2>1, <2>2, <2>3, QueueTaskAwake
<1>2. CASE WaitEnd(a)
  <2>1. aqueue[a] \in Queues /\ apc[a] = "woken" BY <1>2 DEF AppOK, WaitEnd
  <2>2. CASE Pop(a, aqueue[a]) /\ UNCHANGED aqueue BY <2>1, <2>2, PopAwake
  <2>3. CASE /\ completed[aqueue[a]] = {}
             /\ apc' = [apc EXCEPT ![a] = AfterResult(a)]
             /\ aqueue' = [aqueue EXCEPT ![a] = QueueAfter(a)]
             /\ UNCHANGED <<completed, atask>>
    <3>1. apc'[a] # "waiting" BY <2>3 DEF TypeOK, AfterResult
    <3> QED BY <3>1, <2>1, <2>3, NoneAwake DEF TypeOK
  <2> QED BY <1>2, <2>2, <2>3 DEF WaitEnd
<1>3. CASE OutcomeUnlink(a)
  <2> DEFINE pcs == [apc EXCEPT ![a] = AfterUnlink(atask[a])]
             c == closing[tfile[atask[a]]]
  <2>1. apc[a] = "outcome" /\ atask[a] \in Tasks /\ tfile[atask[a]] \in Files /\ UNCHANGED aqueue
    BY <1>3 DEF OutcomeUnlink, AppOK, TaskOK, Holding
  <2>2. pcs \in [Apps -> AppStates] BY DEF TypeOK, AppStates, AfterUnlink
  <2>3. WaitersKept(pcs) BY <2>1 DEF TypeOK, WaitersKept, Waiting, AfterUnlink
  <2>4. CASE CloseIsDue(atask[a]) /\ QueueTask(c, tqueue[c], pcs)
    <3>1. c \in Tasks /\ tqueue[c] \in Queues
      BY <2>1, <2>4 DEF TypeOK, FileOK, TaskOK, CloseIsDue
    <3> HIDE DEF pcs, c
    <3> QED BY <3>1, <2>2, <2>3, <2>4, QueueTaskAwake
  <2>5. CASE apc' = pcs /\ UNCHANGED completed
    <3> HIDE DEF pcs
    <3>1. OnlyWoken(pcs) BY <2>2, <2>5 DEF OnlyWoken
    <3> QED BY <3>1, <2>3, <2>5, QuietAwake
  <2> QED BY <1>3, <2>4, <2>5 DEF OutcomeUnlink
<1>4. CASE OutcomeFree(a) \/ OutcomeFinish(a) \/ DestroyFree(a) \/ QuitStop(a)
  <2>1. WaitersKept(apc')
    BY <1>4 DEF OutcomeFree, OutcomeFinish, DestroyFree, QuitStop, AfterResult, TypeOK, WaitersKept, Waiting
  <2>2. OnlyWoken(apc') BY DEF OnlyWoken, TypeOK
  <2>3. UNCHANGED completed
    BY <1>4 DEF OutcomeFree, OutcomeFinish, DestroyFree, QuitStop, queueVars
  <2> QED BY <2>1, <2>2, <2>3, QuietAwake
<1>5. CASE DestroyConsume(a)
  <2>1. aqueue[a] \in Queues /\ apc[a] = "destroy" /\ UNCHANGED aqueue
    BY <1>5 DEF AppOK, DestroyConsume
  <2>2. CASE Pop(a, aqueue[a]) BY <2>1, <2>2, PopAwake
  <2>3. CASE /\ completed[aqueue[a]] = {}
             /\ apc' = [apc EXCEPT ![a] = "waiting"]
             /\ UNCHANGED completed
    BY <2>1, <2>3, NoneAwake DEF TypeOK
  <2> QED BY <1>5, <2>2, <2>3 DEF DestroyConsume
<1>6. CASE QuitCancel(a)
  <2>1. PICK t \in poolTasks : CompleteTask(t, tqueue[t], apc) BY <1>6 DEF QuitCancel
  <2>2. t \in Tasks /\ tqueue[t] \in Queues BY DEF TypeOK, PoolOK, TaskOK
  <2>3. WaitersKept(apc) BY <1>6 DEF QuitCancel, WaitersKept
  <2> QED BY <2>1, <2>2, <2>3, CompleteAwake DEF TypeOK
<1>7. CASE QuitWake(a)
  <2>1. WaitersKept(apc') BY <1>7 DEF QuitWake, TypeOK, WaitersKept, Waiting
  <2>2. OnlyWoken(apc') BY DEF OnlyWoken, TypeOK
  <2> QED BY <2>1, <2>2, <1>7, QuietAwake DEF QuitWake, queueVars
<1> QED BY <1>1, <1>2, <1>3, <1>4, <1>5, <1>6, <1>7 DEF AppContinue

LEMMA AwakeStep ==
    ASSUME IInv, IInv', WaitersAwake, [Next]_vars
    PROVE  WaitersAwake'
<1> USE DEF IInv
<1>1. ASSUME NEW q \in Queues, SignalQueue(q) PROVE WaitersAwake'
  <2>1. WaitersKept(apc) BY <1>1 DEF SignalQueue, WaitersKept
  <2>2. OnlyWoken(apc) BY <1>1 DEF SignalQueue, Sleepers, OnlyWoken, TypeOK
  <2> QED BY <2>1, <2>2, <1>1, QuietAwake DEF SignalQueue, queueVars
<1>2. ASSUME NEW w \in Workers, WorkerTimeout(w) PROVE WaitersAwake'
  BY <1>2, QuietAwake DEF WorkerTimeout, TypeOK, WaitersKept, OnlyWoken, queueVars, appVars
<1>3. ASSUME NEW w \in Workers, WorkerContinue(w) PROVE WaitersAwake'
  <2>1. WaitersKept(apc)
    BY <1>3
    DEF WorkerContinue, WorkerLoop, WorkerWake, WorkerShrink, WorkerSeek, WorkerIO, WorkerComplete,
        OnlyPool, WaitersKept, appVars
  <2>2. CASE WorkerComplete(w)
    <3>1. wtask[w] \in Tasks /\ tqueue[wtask[w]] \in Queues
      BY <2>2 DEF WorkerOK, TaskOK, WorkerComplete, Working
    <3> QED BY <2>1, <2>2, <3>1, CompleteAwake DEF WorkerComplete, TypeOK
  <2>3. CASE UNCHANGED <<apc, completed>>
    BY <2>1, <2>3, QuietAwake DEF OnlyWoken, TypeOK
  <2>4. CASE apc' = WokenQuitter(apc) /\ UNCHANGED completed
    BY <2>1, <2>4, QuitterEffect, QuietAwake DEF TypeOK
  <2> QED
    BY <1>3, <2>2, <2>3, <2>4
    DEF WorkerContinue, WorkerLoop, WorkerWake, WorkerShrink, WorkerSeek, WorkerIO, WorkerTurn,
        WorkerExit, OnlyPool, queueVars, appVars
<1>4. CASE UNCHANGED vars
  BY <1>4, QuietAwake DEF vars, TypeOK, WaitersKept, OnlyWoken, queueVars, appVars
<1> QED BY <1>1, <1>2, <1>3, <1>4, AppStepAwake, AppContinueAwake DEF Next

\* One signal per completed task is enough: while threads sleep in
\* SDL_WaitAsyncIOResult, as many others have been woken as there are results to take,
\* although a thread that does not wait may take a result first and a thread may wake
\* without a signal.
THEOREM NoResultWaits == Spec => []WaitersAwake
<1>1. Init => WaitersAwake BY DEF Init, WaitersAwake, Sleepers
<1>2. IInv /\ IInv' /\ WaitersAwake /\ [Next]_vars => WaitersAwake' BY AwakeStep
<1> QED BY <1>1, <1>2, Invariance, PTL DEF Spec


-----------------------------------------------------------------------------
(* The front end and the thread pool keep the contract with the app: every  *)
(* step of AsyncIO is a step of AsyncIOContract, or changes nothing of what *)
(* the contract speaks of.                                                  *)

\* What the contract sees of the tasks.
StatusOf == [t \in Tasks |-> Status(t)]

\* Whether a task's result was not consumed.
IsPending(t) == t \in Pending[tfile[t]]

LEMMA PendingOf ==
    ASSUME NEW f \in Files, NEW t
    PROVE  t \in Pending[f] <=> t \in linked[f] \/ (t \in Deferred /\ tfile[t] = f)
  BY DEF Pending

LEMMA PendingWillBe ==
    ASSUME NEW f \in Files, NEW t
    PROVE  t \in Pending'[f] <=> t \in linked'[f] \/ (t \in Deferred' /\ tfile'[t] = f)
  BY DEF Pending

\* A file's requests after a step that adds one to them, or takes one away.
LEMMA PendingGrows ==
    ASSUME NEW g \in Files, NEW t,
           \A f \in Files : \A u : u \in Pending'[f] <=> u \in Pending[f] \/ (f = g /\ u = t)
    PROVE  Pending' = [Pending EXCEPT ![g] = @ \cup {t}]
<1>1. \A f \in Files : Pending'[f] = IF f = g THEN Pending[f] \cup {t} ELSE Pending[f] OBVIOUS
<1>2. Pending = [f \in Files |-> Pending[f]] /\ Pending' = [f \in Files |-> Pending'[f]]
  BY DEF Pending
<1> QED BY <1>1, <1>2

LEMMA PendingShrinks ==
    ASSUME NEW g \in Files, NEW t,
           \A f \in Files : \A u : u \in Pending'[f] <=> u \in Pending[f] /\ ~(f = g /\ u = t)
    PROVE  Pending' = [Pending EXCEPT ![g] = @ \ {t}]
<1>1. \A f \in Files : Pending'[f] = IF f = g THEN Pending[f] \ {t} ELSE Pending[f] OBVIOUS
<1>2. Pending = [f \in Files |-> Pending[f]] /\ Pending' = [f \in Files |-> Pending'[f]]
  BY DEF Pending
<1> QED BY <1>1, <1>2

\* The requests of a file are its own, and are not freed.
LEMMA PendingOK ==
    ASSUME IInv, NEW f \in Files, NEW t \in Pending[f]
    PROVE  t \in Tasks /\ tfile[t] = f /\ taskState[t] = "allocated"
<1>1. CASE t \in linked[f] BY <1>1 DEF IInv, TypeOK, FileOK
<1>2. CASE t \in Deferred /\ tfile[t] = f BY <1>2 DEF Deferred
<1> QED BY <1>1, <1>2, PendingOf

LEMMA StatusIs ==
    ASSUME NEW t \in Tasks
    PROVE  /\ taskState[t] = "unused" => Status(t) = "unused"
           /\ taskState[t] # "unused" /\ ~IsPending(t) => Status(t) = "consumed"
           /\ taskState[t] # "unused" /\ IsPending(t) /\ result[t] = "NONE" => Status(t) = "submitted"
           /\ taskState[t] # "unused" /\ IsPending(t) /\ result[t] # "NONE" => Status(t) = "finished"
  BY DEF Status, IsPending

LEMMA StatusWillBe ==
    ASSUME NEW t \in Tasks
    PROVE  /\ taskState'[t] = "unused" => Status(t)' = "unused"
           /\ taskState'[t] # "unused" /\ ~IsPending(t)' => Status(t)' = "consumed"
           /\ taskState'[t] # "unused" /\ IsPending(t)' /\ result'[t] = "NONE" => Status(t)' = "submitted"
           /\ taskState'[t] # "unused" /\ IsPending(t)' /\ result'[t] # "NONE" => Status(t)' = "finished"
  BY DEF Status, IsPending

\* A task that a step leaves alone has the status it had.
LEMMA StatusKept ==
    ASSUME NEW t \in Tasks,
           taskState'[t] = "unused" <=> taskState[t] = "unused",
           result'[t] = "NONE" <=> result[t] = "NONE",
           IsPending(t)' <=> IsPending(t)
    PROVE  Status(t)' = Status(t)
  BY StatusIs, StatusWillBe

LEMMA StatusChanges ==
    ASSUME NEW t \in Tasks, \A u \in Tasks : u # t => Status(u)' = Status(u)
    PROVE  StatusOf' = [StatusOf EXCEPT ![t] = Status(t)']
  BY DEF StatusOf

LEMMA StatusChangesTwo ==
    ASSUME NEW t \in Tasks, NEW c \in Tasks, t # c,
           \A u \in Tasks : u # t /\ u # c => Status(u)' = Status(u)
    PROVE  StatusOf' = [StatusOf EXCEPT ![t] = Status(t)', ![c] = Status(c)']
  BY DEF StatusOf

LEMMA StreamKept ==
    ASSUME \A f \in Files : fileState'[f] = "none" <=> fileState[f] = "none", UNCHANGED ioOpen
    PROVE  Stream' = Stream
<1>1. \A f \in Files : (IF fileState'[f] = "none" THEN "none" ELSE IF ioOpen'[f] THEN "open" ELSE "closed")
                       = (IF fileState[f] = "none" THEN "none" ELSE IF ioOpen[f] THEN "open" ELSE "closed")
  OBVIOUS
<1> QED BY <1>1 DEF Stream

\* The steps that the contract does not see.
LEMMA Unseen ==
    ASSUME UNCHANGED <<fileState, ioOpen, linked, closing, taskState, tfile, result>>
    PROVE  UNCHANGED Contract!vars
<1>1. Deferred' = Deferred BY DEF Deferred
<1>2. Pending' = Pending BY <1>1 DEF Pending
<1>3. Stream' = Stream BY DEF Stream
<1>4. \A t \in Tasks : Status(t)' = Status(t) BY <1>2 DEF Status
<1> QED BY <1>2, <1>3, <1>4 DEF Contract!vars

LEMMA InitKept == Init => Contract!Init
<1> SUFFICES ASSUME Init PROVE Contract!Init OBVIOUS
<1>1. Deferred = {} BY DEF Init, Deferred
<1>2. Pending = [f \in Files |-> {}] BY <1>1 DEF Init, Pending
<1>3. Stream = [f \in Files |-> "none"] BY DEF Init, Stream
<1>4. \A t \in Tasks : Status(t) = "unused" BY StatusIs DEF Init
<1> QED BY <1>2, <1>3, <1>4 DEF Contract!Init, Init

-----------------------------------------------------------------------------
(* The steps it sees, one lemma for each action.                           *)

LEMMA OpenFileKept ==
    ASSUME IInv, NEW a \in Apps, NEW g \in Files, OpenFile(a, g)
    PROVE  Contract!Open(g) \/ UNCHANGED Contract!vars
<1>1. /\ fileState[g] = "none"
      /\ UNCHANGED <<linked, closing, taskState, tfile, result>>
  BY DEF OpenFile, taskVars
<1>2. CASE UNCHANGED <<fileState, ioOpen>> BY <1>1, <1>2, Unseen
<1>3. CASE /\ fileState' = [fileState EXCEPT ![g] = "open"]
           /\ ioOpen' = [ioOpen EXCEPT ![g] = TRUE]
  <2>1. Deferred' = Deferred BY <1>1 DEF Deferred
  <2>2. Pending' = Pending BY <1>1, <2>1 DEF Pending
  <2>3. \A t \in Tasks : Status(t)' = Status(t) BY <1>1, <2>2 DEF Status
  <2>4. /\ fileState'[g] = "open" /\ ioOpen'[g]
        /\ \A f \in Files : f # g => fileState'[f] = fileState[f] /\ ioOpen'[f] = ioOpen[f]
    BY <1>3 DEF IInv, TypeOK
  <2>5. Stream' = [Stream EXCEPT ![g] = "open"] BY <2>4 DEF Stream
  <2>6. Stream[g] = "none" BY <1>1 DEF Stream
  <2>7. UNCHANGED [t \in Tasks |-> Status(t)] BY <2>3
  <2> QED BY <2>2, <2>5, <2>6, <2>7, <1>1 DEF Contract!Open
<1> QED BY <1>2, <1>3 DEF OpenFile

LEMMA RequestKept ==
    ASSUME IInv, NEW a \in Apps, NEW g \in Files, NEW q \in Queues, NEW t \in Tasks,
           Request(a, g, q, t)
    PROVE  Contract!Submit(g, t)
<1>1. /\ fileState[g] = "open" /\ closing[g] = NoTask /\ taskState[t] = "unused"
      /\ taskState' = [taskState EXCEPT ![t] = "allocated"]
      /\ tfile' = [tfile EXCEPT ![t] = g]
      /\ linked' = [linked EXCEPT ![g] = @ \cup {t}]
      /\ UNCHANGED <<fileState, ioOpen, closing, result>>
  BY DEF Request, Accepts, NewTask
<1>2. result[t] = "NONE" /\ \A f \in Files : t \notin linked[f]
  BY <1>1, UnusedIsFree
<1>3. /\ taskState'[t] = "allocated" /\ tfile'[t] = g
      /\ \A u \in Tasks : u # t => taskState'[u] = taskState[u] /\ tfile'[u] = tfile[u]
      /\ \A f \in Files : linked'[f] = IF f = g THEN linked[f] \cup {t} ELSE linked[f]
  BY <1>1 DEF IInv, TypeOK
<1>4. t \notin Deferred' /\ t \notin Deferred
  BY <1>1, <1>3, NoneAssumption DEF Deferred
<1>5. ASSUME NEW u, u # t
      PROVE  /\ u \in Deferred' <=> u \in Deferred
             /\ u \in Deferred => tfile'[u] = tfile[u]
  BY <1>1, <1>3, <1>5 DEF IInv, TaskOK, Deferred
<1>6. ASSUME NEW f \in Files, NEW u
      PROVE  u \in Pending'[f] <=> u \in Pending[f] \/ (f = g /\ u = t)
  <2>1. u \in Pending[f] <=> u \in linked[f] \/ (u \in Deferred /\ tfile[u] = f) BY PendingOf
  <2>2. u \in Pending'[f] <=> u \in linked'[f] \/ (u \in Deferred' /\ tfile'[u] = f)
    BY PendingWillBe
  <2>3. CASE u = t BY <2>1, <2>2, <2>3, <1>2, <1>3, <1>4
  <2>4. CASE u # t BY ZenonT(60), <2>1, <2>2, <2>4, <1>3, <1>5
  <2> QED BY <2>3, <2>4
<1>7. Pending' = [Pending EXCEPT ![g] = @ \cup {t}] BY <1>6, PendingGrows
<1>8. ASSUME NEW u \in Tasks, u # t PROVE Status(u)' = Status(u)
  <2>1. CASE taskState[u] = "unused" BY <2>1, <1>3, <1>8, StatusIs, StatusWillBe
  <2>2. CASE taskState[u] # "unused"
    <3>1. IsPending(u)' <=> IsPending(u)
      BY <2>2, <1>3, <1>6, <1>8 DEF IsPending, IInv, TaskOK
    <3> QED BY <3>1, <1>1, <1>3, <1>8, StatusKept
  <2> QED BY <2>1, <2>2
<1>9. Status(t)' = "submitted" /\ Status(t) = "unused"
  <2>1. IsPending(t)' BY <1>3, <1>6 DEF IsPending
  <2> QED BY <2>1, <1>1, <1>2, <1>3, StatusIs, StatusWillBe
<1>10. StatusOf' = [StatusOf EXCEPT ![t] = "submitted"] BY <1>8, <1>9, StatusChanges
<1>11. Stream[g] = "open" /\ Stream' = Stream
  BY <1>1 DEF Stream, IInv, FileOK
<1>12. StatusOf[t] = "unused" BY <1>9 DEF StatusOf
<1> QED BY <1>1, <1>7, <1>10, <1>11, <1>12 DEF Contract!Submit, StatusOf

\* A file that is not closing holds no close back.
LEMMA NoneHeldBack ==
    ASSUME NEW g \in Files, closing[g] = NoTask
    PROVE  \A u \in Deferred : tfile[u] # g
  BY NoneAssumption DEF Deferred

LEMMA CloseNowKept ==
    ASSUME IInv, NEW a \in Apps, NEW g \in Files, NEW q \in Queues, NEW t \in Tasks,
           CloseNow(a, g, q, t)
    PROVE  Contract!SubmitClose(g, t)
<1>1. /\ fileState[g] = "open" /\ closing[g] = NoTask /\ linked[g] = {} /\ taskState[t] = "unused"
      /\ QueueTask(t, q, apc)
      /\ taskState' = [taskState EXCEPT ![t] = "allocated"]
      /\ tfile' = [tfile EXCEPT ![t] = g]
      /\ closing' = [closing EXCEPT ![g] = t]
      /\ linked' = [linked EXCEPT ![g] = {t}]
      /\ UNCHANGED <<fileState, ioOpen>>
  BY DEF CloseNow, Accepts, NewTask
<1>2. result[t] = "NONE" /\ \A f \in Files : t \notin linked[f]
  BY <1>1, UnusedIsFree
<1>3. Listed(t) \/ Canceled(t, q) BY <1>1, QueueEffect DEF IInv, TypeOK
<1>4. \A u \in Tasks : u # t => result'[u] = result[u]
  BY <1>3 DEF Listed, Canceled, IInv, TypeOK
<1>5. /\ taskState'[t] = "allocated" /\ tfile'[t] = g /\ closing'[g] = t
      /\ \A u \in Tasks : u # t => taskState'[u] = taskState[u] /\ tfile'[u] = tfile[u]
      /\ \A f \in Files : linked'[f] = IF f = g THEN {t} ELSE linked[f]
      /\ \A f \in Files : f # g => closing'[f] = closing[f]
  BY <1>1 DEF IInv, TypeOK
<1>6. t \notin Deferred' /\ t \notin Deferred BY <1>1, <1>5 DEF Deferred
<1>7. ASSUME NEW u, u # t
      PROVE  /\ u \in Deferred' <=> u \in Deferred
             /\ u \in Deferred => tfile'[u] = tfile[u]
  <2>1. u \in Deferred => tfile[u] # g BY <1>1, NoneHeldBack
  <2> QED BY <2>1, <1>1, <1>4, <1>5, <1>7 DEF IInv, TaskOK, Deferred
<1>8. ASSUME NEW f \in Files, NEW u
      PROVE  u \in Pending'[f] <=> u \in Pending[f] \/ (f = g /\ u = t)
  <2>1. u \in Pending[f] <=> u \in linked[f] \/ (u \in Deferred /\ tfile[u] = f) BY PendingOf
  <2>2. u \in Pending'[f] <=> u \in linked'[f] \/ (u \in Deferred' /\ tfile'[u] = f)
    BY PendingWillBe
  <2>3. CASE u = t BY <2>1, <2>2, <2>3, <1>2, <1>5, <1>6
  <2>4. CASE u # t BY <2>1, <2>2, <2>4, <1>1, <1>5, <1>7
  <2> QED BY <2>3, <2>4
<1>9. Pending' = [Pending EXCEPT ![g] = @ \cup {t}] BY <1>8, PendingGrows
<1>10. Pending[g] = {} BY <1>1, NoneHeldBack, PendingOf
<1>11. ASSUME NEW u \in Tasks, u # t PROVE Status(u)' = Status(u)
  <2>1. CASE taskState[u] = "unused" BY <2>1, <1>5, <1>11, StatusIs, StatusWillBe
  <2>2. CASE taskState[u] # "unused"
    <3>1. IsPending(u)' <=> IsPending(u)
      BY <2>2, <1>5, <1>8, <1>11 DEF IsPending, IInv, TaskOK
    <3> QED BY <3>1, <1>4, <1>5, <1>11, StatusKept
  <2> QED BY <2>1, <2>2
<1>12. Status(t)' \in {"submitted", "finished"} /\ Status(t) = "unused"
  <2>1. IsPending(t)' BY <1>5, <1>8 DEF IsPending
  <2> QED BY <2>1, <1>1, <1>5, StatusIs, StatusWillBe
<1>13. StatusOf' = [StatusOf EXCEPT ![t] = Status(t)'] BY <1>11, StatusChanges
<1>14. Stream[g] = "open" /\ Stream' = Stream
  BY <1>1 DEF Stream, IInv, FileOK
<1>15. StatusOf[t] = "unused" BY <1>12 DEF StatusOf
<1>16. \E s \in IF Pending[g] = {} THEN {"submitted", "finished"} ELSE {"submitted"} :
          StatusOf' = [StatusOf EXCEPT ![t] = s]
  BY <1>10, <1>12, <1>13
<1> QED BY <1>1, <1>9, <1>14, <1>15, <1>16 DEF Contract!SubmitClose, StatusOf

LEMMA CloseLaterKept ==
    ASSUME IInv, NEW a \in Apps, NEW g \in Files, NEW q \in Queues, NEW t \in Tasks,
           CloseLater(a, g, q, t)
    PROVE  Contract!SubmitClose(g, t)
<1>1. /\ fileState[g] = "open" /\ closing[g] = NoTask /\ taskState[t] = "unused"
      /\ taskState' = [taskState EXCEPT ![t] = "allocated"]
      /\ tfile' = [tfile EXCEPT ![t] = g]
      /\ closing' = [closing EXCEPT ![g] = t]
      /\ UNCHANGED <<fileState, ioOpen, linked, result>>
  BY DEF CloseLater, Accepts, NewTask
<1>2. result[t] = "NONE" /\ \A f \in Files : t \notin linked[f]
  BY <1>1, UnusedIsFree
<1>3. /\ taskState'[t] = "allocated" /\ tfile'[t] = g /\ closing'[g] = t
      /\ \A u \in Tasks : u # t => taskState'[u] = taskState[u] /\ tfile'[u] = tfile[u]
      /\ \A f \in Files : f # g => closing'[f] = closing[f]
  BY <1>1 DEF IInv, TypeOK
<1>4. t \in Deferred' /\ t \notin Deferred BY <1>1, <1>2, <1>3 DEF Deferred
<1>5. ASSUME NEW u, u # t
      PROVE  /\ u \in Deferred' <=> u \in Deferred
             /\ u \in Deferred => tfile'[u] = tfile[u]
  <2>1. u \in Deferred => tfile[u] # g BY <1>1, NoneHeldBack
  <2> QED BY <2>1, <1>1, <1>3, <1>5 DEF IInv, TaskOK, Deferred
<1>6. ASSUME NEW f \in Files, NEW u
      PROVE  u \in Pending'[f] <=> u \in Pending[f] \/ (f = g /\ u = t)
  <2>1. u \in Pending[f] <=> u \in linked[f] \/ (u \in Deferred /\ tfile[u] = f) BY PendingOf
  <2>2. u \in Pending'[f] <=> u \in linked'[f] \/ (u \in Deferred' /\ tfile'[u] = f)
    BY PendingWillBe
  <2>3. CASE u = t BY <2>1, <2>2, <2>3, <1>1, <1>2, <1>3, <1>4
  <2>4. CASE u # t BY <2>1, <2>2, <2>4, <1>1, <1>5
  <2> QED BY <2>3, <2>4
<1>7. Pending' = [Pending EXCEPT ![g] = @ \cup {t}] BY <1>6, PendingGrows
<1>8. ASSUME NEW u \in Tasks, u # t PROVE Status(u)' = Status(u)
  <2>1. CASE taskState[u] = "unused" BY <2>1, <1>3, <1>8, StatusIs, StatusWillBe
  <2>2. CASE taskState[u] # "unused"
    <3>1. IsPending(u)' <=> IsPending(u)
      BY <2>2, <1>3, <1>6, <1>8 DEF IsPending, IInv, TaskOK
    <3> QED BY <3>1, <1>1, <1>3, <1>8, StatusKept
  <2> QED BY <2>1, <2>2
<1>9. Status(t)' = "submitted" /\ Status(t) = "unused"
  <2>1. IsPending(t)' BY <1>3, <1>6 DEF IsPending
  <2> QED BY <2>1, <1>1, <1>2, <1>3, StatusIs, StatusWillBe
<1>10. StatusOf' = [StatusOf EXCEPT ![t] = "submitted"] BY <1>8, <1>9, StatusChanges
<1>11. Stream[g] = "open" /\ Stream' = Stream
  BY <1>1 DEF Stream, IInv, FileOK
<1>12. StatusOf[t] = "unused" BY <1>9 DEF StatusOf
<1>13. \E s \in IF Pending[g] = {} THEN {"submitted", "finished"} ELSE {"submitted"} :
          StatusOf' = [StatusOf EXCEPT ![t] = s]
  BY <1>10
<1> QED BY <1>1, <1>7, <1>11, <1>12, <1>13 DEF Contract!SubmitClose, StatusOf

\* The close task is the only request of its file when it is linked.
LEMMA CloseIsAlone ==
    ASSUME IInv, NEW g \in Files, closing[g] \in linked[g]
    PROVE  Pending[g] = {closing[g]}
<1>1. linked[g] = {closing[g]}
  BY NoneAssumption DEF IInv, TypeOK, FileOK
<1>2. \A u \in Deferred : tfile[u] # g BY DEF Deferred
<1> QED BY <1>1, <1>2, PendingOf

\* A linked task gets its outcome: nothing else of the file changes.
LEMMA OutcomeGiven ==
    ASSUME IInv, NEW t \in Tasks, t \in linked[tfile[t]], tfile[t] \in Files,
           taskState[t] = "allocated", result[t] = "NONE", result'[t] # "NONE",
           \A u \in Tasks : u # t => result'[u] = result[u],
           UNCHANGED <<linked, closing, taskState, tfile>>
    PROVE  /\ t \in Pending[tfile[t]] /\ StatusOf[t] = "submitted"
           /\ Pending' = Pending
           /\ StatusOf' = [StatusOf EXCEPT ![t] = "finished"]
           /\ t = closing[tfile[t]] => Pending[tfile[t]] = {t}
<1>1. ASSUME NEW u PROVE u \in Deferred' <=> u \in Deferred BY DEF Deferred
<1>2. Deferred' = Deferred BY <1>1
<1>3. Pending' = Pending BY <1>2 DEF Pending
<1>4. t \in Pending[tfile[t]] BY PendingOf
<1>5. \A u \in Tasks : u # t => Status(u)' = Status(u) BY <1>3, StatusKept DEF IsPending
<1>6. Status(t)' = "finished" /\ Status(t) = "submitted"
  BY <1>3, <1>4, StatusIs, StatusWillBe DEF IsPending
<1>7. StatusOf' = [StatusOf EXCEPT ![t] = "finished"] BY <1>5, <1>6, StatusChanges
<1>8. t = closing[tfile[t]] => Pending[tfile[t]] = {t} BY CloseIsAlone
<1> QED BY <1>3, <1>4, <1>6, <1>7, <1>8 DEF StatusOf

LEMMA FinishKept ==
    ASSUME IInv, NEW t \in Tasks, t \in linked[tfile[t]], tfile[t] \in Files,
           taskState[t] = "allocated", result[t] = "NONE", result'[t] # "NONE",
           \A u \in Tasks : u # t => result'[u] = result[u],
           UNCHANGED <<fileState, ioOpen, linked, closing, taskState, tfile>>
    PROVE  Contract!Finish(tfile[t], t)
<1>1. Stream' = Stream BY StreamKept
<1> QED BY <1>1, OutcomeGiven DEF Contract!Finish, StatusOf

LEMMA RequestQueueKept ==
    ASSUME IInv, NEW a \in Apps, RequestQueue(a)
    PROVE  Contract!Next \/ UNCHANGED Contract!vars
<1>1. /\ atask[a] \in Tasks /\ aqueue[a] \in Queues /\ tfile[atask[a]] \in Files
      /\ atask[a] \in linked[tfile[atask[a]]] /\ taskState[atask[a]] = "allocated"
      /\ result[atask[a]] = "NONE"
  BY DEF RequestQueue, IInv, AppOK, TaskOK, Holding
<1> SUFFICES ASSUME NEW t \in Tasks, t = atask[a], NEW q \in Queues, q = aqueue[a],
                    NEW pcs \in [Apps -> AppStates], pcs = [apc EXCEPT ![a] = "idle"]
             PROVE  Contract!Next \/ UNCHANGED Contract!vars
  <2>1. [apc EXCEPT ![a] = "idle"] \in [Apps -> AppStates] BY DEF IInv, TypeOK, AppStates
  <2> QED BY <1>1, <2>1
<1>2. /\ QueueTask(t, q, pcs)
      /\ UNCHANGED <<fileState, ioOpen, linked, closing, taskState, tfile>>
  BY DEF RequestQueue, fileVars
<1>3. Listed(t) \/ Canceled(t, q) BY <1>2, QueueEffect DEF IInv
<1>4. CASE Listed(t) BY <1>2, <1>4, Unseen DEF Listed
<1>5. CASE Canceled(t, q)
  <2>1. result'[t] # "NONE" /\ \A u \in Tasks : u # t => result'[u] = result[u]
    BY <1>5 DEF Canceled, IInv, TypeOK
  <2>2. Contract!Finish(tfile[t], t) BY <2>1, <1>1, <1>2, FinishKept
  <2> QED BY <2>2, <1>1 DEF Contract!Next
<1> QED BY <1>3, <1>4, <1>5

LEMMA QuitCancelKept ==
    ASSUME IInv, NEW a \in Apps, QuitCancel(a)
    PROVE  Contract!Next
<1>1. PICK t \in poolTasks : result' = [result EXCEPT ![t] = "CANCELED"] BY DEF QuitCancel
<1>2. /\ t \in Tasks /\ tfile[t] \in Files /\ t \in linked[tfile[t]]
      /\ taskState[t] = "allocated" /\ result[t] = "NONE"
  BY DEF IInv, TypeOK, PoolOK, TaskOK
<1>3. UNCHANGED <<fileState, ioOpen, linked, closing, taskState, tfile>>
  BY DEF QuitCancel, fileVars
<1>4. result'[t] # "NONE" /\ \A u \in Tasks : u # t => result'[u] = result[u]
  BY <1>1, <1>2 DEF IInv, TypeOK
<1>5. Contract!Finish(tfile[t], t) BY <1>2, <1>3, <1>4, FinishKept
<1> QED BY <1>2, <1>5 DEF Contract!Next

LEMMA WorkerIOKept ==
    ASSUME IInv, NEW w \in Workers, WorkerIO(w)
    PROVE  Contract!Next
<1>1. /\ wtask[w] \in Tasks /\ tfile[wtask[w]] \in Files /\ result[wtask[w]] = "NONE"
      /\ taskState[wtask[w]] = "allocated" /\ wtask[w] \in linked[tfile[wtask[w]]]
      /\ kind[wtask[w]] = "CLOSE" <=> closing[tfile[wtask[w]]] = wtask[w]
  BY DEF IInv, WorkerOK, TaskOK, WorkerIO, Working
<1> SUFFICES ASSUME NEW t \in Tasks, t = wtask[w], NEW g \in Files, g = tfile[t]
             PROVE  Contract!Next
  BY <1>1
<1>2. /\ ioOpen' = [ioOpen EXCEPT ![g] = @ /\ kind[t] # "CLOSE"]
      /\ UNCHANGED <<fileState, linked, closing, taskState, tfile>>
  BY DEF WorkerIO
<1>3. result'[t] # "NONE" /\ \A u \in Tasks : u # t => result'[u] = result[u]
  BY <1>1 DEF WorkerIO, Outcomes, IInv, TypeOK
<1>4. CASE kind[t] = "CLOSE"
  <2>1. ioOpen' = [ioOpen EXCEPT ![g] = FALSE] BY <1>2, <1>4
  <2>2. ~ioOpen'[g] /\ \A f \in Files : f # g => ioOpen'[f] = ioOpen[f]
    BY <2>1 DEF IInv, TypeOK
  <2>3. fileState[g] # "none" BY <1>1 DEF IInv, FileOK
  <2>4. Stream' = [Stream EXCEPT ![g] = "closed"] BY <2>2, <2>3, <1>2 DEF Stream
  <2>5. t = closing[g] BY <1>1, <1>4
  <2>6. Contract!FinishClose(g, t)
    BY <2>4, <2>5, <1>1, <1>2, <1>3, OutcomeGiven DEF Contract!FinishClose, StatusOf
  <2> QED BY <2>6 DEF Contract!Next
<1>5. CASE kind[t] # "CLOSE"
  <2>1. ioOpen' = ioOpen
    <3>1. ioOpen \in [Files -> BOOLEAN] BY DEF IInv, TypeOK
    <3>2. (ioOpen[g] /\ kind[t] # "CLOSE") = ioOpen[g] BY <3>1, <1>5
    <3> QED BY <3>1, <3>2, <1>2
  <2>2. Contract!Finish(g, t) BY <2>1, <1>1, <1>2, <1>3, FinishKept
  <2> QED BY <2>2 DEF Contract!Next
<1> QED BY <1>4, <1>5

\* A result is consumed when the task is unlinked.  If the close of the file is all that
\* is left it is handed on in the same step, and may be canceled there.
LEMMA OutcomeUnlinkKept ==
    ASSUME IInv, NEW a \in Apps, OutcomeUnlink(a)
    PROVE  Contract!Next
<1>1. /\ atask[a] \in Tasks /\ atask[a] \in linked[tfile[atask[a]]]
      /\ result[atask[a]] # "NONE" /\ taskState[atask[a]] = "allocated"
      /\ tfile[atask[a]] \in Files
  BY DEF IInv, AppOK, TaskOK, Holding, OutcomeUnlink
<1> SUFFICES ASSUME NEW t \in Tasks, t = atask[a], NEW g \in Files, g = tfile[t],
                    NEW pcs \in [Apps -> AppStates], pcs = [apc EXCEPT ![a] = AfterUnlink(t)]
             PROVE  Contract!Next
  <2>1. AfterUnlink(atask[a]) \in AppStates BY DEF AfterUnlink, AppStates
  <2>2. [apc EXCEPT ![a] = AfterUnlink(atask[a])] \in [Apps -> AppStates]
    BY <2>1 DEF IInv, TypeOK
  <2> QED BY <1>1, <2>2
<1>2. UNCHANGED <<fileState, ioOpen, closing, taskState, tfile, tqueue>> BY DEF OutcomeUnlink
<1>3. Stream' = Stream BY <1>2, StreamKept
<1>4. t \in Pending[g] /\ Status(t) = "finished" /\ StatusOf[t] = "finished"
  <2>1. t \in Pending[g] BY <1>1, PendingOf
  <2> QED BY <2>1, <1>1, StatusIs DEF IsPending, StatusOf
<1>5. CASE /\ linked' = [linked EXCEPT ![g] = @ \ {t}]
           /\ UNCHANGED result
  <2>1. \A f \in Files : linked'[f] = IF f = g THEN linked[f] \ {t} ELSE linked[f]
    BY <1>5 DEF IInv, TypeOK
  <2>2. ASSUME NEW u PROVE u \in Deferred' <=> u \in Deferred
    BY <2>1, <1>1, <1>2, <1>5 DEF IInv, TaskOK, Deferred
  <2>3. t \notin Deferred BY <1>1 DEF Deferred
  <2>4. ASSUME NEW f \in Files, NEW u
        PROVE  u \in Pending'[f] <=> u \in Pending[f] /\ ~(f = g /\ u = t)
    <3>1. u \in Pending[f] <=> u \in linked[f] \/ (u \in Deferred /\ tfile[u] = f) BY PendingOf
    <3>2. u \in Pending'[f] <=> u \in linked'[f] \/ (u \in Deferred' /\ tfile'[u] = f)
      BY PendingWillBe
    <3> QED BY ZenonT(60), <3>1, <3>2, <2>1, <2>2, <2>3, <1>2
  <2>5. Pending' = [Pending EXCEPT ![g] = @ \ {t}] BY <2>4, PendingShrinks
  <2>6. ASSUME NEW u \in Tasks, u # t PROVE Status(u)' = Status(u)
    <3>1. CASE taskState[u] = "unused" BY <3>1, <1>2, StatusIs, StatusWillBe
    <3>2. CASE taskState[u] # "unused"
      <4>1. IsPending(u)' <=> IsPending(u)
        BY <3>2, <1>2, <2>4, <2>6 DEF IsPending, IInv, TaskOK
      <4> QED BY <4>1, <1>2, <1>5, StatusKept
    <3> QED BY <3>1, <3>2
  <2>7. Status(t)' = "consumed"
    <3>1. ~IsPending(t)' BY <2>4, <1>2 DEF IsPending
    <3> QED BY <3>1, <1>1, <1>2, StatusWillBe
  <2>8. StatusOf' = [StatusOf EXCEPT ![t] = "consumed"] BY <2>6, <2>7, StatusChanges
  <2>9. Contract!Consume(g, t)
    BY <1>2, <1>3, <1>4, <2>5, <2>8 DEF Contract!Consume, StatusOf
  <2> QED BY <2>9 DEF Contract!Next
<1>6. CASE /\ CloseIsDue(t)
           /\ linked' = [linked EXCEPT ![g] = (@ \ {t}) \cup {closing[g]}]
           /\ QueueTask(closing[g], tqueue[closing[g]], pcs)
  <2>1. /\ closing[g] \in Tasks /\ closing[g] # t /\ tqueue[closing[g]] \in Queues
        /\ linked[g] = {t} /\ tfile[closing[g]] = g
    BY <1>1, <1>6 DEF IInv, TypeOK, FileOK, TaskOK, CloseIsDue
  <2>2. closing[g] \in Deferred
    <3>1. result[closing[g]] = "NONE" /\ taskState[closing[g]] = "allocated"
      BY SMTT(30), <2>1, NoneAssumption DEF IInv, TypeOK, FileOK, TaskOK
    <3> QED BY <2>1, <3>1 DEF Deferred
  <2> SUFFICES ASSUME NEW c \in Deferred, c = closing[g], NEW q \in Queues, q = tqueue[c]
               PROVE  Contract!Next
    BY <2>1, <2>2
  <2>3. c \in Tasks /\ taskState[c] = "allocated" /\ result[c] = "NONE" /\ c # t
    BY <2>1 DEF Deferred
  <2>4. Listed(c) \/ Canceled(c, q) BY <2>3, <1>6, QueueEffect DEF IInv
  <2>5. \A u \in Tasks : u # c => result'[u] = result[u]
    BY SMTT(30), <2>4 DEF Listed, Canceled, IInv, TypeOK
  <2>6. \A f \in Files : linked'[f] = IF f = g THEN {c} ELSE linked[f]
    BY <2>1, <1>6 DEF IInv, TypeOK
  <2>7. ASSUME NEW u PROVE u \in Deferred' <=> u \in Deferred /\ u # c
    <3>1. CASE u = c BY <3>1, <2>1, <2>6, <1>2 DEF Deferred
    <3>2. CASE u # c
      <4>1. u \in Deferred => tfile[u] # g /\ tfile[u] \in Files
        BY <3>2 DEF Deferred, IInv, TaskOK
      <4>2. u \in Deferred' => tfile[u] # g /\ tfile[u] \in Files
        BY <3>2, <1>2 DEF Deferred, IInv, TaskOK
      <4> QED BY <4>1, <4>2, <3>2, <2>5, <2>6, <1>2 DEF Deferred
    <3> QED BY <3>1, <3>2
  <2>8. t \notin Deferred BY <1>1 DEF Deferred
  <2>9. ASSUME NEW f \in Files, NEW u
        PROVE  u \in Pending'[f] <=> u \in Pending[f] /\ ~(f = g /\ u = t)
    <3>1. u \in Pending[f] <=> u \in linked[f] \/ (u \in Deferred /\ tfile[u] = f) BY PendingOf
    <3>2. u \in Pending'[f] <=> u \in linked'[f] \/ (u \in Deferred' /\ tfile'[u] = f)
      BY PendingWillBe
    <3>3. CASE u = c BY <3>1, <3>2, <3>3, <2>1, <2>3, <2>6, <2>7, <1>2
    <3>4. CASE u # c BY <3>1, <3>2, <3>4, <2>1, <2>6, <2>7, <2>8, <1>2
    <3> QED BY <3>3, <3>4
  <2>10. Pending' = [Pending EXCEPT ![g] = @ \ {t}] BY <2>9, PendingShrinks
  <2>11. Pending[g] = {t, c}
    <3>1. ASSUME NEW u PROVE u \in Deferred /\ tfile[u] = g <=> u = c BY <2>1 DEF Deferred
    <3> QED BY <3>1, <2>1, PendingOf
  <2>12. ASSUME NEW u \in Tasks, u # t, u # c PROVE Status(u)' = Status(u)
    <3>1. CASE taskState[u] = "unused" BY <3>1, <1>2, StatusIs, StatusWillBe
    <3>2. CASE taskState[u] # "unused"
      <4>1. IsPending(u)' <=> IsPending(u)
        BY <3>2, <1>2, <2>9, <2>12 DEF IsPending, IInv, TaskOK
      <4> QED BY <4>1, <1>2, <2>5, <2>12, StatusKept
    <3> QED BY <3>1, <3>2
  <2>13. Status(t)' = "consumed"
    <3>1. ~IsPending(t)' BY <2>9, <1>2 DEF IsPending
    <3> QED BY <3>1, <1>1, <1>2, StatusWillBe
  <2>14. IsPending(c) /\ IsPending(c)'
    BY <2>1, <2>3, <2>9, <2>11, <1>2 DEF IsPending
  <2>15. Status(c) = "submitted" BY <2>3, <2>14, StatusIs
  <2>16. CASE Listed(c)
    <3>1. Status(c)' = "submitted" BY <2>3, <2>14, <2>16, <1>2, StatusWillBe DEF Listed
    <3>2. \A u \in Tasks : u # t => Status(u)' = Status(u) BY <3>1, <2>12, <2>15
    <3>3. StatusOf' = [StatusOf EXCEPT ![t] = "consumed"] BY <3>2, <2>13, StatusChanges
    <3>4. Contract!Consume(g, t)
      BY <1>2, <1>3, <1>4, <2>10, <3>3 DEF Contract!Consume, StatusOf
    <3> QED BY <3>4 DEF Contract!Next
  <2>17. CASE Canceled(c, q)
    <3>1. result'[c] # "NONE" BY <2>3, <2>17 DEF Canceled, IInv, TypeOK
    <3>2. Status(c)' = "finished" BY <3>1, <2>3, <2>14, <1>2, StatusWillBe
    <3>3. StatusOf' = [StatusOf EXCEPT ![t] = "consumed", ![c] = "finished"]
      BY <3>2, <2>3, <2>12, <2>13, StatusChangesTwo
    <3>4. Contract!Consume(g, t)
      BY <1>2, <1>3, <1>4, <2>3, <2>10, <2>11, <3>3 DEF Contract!Consume, StatusOf
    <3> QED BY <3>4 DEF Contract!Next
  <2> QED BY <2>4, <2>16, <2>17
<1> QED BY <1>5, <1>6 DEF OutcomeUnlink

\* To free the file, and then the task, comes after the app has consumed the result.
LEMMA OutcomeFreeKept ==
    ASSUME IInv, NEW a \in Apps, OutcomeFree(a)
    PROVE  UNCHANGED Contract!vars
<1>1. /\ atask[a] \in Tasks /\ tfile[atask[a]] \in Files
      /\ closing[tfile[atask[a]]] = atask[a]
  BY DEF IInv, AppOK, TaskOK, Holding, OutcomeFree
<1>2. fileState[tfile[atask[a]]] # "none"
  BY <1>1, NoneAssumption DEF IInv, FileOK
<1>3. /\ fileState' = [fileState EXCEPT ![tfile[atask[a]]] = "freed"]
      /\ UNCHANGED <<ioOpen, linked, closing, taskState, tfile, result>>
  BY DEF OutcomeFree, taskVars
<1>4. ASSUME NEW f \in Files PROVE fileState'[f] = "none" <=> fileState[f] = "none"
  <2>1. CASE f = tfile[atask[a]] BY <2>1, <1>2, <1>3 DEF IInv, TypeOK
  <2>2. CASE f # tfile[atask[a]] BY <2>2, <1>3 DEF IInv, TypeOK
  <2> QED BY <2>1, <2>2
<1>5. Stream' = Stream BY <1>3, <1>4, StreamKept
<1>6. Deferred' = Deferred BY <1>3 DEF Deferred
<1>7. Pending' = Pending BY <1>3, <1>6 DEF Pending
<1>8. \A t \in Tasks : Status(t)' = Status(t) BY <1>3, <1>7 DEF Status
<1> QED BY <1>3, <1>5, <1>7, <1>8 DEF Contract!vars

LEMMA OutcomeFinishKept ==
    ASSUME IInv, NEW a \in Apps, OutcomeFinish(a)
    PROVE  UNCHANGED Contract!vars
<1>1. /\ atask[a] \in Tasks /\ tfile[atask[a]] \in Files /\ taskState[atask[a]] = "allocated"
      /\ atask[a] \notin linked[tfile[atask[a]]] /\ result[atask[a]] # "NONE"
  BY DEF IInv, AppOK, TaskOK, Holding, OutcomeFinish
<1>2. /\ taskState' = [taskState EXCEPT ![atask[a]] = "freed"]
      /\ UNCHANGED <<fileState, ioOpen, linked, closing, tfile, result>>
  BY DEF OutcomeFinish, fileVars
<1>3. /\ taskState'[atask[a]] = "freed"
      /\ \A u \in Tasks : u # atask[a] => taskState'[u] = taskState[u]
  BY <1>1, <1>2 DEF IInv, TypeOK
<1>4. ASSUME NEW u PROVE u \in Deferred' <=> u \in Deferred
  BY <1>1, <1>2, <1>3 DEF Deferred
<1>5. Deferred' = Deferred BY <1>4
<1>6. Pending' = Pending BY <1>2, <1>5 DEF Pending
<1>7. ASSUME NEW u \in Tasks PROVE Status(u)' = Status(u)
  BY <1>1, <1>2, <1>3, <1>6, StatusKept DEF IsPending
<1>8. Stream' = Stream BY <1>2, StreamKept
<1> QED BY <1>2, <1>6, <1>7, <1>8 DEF Contract!vars

-----------------------------------------------------------------------------

LEMMA ContractStep ==
    ASSUME IInv, [Next]_vars
    PROVE  Contract!Next \/ UNCHANGED Contract!vars
<1> DEFINE Kept == Contract!Next \/ UNCHANGED Contract!vars
<1>1. ASSUME NEW a \in Apps, AppStep(a) PROVE Kept
  <2>1. ASSUME NEW f \in Files, OpenFile(a, f) PROVE Kept
    BY <2>1, OpenFileKept DEF Contract!Next
  <2>2. ASSUME NEW f \in Files, NEW q \in Queues, NEW t \in Tasks,
               Request(a, f, q, t) \/ CloseNow(a, f, q, t) \/ CloseLater(a, f, q, t)
        PROVE  Kept
    BY <2>2, RequestKept, CloseNowKept, CloseLaterKept DEF Contract!Next
  <2>3. CASE UNCHANGED <<fileState, ioOpen, linked, closing, taskState, tfile, result>>
    BY <2>3, Unseen
  <2> QED
    BY <1>1, <2>1, <2>2, <2>3
    DEF AppStep, CreateQueue, GetResult, WaitResult, DestroyQueue, WaitTimeout, Quit, fileVars,
        taskVars
<1>2. ASSUME NEW a \in Apps, AppContinue(a) PROVE Kept
  <2>1. CASE UNCHANGED <<fileState, ioOpen, linked, closing, taskState, tfile, result>>
    BY <2>1, Unseen
  <2> QED
    BY <1>2, <2>1, RequestQueueKept, OutcomeUnlinkKept, OutcomeFreeKept, OutcomeFinishKept,
       QuitCancelKept
    DEF AppContinue, WaitEnd, DestroyConsume, DestroyFree, QuitStop, QuitWake, fileVars, taskVars
<1>3. ASSUME NEW q \in Queues, SignalQueue(q) PROVE Kept
  BY <1>3, Unseen DEF SignalQueue, fileVars, taskVars
<1>4. ASSUME NEW w \in Workers, WorkerTimeout(w) PROVE Kept
  BY <1>4, Unseen DEF WorkerTimeout, fileVars, taskVars
<1>5. ASSUME NEW w \in Workers, WorkerContinue(w) PROVE Kept
  <2>1. CASE UNCHANGED <<fileState, ioOpen, linked, closing, taskState, tfile, result>>
    BY <2>1, Unseen
  <2> QED
    BY <1>5, <2>1, WorkerIOKept
    DEF WorkerContinue, WorkerLoop, WorkerWake, WorkerShrink, WorkerSeek, WorkerComplete, OnlyPool,
        fileVars, taskVars
<1>6. CASE UNCHANGED vars BY <1>6, Unseen DEF vars, fileVars, taskVars
<1> QED BY <1>1, <1>2, <1>3, <1>4, <1>5, <1>6 DEF Next

\* The front end and the thread pool implement the contract of SDL_asyncio.h, for any
\* number of files, queues, requests and threads: whichever threads request, perform,
\* cancel and consume, each request is finished once and consumed once, a closing file
\* takes no request, and its stream is closed when everything else on it was consumed.
THEOREM KeepsContract == Spec => ContractKept
<1>1. IInv /\ [Next]_vars => [Contract!Next]_Contract!vars BY ContractStep
<1> QED BY InitKept, <1>1, Invariance, PTL DEF Spec, ContractKept, Contract!Spec

=============================================================================
