# TLA+ models and proofs of SDL's portable core

This directory holds TLA+ models of the parts of SDL whose correctness depends on
the order in which threads act, the TLC configurations that check them, and
machine-checked proofs (TLAPS) about all of them: asynchronous i/o, timers, the event
queue, the Dreamcast renderer, the portable condition and read/write lock, and the hash
table. The code is the SDL 3 fork in `src/`; paths below are relative to its `src/`
directory unless said otherwise.

    tlc -workers 2 -config MCAsyncIO.cfg MCAsyncIO     # model-check
    tlapm AsyncIO_proofs.tla                           # check the proofs
    tlapm DreamcastPVR_proofs.tla ; tlapm DreamcastPVRUse_proofs.tla
    tlapm Lists_proofs.tla ; tlapm Timer_proofs.tla ; tlapm Events_proofs.tla
    tlapm RWLock_proofs.tla ; tlapm HashTable_proofs.tla

## 1. The system

### Components, their state and operations

| component | code | state | operations | how it is used |
|---|---|---|---|---|
| asynchronous file i/o, front end | `io/SDL_asyncio.c`, `io/SDL_sysasyncio.h` | files (linked tasks, held back close), queues (`tasks_inflight`), tasks | open, read, write, close, get/wait result, signal, destroy queue, load file | any app thread; calls the backend through two interfaces |
| its generic backend | `io/generic/SDL_asyncio_generic.c` | thread pool statics, completed lists, one i/o lock per file | queue task, worker loop, shrink, shutdown | pool threads; condition variables |
| other async backends | `io/io_uring`, `io/windows` | kernel rings | the same interfaces | operating system |
| timers | `timer/SDL_timer.c` | pending list, free list, thread's sorted list, map of ids | add, remove, init, quit, thread loop | any thread; one timer thread runs callbacks |
| event queue | `events/SDL_events.c` | bounded list, sentinel count, disabled types, wake-up window, main thread callbacks | push, peep, flush, filter, poll, wait, pump, start/stop, run on main thread | any thread pushes; the main thread pumps and waits |
| event watch list | `events/SDL_eventwatch.c` | array of watchers, dispatching/removed flags | dispatch, add, remove | called by push; callbacks re-enter |
| condition, mutex, rwlock, semaphore | `thread/generic/*.c` | counts over two semaphores | wait, signal, broadcast, lock, unlock | everything above |
| threads, init state, TLS | `thread/SDL_thread.c` | thread state, init status | create, wait, detach, should-init/quit | everything above |
| hash table | `SDL_hashtable.c` | robin-hood table, rwlock | insert, find, remove, iterate, resize | properties, objects, events |
| properties, hints, objects, subsystems | `SDL_properties.c`, `SDL_hints.c`, `SDL_utils.c`, `SDL.c` | tables, callbacks, reference counts | set/get with callbacks, init/quit | apps and all subsystems |
| audio | `audio/SDL_audio.c`, `audio/SDL_audioqueue.c` | devices, streams, queues | device threads, bind, migrate, zombify | device threads and apps |
| render, GPU, video, input, haptic, camera, storage, process, dialogs | their directories | device state | device i/o | mostly platform code |
| Dreamcast PVR renderer | `render/dreamcast` | numbered scenes, double-buffered screen and targets, retired textures, cached header | draw, switch target, present, create, update, lock, destroy | the app's thread, beside hardware that renders later |
| Dreamcast video and audio | `video/dreamcast`, `audio/dreamcast` | frame buffers, stream | set mode, flip, feed | KallistiOS |

The interactions that matter: every subsystem leans on mutexes, conditions and
`SDL_ShouldInit`; timers and asynchronous i/o keep threads of their own and are
stopped in `SDL_Quit` (`SDL.c:732`); the event queue is where other threads meet
the main thread.

### What is hard

Objects that travel between lists under different locks (async tasks, timers);
conditions with a counted or single wake-up; a close that must wait for results the
app has not consumed; shutdowns that race with work in progress; structures that
are recycled under a new id; flags tested after the lock was dropped; a waiter that
announces itself just after it looked; wake-up tokens that any waiter can take; memory
that hardware still reads when its owner is gone; a table whose searches rely on a shape
that every displacement, shift and growth has to restore. `PROJECT.json` lists these hazards at their
lines, with the property that covers each or the reason why none does.

## 2. Modules

### AsyncIO, AsyncIOContract

`AsyncIO` models `SDL_asyncio.c` over the generic backend. Its variables are the
fields of the code's structures, file by file, queue by queue, task by task, and the
pool's statics; a thread has a program counter and the task or queue it is at.

* **One action is one critical section.** Locks are taken in the order file lock,
  pool lock, queue lock, so a section that nests them is one step. Exception: the
  cancelling loop of `ShutdownThreadpool` keeps the pool lock while it takes queue
  locks in turn; it is one step per task, and `PoolLockFree` is false meanwhile.
* **Lists are sets.** The lists are LIFO; a taker may take any element, which allows
  every order the code has and more.
* **Reads and writes** are one kind of task. `result = "NONE"` stands for a result
  that nobody has stored yet (the code's `calloc` leaves `COMPLETE` there, and nobody
  reads it before it is stored). Tasks and files are never reused in the model, so a
  use after free would show as a reference to something freed.
* **SDL_LoadFileAsync** is `OpenFile`, `Request` and `CloseNow`/`CloseLater` in a row.
* `queue_task` of the generic backend always returns true, so the `!queued` branches
  are dead here.
* **The app** keeps the documented rules: `Usable` (a queue that is being destroyed is
  not used by others, `SDL_asyncio.h:396`), it does not use a file after it consumed
  its close, and unless `DestroyEarly` it destroys no queue that is named by a held back
  close which waits for tasks of another queue (`ClosesOwnTasks`). A queue with closes held
  back by its own tasks may be destroyed, as `SDL_asyncio.h:393` says of pending
  `SDL_LoadFileAsync` calls: the loop then consumes the file's last task, which queues and
  counts the close, and goes on until that is consumed too. `SDL_QuitAsyncIO` may come at any time, but the few statements between
  its last unlock and the end are one step with it.
* A wait on a queue may time out or wake for no reason at any time; a worker's thirty
  second wait may end at any time. Threads may fail to be created.

`AsyncIOContract` is what `SDL_asyncio.h` promises, without threads, locks or lists:
which requests a file accepts, that each is finished once and consumed once, and that
the stream is closed after all else was consumed. `AsyncIO` refines it
(`ContractKept`, by the mapping `Pending`, `Status`, `Stream`).

### Timer

`Timer` models `SDL_timer.c` (not its Emscripten variant). Every critical section and
every access to data another thread may touch is a step, so each statement of
`SDL_CreateTimer` and `SDL_RemoveTimer` after a lock is dropped can be overtaken.
Lists keep their order. A callback is the caller `Callback`, which can add and remove
timers only while the timer thread is in a callback. Memory has room for `Structs`
timers, so allocation can fail; freeing puts a structure back. `known` and `removed`
are history: which ids the app can know and which it removed successfully.
`SDL_GetTicksNS` is `now`; the thread's second reading of the clock (line 191) and its
wait are one step, so it wakes at the exact time. `CanCall` and `Quit` say
what is asked of the app: it does not call a timer function in one thread while another is in
`SDL_QuitTimers`. Callbacks are under no such rule and may call anything whenever they run,
also while the timers are quit (finding 5). When the start of the timers fails they count as
initialized until the caller has quit them (`QuitFailed`), and other app threads may go
on with their calls in between; that the semaphore and the mutex are destroyed under such a call is
not modelled.

### Events, EventFifo, Lists

`Events` models `SDL_events.c`: the queue with its poll sentinel, `SDL_PollEvent` and
`SDL_WaitEvent(Timeout)` step by step, the announcement of the window that other threads
wake, `SDL_RunOnMainThread`, and the start and quit of the event system. A step is one
critical section of the queue's or the callbacks' lock, or one access to
`wakeup_window` or to `SDL_sentinel_pending` outside them.

* **The main thread** has a program counter `mpc`, the kind of wait it is in (`mode`),
  whether the app passes an event to fill in (`wanted`) and where it goes `after` the
  pump: `pump -> run -> sentinel -> push -> first` at the entry of a wait, then
  `pump -> ... -> device -> arm -> wait -> disarm` (`SDL_WaitEventTimeout_Device`) or
  `pump -> ... -> loop`. A time-out may come at any look at the clock.
* **The video driver is external**: `PumpEvents` reads all messages, `SendWakeupEvent`
  posts one, `WaitEventTimeout` returns when there is a message, after its time-out, or at
  any time for reasons of its own (`WaitFails`: an error, or the window system's own
  events; such events come into the queue as if another thread pushed them).
* `Polling` says whether anything makes `SDL_events_get_polling_interval` finite.
* **The other threads** push, take, flush, enable and disable. `FlushEvents` discards any
  set of events, which covers `SDL_FlushEvents`, `SDL_FilterEvents` and
  `SDL_SetEventFilter`. What the main thread does to the queue between its waits is a call
  of one of these threads as well.
* An event is pushed once, so that order and repetition can be seen in `delivered`.
  Events of different types are told apart by nothing: every look takes any type.
* The app quits the event system only when no other thread is inside a call, unless it
  sleeps there for its callback. Callbacks neither pump nor push.

`EventFifo` is the promise: a bounded queue from which each event is handed out at most
once and in order, unless discarded. `Events` refines it (`FifoKept`) with the queue
without its sentinels as `fifo`. `Lists` has the one operator both need: `Without(q, D)`,
what `SDL_CutEvent` of every entry in `D` leaves of the list `q`.

### DreamcastPVR

`DreamcastPVR` models the fork's own renderer (`SDL_render_dreamcast_pvr.c`,
`SDL_render_dreamcast_pvr_texture.c`): the app's thread, and hardware that renders the
scenes it was given later. The question is memory: a destroyed texture is retired under
the number of the last scene that can use it, and freed when that scene is proven to be
rendered from the little the hardware shows.

* `tex`, `scene`, `screen`, `target`, `header`, `pvr_failed` are the driver's fields;
  `ta` (the scene in the tile accelerator), `rendering` and `unflipped` are the hardware.
  `torn` is history: memory was freed or uploaded to while a scene used it.
* A call is the sequence `todo` of its remaining steps, so that the hardware can move
  between any two of them. A step that waits (`EnterTA`, `WaitScenesComplete`) is enabled
  when the wait ends; the drain may also time out or a KallistiOS call fail.
* **KallistiOS is external**, taken from the driver's own account of it (`:123-152`): a
  scene enters the TA when the one before has started to render, renders run one at a
  time, and a frame for the display waits for the flip of the one before. As that comment
  says, the silent 100 ms limit inside `pvr_list_begin()` is taken never to be reached.
* Simplified: `list_active` is `scene_entered` (a list that ends without its scene only
  does so in a failure); the header cache is compared by texture only; memory is counted
  in blocks of one texture, and the allocator takes any free one, fixed by CHOOSE; a target's
  two blocks are allocated together; the empty frame's scene enters the TA one step
  earlier; `UnlockTexture` clears `locked` when it begins. Left out: failures
  of the presentation's own scene and of the finish inside a texture's destruction,
  `vid_waitvbl()` and `pvr_shutdown()`.
* `status = "recovered"` stands for a destruction that went ahead although the hardware
  could not be waited for. Then memory may be freed under a render (`NeverTorn` exempts
  it), although the comment at `:778` says every render must be complete before; the
  shutdown of the hardware follows at once.

### Condition, RWLock

`Condition` models the portable mutex and condition variable, which are built of
semaphores (`SDL_sysmutex.c`, `SDL_syscond.c`), step by step: the counts `num_waiting`
and `num_signals`, the tokens in `sem`, and the handshakes by which a signaller waits for
those it released. Semaphores are external and atomic, and `signal_sem`, whose sections
never block, makes each of them one step. A time-out may be overtaken by a token.

`RWLock` extends it with the read/write lock (`SDL_sysrwlock.c`), whose writer keeps the
mutex for as long as it holds the lock. The variable `client` is chosen initially: the
mutex and condition are in the hands of a read/write lock, or of an app that uses them as
`SDL_syscond.c:149` shows, waiting with and without time-outs, signalling and
broadcasting. `due` is history: the threads that were waiting when a signal or broadcast
was given. Not modelled: destruction, recursive locking for writing (undefined by
`SDL_mutex.h`, though the code comments allow it).

### HashTable, HashMap

`HashTable` models `SDL_hashtable.c`: robin hood insertion, deletion by shifting back,
growth. A call holds the table's lock from beginning to end, so it is one step. The
hashes of the keys are chosen initially from `Hashes`, which covers equal hashes,
collisions, neighbours and the wrap-around at the end of the table. The table's
largest size (2^26 in the code) is small so that the limit is met. Loops are
recursive functions.

`HashMap` is the promise: a map. `HashTable` refines it (`TableIsMap`), with what a search
finds for each key as `map` and what an iteration visits as `items`. It may refuse an
insertion only for a key that is there, when the table has its largest size (`limited`), or
when as many other keys are there as fit without growth (`room`, the threshold of
`maybe_resize`); an insertion beyond that makes more room. Told here and not a
run, since values that are not found are not modelled: `SDL_FindInHashTable` leaves `*value`
alone when the key is not there, though `SDL_hashtable.h:344` says it is set to NULL. The
map also admits what `SDL_InsertIntoHashTable` does when it replaces an item and the new
one finds no room: the old one is gone (`ReplaceFails`).

## 3. Runs

`CHECK_DEADLOCK FALSE` except for `dreamcast_pvr` and `hash_table`: an app that has used
up its tasks, ids or calls, with all threads asleep, is a legal end. In `dreamcast_pvr` every
state has a step up to the renderer's destruction.

| run | checks | instance | result |
|---|---|---|---|
| `asyncio` | all safety properties of AsyncIO and the refinement | 1 file, 1 queue, 3 tasks, 2 workers, 2 app threads | holds, 117 thousand states |
| `asyncio_live` | a queued task is picked up, shutdown and destruction end | 1 file, 2 queues, 2 tasks, 2 workers, 1 app thread | holds, 341 thousand states |
| `asyncio_destroy` | `QueueOutlivesTasks` when the app also destroys a queue whose held back close waits for another queue's task | 2 queues, 2 tasks | violated (finding 1) |
| `timer` | all safety properties of Timer; a timer is served, quit ends or waits for a callback that calls `SDL_AddTimer` | 1 app thread and a callback, 2 structures, 2 ids, 2 instants, 2 intervals | holds, 211 thousand states |
| `timer_quit` | `QuitEnds` | as `timer` | violated (finding 5) |
| `timer_recycled` | `RemovesThatTimer` | 2 app threads, else as `timer` | violated (finding 2) |
| `events` | all safety properties of Events and the refinement; a sleeping caller returns, a queued event leaves | 1 thread beside the main thread, 2 events, 1 callback, a queue of 2 | holds, 143 thousand states |
| `events_wakeup` | `NoLostWakeup` where nothing is polled | 1 thread, 1 event, 1 callback | violated (finding 3) |
| `dreamcast_pvr` | all safety properties of DreamcastPVR; calls return | 3 kinds of texture under 2 names, 2 blocks, 4 scenes | holds, 231 thousand states |
| `rwlock` | all safety properties of Condition and RWLock; calls return | 3 threads, 2 calls each, both clients, the mutex held to signal | holds, 107 thousand states |
| `rwlock_unlocked` | `NoneLeftAsleep` when the mutex is not held to broadcast | 4 threads, 1 call each | violated (finding 4) |
| `hash_table` | the table's shape, and that it is a map | 4 keys, 2 values, sizes 1 to 16 | holds, 10 thousand states |

**Bounds.** Three tasks on one file are two requests and a close, the least with which
the last two results race for the held back close; two workers are the least for the
i/o lock, the shrink decision and a signal to the wrong thread; two app threads race
in submission, consumption, closing and shutdown. Two queues and two tasks
are the least for a close that is held back by a task of another queue; the case where the
task is of the same queue, which the loop of `SDL_DestroyAsyncIOQueue` settles itself, is in
both passing runs. With two queues, two tasks and two app threads the safety properties were
checked once (208 thousand states up to symmetry). Two timer structures and two ids give recycling
under a new id, a callback that adds and removes while an app thread is inside a call,
equal and different times; the safety properties were also checked once with two app
threads (450 thousand states up to symmetry; there a call meets another thread's start that
fails), with three ids and with three instants, and are proved for any number. A queue
of two is full with two events, or with one and the sentinel, and the app's thread
and the main thread race for the announcement, the sentinel and the callback's entry. With
two threads that race for them and wait for two callbacks the safety properties were checked
once (1.3 million states up to symmetry), and are proved for any number. In
`dreamcast_pvr` two blocks are filled by one
target or two plain textures, so that creation meets full memory; the conclusions
about rendered scenes reach back two scenes, so that four are two more than they need
to go wrong. Three threads are a signaller and two waiters, or a writer and two readers; with
a second call a newcomer can meet those who wait. Four keys in a table of four slots
grow it twice from one slot, and hashes 3 and 7 wrap around in it. Symmetry is used only
in runs without liveness. Counters: `MaxId` bounds the ids
(`AddTimer` leaves one for each caller that still has to take one), `MaxNow` bounds
time, `MaxScenes` the scenes, `MaxCalls` the calls of a thread, `MaxThreads` is the code's
own limit.

**Fairness.** `AsyncIO`: weak fairness of each thread that is inside a call and not
asleep, and of each worker. That is what a scheduler gives; critical sections end, so
a mutex is handed on. Nothing is assumed of what the app calls, of time-outs, or of
spurious wake-ups. `Timer`: weak fairness of callers, of the timer thread and of time,
and strong fairness of a callback's return, that is, a callback does not call
`SDL_AddTimer`/`SDL_RemoveTimer` for ever.
`Events`: weak fairness of threads inside a call and of the main thread's steps, without
the driver's spurious returns, and strong fairness of the app's asking for an event,
with any kind of wait: `SDL_PumpEvents` is documented as something the app has to call.
It needs to be strong because the call is disabled while another is in progress.
`DreamcastPVR`: weak fairness of the app's thread inside a call and of the hardware: renders
end and the display is refreshed; time-outs and failures need not come.
`RWLock`: weak fairness of each thread, which includes that a holder of the lock
unlocks it. As each thread makes a bounded number of calls, no thread is overtaken for
ever, which a scheduler alone would not promise: readers that always overlap can
keep a writer out for ever, in the code and in the model without the bound.

### Findings

1. `SDL_DestroyAsyncIOQueue` does not wait for a held back close that names the queue while
   the file's last task is on another queue (`SDL_asyncio.c:288`): the close is not counted
   until it becomes due, and then it is counted and queued on a freed queue. The header says
   the call blocks until the pending tasks are finished. When the tasks that hold the close
   back are on the queue itself the property holds (`DestroyEarly = FALSE`): the loop consumes
   them, and so queues and counts the close, before it looks at the count again.
2. `SDL_RemoveTimer` tests and sets the flag after the lock is dropped
   (`SDL_timer.c:397`); a structure recycled in between makes it cancel a timer
   of another id.
3. The main thread looks at the queue before it announces the window by which it can be
   woken (`SDL_events.c:1633`, `:1658`), and does not look again: an event or callback
   queued in between sends no message. Where nothing is polled (no D-Bus, joystick, sensor
   or tray) `SDL_WaitEvent` sleeps beside it until something else happens. With a polling
   interval it is found late, which is what `events` checks (`CallbackReturns`, `EventLeaves`).
4. `SDL_BroadcastCondition` (portable version, `SDL_syscond.c:135`) without the mutex held:
   a thread that begins to wait while the handshakes are collected takes the token of one
   that waited before, which sleeps on though the broadcast has returned. The header allows
   the call "from any thread" and promises to restart all that wait. With the mutex held no
   thread can begin to wait in between, and `WaitersReleased` holds.
5. A callback that calls `SDL_AddTimer` while `SDL_QuitTimers` joins the timer thread
   (`SDL_timer.c:259`) waits in `SDL_ShouldInit` (`SDL_timer.c:309`, `SDL_thread.c:558`) until the
   timers are uninitialized, which happens only after the join: neither returns. The header
   says that `SDL_AddTimer` is safe to call from any thread, and callbacks run on one. That
   nothing else keeps `SDL_QuitTimers` from returning is `OnlyCallbackBlocksQuit`.

Seen while modelling, and told without a run: `SDL_AddTimer` reads the id it returns from an
entry that the timer's own callback may already have removed and freed
(`SDL_timer.c:358`); `SDL_QuitTimers` cleans up the thread's list and the free list but not
the pending list (`:268`), so that a timer added between the thread's last look at it and
its exit is kept and runs when the timers are started again; a close task that a
shutdown cancels never closes the stream (`SDL_asyncio_generic.c:242`).

## 4. Proofs

What is proved holds for every value of the constants that satisfies the named ASSUMEs
of the component's module; no theorem has another hypothesis unless it is told below.

| module | theorems | of the property |
|---|---|---|
| `AsyncIO_proofs` | `TypeCorrect`, `TasksHeldOnce`, `CloseComesLast`, `IOSound`, `DecidedOnce`, `WorkersStayAwake`, `NothingIsLost`, `QueueOutlives`, `NoResultWaits`, `KeepsContract` | `TypeOK`, `TaskHeldOnce`, `CloseLast`, `IOIsSound`, `OutcomeDecidedOnce`, `WorkersAwake`, `NoTaskLost`, `QueueOutlivesTasks`, `WaitersAwake`, `ContractKept` (the refinement) |
| `DreamcastPVR_proofs` | `ProvenRendered`, `TypeCorrect` | `ProvenIsRendered`, `TypeOK` |
| `DreamcastPVRUse_proofs` | `NothingTorn`, `NoSelfSampling`, `HeaderRight`, `RetiredComesBack` | `NeverTorn`, `NoFeedback`, `HeaderInForce`, `PromptReclaim` |
| `Timer_proofs` | `TimerTypeCorrect`, `InOnePlace`, `StaysInOrder`, `MapStaysCurrent`, `NeverOversleeps`, `RemovedIsNotCalled` | `TypeOK`, `OnePlace`, `TimersSorted`, `MapIsCurrent`, `NoOversleep`, `RemovedNeverCalled` |
| `Events_proofs` | `EventTypeCorrect`, `SentinelCounted`, `WaitersServed`, `KeepsFifo` | `TypeOK`, `SentinelsRight`, `WaiterServed`, `FifoKept` (the refinement) |
| `RWLock_proofs` | `LockTypeCorrect`, `WritesAlone`, `SignalReleases` | `TypeOK`, `Exclusion`, `WaitersReleased` |
| `HashTable_proofs` | `HashHolds`, `SearchIs`, `KeepsShape`, `KeepsMap` | `RobinHood`, `TableIsMap` (the refinement) |
| `Lists_proofs` | lemmas about lists and numbers, which `Timer_proofs`, `Events_proofs` and `HashTable_proofs` share | |

### Asynchronous i/o

For any number of files, queues, tasks, workers and app threads (the sets of tasks, workers
and app threads finite, `MaxThreads \in 1..8`, and the null values outside their sets).

`TypeCorrect`, `TasksHeldOnce`, `CloseComesLast` and `IOSound` follow from one inductive invariant, `IInv`
(theorem `Invariance`).
None of them is inductive alone: that a task is held once depends on what kind of
holder has which kind of task. `IInv` therefore says for each app thread, worker, list,
queue and file what is known of the tasks it holds: a task that is still to be
performed is linked on its file and has no result; a completed one is linked and has
a result; one that a consumer has unlinked is not linked; a close task is linked only
when it is alone, and while it is held back something else is linked; a stream stays
open as long as some linked task has no result. From these, two holders of one task
would have to agree on its result, its link and its list, which they do not. There is one
lemma per action, and under it one step per part of `IInv` the action disturbs.
`DecidedOnce` takes the same invariant as its hypothesis: a step that stores a result
has in its hands a task that has none. `WorkersStayAwake` is inductive with the type
invariant: the list grows only in a step that wakes every sleeper, and a worker goes to
sleep only under the lock and beside an empty list.

Then comes what needs counting. `NoneLost`: an allocated task is held by
a list, a thread, a queue, or its file's `closing`; each action takes a task out of
one pair of hands only to put it into another or to free it. `QueueInv`: `tasks_inflight`
is the cardinality of the set of tasks that were handed on for that queue and are not
freed, so a thread that leaves the loop of `SDL_DestroyAsyncIOQueue` at zero leaves no such
task behind; nor a close that is held back for the queue, as that waits for some linked task
of the queue (`ClosesOwnTasks`, which stays true during the destruction because a closing
file links no new task), and this one would be counted. `QueueOutlives` has the hypothesis
`~DestroyEarly`, that is, no app destroys a queue while a close held back for it waits for a
task of another queue: without it the property is false, which finding 1 shows. `WaitersAwake` is inductive beside `IInv`: beside sleepers, at least as
many threads have been woken as there are results, since each result comes with a signal and
a woken thread that leaves without one has found none.

The last part is the refinement, step by step: one lemma per action says which action of
the contract it is under the mapping, or that it changes none of `Pending`, `Status` and
`Stream`. `IInv` is needed where the contract's guards speak of what a
thread's local state only implies: that a result is consumed only after it is decided,
or that a stream is closed with nothing pending.

### Dreamcast PVR

For any textures, any finite set of blocks, two screen buffers that are no blocks, and any
number of scenes. There are three invariants, each of which needs the one before.

* `IInv` (`DreamcastPVR_proofs`). The driver's count of completed scenes is right only because of how
  scenes are numbered, so it adds to the property: scenes are numbered without gaps
  (`entered` is `begun`, or one less while the open scene has not entered the TA), the TA
  holds the scene that was entered last, the hardware renders that one or the one before
  it, and a scene that is open in the TA is not finished, so that the hardware cannot
  take it. That a scene is begun only when none is open depends on what calls have
  left to do, so `TodoOK` says where in a call the steps `list` and `present` may stand.
* `MemInv` (`DreamcastPVR_proofs`) says whose the memory is: the blocks of two textures
  are disjoint, a texture has the blocks its kind needs, and a target's two differ (`TexOK`,
  `Disjoint`); and what the steps left in a call mean for its texture: one that is about
  to be retired is live and no longer the target, one that is being created is
  absent, a change of the target comes after the scene is closed (`CallOK`, `TargetOK`).
  The allocator's result has its type only because of this.
* `UseInv` and `PromptInv` (`DreamcastPVRUse_proofs`). `UseOK` says that each block a scene that is not rendered uses
  is still of a texture that is live, or retired under the number of that scene or a
  later one. Memory is freed when `ProvenIsRendered` makes the retiring scene
  rendered, so no such block is freed: that is `NothingTorn`, and `HeaderRight` and
  `NoSelfSampling` need the same knowledge of what is drawn into the open scene. For
  `RetiredComesBack`, either the rest of the call still reclaims, or all that is retired
  was so under one of the last two scenes (`PromptOK`).

`NothingTorn` exempts, as `NeverTorn` does, a renderer that recovers from a failed wait.

### Timers

For any finite set of app threads and timer structures, any ids, instants and intervals,
with callbacks that may call `SDL_AddTimer` also during `SDL_QuitTimers`.

* `Shape` says what each step of a call knows: which callers have a structure in their
  hands, that the thread's list in work is filled and numbered, that `IdsLeft` ids are
  left for those who wait for one. `Placed` gives every structure its one place (`PlaceOK`):
  no list repeats it, and it is in one list or in one pair of hands; `InOnePlace` follows,
  and so does the length of the lists in `TimerTypeCorrect`.
* `StaysInOrder` needs that inserting a list of pending timers, one after the other,
  into a sorted list gives a sorted list of the same elements. The insertion is a
  recursive function, and the library's induction rules cannot be instantiated; the proof
  shows that the function exists for every number of pending timers, and what it returns, by
  the least number at which that would fail, which well-foundedness of `<` on `Nat`
  supplies (`NatLessThanWellFounded`, `WFMin`).
* `MapStaysCurrent` is not inductive alone: a structure gets its new id while it is in
  a caller's hands, which is right only if no entry names it any more. `HandsOK` says
  so for each caller.
* `StartOK`: a caller that failed to start the thread is alone with the timers until it has
  quit them: there is no thread, and nobody else starts one or quits. `Awake` needs it.
* `Awake`: while the thread does not hold the list it looks at and something is pending, the
  semaphore has a token or some caller is about to signal. `NeverOversleeps` adds the order
  of the list, by which the first timer is the next one due.
* `RemovedIsNotCalled`: an id is given out once, its entry names the structure that has it, and
  a structure whose id was removed successfully is canceled (`GoneOK`). It is about the id's own timer; what the
  recycled structure does to another id is finding 2, and stays true beside it.

### Event queue

For any sets of threads, events and callbacks, any bound on the queue, with or without
polling.

* `QueueInv` is what the queue needs. `QueueOK`: no entry is in it twice, none that was
  handed out is in it, and what a thread is about to put in is nowhere else. `CountOK`: the
  count is one or none as there is a sentinel or not, and when the main thread is about to
  push one there is none. That is the argument of `SentinelCounted`: the pump looks at
  the count and at the sentinel's being enabled without the queue's lock, other threads may
  take or flush the sentinel after that, but only the main thread puts one in.
* `CallInv` is what callbacks need. An entry is in one list at most; while it is in one it
  waits and has not been signalled (`EntriesOK`). Each entry has at most one thread that asked
  for it, and a thread that will wait and whose entry is in no list any more has it signalled
  (`CallerOK`), already before the thread sleeps. `WaitersServed` is the part of it for a
  thread that sleeps.
* `KeepsFifo`: `SDL_AddEvent` is `Put`, whatever sentinels stand between; taking one
  event is `Take`, since all that is cut before it are sentinels (`StopsAtIs`), or a stutter
  when a sentinel is taken or nothing; a flush of `D` discards `D` without the sentinel;
  quitting discards all. What these need of `Without` (that it distributes over lists
  and composes) is proved in `Lists_proofs` by the induction described under Timers, over
  lists.

### Condition and read/write lock

For any finite set of threads, any number of calls, both clients, signals and broadcasts.

* `MutexOK` gives, for each sequence of steps a thread may have left (`Phase`), whether it
  is inside the mutex or leaving it: who is inside is its owner, and while a thread is
  leaving the semaphore has no token and there is no owner.
* `HoldsOK` counts readers. It is not enough to count the threads that hold the lock: the
  app's knowledge of what it holds (`holds`) ends with the call of `SDL_UnlockRWLock`, and
  the lock's own count a few steps later. `Tokens` is the set of (thread, number) pairs
  that are still counted, and `reader_count` its cardinality. `WritesAlone` follows.
* `CondOK`: `num_waiting` is the cardinality of the set of waiting threads, and
  `num_signals`, how many of them are to leave, is no more.
* `ReleaseOK`: when no thread asks for handshakes nothing is signalled. A signaller still has
  `num_signals + handshake = 1` while its waiter has not left (`OneLeft`); one that
  broadcasts has as many as handshakes to collect, and all that wait are signalled
  (`AllLeft`). Only the owner of the mutex asks, so that nobody begins to wait meanwhile:
  that is the hypothesis `~SignalUnlocked` of `SignalReleases`. Without it a waiter can be
  left asleep, which finding 4 shows.

### Hash table

For any keys, values and hashes, any powers of two up to 2^26 as first and largest sizes,
and with growth refused at any point. No bound on the number of calls.

* `Shape` says of a table what the searches rely on: each item has the distance from its
  best slot that it says, no more than the longest probe, and unless that is 0 the slot
  before it is taken by an item at least as far from its own, less one; no key is there
  twice. `HashInv` adds that the count is exact and that a slot is free: an insertion
  fails or grows the table before the last one is taken. `KeepsShape` follows from it.
* Insertion (`InsertShape`) goes around the table with an item in its hand. After each turn
  (`Turned`) the table and that item together hold what they should, the item may lie in the
  next slot, and no slot passed was free; so when all slots are passed and one of them was
  free before, nothing is in the hand any more. Growth (`ResizeShape`) inserts the slots of
  the old table one by one, into a table that has a free slot because it is larger.
* Deletion (`DeletedIs`): up to the next item that is in its best slot, or free slot, all
  items may lie one slot further back (`Gap`, `Shifted`), and there is such an end because
  a slot is free.
* `SearchIs`: on the way from a key's best slot to where it lies, each item is at least as
  far from its own best slot as the search from its start (`WayIs`, by induction from the key
  backwards), so that the search does not give up before it.
* `KeepsMap`: each action of `HashTable` changes what the table holds for one key, for all,
  or for none (`Sets`), and `MapOK` says that searches and iterations show exactly what the
  table holds. An iteration counts the items it sees and ends early; it misses none because the
  count is exact. An insertion is refused only when there is no room: the items of other keys
  are as many as the other keys that a search finds, one by one (`OthersAre`), and the
  threshold of a table twice as large is larger (`RoomGrows`).

The loops are recursive functions; that they exist for tables of every size, and what they
return, is proved by induction over the number of turns, as described under Timers.

Each of these inductive invariants was checked by TLC on the instance of its run before it
was proved.

### Only model-checked

All liveness (`QueuedTaskPickedUp`, `ShutdownEnds`, `DestroyEnds`, `TimerIsServed`,
`OnlyCallbackBlocksQuit`, `CallbackReturns`, `CallsReturn`, `EventLeaves`): fairness and ENABLED are
beyond the prover. Every safety property of a passing run is proved.

## 5. Not modelled

`PROJECT.json` lists every component left out with its reason. In short: platform
backends (their behaviour is the operating system's), pixel, audio and font
arithmetic, vendored code, and what the plan has not reached: the event watch list with
nested dispatch, the life of a thread, properties, hints, subsystem reference counts,
audio devices. Calls that the documentation forbids are not modelled either: the use
of a queue that is being destroyed, calls by other threads during `SDL_Quit`, and the window
that is destroyed while another thread sends a wake-up to it (`SDL_events.c:1164`) belongs
to the video component.

## 6. Plan

Modelled and checked: AsyncIO with its contract, Timer, Events, DreamcastPVR, the
portable condition and read/write lock, the hash table.

Proved: all safety properties that the passing runs check of AsyncIO (with its contract),
Timer, Events (with its FIFO), DreamcastPVR, the condition and read/write lock, and the hash
table (with its map). What is left of the checked properties is liveness.

To model next: the watch list, wait/detach/completion of threads, properties,
subsystem reference counts, audio devices.
