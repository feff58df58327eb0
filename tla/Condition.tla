------------------------------ MODULE Condition ------------------------------
(***************************************************************************)
(* SDL's portable mutex and condition variable, built of semaphores        *)
(* (src/src/thread/generic/SDL_sysmutex.c and SDL_syscond.c): one mutex,   *)
(* one condition, and the steps of their functions.  A module that extends *)
(* this one says who calls them.                                           *)
(*                                                                         *)
(* A thread's call is the sequence todo[t] of the steps it has left to do, *)
(* and a step is what a thread does up to the next operation that another  *)
(* thread can come before.  The semaphores are external and atomic.  The   *)
(* sections under signal_sem never block, so that each is one step and     *)
(* signal_sem itself is left out.  The owner of a mutex is read without a  *)
(* lock, but only ever compared with the reader's own id, which nobody     *)
(* else writes: it is set in the step that acquires, and cleared in a step *)
(* of its own, before the one that releases.                               *)
(***************************************************************************)
EXTENDS Naturals, Sequences, FiniteSets

CONSTANTS Threads, NoThread

ASSUME ThreadsAssumption == IsFiniteSet(Threads) /\ NoThread \notin Threads

VARIABLES
    mutex,      \* SDL_Mutex
    cond,       \* SDL_cond_generic, without signal_sem
    todo,       \* the steps each thread has left to do in its call
    due         \* history: the waiters a signaller still has to release

condVars == <<mutex, cond, todo, due>>

CondInit ==
    /\ mutex = [owner |-> NoThread, recursive |-> 0, sem |-> 1]
    /\ cond = [sem |-> 0, handshake |-> 0, num_waiting |-> 0, num_signals |-> 0]
    /\ todo = [t \in Threads |-> <<>>]
    /\ due = [t \in Threads |-> {}]

Steps(t) == {todo[t][i] : i \in DOMAIN todo[t]}
Step(t, name) == todo[t] # <<>> /\ Head(todo[t]) = name
Do(t, steps) == todo' = [todo EXCEPT ![t] = steps]
GoOn(t) == Do(t, Tail(todo[t]))

\* Threads between the two sections of SDL_WaitConditionTimeoutNS.
Waiting == {t \in Threads : "leave" \in Steps(t) /\ "enter" \notin Steps(t)}

-----------------------------------------------------------------------------
(* The mutex.                                                              *)

CanLock(t) == mutex.owner = t \/ mutex.sem > 0

Locked(t) ==
    mutex' = IF mutex.owner = t THEN [mutex EXCEPT !.recursive = @ + 1]
             ELSE [owner |-> t, recursive |-> 0, sem |-> mutex.sem - 1]

LockMutex(t) ==
    /\ Step(t, "lock") /\ CanLock(t)
    /\ Locked(t) /\ GoOn(t)
    /\ UNCHANGED <<cond, due>>

\* A failed try ends the call.
TryLockMutex(t) ==
    /\ Step(t, "trylock")
    /\ IF CanLock(t) THEN Locked(t) /\ GoOn(t) ELSE Do(t, <<>>) /\ UNCHANGED mutex
    /\ UNCHANGED <<cond, due>>

\* SDL_UnlockMutex up to the release of the semaphore.  Only the owner can unlock.
UnlockMutex(t) ==
    /\ Step(t, "unlock") /\ mutex.owner = t
    /\ IF mutex.recursive > 0
       THEN mutex' = [mutex EXCEPT !.recursive = @ - 1] /\ GoOn(t)
       ELSE mutex' = [mutex EXCEPT !.owner = NoThread]
            /\ Do(t, <<"release">> \o Tail(todo[t]))
    /\ UNCHANGED <<cond, due>>

ReleaseMutex(t) ==
    /\ Step(t, "release")
    /\ mutex' = [mutex EXCEPT !.sem = @ + 1]
    /\ GoOn(t)
    /\ UNCHANGED <<cond, due>>

-----------------------------------------------------------------------------
(* The condition.                                                          *)

\* The wait that the caller of SDL_WaitConditionTimeoutNS goes through with.
WaitCall(sleep) == <<"enter", "unlock", sleep, "leave", "lock">>

Enter(t) ==
    /\ Step(t, "enter")
    /\ cond' = [cond EXCEPT !.num_waiting = @ + 1]
    /\ GoOn(t)
    /\ UNCHANGED <<mutex, due>>

TakeSemaphore(t) ==
    /\ Step(t, "sleep") \/ Step(t, "timed sleep")
    /\ cond.sem > 0
    /\ cond' = [cond EXCEPT !.sem = @ - 1]
    /\ GoOn(t)
    /\ UNCHANGED <<mutex, due>>

\* The semaphore may be signalled between the end of the time and the return.
TimeOut(t) ==
    /\ Step(t, "timed sleep")
    /\ GoOn(t)
    /\ UNCHANGED <<mutex, cond, due>>

\* A signaller is quit of a waiter that leaves, or of all when it had to release one.
DueWithout(t) ==
    [s \in Threads |-> IF t \in due[s] /\ "one" \in Steps(s) THEN {} ELSE due[s] \ {t}]

\* Mutant: the handshake is given also when nobody asked for it.
HandshakeAlways(c) ==
    [c EXCEPT !.handshake = @ + 1, !.num_waiting = @ - 1,
              !.num_signals = IF @ > 0 THEN @ - 1 ELSE @]

\* Mutant: a waiter that was not signalled still counts as one.
CountedOn(c) ==
    IF c.num_signals > 0
    THEN [c EXCEPT !.handshake = @ + 1, !.num_signals = @ - 1, !.num_waiting = @ - 1]
    ELSE c

AfterWait(c) ==
    IF c.num_signals > 0
    THEN [c EXCEPT !.handshake = @ + 1, !.num_signals = @ - 1, !.num_waiting = @ - 1]
    ELSE [c EXCEPT !.num_waiting = @ - 1]

Leave(t) ==
    /\ Step(t, "leave")
    /\ cond' = AfterWait(cond)
    /\ due' = DueWithout(t)
    /\ GoOn(t)
    /\ UNCHANGED mutex

\* SDL_SignalCondition and SDL_BroadcastCondition up to the waits for the handshakes, which
\* are the steps "handshake"; "one" only marks the call of a signal.
Unsignalled == cond.num_waiting - cond.num_signals

Signal(t, n) ==
    /\ cond' = [cond EXCEPT !.num_signals = @ + n, !.sem = @ + n]
    /\ due' = [due EXCEPT ![t] = IF n = 0 THEN {} ELSE Waiting]
    /\ UNCHANGED mutex

SignalCondition(t) ==
    /\ Step(t, "signal")
    /\ IF Unsignalled > 0 THEN Signal(t, 1) /\ Do(t, <<"handshake", "one">> \o Tail(todo[t]))
                          ELSE Signal(t, 0) /\ GoOn(t)

BroadcastCondition(t) ==
    /\ Step(t, "broadcast")
    /\ Signal(t, Unsignalled)
    /\ Do(t, [i \in 1..Unsignalled |-> "handshake"] \o Tail(todo[t]))

TakeHandshake(t) ==
    /\ Step(t, "handshake") /\ cond.handshake > 0
    /\ cond' = [cond EXCEPT !.handshake = @ - 1]
    /\ LET rest == Tail(todo[t])
       IN  Do(t, IF rest # <<>> /\ Head(rest) = "one" THEN Tail(rest) ELSE rest)
    /\ UNCHANGED <<mutex, due>>

CondStep(t) ==
    \/ LockMutex(t) \/ TryLockMutex(t) \/ UnlockMutex(t) \/ ReleaseMutex(t)
    \/ Enter(t) \/ TakeSemaphore(t) \/ TimeOut(t) \/ Leave(t)
    \/ SignalCondition(t) \/ BroadcastCondition(t) \/ TakeHandshake(t)
=============================================================================
