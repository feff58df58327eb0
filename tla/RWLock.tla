------------------------------- MODULE RWLock -------------------------------
(***************************************************************************)
(* SDL's portable read/write lock                                          *)
(* (src/src/thread/generic/SDL_sysrwlock.c), built of the mutex and the    *)
(* condition of module Condition: a writer keeps the mutex as long as it   *)
(* holds the lock, readers only count themselves under it, and a writer    *)
(* that finds readers waits for the condition.                             *)
(*                                                                         *)
(* The same mutex and condition are also modelled in the hands of an app   *)
(* that uses them directly, as SDL_syscond.c:149 shows.  The variable      *)
(* client, which is chosen initially and never changes, says in whose      *)
(* hands they are.                                                         *)
(***************************************************************************)
EXTENDS Condition

CONSTANTS Clients,        \* of "rwlock" and "app"
          Signals,        \* of "signal" and "broadcast": the functions the app calls
          SignalUnlocked, \* does it call them without holding the mutex?
          MaxCalls        \* bound: the calls of a thread, unlocks not counted

ASSUME ClientsAssumption == Clients \subseteq {"rwlock", "app"}
ASSUME SignalAssumption == Signals \subseteq {"signal", "broadcast"} /\ SignalUnlocked \in BOOLEAN
ASSUME BoundAssumption == MaxCalls \in Nat

VARIABLES
    rwlock,     \* reader_count and writer_count of SDL_RWLock
    holds,      \* the locks each thread holds, as its calls have told it
    client, calls

vars == <<condVars, rwlock, holds, client, calls>>

Init ==
    /\ CondInit
    /\ rwlock = [reader_count |-> 0, writer_count |-> 0]
    /\ holds = [t \in Threads |-> [read |-> 0, write |-> 0]]
    /\ client \in Clients
    /\ calls = [t \in Threads |-> 0]

Call(t, who, steps) ==
    /\ client = who /\ todo[t] = <<>> /\ calls[t] < MaxCalls
    /\ Do(t, steps)
    /\ calls' = [calls EXCEPT ![t] = @ + 1]
    /\ UNCHANGED <<mutex, cond, due, rwlock, holds, client>>

-----------------------------------------------------------------------------
(* The read/write lock.  A thread may lock again for reading; to lock for  *)
(* writing what it holds, or for reading what it holds for writing, is     *)
(* undefined (SDL_mutex.h).                                                *)

LockRWLockForReading(t) ==
    holds[t].write = 0 /\ \E first \in {"lock", "trylock"} :
        Call(t, "rwlock", <<first, "read", "unlock">>)

Unheld(t) == holds[t] = [read |-> 0, write |-> 0]

LockRWLockForWriting(t) == Unheld(t) /\ Call(t, "rwlock", <<"lock", "write">>)

TryLockRWLockForWriting(t) == Unheld(t) /\ Call(t, "rwlock", <<"trylock", "trywrite">>)

AddReader(t) ==
    /\ Step(t, "read")
    /\ rwlock' = [rwlock EXCEPT !.reader_count = @ + 1]
    /\ holds' = [holds EXCEPT ![t].read = @ + 1]
    /\ GoOn(t)
    /\ UNCHANGED <<mutex, cond, due, client, calls>>

AddWriter(t) ==
    /\ rwlock' = [rwlock EXCEPT !.writer_count = @ + 1]
    /\ holds' = [holds EXCEPT ![t].write = @ + 1]
    /\ Do(t, <<>>)

\* Mutant: a writer joins the last reader.
LastReader == rwlock.reader_count <= 1

NoReaders == rwlock.reader_count = 0

TakeForWriting(t) ==
    /\ NoReaders /\ (Step(t, "write") \/ Step(t, "trywrite"))
    /\ AddWriter(t)
    /\ UNCHANGED <<mutex, cond, due, client, calls>>

\* The loop of SDL_LockRWLockForWriting, or the end of a try.
FindReaders(t) ==
    /\ ~NoReaders
    /\ \/ Step(t, "write") /\ Do(t, WaitCall("sleep") \o <<"write">>)
       \/ Step(t, "trywrite") /\ Do(t, <<"unlock">>)
    /\ UNCHANGED <<mutex, cond, due, rwlock, holds, client, calls>>

\* What the lock was held for is told by its own counts.
UnlockRWLock(t) ==
    /\ client = "rwlock" /\ todo[t] = <<>> /\ ~Unheld(t)
    /\ holds' = IF holds[t].read > 0 THEN [holds EXCEPT ![t].read = @ - 1]
                                     ELSE [holds EXCEPT ![t].write = @ - 1]
    /\ Do(t, <<"lock", "drop">>)
    /\ UNCHANGED <<mutex, cond, due, rwlock, client, calls>>

\* Mutant: pending writers are not alerted.
Silently == <<"unlock">>

AfterReader == <<"broadcast", "unlock">>

\* The lock is held: if there is no reader then by this writer.
Drop(t) ==
    /\ Step(t, "drop")
    /\ IF rwlock.reader_count > 0
       THEN rwlock' = [rwlock EXCEPT !.reader_count = @ - 1] /\ Do(t, AfterReader)
       ELSE rwlock' = [rwlock EXCEPT !.writer_count = @ - 1] /\ Do(t, <<"unlock", "unlock">>)
    /\ UNCHANGED <<mutex, cond, due, holds, client, calls>>

-----------------------------------------------------------------------------
(* An app that uses the mutex and the condition itself.                    *)

AppWaits(t) ==
    \E sleep \in {"sleep", "timed sleep"} :
        Call(t, "app", <<"lock">> \o WaitCall(sleep) \o <<"unlock">>)

AppSignals(t) ==
    \E how \in Signals :
        Call(t, "app", IF SignalUnlocked THEN <<how>> ELSE <<"lock", how, "unlock">>)

-----------------------------------------------------------------------------
Calls(t) ==
    \/ LockRWLockForReading(t) \/ LockRWLockForWriting(t) \/ TryLockRWLockForWriting(t)
    \/ AppWaits(t) \/ AppSignals(t)

Continue(t) ==
    \/ CondStep(t) /\ UNCHANGED <<rwlock, holds, client, calls>>
    \/ AddReader(t) \/ TakeForWriting(t) \/ FindReaders(t) \/ UnlockRWLock(t) \/ Drop(t)

Next == \E t \in Threads : Calls(t) \/ Continue(t)

Spec == Init /\ [][Next]_vars

\* Every thread runs, and a thread that holds the lock unlocks it.  The calls of a thread
\* being bounded, it does not take the mutex again for ever before another that waits.
FairSpec == Spec /\ \A t \in Threads : WF_vars(Continue(t))

-----------------------------------------------------------------------------
(* Properties.                                                             *)

Count == 0..Cardinality(Threads)

TypeOK ==
    /\ mutex \in [owner : Threads \cup {NoThread}, recursive : 0..1, sem : 0..1]
    /\ cond \in [sem : Nat, handshake : Nat, num_waiting : Count, num_signals : Count]
    /\ cond.num_signals <= cond.num_waiting
    /\ todo \in [Threads -> Seq({"lock", "trylock", "unlock", "release", "enter", "sleep",
                                 "timed sleep", "leave", "signal", "one", "broadcast",
                                 "handshake", "read", "write", "trywrite", "drop"})]
    /\ due \in [Threads -> SUBSET Threads]
    /\ rwlock.reader_count \in Nat /\ rwlock.writer_count \in 0..1
    /\ holds \in [Threads -> [read : Nat, write : Nat]]
    /\ client \in {"rwlock", "app"} /\ calls \in [Threads -> 0..MaxCalls]

\* "no one else can hold the [lock] (for reading or writing) at the same time as the
\* writing thread", and the assertion of SDL_LockRWLockForReading: a reader that has the
\* mutex sees no writer.
Exclusion ==
    \A t \in Threads :
        /\ holds[t].write > 0 => \A u \in Threads \ {t} : Unheld(u)
        /\ Step(t, "read") => rwlock.writer_count = 0

\* A signal returns when one of the threads that waited when it was given has been
\* released, a broadcast when all of them have: no other thread can take their place.
WaitersReleased == \A t \in Threads : due[t] # {} => "handshake" \in Steps(t)

\* "Restart all threads that are waiting on the condition variable" (SDL_mutex.h:890): after
\* a broadcast has returned no thread that it found waiting sleeps on unsignalled.
NoneLeftAsleep ==
    \A t \in Threads : "handshake" \notin Steps(t) =>
        \A u \in due[t] : ~(Step(u, "sleep") /\ cond.sem = 0)

\* A call returns, if only the app's untimed waits are not signalled: a writer gets the
\* lock, a reader that unlocks gets the handshakes of the writers it has woken.
CallsReturn ==
    \A t \in Threads :
        todo[t] # <<>> ~> todo[t] = <<>> \/ (client = "app" /\ Step(t, "sleep"))
=============================================================================
