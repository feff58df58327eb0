--------------------------- MODULE AsyncIOContract ---------------------------
(***************************************************************************)
(* What asynchronous file i/o promises to an app, as SDL_asyncio.h states  *)
(* it and as the front end of src/src/io/SDL_asyncio.c arranges it: which  *)
(* requests a file accepts, that each is finished once and consumed once,  *)
(* and that a file is closed after everything else on it was consumed.     *)
(* Threads, locks, lists and counters are not here.                        *)
(***************************************************************************)
CONSTANTS Files, Tasks, NoTask

VARIABLES stream,    \* the file's stream: none yet, open, or closed
          pending,   \* the requests of the file that the app has not consumed
          closeTask, \* the request that closes the file
          status     \* of each request

vars == <<stream, pending, closeTask, status>>

Init ==
    /\ stream = [f \in Files |-> "none"]
    /\ pending = [f \in Files |-> {}]
    /\ closeTask = [f \in Files |-> NoTask]
    /\ status = [t \in Tasks |-> "unused"]

\* SDL_AsyncIOFromFile.
Open(f) ==
    /\ stream[f] = "none"
    /\ stream' = [stream EXCEPT ![f] = "open"]
    /\ UNCHANGED <<pending, closeTask, status>>

\* SDL_ReadAsyncIO, SDL_WriteAsyncIO: refused once the file is closing.
Submit(f, t) ==
    /\ stream[f] = "open" /\ closeTask[f] = NoTask /\ status[t] = "unused"
    /\ pending' = [pending EXCEPT ![f] = @ \cup {t}]
    /\ status' = [status EXCEPT ![t] = "submitted"]
    /\ UNCHANGED <<stream, closeTask>>

\* SDL_CloseAsyncIO.  A close that has nothing to wait for may be canceled at once.
SubmitClose(f, t) ==
    /\ stream[f] = "open" /\ closeTask[f] = NoTask /\ status[t] = "unused"
    /\ pending' = [pending EXCEPT ![f] = @ \cup {t}]
    /\ closeTask' = [closeTask EXCEPT ![f] = t]
    /\ \E s \in IF pending[f] = {} THEN {"submitted", "finished"} ELSE {"submitted"} :
          status' = [status EXCEPT ![t] = s]
    /\ UNCHANGED stream

\* A read or a write is done, or anything is canceled; a close is not canceled
\* before its turn.
Finish(f, t) ==
    /\ t \in pending[f] /\ status[t] = "submitted"
    /\ t = closeTask[f] => pending[f] = {t}
    /\ status' = [status EXCEPT ![t] = "finished"]
    /\ UNCHANGED <<stream, pending, closeTask>>

\* The close is done: it is the only request left.
FinishClose(f, t) ==
    /\ t = closeTask[f] /\ pending[f] = {t} /\ status[t] = "submitted"
    /\ status' = [status EXCEPT ![t] = "finished"]
    /\ stream' = [stream EXCEPT ![f] = "closed"]
    /\ UNCHANGED <<pending, closeTask>>

\* The app consumes a result.  If only the close is left, it may be canceled.
Consume(f, t) ==
    /\ t \in pending[f] /\ status[t] = "finished"
    /\ pending' = [pending EXCEPT ![f] = @ \ {t}]
    /\ \/ status' = [status EXCEPT ![t] = "consumed"]
       \/ /\ pending[f] = {t, closeTask[f]} /\ t # closeTask[f]
          /\ status' = [status EXCEPT ![t] = "consumed", ![closeTask[f]] = "finished"]
    /\ UNCHANGED <<stream, closeTask>>

Next ==
    \E f \in Files :
       \/ Open(f)
       \/ \E t \in Tasks : \/ Submit(f, t) \/ SubmitClose(f, t) \/ Finish(f, t)
                           \/ FinishClose(f, t) \/ Consume(f, t)

Spec == Init /\ [][Next]_vars
=============================================================================
