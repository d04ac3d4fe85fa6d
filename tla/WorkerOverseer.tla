-------------------------- MODULE WorkerOverseer --------------------------
(***************************************************************************)
(* How the Symbian server learns of Apache's worker threads.  A worker     *)
(* first calls back (notify_about_worker): it takes the semaphore, leaves  *)
(* its id with the overseer and completes the overseer's request.  The     *)
(* server's thread then sets a CThreadWaiter on it and makes the overseer  *)
(* ready for the next one, which is what signals the semaphore.  The       *)
(* waiters tell the server of the death of any thread.  At the end the     *)
(* destructor takes waiters, overseer and semaphore away.                  *)
(*                                                                         *)
(* The handlers of the server run in one thread, so each is one action;    *)
(* the callback runs in the worker's thread and takes three steps.  Apache *)
(* here only creates workers and joins them; the rest of it is in Mpm, and *)
(* the rest of the server in HttpdServer.                                  *)
(***************************************************************************)
EXTENDS Naturals

CONSTANTS
    Workers,   \* ids of worker threads; a thread is never run twice
    None,      \* no worker
    Faults     \* the failures the environment may inject

ASSUME NoneAssumption == None \notin Workers

FaultKinds == {"settings", "create", "logon", "memory", "panic", "exit"}

ASSUME FaultsAssumption == Faults \subseteq FaultKinds

VARIABLES
    phase,      \* of the server's process
    state,      \* iState; "Started" until a stop has been asked for
    semaphore,  \* the count of iSemaphore
    active,     \* ipWorkerOverseer->IsActive()
    complete,   \* its iStatus is no longer KRequestPending
    iWorker,    \* the id a worker left with the overseer
    waiters,    \* ipWaiters: the workers a CThreadWaiter is set on
    httpd,      \* the main thread of Apache
    watched,    \* a CThreadWaiter is set on it
    worker      \* where each worker is

overseerVars == <<semaphore, active, complete, iWorker>>
threadVars == <<httpd, watched, worker>>
vars == <<phase, state, overseerVars, waiters, threadVars>>

\* "stopped": the scheduler no longer runs; "unwatched", "deleted": the
\* destructor has deleted the waiters, then the overseer and the semaphore;
\* "stray", "double": the active scheduler has found a request completed that
\* was not active, or made active twice, and panics the thread.
Phases ==
    {"serving", "stopped", "unwatched", "deleted", "ended", "panicked",
     "stray", "double"}

TypeOK ==
    /\ phase \in Phases
    /\ state \in {"NotStarted", "Started", "Stopping", "Stopped", "Terminated"}
    /\ semaphore \in 0 .. 1
    /\ active \in BOOLEAN
    /\ complete \in BOOLEAN
    /\ iWorker \in Workers \cup {None}
    /\ waiters \subseteq Workers
    /\ httpd \in {"none", "runs", "ended", "panicked"}
    /\ watched \in BOOLEAN
    /\ worker \in [Workers ->
          {"none", "calling", "writing", "completing", "running", "ended",
           "panicked", "joined"}]

Init ==
    /\ phase = "serving"
    /\ state = "NotStarted"
    /\ semaphore = 0
    /\ active = FALSE
    /\ complete = FALSE
    /\ iWorker = None
    /\ waiters = {}
    /\ httpd = "none"
    /\ watched = FALSE
    /\ worker = [w \in Workers |-> "none"]

-----------------------------------------------------------------------------
(* The overseer.                                                           *)

\* SetActive of an object that is active already panics.
Activate ==
    /\ phase' = IF active THEN "double" ELSE phase
    /\ complete' = FALSE
    /\ active' = TRUE
    /\ semaphore' = semaphore + 1

ActivateIfIdle == IF active THEN UNCHANGED <<phase, complete, active, semaphore>>
                            ELSE Activate

\* Wrong: the id is written without waiting for the overseer.
WaitNot(w) ==
    /\ worker[w] = "calling"
    /\ worker' = [worker EXCEPT ![w] = "writing"]
    /\ UNCHANGED <<phase, state, overseerVars, waiters, httpd, watched>>

\* The worker's part of the handshake.
Wait(w) ==
    /\ worker[w] = "calling"
    /\ semaphore > 0
    /\ semaphore' = semaphore - 1
    /\ worker' = [worker EXCEPT ![w] = "writing"]
    /\ UNCHANGED <<phase, state, active, complete, iWorker, waiters, httpd, watched>>

\* The semaphore's handle is closed: the worker panics.
WaitPanics(w) ==
    /\ worker[w] = "calling"
    /\ phase = "deleted"
    /\ worker' = [worker EXCEPT ![w] = "panicked"]
    /\ UNCHANGED <<phase, state, overseerVars, waiters, httpd, watched>>

WriteId(w) ==
    /\ worker[w] = "writing"
    /\ iWorker' = w
    /\ worker' = [worker EXCEPT ![w] = "completing"]
    /\ UNCHANGED <<phase, state, semaphore, active, complete, waiters, httpd, watched>>

\* A completion that no active object waits for panics the scheduler, if it
\* still runs.
Complete(w) ==
    /\ worker[w] = "completing"
    /\ worker' = [worker EXCEPT ![w] = "running"]
    /\ complete' = TRUE
    /\ phase' = IF phase = "serving" /\ (~active \/ complete) THEN "stray" ELSE phase
    /\ UNCHANGED <<state, semaphore, active, iWorker, waiters, httpd, watched>>

Callback(w) == Wait(w) \/ WaitPanics(w) \/ WriteId(w) \/ Complete(w)

\* Wrong: the next worker is let in before this one is watched.
WatchLater ==
    /\ phase = "serving"
    /\ active /\ complete
    /\ complete' = FALSE
    /\ semaphore' = semaphore + 1
    /\ UNCHANGED <<phase, active, state, iWorker, waiters, threadVars>>

\* Wrong: RunL is not followed by Activate.
WatchOnce ==
    /\ phase = "serving"
    /\ active /\ complete
    /\ worker[iWorker] # "joined"
    /\ waiters' = waiters \cup {iWorker}
    /\ active' = FALSE
    /\ UNCHANGED <<phase, complete, semaphore, state, iWorker, threadVars>>

\* The server's part: RunL.  The worker may have ended by now, which does not
\* matter as long as it has not been joined: then its id is no longer known.
Watch ==
    /\ phase = "serving"
    /\ active /\ complete
    /\ worker[iWorker] # "joined"
    /\ waiters' = waiters \cup {iWorker}
    /\ phase' = phase
    /\ complete' = FALSE
    /\ active' = TRUE
    /\ semaphore' = semaphore + 1
    /\ UNCHANGED <<state, iWorker, threadVars>>

\* WorkerCreated cannot make or set the waiter: PanicServer.
WatchFails ==
    /\ phase = "serving"
    /\ active /\ complete
    /\ worker[iWorker] = "joined" \/ "memory" \in Faults
    /\ phase' = "panicked"
    /\ UNCHANGED <<state, overseerVars, waiters, threadVars>>

RunL == Watch \/ WatchFails

-----------------------------------------------------------------------------
(* The server's other handlers, as far as they concern the threads.        *)

\* Starting is told first; GetSettingsL may leave before the overseer is made
\* active, and the state stays.
StartHttpdLeaves ==
    /\ phase = "serving" /\ state = "NotStarted"
    /\ "settings" \in Faults
    /\ state' = "Started"
    /\ UNCHANGED <<phase, overseerVars, waiters, threadVars>>

\* DoStartHttpdL has no memory or no thread: back to NotStarted, but the
\* overseer stays active.
StartHttpdFails ==
    /\ phase = "serving" /\ state = "NotStarted"
    /\ "create" \in Faults
    /\ ActivateIfIdle
    /\ UNCHANGED <<state, iWorker, waiters, threadVars>>

\* A failure to log on to the main thread is ignored.
StartHttpd ==
    /\ phase = "serving" /\ state = "NotStarted"
    /\ ActivateIfIdle
    /\ state' = "Started"
    /\ httpd' = "runs"
    /\ watched' \in {TRUE} \cup (IF "logon" \in Faults THEN {FALSE} ELSE {})
    /\ UNCHANGED <<iWorker, waiters, worker>>

\* iState becomes Stopping or iShouldExit is set; what Detach does is the same.
StopHttpd ==
    /\ phase = "serving" /\ state = "Started"
    /\ state' = "Stopping"
    /\ UNCHANGED <<phase, overseerVars, waiters, threadVars>>

\* The last session is detached.
Detach ==
    /\ phase = "serving" /\ state \in {"NotStarted", "Stopping"}
    /\ phase' = "stopped"
    /\ UNCHANGED <<state, overseerVars, waiters, threadVars>>

\* ThreadDeath of the main thread.
HttpdDeath ==
    /\ phase = "serving"
    /\ watched /\ httpd \in {"ended", "panicked"}
    /\ state' = IF httpd = "ended" THEN "Stopped" ELSE "Terminated"
    /\ phase' = "stopped"
    /\ UNCHANGED <<overseerVars, waiters, threadVars>>

\* ThreadDeath of a worker that exited: its waiter is found and deleted.
WorkerDeath(w) ==
    /\ phase = "serving"
    /\ w \in waiters /\ worker[w] \in {"ended", "joined"}
    /\ waiters' = waiters \ {w}
    /\ UNCHANGED <<phase, state, overseerVars, threadVars>>

\* ThreadDeath of a worker that paniced.
WorkerPanicked(w) ==
    /\ phase = "serving"
    /\ w \in waiters /\ worker[w] = "panicked"
    /\ state' = "Terminated"
    /\ phase' = "stopped"
    /\ UNCHANGED <<overseerVars, waiters, threadVars>>

\* The destructor: the waiters, then the mpm's lock and the overseer, which is
\* cancelled if it is active, with the semaphore.  Then the process ends.
DeleteWaiters ==
    /\ phase = "stopped"
    /\ phase' = "unwatched"
    /\ waiters' = {}
    /\ watched' = FALSE
    /\ UNCHANGED <<state, overseerVars, httpd, worker>>

DeleteOverseer ==
    /\ phase = "unwatched"
    /\ phase' = "deleted"
    /\ active' = FALSE
    /\ semaphore' = 0
    /\ UNCHANGED <<state, complete, iWorker, waiters, threadVars>>

MainReturns ==
    /\ phase = "deleted"
    /\ phase' = "ended"
    /\ UNCHANGED <<state, overseerVars, waiters, threadVars>>

-----------------------------------------------------------------------------
(* Apache, while the process is there.                                     *)

Lives == phase \in {"serving", "stopped", "unwatched", "deleted"}

Spawn(w) ==
    /\ httpd = "runs" /\ worker[w] = "none"
    /\ worker' = [worker EXCEPT ![w] = "calling"]
    /\ UNCHANGED <<phase, state, overseerVars, waiters, httpd, watched>>

WorkerExits(w) ==
    /\ worker[w] = "running"
    /\ worker' = [worker EXCEPT ![w] = "ended"]
    /\ UNCHANGED <<phase, state, overseerVars, waiters, httpd, watched>>

\* A worker panics in what it does after the callback.  The callback itself makes
\* four calls to the kernel, which panic only on a handle that has been closed:
\* see WaitPanics.
WorkerPanics(w) ==
    /\ "panic" \in Faults
    /\ worker[w] = "running"
    /\ worker' = [worker EXCEPT ![w] = "panicked"]
    /\ UNCHANGED <<phase, state, overseerVars, waiters, httpd, watched>>

\* apr_thread_join: the last handle is closed and the id means nothing more.
Join(w) ==
    /\ httpd = "runs" /\ worker[w] = "ended"
    /\ worker' = [worker EXCEPT ![w] = "joined"]
    /\ UNCHANGED <<phase, state, overseerVars, waiters, httpd, watched>>

\* apache_main returns once every worker is joined.
HttpdReturns ==
    /\ httpd = "runs"
    /\ \A w \in Workers : worker[w] \in {"none", "joined"}
    /\ httpd' = "ended"
    /\ UNCHANGED <<phase, state, overseerVars, waiters, watched, worker>>

HttpdPanics ==
    /\ "panic" \in Faults
    /\ httpd = "runs"
    /\ httpd' = "panicked"
    /\ UNCHANGED <<phase, state, overseerVars, waiters, watched, worker>>

\* exit() in the main thread ends the process.
HttpdExits ==
    /\ "exit" \in Faults
    /\ httpd = "runs"
    /\ phase' = "ended"
    /\ UNCHANGED <<state, overseerVars, waiters, threadVars>>

Apache ==
    /\ Lives
    /\ \/ HttpdReturns \/ HttpdPanics \/ HttpdExits
       \/ \E w \in Workers :
             \/ Spawn(w) \/ Join(w) \/ WorkerExits(w) \/ WorkerPanics(w)
             \/ Callback(w)

Server ==
    \/ RunL
    \/ StartHttpd \/ StartHttpdFails \/ StartHttpdLeaves \/ StopHttpd \/ Detach
    \/ HttpdDeath
    \/ \E w \in Workers : WorkerDeath(w) \/ WorkerPanicked(w)
    \/ DeleteWaiters \/ DeleteOverseer \/ MainReturns

\* The process is gone.
Gone == ~Lives /\ UNCHANGED vars

Next == Apache \/ Server \/ Gone

\* The server's scheduler serves its objects, and a worker in the callback
\* goes on.  Apache itself is not asked to do anything.
Fairness ==
    /\ WF_vars(RunL)
    /\ WF_vars(HttpdDeath)
    /\ \A w \in Workers :
          /\ WF_vars(WorkerDeath(w) \/ WorkerPanicked(w))
          /\ WF_vars(Lives /\ Callback(w))

Spec == Init /\ [][Next]_vars /\ Fairness

-----------------------------------------------------------------------------
(* Properties.                                                             *)

Inside(w) == worker[w] \in {"writing", "completing"}
Exists == phase \in {"serving", "stopped", "unwatched"}

\* Workers hand over one at a time, and each to an overseer that waits: while
\* the overseer is active and nothing has been handed over, either the
\* semaphore may be taken or one worker has taken it; otherwise neither.
HandshakeExclusive ==
    /\ \A v, w \in Workers : Inside(v) /\ Inside(w) => v = w
    /\ Exists /\ active /\ ~complete =>
          (semaphore = 1 <=> \A w \in Workers : ~Inside(w))
    /\ Exists /\ (~active \/ complete) =>
          semaphore = 0 /\ \A w \in Workers : ~Inside(w)

\* The server's thread is never signalled without an active object that waits
\* for it, nor is the overseer made active twice: either would panic the server.
NoStraySignal == phase \notin {"stray", "double"}

\* What RunL reads is the id of the worker that signalled, and that one is not
\* watched yet.
RightWorker ==
    Exists /\ active /\ complete =>
        /\ iWorker \in Workers \ waiters
        /\ worker[iWorker] \in {"running", "ended", "panicked", "joined"}

\* A worker that waits to be let in is never left to itself while the server
\* serves: it may go in, or the one before it is inside or about to be watched.
NoneTurnedAway ==
    phase = "serving" /\ (\E w \in Workers : worker[w] = "calling") =>
        \/ semaphore > 0
        \/ \E w \in Workers : Inside(w)
        \/ active /\ complete

\* The handshake as a whole: a worker's message reaches a server that waits for
\* it, reaches it unmixed with another's, and no worker waits for a server that
\* has nothing to do.
Handshake == HandshakeExclusive /\ NoStraySignal /\ RightWorker /\ NoneTurnedAway

\* No worker runs, and none has paniced, without the server having set a
\* waiter on it or being about to.
EveryWorkerWatched ==
    phase = "serving" =>
        \A w \in Workers :
            worker[w] \in {"running", "panicked"} =>
                w \in waiters \/ (active /\ complete /\ iWorker = w)

\* The server does not go on with an Apache one of whose workers has paniced.
DeathNoticed ==
    \A w \in Workers : worker[w] = "panicked" ~> phase # "serving"

\* A worker that calls back gets on with its work as long as the server serves.
CallbackReturns ==
    \A w \in Workers :
        worker[w] = "calling" ~>
            phase # "serving" \/ worker[w] \notin {"calling", "writing", "completing"}

\* No thread of Apache is left unattended: those that call back are let go on,
\* those that have paniced are noticed.
ThreadsServed == DeathNoticed /\ CallbackReturns
=============================================================================
